CONSTANTS
  t1 = t1
  t2 = t2
  a = a
  b = b
  player = player
  peer = peer
  NoSlot = NoSlot
  NoSession = NoSession
  Threads = {t1}
  Sessions = {a}
  SlotCount = 2
  NoIdentity = NoIdentity
  Identities = {player, peer}
  Tables <- TwoTables
  Kinds <- MCKinds
  Arguments <- MCArguments
  Modes = {TRUE, FALSE}
  BankLimit = 1
  Reuse = TRUE
  MaxCalls = 2
  MaxChanges = 2
SPECIFICATION Spec
INVARIANTS TypeOK EligibleProposalChanged
PROPERTIES WritesAreSanctioned EventsTellTheTruth

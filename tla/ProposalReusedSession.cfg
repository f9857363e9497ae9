CONSTANTS
  t1 = t1
  t2 = t2
  a = a
  b = b
  player = player
  peer = peer
  NoSlot = NoSlot
  NoSession = NoSession
  Threads = {t1}
  Sessions = {a}
  SlotCount = 2
  NoIdentity = NoIdentity
  Identities = {player}
  Tables <- OneTable
  Kinds <- MutatingKinds
  Arguments <- OneArgument
  Modes = {TRUE}
  BankLimit = 1
  Reuse = TRUE
  MaxCalls = 2
  MaxChanges = 0
SPECIFICATION Spec
PROPERTIES MirrorFollowsProposal

CONSTANTS
  t1 = t1
  t2 = t2
  a = a
  b = b
  player = player
  peer = peer
  NoSlot = NoSlot
  NoSession = NoSession
  Threads = {t1, t2}
  Sessions = {a, b}
  SlotCount = 2
  NoIdentity = NoIdentity
  Identities = {player}
  Tables <- OneTable
  Kinds <- MutatingKinds
  Arguments <- OneArgument
  Modes = {TRUE}
  BankLimit = 1
  Reuse = FALSE
  MaxCalls = 3
  MaxChanges = 0
SPECIFICATION Spec
SYMMETRY Symmetry
INVARIANTS ArmedSourceMirrored CallsAccounted
PROPERTIES MirrorFollowsProposal

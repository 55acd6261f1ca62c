CONSTANTS
  Approvals <- MCApprovals
  question = question
  approval = approval
  Asks <- MCAsks
  MaxOutages = 1
  MaxWire = 2
  MaxMessages = 1
  MaxTools = 1
  NoKey <- none
  none = none
  MaxCommands = 2
  MaxWaiters = 2
  MaxPosts = 2
SPECIFICATION MCSpec
INVARIANT BackstopCovers
INVARIANT WaitsNeverUndercounted
INVARIANT DeclinesAreTimely
INVARIANT ExecutedOnceInOrder
INVARIANT NoMissedWakeUp
INVARIANT KeyIsAccepted
PROPERTY LedgerImplemented
CHECK_DEADLOCK FALSE

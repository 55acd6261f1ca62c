CONSTANTS
  Agents = {a1, a2}
  NoAgent = none
  MaxNotices = 1
  MaxCalls = 2
  MaxTurns = 2
SPECIFICATION OverlaysSpec
PROPERTY DismissingIsNotCancelling
CHECK_DEADLOCK FALSE

CONSTANTS
  MaxTurns = 2
  Plans <- MCPlans
SPECIFICATION TranscriptSpec
INVARIANT ReadsBackAsOnScreen
CHECK_DEADLOCK FALSE

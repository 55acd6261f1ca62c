CONSTANTS
  Ids = {k1, k2}
  NoId = none
  Fresh = fresh
  MaxKeyCalls = 2
  MaxServiceCalls = 1
  MaxNodeCalls = 1
  MaxFile = 2
  MaxTurns = 2
  Plans <- MCPlans
  c1 = c1
  c2 = c2
  brain = brain
  Chats = {c1, c2}
  NoChat = nochat
  Groups = {brain}
  Brain = brain
  Cut = 1
  FirstRows <- MCRows
  MaxChanges = 1
  MaxCalls = 1
  MaxVisits = 2
SPECIFICATION MCSpec
SYMMETRY Interchangeable
INVARIANT OwnTermsOnly
INVARIANT TranscriptIsWhole
PROPERTY SidebarKeeps
CHECK_DEADLOCK FALSE

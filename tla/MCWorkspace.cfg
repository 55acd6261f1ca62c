CONSTANTS
  a1 = a1
  r1 = r1
  r2 = r2
  none = none
  operator = operator
  Agents <- MCAgents
  Runs <- MCRuns
  Calls <- MCCalls
  agentOf <- MCAgentOf
  NoCall <- none
  Operator <- operator
  local = local
  remote = remote
  Crew <- MCCrew
  Remote <- MCRemote
  Passes = {p1, p2}
  FirstDisks <- MCFirstDisks
  MaxUnrest = 2
SPECIFICATION MCSpec
INVARIANT CarriedOffIsReported
INVARIANT WorkIsCommitted
PROPERTY EveryRunCloses
PROPERTY DocsConverge
PROPERTY OthersWorkIsLeftAlone
CHECK_DEADLOCK FALSE

CONSTANTS
  Approvals <- MCNone
  question = question
  approval = approval
  Asks <- MCOneAsk
  MaxOutages = 1
  MaxWire = 1
  MaxMessages = 1
  MaxTools = 1
  first = first
  second = second
  other = other
  chat = chat
  api = api
  NoSub = NoSub
  Subs <- MCSubs
  Sessions <- MCSessions
  sessionOf <- MCSessionOf
SPECIFICATION MCSpec
INVARIANT SubscribersAreServed
PROPERTY TurnEnds
PROPERTY FeedImplemented
PROPERTY StreamComesUp
CHECK_DEADLOCK FALSE

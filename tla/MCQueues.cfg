CONSTANTS
  chat = chat
  conversation = conversation
  m1 = m1
  m2 = m2
  m3 = m3
  call1 = call1
  call2 = call2
  note1 = note1
  note2 = note2
  none = none
  Chats <- MCChats
  Outward <- MCOutward
  Messages <- MCMessages
  chatOf <- MCChatOf
  FromApi <- MCFromApi
  NoTurn <- none
  MaxRestarts = 1
  MaxMsgs = 2
  Asking = {1}
  MaxWire = 2
  Plans <- MCPlans
SPECIFICATION MCSpec
CONSTRAINT MCOneChatAtATime
INVARIANT OneTurnAtATime
INVARIANT ServedInOrder
INVARIANT QueueIsWatched
PROPERTY SessionIsKept
PROPERTY ArchivedStartsNothing
INVARIANT OpenAskHasACard
INVARIANT AnswersShownOnce
CHECK_DEADLOCK FALSE

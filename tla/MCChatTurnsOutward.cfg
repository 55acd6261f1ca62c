CONSTANTS
  chat = chat
  conversation = conversation
  m1 = m1
  m2 = m2
  m3 = m3
  call1 = call1
  call2 = call2
  note1 = note1
  note2 = note2
  none = none
  Chats <- MCChats
  Outward <- MCOutward
  Messages <- MCMessages
  chatOf <- MCChatOf
  FromApi <- MCFromApi
  NoTurn <- none
  MaxRestarts = 1
SPECIFICATION Spec
CONSTRAINT MCOneChatAtATime
INVARIANT OneTurnInEveryChat
CHECK_DEADLOCK FALSE

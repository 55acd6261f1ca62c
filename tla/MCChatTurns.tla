---------------------------- MODULE MCChatTurns ----------------------------
(* An internal chat with three messages, and an outward conversation that  *)
(* two calls of the API and two notes of an operator meet in.  Nothing      *)
(* relates two chats, so a behaviour of the model uses one of them.         *)
EXTENDS ChatTurns, TLC

CONSTANTS chat, conversation, m1, m2, m3, call1, call2, note1, note2, none

MCChats == {chat, conversation}
MCOutward == {conversation}
MCFromApi == {call1, call2}
MCMessages == {m1, m2, m3, call1, call2, note1, note2}
MCChatOf == [m \in MCMessages |-> IF m \in {m1, m2, m3} THEN chat ELSE conversation]

MCOneChatAtATime ==
  \E c \in MCChats :
    accepted[c] = <<>> /\ session[c] = none /\ ~archived[c] /\ ~idle[c]
=============================================================================

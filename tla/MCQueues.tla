------------------------------ MODULE MCQueues ------------------------------
(* Two parts of the manager where messages wait for each other, one at a    *)
(* time.  "turns": the turns of a chat, as in MCChatTurns.  "page": the page *)
(* of a conversation, with two messages and no upset, or with one message   *)
(* and two upsets.                                                          *)
EXTENDS MCChatTurns, ChatPage

MCPlans == {[msgs |-> 2, upsets |-> 0], [msgs |-> 1, upsets |-> 2]}

VARIABLE part

queueVars == <<part, vars, chatPageVars>>

MCInit ==
    /\ part \in {"turns", "page"}
    /\ Init /\ PageInit
    /\ part # "page" => plan = CHOOSE p \in Plans : TRUE

MCNext ==
    /\ UNCHANGED part
    /\ \/ part = "turns" /\ Next /\ UNCHANGED chatPageVars
       \/ part = "page" /\ PageNext /\ UNCHANGED vars

MCSpec == MCInit /\ [][MCNext]_queueVars
=============================================================================

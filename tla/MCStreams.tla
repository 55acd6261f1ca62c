----------------------------- MODULE MCStreams -----------------------------
(* What must come to an end.  "turn": one turn with one ask.  "streams":    *)
(* one endpoint, two sessions and three subscriptions, two of them of one   *)
(* session, as of two turns of a chat; the turn of this part is over.       *)
EXTENDS MCTurn, Mux

CONSTANTS first, second, other, chat, api

MCSubs == {first, second, other}
MCSessions == {chat, api}
MCSessionOf == first :> chat @@ second :> chat @@ other :> api

VARIABLE part

streamVars == <<part, vars, muxVars>>

TurnIsOver == TurnAt("over") /\ ~outward /\ hostAsks = {} /\ link = "up"

MCInit ==
  /\ part \in {"turn", "streams"}
  /\ IF part = "turn" THEN Init ELSE TurnIsOver
  /\ MuxInit

MCNext ==
  /\ UNCHANGED part
  /\ \/ part = "turn" /\ Next /\ UNCHANGED muxVars
     \/ part = "streams" /\ MuxNext /\ UNCHANGED vars

MCSpec == MCInit /\ [][MCNext]_streamVars /\ Fairness /\ MuxFairness
=============================================================================

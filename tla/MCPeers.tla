------------------------------ MODULE MCPeers ------------------------------
(* The manager with another process, one at a time.  "turn": one turn, with *)
(* two asks of its session and one outage of the stream from the host.      *)
(* "commands": the command channel with a machine's agent, with two         *)
(* commands of which any may rotate its key.                                *)
EXTENDS MCTurn, AgentChannel

CONSTANT none

VARIABLE part

peerVars == <<part, vars, channelVars>>

MCInit ==
    /\ part \in {"turn", "commands"}
    /\ Init /\ ChannelInit
    /\ part = "turn" => capable
    /\ part = "commands" => ~outward /\ hostAsks = {} /\ link = "up"

MCNext ==
    /\ UNCHANGED part
    /\ \/ part = "turn" /\ Next /\ UNCHANGED channelVars
       \/ part = "commands" /\ ChannelNext /\ UNCHANGED vars

MCSpec == MCInit /\ [][MCNext]_peerVars
=============================================================================

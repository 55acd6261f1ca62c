------------------------------- MODULE MCTurn -------------------------------
(* One turn, two asks of its session, one outage.                           *)
EXTENDS Turn, TLC

CONSTANTS question, approval

MCAsks == {question, approval}
MCApprovals == {approval}

(* One ask is enough where only the end of the turn is looked at.           *)
MCOneAsk == {question}
MCNone == {}
=============================================================================

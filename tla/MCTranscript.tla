---------------------------- MODULE MCTranscript ----------------------------
(* Six events of every type, or seven of those that carry an answer: room   *)
(* for a second turn.                                                       *)
EXTENDS Transcript

Answering == {"user/message", "turn/start", "assistant/chunk", "assistant/message", "turn/end"}

MCPlans ==
  {[events |-> 6, types |-> Answering \union {"tool/call", "tool/result", "session/other"}],
   [events |-> 7, types |-> Answering]}
=============================================================================

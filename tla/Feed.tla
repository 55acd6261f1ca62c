-------------------------------- MODULE Feed --------------------------------
(***************************************************************************)
(* What src/src/upstream/mux.ts promises to whoever subscribes to a         *)
(* session's events: a stream that may break, and that says so when it      *)
(* comes back ("Debt A4").  The frames sent before the stream was open for  *)
(* the first time are not part of the promise.                              *)
(***************************************************************************)
CONSTANT Subs   \* the subscriptions

VARIABLES
  stage,   \* new, on or off
  link,    \* what stands between the subscriber and the host
  gap      \* frames were lost and the subscriber has not been told

feedVars == <<stage, link, gap>>

TypeOK ==
  /\ stage \in [Subs -> {"new", "on", "off"}]
  /\ link \in [Subs -> {"none", "connecting", "up", "lost"}]
  /\ gap \in [Subs -> BOOLEAN]

Init ==
  /\ stage = [s \in Subs |-> "new"]
  /\ link = [s \in Subs |-> "none"]
  /\ gap = [s \in Subs |-> FALSE]

(* A subscriber may join a stream in any condition.                         *)
Join(s) ==
  /\ stage[s] = "new"
  /\ stage' = [stage EXCEPT ![s] = "on"]
  /\ \E condition \in {"connecting", "up", "lost"} : link' = [link EXCEPT ![s] = condition]
  /\ UNCHANGED gap

(* The host sends something; who has lost the stream misses it.             *)
Miss(who) ==
  /\ \A s \in who : link[s] = "lost"
  /\ gap' = [s \in Subs |-> gap[s] \/ s \in who]
  /\ UNCHANGED <<stage, link>>

(* The stream is open: those who had lost it are told.                      *)
Open(who) ==
  /\ \A s \in who : link[s] \in {"connecting", "lost"}
  /\ link' = [s \in Subs |-> IF s \in who THEN "up" ELSE link[s]]
  /\ gap' = [s \in Subs |-> gap[s] /\ s \notin who]
  /\ UNCHANGED stage

Break(who) ==
  /\ \A s \in who : link[s] = "up"
  /\ link' = [s \in Subs |-> IF s \in who THEN "lost" ELSE link[s]]
  /\ UNCHANGED <<stage, gap>>

Leave(s) ==
  /\ stage[s] = "on"
  /\ stage' = [stage EXCEPT ![s] = "off"]
  /\ link' = [link EXCEPT ![s] = "none"]
  /\ gap' = [gap EXCEPT ![s] = FALSE]

Next ==
  \/ \E s \in Subs : Join(s) \/ Leave(s)
  \/ \E who \in SUBSET Subs : Miss(who) \/ Open(who) \/ Break(who)

Spec == Init /\ [][Next]_feedVars
=============================================================================

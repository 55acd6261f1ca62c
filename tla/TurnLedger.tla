----------------------------- MODULE TurnLedger -----------------------------
(***************************************************************************)
(* What a turn promises to the books (docs/adr/0001, "the result must not  *)
(* be lost"; src/src/runner/turn.ts, makeFinish): the run row becomes      *)
(* final once and stays so, a turn that is done has billed exactly what it *)
(* heard, and a turn that failed has billed that or nothing, never more.   *)
(***************************************************************************)
EXTENDS Naturals, Sequences

VARIABLES
  row,      \* run.state
  ledger,   \* the usage records of the run, each as the responses it bills
  heard     \* the responses the turn has heard

ledgerVars == <<row, ledger, heard>>

Bill(n) == IF n = 0 THEN <<>> ELSE <<n>>

Init ==
  /\ row = "running"
  /\ ledger = <<>>
  /\ heard = 0

Hear ==
  /\ row = "running"
  /\ heard' = heard + 1
  /\ UNCHANGED <<row, ledger>>

Close ==
  /\ row = "running"
  /\ row' \in {"done", "failed"}
  /\ ledger' = Bill(heard)
  /\ UNCHANGED heard

(* The accounting transaction failed, or the process died before it.        *)
CloseUnbilled ==
  /\ row = "running"
  /\ row' = "failed"
  /\ UNCHANGED <<ledger, heard>>

Next == Hear \/ Close \/ CloseUnbilled

Spec == Init /\ [][Next]_ledgerVars
=============================================================================

----------------------------- MODULE TurnProofs -----------------------------
(***************************************************************************)
(* Proofs about module Turn, for any set of asks and any bounds, and about  *)
(* module Mux, the connections a turn's stream hangs on, for any            *)
(* subscriptions of any sessions.                                           *)
(*                                                                         *)
(* That subscribers are served is not inductive: a clean-up touches the set *)
(* its subscriber was put in and the connection that set hangs on, so the   *)
(* invariant says which listeners are in which set (SubOK, SetOK) and that  *)
(* a connection is alive exactly while sets hang on it (ConnOK).            *)
(***************************************************************************)
EXTENDS Turn, Mux, FiniteSetTheorems, TLAPS

(* What handleTurnFrame may be given: an ask and its answer carry an id.    *)
LEMMA FrameFacts ==
  /\ \A k \in {"message", "tool_call", "tool_result", "turn_end", "turn_failed",
               "reconnected"} : [kind |-> k] \in Frames
  /\ \A k \in {"ask", "resolved"}, a \in Asks : [kind |-> k, id |-> a] \in Frames
  /\ \A f \in Frames : f.kind \in {"ask", "resolved"} => f.id \in Asks
BY DEF Frames

(* A count of asks is a number.                                             *)
LEMMA AsksCount == \A S \in SUBSET Asks : Cardinality(S) \in Nat
<1>1. SUFFICES ASSUME NEW S \in SUBSET Asks PROVE IsFiniteSet(S)
  BY FS_CardinalityType
<1>. QED  BY <1>1, TurnAssumption, FS_Subset DEF TurnAssumption

(* finish leaves a final row or the one it found, and books of numbers.     *)
LEMMA FinishBooks ==
  ASSUME BooksOK, NEW s \in {"done", "failed"}, NEW armed, NEW timers,
         Finish(s, armed, timers)
  PROVE  row' \in {"running", "done", "failed"} /\ ledger' \in Seq(Nat)
<1>1. row' \in {"running", "done", "failed"}
  BY DEF BooksOK, Finish, Account
<1>2. ledger' \in Seq(Nat)
  BY DEF BooksOK, Finish, Account
<1>. QED  BY <1>1, <1>2

(* finish leaves the timers off, or as the step has set them.               *)
LEMMA FinishTimers ==
  ASSUME FlagsOK, NEW s, NEW armed \in BOOLEAN, NEW timers \in SUBSET Asks,
         Finish(s, armed, timers)
  PROVE  /\ {totalTimer', silenceTimer'} \subseteq BOOLEAN
         /\ graces' \subseteq Asks
BY DEF FlagsOK, Finish

(* The counts a frame leaves behind are numbers again, none below zero, and *)
(* the grace timers are those of asks.                                      *)
LEMMA CountsAfter ==
  ASSUME AsksOK, NEW f \in Frames
  PROVE  /\ WaitsAfter(f) \in Nat
         /\ ToolsAfter(f) \in Nat
         /\ GracesAfter(f) \in SUBSET Asks
<1>1. waits \in Nat /\ tools \in Nat /\ graces \in SUBSET Asks
  BY DEF AsksOK
<1>2. WaitsAfter(f) \in Nat
  BY <1>1 DEF WaitsAfter, Less
<1>3. ToolsAfter(f) \in Nat
  BY <1>1 DEF ToolsAfter, Less
<1>4. f.kind \in {"ask", "resolved"} => f.id \in Asks
  BY FrameFacts
<1>5. GracesAfter(f) \in SUBSET Asks
  BY <1>1, <1>4 DEF GracesAfter, Graced
<1>. QED  BY <1>2, <1>3, <1>5

(* Whether the backstop is to be armed is a yes or a no.                    *)
LEMMA BackstopFlag ==
  ASSUME FlagsOK, NEW w, NEW t
  PROVE  Backstop(w, t) \in BOOLEAN
BY DEF FlagsOK, Backstop

-----------------------------------------------------------------------------
(* While driveTurn stands at an await past its opening, its opening         *)
(* pendingAsks call is on record.                                           *)
CallMade == pc \in {"asking", "prompting", "waiting"} => fetches # <<>>

(* A turn begins well typed.                                                *)
LEMMA TypeInit == Init => TypeOK
<1>. SUFFICES ASSUME Init PROVE TypeOK
  OBVIOUS
<1>1. FlagsOK /\ BooksOK
  <2>1. FlagsOK
    BY DEF Init, TurnAt, FlagsOK
  <2>2. BooksOK
    BY DEF Init, TurnAt, BooksOK
  <2>. QED  BY <2>1, <2>2
<1>2. AsksOK
  BY DEF Init, TurnAt, AsksOK
<1>3. CallsOK /\ WireOK
  BY DEF Init, TurnAt, CallsOK, WireOK
<1>4. HostOK
  BY TurnAssumption DEF Init, TurnAt, HostOK, TurnAssumption
<1>. QED  BY <1>1, <1>2, <1>3, <1>4 DEF TypeOK

(* The frames under way stay frames: an action leaves them, drops them,     *)
(* takes the first or appends one.                                          *)
LEMMA WireStep ==
  ASSUME WireOK,
         \/ wire' \in {wire, <<>>}
         \/ wire # <<>> /\ wire' = Tail(wire)
         \/ \E f \in Frames : wire' = Append(wire, f)
  PROVE  WireOK'
<1>1. CASE wire' \in {wire, <<>>}
  <2>1. <<>> \in Seq(Frames)
    OBVIOUS
  <2>. QED  BY <1>1, <2>1 DEF WireOK
<1>2. CASE wire # <<>> /\ wire' = Tail(wire)
  BY <1>2 DEF WireOK
<1>3. ASSUME NEW f \in Frames, wire' = Append(wire, f)
      PROVE  WireOK'
  BY <1>3 DEF WireOK
<1>. QED  BY <1>1, <1>2, <1>3

(* What the host emits arrives as a frame or not at all.                    *)
LEMMA EmitStep ==
  ASSUME WireOK, FlagsOK, NEW f \in Frames, Emit(f)
  PROVE  WireOK' /\ missed' \in BOOLEAN
<1>1. CASE wire' = Append(wire, f) /\ missed' = missed
  BY <1>1, WireStep DEF FlagsOK
<1>2. CASE wire' = wire /\ missed' = TRUE
  BY <1>2, WireStep
<1>. QED  BY <1>1, <1>2 DEF Emit

(* The pendingAsks calls: one more, or one that moves on.                   *)
LEMMA CallsStep ==
  ASSUME CallsOK,
         prompt' \in {"unsent", "sent", "taken", "failed"},
         \/ fetches' \in {fetches, <<>>, <<Call>>, Append(fetches, Call)}
         \/ \E k \in Calls, moved \in {"answered", "used"}, asks \in SUBSET Asks :
              fetches' = [fetches EXCEPT ![k] = [stage |-> moved, asks |-> asks]]
  PROVE  CallsOK'
<1>. DEFINE Record == [stage : {"sent", "answered", "used"}, asks : SUBSET Asks]
<1>1. fetches \in Seq(Record)
  BY DEF CallsOK
<1>2. Call \in Record
  BY DEF Call
<1>3. CASE fetches' \in {fetches, <<>>, <<Call>>, Append(fetches, Call)}
  <2>. HIDE DEF Record
  <2>1. <<>> \in Seq(Record) /\ <<Call>> \in Seq(Record) /\ Append(fetches, Call) \in Seq(Record)
    BY <1>1, <1>2
  <2>2. fetches' \in Seq(Record)
    BY <1>1, <1>3, <2>1
  <2>. QED  BY <2>2 DEF CallsOK, Record
<1>4. ASSUME NEW k \in Calls, NEW moved \in {"answered", "used"}, NEW asks \in SUBSET Asks,
             fetches' = [fetches EXCEPT ![k] = [stage |-> moved, asks |-> asks]]
      PROVE  CallsOK'
  <2>1. [stage |-> moved, asks |-> asks] \in Record
    OBVIOUS
  <2>. HIDE DEF Record
  <2>2. fetches' \in Seq(Record)
    BY <1>1, <1>4, <2>1 DEF Calls
  <2>. QED  BY <2>2 DEF CallsOK, Record
<1>. QED  BY <1>3, <1>4

(* What a pendingAsks call has returned is a set of asks.                   *)
LEMMA CallAsks ==
  ASSUME CallsOK, NEW k \in Calls
  PROVE  fetches[k].asks \in SUBSET Asks
<1>. DEFINE Record == [stage : {"sent", "answered", "used"}, asks : SUBSET Asks]
<1>1. fetches \in Seq(Record)
  BY DEF CallsOK
<1>2. fetches[k] \in Record
  <2>. HIDE DEF Record
  <2>. QED  BY <1>1 DEF Calls
<1>. QED  BY <1>2

(* The abort of the signal, whoever pulls it: a stop, the total timeout or  *)
(* the backstop.                                                            *)
LEMMA AbortStep ==
  ASSUME TypeOK, NEW total \in BOOLEAN, NEW armed \in BOOLEAN, Abort(total, armed),
         UNCHANGED <<outward, pc, usage, waits, tools, seen, deciding, fetches, prompt,
                     link, outages, known, missed>>
  PROVE  TypeOK'
<1>. USE DEF TypeOK
<1>0. graces \in SUBSET Asks
  BY DEF AsksOK
<1>1. CASE ~aborted /\ fetches # <<>>
  <2>1. Unsubscribe /\ Cancel /\ Finish("failed", armed, graces) /\ aborted' = TRUE
    BY <1>1 DEF Abort
  <2>2. row' \in {"running", "done", "failed"} /\ ledger' \in Seq(Nat)
    BY <2>1, FinishBooks
  <2>3. {totalTimer', silenceTimer'} \subseteq BOOLEAN /\ graces' \subseteq Asks
    BY <1>0, <2>1, FinishTimers
  <2>4. FlagsOK' /\ AsksOK'
    BY <2>1, <2>3 DEF Unsubscribe, FlagsOK, AsksOK
  <2>5. BooksOK'
    BY <2>2 DEF BooksOK
  <2>6. CallsOK'
    BY DEF CallsOK
  <2>7. HostOK'
    BY <2>1 DEF Cancel, HostOK
  <2>8. WireOK'
    BY <2>1, WireStep DEF Unsubscribe
  <2>. QED  BY <2>4, <2>5, <2>6, <2>7, <2>8
<1>2. CASE ~(~aborted /\ fetches # <<>>)
  <2>1. /\ aborted' = TRUE /\ totalTimer' = total /\ silenceTimer' = armed
        /\ UNCHANGED <<listening, wire, hostVars, row, ledger, graces>>
    BY <1>2 DEF Abort
  <2>. QED  BY <2>1 DEF hostVars, FlagsOK, BooksOK, AsksOK, CallsOK, HostOK, WireOK
<1>. QED  BY <1>1, <1>2

(* The steps of driveTurn itself.                                           *)
LEMMA TurnTypes ==
  ASSUME TypeOK, CallMade,
         \/ Listen \/ OpeningFails \/ SendPrompt \/ PromptAccepted \/ PromptFails \/ Return
  PROVE  TypeOK'
<1>. USE DEF TypeOK, hostVars, linkVars
<1>0. graces \in SUBSET Asks /\ silenceTimer \in BOOLEAN
  BY DEF AsksOK, FlagsOK
<1>1. CASE Listen
  <2>1. CallsOK'
    BY <1>1, CallsStep DEF Listen, CallsOK
  <2>2. CASE aborted
    <3>1. Unsubscribe /\ Cancel /\ Finish("failed", silenceTimer, graces)
      BY <1>1, <2>2 DEF Listen
    <3>2. BooksOK'
      BY <1>1, <3>1, FinishBooks DEF Listen, BooksOK
    <3>3. FlagsOK' /\ AsksOK'
      BY <1>0, <1>1, <3>1, FinishTimers DEF Listen, Unsubscribe, FlagsOK, AsksOK
    <3>4. HostOK'
      BY <1>1, <3>1 DEF Listen, Cancel, HostOK
    <3>5. WireOK'
      BY <3>1, WireStep DEF Unsubscribe
    <3>. QED  BY <2>1, <3>2, <3>3, <3>4, <3>5
  <2>3. CASE ~aborted
    <3>1. WireOK' /\ HostOK'
      BY <1>1, <2>3 DEF Listen, WireOK, HostOK
    <3>2. BooksOK' /\ FlagsOK' /\ AsksOK'
      BY <1>1, <2>3 DEF Listen, BooksOK, FlagsOK, AsksOK
    <3>. QED  BY <2>1, <3>1, <3>2
  <2>. QED  BY <2>2, <2>3
<1>2. CASE OpeningFails
  <2>1. BooksOK'
    BY <1>2, FinishBooks DEF OpeningFails, BooksOK
  <2>2. FlagsOK' /\ AsksOK'
    BY <1>0, <1>2, FinishTimers DEF OpeningFails, FlagsOK, AsksOK
  <2>3. CallsOK' /\ HostOK' /\ WireOK'
    BY <1>2 DEF OpeningFails, CallsOK, HostOK, WireOK
  <2>. QED  BY <2>1, <2>2, <2>3
<1>3. CASE SendPrompt
  <2>1. 1 \in Calls /\ fetches[1].asks \in SUBSET Asks
    <3>1. 1 \in Calls
      BY <1>3 DEF SendPrompt, CallMade, CallsOK, Calls
    <3>. QED  BY <3>1, CallAsks
  <2>2. CallsOK'
    BY <1>3, <2>1, CallsStep DEF SendPrompt, Used
  <2>3. AsksOK'
    <3>1. waits' = waits + Cardinality(fetches[1].asks \ seen)
      BY <1>3 DEF SendPrompt, Recover
    <3>2. waits' \in Nat
      BY <2>1, <3>1, AsksCount DEF AsksOK
    <3>. QED  BY <1>3, <2>1, <3>2 DEF SendPrompt, Recover, Graced, AsksOK
  <2>4. FlagsOK'
    BY <1>3, BackstopFlag DEF SendPrompt, FlagsOK
  <2>5. BooksOK' /\ HostOK' /\ WireOK'
    BY <1>3 DEF SendPrompt, BooksOK, HostOK, WireOK
  <2>. QED  BY <2>2, <2>3, <2>4, <2>5
<1>4. CASE PromptAccepted
  BY <1>4 DEF PromptAccepted, FlagsOK, BooksOK, AsksOK, CallsOK, HostOK, WireOK
<1>5. CASE PromptFails
  <2>1. BooksOK'
    BY <1>5, FinishBooks DEF PromptFails, BooksOK
  <2>2. FlagsOK' /\ AsksOK'
    BY <1>0, <1>5, FinishTimers DEF PromptFails, Unsubscribe, FlagsOK, AsksOK
  <2>3. CallsOK' /\ HostOK'
    BY <1>5 DEF PromptFails, CallsOK, HostOK
  <2>4. WireOK'
    BY <1>5, WireStep DEF PromptFails, Unsubscribe
  <2>. QED  BY <2>1, <2>2, <2>3, <2>4
<1>6. CASE Return
  <2>1. WireOK'
    BY <1>6, WireStep DEF Return, Unsubscribe
  <2>2. FlagsOK' /\ BooksOK' /\ AsksOK' /\ CallsOK' /\ HostOK'
    BY <1>6 DEF Return, Unsubscribe, FlagsOK, BooksOK, AsksOK, CallsOK, HostOK
  <2>. QED  BY <2>1, <2>2
<1>. QED  BY <1>1, <1>2, <1>3, <1>4, <1>5, <1>6

(* A frame that reaches the turn.                                           *)
LEMMA DeliverTypes ==
  ASSUME TypeOK, Deliver
  PROVE  TypeOK'
<1>. USE DEF TypeOK, hostVars
<1>. DEFINE f == Head(wire)
<1>0. f \in Frames /\ wire # <<>>
  BY DEF Deliver, WireOK
<1>1. CallsOK'
  <2>1. fetches' \in {fetches, Append(fetches, Call)} /\ prompt' = prompt
    BY DEF Deliver, HandleFrame
  <2>. QED  BY <2>1, CallsStep DEF CallsOK
<1>2. WireOK' /\ listening' \in BOOLEAN
  <2>1. wire' \in {Tail(wire), <<>>} /\ listening' \in {listening, FALSE}
    BY DEF Deliver, HandleFrame, Unsubscribe
  <2>. QED  BY <1>0, <2>1, WireStep DEF FlagsOK
<1>3. HostOK'
  <2>1. known' \subseteq Approvals
    BY DEF Deliver, KnownAfter, HostOK
  <2>. QED  BY <2>1 DEF Deliver, HostOK
<1>4. CASE Repeated(f)
  <2>1. FlagsOK' /\ BooksOK' /\ AsksOK'
    BY <1>4 DEF Deliver, FlagsOK, BooksOK, AsksOK
  <2>. QED  BY <1>1, <1>2, <1>3, <2>1
<1>5. CASE ~Repeated(f)
  <2>. DEFINE armed == Backstop(WaitsAfter(f), ToolsAfter(f))
              s == IF f.kind = "turn_end" THEN "done" ELSE "failed"
  <2>1. /\ HandleFrame(f)
        /\ UNCHANGED <<outward, pc, aborted, deciding>>
    BY <1>5 DEF Deliver
  <2>2. armed \in BOOLEAN
    BY BackstopFlag
  <2>3. WaitsAfter(f) \in Nat /\ ToolsAfter(f) \in Nat /\ GracesAfter(f) \in SUBSET Asks
    BY <1>0, CountsAfter
  <2>4. \/ Finish(s, armed, GracesAfter(f))
        \/ /\ silenceTimer' = armed /\ graces' = GracesAfter(f)
           /\ UNCHANGED <<row, ledger, totalTimer>>
    BY <2>1 DEF HandleFrame
  <2>5. /\ {totalTimer', silenceTimer'} \subseteq BOOLEAN
        /\ graces' \subseteq Asks
    BY <2>2, <2>3, <2>4, FinishTimers DEF FlagsOK
  <2>6. FlagsOK'
    <3>1. missed' \in BOOLEAN
      BY <2>1 DEF HandleFrame, FlagsOK
    <3>. QED  BY <1>2, <2>1, <2>5, <3>1 DEF FlagsOK
  <2>7. row' \in {"running", "done", "failed"} /\ ledger' \in Seq(Nat)
    BY <2>4, FinishBooks DEF BooksOK
  <2>8. BooksOK'
    <3>1. usage' \in Nat
      BY <2>1 DEF HandleFrame, BooksOK
    <3>. QED  BY <2>1, <2>7, <3>1 DEF BooksOK
  <2>9. AsksOK'
    <3>1. seen' \subseteq Asks
      BY <1>0, <2>1, FrameFacts DEF HandleFrame, AsksOK
    <3>2. waits' \in Nat /\ tools' \in Nat
      BY <2>1, <2>3 DEF HandleFrame
    <3>. QED  BY <2>1, <2>5, <3>1, <3>2 DEF AsksOK
  <2>. QED  BY <1>1, <1>2, <1>3, <2>6, <2>8, <2>9
<1>. QED  BY <1>4, <1>5

(* The answer of pendingAsks after a reconnect.                             *)
LEMMA ReconnectTypes ==
  ASSUME TypeOK, NEW k \in Calls, ReconnectSettled(k)
  PROVE  TypeOK'
<1>. USE DEF TypeOK, hostVars
<1>. DEFINE asks == fetches[k].asks
            armed == IF asks \ seen = {} THEN silenceTimer
                     ELSE Backstop(waits + Cardinality(asks \ seen), tools)
<1>1. asks \in SUBSET Asks
  BY CallAsks
<1>2. CallsOK'
  BY CallsStep DEF ReconnectSettled, Used, CallsOK
<1>3. HostOK'
  BY DEF ReconnectSettled, HostOK
<1>4. armed \in BOOLEAN /\ graces \in SUBSET Asks
  BY BackstopFlag DEF FlagsOK, AsksOK
<1>5. seen' \subseteq Asks /\ waits' \in Nat
  BY <1>1, AsksCount DEF ReconnectSettled, Recover, AsksOK
<1>6. \/ /\ Finish("failed", armed, graces)
         /\ Unsubscribe
      \/ /\ silenceTimer' = armed /\ graces' = Graced(asks \ seen)
         /\ UNCHANGED <<listening, wire, row, ledger, totalTimer>>
  BY DEF ReconnectSettled
<1>7. {totalTimer', silenceTimer'} \subseteq BOOLEAN /\ graces' \subseteq Asks
  BY <1>1, <1>4, <1>6, FinishTimers DEF FlagsOK, Graced
<1>8. WireOK' /\ listening' \in BOOLEAN
  BY <1>6, WireStep DEF Unsubscribe, FlagsOK
<1>9. FlagsOK'
  BY <1>7, <1>8 DEF ReconnectSettled, FlagsOK
<1>10. BooksOK'
  <2>1. row' \in {"running", "done", "failed"} /\ ledger' \in Seq(Nat)
    BY <1>6, FinishBooks DEF BooksOK
  <2>. QED  BY <2>1 DEF ReconnectSettled, BooksOK
<1>11. AsksOK'
  BY <1>5, <1>7 DEF ReconnectSettled, AsksOK
<1>. QED  BY <1>2, <1>3, <1>8, <1>9, <1>10, <1>11

(* Timers, the abort signal, the process and the next boot.                 *)
LEMMA ClockTypes ==
  ASSUME TypeOK,
         \/ Stop \/ TotalTimeout \/ SilenceTimeout \/ Crash \/ ConvergeRuns
         \/ \E a \in Asks : GraceExpires(a) \/ DeclineReturns(a) \/ DeclineFails(a)
  PROVE  TypeOK'
<1>. USE DEF TypeOK, hostVars, linkVars
<1>1. CASE Stop \/ TotalTimeout \/ SilenceTimeout
  <2>1. totalTimer \in BOOLEAN /\ silenceTimer \in BOOLEAN
    BY DEF FlagsOK
  <2>. QED  BY <1>1, <2>1, AbortStep DEF Stop, TotalTimeout, SilenceTimeout
<1>2. CASE Crash
  <2>1. CallsOK' /\ WireOK'
    BY <1>2, CallsStep, WireStep DEF Crash, Unsubscribe, CallsOK
  <2>2. FlagsOK' /\ BooksOK' /\ HostOK'
    BY <1>2 DEF Crash, Unsubscribe, FlagsOK, BooksOK, HostOK
  <2>3. AsksOK'
    BY <1>2 DEF Crash, AsksOK
  <2>. QED  BY <2>1, <2>2, <2>3
<1>3. CASE ConvergeRuns
  BY <1>3 DEF ConvergeRuns, FlagsOK, BooksOK, AsksOK, CallsOK, HostOK, WireOK
<1>4. ASSUME NEW a \in Asks, GraceExpires(a) \/ DeclineReturns(a) \/ DeclineFails(a)
      PROVE  TypeOK'
  <2>1. AsksOK'
    BY <1>4 DEF GraceExpires, DeclineReturns, DeclineFails, Less, AsksOK
  <2>2. FlagsOK'
    BY <1>4, BackstopFlag DEF GraceExpires, DeclineReturns, DeclineFails, FlagsOK
  <2>3. BooksOK' /\ CallsOK' /\ HostOK' /\ WireOK'
    BY <1>4 DEF GraceExpires, DeclineReturns, DeclineFails, BooksOK, CallsOK, HostOK, WireOK
  <2>. QED  BY <2>1, <2>2, <2>3
<1>. QED  BY <1>1, <1>2, <1>3, <1>4

(* The host, the people and the stream.                                     *)
LEMMA SurroundingsTypes ==
  ASSUME TypeOK, Surroundings
  PROVE  TypeOK'
<1>. USE DEF TypeOK, hostVars, linkVars, turnVars
<1>1. CASE HostTakesPrompt
  BY <1>1 DEF HostTakesPrompt, FlagsOK, BooksOK, AsksOK, CallsOK, HostOK, WireOK
<1>2. CASE HostSays \/ HostCalls \/ HostReturns
  <2>1. WireOK' /\ missed' \in BOOLEAN
    BY <1>2, FrameFacts, EmitStep DEF HostSays, HostCalls, HostReturns
  <2>2. HostOK'
    BY <1>2 DEF HostSays, HostCalls, HostReturns, HostOK
  <2>3. FlagsOK' /\ BooksOK' /\ AsksOK' /\ CallsOK'
    BY <1>2, <2>1 DEF HostSays, HostCalls, HostReturns, FlagsOK, BooksOK, AsksOK, CallsOK
  <2>. QED  BY <2>1, <2>2, <2>3
<1>3. ASSUME NEW a \in Asks, HostAsksFor(a) \/ Answered(a)
      PROVE  TypeOK'
  <2>1. WireOK' /\ missed' \in BOOLEAN
    BY <1>3, FrameFacts, EmitStep DEF HostAsksFor, Answered
  <2>2. HostOK'
    BY <1>3 DEF HostAsksFor, Answered, HostOK
  <2>3. FlagsOK' /\ BooksOK' /\ AsksOK' /\ CallsOK'
    BY <1>3, <2>1 DEF HostAsksFor, Answered, FlagsOK, BooksOK, AsksOK, CallsOK
  <2>. QED  BY <2>1, <2>2, <2>3
<1>4. ASSUME NEW a \in Asks, HostDeclines(a)
      PROVE  TypeOK'
  <2>1. WireOK' /\ missed' \in BOOLEAN
    BY <1>4, FrameFacts, EmitStep, WireStep DEF HostDeclines, FlagsOK
  <2>2. HostOK'
    BY <1>4 DEF HostDeclines, HostOK
  <2>3. FlagsOK' /\ BooksOK' /\ AsksOK' /\ CallsOK'
    BY <1>4, <2>1 DEF HostDeclines, FlagsOK, BooksOK, AsksOK, CallsOK
  <2>. QED  BY <2>1, <2>2, <2>3
<1>5. ASSUME NEW kind \in {"turn_end", "turn_failed"}, HostEnds(kind)
      PROVE  TypeOK'
  <2>1. WireOK' /\ missed' \in BOOLEAN
    BY <1>5, FrameFacts, EmitStep DEF HostEnds
  <2>2. FlagsOK' /\ BooksOK' /\ AsksOK' /\ CallsOK' /\ HostOK'
    BY <1>5, <2>1 DEF HostEnds, FlagsOK, BooksOK, AsksOK, CallsOK, HostOK
  <2>. QED  BY <2>1, <2>2
<1>6. ASSUME NEW k \in Calls, HostListsAsks(k)
      PROVE  TypeOK'
  <2>1. CallsOK'
    <3>1. hostAsks \in SUBSET Asks /\ {} \in SUBSET Asks
      BY DEF HostOK
    <3>. QED  BY <1>6, <3>1, CallsStep DEF HostListsAsks, CallsOK
  <2>2. FlagsOK' /\ BooksOK' /\ AsksOK'
    BY <1>6 DEF HostListsAsks, FlagsOK, BooksOK, AsksOK
  <2>3. HostOK' /\ WireOK'
    BY <1>6 DEF HostListsAsks, HostOK, WireOK
  <2>. QED  BY <2>1, <2>2, <2>3
<1>7. CASE LinkOpens \/ LinkBreaks
  <2>1. WireOK'
    <3>1. [kind |-> "reconnected"] \in Frames
      BY FrameFacts
    <3>2. wire' \in {wire, <<>>} \/ \E f \in Frames : wire' = Append(wire, f)
      BY <1>7, <3>1 DEF LinkOpens, LinkBreaks
    <3>. QED  BY <3>2, WireStep
  <2>2. HostOK'
    BY <1>7, TurnAssumption DEF LinkOpens, LinkBreaks, HostOK, TurnAssumption
  <2>3. FlagsOK' /\ BooksOK' /\ AsksOK' /\ CallsOK'
    BY <1>7 DEF LinkOpens, LinkBreaks, FlagsOK, BooksOK, AsksOK, CallsOK
  <2>. QED  BY <2>1, <2>2, <2>3
<1>. QED  BY <1>1, <1>2, <1>3, <1>4, <1>5, <1>6, <1>7 DEF Surroundings

(* The record of the pendingAsks calls is not emptied by a call that is     *)
(* added or moves on.                                                       *)
LEMMA CallsKept ==
  ASSUME CallsOK, fetches # <<>>,
         \/ fetches' \in {fetches, <<Call>>, Append(fetches, Call)}
         \/ \E k \in Calls : \E call : fetches' = [fetches EXCEPT ![k] = call]
  PROVE  fetches' # <<>>
<1>1. fetches \in Seq([stage : {"sent", "answered", "used"}, asks : SUBSET Asks])
  BY DEF CallsOK
<1>2. Len(fetches) > 0 /\ DOMAIN fetches = 1..Len(fetches)
  BY <1>1
<1>3. ASSUME NEW k \in Calls, NEW call, fetches' = [fetches EXCEPT ![k] = call]
      PROVE  fetches' # <<>>
  <2>1. DOMAIN fetches' # {}
    BY <1>2, <1>3 DEF Calls
  <2>. QED  BY <2>1
<1>4. CASE fetches' \in {fetches, <<Call>>, Append(fetches, Call)}
  <2>1. <<Call>> # <<>> /\ Append(fetches, Call) # <<>>
    BY <1>1 DEF Call
  <2>. QED  BY <1>4, <2>1
<1>. QED  BY <1>3, <1>4

(* No step forgets the opening call while driveTurn waits.                  *)
LEMMA CallMadeStep ==
  ASSUME TypeOK, CallMade, [Next]_vars
  PROVE  CallMade'
<1>. USE DEF TypeOK, turnVars
<1>1. CASE Listen
  BY <1>1 DEF Listen, CallMade
<1>2. CASE OpeningFails \/ PromptAccepted \/ PromptFails \/ Return \/ Crash \/ ConvergeRuns
  BY <1>2 DEF OpeningFails, PromptAccepted, PromptFails, Return, Crash, ConvergeRuns, CallMade
<1>3. CASE SendPrompt
  <2>1. fetches # <<>> /\ fetches' = [fetches EXCEPT ![1] = Used]
    BY <1>3 DEF SendPrompt, CallMade
  <2>2. 1 \in Calls
    BY <2>1 DEF CallsOK, Calls
  <2>. QED  BY <2>1, <2>2, CallsKept DEF CallMade
<1>4. CASE Deliver
  <2>1. fetches' \in {fetches, Append(fetches, Call)} /\ pc' = pc
    BY <1>4 DEF Deliver, HandleFrame
  <2>. QED  BY <2>1, CallsKept DEF CallMade
<1>5. ASSUME NEW k \in Calls, ReconnectSettled(k)
      PROVE  CallMade'
  <2>1. fetches' = [fetches EXCEPT ![k] = Used] /\ pc' = pc
    BY <1>5 DEF ReconnectSettled
  <2>. QED  BY <2>1, CallsKept DEF CallMade
<1>6. CASE Stop \/ TotalTimeout \/ SilenceTimeout
  BY <1>6 DEF Stop, TotalTimeout, SilenceTimeout, CallMade
<1>7. ASSUME NEW a \in Asks, GraceExpires(a) \/ DeclineReturns(a) \/ DeclineFails(a)
      PROVE  CallMade'
  BY <1>7 DEF GraceExpires, DeclineReturns, DeclineFails, CallMade
<1>8. ASSUME NEW k \in Calls, HostListsAsks(k)
      PROVE  CallMade'
  <2>1. pc' = pc /\ \E call : fetches' = [fetches EXCEPT ![k] = call]
    BY <1>8 DEF HostListsAsks
  <2>. QED  BY <2>1, CallsKept DEF CallMade
<1>9. ASSUME \/ HostTakesPrompt \/ HostSays \/ HostCalls \/ HostReturns
             \/ \E a \in Asks : HostAsksFor(a) \/ Answered(a) \/ HostDeclines(a)
             \/ \E kind \in {"turn_end", "turn_failed"} : HostEnds(kind)
             \/ LinkOpens \/ LinkBreaks \/ UNCHANGED vars
      PROVE  CallMade'
  <2>1. UNCHANGED <<pc, fetches>>
    BY <1>9 DEF HostTakesPrompt, HostSays, HostCalls, HostReturns, HostAsksFor, Answered,
       HostDeclines, HostEnds, LinkOpens, LinkBreaks, vars
  <2>. QED  BY <2>1 DEF CallMade
<1>. QED
  BY <1>1, <1>2, <1>3, <1>4, <1>5, <1>6, <1>7, <1>8, <1>9 DEF Next, Surroundings

(* All actions together.                                                    *)
LEMMA TypeStep ==
  ASSUME TypeOK, CallMade, [Next]_vars
  PROVE  TypeOK'
<1>1. ASSUME UNCHANGED vars PROVE TypeOK'
  BY <1>1 DEF vars, turnVars, hostVars, linkVars, TypeOK,
     FlagsOK, BooksOK, AsksOK, CallsOK, HostOK, WireOK
<1>. QED
  BY <1>1, TurnTypes, DeliverTypes, ReconnectTypes, ClockTypes, SurroundingsTypes DEF Next

(* The types and the opening call, together inductive.                      *)
LEMMA TypeInvariant == Spec => [](TypeOK /\ CallMade)
<1>1. Init => TypeOK /\ CallMade
  BY TypeInit DEF Init, TurnAt, CallMade
<1>2. TypeOK /\ CallMade /\ [Next]_vars => (TypeOK /\ CallMade)'
  BY TypeStep, CallMadeStep
<1>. QED  BY <1>1, <1>2, PTL DEF Spec

(* The state of a turn is well typed: no count falls below zero, and the    *)
(* wire carries only frames the turn can handle.                            *)
THEOREM TurnTypeOK == Spec => []TypeOK
BY TypeInvariant, PTL

-----------------------------------------------------------------------------
(* The books.  What is not in TypeOK: a subscription is held only while the *)
(* row is open, and nothing is billed before it closes.                     *)
BooksInv ==
  /\ listening => row = "running"
  /\ row = "running" => ledger = <<>>
  /\ pc = "opening" => row = "running" /\ fetches = <<>>
  /\ pc \in {"opening", "crashed"} => ~listening

(* finish closes the books at most once: it is a step of the abstract       *)
(* ledger or none at all.                                                   *)
LEMMA FinishCloses ==
  ASSUME TypeOK, BooksInv, NEW s \in {"done", "failed"}, NEW armed, NEW timers,
         Finish(s, armed, timers), UNCHANGED usage
  PROVE  /\ Ledger!Close \/ Ledger!CloseUnbilled \/ UNCHANGED <<row, ledger, usage>>
         /\ row' # "running"
<1>1. CASE row = "running"
  <2>1. ledger = <<>> /\ usage \in Nat
    BY <1>1 DEF BooksInv, TypeOK, BooksOK
  <2>2. Account(s)
    BY <1>1 DEF Finish
  <2>3. CASE row' = s /\ ledger' = IF usage = 0 THEN ledger ELSE Append(ledger, usage)
    <3>1. ledger' = Ledger!Bill(usage)
      BY <2>1, <2>3 DEF Ledger!Bill
    <3>. QED  BY <1>1, <2>3, <3>1 DEF Ledger!Close
  <2>4. CASE row' = "failed" /\ UNCHANGED ledger
    BY <1>1, <2>4 DEF Ledger!CloseUnbilled
  <2>. QED  BY <2>2, <2>3, <2>4 DEF Account
<1>2. CASE row # "running"
  BY <1>2 DEF Finish
<1>. QED  BY <1>1, <1>2

(* A step that leaves the books and the opening alone.                      *)
LEMMA BooksUntouched ==
  ASSUME BooksInv, UNCHANGED <<row, ledger, usage>>, listening' => listening,
         pc' = "opening" => pc = "opening" /\ fetches' = fetches,
         pc' = "crashed" => pc = "crashed" \/ ~listening'
  PROVE  BooksInv' /\ [Ledger!Next]_<<row, ledger, usage>>
<1>1. BooksInv'
  BY DEF BooksInv
<1>. QED  BY <1>1

(* A step that finishes the turn and gives its subscription up.             *)
LEMMA BooksFinished ==
  ASSUME TypeOK, BooksInv, NEW s \in {"done", "failed"}, NEW armed, NEW timers,
         Finish(s, armed, timers), UNCHANGED usage, ~listening', pc' # "opening"
  PROVE  BooksInv' /\ [Ledger!Next]_<<row, ledger, usage>>
BY FinishCloses DEF BooksInv, Ledger!Next

(* The abort of the signal closes the books once, or only raises the flag.  *)
LEMMA AbortBooks ==
  ASSUME TypeOK, BooksInv, NEW total, NEW armed, Abort(total, armed),
         UNCHANGED <<pc, usage, fetches>>
  PROVE  BooksInv' /\ [Ledger!Next]_<<row, ledger, usage>>
<1>1. CASE ~aborted /\ fetches # <<>>
  <2>1. Unsubscribe /\ Finish("failed", armed, graces)
    BY <1>1 DEF Abort
  <2>2. ~listening' /\ pc' # "opening"
    BY <1>1, <2>1 DEF Unsubscribe, BooksInv
  <2>. QED  BY <2>1, <2>2, BooksFinished
<1>2. CASE ~(~aborted /\ fetches # <<>>)
  BY <1>2, BooksUntouched DEF Abort, BooksInv
<1>. QED  BY <1>1, <1>2

(* A frame is heard while the row is open: a response is billed later, the  *)
(* end of the turn closes the books.                                        *)
LEMMA DeliverBooks ==
  ASSUME TypeOK, BooksInv, Deliver
  PROVE  BooksInv' /\ [Ledger!Next]_<<row, ledger, usage>>
<1>. DEFINE f == Head(wire)
<1>1. row = "running" /\ ledger = <<>> /\ pc' = pc /\ pc \notin {"opening", "crashed"}
  BY DEF Deliver, BooksInv
<1>2. CASE Repeated(f)
  BY <1>1, <1>2, BooksUntouched DEF Deliver
<1>3. CASE ~Repeated(f) /\ f.kind \in {"turn_end", "turn_failed"}
  <2>1. /\ Unsubscribe /\ UNCHANGED usage
        /\ Finish(IF f.kind = "turn_end" THEN "done" ELSE "failed",
                  Backstop(WaitsAfter(f), ToolsAfter(f)), GracesAfter(f))
    BY <1>3 DEF Deliver, HandleFrame
  <2>. QED  BY <1>1, <2>1, BooksFinished DEF Unsubscribe
<1>4. CASE ~Repeated(f) /\ f.kind \notin {"turn_end", "turn_failed"}
  <2>1. /\ UNCHANGED <<listening, row, ledger>>
        /\ usage' = usage \/ usage' = usage + 1
    BY <1>4 DEF Deliver, HandleFrame
  <2>2. BooksInv'
    BY <1>1, <2>1 DEF BooksInv
  <2>3. [Ledger!Next]_<<row, ledger, usage>>
    BY <1>1, <2>1 DEF Ledger!Next, Ledger!Hear
  <2>. QED  BY <2>2, <2>3
<1>. QED  BY <1>2, <1>3, <1>4

(* The step simulation: every step of the turn is a step of the ledger, or  *)
(* leaves it alone.                                                         *)
LEMMA BooksStep ==
  ASSUME TypeOK, BooksInv, [Next]_vars
  PROVE  BooksInv' /\ [Ledger!Next]_<<row, ledger, usage>>
<1>. USE DEF turnVars
<1>. DEFINE Goal == BooksInv' /\ [Ledger!Next]_<<row, ledger, usage>>
<1>1. CASE Listen
  <2>1. CASE aborted
    BY <1>1, <2>1, BooksFinished DEF Listen, Unsubscribe
  <2>2. CASE ~aborted
    BY <1>1, <2>2 DEF Listen, BooksInv
  <2>. QED  BY <2>1, <2>2
<1>2. CASE OpeningFails \/ PromptFails
  <2>1. ~listening' /\ pc' # "opening" /\ UNCHANGED usage /\ Finish("failed", silenceTimer, graces)
    BY <1>2 DEF OpeningFails, PromptFails, Unsubscribe, BooksInv
  <2>. QED  BY <2>1, BooksFinished
<1>3. CASE SendPrompt \/ PromptAccepted \/ Return \/ Crash
  BY <1>3, BooksUntouched DEF SendPrompt, PromptAccepted, Return, Crash, Unsubscribe
<1>4. CASE Deliver
  BY <1>4, DeliverBooks
<1>5. ASSUME NEW k \in Calls, ReconnectSettled(k)
      PROVE  Goal
  <2>1. pc' = pc /\ pc # "opening" /\ UNCHANGED usage
    BY <1>5 DEF ReconnectSettled, BooksInv, Calls
  <2>2. CASE waits + Cardinality(fetches[k].asks \ seen) > 0
    BY <1>5, <2>1, <2>2, BooksUntouched DEF ReconnectSettled
  <2>3. CASE ~(waits + Cardinality(fetches[k].asks \ seen) > 0)
    BY <1>5, <2>1, <2>3, BooksFinished DEF ReconnectSettled, Unsubscribe
  <2>. QED  BY <2>2, <2>3
<1>6. CASE Stop \/ TotalTimeout \/ SilenceTimeout
  BY <1>6, AbortBooks DEF Stop, TotalTimeout, SilenceTimeout
<1>7. CASE ConvergeRuns
  BY <1>7 DEF ConvergeRuns, BooksInv, Ledger!Next, Ledger!CloseUnbilled
<1>8. ASSUME NEW a \in Asks, GraceExpires(a) \/ DeclineReturns(a) \/ DeclineFails(a)
      PROVE  Goal
  BY <1>8, BooksUntouched DEF GraceExpires, DeclineReturns, DeclineFails
<1>9. ASSUME NEW k \in Calls, HostListsAsks(k)
      PROVE  Goal
  <2>1. pc # "opening"
    BY <1>9 DEF HostListsAsks, BooksInv, Calls
  <2>. QED  BY <1>9, <2>1, BooksUntouched DEF HostListsAsks
<1>10. ASSUME \/ HostTakesPrompt \/ HostSays \/ HostCalls \/ HostReturns
              \/ \E a \in Asks : HostAsksFor(a) \/ Answered(a) \/ HostDeclines(a)
              \/ \E kind \in {"turn_end", "turn_failed"} : HostEnds(kind)
              \/ LinkOpens \/ LinkBreaks \/ UNCHANGED vars
       PROVE  Goal
  <2>1. UNCHANGED <<row, ledger, usage, listening, pc, fetches>>
    BY <1>10 DEF HostTakesPrompt, HostSays, HostCalls, HostReturns, HostAsksFor, Answered,
       HostDeclines, HostEnds, LinkOpens, LinkBreaks, vars
  <2>. QED  BY <2>1, BooksUntouched
<1>. QED
  BY <1>1, <1>2, <1>3, <1>4, <1>5, <1>6, <1>7, <1>8, <1>9, <1>10 DEF Next, Surroundings

(* The books hold whatever races to finish the turn: the run row becomes    *)
(* final once, and a turn that is done has billed exactly what it heard     *)
(* (makeFinish, its callers and convergeRuns).                              *)
THEOREM TurnKeepsBooks == Spec => LedgerImplemented
<1>1. Init => BooksInv /\ Ledger!Init
  BY DEF Init, TurnAt, BooksInv, Ledger!Init
<1>2. TypeOK /\ BooksInv /\ [Next]_vars => BooksInv' /\ [Ledger!Next]_<<row, ledger, usage>>
  BY BooksStep
<1>. QED  BY <1>1, <1>2, TurnTypeOK, PTL DEF Spec, LedgerImplemented, Ledger!Spec, Ledger!ledgerVars
-----------------------------------------------------------------------------
(* The clocks.  The total timeout runs until the signal is aborted, an      *)
(* aborted signal has closed the row as soon as driveTurn subscribed, and   *)
(* from the prompt on the backstop follows the two counts.                  *)
ClocksInv ==
  /\ row = "running" /\ ~aborted /\ pc # "crashed" => totalTimer
  /\ aborted /\ fetches # <<>> => row # "running"
  /\ pc = "over" => row # "running"
  /\ row = "running" /\ pc \in {"prompting", "waiting"} =>
       (silenceTimer <=> Backstop(waits, tools))

TurnInv == TypeOK /\ CallMade /\ BooksInv /\ ClocksInv

(* Once a turn has finished, nothing is asked of its clocks.                *)
LEMMA ClocksFinished ==
  ASSUME BooksOK, NEW s \in {"done", "failed"}, NEW armed, NEW timers, Finish(s, armed, timers)
  PROVE  ClocksInv'
<1>1. row' # "running"
  BY DEF Finish, Account, BooksOK
<1>. QED  BY <1>1 DEF ClocksInv

(* The abort of the signal finishes the turn, or finds it finished, or      *)
(* comes before driveTurn subscribes.                                       *)
LEMMA AbortClocks ==
  ASSUME TurnInv, NEW total, NEW armed, Abort(total, armed),
         UNCHANGED <<outward, pc, waits, tools, fetches>>
  PROVE  ClocksInv'
<1>. USE DEF TurnInv
<1>1. CASE ~aborted /\ fetches # <<>>
  BY <1>1, ClocksFinished DEF Abort, TypeOK
<1>2. CASE aborted /\ fetches # <<>>
  <2>1. row' # "running"
    BY <1>2 DEF Abort, ClocksInv
  <2>. QED  BY <2>1 DEF ClocksInv
<1>3. CASE fetches = <<>>
  <2>1. aborted' = TRUE /\ row' = row /\ fetches' = <<>>
    BY <1>3 DEF Abort
  <2>2. pc' \notin {"prompting", "waiting"}
    BY <1>3 DEF CallMade
  <2>. QED  BY <2>1, <2>2 DEF ClocksInv
<1>. QED  BY <1>1, <1>2, <1>3

(* A frame re-arms the backstop for the counts it leaves.                   *)
LEMMA DeliverClocks ==
  ASSUME TurnInv, Deliver
  PROVE  ClocksInv'
<1>. USE DEF TurnInv
<1>. DEFINE f == Head(wire)
<1>1. row = "running" /\ fetches # <<>>
  BY DEF Deliver, BooksInv, ClocksInv, CallMade, TypeOK, BooksOK
<1>2. ~aborted /\ UNCHANGED <<outward, pc, aborted>>
  BY <1>1 DEF Deliver, ClocksInv
<1>3. CASE Repeated(f)
  BY <1>2, <1>3 DEF Deliver, ClocksInv, Backstop
<1>4. CASE ~Repeated(f) /\ f.kind \in {"turn_end", "turn_failed"}
  <2>1. Finish(IF f.kind = "turn_end" THEN "done" ELSE "failed",
               Backstop(WaitsAfter(f), ToolsAfter(f)), GracesAfter(f))
    BY <1>4 DEF Deliver, HandleFrame
  <2>. QED  BY <2>1, ClocksFinished DEF TypeOK
<1>5. CASE ~Repeated(f) /\ f.kind \notin {"turn_end", "turn_failed"}
  <2>1. /\ silenceTimer' = Backstop(WaitsAfter(f), ToolsAfter(f))
        /\ waits' = WaitsAfter(f) /\ tools' = ToolsAfter(f)
        /\ UNCHANGED <<row, totalTimer>>
    BY <1>5 DEF Deliver, HandleFrame
  <2>. HIDE DEF f
  <2>. QED  BY <1>1, <1>2, <2>1 DEF ClocksInv, Backstop
<1>. QED  BY <1>3, <1>4, <1>5

(* So does the answer of pendingAsks after a reconnect.                     *)
LEMMA ReconnectClocks ==
  ASSUME TurnInv, NEW k \in Calls, ReconnectSettled(k)
  PROVE  ClocksInv'
<1>. USE DEF TurnInv
<1>. DEFINE unseen == fetches[k].asks \ seen
            count == waits + Cardinality(unseen)
            armed == IF unseen = {} THEN silenceTimer ELSE Backstop(count, tools)
<1>1. CASE ~(count > 0)
  BY <1>1, ClocksFinished DEF ReconnectSettled, TypeOK
<1>2. CASE count > 0
  <2>1. fetches # <<>>
    BY DEF Calls
  <2>2. /\ silenceTimer' = armed /\ waits' = count
        /\ UNCHANGED <<outward, pc, aborted, tools, row, totalTimer>>
    BY <1>2 DEF ReconnectSettled, Recover
  <2>3. unseen = {} => count = waits
    <3>1. waits \in Nat
      BY DEF TypeOK, AsksOK
    <3>2. Cardinality({}) = 0
      BY FS_EmptySet
    <3>. HIDE DEF unseen
    <3>. QED  BY <3>1, <3>2
  <2>. HIDE DEF unseen, count
  <2>. QED  BY <2>1, <2>2, <2>3 DEF ClocksInv, Backstop
<1>. QED  BY <1>1, <1>2

(* All actions together.                                                    *)
LEMMA ClocksStep ==
  ASSUME TurnInv, [Next]_vars
  PROVE  ClocksInv'
<1>. USE DEF TurnInv, turnVars
<1>1. CASE Listen
  <2>1. CASE aborted
    BY <1>1, <2>1, ClocksFinished DEF Listen, TypeOK
  <2>2. CASE ~aborted
    BY <1>1, <2>2 DEF Listen, ClocksInv
  <2>. QED  BY <2>1, <2>2
<1>2. CASE OpeningFails \/ PromptFails
  BY <1>2, ClocksFinished DEF OpeningFails, PromptFails, TypeOK
<1>3. CASE SendPrompt
  <2>1. fetches # <<>>
    BY <1>3 DEF SendPrompt, CallMade
  <2>2. /\ silenceTimer' = Backstop(waits', tools) /\ pc' = "prompting" /\ pc = "asking"
        /\ UNCHANGED <<outward, aborted, tools, row, totalTimer>>
    BY <1>3 DEF SendPrompt
  <2>. QED  BY <2>1, <2>2 DEF ClocksInv, Backstop
<1>4. CASE PromptAccepted \/ Return \/ Crash \/ ConvergeRuns
  BY <1>4 DEF PromptAccepted, Return, Crash, ConvergeRuns, ClocksInv, Backstop
<1>5. CASE Deliver
  BY <1>5, DeliverClocks
<1>6. ASSUME NEW k \in Calls, ReconnectSettled(k)
      PROVE  ClocksInv'
  BY <1>6, ReconnectClocks
<1>7. CASE Stop \/ TotalTimeout \/ SilenceTimeout
  BY <1>7, AbortClocks DEF Stop, TotalTimeout, SilenceTimeout
<1>8. ASSUME NEW a \in Asks, GraceExpires(a) \/ DeclineFails(a)
      PROVE  ClocksInv'
  BY <1>8 DEF GraceExpires, DeclineFails, ClocksInv, Backstop
<1>9. ASSUME NEW a \in Asks, DeclineReturns(a)
      PROVE  ClocksInv'
  BY <1>9 DEF DeclineReturns, ClocksInv, Backstop
<1>10. ASSUME NEW k \in Calls, HostListsAsks(k)
       PROVE  ClocksInv'
  <2>1. fetches # <<>>
    BY DEF Calls
  <2>2. UNCHANGED <<outward, pc, aborted, row, waits, tools, totalTimer, silenceTimer>>
    BY <1>10 DEF HostListsAsks
  <2>. QED  BY <2>1, <2>2 DEF ClocksInv, Backstop
<1>11. ASSUME \/ HostTakesPrompt \/ HostSays \/ HostCalls \/ HostReturns
              \/ \E a \in Asks : HostAsksFor(a) \/ Answered(a) \/ HostDeclines(a)
              \/ \E kind \in {"turn_end", "turn_failed"} : HostEnds(kind)
              \/ LinkOpens \/ LinkBreaks \/ UNCHANGED vars
       PROVE  ClocksInv'
  <2>1. UNCHANGED <<outward, pc, aborted, row, waits, tools, fetches, totalTimer, silenceTimer>>
    BY <1>11 DEF HostTakesPrompt, HostSays, HostCalls, HostReturns, HostAsksFor, Answered,
       HostDeclines, HostEnds, LinkOpens, LinkBreaks, vars
  <2>. QED  BY <2>1 DEF ClocksInv, Backstop
<1>. QED
  BY <1>1, <1>2, <1>3, <1>4, <1>5, <1>6, <1>7, <1>8, <1>9, <1>10, <1>11 DEF Next, Surroundings

(* While a turn waits, the total timeout is armed, and the silence backstop *)
(* exactly when nothing explains the silence or the turn is outward         *)
(* (armSilence and its callers).                                            *)
THEOREM TurnIsCovered == Spec => []BackstopCovers
<1>1. Init => TurnInv
  BY TypeInit DEF Init, TurnAt, TurnInv, CallMade, BooksInv, ClocksInv
<1>2. TurnInv /\ [Next]_vars => TurnInv'
  BY TypeStep, CallMadeStep, BooksStep, ClocksStep DEF TurnInv
<1>3. TurnInv => BackstopCovers
  BY DEF TurnInv, CallMade, ClocksInv, BackstopCovers, Backstop
<1>. QED  BY <1>1, <1>2, <1>3, PTL DEF Spec
-----------------------------------------------------------------------------
(* The asks.  What the turn hears of an ask is what the host did with it,   *)
(* and in that order: an answer is told once, after the ask, and as long as *)
(* nothing was lost an ask the turn knows of is open at the host or its     *)
(* answer is under way (Due).  Each of those counts in waits.               *)
Request(a) == [kind |-> "ask", id |-> a]
Answer(a) == [kind |-> "resolved", id |-> a]

Due(a) == a \in hostAsks \/ \E i \in DOMAIN wire : wire[i] = Answer(a)

AskedInv ==
  /\ seen \subseteq asked
  /\ \A a \in Asks : (\E i \in DOMAIN wire : wire[i] \in {Request(a), Answer(a)}) => a \in asked
  /\ \A k \in Calls : fetches[k].asks \subseteq asked
  /\ ~listening => wire = <<>>
  /\ pc = "opening" => seen = {} /\ graces = {}
  /\ ~outward => graces = {} /\ \A a \in Asks : deciding[a] = "no"

AnswersOnce ==
  \A a \in Asks : \A i \in DOMAIN wire : wire[i] = Answer(a) =>
    a \notin hostAsks /\ \A j \in DOMAIN wire : wire[j] = Answer(a) => j = i

AnswersFollow ==
  ~missed => \A a \in Asks : \A i \in DOMAIN wire : wire[i] = Request(a) =>
    a \in hostAsks \/ \E j \in DOMAIN wire : j > i /\ wire[j] = Answer(a)

FetchesHold ==
  ~missed => \A k \in Calls : fetches[k].stage = "answered" =>
    \A a \in fetches[k].asks \ seen : Due(a)

GracesHold == ~missed => \A a \in graces \ Approvals : Due(a)

AllDeclined == outward => \A a \in seen \intersect hostAsks : a \in graces \/ deciding[a] # "no"

AllCounted == ~missed /\ ~outward => Cardinality({a \in seen : Due(a)}) <= waits

Heard ==
  AnswersOnce /\ AnswersFollow /\ FetchesHold /\ GracesHold /\ AllDeclined /\ AllCounted

AskInv == AskedInv /\ (listening => Heard)

LEMMA AskShapes ==
  /\ \A a \in Asks : Request(a).kind = "ask" /\ Request(a).id = a
                     /\ Answer(a).kind = "resolved" /\ Answer(a).id = a
                     /\ Request(a) \in Frames /\ Answer(a) \in Frames
  /\ \A f \in Frames : /\ f.kind = "ask" => f.id \in Asks /\ f = Request(f.id)
                       /\ f.kind = "resolved" => f.id \in Asks /\ f = Answer(f.id)
BY DEF Request, Answer, Frames

(* The first frame is taken off the wire, the others move up.               *)
LEMMA TakenWire ==
  ASSUME WireOK, wire # <<>>, wire' = Tail(wire)
  PROVE  /\ Head(wire) \in Frames /\ 1 \in DOMAIN wire /\ wire[1] = Head(wire)
         /\ \A i \in DOMAIN wire' : i + 1 \in DOMAIN wire /\ wire'[i] = wire[i + 1]
         /\ \A i \in DOMAIN wire : i # 1 => i - 1 \in DOMAIN wire' /\ wire'[i - 1] = wire[i]
         /\ DOMAIN wire' \subseteq Nat /\ DOMAIN wire \subseteq Nat
BY DEF WireOK

(* A frame is put on the wire, behind the others.                           *)
LEMMA PutWire ==
  ASSUME WireOK, NEW f \in Frames, wire' = Append(wire, f)
  PROVE  LET n == Len(wire) + 1
         IN /\ n \in DOMAIN wire' /\ n \notin DOMAIN wire /\ wire'[n] = f
            /\ \A i \in DOMAIN wire : i \in DOMAIN wire' /\ i < n /\ wire'[i] = wire[i]
            /\ \A i \in DOMAIN wire' : i = n \/ (i \in DOMAIN wire /\ wire'[i] = wire[i])
            /\ DOMAIN wire \subseteq Nat /\ DOMAIN wire' \subseteq Nat
BY DEF WireOK

(* The pendingAsks calls: one that moves on, and one more.                  *)
LEMMA MovedCall ==
  ASSUME CallsOK, NEW k \in Calls, NEW call, fetches' = [fetches EXCEPT ![k] = call]
  PROVE  /\ DOMAIN fetches' = DOMAIN fetches /\ fetches'[k] = call
         /\ \A j \in Calls : j # k => fetches'[j] = fetches[j]
BY DEF CallsOK, Calls

LEMMA MoreCalls ==
  ASSUME CallsOK, fetches' = Append(fetches, Call)
  PROVE  \A k \in DOMAIN fetches' : fetches'[k] = Call \/ (k \in Calls /\ fetches'[k] = fetches[k])
BY DEF CallsOK, Calls

LEMMA OneCall ==
  ASSUME fetches' = <<Call>>
  PROVE  \A k \in DOMAIN fetches' : fetches'[k] = Call
OBVIOUS

-----------------------------------------------------------------------------
(* The steps after which nobody listens, and what all steps keep.           *)

(* The host's half of AskedInv, after a step that changes only the wire.    *)
LEMMA AskedAlong ==
  ASSUME AskedInv, UNCHANGED <<outward, seen, asked, deciding>>,
         graces' \subseteq graces, fetches' \in {fetches, <<Call>>, <<>>},
         pc' = "opening" => pc = "opening",
         \/ wire' = <<>>
         \/ UNCHANGED <<wire, listening>>
         \/ wire = <<>> /\ wire' = wire
  PROVE  AskedInv'
<1>1. \A k \in DOMAIN fetches' : fetches'[k].asks \subseteq asked
  <2>1. CASE fetches' = fetches
    BY <2>1 DEF AskedInv, Calls
  <2>2. CASE fetches' = <<Call>>
    BY <2>2, OneCall DEF Call
  <2>3. CASE fetches' = <<>>
    BY <2>3
  <2>. QED  BY <2>1, <2>2, <2>3
<1>2. \A a \in Asks : (\E i \in DOMAIN wire' : wire'[i] \in {Request(a), Answer(a)}) => a \in asked
  <2>1. CASE wire' = <<>>
    BY <2>1
  <2>2. CASE wire' = wire
    BY <2>2 DEF AskedInv
  <2>. QED  BY <2>1, <2>2
<1>3. ~listening' => wire' = <<>>
  BY DEF AskedInv
<1>. QED  BY <1>1, <1>2, <1>3 DEF AskedInv, Calls, Request, Answer

(* A frame of the host, an ask or an answer only of what was asked.         *)
LEMMA AskedEmit ==
  ASSUME AskedInv, WireOK, NEW f \in Frames, Emit(f),
         \A a \in Asks : f \in {Request(a), Answer(a)} => a \in asked',
         asked \subseteq asked',
         UNCHANGED <<outward, pc, listening, seen, graces, deciding, fetches>>
  PROVE  AskedInv'
<1>1. \A a \in Asks : (\E i \in DOMAIN wire' : wire'[i] \in {Request(a), Answer(a)}) => a \in asked'
  <2>1. CASE wire' = wire
    BY <2>1 DEF AskedInv
  <2>2. CASE wire' = Append(wire, f)
    BY <2>2, PutWire DEF AskedInv
  <2>. QED  BY <2>1, <2>2 DEF Emit
<1>2. ~listening' => wire' = <<>>
  BY DEF AskedInv, Emit
<1>. QED  BY <1>1, <1>2 DEF AskedInv, Calls, Request, Answer

(* The asks of a pendingAsks call are taken into account.                   *)
LEMMA AskedRecover ==
  ASSUME TypeOK, AskedInv, NEW k \in Calls, Recover(fetches[k].asks),
         fetches' = [fetches EXCEPT ![k] = Used],
         \/ graces' = Graced(fetches[k].asks \ seen) /\ UNCHANGED <<wire, listening>>
         \/ graces' \subseteq graces /\ Unsubscribe,
         pc' # "opening", UNCHANGED <<outward, asked, deciding>>
  PROVE  AskedInv'
<1>1. seen' \subseteq asked
  BY DEF Recover, AskedInv
<1>2. \A j \in DOMAIN fetches' : fetches'[j].asks \subseteq asked
  BY MovedCall DEF TypeOK, AskedInv, Used, Calls
<1>3. ~outward => graces' = {}
  BY DEF AskedInv, Graced
<1>4. \A a \in Asks : (\E i \in DOMAIN wire' : wire'[i] \in {Request(a), Answer(a)}) => a \in asked
  BY DEF AskedInv, Unsubscribe
<1>5. ~listening' => wire' = <<>>
  BY DEF AskedInv, Unsubscribe
<1>. QED  BY <1>1, <1>2, <1>3, <1>4, <1>5 DEF AskedInv, Calls, Request, Answer

LEMMA AskedDeliver ==
  ASSUME TypeOK, BooksInv, AskedInv, Deliver
  PROVE  AskedInv'
<1>. DEFINE f == Head(wire)
<1>1. listening /\ wire # <<>> /\ WireOK /\ CallsOK /\ pc # "opening"
      /\ UNCHANGED <<outward, pc, asked, deciding>>
  <2>1. listening /\ wire # <<>> /\ UNCHANGED <<outward, pc, asked, deciding>>
    BY DEF Deliver, hostVars
  <2>. QED  BY <2>1 DEF TypeOK, BooksInv
<1>2. f \in Frames /\ 1 \in DOMAIN wire /\ wire[1] = f
  BY <1>1 DEF WireOK
<1>3. wire' = Tail(wire) \/ wire' = <<>>
  BY DEF Deliver, HandleFrame, Unsubscribe
<1>4. \A a \in Asks : (\E i \in DOMAIN wire' : wire'[i] \in {Request(a), Answer(a)}) => a \in asked
  <2>1. CASE wire' = Tail(wire)
    BY <1>1, <2>1, TakenWire DEF AskedInv
  <2>2. CASE wire' = <<>>
    BY <2>2
  <2>. QED  BY <1>3, <2>1, <2>2
<1>5. ~listening' => wire' = <<>>
  BY <1>1 DEF Deliver, HandleFrame, Unsubscribe
<1>. HIDE DEF f
<1>6. seen' \subseteq asked
  <2>1. f.kind = "ask" => f.id \in asked
    BY <1>2, AskShapes DEF AskedInv
  <2>. QED  BY <2>1 DEF Deliver, HandleFrame, AskedInv, f
<1>7. \A k \in DOMAIN fetches' : fetches'[k].asks \subseteq asked
  <2>1. fetches' = fetches \/ fetches' = Append(fetches, Call)
    BY DEF Deliver, HandleFrame
  <2>. QED  BY <1>1, <2>1, MoreCalls DEF AskedInv, Calls, Call
<1>8. ~outward => graces' = {}
  <2>1. graces' \in {graces, {}, GracesAfter(f)}
    BY DEF Deliver, HandleFrame, Finish, f
  <2>. QED  BY <2>1 DEF AskedInv, GracesAfter, Graced
<1>. QED  BY <1>1, <1>4, <1>5, <1>6, <1>7, <1>8 DEF AskedInv, Calls, Request, Answer

LEMMA AskedStep ==
  ASSUME TypeOK, CallMade, BooksInv, AskedInv, [Next]_vars
  PROVE  AskedInv'
<1>. WireOK /\ FlagsOK /\ hostAsks \subseteq asked /\ asked \subseteq Asks
  BY DEF TypeOK, HostOK
<1>. USE DEF turnVars, hostVars, linkVars
<1>1. CASE Listen
  <2>1. CASE aborted
    BY <1>1, <2>1, AskedAlong DEF Listen, Finish, Unsubscribe, Cancel
  <2>2. CASE ~aborted
    <3>1. wire = <<>>
      BY <1>1 DEF Listen, BooksInv, AskedInv
    <3>. QED  BY <1>1, <2>2, <3>1, AskedAlong DEF Listen
  <2>. QED  BY <2>1, <2>2
<1>2. CASE OpeningFails \/ PromptFails \/ PromptAccepted \/ Return \/ ConvergeRuns
  BY <1>2, AskedAlong
     DEF OpeningFails, PromptFails, PromptAccepted, Return, ConvergeRuns, Finish, Unsubscribe
<1>3. CASE SendPrompt
  <2>1. 1 \in Calls
    BY <1>3 DEF SendPrompt, CallMade, TypeOK, CallsOK, Calls
  <2>. QED  BY <1>3, <2>1, AskedRecover DEF SendPrompt
<1>4. CASE Deliver
  BY <1>4, AskedDeliver
<1>5. ASSUME NEW k \in Calls, ReconnectSettled(k)
      PROVE  AskedInv'
  <2>1. pc' # "opening"
    BY <1>5 DEF ReconnectSettled, BooksInv, Calls
  <2>. QED  BY <1>5, <2>1, AskedRecover DEF ReconnectSettled, Finish
<1>6. CASE Stop \/ TotalTimeout \/ SilenceTimeout
  BY <1>6, AskedAlong
     DEF Stop, TotalTimeout, SilenceTimeout, Abort, Finish, Unsubscribe, Cancel
<1>7. CASE Crash
  BY <1>7 DEF Crash, Unsubscribe, AskedInv, Calls
<1>8. ASSUME NEW a \in Asks, GraceExpires(a) \/ DeclineReturns(a) \/ DeclineFails(a)
      PROVE  AskedInv'
  <2>1. outward
    BY <1>8 DEF GraceExpires, DeclineReturns, DeclineFails, AskedInv
  <2>2. graces' \subseteq graces /\ UNCHANGED <<outward, pc, listening, wire, seen, asked, fetches>>
    BY <1>8 DEF GraceExpires, DeclineReturns, DeclineFails
  <2>. QED  BY <2>1, <2>2 DEF AskedInv, Calls, Request, Answer
<1>9. CASE HostSays \/ HostCalls \/ HostReturns \/ \E kind \in {"turn_end", "turn_failed"} : HostEnds(kind)
  <2>1. PICK kind \in {"message", "tool_call", "tool_result", "turn_end", "turn_failed"} :
          Emit([kind |-> kind])
    BY <1>9 DEF HostSays, HostCalls, HostReturns, HostEnds
  <2>2. \A a \in Asks : [kind |-> kind] \notin {Request(a), Answer(a)}
    BY AskShapes
  <2>3. UNCHANGED <<turnVars, asked>>
    BY <1>9 DEF HostSays, HostCalls, HostReturns, HostEnds
  <2>. QED  BY <2>1, <2>2, <2>3, FrameFacts, AskedEmit
<1>10. ASSUME NEW a \in Asks, HostAsksFor(a)
       PROVE  AskedInv'
  <2>1. \A b \in Asks : Request(a) \in {Request(b), Answer(b)} => b = a
    BY AskShapes
  <2>2. Emit(Request(a)) /\ asked' = asked \union {a} /\ UNCHANGED turnVars
    BY <1>10 DEF HostAsksFor, Request
  <2>. QED  BY <2>1, <2>2, AskShapes, AskedEmit
<1>11. ASSUME NEW a \in Asks, Answered(a) \/ (HostDeclines(a) /\ a \in hostAsks)
       PROVE  AskedInv'
  <2>1. \A b \in Asks : Answer(a) \in {Request(b), Answer(b)} => b = a
    BY AskShapes
  <2>2. Emit(Answer(a)) /\ a \in asked
        /\ UNCHANGED <<outward, pc, listening, seen, graces, fetches, asked>>
    BY <1>11 DEF Answered, HostDeclines, Answer
  <2>3. CASE UNCHANGED deciding
    BY <2>1, <2>2, <2>3, AskShapes, AskedEmit
  <2>4. CASE deciding' # deciding
    <3>1. outward
      BY <1>11, <2>4 DEF Answered, HostDeclines, AskedInv
    <3>. QED  BY <2>1, <2>2, <3>1, AskShapes, PutWire DEF Emit, AskedInv, Calls, Request, Answer
  <2>. QED  BY <2>3, <2>4
<1>12. ASSUME NEW a \in Asks, HostDeclines(a), a \notin hostAsks
       PROVE  AskedInv'
  <2>1. outward
    BY <1>12 DEF HostDeclines, AskedInv
  <2>2. UNCHANGED <<outward, pc, listening, wire, seen, graces, asked, fetches>>
    BY <1>12 DEF HostDeclines
  <2>. QED  BY <2>1, <2>2 DEF AskedInv, Calls, Request, Answer
<1>13. ASSUME NEW k \in Calls, HostListsAsks(k)
       PROVE  AskedInv'
  <2>1. \A j \in DOMAIN fetches' : fetches'[j].asks \subseteq asked
    <3>1. PICK asks \in {hostAsks, {}} :
            fetches' = [fetches EXCEPT ![k] = [stage |-> "answered", asks |-> asks]]
      BY <1>13 DEF HostListsAsks
    <3>2. [stage |-> "answered", asks |-> asks].asks \subseteq asked
      BY <3>1
    <3>. QED  BY <3>1, <3>2, MovedCall DEF TypeOK, AskedInv, Calls
  <2>2. UNCHANGED <<outward, pc, listening, wire, seen, graces, asked, deciding>>
    BY <1>13 DEF HostListsAsks
  <2>. QED  BY <2>1, <2>2 DEF AskedInv, Calls, Request, Answer
<1>14. CASE LinkOpens
  <2>1. DEFINE f == [kind |-> "reconnected"]
  <2>2. f \in Frames /\ \A a \in Asks : f \notin {Request(a), Answer(a)}
    BY AskShapes, FrameFacts
  <2>3. (wire' = Append(wire, f) /\ listening) \/ wire' = wire
    BY <1>14 DEF LinkOpens
  <2>. HIDE DEF f
  <2>4. \A a \in Asks : (\E i \in DOMAIN wire' : wire'[i] \in {Request(a), Answer(a)}) => a \in asked
    BY <2>2, <2>3, PutWire DEF AskedInv
  <2>5. ~listening' => wire' = <<>>
    BY <1>14, <2>3 DEF LinkOpens, AskedInv
  <2>6. UNCHANGED <<turnVars, asked>>
    BY <1>14 DEF LinkOpens
  <2>. QED  BY <2>4, <2>5, <2>6 DEF AskedInv, Calls, Request, Answer
<1>15. CASE HostTakesPrompt \/ LinkBreaks \/ UNCHANGED vars
  BY <1>15, AskedAlong DEF HostTakesPrompt, LinkBreaks, vars
<1>. QED
  BY <1>1, <1>2, <1>3, <1>4, <1>5, <1>6, <1>7, <1>8, <1>9, <1>10, <1>11, <1>12, <1>13,
     <1>14, <1>15 DEF Next, Surroundings

-----------------------------------------------------------------------------
(* The steps of a turn that listens.                                        *)

(* What is due stays due, what is counted stays counted: whatever a step    *)
(* does to the wire, if the asks that are due stay the same.                *)
LEMMA DueKept ==
  ASSUME TypeOK, AskedInv, Heard, missed => missed', UNCHANGED <<outward, seen>>,
         outward \/ waits' = waits, graces' \subseteq graces,
         ~missed' => \A a \in Asks : Due(a)' <=> Due(a),
         ~missed' => \A k \in DOMAIN fetches' :
           fetches'[k].stage = "answered" => k \in Calls /\ fetches'[k] = fetches[k]
  PROVE  FetchesHold' /\ GracesHold' /\ AllCounted'
<1>. seen \subseteq Asks /\ graces \subseteq Asks /\ \A k \in Calls : fetches[k].asks \subseteq Asks
  BY DEF TypeOK, AsksOK, HostOK, AskedInv
<1>1. FetchesHold'
  <2>. SUFFICES ASSUME ~missed', NEW k \in DOMAIN fetches', fetches'[k].stage = "answered",
                       NEW a \in fetches'[k].asks \ seen'
                PROVE  Due(a)'
    BY DEF FetchesHold, Calls
  <2>1. k \in Calls /\ fetches'[k] = fetches[k]
    OBVIOUS
  <2>2. Due(a) /\ a \in Asks
    BY <2>1 DEF Heard, FetchesHold
  <2>. QED  BY <2>2
<1>2. GracesHold'
  <2>. SUFFICES ASSUME ~missed', NEW a \in graces' \ Approvals PROVE Due(a)'
    BY DEF GracesHold
  <2>1. Due(a) /\ a \in Asks
    BY DEF Heard, GracesHold
  <2>. QED  BY <2>1
<1>3. AllCounted'
  <2>. SUFFICES ASSUME ~missed', ~outward'
                PROVE  Cardinality({a \in seen : Due(a)})' <= waits'
    BY DEF AllCounted
  <2>1. {a \in seen : Due(a)}' = {a \in seen : Due(a)}
    OBVIOUS
  <2>2. Cardinality({a \in seen : Due(a)}) <= waits /\ waits' = waits
    BY DEF Heard, AllCounted
  <2>. QED  BY <2>1, <2>2
<1>. QED  BY <1>1, <1>2, <1>3

(* A step that only moves the turn's timers and declines on.                *)
LEMMA RestKeeps ==
  ASSUME TypeOK, AskedInv, Heard, missed => missed',
         UNCHANGED <<outward, seen, hostAsks, fetches, wire>>,
         outward \/ waits' = waits, graces' \subseteq graces,
         \A a \in Asks : a \in graces \/ deciding[a] # "no" => a \in graces' \/ deciding'[a] # "no"
  PROVE  Heard'
<1>1. \A a \in Asks : Due(a)' <=> Due(a)
  BY DEF Due, Answer
<1>2. FetchesHold' /\ GracesHold' /\ AllCounted'
  BY <1>1, DueKept DEF Calls
<1>3. AnswersOnce' /\ AnswersFollow'
  BY DEF Heard, AnswersOnce, AnswersFollow, Request, Answer
<1>4. AllDeclined'
  BY DEF Heard, AllDeclined, TypeOK, AsksOK
<1>. QED  BY <1>2, <1>3, <1>4 DEF Heard

(* A frame about no ask, or a stream that breaks.                           *)
LEMMA PlainKeeps ==
  ASSUME TypeOK, AskedInv, Heard, NEW f \in Frames,
         \A a \in Asks : f \notin {Request(a), Answer(a)},
         UNCHANGED <<outward, waits, seen, graces, deciding, hostAsks, fetches>>,
         \/ wire' = Append(wire, f) /\ missed' = missed
         \/ wire' \in {wire, <<>>} /\ missed' = TRUE
  PROVE  Heard'
<1>. WireOK
  BY DEF TypeOK
<1>1. ~missed' => \A a \in Asks : Due(a)' <=> Due(a)
  BY PutWire DEF Due, Answer
<1>2. FetchesHold' /\ GracesHold' /\ AllCounted'
  BY <1>1, DueKept DEF Calls
<1>3. AnswersOnce' /\ AnswersFollow'
  <2>1. CASE wire' = Append(wire, f) /\ missed' = missed
    BY <2>1, PutWire DEF Heard, AnswersOnce, AnswersFollow, Request, Answer
  <2>2. CASE wire' \in {wire, <<>>} /\ missed' = TRUE
    BY <2>2 DEF Heard, AnswersOnce, AnswersFollow, Request, Answer
  <2>. QED  BY <2>1, <2>2
<1>4. AllDeclined'
  BY DEF Heard, AllDeclined
<1>. QED  BY <1>2, <1>3, <1>4 DEF Heard

(* The host makes an ask it never made before.                              *)
LEMMA AskingKeeps ==
  ASSUME TypeOK, AskedInv, Heard, NEW a \in Asks, HostAsksFor(a)
  PROVE  Heard'
<1>. DEFINE n == Len(wire) + 1
<1>1. WireOK /\ a \notin asked /\ hostAsks' = hostAsks \union {a} /\ UNCHANGED turnVars
  BY DEF TypeOK, HostAsksFor
<1>2. \/ wire' = Append(wire, Request(a)) /\ missed' = missed
      \/ wire' = wire /\ missed' = TRUE
  BY DEF HostAsksFor, Emit, Request
<1>3. a \notin seen /\ (\A i \in DOMAIN wire : wire[i] # Answer(a))
      /\ \A k \in Calls : a \notin fetches[k].asks
  BY <1>1 DEF AskedInv
<1>4. \A b \in Asks : Request(a) # Answer(b)
  BY AskShapes
<1>5. \A b \in Asks : b # a => (Due(b)' <=> Due(b))
  <2>1. CASE wire' = Append(wire, Request(a))
    BY <1>1, <1>4, <2>1, AskShapes, PutWire DEF Due, Answer
  <2>2. CASE wire' = wire
    BY <1>1, <2>2 DEF Due, Answer
  <2>. QED  BY <1>2, <2>1, <2>2
<1>6. FetchesHold'
  <2>. SUFFICES ASSUME ~missed', NEW k \in Calls, fetches[k].stage = "answered",
                       NEW b \in fetches[k].asks \ seen
                PROVE  Due(b)'
    BY <1>1 DEF FetchesHold, Calls, turnVars
  <2>1. Due(b) /\ b \in Asks /\ b # a
    BY <1>2, <1>3 DEF Heard, FetchesHold, AskedInv, TypeOK, HostOK
  <2>. QED  BY <1>5, <2>1
<1>7. GracesHold'
  <2>. SUFFICES ASSUME ~missed', NEW b \in graces \ Approvals PROVE Due(b)'
    BY <1>1 DEF GracesHold, turnVars
  <2>1. Due(b) /\ b \in Asks
    BY <1>2 DEF Heard, GracesHold, TypeOK, AsksOK
  <2>2. Due(a)'
    BY <1>1 DEF Due
  <2>. QED  BY <1>5, <2>1, <2>2
<1>8. AllCounted'
  <2>. SUFFICES ASSUME ~missed', ~outward
                PROVE  Cardinality({b \in seen : Due(b)})' <= waits
    BY <1>1 DEF AllCounted, turnVars
  <2>1. {b \in seen : Due(b)}' = {b \in seen : Due(b)}
    BY <1>1, <1>3, <1>5 DEF turnVars, TypeOK, AsksOK
  <2>. QED  BY <1>2, <2>1 DEF Heard, AllCounted
<1>9. AnswersOnce' /\ AnswersFollow'
  <2>1. CASE wire' = Append(wire, Request(a)) /\ missed' = missed
    <3>1. \A b \in Asks : Request(b) = Request(a) => b = a
      BY AskShapes
    <3>2. AnswersOnce'
      BY <1>1, <1>3, <1>4, <2>1, AskShapes, PutWire DEF Heard, AnswersOnce, Answer
    <3>3. AnswersFollow'
      BY <1>1, <2>1, <3>1, AskShapes, PutWire DEF Heard, AnswersFollow, Request, Answer
    <3>. QED  BY <3>2, <3>3
  <2>2. CASE wire' = wire /\ missed' = TRUE
    BY <1>1, <1>3, <2>2 DEF Heard, AnswersOnce, AnswersFollow, Request, Answer
  <2>. QED  BY <1>2, <2>1, <2>2
<1>10. AllDeclined'
  BY <1>1, <1>3 DEF Heard, AllDeclined, turnVars
<1>. QED  BY <1>6, <1>7, <1>8, <1>9, <1>10 DEF Heard

(* An ask is answered or declined at the host.                              *)
LEMMA AnsweringKeeps ==
  ASSUME TypeOK, AskedInv, Heard, NEW a \in hostAsks, Emit(Answer(a)),
         hostAsks' = hostAsks \ {a}, UNCHANGED <<outward, waits, seen, graces, fetches>>,
         \A b \in Asks : deciding[b] # "no" => deciding'[b] # "no"
  PROVE  Heard'
<1>1. WireOK /\ a \in Asks /\ seen \subseteq Asks
  BY DEF TypeOK, HostOK, AsksOK
<1>2. \/ wire' = Append(wire, Answer(a)) /\ missed' = missed
      \/ wire' = wire /\ missed' = TRUE
  BY DEF Emit
<1>3. \A i \in DOMAIN wire : wire[i] # Answer(a)
  BY <1>1 DEF Heard, AnswersOnce
<1>4. \A b \in Asks : Answer(b) = Answer(a) => b = a
  BY <1>1, AskShapes
<1>5. ~missed' => \A b \in Asks : Due(b)' <=> Due(b)
  BY <1>1, <1>2, <1>4, AskShapes, PutWire DEF Due, Answer
<1>6. FetchesHold' /\ GracesHold' /\ AllCounted'
  BY <1>2, <1>5, DueKept DEF Calls
<1>7. AnswersOnce'
  <2>1. CASE wire' = Append(wire, Answer(a))
    BY <1>1, <1>3, <1>4, <2>1, AskShapes, PutWire DEF Heard, AnswersOnce, Answer
  <2>2. CASE wire' = wire
    BY <2>2 DEF Heard, AnswersOnce, Answer
  <2>. QED  BY <1>2, <2>1, <2>2
<1>8. AnswersFollow'
  <2>1. CASE wire' = Append(wire, Answer(a)) /\ missed' = missed
    <3>1. \A b \in Asks : Request(b) # Answer(a)
      BY <1>1, AskShapes
    <3>. QED  BY <1>1, <2>1, <3>1, AskShapes, PutWire DEF Heard, AnswersFollow, Request, Answer
  <2>2. CASE missed' = TRUE
    BY <2>2 DEF AnswersFollow
  <2>. QED  BY <1>2, <2>1, <2>2
<1>9. AllDeclined'
  BY <1>1 DEF Heard, AllDeclined
<1>. QED  BY <1>6, <1>7, <1>8, <1>9 DEF Heard

(* The host tells what is open, or the call fails and nothing is told.      *)
LEMMA ListingKeeps ==
  ASSUME TypeOK, AskedInv, Heard, NEW k \in Calls, HostListsAsks(k)
  PROVE  Heard'
<1>. CallsOK /\ seen \subseteq Asks /\ graces \subseteq Asks
  BY DEF TypeOK, AsksOK
<1>1. UNCHANGED <<outward, waits, seen, graces, deciding, hostAsks, wire>>
  BY DEF HostListsAsks, hostVars
<1>2. missed => missed'
  BY DEF HostListsAsks
<1>3. \A a : Due(a)' <=> Due(a)
  BY <1>1 DEF Due, Answer
<1>4. FetchesHold'
  <2>. SUFFICES ASSUME ~missed', NEW j \in DOMAIN fetches', fetches'[j].stage = "answered",
                       NEW a \in fetches'[j].asks \ seen
                PROVE  Due(a)
    BY <1>1, <1>3 DEF FetchesHold, Calls
  <2>1. fetches' = [fetches EXCEPT ![k] = [stage |-> "answered", asks |-> hostAsks]]
    BY DEF HostListsAsks
  <2>2. CASE j = k
    BY <2>1, <2>2, MovedCall DEF Due
  <2>3. CASE j # k
    BY <1>2, <2>1, <2>3, MovedCall DEF Heard, FetchesHold, Calls
  <2>. QED  BY <2>2, <2>3
<1>5. GracesHold'
  BY <1>1, <1>2, <1>3 DEF Heard, GracesHold
<1>6. AllCounted'
  <2>1. {a \in seen : Due(a)}' = {a \in seen : Due(a)}
    BY <1>1, <1>3
  <2>. QED  BY <1>1, <1>2, <2>1 DEF Heard, AllCounted
<1>7. AnswersOnce' /\ AnswersFollow' /\ AllDeclined'
  BY <1>1, <1>2 DEF Heard, AnswersOnce, AnswersFollow, AllDeclined, Request, Answer
<1>. QED  BY <1>4, <1>5, <1>6, <1>7 DEF Heard

(* What a pendingAsks call told is taken into account: each of its asks     *)
(* that was not seen counts, and is due.                                    *)
LEMMA RecoveringKeeps ==
  ASSUME TypeOK, AskedInv, Heard, NEW k \in Calls, fetches[k].stage = "answered",
         Recover(fetches[k].asks), graces' = Graced(fetches[k].asks \ seen),
         fetches' = [fetches EXCEPT ![k] = Used],
         UNCHANGED <<outward, deciding, hostAsks, wire, missed>>
  PROVE  Heard'
<1>. DEFINE asks == fetches[k].asks
<1>1. CallsOK /\ seen \subseteq Asks /\ graces \subseteq Asks /\ asks \subseteq Asks
      /\ waits \in Nat
  BY DEF TypeOK, AsksOK, HostOK, AskedInv
<1>2. seen' = seen \union asks /\ waits' = waits + Cardinality(asks \ seen)
      /\ graces' = IF outward THEN graces \union (asks \ seen) ELSE graces
  BY DEF Recover, Graced
<1>3. \A a : Due(a)' <=> Due(a)
  BY DEF Due, Answer
<1>4. ~missed => \A a \in asks \ seen : Due(a)
  BY DEF Heard, FetchesHold
<1>5. FetchesHold'
  <2>1. Used.stage # "answered"
    BY DEF Used
  <2>. QED  BY <1>1, <1>2, <1>3, <2>1, MovedCall DEF Heard, FetchesHold, Calls
<1>. HIDE DEF asks
<1>6. GracesHold'
  BY <1>2, <1>3, <1>4 DEF Heard, GracesHold
<1>7. AllCounted'
  <2>. SUFFICES ASSUME ~missed, ~outward
                PROVE  Cardinality({a \in seen : Due(a)})' <= waits'
    BY DEF AllCounted
  <2>. DEFINE S == {a \in seen : Due(a)}  T == asks \ seen  U == {a \in seen' : Due(a)}
  <2>1. IsFiniteSet(S) /\ IsFiniteSet(T)
    BY <1>1, TurnAssumption, FS_Subset DEF TurnAssumption
  <2>2. U \subseteq S \union T
    BY <1>2
  <2>3. {a \in seen : Due(a)}' = U
    BY <1>3
  <2>4. Cardinality(S) <= waits
    BY DEF Heard, AllCounted
  <2>5. waits' = waits + Cardinality(T)
    BY <1>2
  <2>. HIDE DEF S, T, U
  <2>6. /\ IsFiniteSet(S \union T)
        /\ Cardinality(S \union T) = Cardinality(S) + Cardinality(T) - Cardinality(S \intersect T)
    BY <2>1, FS_Union
  <2>7. Cardinality(U) <= Cardinality(S \union T)
    BY <2>2, <2>6, FS_Subset
  <2>8. IsFiniteSet(S \intersect T) /\ IsFiniteSet(U)
    BY <2>1, <2>2, <2>6, FS_Subset, FS_Intersection
  <2>9. {Cardinality(S), Cardinality(T), Cardinality(S \intersect T), Cardinality(U),
         Cardinality(S \union T)} \subseteq Nat
    BY <2>1, <2>6, <2>8, FS_CardinalityType
  <2>10. Cardinality(U) <= waits'
    BY <1>1, <2>4, <2>5, <2>6, <2>7, <2>9
  <2>. QED  BY <2>3, <2>10
<1>8. AnswersOnce' /\ AnswersFollow'
  BY DEF Heard, AnswersOnce, AnswersFollow, Request, Answer
<1>9. AllDeclined'
  BY <1>2 DEF Heard, AllDeclined
<1>. QED  BY <1>5, <1>6, <1>7, <1>8, <1>9 DEF Heard

(* The first frame of the wire is heard: an answer is due no longer, and    *)
(* nothing else changes of what is due.                                     *)
LEMMA TakenAsk ==
  ASSUME WireOK, Heard, wire # <<>>, wire' = Tail(wire), hostAsks' = hostAsks, missed => missed'
  PROVE  /\ AnswersOnce' /\ AnswersFollow'
         /\ \A a \in Asks : Head(wire) # Answer(a) => (Due(a)' <=> Due(a))
         /\ \A a \in Asks : Head(wire) = Answer(a) => Due(a) /\ ~Due(a)' /\ a \notin hostAsks
         /\ ~missed => \A a \in Asks : Head(wire) = Request(a) => Due(a)
<1>1. AnswersOnce'
  BY TakenWire DEF Heard, AnswersOnce, Answer
<1>2. AnswersFollow'
  <2>. SUFFICES ASSUME ~missed', NEW a \in Asks, NEW i \in DOMAIN wire', wire'[i] = Request(a),
                       a \notin hostAsks
                PROVE  \E j \in DOMAIN wire' : j > i /\ wire'[j] = Answer(a)
    BY DEF AnswersFollow, Request, Answer
  <2>1. i + 1 \in DOMAIN wire /\ wire[i + 1] = Request(a) /\ i \in Nat
    BY TakenWire
  <2>2. PICK j \in DOMAIN wire : j > i + 1 /\ wire[j] = Answer(a)
    BY <2>1 DEF Heard, AnswersFollow
  <2>3. j # 1 /\ j \in Nat
    BY <2>1, <2>2, TakenWire
  <2>4. j - 1 \in DOMAIN wire' /\ wire'[j - 1] = Answer(a) /\ j - 1 > i
    BY <2>1, <2>2, <2>3, TakenWire
  <2>. QED  BY <2>4
<1>3. \A a \in Asks : Head(wire) # Answer(a) => (Due(a)' <=> Due(a))
  <2>. SUFFICES ASSUME NEW a \in Asks, wire[1] # Answer(a)
                PROVE  (\E i \in DOMAIN wire : wire[i] = Answer(a))
                         <=> \E i \in DOMAIN wire' : wire'[i] = Answer(a)
    BY TakenWire DEF Due, Answer
  <2>. HIDE DEF Answer
  <2>1. ASSUME NEW i \in DOMAIN wire, wire[i] = Answer(a)
        PROVE  \E k \in DOMAIN wire' : wire'[k] = Answer(a)
    <3>1. i - 1 \in DOMAIN wire' /\ wire'[i - 1] = wire[i]
      BY <2>1, TakenWire
    <3>. QED  BY <2>1, <3>1
  <2>2. ASSUME NEW i \in DOMAIN wire', wire'[i] = Answer(a)
        PROVE  \E k \in DOMAIN wire : wire[k] = Answer(a)
    <3>1. i + 1 \in DOMAIN wire /\ wire'[i] = wire[i + 1]
      BY <2>2, TakenWire
    <3>. QED  BY <2>2, <3>1
  <2>. QED  BY <2>1, <2>2
<1>4. \A a \in Asks : Head(wire) = Answer(a) => Due(a) /\ ~Due(a)' /\ a \notin hostAsks
  BY TakenWire DEF Heard, AnswersOnce, Due, Answer
<1>5. ~missed => \A a \in Asks : Head(wire) = Request(a) => Due(a)
  BY TakenWire DEF Heard, AnswersFollow, Due
<1>. QED  BY <1>1, <1>2, <1>3, <1>4, <1>5

(* A frame is handled: an ask is counted and given its grace, an answer is  *)
(* counted off and its grace ended, the rest is about no ask.               *)
LEMMA DeliverKeeps ==
  ASSUME TypeOK, AskedInv, Heard, Deliver, listening'
  PROVE  Heard'
<1>. DEFINE f == Head(wire)
<1>1. /\ WireOK /\ CallsOK /\ wire # <<>> /\ f \in Frames
      /\ seen \subseteq Asks /\ graces \subseteq Asks /\ waits \in Nat
      /\ UNCHANGED <<outward, deciding, hostAsks>>
  <2>1. wire # <<>> /\ UNCHANGED <<outward, deciding, hostAsks>>
    BY DEF Deliver, hostVars
  <2>. QED  BY <2>1 DEF TypeOK, AsksOK, WireOK
<1>2. wire' = Tail(wire) /\ (missed => missed')
  BY DEF Deliver, HandleFrame, Unsubscribe
<1>3. AnswersOnce' /\ AnswersFollow'
  BY <1>1, <1>2, TakenAsk
<1>4. CASE UNCHANGED <<waits, seen, graces>> /\ f.kind # "resolved"
  <2>1. \A a \in Asks : Due(a)' <=> Due(a)
    BY <1>1, <1>2, <1>4, AskShapes, TakenAsk
  <2>2. fetches' = fetches \/ fetches' = Append(fetches, Call)
    BY DEF Deliver, HandleFrame
  <2>3. \A k \in DOMAIN fetches' :
          fetches'[k].stage = "answered" => k \in Calls /\ fetches'[k] = fetches[k]
    <3>1. Call.stage # "answered"
      BY DEF Call
    <3>. QED  BY <1>1, <2>2, <3>1, MoreCalls DEF Calls
  <2>4. FetchesHold' /\ GracesHold' /\ AllCounted'
    BY <1>1, <1>2, <1>4, <2>1, <2>3, DueKept
  <2>5. AllDeclined'
    BY <1>1, <1>4 DEF Heard, AllDeclined
  <2>. QED  BY <1>3, <2>4, <2>5 DEF Heard
<1>5. ASSUME NEW a \in Asks, f = Request(a), a \notin seen
      PROVE  Heard'
  <2>1. f.kind = "ask" /\ f.id = a /\ ~Repeated(f) /\ \A b \in Asks : f # Answer(b)
    BY <1>5, AskShapes DEF Repeated
  <2>2. /\ seen' = seen \union {a} /\ waits' = waits + 1 /\ UNCHANGED fetches
        /\ graces' = IF outward THEN graces \union {a} ELSE graces
    BY <2>1 DEF Deliver, HandleFrame, WaitsAfter, GracesAfter, Graced
  <2>3. (\A b \in Asks : Due(b)' <=> Due(b)) /\ (~missed => Due(a))
    BY <1>1, <1>2, <1>5, <2>1, TakenAsk
  <2>. HIDE DEF f
  <2>4. FetchesHold'
    BY <1>2, <2>2, <2>3 DEF Heard, FetchesHold, Calls, TypeOK, HostOK, AskedInv
  <2>5. GracesHold'
    BY <1>1, <1>2, <2>2, <2>3 DEF Heard, GracesHold
  <2>6. AllCounted'
    <3>. SUFFICES ASSUME ~missed, ~outward
                  PROVE  Cardinality({b \in seen : Due(b)})' <= waits'
      BY <1>1, <1>2, <2>2 DEF AllCounted
    <3>. DEFINE S == {b \in seen : Due(b)}
    <3>1. {b \in seen : Due(b)}' = S \union {a} /\ a \notin S
      BY <1>1, <1>5, <2>2, <2>3
    <3>2. IsFiniteSet(S) /\ Cardinality(S) <= waits
      BY <1>1, TurnAssumption, FS_Subset DEF TurnAssumption, Heard, AllCounted
    <3>. HIDE DEF S
    <3>3. Cardinality(S \union {a}) = Cardinality(S) + 1 /\ Cardinality(S) \in Nat
      BY <3>1, <3>2, FS_AddElement, FS_CardinalityType
    <3>4. Cardinality(S \union {a}) <= waits'
      BY <1>1, <2>2, <3>2, <3>3
    <3>. QED  BY <3>1, <3>4
  <2>7. AllDeclined'
    BY <1>1, <2>2 DEF Heard, AllDeclined
  <2>. QED  BY <1>3, <2>4, <2>5, <2>6, <2>7 DEF Heard
<1>6. ASSUME NEW a \in Asks, f = Answer(a)
      PROVE  Heard'
  <2>1. f.kind = "resolved" /\ f.id = a /\ ~Repeated(f)
    BY <1>6, AskShapes DEF Repeated
  <2>2. /\ seen' = seen /\ waits' = Less(waits) /\ UNCHANGED fetches
        /\ graces' = IF Named(f) THEN graces \ {a} ELSE graces
        /\ missed' = (missed \/ a \notin seen)
    BY <2>1 DEF Deliver, HandleFrame, WaitsAfter, GracesAfter
  <2>3. (\A b \in Asks : b # a => (Due(b)' <=> Due(b))) /\ Due(a) /\ ~Due(a)' /\ a \notin hostAsks
    BY <1>1, <1>2, <1>6, AskShapes, TakenAsk
  <2>4. a \notin Approvals => Named(f)
    BY <2>1 DEF Named
  <2>. HIDE DEF f
  <2>5. FetchesHold'
    BY <2>2, <2>3 DEF Heard, FetchesHold, Calls, TypeOK, HostOK, AskedInv
  <2>6. GracesHold'
    BY <1>1, <2>2, <2>3, <2>4 DEF Heard, GracesHold
  <2>7. AllCounted'
    <3>. SUFFICES ASSUME ~missed', ~outward
                  PROVE  Cardinality({b \in seen : Due(b)})' <= waits'
      BY <1>1 DEF AllCounted
    <3>. DEFINE S == {b \in seen : Due(b)}
    <3>1. {b \in seen : Due(b)}' = S \ {a} /\ a \in S
      BY <1>1, <2>2, <2>3
    <3>2. IsFiniteSet(S) /\ Cardinality(S) <= waits
      BY <1>1, <2>2, TurnAssumption, FS_Subset DEF TurnAssumption, Heard, AllCounted
    <3>. HIDE DEF S
    <3>3. Cardinality(S \ {a}) = Cardinality(S) - 1 /\ Cardinality(S) \in Nat
      BY <3>1, <3>2, FS_RemoveElement, FS_CardinalityType
    <3>4. Cardinality(S) # 0
      BY <3>1, <3>2, FS_EmptySet
    <3>5. Cardinality(S \ {a}) <= waits'
      BY <1>1, <2>2, <3>2, <3>3, <3>4 DEF Less
    <3>. QED  BY <3>1, <3>5
  <2>8. AllDeclined'
    BY <1>1, <2>2, <2>3 DEF Heard, AllDeclined
  <2>. QED  BY <1>3, <2>5, <2>6, <2>7, <2>8 DEF Heard
<1>7. CASE f.kind \notin {"ask", "resolved"}
  <2>1. f.kind \notin {"turn_end", "turn_failed"}
    BY <1>7 DEF Deliver, HandleFrame, Repeated, Unsubscribe
  <2>2. UNCHANGED <<waits, seen, graces>>
    BY <1>7, <2>1 DEF Deliver, HandleFrame, Repeated, WaitsAfter, GracesAfter
  <2>. QED  BY <1>4, <1>7, <2>2
<1>8. CASE Repeated(f)
  <2>1. UNCHANGED <<waits, seen, graces>> /\ f.kind # "resolved"
    BY <1>8 DEF Deliver, Repeated
  <2>. QED  BY <1>4, <2>1
<1>. QED  BY <1>1, <1>5, <1>6, <1>7, <1>8, AskShapes DEF Repeated

(* A turn that begins to listen knows of no ask.                            *)
LEMMA ListenHeard ==
  ASSUME TypeOK, BooksInv, AskedInv, Listen, listening'
  PROVE  Heard'
<1>1. /\ ~aborted /\ fetches' = <<Call>> /\ wire' = <<>> /\ seen' = {} /\ graces' = {}
      /\ waits' = waits /\ waits \in Nat
  BY DEF Listen, Unsubscribe, BooksInv, AskedInv, TypeOK, AsksOK
<1>2. FetchesHold'
  <2>1. Call.stage # "answered"
    BY DEF Call
  <2>. QED  BY <1>1, <2>1, OneCall DEF FetchesHold, Calls
<1>3. AllCounted'
  <2>1. {a \in seen : Due(a)}' = {}
    BY <1>1
  <2>2. Cardinality({}) = 0
    BY FS_EmptySet
  <2>3. Cardinality({a \in seen : Due(a)})' = 0
    BY <2>1, <2>2
  <2>. QED  BY <1>1, <2>3 DEF AllCounted
<1>4. AnswersOnce' /\ AnswersFollow'
  BY <1>1 DEF AnswersOnce, AnswersFollow, Request, Answer
<1>5. GracesHold' /\ AllDeclined'
  BY <1>1 DEF GracesHold, AllDeclined
<1>. QED  BY <1>2, <1>3, <1>4, <1>5 DEF Heard

(* What a listening turn has heard fits the host after every step.          *)
LEMMA HeardStep ==
  ASSUME TypeOK, CallMade, BooksInv, AskInv, [Next]_vars, listening'
  PROVE  Heard'
<1>. USE DEF turnVars, hostVars, linkVars
<1>1. CASE Listen
  BY <1>1, ListenHeard DEF AskInv
<1>2. CASE OpeningFails \/ PromptFails \/ Return \/ Crash \/ ConvergeRuns
  BY <1>2 DEF OpeningFails, PromptFails, Return, Crash, ConvergeRuns, Unsubscribe, BooksInv
<1>3. CASE SendPrompt
  <2>1. 1 \in Calls /\ listening
    BY <1>3 DEF SendPrompt, CallMade, TypeOK, CallsOK, Calls
  <2>. QED  BY <1>3, <2>1, RecoveringKeeps DEF SendPrompt, AskInv
<1>4. CASE PromptAccepted
  BY <1>4, RestKeeps DEF PromptAccepted, AskInv
<1>5. CASE Deliver
  BY <1>5, DeliverKeeps DEF Deliver, AskInv
<1>6. ASSUME NEW k \in Calls, ReconnectSettled(k)
      PROVE  Heard'
  <2>1. listening /\ graces' = Graced(fetches[k].asks \ seen) /\ wire' = wire
    BY <1>6 DEF ReconnectSettled, Unsubscribe
  <2>. QED  BY <1>6, <2>1, RecoveringKeeps DEF ReconnectSettled, AskInv
<1>7. CASE Stop \/ TotalTimeout \/ SilenceTimeout
  <2>1. listening /\ UNCHANGED <<outward, seen, hostAsks, fetches, wire, waits, graces, deciding,
                                 missed>>
    BY <1>7 DEF Stop, TotalTimeout, SilenceTimeout, Abort, Unsubscribe
  <2>. QED  BY <2>1, RestKeeps DEF AskInv
<1>8. ASSUME NEW a \in Asks, GraceExpires(a) \/ DeclineReturns(a) \/ DeclineFails(a)
      PROVE  Heard'
  <2>1. outward /\ listening
        /\ UNCHANGED <<outward, seen, hostAsks, fetches, wire, missed>>
    BY <1>8 DEF GraceExpires, DeclineReturns, DeclineFails, AskInv, AskedInv
  <2>2. deciding \in [Asks -> {"no", "sent", "answered", "settled"}]
    BY DEF TypeOK, AsksOK
  <2>3. graces' \subseteq graces
    BY <1>8 DEF GraceExpires, DeclineReturns, DeclineFails
  <2>4. \A b \in Asks : b \in graces \/ deciding[b] # "no" => b \in graces' \/ deciding'[b] # "no"
    BY <1>8, <2>2 DEF GraceExpires, DeclineReturns, DeclineFails
  <2>. QED  BY <2>1, <2>3, <2>4, RestKeeps DEF AskInv
<1>9. CASE HostSays \/ HostCalls \/ HostReturns \/ \E kind \in {"turn_end", "turn_failed"} : HostEnds(kind)
  <2>1. PICK kind \in {"message", "tool_call", "tool_result", "turn_end", "turn_failed"} :
          Emit([kind |-> kind])
    BY <1>9 DEF HostSays, HostCalls, HostReturns, HostEnds
  <2>2. \A a \in Asks : [kind |-> kind] \notin {Request(a), Answer(a)}
    BY AskShapes
  <2>3. UNCHANGED <<turnVars, hostAsks>>
    BY <1>9 DEF HostSays, HostCalls, HostReturns, HostEnds
  <2>. QED  BY <2>1, <2>2, <2>3, FrameFacts, PlainKeeps DEF Emit, AskInv
<1>10. ASSUME NEW a \in Asks, HostAsksFor(a)
       PROVE  Heard'
  BY <1>10, AskingKeeps DEF HostAsksFor, AskInv
<1>11. ASSUME NEW a \in Asks, Answered(a) \/ (HostDeclines(a) /\ a \in hostAsks)
       PROVE  Heard'
  <2>1. listening /\ a \in hostAsks /\ Emit(Answer(a)) /\ hostAsks' = hostAsks \ {a}
        /\ UNCHANGED <<outward, waits, seen, graces, fetches>>
    BY <1>11 DEF Answered, HostDeclines, Answer
  <2>2. \A b \in Asks : deciding[b] # "no" => deciding'[b] # "no"
    BY <1>11 DEF Answered, HostDeclines, TypeOK, AsksOK
  <2>. QED  BY <2>1, <2>2, AnsweringKeeps DEF AskInv
<1>12. ASSUME NEW a \in Asks, HostDeclines(a), a \notin hostAsks
       PROVE  Heard'
  <2>1. listening /\ UNCHANGED <<outward, waits, seen, graces, fetches, hostAsks, wire, missed>>
    BY <1>12 DEF HostDeclines
  <2>2. \A b \in Asks : deciding[b] # "no" => deciding'[b] # "no"
    BY <1>12 DEF HostDeclines, TypeOK, AsksOK
  <2>. QED  BY <2>1, <2>2, RestKeeps DEF AskInv
<1>13. ASSUME NEW k \in Calls, HostListsAsks(k)
       PROVE  Heard'
  BY <1>13, ListingKeeps DEF HostListsAsks, AskInv
<1>14. CASE LinkOpens
  <2>1. DEFINE f == [kind |-> "reconnected"]
  <2>2. f \in Frames /\ \A a \in Asks : f \notin {Request(a), Answer(a)}
    BY AskShapes, FrameFacts
  <2>3. (wire' = Append(wire, f) \/ wire' = wire) /\ UNCHANGED <<turnVars, hostAsks, missed>>
    BY <1>14 DEF LinkOpens
  <2>. HIDE DEF f
  <2>4. CASE wire' = Append(wire, f)
    BY <2>2, <2>3, <2>4, PlainKeeps DEF AskInv
  <2>5. CASE wire' = wire
    BY <2>3, <2>5, RestKeeps DEF AskInv
  <2>. QED  BY <2>3, <2>4, <2>5
<1>15. CASE LinkBreaks
  <2>1. [kind |-> "message"] \in Frames /\ \A a \in Asks : [kind |-> "message"] \notin {Request(a), Answer(a)}
    BY AskShapes, FrameFacts
  <2>. QED  BY <1>15, <2>1, PlainKeeps DEF LinkBreaks, AskInv
<1>16. CASE HostTakesPrompt \/ UNCHANGED vars
  <2>1. listening /\ UNCHANGED <<outward, seen, hostAsks, fetches, wire, waits, graces, deciding,
                                 missed>>
    BY <1>16 DEF HostTakesPrompt, vars
  <2>. QED  BY <2>1, RestKeeps DEF AskInv
<1>. QED
  BY <1>1, <1>2, <1>3, <1>4, <1>5, <1>6, <1>7, <1>8, <1>9, <1>10, <1>11, <1>12, <1>13,
     <1>14, <1>15, <1>16 DEF Next, Surroundings

(* The asks and the frames about them fit each other in every state.        *)
LEMMA AskInvariant == Spec => [](TypeOK /\ AskInv)
<1>. DEFINE Inv == TurnInv /\ AskInv
<1>1. Init => Inv
  <2>1. Init => TurnInv
    BY TypeInit DEF Init, TurnAt, TurnInv, CallMade, BooksInv, ClocksInv
  <2>2. Init => AskInv
    BY DEF Init, TurnAt, AskInv, AskedInv, Calls
  <2>. QED  BY <2>1, <2>2
<1>2. Inv /\ [Next]_vars => Inv'
  BY TypeStep, CallMadeStep, BooksStep, ClocksStep, AskedStep, HeardStep DEF TurnInv, AskInv
<1>3. Inv => TypeOK /\ AskInv
  BY DEF TurnInv
<1>. QED  BY <1>1, <1>2, <1>3, PTL DEF Spec

(* The backstop does not cut off a person who is answering: as long as      *)
(* nothing was lost, waits is no less than the asks the turn has seen and   *)
(* the host holds (awaitingHuman of driveTurn, the frames, the recovery     *)
(* and the two ways an ask is told twice).                                  *)
THEOREM AsksAreCounted == Spec => []WaitsNeverUndercounted
<1>1. TypeOK /\ AskInv => WaitsNeverUndercounted
  <2>. SUFFICES ASSUME TypeOK, AskInv, listening, ~outward, ~missed
                PROVE  Cardinality(seen \intersect hostAsks) <= waits
    BY DEF WaitsNeverUndercounted
  <2>. DEFINE S == {a \in seen : Due(a)}  T == seen \intersect hostAsks
  <2>1. T \subseteq S /\ IsFiniteSet(S)
    BY TurnAssumption, FS_Subset DEF TurnAssumption, TypeOK, AsksOK, Due
  <2>2. Cardinality(S) <= waits
    BY DEF AskInv, Heard, AllCounted
  <2>3. waits \in Nat
    BY DEF TypeOK, AsksOK
  <2>. HIDE DEF S, T
  <2>4. IsFiniteSet(T) /\ Cardinality(T) <= Cardinality(S)
    BY <2>1, FS_Subset
  <2>5. Cardinality(S) \in Nat /\ Cardinality(T) \in Nat
    BY <2>1, <2>4, FS_CardinalityType
  <2>6. Cardinality(T) <= waits
    BY <2>2, <2>3, <2>4, <2>5
  <2>. QED  BY <2>6 DEF T
<1>. QED  BY <1>1, AskInvariant, PTL

(* The asks of an outward turn: none the turn knows of is left without a    *)
(* grace timer or a decline, and no timer runs on for a question that was   *)
(* answered (scheduleAutoDecline, declineFrame and the resolved frame).     *)
THEOREM DeclinesComeInTime == Spec => []DeclinesAreTimely
<1>1. TypeOK /\ AskInv => OutwardAsksAreDeclined
  BY DEF AskInv, Heard, AllDeclined, OutwardAsksAreDeclined
<1>2. TypeOK /\ AskInv => AnsweredQuestionIsLeftAlone
  BY DEF AskInv, Heard, GracesHold, Due, Answer, AnsweredQuestionIsLeftAlone, GraceFitsHost
<1>3. TypeOK /\ AskInv => DeclinesAreTimely
  BY <1>1, <1>2 DEF DeclinesAreTimely
<1>. QED  BY <1>3, AskInvariant, PTL

-----------------------------------------------------------------------------
(* The multiplexer.                                                         *)
SubOK(s) ==
  /\ stage[s] = "new" => connOf[s] = NoSub /\ setOf[s] = NoSub
  /\ stage[s] # "new" =>
       /\ connOf[s] \in Subs /\ stage[connOf[s]] # "new"
       /\ setOf[s] \in Subs /\ stage[setOf[s]] # "new"
       /\ connOf[setOf[s]] = connOf[s]
       /\ sessionOf[setOf[s]] = sessionOf[s]
  /\ stage[s] = "on" => s \in members[setOf[s]] /\ setOf[s] \in hung

SetOK(c) ==
  /\ \A t \in members[c] : stage[t] = "on" /\ setOf[t] = c
  /\ c \in hung => members[c] # {} /\ stage[c] # "new"

ConnOK(k) ==
  /\ SetsOf(k) # {} => ~closed[k] /\ (socket[k] # "none" \/ timer[k])
  /\ SetsOf(k) = {} => socket[k] = "none" /\ ~timer[k] /\ current # k
  /\ timer[k] => socket[k] = "none"
  /\ stage[k] = "new" => ~closed[k]

MuxInv ==
  /\ MuxTypeOK
  /\ \A s \in Subs : SubOK(s) /\ SetOK(s) /\ ConnOK(s)

-----------------------------------------------------------------------------
LEMMA InitInv == MuxInit => MuxInv
<1>. SUFFICES ASSUME MuxInit PROVE MuxInv
  OBVIOUS
<1>1. MuxTypeOK
  BY DEF MuxInit, MuxTypeOK, Conns
<1>2. ASSUME NEW s \in Subs PROVE SubOK(s) /\ SetOK(s) /\ ConnOK(s)
  <2>1. SetsOf(s) = {}
    BY DEF MuxInit, SetsOf
  <2>. QED  BY <2>1, MuxAssumption DEF MuxInit, SubOK, SetOK, ConnOK, MuxAssumption
<1>. QED  BY <1>1, <1>2 DEF MuxInv

(* Where a set hangs, a subscriber is on.                                   *)
LEMMA SetsAreLive ==
  ASSUME MuxInv, NEW k \in Subs, NEW c \in SetsOf(k)
  PROVE  /\ c \in Subs /\ stage[c] # "new" /\ connOf[c] = k
         /\ stage[k] # "new"
         /\ \E t \in Subs : stage[t] = "on" /\ connOf[t] = k /\ t \in members[c]
<1>1. c \in Subs /\ c \in hung /\ connOf[c] = k
  BY DEF MuxInv, MuxTypeOK, SetsOf
<1>2. PICK t \in members[c] : TRUE
  BY <1>1 DEF MuxInv, SetOK
<1>3. t \in Subs
  BY <1>1, <1>2 DEF MuxInv, MuxTypeOK
<1>4. stage[t] = "on" /\ setOf[t] = c /\ stage[c] # "new"
  BY <1>1, <1>2 DEF MuxInv, SetOK
<1>5. connOf[t] = k /\ stage[k] # "new"
  BY <1>1, <1>3, <1>4 DEF MuxInv, SubOK
<1>. QED  BY <1>1, <1>2, <1>3, <1>4, <1>5

-----------------------------------------------------------------------------
(* One lemma per action.                                                    *)

LEMMA SubscribeInv ==
  ASSUME MuxInv, NEW s \in Subs, Subscribe(s)
  PROVE  MuxInv'
<1>. DEFINE k == Connection(s)
            mine == {c \in SetsOf(k) : sessionOf[c] = sessionOf[s]}
<1>1. /\ stage[s] = "new" /\ stage' = [stage EXCEPT ![s] = "on"]
      /\ current' = k
      /\ socket' = IF k = s THEN [socket EXCEPT ![k] = "connecting"] ELSE socket
      /\ connOf' = [connOf EXCEPT ![s] = k]
      /\ UNCHANGED <<was, timer, closed, gap, blind>>
  BY DEF Subscribe
<1>2. PICK c \in (IF mine = {} THEN {s} ELSE mine) :
        /\ setOf' = [setOf EXCEPT ![s] = c]
        /\ members' = [members EXCEPT ![c] = @ \union {s}]
        /\ hung' = hung \union {c}
  BY DEF Subscribe
<1>3. k \in Subs /\ (k = s \/ (k = current /\ k # s /\ SetsOf(k) # {} /\ stage[k] # "new"))
  <2>1. CASE current # NoSub /\ ~closed[current]
    <3>1. k = current /\ current \in Subs
      BY <2>1 DEF Connection, MuxInv, MuxTypeOK, Conns
    <3>2. SetsOf(k) # {}
      BY <3>1 DEF MuxInv, ConnOK
    <3>3. stage[k] # "new"
      BY <3>1, <3>2, SetsAreLive
    <3>. QED  BY <1>1, <3>1, <3>2, <3>3
  <2>2. CASE ~(current # NoSub /\ ~closed[current])
    BY <2>2 DEF Connection
  <2>. QED  BY <2>1, <2>2
<1>4. /\ SetsOf(s) = {} /\ members[s] = {} /\ s \notin hung
      /\ connOf[s] = NoSub /\ socket[s] = "none" /\ ~timer[s] /\ ~closed[s] /\ current # s
  <2>1. SetsOf(s) = {}
    BY <1>1, SetsAreLive
  <2>2. members[s] = {}
    <3>1. ASSUME NEW t \in members[s] PROVE FALSE
      <4>1. t \in Subs
        BY <3>1 DEF MuxInv, MuxTypeOK
      <4>2. stage[t] = "on" /\ setOf[t] = s
        BY <3>1 DEF MuxInv, SetOK
      <4>. QED  BY <1>1, <4>1, <4>2 DEF MuxInv, SubOK
    <3>. QED  BY <3>1
  <2>3. s \notin hung
    BY <1>1 DEF MuxInv, SetOK
  <2>. QED  BY <1>1, <2>1, <2>2, <2>3 DEF MuxInv, SubOK, ConnOK
<1>5. /\ c \in Subs
      /\ c = s \/ (c # s /\ c \in hung /\ connOf[c] = k /\ sessionOf[c] = sessionOf[s] /\ stage[c] # "new")
  BY <1>1, <1>2, <1>3, SetsAreLive DEF SetsOf
<1>6. MuxTypeOK'
  BY <1>1, <1>2, <1>3, <1>5 DEF MuxInv, MuxTypeOK, Conns
<1>7. ASSUME NEW t \in Subs PROVE SubOK(t)'
  <2>1. CASE t = s
    BY <1>1, <1>2, <1>3, <1>5, <1>6, <2>1 DEF MuxInv, MuxTypeOK, SubOK
  <2>2. CASE t # s
    <3>1. SubOK(t)
      BY DEF MuxInv
    <3>2. /\ stage'[t] = stage[t] /\ connOf'[t] = connOf[t] /\ setOf'[t] = setOf[t]
          /\ \A u \in Subs : stage[u] # "new" => stage'[u] # "new" /\ connOf'[u] = connOf[u]
          /\ \A u \in Subs : members[u] \subseteq members'[u]
          /\ hung \subseteq hung'
      BY <1>1, <1>2, <1>5, <2>2 DEF MuxInv, MuxTypeOK
    <3>. QED  BY <3>1, <3>2 DEF SubOK
  <2>. QED  BY <2>1, <2>2
<1>8. ASSUME NEW d \in Subs PROVE SetOK(d)'
  <2>1. SetOK(d)
    BY DEF MuxInv
  <2>2. \A t \in members[d] : t \in Subs /\ t # s
    BY <1>1, <2>1 DEF MuxInv, MuxTypeOK, SetOK
  <2>3. CASE d = c
    <3>1. members'[d] = members[d] \union {s} /\ stage'[s] = "on" /\ setOf'[s] = d
      BY <1>1, <1>2, <1>5, <2>3 DEF MuxInv, MuxTypeOK
    <3>2. \A t \in members[d] : stage'[t] = "on" /\ setOf'[t] = d
      BY <1>1, <1>2, <2>1, <2>2 DEF MuxInv, MuxTypeOK, SetOK
    <3>3. stage'[d] # "new"
      BY <1>1, <1>5, <2>3 DEF MuxInv, MuxTypeOK
    <3>. QED  BY <3>1, <3>2, <3>3 DEF SetOK
  <2>4. CASE d # c
    <3>1. members'[d] = members[d] /\ (d \in hung' => d \in hung)
      BY <1>2, <2>4 DEF MuxInv, MuxTypeOK
    <3>2. \A t \in members[d] : stage'[t] = "on" /\ setOf'[t] = d
      BY <1>1, <1>2, <2>1, <2>2 DEF MuxInv, MuxTypeOK, SetOK
    <3>3. stage[d] # "new" => stage'[d] # "new"
      BY <1>1 DEF MuxInv, MuxTypeOK
    <3>. QED  BY <2>1, <3>1, <3>2, <3>3 DEF SetOK
  <2>. QED  BY <2>3, <2>4
<1>9. ASSUME NEW j \in Subs PROVE ConnOK(j)'
  <2>1. ConnOK(j)
    BY DEF MuxInv
  <2>2. SetsOf(j)' = IF j = k THEN SetsOf(j) \union {c} ELSE SetsOf(j)
    <3>1. connOf'[c] = k
      BY <1>1, <1>2, <1>5 DEF MuxInv, MuxTypeOK
    <3>2. \A d \in hung : d \in Subs /\ d # s /\ connOf'[d] = connOf[d]
      BY <1>1, <1>4 DEF MuxInv, MuxTypeOK
    <3>3. c \in hung => connOf[c] = k
      BY <1>4, <1>5
    <3>. QED  BY <1>2, <3>1, <3>2, <3>3 DEF SetsOf
  <2>3. CASE j = k
    <3>1. SetsOf(j)' # {}
      BY <2>2, <2>3
    <3>2. /\ ~closed'[j] /\ (socket'[j] # "none" \/ timer'[j])
          /\ timer'[j] => socket'[j] = "none"
      BY <1>1, <1>3, <1>4, <2>1, <2>3 DEF MuxInv, MuxTypeOK, ConnOK
    <3>. QED  BY <3>1, <3>2 DEF ConnOK
  <2>4. CASE j # k
    <3>1. /\ SetsOf(j)' = SetsOf(j) /\ current' # j
          /\ socket'[j] = socket[j] /\ timer'[j] = timer[j] /\ closed'[j] = closed[j]
          /\ stage'[j] = "new" => stage[j] = "new"
      BY <1>1, <2>2, <2>4 DEF MuxInv, MuxTypeOK
    <3>. QED  BY <2>1, <3>1 DEF ConnOK
  <2>. QED  BY <2>3, <2>4
<1>. QED  BY <1>6, <1>7, <1>8, <1>9 DEF MuxInv

(* A clean-up, the first or a repeated one.                                 *)
LEMMA UnsubscribeInv ==
  ASSUME MuxInv, NEW s \in Subs, Leave(s)
  PROVE  MuxInv'
<1>0. stage[s] # "new" /\ connOf[s] \in Subs /\ setOf[s] \in Subs
  BY DEF Leave, MuxInv, SubOK
<1>k. PICK k \in Subs : k = connOf[s]
  BY <1>0
<1>c. PICK c \in Subs : c = setOf[s]
  BY <1>0
<1>. DEFINE left == members[c] \ {s}
<1>1. /\ stage[s] \in {"on", "off"} /\ stage' = [stage EXCEPT ![s] = "off"]
      /\ members' = [members EXCEPT ![c] = left]
      /\ hung' = IF left = {} THEN hung \ {c} ELSE hung
      /\ MaybeClose(k, hung')
      /\ gap' = [gap EXCEPT ![s] = FALSE] /\ blind' = [blind EXCEPT ![s] = FALSE]
      /\ UNCHANGED <<connOf, setOf>>
  BY <1>k, <1>c DEF Leave, Remaining
<1>2. /\ stage[k] # "new" /\ stage[c] # "new" /\ connOf[c] = k
  BY <1>0, <1>k, <1>c DEF MuxInv, SubOK
<1>3. \A d \in hung' : d \in hung /\ d \in Subs
  BY <1>1 DEF MuxInv, MuxTypeOK
<1>4. \A j \in Subs : SetsOf(j)' = {d \in SetsOf(j) : d \in hung'}
  BY <1>1, <1>3 DEF SetsOf
<1>5. \/ /\ SetsOf(k)' # {} /\ UNCHANGED connVars
      \/ /\ SetsOf(k)' = {}
         /\ closed' = [closed EXCEPT ![k] = TRUE]
         /\ timer' = [timer EXCEPT ![k] = FALSE]
         /\ socket' = [socket EXCEPT ![k] = "none"]
         /\ current' = NoSub
         /\ UNCHANGED was
  BY <1>1 DEF MaybeClose, SetsOf
<1>6. MuxTypeOK'
  <2>1. /\ current' \in Conns
        /\ socket' \in [Subs -> {"none", "connecting", "open", "closing"}]
        /\ was' \in [Subs -> BOOLEAN] /\ timer' \in [Subs -> BOOLEAN]
        /\ closed' \in [Subs -> BOOLEAN]
    <3>0. /\ current \in Conns /\ NoSub \in Conns
          /\ socket \in [Subs -> {"none", "connecting", "open", "closing"}]
          /\ was \in [Subs -> BOOLEAN] /\ timer \in [Subs -> BOOLEAN]
          /\ closed \in [Subs -> BOOLEAN]
      BY DEF MuxInv, MuxTypeOK, Conns
    <3>1. CASE UNCHANGED connVars
      BY <3>0, <3>1 DEF connVars
    <3>2. CASE /\ closed' = [closed EXCEPT ![k] = TRUE]
               /\ timer' = [timer EXCEPT ![k] = FALSE]
               /\ socket' = [socket EXCEPT ![k] = "none"]
               /\ current' = NoSub
               /\ UNCHANGED was
      BY <3>0, <3>2
    <3>. QED  BY <1>5, <3>1, <3>2
  <2>2. /\ stage' \in [Subs -> {"new", "on", "off"}]
        /\ gap' \in [Subs -> BOOLEAN] /\ blind' \in [Subs -> BOOLEAN]
        /\ \A t \in Subs : stage'[t] = "new" <=> stage[t] = "new"
    BY <1>1 DEF MuxInv, MuxTypeOK
  <2>3. members' \in [Subs -> SUBSET Subs] /\ hung' \subseteq Subs
    BY <1>1, <1>3 DEF MuxInv, MuxTypeOK
  <2>. QED  BY <1>1, <2>1, <2>2, <2>3 DEF MuxInv, MuxTypeOK
<1>7. ASSUME NEW t \in Subs PROVE SubOK(t)'
  <2>1. SubOK(t)
    BY DEF MuxInv
  <2>2. \A u \in Subs : stage'[u] = "new" <=> stage[u] = "new"
    BY <1>1 DEF MuxInv, MuxTypeOK
  <2>3. stage'[t] = "on" => t # s /\ stage[t] = "on"
    BY <1>1 DEF MuxInv, MuxTypeOK
  <2>4. ASSUME t # s, stage[t] = "on" PROVE t \in members'[setOf[t]] /\ setOf[t] \in hung'
    <3>1. t \in members[setOf[t]] /\ setOf[t] \in hung /\ setOf[t] \in Subs
      BY <2>1, <2>4 DEF SubOK
    <3>2. t \in members'[setOf[t]]
      BY <1>1, <2>4, <3>1 DEF MuxInv, MuxTypeOK
    <3>3. setOf[t] = c => left # {}
      BY <2>4, <3>1
    <3>. QED  BY <1>1, <3>1, <3>2, <3>3
  <2>. QED  BY <1>1, <2>1, <2>2, <2>3, <2>4 DEF SubOK
<1>8. ASSUME NEW d \in Subs PROVE SetOK(d)'
  <2>1. SetOK(d)
    BY DEF MuxInv
  <2>2. members'[d] \subseteq members[d] /\ s \notin members'[d]
    <3>1. CASE d = c
      BY <1>1, <3>1 DEF MuxInv, MuxTypeOK
    <3>2. CASE d # c
      <4>1. s \notin members[d]
        BY <1>c, <2>1, <3>2 DEF SetOK
      <4>. QED  BY <1>1, <3>2, <4>1 DEF MuxInv, MuxTypeOK
    <3>. QED  BY <3>1, <3>2
  <2>3. \A t \in members'[d] : stage'[t] = "on" /\ setOf'[t] = d
    BY <1>1, <2>1, <2>2 DEF MuxInv, MuxTypeOK, SetOK
  <2>4. d \in hung' => members'[d] # {} /\ stage'[d] # "new"
    <3>1. stage[d] # "new" => stage'[d] # "new"
      BY <1>1 DEF MuxInv, MuxTypeOK
    <3>2. d \in hung' => members'[d] # {}
      BY <1>1, <1>3, <2>1 DEF MuxInv, MuxTypeOK, SetOK
    <3>. QED  BY <1>3, <2>1, <3>1, <3>2 DEF SetOK
  <2>. QED  BY <2>3, <2>4 DEF SetOK
<1>9. ASSUME NEW j \in Subs PROVE ConnOK(j)'
  <2>1. ConnOK(j)
    BY DEF MuxInv
  <2>2. stage'[j] = "new" => stage[j] = "new" /\ j # k
    BY <1>1, <1>2 DEF MuxInv, MuxTypeOK
  <2>3. CASE j = k /\ SetsOf(k)' = {}
    <3>1. timer'[j] = FALSE /\ socket'[j] = "none" /\ current' = NoSub
      BY <1>5, <2>3 DEF MuxInv, MuxTypeOK
    <3>2. current' # j
      BY <3>1, MuxAssumption DEF MuxAssumption
    <3>. QED  BY <2>2, <2>3, <3>1, <3>2 DEF ConnOK
  <2>4. CASE j = k /\ SetsOf(k)' # {}
    <3>1. SetsOf(k) # {}
      BY <1>2, <1>4, <2>4
    <3>. QED  BY <1>5, <2>1, <2>2, <2>4, <3>1 DEF ConnOK, connVars
  <2>5. CASE j # k
    <3>1. SetsOf(j)' = SetsOf(j)
      BY <1>1, <1>2, <1>4, <2>5 DEF SetsOf
    <3>2. /\ socket'[j] = socket[j] /\ timer'[j] = timer[j] /\ closed'[j] = closed[j]
          /\ current' = j => current = j
      BY <1>2, <1>5, <2>5, MuxAssumption DEF MuxInv, MuxTypeOK, connVars, MuxAssumption
    <3>. QED  BY <2>1, <2>2, <3>1, <3>2 DEF ConnOK
  <2>. QED  BY <2>3, <2>4, <2>5
<1>. QED  BY <1>6, <1>7, <1>8, <1>9 DEF MuxInv

(* The steps of a socket leave the listeners alone.                         *)
LEMMA SocketInv ==
  ASSUME MuxInv, NEW k \in Subs, Opens(k) \/ Breaks(k) \/ Closes(k) \/ Reconnects(k)
  PROVE  MuxInv'
<1>1. UNCHANGED subVars /\ UNCHANGED closed
  BY DEF Opens, Breaks, Closes, Reconnects
<1>2. \A j \in Subs : SetsOf(j)' = SetsOf(j)
  BY <1>1 DEF subVars, SetsOf
<1>3. ConnOK(k) /\ (socket[k] # "none" \/ timer[k] => SetsOf(k) # {})
  BY DEF MuxInv, ConnOK
<1>4. SetsOf(k) # {} /\ ~closed[k] /\ current' = current
  BY <1>3 DEF ConnOK, Opens, Breaks, Closes, Retries, Reconnects
<1>5. MuxTypeOK'
  <2>1. socket' \in [Subs -> {"none", "connecting", "open", "closing"}]
    BY <1>4 DEF MuxInv, MuxTypeOK, Opens, Breaks, Closes, Reconnects
  <2>2. was' \in [Subs -> BOOLEAN]
    <3>1. was' = was \/ \E b \in BOOLEAN : was' = [was EXCEPT ![k] = b]
      BY DEF Opens, Breaks, Closes, Reconnects, WasAfter, MuxInv, MuxTypeOK
    <3>. QED  BY <3>1 DEF MuxInv, MuxTypeOK
  <2>3. timer' \in [Subs -> BOOLEAN]
    <3>1. timer' = timer \/ \E b \in BOOLEAN : timer' = [timer EXCEPT ![k] = b]
      BY <1>4 DEF Opens, Breaks, Closes, Retries, Reconnects
    <3>. QED  BY <3>1 DEF MuxInv, MuxTypeOK
  <2>4. gap' \in [Subs -> BOOLEAN] /\ blind' = blind
    <3>1. gap' = gap \/ gap' = [s \in Subs |-> gap[s] /\ s \notin Told(k)]
      BY DEF Opens, Breaks, Closes, Reconnects
    <3>2. [s \in Subs |-> gap[s] /\ s \notin Told(k)] \in [Subs -> BOOLEAN]
      OBVIOUS
    <3>. QED  BY <3>1, <3>2 DEF MuxInv, MuxTypeOK, Opens, Breaks, Closes, Reconnects
  <2>. QED  BY <1>1, <1>4, <2>1, <2>2, <2>3, <2>4 DEF MuxInv, MuxTypeOK, subVars
<1>6. ASSUME NEW s \in Subs PROVE SubOK(s)' /\ SetOK(s)'
  BY <1>1 DEF MuxInv, SubOK, SetOK, subVars
<1>7. ASSUME NEW j \in Subs PROVE ConnOK(j)'
  <2>1. ConnOK(j) /\ SetsOf(j)' = SetsOf(j)
    BY <1>2 DEF MuxInv
  <2>2. CASE j # k
    <3>1. socket'[j] = socket[j] /\ timer'[j] = timer[j]
      BY <2>2 DEF MuxInv, MuxTypeOK, Opens, Breaks, Closes, Reconnects
    <3>. QED  BY <1>1, <1>4, <2>1, <3>1 DEF ConnOK, subVars
  <2>3. CASE j = k
    <3>1. /\ socket'[j] # "none" \/ timer'[j]
          /\ timer'[j] => socket'[j] = "none"
      BY <1>3, <1>4, <2>3
         DEF MuxInv, MuxTypeOK, ConnOK, Opens, Breaks, Closes, Retries, Reconnects
    <3>. QED  BY <1>1, <1>4, <2>1, <2>3, <3>1 DEF ConnOK, subVars
  <2>. QED  BY <2>2, <2>3
<1>. QED  BY <1>5, <1>6, <1>7 DEF MuxInv

LEMMA FrameInv ==
  ASSUME MuxInv, (\E x \in Sessions : Frame(x)) \/ UNCHANGED muxVars
  PROVE  MuxInv'
<1>1. UNCHANGED <<connVars, subVars>> /\ {gap', blind'} \subseteq [Subs -> BOOLEAN]
  <2>1. CASE UNCHANGED muxVars
    BY <2>1 DEF muxVars, MuxInv, MuxTypeOK
  <2>2. ASSUME NEW x \in Sessions, Frame(x)
        PROVE  /\ UNCHANGED <<connVars, subVars>>
               /\ gap' \in [Subs -> BOOLEAN] /\ blind' \in [Subs -> BOOLEAN]
    BY <2>2 DEF Frame
  <2>. QED  BY <2>1, <2>2
<1>. QED  BY <1>1 DEF connVars, subVars, MuxInv, MuxTypeOK, SubOK, SetOK, ConnOK, SetsOf

(* Which listener is where, and which connection lives.                     *)
THEOREM MuxInvariant == MuxSpec => []MuxInv
<1>1. MuxInv /\ [MuxNext]_muxVars => MuxInv'
  BY SubscribeInv, UnsubscribeInv, SocketInv, FrameInv DEF MuxNext
<1>. QED  BY <1>1, InitInv, PTL DEF MuxSpec

(* The state of the multiplexer is well typed.                              *)
THEOREM MuxTypesHold == MuxSpec => []MuxTypeOK
<1>. QED  BY MuxInvariant, PTL DEF MuxInv

-----------------------------------------------------------------------------
(* Whoever has subscribed and not left is served, whatever others clean up  *)
(* and however often.                                                       *)
THEOREM EverySubscriberIsServed == MuxSpec => []SubscribersAreServed
<1>1. MuxInv => SubscribersAreServed
  <2>. SUFFICES ASSUME MuxInv, NEW s \in On
                PROVE  /\ s \in Listeners(connOf[s], sessionOf[s])
                       /\ ~closed[connOf[s]]
                       /\ socket[connOf[s]] # "none" \/ timer[connOf[s]]
    BY DEF SubscribersAreServed
  <2>1. s \in Subs /\ SubOK(s) /\ stage[s] = "on"
    BY DEF On, MuxInv
  <2>2. setOf[s] \in SetsOf(connOf[s]) /\ connOf[s] \in Subs
    BY <2>1 DEF SubOK, SetsOf
  <2>3. s \in Listeners(connOf[s], sessionOf[s])
    BY <2>1, <2>2 DEF SubOK, Listeners
  <2>. QED  BY <2>2, <2>3 DEF MuxInv, ConnOK
<1>. QED  BY <1>1, MuxInvariant, PTL

(* A connection nobody listens to is closed, leaves no timer behind and is  *)
(* not handed to the next subscriber.                                       *)
THEOREM NoConnectionIdles == MuxSpec => []NoIdleConnection
<1>1. MuxInv => NoIdleConnection
  <2>. SUFFICES ASSUME MuxInv, NEW k \in Subs, socket[k] # "none" \/ timer[k] \/ current = k
                PROVE  \E s \in On : connOf[s] = k
    BY DEF NoIdleConnection
  <2>1. SetsOf(k) # {}
    BY DEF MuxInv, ConnOK
  <2>. QED  BY <2>1, SetsAreLive DEF On
<1>. QED  BY <1>1, MuxInvariant, PTL

-----------------------------------------------------------------------------
(* The promise of Feed.                                                     *)

(* An untold loss is one of a subscriber whose stream is still away.        *)
GapInv == \A s \in Subs : gap[s] => Link(s) = "lost"

LEMMA LinkValues ==
  ASSUME NEW s \in Subs
  PROVE  /\ Link(s) \in {"none", "connecting", "up", "lost"}
         /\ Link(s) = "none" <=> stage[s] # "on"
         /\ Link(s) = "up" <=> stage[s] = "on" /\ socket[connOf[s]] = "open"
         /\ Link(s) = "lost" <=> /\ stage[s] = "on" /\ socket[connOf[s]] # "open"
                                 /\ was[connOf[s]] \/ socket[connOf[s]] = "closing"
BY DEF Link, On

(* A subscriber whose row and connection are left alone keeps its link.     *)
LEMMA LinkKept ==
  ASSUME NEW s \in Subs, stage'[s] = stage[s], connOf'[s] = connOf[s],
         socket'[connOf[s]] = socket[connOf[s]], was'[connOf[s]] = was[connOf[s]]
  PROVE  Link(s)' = Link(s)
BY DEF Link, On

(* Whoever is on hears what its connection hears.                           *)
LEMMA OnIsListener ==
  ASSUME MuxInv, NEW s \in Subs, stage[s] = "on"
  PROVE  /\ connOf[s] \in Subs
         /\ setOf[s] \in SetsOf(connOf[s]) /\ s \in members[setOf[s]]
         /\ s \in Listeners(connOf[s], sessionOf[s])
<1>1. SubOK(s)
  BY DEF MuxInv
<1>2. connOf[s] \in Subs /\ setOf[s] \in SetsOf(connOf[s]) /\ s \in members[setOf[s]]
  BY <1>1 DEF SubOK, SetsOf
<1>. QED  BY <1>1, <1>2 DEF SubOK, Listeners

LEMMA SubscribeJoins ==
  ASSUME MuxInv, NEW s \in Subs, Subscribe(s)
  PROVE  Promise!Join(s)
<1>1. /\ stage[s] = "new" /\ stage' = [stage EXCEPT ![s] = "on"] /\ gap' = gap
      /\ connOf' = [connOf EXCEPT ![s] = Connection(s)] /\ was' = was
      /\ \A j \in Subs : j # s => socket'[j] = socket[j]
  BY DEF Subscribe, MuxInv, MuxTypeOK
<1>2. ASSUME NEW t \in Subs, t # s PROVE Link(t)' = Link(t)
  <2>1. stage'[t] = stage[t] /\ connOf'[t] = connOf[t]
    BY <1>1, <1>2 DEF MuxInv, MuxTypeOK
  <2>2. CASE stage[t] = "on"
    <3>1. connOf[t] \in Subs /\ connOf[t] # s
      BY <1>1, <2>2 DEF MuxInv, SubOK
    <3>. QED  BY <1>1, <2>1, <3>1, LinkKept
  <2>3. CASE stage[t] # "on"
    BY <2>1, <2>3 DEF Link, On
  <2>. QED  BY <2>2, <2>3
<1>3. Link(s)' \in {"connecting", "up", "lost"}
  <2>1. stage'[s] = "on"
    BY <1>1 DEF MuxInv, MuxTypeOK
  <2>. QED  BY <2>1 DEF Link, On
<1>4. [t \in Subs |-> Link(t)]' = [[t \in Subs |-> Link(t)] EXCEPT ![s] = Link(s)']
  BY <1>2
<1>. QED  BY <1>1, <1>3, <1>4 DEF Promise!Join

LEMMA UnsubscribeLeaves ==
  ASSUME MuxInv, GapInv, NEW s \in Subs, Leave(s), MuxInv'
  PROVE  Promise!Leave(s) \/ UNCHANGED Promise!feedVars
<1>1. /\ stage[s] \in {"on", "off"} /\ stage' = [stage EXCEPT ![s] = "off"]
      /\ gap' = [gap EXCEPT ![s] = FALSE]
      /\ MaybeClose(connOf[s], hung')
      /\ UNCHANGED <<connOf, setOf>>
  BY DEF Leave
<1>2. ASSUME NEW t \in Subs, t # s PROVE Link(t)' = Link(t)
  <2>1. stage'[t] = stage[t] /\ connOf'[t] = connOf[t]
    BY <1>1, <1>2 DEF MuxInv, MuxTypeOK
  <2>2. CASE stage[t] = "on"
    <3>1. SubOK(t)'
      BY DEF MuxInv
    <3>2. setOf[t] \in hung' /\ connOf[setOf[t]] = connOf[t] /\ connOf[t] \in Subs
      BY <1>1, <2>1, <2>2, <3>1 DEF SubOK
    <3>3. /\ socket'[connOf[t]] = socket[connOf[t]]
          /\ was'[connOf[t]] = was[connOf[t]]
      <4>1. CASE connOf[t] = connOf[s]
        BY <1>1, <3>2, <4>1 DEF MaybeClose, connVars
      <4>2. CASE connOf[t] # connOf[s]
        BY <1>1, <3>2, <4>2 DEF MaybeClose, connVars, MuxInv, MuxTypeOK
      <4>. QED  BY <4>1, <4>2
    <3>. QED  BY <2>1, <3>3, LinkKept
  <2>3. CASE stage[t] # "on"
    BY <2>1, <2>3 DEF Link, On
  <2>. QED  BY <2>2, <2>3
<1>3. Link(s)' = "none"
  <2>1. stage'[s] = "off"
    BY <1>1 DEF MuxInv, MuxTypeOK
  <2>. QED  BY <2>1 DEF Link, On
<1>4. [t \in Subs |-> Link(t)]' = [[t \in Subs |-> Link(t)] EXCEPT ![s] = "none"]
  BY <1>2, <1>3
<1>5. CASE stage[s] = "on"
  BY <1>1, <1>4, <1>5 DEF Promise!Leave
<1>6. CASE stage[s] = "off"
  <2>1. Link(s) = "none" /\ ~gap[s]
    BY <1>6, LinkValues DEF GapInv
  <2>2. stage' = stage
    BY <1>1, <1>6 DEF MuxInv, MuxTypeOK
  <2>3. gap' = gap
    BY <1>1, <2>1 DEF MuxInv, MuxTypeOK
  <2>4. [t \in Subs |-> Link(t)]' = [t \in Subs |-> Link(t)]
    BY <1>4, <2>1
  <2>. QED  BY <2>2, <2>3, <2>4 DEF Promise!feedVars
<1>. QED  BY <1>1, <1>5, <1>6

LEMMA OpensTells ==
  ASSUME MuxInv, GapInv, NEW k \in Subs, Opens(k)
  PROVE  \E who \in SUBSET Subs : Promise!Open(who)
<1>. DEFINE who == {t \in Subs : stage[t] = "on" /\ connOf[t] = k}
<1>1. /\ socket[k] = "connecting" /\ socket'[k] = "open"
      /\ \A j \in Subs : j # k => socket'[j] = socket[j]
      /\ UNCHANGED <<was, stage, connOf>>
      /\ gap' = [s \in Subs |-> gap[s] /\ s \notin Told(k)]
  BY DEF Opens, subVars, MuxInv, MuxTypeOK
<1>2. \A t \in who : Link(t) \in {"connecting", "lost"}
  BY <1>1, LinkValues
<1>3. ASSUME NEW t \in Subs
      PROVE  Link(t)' = IF t \in who THEN "up" ELSE Link(t)
  <2>1. CASE t \in who
    BY <1>1, <2>1 DEF Link, On
  <2>2. CASE stage[t] = "on" /\ connOf[t] # k
    BY <1>1, <2>2, LinkKept, OnIsListener
  <2>3. CASE stage[t] # "on"
    BY <1>1, <2>3 DEF Link, On
  <2>. QED  BY <2>1, <2>2, <2>3
<1>4. ASSUME NEW t \in Subs, gap[t]
      PROVE  t \in Told(k) <=> t \in who
  <2>1. stage[t] = "on" /\ Link(t) = "lost"
    BY <1>4, LinkValues DEF GapInv
  <2>2. ASSUME t \in who PROVE t \in Told(k)
    <3>1. was[k]
      BY <1>1, <2>1, <2>2, LinkValues
    <3>. QED  BY <2>1, <2>2, <3>1, OnIsListener DEF Told
  <2>3. ASSUME t \in Told(k) PROVE t \in who
    <3>1. PICK c \in SetsOf(k) : t \in members[c]
      BY <2>3 DEF Told
    <3>2. c \in Subs /\ connOf[c] = k
      BY SetsAreLive
    <3>3. stage[t] = "on" /\ setOf[t] = c
      BY <3>1, <3>2 DEF MuxInv, SetOK
    <3>. QED  BY <3>2, <3>3 DEF MuxInv, SubOK
  <2>. QED  BY <2>2, <2>3
<1>5. gap' = [t \in Subs |-> gap[t] /\ t \notin who]
  <2>1. \A t \in Subs : (gap[t] /\ t \notin Told(k)) = (gap[t] /\ t \notin who)
    BY <1>4
  <2>. QED  BY <1>1, <2>1
<1>6. [t \in Subs |-> Link(t)]' = [t \in Subs |-> IF t \in who THEN "up" ELSE Link(t)]
  BY <1>3
<1>7. [t \in Subs |-> Link(t)]' =
        [t \in Subs |-> IF t \in who THEN "up" ELSE [u \in Subs |-> Link(u)][t]]
  BY <1>6
<1>8. Promise!Open(who)
  BY <1>1, <1>2, <1>5, <1>7 DEF Promise!Open
<1>. QED  BY <1>8

LEMMA BreaksBreaks ==
  ASSUME MuxInv, NEW k \in Subs, Breaks(k)
  PROVE  \E who \in SUBSET Subs : Promise!Break(who)
<1>. DEFINE who == {t \in Subs : stage[t] = "on" /\ connOf[t] = k}
<1>1. /\ socket[k] = "open" /\ socket'[k] = "closing"
      /\ \A j \in Subs : j # k => socket'[j] = socket[j]
      /\ UNCHANGED <<was, stage, connOf, gap>>
  BY DEF Breaks, subVars, MuxInv, MuxTypeOK
<1>2. \A t \in who : Link(t) = "up"
  BY <1>1, LinkValues
<1>3. ASSUME NEW t \in Subs
      PROVE  Link(t)' = IF t \in who THEN "lost" ELSE Link(t)
  <2>1. CASE t \in who
    BY <1>1, <2>1 DEF Link, On
  <2>2. CASE stage[t] = "on" /\ connOf[t] # k
    BY <1>1, <2>2, LinkKept, OnIsListener
  <2>3. CASE stage[t] # "on"
    BY <1>1, <2>3 DEF Link, On
  <2>. QED  BY <2>1, <2>2, <2>3
<1>4. [t \in Subs |-> Link(t)]' =
        [t \in Subs |-> IF t \in who THEN "lost" ELSE [u \in Subs |-> Link(u)][t]]
  BY <1>3
<1>5. Promise!Break(who)
  BY <1>1, <1>2, <1>4 DEF Promise!Break
<1>. QED  BY <1>5

(* An onclose and a reconnect are nothing a subscriber is told of.          *)
LEMMA RetriesAreSilent ==
  ASSUME MuxInv, NEW k \in Subs, Closes(k) \/ Reconnects(k)
  PROVE  UNCHANGED Promise!feedVars
<1>1. /\ UNCHANGED <<stage, connOf, gap>>
      /\ \A j \in Subs : j # k => socket'[j] = socket[j] /\ was'[j] = was[j]
  BY DEF Closes, Reconnects, subVars, MuxInv, MuxTypeOK
<1>2. /\ socket[k] # "open" /\ socket'[k] # "open" /\ socket'[k] # "closing"
      /\ was'[k] <=> was[k] \/ socket[k] = "closing"
  <2>1. ConnOK(k)
    BY DEF MuxInv
  <2>2. CASE Closes(k)
    BY <2>2 DEF Closes, WasAfter, MuxInv, MuxTypeOK
  <2>3. CASE Reconnects(k)
    BY <2>1, <2>3 DEF Reconnects, ConnOK, MuxInv, MuxTypeOK
  <2>. QED  BY <2>2, <2>3
<1>3. ASSUME NEW t \in Subs PROVE Link(t)' = Link(t)
  <2>1. CASE stage[t] = "on" /\ connOf[t] = k
    BY <1>1, <1>2, <2>1 DEF Link, On
  <2>2. CASE stage[t] = "on" /\ connOf[t] # k
    BY <1>1, <2>2, LinkKept, OnIsListener
  <2>3. CASE stage[t] # "on"
    BY <1>1, <2>3 DEF Link, On
  <2>. QED  BY <2>1, <2>2, <2>3
<1>. QED  BY <1>1, <1>3 DEF Promise!feedVars

LEMMA FrameMisses ==
  ASSUME MuxInv, NEW x \in Sessions, Frame(x)
  PROVE  \E who \in SUBSET Subs : Promise!Miss(who)
<1>. DEFINE deaf == {s \in On : sessionOf[s] = x /\ ~Hears(s, x)}
            who == {s \in deaf : Link(s) # "connecting"}
<1>1. UNCHANGED <<connVars, subVars>>
  BY DEF Frame
<1>2. gap' = [s \in Subs |-> gap[s] \/ s \in who]
  <2>1. gap' = [s \in Subs |-> gap[s] \/ (s \in deaf /\ Link(s) # "connecting")]
    BY DEF Frame
  <2>. QED  BY <2>1
<1>3. ASSUME NEW t \in who PROVE Link(t) = "lost" /\ t \in Subs
  <2>1. t \in Subs /\ stage[t] = "on" /\ sessionOf[t] = x /\ ~Hears(t, x)
    BY DEF On
  <2>2. socket[connOf[t]] # "open"
    BY <2>1, OnIsListener DEF Hears
  <2>. QED  BY <2>1, <2>2, LinkValues
<1>4. [t \in Subs |-> Link(t)]' = [t \in Subs |-> Link(t)]
  BY <1>1 DEF connVars, subVars, Link, On
<1>5. \A t \in who : [u \in Subs |-> Link(u)][t] = "lost"
  BY <1>3
<1>6. who \in SUBSET Subs
  BY <1>3
<1>7. Promise!Miss(who)
  BY <1>1, <1>2, <1>4, <1>5 DEF Promise!Miss, subVars
<1>. QED  BY <1>6, <1>7

LEMMA PromiseStep ==
  ASSUME MuxInv, GapInv, [MuxNext]_muxVars, MuxInv'
  PROVE  [Promise!Next]_(Promise!feedVars)
<1>1. CASE \E s \in Subs : Subscribe(s) \/ Leave(s)
  BY <1>1, SubscribeJoins, UnsubscribeLeaves DEF Promise!Next
<1>2. CASE \E k \in Subs : Opens(k) \/ Breaks(k) \/ Closes(k) \/ Reconnects(k)
  BY <1>2, OpensTells, BreaksBreaks, RetriesAreSilent DEF Promise!Next
<1>3. CASE \E x \in Sessions : Frame(x)
  BY <1>3, FrameMisses DEF Promise!Next
<1>4. CASE UNCHANGED muxVars
  BY <1>4 DEF muxVars, connVars, subVars, Promise!feedVars, Link, On
<1>. QED  BY <1>1, <1>2, <1>3, <1>4 DEF MuxNext

LEMMA GapStep ==
  ASSUME MuxInv, GapInv, [Promise!Next]_(Promise!feedVars)
  PROVE  GapInv'
<1>. DEFINE links == [s \in Subs |-> Link(s)]
<1>1. \A s \in Subs : gap[s] => links[s] = "lost"
  BY DEF GapInv
<1>2. \A s \in Subs : stage[s] = "new" => ~gap[s]
  BY LinkValues DEF GapInv
<1>3. gap \in [Subs -> BOOLEAN]
  BY DEF MuxInv, MuxTypeOK
<1>4. \A s \in Subs : gap'[s] => links'[s] = "lost"
  <2>1. ASSUME NEW s \in Subs, Promise!Join(s) PROVE <1>4
    BY <1>1, <1>2, <1>3, <2>1 DEF Promise!Join
  <2>2. ASSUME NEW s \in Subs, Promise!Leave(s) PROVE <1>4
    BY <1>1, <1>3, <2>2 DEF Promise!Leave
  <2>3. ASSUME NEW who \in SUBSET Subs, Promise!Miss(who) PROVE <1>4
    BY <1>1, <1>3, <2>3 DEF Promise!Miss
  <2>4. ASSUME NEW who \in SUBSET Subs, Promise!Open(who) PROVE <1>4
    BY <1>1, <1>3, <2>4 DEF Promise!Open
  <2>5. ASSUME NEW who \in SUBSET Subs, Promise!Break(who) PROVE <1>4
    BY <1>1, <1>3, <2>5 DEF Promise!Break
  <2>6. CASE UNCHANGED Promise!feedVars
    BY <1>1, <2>6 DEF Promise!feedVars
  <2>. QED  BY <2>1, <2>2, <2>3, <2>4, <2>5, <2>6 DEF Promise!Next
<1>. QED  BY <1>4 DEF GapInv

(* The multiplexer keeps the promise of Feed: a stream that broke is        *)
(* announced when it is back, to everybody who lost it.                     *)
THEOREM MuxKeepsPromise == MuxSpec => FeedImplemented
<1>1. MuxInit => MuxInv /\ GapInv /\ Promise!Init
  <2>1. MuxInit => Promise!Init
    BY DEF MuxInit, Promise!Init, Link, On
  <2>2. MuxInit => GapInv
    BY DEF MuxInit, GapInv
  <2>. QED  BY <2>1, <2>2, InitInv
<1>2. MuxInv /\ [MuxNext]_muxVars => MuxInv'
  BY SubscribeInv, UnsubscribeInv, SocketInv, FrameInv DEF MuxNext
<1>3. MuxInv /\ GapInv /\ [MuxNext]_muxVars => [Promise!Next]_(Promise!feedVars) /\ GapInv'
  BY <1>2, PromiseStep, GapStep
<1>. QED  BY <1>1, <1>2, <1>3, PTL DEF MuxSpec, FeedImplemented, Promise!Spec
=============================================================================

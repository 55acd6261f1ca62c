-------------------------------- MODULE Turn --------------------------------
(***************************************************************************)
(* One turn of an agent: driveTurn of src/src/runner.ts with its timers,    *)
(* the frame handler and makeFinish of src/src/runner/turn.ts, against a    *)
(* DSH host that may fall silent and a multiplexed stream that may break.   *)
(*                                                                         *)
(* JavaScript runs one continuation at a time: an action is the code        *)
(* between two awaits, or one timer's or frame's callback.  A question and  *)
(* an approval prompt are both an "ask"; texts and prices are left out, a   *)
(* response counts 1.                                                       *)
(***************************************************************************)
EXTENDS Naturals, Integers, Sequences, FiniteSets

CONSTANTS
  Asks,         \* ids of the questions and approval prompts of this session
  Approvals,    \* those of them that are approval prompts
  MaxOutages,   \* bound: times the stream breaks
  MaxWire,      \* bound: frames under way
  MaxMessages,  \* bound: responses the host gives
  MaxTools      \* bound: tool calls the host makes

ASSUME TurnAssumption ==
  /\ IsFiniteSet(Asks)
  /\ Approvals \subseteq Asks
  /\ {MaxOutages, MaxWire, MaxMessages, MaxTools} \subseteq Nat

VARIABLES
  outward,       \* isOutward: the turn of an API key's caller
  pc,            \* the await driveTurn stands at
  aborted,       \* controller.signal.aborted
  listening,     \* the mux subscription is held
  row,           \* run.state
  ledger,        \* usage records: the responses each bills
  usage,         \* turnState.usage: the responses heard
  waits,         \* awaitingHuman
  tools,         \* toolsInFlight
  seen,          \* seenAskIds
  totalTimer,    \* the total timeout is armed
  silenceTimer,  \* the silence backstop is armed
  graces,        \* pendingDeclines: asks whose grace timer runs
  deciding,      \* declineFrame, per ask
  fetches        \* the pendingAsks calls: the opening one, then one per reconnect

turnVars == <<outward, pc, aborted, listening, row, ledger, usage, waits, tools,
              seen, totalTimer, silenceTimer, graces, deciding, fetches>>

VARIABLES
  prompt,        \* the session.prompt call
  host,          \* whether the host works on a turn
  hostAsks,      \* asks open at the host
  asked,         \* asks the host has made
  called,        \* tool calls the host has made
  running,       \* tool calls that run at the host
  said,          \* responses the host has given
  link,          \* the endpoint's stream
  wire,          \* frames under way to this subscription
  outages,       \* times the stream broke
  known,         \* approvalRpcIds: approvals whose request the stream brought
  missed         \* history: a frame or a recovery answer was lost, or an answer came
                 \* to an ask the turn never counted

hostVars == <<host, hostAsks, asked, called, running, said>>
linkVars == <<link, wire, outages, known, missed>>
vars == <<turnVars, prompt, hostVars, linkVars>>

Frames == [kind : {"message", "tool_call", "tool_result", "turn_end", "turn_failed",
                   "reconnected"}]
          \union [kind : {"ask", "resolved"}, id : Asks]

(* A turn at its first await, or one that is over.                          *)
TurnAt(where) ==
  /\ outward \in BOOLEAN
  /\ pc = where
  /\ aborted = FALSE
  /\ listening = FALSE
  /\ row = "running"
  /\ ledger = <<>>
  /\ usage = 0
  /\ waits = 0
  /\ tools = 0
  /\ seen = {}
  /\ totalTimer = (where # "over")
  /\ silenceTimer = FALSE
  /\ graces = {}
  /\ deciding = [a \in Asks |-> "no"]
  /\ fetches = <<>>
  /\ prompt = "unsent"
  /\ host = "idle"
  /\ hostAsks \in SUBSET Asks    \* left open by an earlier turn
  /\ asked = hostAsks
  /\ called = 0
  /\ running = 0
  /\ said = 0
  /\ link \in {"up", "connecting"}
  /\ wire = <<>>
  /\ outages = 0
  /\ known \in SUBSET (Approvals \intersect hostAsks)
  /\ missed = FALSE

Init == TurnAt("opening")

-----------------------------------------------------------------------------
(* Helpers of the manager's half.                                           *)

(* Math.max(0, n - 1).                                                      *)
Less(n) == IF n = 0 THEN 0 ELSE n - 1

(* armSilence, once the timer is cleared: an inward turn stands down while  *)
(* a human or a tool is waited for.  And a version that forgets the outward *)
(* exception (a mutation).                                                  *)
BackstopForEveryone(w, t) == w = 0 /\ t = 0
Backstop(w, t) == outward \/ (w = 0 /\ t = 0)

(* The final transaction, which may fail: then only the row is written.     *)
Account(s) ==
  \/ /\ row' = s
     /\ ledger' = IF usage = 0 THEN ledger ELSE Append(ledger, usage)
  \/ /\ row' = "failed"
     /\ UNCHANGED ledger

(* A finish without its idempotence guard (a mutation).                     *)
FinishEveryTime(s, armed, timers) ==
  /\ totalTimer' = FALSE /\ silenceTimer' = FALSE /\ graces' = {}
  /\ Account(s)

(* finish(s): the first call clears the timers and accounts, a later one    *)
(* does nothing.  armed and timers are the silence timer and the graces as  *)
(* the step leaves them before it calls finish.                             *)
Finish(s, armed, timers) ==
  IF row = "running"
  THEN /\ totalTimer' = FALSE /\ silenceTimer' = FALSE /\ graces' = {}
       /\ Account(s)
  ELSE /\ silenceTimer' = armed /\ graces' = timers
       /\ UNCHANGED <<totalTimer, row, ledger>>

(* unsub(): frames under way reach nobody.                                  *)
Unsubscribe == listening' = FALSE /\ wire' = <<>>

(* upstream.cancel: the host drops the turn, or the call fails.             *)
Cancel == host' \in {host, "idle"} /\ UNCHANGED <<hostAsks, asked, called, running, said>>

(* controller.abort: the listener registered with the subscription runs the *)
(* first time; before that the flag is all there is.                        *)
Abort(total, armed) ==
  /\ aborted' = TRUE
  /\ IF ~aborted /\ fetches # <<>>
     THEN Unsubscribe /\ Cancel /\ Finish("failed", armed, graces)
     ELSE /\ totalTimer' = total /\ silenceTimer' = armed
          /\ UNCHANGED <<listening, wire, hostVars, row, ledger, graces>>

(* processRecoveredAsk over an answer of pendingAsks: the asks not seen yet *)
(* are counted like live ones.  And a version that only remembers them (a   *)
(* mutation).                                                               *)
RecoverUncounted(asks) ==
  /\ seen' = seen \union asks
  /\ UNCHANGED waits

Recover(asks) ==
  /\ seen' = seen \union asks
  /\ waits' = waits + Cardinality(asks \ seen)

(* scheduleAutoDecline, for an outward turn only.                           *)
Graced(asks) == IF outward THEN graces \union asks ELSE graces

Call == [stage |-> "sent", asks |-> {}]
Used == [stage |-> "used", asks |-> {}]

-----------------------------------------------------------------------------
(* The turn.                                                                *)

(* A subscription whose abort flag is already up only registers the         *)
(* listener, which never runs (a mutation).                                 *)
ListenDeaf ==
  /\ pc = "opening"
  /\ pc' = "asking"
  /\ fetches' = <<Call>>
  /\ listening' = TRUE
  /\ UNCHANGED <<outward, aborted, row, ledger, usage, waits, tools, seen, totalTimer,
                 silenceTimer, graces, deciding, prompt, hostVars, linkVars>>

(* The session is created or continued and its model settled: subscribe,    *)
(* attach to the abort signal, and ask what is still pending.               *)
Listen ==
  /\ pc = "opening"
  /\ pc' = "asking"
  /\ fetches' = <<Call>>
  /\ IF aborted
     THEN Unsubscribe /\ Cancel /\ Finish("failed", silenceTimer, graces)
     ELSE /\ listening' = TRUE
          /\ UNCHANGED <<wire, hostVars, row, ledger, totalTimer, silenceTimer, graces>>
  /\ UNCHANGED <<outward, aborted, usage, waits, tools, seen, deciding, prompt,
                 link, outages, known, missed>>

(* An opening call fails or times out, the pin of the model included.       *)
OpeningFails ==
  /\ pc = "opening"
  /\ pc' = "over"
  /\ Finish("failed", silenceTimer, graces)
  /\ UNCHANGED <<outward, aborted, listening, usage, waits, tools, seen, deciding,
                 fetches, prompt, hostVars, linkVars>>

(* The opening pendingAsks returned: the asks are counted, the backstop is  *)
(* armed and the prompt sent, whatever became of the turn meanwhile.        *)
SendPrompt ==
  /\ pc = "asking"
  /\ fetches[1].stage = "answered"
  /\ LET asks == fetches[1].asks IN
       /\ Recover(asks)
       /\ graces' = Graced(asks \ seen)
       /\ silenceTimer' = Backstop(waits', tools)
  /\ fetches' = [fetches EXCEPT ![1] = Used]
  /\ prompt' = "sent"
  /\ pc' = "prompting"
  /\ UNCHANGED <<outward, aborted, listening, row, ledger, usage, tools, totalTimer,
                 deciding, hostVars, linkVars>>

PromptAccepted ==
  /\ pc = "prompting"
  /\ prompt = "taken"
  /\ pc' = "waiting"
  /\ UNCHANGED <<outward, aborted, listening, row, ledger, usage, waits, tools, seen,
                 totalTimer, silenceTimer, graces, deciding, fetches, prompt,
                 hostVars, linkVars>>

(* Not accepted, or the call failed: after the host took it, too.           *)
PromptFails ==
  /\ pc = "prompting"
  /\ prompt' = "failed"
  /\ pc' = "over"
  /\ Unsubscribe
  /\ Finish("failed", silenceTimer, graces)
  /\ UNCHANGED <<outward, aborted, usage, waits, tools, seen, deciding, fetches,
                 hostVars, link, outages, known, missed>>

(* turnDone is resolved: every finish but those above resolves it.          *)
Return ==
  /\ pc = "waiting"
  /\ row # "running"
  /\ pc' = "over"
  /\ Unsubscribe
  /\ UNCHANGED <<outward, aborted, row, ledger, usage, waits, tools, seen, totalTimer,
                 silenceTimer, graces, deciding, fetches, prompt, hostVars,
                 link, outages, known, missed>>

-----------------------------------------------------------------------------
(* Frames.                                                                  *)

Repeated(f) == f.kind = "ask" /\ f.id \in seen

(* What the stream remembers to name approvals by.  The frame that resolves *)
(* an approval carries another id than the one that asked for it: it is     *)
(* named only if the stream brought the request, too, and not if the        *)
(* recovery channel did.                                                    *)
KnownAfter(f) ==
  CASE f.kind = "ask" -> known \union ({f.id} \intersect Approvals)
    [] f.kind = "resolved" -> known \ {f.id}
    [] OTHER -> known

Named(f) == f.id \in Approvals => f.id \in known

WaitsAfter(f) ==
  CASE f.kind = "ask" -> waits + 1
    [] f.kind = "resolved" -> Less(waits)
    [] f.kind \in {"turn_end", "turn_failed"} -> 0
    [] OTHER -> waits

ToolsAfter(f) ==
  CASE f.kind = "tool_call" -> tools + 1
    [] f.kind = "tool_result" -> Less(tools)
    [] f.kind \in {"turn_end", "turn_failed"} -> 0
    [] OTHER -> tools

(* A version that leaves the timer of an answered ask (a mutation).         *)
GracesKept(f) ==
  CASE f.kind = "ask" -> Graced({f.id})
    [] f.kind \in {"turn_end", "turn_failed"} -> {}
    [] OTHER -> graces

GracesAfter(f) ==
  CASE f.kind = "ask" -> Graced({f.id})
    [] f.kind = "resolved" -> IF Named(f) THEN graces \ {f.id} ELSE graces
    [] f.kind \in {"turn_end", "turn_failed"} -> {}
    [] OTHER -> graces

(* handleTurnFrame and the loop around it; an ask seen before is dropped    *)
(* before any of it.                                                        *)
HandleFrame(f) ==
  LET armed == Backstop(WaitsAfter(f), ToolsAfter(f)) IN
  /\ waits' = WaitsAfter(f)
  /\ tools' = ToolsAfter(f)
  /\ seen' = IF f.kind = "ask" THEN seen \union {f.id} ELSE seen
  /\ usage' = IF f.kind = "message" THEN usage + 1 ELSE usage
  /\ fetches' = IF f.kind = "reconnected" THEN Append(fetches, Call) ELSE fetches
  /\ IF f.kind \in {"turn_end", "turn_failed"}
     THEN /\ Unsubscribe
          /\ Finish(IF f.kind = "turn_end" THEN "done" ELSE "failed", armed, GracesAfter(f))
     ELSE /\ wire' = Tail(wire)
          /\ silenceTimer' = armed
          /\ graces' = GracesAfter(f)
          /\ UNCHANGED <<listening, row, ledger, totalTimer>>
  /\ missed' = (missed \/ (f.kind = "resolved" /\ f.id \notin seen))

Deliver ==
  /\ listening
  /\ wire # <<>>
  /\ IF Repeated(Head(wire))
     THEN /\ wire' = Tail(wire)
          /\ UNCHANGED <<listening, row, ledger, usage, waits, tools, seen,
                         totalTimer, silenceTimer, graces, fetches, missed>>
     ELSE HandleFrame(Head(wire))
  /\ known' = KnownAfter(Head(wire))
  /\ UNCHANGED <<outward, pc, aborted, deciding, prompt, hostVars, link, outages>>

(* The pendingAsks of a reconnect returned: without a wait, the outcome is  *)
(* unknown and the turn fails.                                              *)
ReconnectSettled(k) ==
  LET asks == fetches[k].asks
      count == waits + Cardinality(asks \ seen)
      armed == IF asks \ seen = {} THEN silenceTimer ELSE Backstop(count, tools) IN
  /\ k > 1
  /\ fetches[k].stage = "answered"
  /\ fetches' = [fetches EXCEPT ![k] = Used]
  /\ Recover(asks)
  /\ IF count > 0
     THEN /\ silenceTimer' = armed
          /\ graces' = Graced(asks \ seen)
          /\ UNCHANGED <<listening, wire, row, ledger, totalTimer>>
     ELSE Unsubscribe /\ Finish("failed", armed, graces)
  /\ UNCHANGED <<outward, pc, aborted, usage, tools, deciding, prompt, hostVars,
                 link, outages, known, missed>>

-----------------------------------------------------------------------------
(* Timers, the abort signal and the process.                                *)

(* The caller's signal is aborted: somebody pressed stop.                   *)
Stop ==
  /\ pc # "crashed"
  /\ ~aborted
  /\ Abort(totalTimer, silenceTimer)
  /\ UNCHANGED <<outward, pc, usage, waits, tools, seen, deciding, fetches, prompt,
                 link, outages, known, missed>>

TotalTimeout ==
  /\ totalTimer
  /\ Abort(FALSE, silenceTimer)
  /\ UNCHANGED <<outward, pc, usage, waits, tools, seen, deciding, fetches, prompt,
                 link, outages, known, missed>>

SilenceTimeout ==
  /\ silenceTimer
  /\ Abort(totalTimer, FALSE)
  /\ UNCHANGED <<outward, pc, usage, waits, tools, seen, deciding, fetches, prompt,
                 link, outages, known, missed>>

(* A grace window expires: declineFrame up to its await.                    *)
GraceExpires(a) ==
  /\ a \in graces
  /\ graces' = graces \ {a}
  /\ deciding' = [deciding EXCEPT ![a] = "sent"]
  /\ UNCHANGED <<outward, pc, aborted, listening, row, ledger, usage, waits, tools, seen,
                 totalTimer, silenceTimer, fetches, prompt, hostVars, linkVars>>

(* The host answered the decline, whether it still held the ask or not: the *)
(* count goes down, on top of what the resolved frame does to it.           *)
DeclineReturns(a) ==
  /\ deciding[a] = "answered"
  /\ deciding' = [deciding EXCEPT ![a] = "settled"]
  /\ waits' = Less(waits)
  /\ silenceTimer' = Backstop(Less(waits), tools)
  /\ UNCHANGED <<outward, pc, aborted, listening, row, ledger, usage, tools, seen,
                 totalTimer, graces, fetches, prompt, hostVars, linkVars>>

DeclineFails(a) ==
  /\ deciding[a] \in {"sent", "answered"}
  /\ deciding' = [deciding EXCEPT ![a] = "settled"]
  /\ UNCHANGED <<outward, pc, aborted, listening, row, ledger, usage, waits, tools, seen,
                 totalTimer, silenceTimer, graces, fetches, prompt, hostVars, linkVars>>

(* The manager dies; what it held in memory is gone.                        *)
Crash ==
  /\ pc \notin {"over", "crashed"}
  /\ pc' = "crashed"
  /\ totalTimer' = FALSE /\ silenceTimer' = FALSE /\ graces' = {}
  /\ deciding' = [a \in Asks |-> "no"]
  /\ fetches' = <<>>
  /\ waits' = 0 /\ tools' = 0 /\ seen' = {}
  /\ Unsubscribe
  /\ UNCHANGED <<outward, aborted, row, ledger, usage, prompt, hostVars,
                 link, outages, known, missed>>

(* convergeRuns of the next boot: a row still running belongs to a dead     *)
(* process.                                                                 *)
ConvergeRuns ==
  /\ pc = "crashed"
  /\ pc' = "over"
  /\ row' = IF row = "running" THEN "failed" ELSE row
  /\ UNCHANGED <<outward, aborted, listening, ledger, usage, waits, tools, seen, totalTimer,
                 silenceTimer, graces, deciding, fetches, prompt, hostVars, linkVars>>

-----------------------------------------------------------------------------
(* The host and the stream: from how the code uses them.                    *)

Emit(f) ==
  IF link = "up" /\ listening
  THEN Len(wire) < MaxWire /\ wire' = Append(wire, f) /\ UNCHANGED missed
  ELSE missed' = TRUE /\ UNCHANGED wire

HostTakesPrompt ==
  /\ prompt = "sent"
  /\ prompt' = "taken"
  /\ host' = "working"
  /\ UNCHANGED <<turnVars, hostAsks, asked, called, running, said, linkVars>>

HostSays ==
  /\ host = "working"
  /\ said < MaxMessages
  /\ said' = said + 1
  /\ Emit([kind |-> "message"])
  /\ UNCHANGED <<turnVars, prompt, host, hostAsks, asked, called, running, link, outages, known>>

HostCalls ==
  /\ host = "working"
  /\ called < MaxTools
  /\ called' = called + 1
  /\ running' = running + 1
  /\ Emit([kind |-> "tool_call"])
  /\ UNCHANGED <<turnVars, prompt, host, hostAsks, asked, said, link, outages, known>>

HostReturns ==
  /\ host = "working"
  /\ running > 0
  /\ running' = running - 1
  /\ Emit([kind |-> "tool_result"])
  /\ UNCHANGED <<turnVars, prompt, host, hostAsks, asked, called, said, link, outages, known>>

HostAsksFor(a) ==
  /\ host = "working"
  /\ a \notin asked
  /\ asked' = asked \union {a}
  /\ hostAsks' = hostAsks \union {a}
  /\ Emit([kind |-> "ask", id |-> a])
  /\ UNCHANGED <<turnVars, prompt, host, called, running, said, link, outages, known>>

HostEnds(kind) ==
  /\ host = "working"
  /\ host' = "idle"
  /\ Emit([kind |-> kind])
  /\ UNCHANGED <<turnVars, prompt, hostAsks, asked, called, running, said, link, outages, known>>

(* A person answers, in the chat or elsewhere.                              *)
Answered(a) ==
  /\ a \in hostAsks
  /\ hostAsks' = hostAsks \ {a}
  /\ Emit([kind |-> "resolved", id |-> a])
  /\ UNCHANGED <<turnVars, prompt, host, asked, called, running, said, link, outages, known>>

(* The decline reaches the host: an ask no longer open is refused with      *)
(* accepted: false, which the caller does not look at.                      *)
HostDeclines(a) ==
  /\ deciding[a] = "sent"
  /\ deciding' = [deciding EXCEPT ![a] = "answered"]
  /\ IF a \in hostAsks
     THEN hostAsks' = hostAsks \ {a} /\ Emit([kind |-> "resolved", id |-> a])
     ELSE UNCHANGED <<hostAsks, wire, missed>>
  /\ UNCHANGED <<outward, pc, aborted, listening, row, ledger, usage, waits, tools, seen,
                 totalTimer, silenceTimer, graces, fetches, prompt, host, asked, called,
                 running, said, link, outages, known>>

(* pendingAsks: what is open when the host is asked, or, on any failure,    *)
(* nothing.                                                                 *)
HostListsAsks(k) ==
  /\ fetches[k].stage = "sent"
  /\ \/ /\ fetches' = [fetches EXCEPT ![k] = [stage |-> "answered", asks |-> hostAsks]]
        /\ UNCHANGED missed
     \/ /\ fetches' = [fetches EXCEPT ![k] = [stage |-> "answered", asks |-> {}]]
        /\ missed' = TRUE
  /\ UNCHANGED <<outward, pc, aborted, listening, row, ledger, usage, waits, tools, seen,
                 totalTimer, silenceTimer, graces, deciding, prompt, hostVars,
                 link, wire, outages, known>>

(* The endpoint's WebSocket: a first handshake announces nothing, a stream  *)
(* that comes back says so to every subscription (module Mux).              *)
LinkOpens ==
  /\ link # "up"
  /\ link' = "up"
  /\ IF link = "lost" /\ listening
     THEN wire' = Append(wire, [kind |-> "reconnected"])
     ELSE UNCHANGED wire
  /\ UNCHANGED <<turnVars, prompt, hostVars, outages, known, missed>>

LinkBreaks ==
  /\ link = "up"
  /\ outages < MaxOutages
  /\ outages' = outages + 1
  /\ link' = "lost"
  /\ wire' = <<>>
  /\ missed' = TRUE
  /\ UNCHANGED <<turnVars, prompt, hostVars, known>>

-----------------------------------------------------------------------------
Calls == DOMAIN fetches

(* The world around the turn, followed for as long as driveTurn has not     *)
(* returned.                                                                *)
Surroundings ==
  /\ pc # "over"
  /\ \/ HostTakesPrompt \/ HostSays \/ HostCalls \/ HostReturns
     \/ \E a \in Asks : HostAsksFor(a) \/ Answered(a) \/ HostDeclines(a)
     \/ \E kind \in {"turn_end", "turn_failed"} : HostEnds(kind)
     \/ \E k \in Calls : HostListsAsks(k)
     \/ LinkOpens \/ LinkBreaks

Next ==
  \/ Listen \/ OpeningFails \/ SendPrompt \/ PromptAccepted \/ PromptFails \/ Return
  \/ Deliver \/ \E k \in Calls : ReconnectSettled(k)
  \/ Stop \/ TotalTimeout \/ SilenceTimeout \/ Crash \/ ConvergeRuns
  \/ \E a \in Asks : GraceExpires(a) \/ DeclineReturns(a) \/ DeclineFails(a)
  \/ Surroundings

Spec == Init /\ [][Next]_vars

(* Nothing is asked of the host or the stream: only that timers fire, that  *)
(* calls with a timeout settle, and that a dead manager is started again.   *)
Fairness ==
  /\ WF_vars(Listen \/ OpeningFails)
  /\ WF_vars(\E k \in Calls : k = 1 /\ HostListsAsks(k))
  /\ WF_vars(SendPrompt)
  /\ WF_vars(PromptAccepted \/ PromptFails)
  /\ WF_vars(TotalTimeout)
  /\ WF_vars(Return)
  /\ WF_vars(ConvergeRuns)

-----------------------------------------------------------------------------
FlagsOK == {outward, aborted, listening, totalTimer, silenceTimer, missed} \subseteq BOOLEAN

BooksOK ==
  /\ pc \in {"opening", "asking", "prompting", "waiting", "over", "crashed"}
  /\ row \in {"running", "done", "failed"}
  /\ ledger \in Seq(Nat)
  /\ usage \in Nat

AsksOK ==
  /\ {waits, tools} \subseteq Nat
  /\ seen \subseteq Asks
  /\ graces \subseteq Asks
  /\ deciding \in [Asks -> {"no", "sent", "answered", "settled"}]

CallsOK ==
  /\ fetches \in Seq([stage : {"sent", "answered", "used"}, asks : SUBSET Asks])
  /\ prompt \in {"unsent", "sent", "taken", "failed"}

HostOK ==
  /\ host \in {"idle", "working"}
  /\ hostAsks \subseteq asked
  /\ asked \subseteq Asks
  /\ {called, running, said} \subseteq Nat
  /\ link \in {"up", "connecting", "lost"}
  /\ outages \in 0..MaxOutages
  /\ known \subseteq Approvals

WireOK == wire \in Seq(Frames)

(* The type invariant: the counts never fall below zero (runner.ts clamps   *)
(* them), timers and declines are of asks of the session.                   *)
TypeOK == FlagsOK /\ BooksOK /\ AsksOK /\ CallsOK /\ HostOK /\ WireOK

(* The books: what the abstract ledger promises, whatever races to finish   *)
(* the turn (turn_end, a reconnect, the timers, a stop, a failing call, a   *)
(* crash and the next boot).                                                *)
Ledger == INSTANCE TurnLedger WITH heard <- usage
LedgerImplemented == Ledger!Spec

(* The two clocks cover a turn that waits: the total timeout is armed, and  *)
(* the silence backstop exactly when nothing explains the silence, or when  *)
(* nobody could answer (an outward turn).                                   *)
BackstopCovers ==
  row = "running" /\ pc \in {"prompting", "waiting"} =>
    /\ totalTimer
    /\ silenceTimer <=> (outward \/ (waits = 0 /\ tools = 0))

(* The backstop never cuts off a person who is answering (runner.ts, the    *)
(* comment on awaitingHuman): while no frame and no recovery answer was     *)
(* lost, and no answer came to an ask it had not counted, an inward turn    *)
(* counts every ask it has seen and the host still holds.                   *)
WaitsNeverUndercounted ==
  row = "running" /\ listening /\ ~outward /\ ~missed =>
    Cardinality(seen \intersect hostAsks) <= waits

(* Nobody is on screen in an outward turn: every ask it has seen and the    *)
(* host still holds has a grace timer running or has been declined.         *)
OutwardAsksAreDeclined ==
  row = "running" /\ listening /\ outward =>
    \A a \in seen \intersect hostAsks : a \in graces \/ deciding[a] # "no"

(* An answered ask is not declined afterwards: as long as nothing was lost, *)
(* a grace timer runs only for an ask the host still holds or whose answer  *)
(* is under way.                                                            *)
GraceFitsHost(a) ==
  row = "running" /\ listening /\ ~missed /\ a \in graces =>
    a \in hostAsks \/ \E i \in DOMAIN wire : wire[i] = [kind |-> "resolved", id |-> a]

(* "so a human answering first cancels one" (runner.ts, pendingDeclines),   *)
(* said of the questions,                                                   *)
AnsweredQuestionIsLeftAlone == \A a \in Asks \ Approvals : GraceFitsHost(a)

(* The asks of an outward turn are declined in their time: none waits for   *)
(* ever, and no question that was answered is declined afterwards.          *)
DeclinesAreTimely == OutwardAsksAreDeclined /\ AnsweredQuestionIsLeftAlone

(* and of every ask.                                                        *)
AnsweredAskIsLeftAlone == \A a \in Asks : GraceFitsHost(a)

(* Every turn comes to an end and leaves a final row, whatever the host,    *)
(* the stream and the people do, a crash of the manager included.           *)
TurnEnds == pc = "opening" ~> pc = "over" /\ row # "running"

(* "the silence backstop pauses while a human answer is pending" (ADR 0001, *)
(* decision 5), said of every inward turn.                                  *)
BackstopPausesForAnswers ==
  row = "running" /\ listening /\ ~outward /\ seen \intersect hostAsks # {} =>
    ~silenceTimer

(* "the turn was stopped": a turn whose row is final sends no prompt.       *)
ClosedTurnSendsNoPrompt == [][row # "running" => prompt' # "sent" \/ prompt = "sent"]_vars

(* makeFinish's clearTimers is the end of the timers: the backstop is not   *)
(* armed again for a turn that is over.                                     *)
TimersDieWithTheTurn == row # "running" => ~silenceTimer
=============================================================================

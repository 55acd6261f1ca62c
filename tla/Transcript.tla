----------------------------- MODULE Transcript -----------------------------
(***************************************************************************)
(* What a conversation reads like: the events a host logs, their            *)
(* translation into frames (upstream/translate.ts), the trimming of a        *)
(* history (chat/replay.ts) and the blocks the page folds frames into        *)
(* (public/assets/chat-reducer.js).  A page that stays is drawn frame by     *)
(* frame, a page that loads from the trimmed history and the frames of the   *)
(* running turn.  How frames travel is in ChatPage: here they arrive.        *)
(***************************************************************************)
EXTENDS Naturals, FiniteSets, Sequences, SequencesExt

CONSTANTS
  MaxTurns,  \* messages sent in a behaviour
  Plans      \* what a host may log in a behaviour: how many events, of which types

VARIABLES
  plan,    \* the plan of this behaviour
  log,     \* the session's log at the host, an event numbered by its place
  turn,    \* the host's turn: none, started or dead without an end
  sent,    \* the messages sent
  live,    \* liveFrames of the chat
  blocks,  \* what the page shows
  stayed   \* history: the page was not loaded since the turn began

transcriptVars == <<plan, log, turn, sent, live, blocks, stayed>>

ASSUME TranscriptAssumption == MaxTurns \in Nat /\ \A p \in Plans : p.events \in Nat

(* An event: its type, the words it carries (each named by the place of the  *)
(* delta that brought it; a user's message is named by its number) and what  *)
(* else its type tells apart.                                                *)
Event(type, words, note) == [type |-> type, words |-> words, note |-> note]
Frame(kind, seq, words, note) == [kind |-> kind, seq |-> seq, words |-> words, note |-> note]

NoFrame == Frame("none", 0, <<>>, "")
Unnumbered == 0    \* the manager's own frames carry no seq

-----------------------------------------------------------------------------
(* Translation: events without a wire form give no frame.  A sequence of     *)
(* frames keeps the places of those that are left out ("<<>> \\o" only has    *)
(* TLC work such a sequence out once).                                       *)
ChunkTypes == {"text-delta", "reasoning-delta", "tool-call-delta", "usage", "finish"}

KindOf(type) ==
  CASE type = "user/message" -> "user"
    [] type = "assistant/chunk" -> "chunk"
    [] type = "assistant/message" -> "message"
    [] type = "tool/call" -> "tool_call"
    [] type = "tool/result" -> "tool_result"
    [] type = "turn/start" -> "turn_start"
    [] type = "turn/end" -> "turn_end"
    [] OTHER -> "none"

(* ... a message without its number (a mutation)                            *)
UnnumberedPayload(e, seq) ==
  IF KindOf(e.type) = "none" \/ (e.type = "assistant/chunk" /\ e.note \notin ChunkTypes) THEN NoFrame
  ELSE Frame(KindOf(e.type), IF e.type = "assistant/message" THEN Unnumbered ELSE seq, e.words, e.note)

EventPayload(e, seq) ==
  IF KindOf(e.type) = "none" \/ (e.type = "assistant/chunk" /\ e.note \notin ChunkTypes) THEN NoFrame
  ELSE Frame(KindOf(e.type), seq, e.words, e.note)

MapEvents(events) ==
  <<>> \o [i \in DOMAIN events |-> EventPayload(events[i], i)]

(* Trimming.  Two frames are of one segment when no turn ends between them.  *)
(* ... the history as one segment (a mutation)                              *)
WholeHistory(h, i) == DOMAIN h

SegmentOf(h, i) == {j \in DOMAIN h : \A k \in i..(j - 1) \union j..(i - 1) : h[k].kind # "turn_end"}

IsChunk(f, type) == f.kind = "chunk" /\ f.note = type
HasMessage(h, i) == \E j \in SegmentOf(h, i) : h[j].kind = "message"
SameType(h, i) == {j \in SegmentOf(h, i) : IsChunk(h[j], h[i].note)}

(* The chunks of a type become one, in the place of the first; the text that *)
(* a message repeats goes.                                                   *)
Kept(h, i) == \/ h[i].kind # "chunk"
              \/ /\ h[i].note = "text-delta" => ~HasMessage(h, i)
                 /\ \A j \in SameType(h, i) : i <= j
Merged(h, i) ==
  IF h[i].kind # "chunk" THEN h[i]
  ELSE [h[i] EXCEPT !.words = FlattenSeq([n \in DOMAIN h |-> IF n \in SameType(h, i) THEN h[n].words ELSE <<>>])]
CompactHistory(h) == <<>> \o [i \in DOMAIN h |-> IF Kept(h, i) THEN Merged(h, i) ELSE NoFrame]

-----------------------------------------------------------------------------
(* The reducer.                                                             *)
NewAgentBlock ==
  [role |-> "agent", text |-> <<>>, streamed |-> <<>>, tools |-> <<>>, usage |-> <<>>, reason |-> "open"]
UserBlock(words, injected) == [role |-> "user", text |-> words, injected |-> injected]

IsOpen(list) == list # <<>> /\ Last(list).role = "agent" /\ Last(list).reason = "open"
Opened(list) == IF IsOpen(list) THEN list ELSE Append(list, NewAgentBlock)
WithLast(list, block) == Append(Front(list), block)

(* A second message before the agent answers is context of the harness.     *)
IsInjected(f, list) == f.note = "wrapped" \/ (list # <<>> /\ Last(list).role = "user")

(* The newest call without a result takes it.                               *)
Resolved(tools, seq) ==
  LET open == {i \in DOMAIN tools : ~tools[i].done} IN
  IF open = {} THEN tools
  ELSE [tools EXCEPT ![CHOOSE i \in open : \A j \in open : j <= i] = [@ EXCEPT !.done = TRUE]]

(* What a frame of an answer does to the block it is drawn in.               *)
AnswerKinds == {"chunk", "message", "tool_call", "tool_result", "turn_end"}
AfterFrame(block, f) ==
  CASE f.kind = "chunk" -> IF f.note = "text-delta" THEN [block EXCEPT !.streamed = @ \o f.words] ELSE block
    [] f.kind = "message" ->
         [block EXCEPT !.text = @ \o f.words, !.streamed = <<>>, !.usage = Append(@, f.note)]
    [] f.kind = "tool_call" -> [block EXCEPT !.tools = Append(@, [call |-> f.words, done |-> FALSE])]
    [] f.kind = "tool_result" -> [block EXCEPT !.tools = Resolved(@, f.seq)]
    [] f.kind = "turn_end" -> [block EXCEPT !.reason = f.note]

Reduce(list, f) ==
  CASE f.kind = "user" -> Append(list, UserBlock(f.words, IsInjected(f, list)))
    [] f.kind \in AnswerKinds -> WithLast(Opened(list), AfterFrame(Last(Opened(list)), f))
    [] OTHER -> list

Build(list, frames) ==
  LET upTo[n \in 0..Len(frames)] == IF n = 0 THEN list ELSE Reduce(upTo[n - 1], frames[n])
  IN  upTo[Len(frames)]

(* What a bubble says: the streamed words show until a message replaces them. *)
Body(block) == IF block.text # <<>> THEN block.text ELSE block.streamed

-----------------------------------------------------------------------------
(* A load: the history, and the frames of the running turn it lacks.         *)
IsLastUser(list, i) ==
  list[i].role = "user" /\ \A j \in DOMAIN list : list[j].role = "user" => j <= i
(* ... a frame that bears no higher number than all of the history.          *)
AlreadyLoaded(f, history, list) ==
  IF f.seq # Unnumbered THEN \E i \in DOMAIN history : f.seq <= history[i].seq
  ELSE f.kind = "user" /\ \E i \in DOMAIN list : IsLastUser(list, i) /\ list[i].text = f.words

Lacking(frames, history, list) ==
  [i \in DOMAIN frames |-> IF AlreadyLoaded(frames[i], history, list) THEN NoFrame ELSE frames[i]]

Loaded(events, frames) ==
  LET history == CompactHistory(MapEvents(events))
      base == Build(<<>>, history)
  IN  Build(base, Lacking(frames, history, base))

Load == blocks' = Loaded(log, live) /\ stayed' = (live = <<>>) /\ UNCHANGED <<plan, log, turn, sent, live>>

(* The host logs an event, and the frame of it is shown; the copy it makes of *)
(* a message, and what it adds to it, are left to the history.               *)
Logs(e) ==
  LET f == EventPayload(e, Len(log) + 1) IN
  /\ Len(log) < plan.events /\ e.type \in plan.types
  /\ log' = Append(log, e)
  /\ IF f = NoFrame \/ f.kind = "user" THEN UNCHANGED <<live, blocks>>
     ELSE live' = Append(live, f) /\ blocks' = Reduce(blocks, f)
  /\ UNCHANGED <<plan, stayed>>

Word == <<Len(log) + 1>>
(* The events since the last message of the turn, or its start.              *)
StepBegan == {i \in DOMAIN log : log[i].type \in {"assistant/message", "turn/start"}}
Streaming ==
  FlattenSeq([i \in DOMAIN log |->
    IF (\A b \in StepBegan : b < i) /\ log[i].type = "assistant/chunk" /\ log[i].note = "text-delta"
    THEN log[i].words ELSE <<>>])

(* POST messages, when no turn runs: the echo is the manager's own.          *)
Send ==
  /\ turn = "none" /\ sent < MaxTurns
  /\ sent' = sent + 1 /\ turn' = "sent"
  /\ LET echo == Frame("user", Unnumbered, <<plan.events + sent'>>, "plain") IN
     live' = Append(live, echo) /\ blocks' = Reduce(blocks, echo)
  /\ stayed' = TRUE
  /\ UNCHANGED <<plan, log>>

HostTakesMessage ==
  turn = "sent" /\ turn' = "taken" /\ Logs(Event("user/message", <<plan.events + sent>>, "plain")) /\ UNCHANGED sent
HostAddsContext(note) ==
  turn = "taken" /\ Logs(Event("user/message", Word, note)) /\ UNCHANGED <<turn, sent>>
HostStarts ==
  turn = "taken" /\ turn' = "started" /\ Logs(Event("turn/start", <<>>, "")) /\ UNCHANGED sent

Working == turn = "started" /\ UNCHANGED <<turn, sent>>
HostStreams(type) == Working /\ Logs(Event("assistant/chunk", Word, type))
(* A message repeats what was streamed of it; a step may only call a tool.   *)
HostSays == Working /\ Logs(Event("assistant/message", Streaming, "counted"))
HostCalls == Working /\ Logs(Event("tool/call", Word, ""))
HostGetsResult == Working /\ Logs(Event("tool/result", Word, ""))
HostKeepsBooks == Working /\ Logs(Event("session/other", <<>>, ""))
(* A turn that completes has said all it streamed; one that is cut has not.  *)
HostEnds(reason) ==
  /\ turn = "started" /\ turn' = "over"
  /\ reason = "completed" => Streaming = <<>>
  /\ Logs(Event("turn/end", <<>>, reason)) /\ UNCHANGED sent
HostDies == turn \in {"sent", "taken", "started"} /\ turn' = "over" /\ UNCHANGED <<plan, log, sent, live, blocks, stayed>>

(* turn_done: the page, which draws nothing of it, loads.                    *)
TurnDone ==
  /\ turn = "over" /\ turn' = "none"
  /\ live' = <<>> /\ blocks' = Loaded(log, <<>>) /\ stayed' = TRUE
  /\ UNCHANGED <<plan, log, sent>>

TranscriptInit ==
  plan \in Plans /\ log = <<>> /\ turn = "none" /\ sent = 0 /\ live = <<>> /\ blocks = <<>> /\ stayed = TRUE

TranscriptNext ==
  \/ Send \/ HostTakesMessage \/ HostStarts
  \/ \E note \in {"plain", "wrapped"} : HostAddsContext(note)
  \/ \E type \in {"text-delta", "reasoning-delta", "unknown"} : HostStreams(type)
  \/ HostSays \/ HostCalls \/ HostGetsResult \/ HostKeepsBooks \/ HostDies
  \/ \E reason \in {"completed", "aborted"} : HostEnds(reason)
  \/ TurnDone \/ Load

TranscriptSpec == TranscriptInit /\ [][TranscriptNext]_transcriptVars

-----------------------------------------------------------------------------
(* What an answer says, which tools it calls and what it cost, and what all   *)
(* answers of a list do.                                                     *)
TextOf(b) == IF b.role = "agent" THEN b.text ELSE <<>>
CallsOf(b) == IF b.role = "agent" THEN FlattenSeq([n \in DOMAIN b.tools |-> b.tools[n].call]) ELSE <<>>
CostOf(b) == IF b.role = "agent" THEN b.usage ELSE <<>>
Texts(list) == FlattenSeq([i \in DOMAIN list |-> TextOf(list[i])])
Calls(list) == FlattenSeq([i \in DOMAIN list |-> CallsOf(list[i])])
Costs(list) == FlattenSeq([i \in DOMAIN list |-> CostOf(list[i])])

(* What the log says of them.                                               *)
Logged(type) == FlattenSeq([i \in DOMAIN log |-> IF log[i].type = type THEN log[i].words ELSE <<>>])
Counted == FlattenSeq([i \in DOMAIN log |-> IF log[i].type = "assistant/message" THEN <<log[i].note>> ELSE <<>>])

(* Turns that ended, by the place of their end, with what they streamed      *)
(* since the end before.                                                    *)
Ends == {i \in DOMAIN log : log[i].type = "turn/end"}
TurnOf(i) == {j \in 1..i : \A k \in Ends : k < j \/ k >= i}
Deltas(i) == FlattenSeq([j \in DOMAIN log |->
               IF j \in TurnOf(i) /\ log[j].type = "assistant/chunk" /\ log[j].note = "text-delta"
               THEN log[j].words ELSE <<>>])
Wordless(i) == \A j \in TurnOf(i) : log[j].type # "assistant/message"
Interrupted(i) == Cardinality({j \in TurnOf(i) : log[j].type = "turn/start"}) > 1

(* However the page came to what it shows - by frames, by a load in the       *)
(* middle of a turn or after it - every message, every tool call and every   *)
(* usage of the log is in it once and in order, and a load gives an answer   *)
(* that was cut before its first message the very words that were streamed:  *)
(* what replay.ts promises of trimming ("does not change what the reader can *)
(* see", "nothing but chunks ... merged instead of discarded").              *)
TranscriptIsWhole ==
  /\ Texts(blocks) = Logged("assistant/message")
  /\ Calls(blocks) = Logged("tool/call")
  /\ Costs(blocks) = Counted
  /\ \A i \in Ends : Wordless(i) /\ ~Interrupted(i) /\ Deltas(i) # <<>> =>
       \E b \in ToSet(Loaded(log, live)) : b.role = "agent" /\ b.streamed = Deltas(i) /\ b.reason = log[i].note

(* The answer that ends a list.                                             *)
IsLastAnswer(list, b) ==
  \E i \in DOMAIN list : /\ list[i] = b /\ b.role = "agent"
                         /\ \A j \in DOMAIN list : list[j].role = "agent" => j <= i

(* A turn that is over reads back, after a load, the way it looked on the     *)
(* screen of somebody who watched it (replay.ts:60-61).                      *)
ReadsBackAsOnScreen ==
  turn = "over" /\ stayed /\ log # <<>> /\ Last(log).type = "turn/end" =>
    \E b \in ToSet(blocks), c \in ToSet(Loaded(log, <<>>)) :
      IsLastAnswer(blocks, b) /\ IsLastAnswer(Loaded(log, <<>>), c) /\ Body(b) = Body(c)
=============================================================================

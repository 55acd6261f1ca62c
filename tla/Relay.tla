-------------------------------- MODULE Relay --------------------------------
(***************************************************************************)
(* What the manager keeps and sends of one conversation while it runs: the  *)
(* live frames and the pending cards a page that comes late is given, the   *)
(* history cache, and the event stream to a page (src/src/routes/chat.ts,    *)
(* chat/relay.ts, chat/history-cache.ts).  Turns and their queue are those     *)
(* of module ChatTurns, simplified; the session's log and its open asks are  *)
(* the host's.                                                              *)
(***************************************************************************)
EXTENDS Integers, Sequences, SequencesExt, FiniteSets

CONSTANTS
  MaxMsgs,   \* messages ever sent to the chat
  Asking,    \* those in whose turn the agent asks something
  MaxWire    \* bound on frames under way to the page

ASSUME RelayAssumption ==
  {MaxMsgs, MaxWire} \subseteq Nat /\ Asking \subseteq 1..MaxMsgs

VARIABLES
  log,      \* the host's history: its events, numbered by their place
  asks,     \* the asks open at the host; an ask is named by its message
  asked,    \* the asks ever opened
  turn,     \* the message whose turn runs, or 0
  waiting,    \* the messages that wait
  sent,     \* how many messages were accepted
  live,     \* liveFrames of the chat
  cards,    \* pendingCards of the chat; a card outlives its ask at the host
  cache,    \* historyCache: how much of the log it holds, or Empty
  wire,     \* the event stream to the page: up, and the frames under way
  closed,   \* history: how much of the log the turns that ended have written
  missed    \* history: a frame of the chat had no stream to the page since
            \* the page's last load took its snapshot

relayVars ==
  <<log, asks, asked, turn, waiting, sent, live, cards, cache, wire, closed, missed>>

Sendable == 1..MaxMsgs
Empty == -1
Unnumbered == -1   \* a frame of the manager's own has no seq

(* The frames of asks carry the number 0, whatever the log has reached.     *)
Frame(kind, seq, msg) == [kind |-> kind, seq |-> seq, msg |-> msg]
AskFrame(a) == Frame("question_asked", 0, a)

-----------------------------------------------------------------------------
(* The members of a sequence that are in a set.                             *)
Chosen(list, set) ==
  FoldLeft(LAMBDA kept, x : IF x \in set THEN Append(kept, x) ELSE kept, <<>>, list)

(* rememberLiveFrame and updatePendingCard.  A recovered ask is remembered  *)
(* once more by every load; the page drops repeated frames, so one is kept. *)
Remember(frames, f) ==
  CASE f.kind = "turn_done" -> <<>>
    [] f.kind = "question_resolved" ->
         Chosen(frames, ToSet(frames) \ {AskFrame(f.msg)})
    [] f.kind = "question_asked" /\ f \in ToSet(frames) -> frames
    [] OTHER -> Append(frames, f)

(* A load remembers what the host has open.                                 *)
Recovered(frames, open) == FoldLeft(Remember, frames, open)

(* ... and the cards with it when the turn is over (a mutation).            *)
RememberCardOfTurn(set, f) ==
  CASE f.kind = "question_asked" -> set \cup {f.msg}
    [] f.kind = "question_resolved" -> set \ {f.msg}
    [] f.kind = "turn_done" -> {}
    [] OTHER -> set

RememberCard(set, f) ==
  CASE f.kind = "question_asked" -> set \cup {f.msg}
    [] f.kind = "question_resolved" -> set \ {f.msg}
    [] OTHER -> set

CardFrames == SetToSeq({AskFrame(a) : a \in cards})

(* replayFrames: what a load is given.                                      *)
Replay(frames, set) ==
  frames \o SetToSeq({AskFrame(a) : a \in set} \ ToSet(frames))

(* publish: frames for which there is no stream are gone.                   *)
Publish(frames) ==
  /\ Len(wire.frames) + Len(frames) <= MaxWire
  /\ wire' = IF wire.up THEN [wire EXCEPT !.frames = @ \o frames] ELSE wire
  /\ missed' = (missed \/ ~wire.up)

Say(f) ==
  /\ live' = Remember(live, f) /\ cards' = RememberCard(cards, f)
  /\ Publish(<<f>>)

-----------------------------------------------------------------------------
(* POST messages: the echo goes out before it is known whether the message  *)
(* has to wait.                                                             *)
PostMessage ==
  LET m == sent + 1
      echo == Frame("user", Unnumbered, m)
  IN
  /\ m \in Sendable /\ sent' = m
  /\ live' = Remember(live, echo)
  /\ IF turn = 0
     THEN turn' = m /\ Publish(<<echo>>) /\ UNCHANGED waiting
     ELSE /\ waiting' = Append(waiting, m)
          /\ Publish(<<echo, Frame("turn_queued", Unnumbered, m)>>)
          /\ UNCHANGED turn
  /\ UNCHANGED <<log, asks, asked, cards, cache, closed>>

-----------------------------------------------------------------------------
(* The host works off a turn, and asks in it at most once.                  *)
Script == <<"turn_start", "message", "turn_end">>
Progress == Cardinality({i \in DOMAIN log : log[i].msg = turn /\ log[i].kind # "user"})

(* The runner passes the host's frames on, but for the echo of the message,  *)
(* which the host writes before the turn starts.                            *)
HostWorks ==
  /\ turn # 0 /\ turn \notin asks /\ Progress < Len(Script)
  /\ LET kind == Script[Progress + 1]
         echo == IF kind = "turn_start" THEN <<[kind |-> "user", msg |-> turn]>> ELSE <<>>
     IN
     /\ log' = log \o echo \o <<[kind |-> kind, msg |-> turn]>>
     /\ Say(Frame(kind, Len(log'), turn))
  /\ UNCHANGED <<asks, asked, turn, waiting, sent, cache, closed>>

HostAsks ==
  /\ turn \in Asking \ asked /\ Progress = 1
  /\ asks' = asks \cup {turn} /\ asked' = asked \cup {turn}
  /\ Say(AskFrame(turn))
  /\ UNCHANGED <<log, turn, waiting, sent, cache, closed>>

(* The host closes an ask: somebody answered it there, or it is too old.    *)
(* Only a running turn hears of it.                                         *)
AskCloses(a) ==
  /\ a \in asks /\ asks' = asks \ {a}
  /\ IF turn # 0 THEN Say(Frame("question_resolved", 0, a))
     ELSE UNCHANGED <<live, cards, wire, missed>>
  /\ UNCHANGED <<log, asked, turn, waiting, sent, cache, closed>>

(* POST questions/:id: the answer goes to the host, and the manager closes  *)
(* the card itself.                                                         *)
Answered(a) ==
  /\ a \in asks /\ asks' = asks \ {a}
  /\ Say(Frame("question_resolved", Unnumbered, a))
  /\ UNCHANGED <<log, asked, turn, waiting, sent, cache, closed>>

(* The turn ends, in order or by a timeout or a stop, and the queue goes on. *)
TurnOver ==
  /\ turn # 0
  /\ cache' = Empty /\ closed' = Len(log)
  /\ Say(Frame("turn_done", Unnumbered, turn))
  /\ turn' = IF waiting = <<>> THEN 0 ELSE Head(waiting)
  /\ waiting' = IF waiting = <<>> THEN waiting ELSE Tail(waiting)
  /\ UNCHANGED <<log, asks, asked, sent>>

TurnCloses ==
  Progress = Len(Script) /\ TurnOver

CacheExpires ==
  /\ cache # Empty /\ cache' = Empty
  /\ UNCHANGED <<log, asks, asked, turn, waiting, sent, live, cards, wire, closed, missed>>

RelayInit ==
  /\ log = <<>> /\ asks = {} /\ asked = {} /\ turn = 0 /\ waiting = <<>> /\ sent = 0
  /\ live = <<>> /\ cards = {} /\ cache = Empty
  /\ wire = [up |-> FALSE, frames |-> <<>>]
  /\ closed = 0 /\ missed = TRUE

RelayNext ==
  \/ HostWorks \/ HostAsks \/ TurnCloses \/ CacheExpires
  \/ \E a \in Sendable : AskCloses(a)
=============================================================================

------------------------------ MODULE ChatPage ------------------------------
(***************************************************************************)
(* The conversation page of the browser: loading, the event stream, sending  *)
(* and the cards of what the agent asks (public/assets/chat-wire.js,          *)
(* chat-reducer.js, chat-state.js, chat-composer.js), against the relay.      *)
(***************************************************************************)
EXTENDS Relay

CONSTANT
  Plans   \* the bounds a behaviour may have: how many messages are sent, and
          \* how many upsets there are (cut streams, hidings, failed loads,
          \* sends from elsewhere and turns cut short)

ASSUME PageAssumption == Plans \subseteq [msgs : Sendable, upsets : Nat]

VARIABLES
  conn,      \* its EventSource: off while the page is hidden, connecting (or
             \* waiting to) or open
  get,       \* the load under way: its stage and what the server noted so far
  again,     \* another load is chained behind it
  post,      \* the reply on its way to a message: no, started or queued
  page,      \* what the page shows, see Blank
  plan,      \* the bounds of this behaviour
  upsets,    \* how many upsets there were
  outdated   \* history: the last load was served a cache older than the end of
             \* an ended turn

pageVars == <<conn, get, again, post, page, plan, upsets, outdated>>
chatPageVars == <<relayVars, pageVars>>

Upset == upsets < plan.upsets /\ upsets' = upsets + 1

Idle == [stage |-> "idle"]

(* blocks is the transcript, dock and pending the queuedItems and           *)
(* pendingUserTexts, shown the asks with a card.                            *)
Blank ==
  [ blocks |-> <<>>, dock |-> <<>>, pending |-> <<>>, shown |-> {},
    buffered |-> <<>>, loading |-> FALSE, fatal |-> FALSE ]

-----------------------------------------------------------------------------
(* The reducer.  An agent block holds the answers written to it and is open  *)
(* until its turn ends.                                                     *)
UserBlock(m) == [role |-> "user", said |-> <<m>>, open |-> FALSE]

Agent(list, said, open) ==
  IF list # <<>> /\ Last(list).role = "agent" /\ Last(list).open
  THEN Append(Front(list), [role |-> "agent", said |-> Last(list).said \o said, open |-> open])
  ELSE Append(list, [role |-> "agent", said |-> said, open |-> open])

Reduce(list, f) ==
  CASE f.kind = "user" -> Append(list, UserBlock(f.msg))
    [] f.kind = "message" -> Agent(list, <<f.msg>>, TRUE)
    [] f.kind \in {"turn_end", "turn_done"} -> Agent(list, <<>>, FALSE)
    [] OTHER -> list

Played(list, frames) == FoldLeft(Reduce, list, frames)

Build(n) == Played(<<>>, SubSeq(log, 1, n))

UserTexts(list) == {b.said[1] : b \in {x \in ToSet(list) : x.role = "user"}}

(* asks.track                                                               *)
Track(set, f) ==
  CASE f.kind = "question_asked" -> set \cup {f.msg}
    [] f.kind = "question_resolved" -> set \ {f.msg}
    [] f.kind \in {"turn_end", "turn_done"} -> {}
    [] OTHER -> set

(* A message whose turn starts leaves the dock for the log.                 *)
Undock(p) ==
  IF p.dock = <<>> THEN p
  ELSE [p EXCEPT !.dock = Tail(@), !.pending = Append(@, Head(p.dock))]

(* What frames do to the dock, apart from the transcript.                   *)
Docked(p, frames) ==
  FoldLeft(LAMBDA q, f : CASE f.kind = "turn_queued" -> [q EXCEPT !.dock = Append(@, f.msg)]
                           [] f.kind = "turn_start" -> Undock(q)
                           [] OTHER -> q,
           p, frames)

-----------------------------------------------------------------------------
(* A frame arrives: handleFrame.                                            *)

Show(p, f) ==
  LET q == IF f.kind = "turn_start" THEN Undock(p) ELSE p
  IN [q EXCEPT !.blocks = Reduce(@, f), !.shown = Track(@, f)]

Handle(p, f) ==
  CASE p.loading -> [p EXCEPT !.buffered = Append(@, f)]
    [] ~p.loading /\ f.kind = "turn_queued" -> [p EXCEPT !.dock = Append(@, f.msg)]
    [] OTHER -> Show(p, f)

(* load begins; frames that arrive from now on are set aside.               *)
LoadBegins(p) ==
  /\ get' = [stage |-> "asking"]
  /\ page' = [p EXCEPT !.loading = TRUE, !.buffered = <<>>]

(* reload: loads go one behind the other; any number that wait are as one.  *)
Reloaded(p) ==
  IF get = Idle THEN LoadBegins(p) /\ UNCHANGED again
  ELSE again' = TRUE /\ page' = p /\ UNCHANGED get

Deliver ==
  /\ wire.frames # <<>>
  /\ wire' = [wire EXCEPT !.frames = Tail(@)]
  /\ LET f == Head(wire.frames) p == Handle(page, f) IN
     IF f.kind = "turn_done" /\ ~page.loading THEN Reloaded(p)
     ELSE page' = p /\ UNCHANGED <<get, again>>
  /\ UNCHANGED <<log, asks, asked, turn, waiting, sent, live, cards, cache, closed, missed,
                 conn, post, plan, upsets, outdated>>

-----------------------------------------------------------------------------
(* A load: GET /api/chats/:id has the host list its asks, notes what is     *)
(* live, and then reads the history from the cache or the host.             *)

BaseTaken ==
  /\ get.stage = "asking"
  /\ live' = Recovered(live, SetToSeq({AskFrame(a) : a \in asks}))
  /\ cards' = cards \cup asks
  /\ get' = [stage |-> "reading", live |-> Replay(live', cards')]
  /\ missed' = FALSE
  /\ UNCHANGED <<log, asks, asked, turn, waiting, sent, cache, wire, closed,
                 conn, again, post, page, plan, upsets, outdated>>

HistoryRead ==
  /\ get.stage = "reading"
  /\ get' = [stage |-> "read", live |-> get.live,
             n |-> IF cache = Empty THEN Len(log) ELSE cache]
  /\ outdated' = (cache # Empty /\ cache < closed)
  /\ UNCHANGED <<relayVars, conn, again, post, page, plan, upsets>>

(* alreadyLoaded; a frame without a number is known by its text.            *)
AlreadyLoadedByText(f, n, list) ==
  /\ f.kind = "user"
  /\ LET users == SelectSeq(list, LAMBDA b : b.role = "user")
     IN users # <<>> /\ Last(users).said = <<f.msg>>

AlreadyLoaded(f, n, list) ==
  IF f.seq # Unnumbered THEN f.seq <= (IF n = 0 THEN Unnumbered ELSE n)
  ELSE AlreadyLoadedByText(f, n, list)

(* uniqueFrames                                                             *)
Unique(frames) ==
  FoldLeft(LAMBDA seen, f : IF f \in ToSet(seen) THEN seen ELSE Append(seen, f), <<>>, frames)

(* load, once the reply is there: the transcript is built again, what is    *)
(* pending is drawn below it, and the frames it lacks are played on top.    *)
Rebuilt(n, frames) ==
  LET unshown == Chosen(page.pending, Sendable \ UserTexts(Build(n)))
      base == Build(n) \o [i \in DOMAIN unshown |-> UserBlock(unshown[i])]
      new == Unique(frames \o page.buffered)
      extra == Chosen(new, {f \in ToSet(new) : ~AlreadyLoaded(f, n, base)})
  IN [Docked([page EXCEPT !.pending = unshown], extra) EXCEPT
        !.blocks = Played(base, extra), !.shown = FoldLeft(Track, {}, extra),
        !.buffered = <<>>, !.loading = FALSE, !.fatal = FALSE]

(* The next load of the chain begins at once.                               *)
LoadOver(p) ==
  /\ again' = FALSE
  /\ IF again THEN LoadBegins(p) ELSE get' = Idle /\ page' = p

(* What was read is cached, also when a turn has ended meanwhile.           *)
LoadApplies ==
  /\ get.stage = "read" /\ cache' = get.n
  /\ LoadOver(Rebuilt(get.n, get.live))
  /\ UNCHANGED <<log, asks, asked, turn, waiting, sent, live, cards, wire, closed, missed,
                 conn, post, plan, upsets, outdated>>

(* A load that fails shows why, and no message can be sent then.            *)
LoadFails ==
  /\ Upset
  /\ get.stage = "read" /\ LoadOver([page EXCEPT !.loading = FALSE, !.fatal = TRUE])
  /\ UNCHANGED <<relayVars, conn, post, plan, outdated>>

-----------------------------------------------------------------------------
(* Sending.  The page sends one message at a time; another tab may send too. *)

Sends ==
  /\ post = "no" /\ ~page.fatal /\ sent < plan.msgs /\ PostMessage
  /\ post' = IF turn = 0 THEN "started" ELSE "queued"
  /\ UNCHANGED <<conn, get, again, page, plan, upsets, outdated>>

OtherTabSends ==
  /\ post = "no" /\ sent < plan.msgs /\ PostMessage
  /\ Upset
  /\ UNCHANGED <<conn, get, again, post, page, plan, outdated>>

(* The reply: a message that started is drawn at once, as pending.          *)
PostReturns ==
  /\ post # "no" /\ post' = "no"
  /\ Reloaded(IF post = "started" THEN [page EXCEPT !.pending = Append(@, sent)] ELSE page)
  /\ UNCHANGED <<relayVars, conn, plan, upsets, outdated>>

(* A turn that is stopped or times out. *)
CutShort ==
  /\ Progress < Len(Script) /\ TurnOver
  /\ Upset
  /\ UNCHANGED <<conn, get, again, post, page, plan, outdated>>

(* A card is answered on the page.                                          *)
AnswerHere(a) ==
  a \in page.shown /\ Answered(a) /\ UNCHANGED pageVars

-----------------------------------------------------------------------------
(* The stream: autoReconnect, and the page coming and going.                *)

StreamOpens ==
  /\ conn = "connecting" /\ conn' = "open"
  /\ wire' = [up |-> TRUE, frames |-> CardFrames]
  /\ UNCHANGED <<log, asks, asked, turn, waiting, sent, live, cards, cache, closed, missed,
                 get, again, post, page, plan, upsets, outdated>>

Cut ==
  /\ Upset
  /\ wire' = [up |-> FALSE, frames |-> <<>>]
  /\ missed' = (missed \/ wire.frames # <<>>)
  /\ UNCHANGED <<log, asks, asked, turn, waiting, sent, live, cards, cache, closed>>

(* The retry of autoReconnect does not load again.                          *)
StreamBreaks ==
  /\ conn = "open" /\ conn' = "connecting" /\ Cut
  /\ UNCHANGED <<get, again, post, page, plan, outdated>>

Hides ==
  /\ conn # "off" /\ conn' = "off" /\ Cut
  /\ UNCHANGED <<get, again, post, page, plan, outdated>>

Shows ==
  /\ conn = "off" /\ conn' = "connecting" /\ Reloaded(page)
  /\ UNCHANGED <<relayVars, post, plan, upsets, outdated>>

-----------------------------------------------------------------------------
PageInit ==
  /\ RelayInit
  /\ conn = "off" /\ get = Idle /\ again = FALSE /\ post = "no"
  /\ page = Blank /\ plan \in Plans /\ upsets = 0 /\ outdated = FALSE

PageNext ==
  \/ RelayNext /\ UNCHANGED pageVars
  \/ CutShort
  \/ Deliver
  \/ BaseTaken \/ HistoryRead \/ LoadApplies \/ LoadFails
  \/ Sends \/ OtherTabSends \/ PostReturns
  \/ \E a \in Sendable : AnswerHere(a)
  \/ StreamOpens \/ StreamBreaks \/ Hides \/ Shows

PageSpec == PageInit /\ [][PageNext]_chatPageVars

-----------------------------------------------------------------------------
(* What the agent asks can be answered for as long as the host has it open: *)
(* whatever turns end and loads come by in between, the manager has a card   *)
(* for it to give to the next page (updatePendingCard).                     *)
OpenAskHasACard == asks \subseteq cards

(* The page has nothing under way, its stream is up and has missed nothing  *)
(* since the last load, which was not served an outdated cache.             *)
AtRest ==
  /\ conn = "open" /\ wire.frames = <<>> /\ get = Idle /\ post = "no"
  /\ ~missed /\ ~outdated /\ ~page.fatal

(* Between two turns a settled page shows every answer of the session once  *)
(* and in order, whatever was loaded, buffered and streamed on top of each  *)
(* other.                                                                   *)
Said(list) ==
  FoldLeft(LAMBDA words, b : IF b.role = "agent" THEN words \o b.said ELSE words, <<>>, list)

Answers(events) ==
  FoldLeft(LAMBDA words, e : IF e.kind = "message" THEN Append(words, e.msg) ELSE words,
           <<>>, events)

AnswersShownOnce ==
  AtRest /\ turn = 0 => Said(page.blocks) = Answers(log)

(* A settled page shows what the running turn asks: a page that is opened,   *)
(* or comes back, while an ask is open gets the card again.                 *)
OpenAskIsShown ==
  AtRest /\ turn \in asks => turn \in page.shown
=============================================================================

----------------------------- MODULE ChatTurns -----------------------------
(***************************************************************************)
(* Which turns run in a chat, and when: the send queue                     *)
(* (src/src/chat/queue.ts), the turn registry (src/src/chat/turn-runner.ts), *)
(* the routes of the back office (src/src/routes/chat.ts) and the turns of *)
(* the public API (src/src/index.ts, the runTurn port), which share the    *)
(* registry but not the queue.                                             *)
(*                                                                         *)
(* A message is sent once and asks for one turn, so it also names the turn *)
(* and the host session that turn creates, if it does.  A request's handler *)
(* and the callbacks that end a turn are single steps: they do not await.  *)
(* What happens inside a turn is module Turn.                              *)
(***************************************************************************)
EXTENDS Naturals, Sequences, FiniteSets

CONSTANTS
  Chats,       \* chats of the back office
  Outward,     \* those that belong to an API key's conversation
  Messages,    \* messages, each sent once
  chatOf,      \* the chat each message is sent to
  FromApi,     \* the messages that come in over the public API
  NoTurn,      \* neither a turn nor a session
  MaxRestarts  \* bound: restarts of the manager

ASSUME ChatAssumption ==
  /\ chatOf \in [Messages -> Chats]
  /\ Outward \subseteq Chats
  /\ FromApi \subseteq Messages
  /\ \A m \in FromApi : chatOf[m] \in Outward
  /\ NoTurn \notin Messages
  /\ MaxRestarts \in Nat

VARIABLES
  archived,     \* chat.removedAt is set
  idle,         \* chat.lastActiveAt is past the service's window
  session,      \* chat.dshSessionId
  queue,        \* queues
  draining,     \* draining: the queued turn that executes
  chatTurns,    \* the registered turn
  chatCancels,  \* the turn whose controller is registered
  stage,        \* where each message stands
  snapshot,     \* the chat row a turn was started with: its session
  accepted,     \* history: per chat, its messages in the order they were accepted
  restarts      \* times the manager was restarted

chatVars == <<archived, idle, session>>
registryVars == <<queue, draining, chatTurns, chatCancels>>
turnVars == <<stage, snapshot>>
vars == <<chatVars, registryVars, turnVars, accepted, restarts>>

Stages == {"unsent", "queued", "opening", "driving", "done", "dropped"}
InFlight == {"opening", "driving"}

Init ==
  /\ archived = [c \in Chats |-> FALSE]
  /\ idle = [c \in Chats |-> FALSE]
  /\ session = [c \in Chats |-> NoTurn]
  /\ queue = [c \in Chats |-> <<>>]
  /\ draining = [c \in Chats |-> NoTurn]
  /\ chatTurns = [c \in Chats |-> NoTurn]
  /\ chatCancels = [c \in Chats |-> NoTurn]
  /\ stage = [m \in Messages |-> "unsent"]
  /\ snapshot = [m \in Messages |-> NoTurn]
  /\ accepted = [c \in Chats |-> <<>>]
  /\ restarts = 0

Queued(c) == {queue[c][i] : i \in DOMAIN queue[c]}
TurnsOf(c) == {m \in Messages : chatOf[m] = c /\ stage[m] \in InFlight}

-----------------------------------------------------------------------------
(* Messages.                                                                *)

(* startChatTurn up to its first await, for a chat row read in this step.   *)
Register(m) ==
  /\ chatTurns' = [chatTurns EXCEPT ![chatOf[m]] = m]
  /\ chatCancels' = [chatCancels EXCEPT ![chatOf[m]] = m]
  /\ stage' = [stage EXCEPT ![m] = "opening"]
  /\ snapshot' = [snapshot EXCEPT ![m] = session[chatOf[m]]]
  /\ UNCHANGED <<queue, draining>>

Enqueue(m) ==
  /\ queue' = [queue EXCEPT ![chatOf[m]] = Append(@, m)]
  /\ stage' = [stage EXCEPT ![m] = "queued"]
  /\ UNCHANGED <<draining, chatTurns, chatCancels, snapshot>>

Accept(m) ==
  /\ stage[m] = "unsent"
  /\ accepted' = [accepted EXCEPT ![chatOf[m]] = Append(@, m)]
  /\ UNCHANGED <<archived, session, restarts>>

(* resolve: an archived chat takes nothing.  Without it (a mutation).       *)
OpenToAll(c) == c \in Chats
Accepts(c) == ~archived[c]

(* A back office that never looks whether a turn runs (a mutation).         *)
SendAtOnce(m) ==
  /\ m \notin FromApi
  /\ Accepts(chatOf[m])
  /\ Accept(m)
  /\ idle' = [idle EXCEPT ![chatOf[m]] = FALSE]
  /\ Register(m)

(* POST /api/chats/:id/messages.                                            *)
Send(m) ==
  /\ m \notin FromApi
  /\ Accepts(chatOf[m])
  /\ Accept(m)
  /\ idle' = [idle EXCEPT ![chatOf[m]] = FALSE]
  /\ IF chatTurns[chatOf[m]] # NoTurn THEN Enqueue(m) ELSE Register(m)

(* POST /v1/conversations/:id/messages, admission apart: the turn starts,   *)
(* and the chat is not touched before it ends.                              *)
SendOverApi(m) ==
  /\ m \in FromApi
  /\ Accepts(chatOf[m])
  /\ Accept(m)
  /\ UNCHANGED idle
  /\ Register(m)

-----------------------------------------------------------------------------
(* Turns.                                                                   *)

(* The turn has its session from here on: a new one unless the chat row had *)
(* one.  The chat learns of it at once, unless the turn fails first (bound  *)
(* is FALSE).                                                               *)
OpenSession(m, bound) ==
  LET c == chatOf[m]
      binds == snapshot[m] = NoTurn /\ bound /\ session[c] = NoTurn IN
  /\ stage[m] = "opening"
  /\ stage' = [stage EXCEPT ![m] = "driving"]
  /\ session' = IF binds THEN [session EXCEPT ![c] = m] ELSE session
  /\ idle' = IF binds THEN [idle EXCEPT ![c] = FALSE] ELSE idle
  /\ UNCHANGED <<archived, registryVars, snapshot, accepted, restarts>>

(* runChatTurn after its await: the session is bound for good, or the chat  *)
(* touched.  Neither if runAgent threw.                                     *)
Bookkeeping(m) ==
  LET c == chatOf[m] IN
  \/ /\ session' = [session EXCEPT ![c] =
                      IF stage[m] = "driving" /\ snapshot[m] = NoTurn THEN m ELSE @]
     /\ idle' = [idle EXCEPT ![c] = FALSE]
  \/ UNCHANGED <<session, idle>>

(* The rows after m has ended and starts, if it is a turn, has started with *)
(* its own: the one m had (a mutation), or the one the chat has now.        *)
StaleRow(m, starts) ==
  [x \in Messages |->
     IF x = starts THEN snapshot[m] ELSE IF x = m THEN NoTurn ELSE snapshot[x]]

FreshRow(m, starts) ==
  [x \in Messages |->
     IF x = starts THEN session'[chatOf[m]] ELSE IF x = m THEN NoTurn ELSE snapshot[x]]

(* q.shift(), and a slip: the last element taken (a mutation).              *)
LastOf(q) == [first |-> q[Len(q)], rest |-> SubSeq(q, 1, Len(q) - 1)]
NextOf(q) == [first |-> Head(q), rest |-> Tail(q)]

(* A finally block that forgets to drain the queue (a mutation).            *)
LeaveOnly(m) ==
  LET c == chatOf[m] IN
  /\ chatTurns' = [chatTurns EXCEPT ![c] = NoTurn]
  /\ chatCancels' = [chatCancels EXCEPT ![c] = IF @ = m THEN NoTurn ELSE @]
  /\ draining' = [draining EXCEPT ![c] = IF @ = m THEN NoTurn ELSE @]
  /\ stage' = [stage EXCEPT ![m] = "done"]
  /\ snapshot' = [snapshot EXCEPT ![m] = NoTurn]
  /\ UNCHANGED queue

(* startChatTurn's finally block and drainChatQueue after it, with the one  *)
(* more drain that ends a queued turn's own execute.  The queue is left     *)
(* alone while another queued turn executes; in an archived chat it is      *)
(* emptied and nothing starts.                                              *)
Leave(m) ==
  LET c == chatOf[m]
      drains == draining[c] \in {NoTurn, m} /\ queue[c] # <<>>
      starts == IF drains /\ ~archived[c] THEN NextOf(queue[c]).first ELSE NoTurn
      drops == IF drains /\ archived[c] THEN Queued(c) ELSE {} IN
  /\ chatTurns' = [chatTurns EXCEPT ![c] = starts]
  /\ chatCancels' = [chatCancels EXCEPT ![c] =
       IF starts # NoTurn THEN starts ELSE IF @ = m THEN NoTurn ELSE @]
  /\ draining' = [draining EXCEPT ![c] = IF @ \in {NoTurn, m} THEN starts ELSE @]
  /\ queue' = [queue EXCEPT ![c] =
       IF ~drains THEN @ ELSE IF archived[c] THEN <<>> ELSE NextOf(@).rest]
  /\ stage' = [x \in Messages |->
       IF x = m THEN "done"
       ELSE IF x = starts THEN "opening"
       ELSE IF x \in drops THEN "dropped"
       ELSE stage[x]]
  /\ snapshot' = FreshRow(m, starts)

(* A turn ends, in whatever state (module Turn), with or without a session. *)
TurnEnds(m) ==
  /\ stage[m] \in InFlight
  /\ Bookkeeping(m)
  /\ Leave(m)
  /\ UNCHANGED <<archived, accepted, restarts>>

-----------------------------------------------------------------------------
(* What people and the clock do to a chat.                                  *)

(* The queue without its i-th turn.                                         *)
Without(q, i) == SubSeq(q, 1, i - 1) \o SubSeq(q, i + 1, Len(q))

(* POST /api/chats/:id/queued/:turnId/cancel: the filter by id, which is in *)
(* the queue once.                                                          *)
CancelQueued(m) ==
  LET c == chatOf[m] IN
  /\ Accepts(c)
  /\ \E i \in DOMAIN queue[c] :
       /\ queue[c][i] = m
       /\ queue' = [queue EXCEPT ![c] = Without(@, i)]
  /\ stage' = [stage EXCEPT ![m] = "dropped"]
  /\ UNCHANGED <<chatVars, draining, chatTurns, chatCancels, snapshot, accepted, restarts>>

(* POST /api/chats/:id/cancel: the turn its abort reaches (Stop of module   *)
(* Turn); it changes nothing here.                                          *)
StopReaches(c) == chatCancels[c]

(* POST /api/chats/:id/remove: archived, and what is queued is dropped.     *)
Archive(c) ==
  /\ ~archived[c]
  /\ archived' = [archived EXCEPT ![c] = TRUE]
  /\ queue' = [queue EXCEPT ![c] = <<>>]
  /\ stage' = [m \in Messages |-> IF m \in Queued(c) THEN "dropped" ELSE stage[m]]
  /\ UNCHANGED <<idle, session, draining, chatTurns, chatCancels, snapshot, accepted,
                 restarts>>

(* POST /api/chats/:id/restore.                                             *)
Restore(c) ==
  /\ archived[c]
  /\ archived' = [archived EXCEPT ![c] = FALSE]
  /\ UNCHANGED <<idle, session, registryVars, turnVars, accepted, restarts>>

(* The service's idle window passes; turns are far shorter than a window.   *)
Age(c) ==
  /\ c \in Outward
  /\ TurnsOf(c) = {}
  /\ idle' = [idle EXCEPT ![c] = TRUE]
  /\ UNCHANGED <<archived, session, registryVars, turnVars, accepted, restarts>>

(* sweepIdleConversations: the row alone decides.                           *)
SweepIdle(c) ==
  /\ c \in Outward
  /\ idle[c] /\ ~archived[c]
  /\ archived' = [archived EXCEPT ![c] = TRUE]
  /\ UNCHANGED <<idle, session, registryVars, turnVars, accepted, restarts>>

(* The manager dies and is started again: rows stay, the rest is gone.      *)
Restart ==
  /\ restarts < MaxRestarts
  /\ restarts' = restarts + 1
  /\ queue' = [c \in Chats |-> <<>>]
  /\ draining' = [c \in Chats |-> NoTurn]
  /\ chatTurns' = [c \in Chats |-> NoTurn]
  /\ chatCancels' = [c \in Chats |-> NoTurn]
  /\ stage' = [m \in Messages |->
       IF stage[m] \in InFlight \union {"queued"} THEN "dropped" ELSE stage[m]]
  /\ snapshot' = [m \in Messages |-> NoTurn]
  /\ UNCHANGED <<chatVars, accepted>>

Next ==
  \/ \E m \in Messages :
       \/ Send(m) \/ SendOverApi(m)
       \/ \E bound \in BOOLEAN : OpenSession(m, bound)
       \/ TurnEnds(m) \/ CancelQueued(m)
  \/ \E c \in Chats :
       Archive(c) \/ Restore(c) \/ Age(c) \/ SweepIdle(c)
  \/ Restart

Spec == Init /\ [][Next]_vars

-----------------------------------------------------------------------------
(* The type invariant: queues hold turns, the registries one turn or none.  *)
TypeOK ==
  /\ archived \in [Chats -> BOOLEAN]
  /\ idle \in [Chats -> BOOLEAN]
  /\ session \in [Chats -> Messages \union {NoTurn}]
  /\ queue \in [Chats -> Seq(Messages)]
  /\ draining \in [Chats -> Messages \union {NoTurn}]
  /\ chatTurns \in [Chats -> Messages \union {NoTurn}]
  /\ chatCancels \in [Chats -> Messages \union {NoTurn}]
  /\ stage \in [Messages -> Stages]
  /\ snapshot \in [Messages -> Messages \union {NoTurn}]
  /\ accepted \in [Chats -> Seq(Messages)]
  /\ restarts \in 0..MaxRestarts

Internal == Chats \ Outward

(* "a chat runs at most one turn at any moment" (turn-runner.ts), of the    *)
(* chats the public API does not reach; and the stop button reaches it.     *)
OneTurnAtATime ==
  \A c \in Internal : \A m \in TurnsOf(c) :
    TurnsOf(c) = {m} /\ chatTurns[c] = m /\ StopReaches(c) = m

(* Messages of an internal chat are served in the order they were accepted: *)
(* whenever one has started, every earlier one is over or was dropped.      *)
ServedInOrder ==
  \A c \in Internal : \A i \in DOMAIN accepted[c] :
    stage[accepted[c][i]] \in InFlight \union {"done"} =>
      \A j \in 1..(i - 1) : stage[accepted[c][j]] \in {"done", "dropped"}

(* A chat never changes the session it continues: its conversation is not   *)
(* started afresh by a queued turn, an archive, a failed turn or a restart. *)
SessionIsKept ==
  [][\A c \in Internal : session[c] # NoTurn => session'[c] = session[c]]_vars

(* "Queued turns of this chat must not fire after the chat is gone"         *)
(* (routes/chat.ts): nothing starts in an archived chat, however it was     *)
(* archived.                                                                *)
ArchivedStartsNothing ==
  [][\A m \in Messages :
       archived[chatOf[m]] /\ stage[m] \notin InFlight => stage'[m] \notin InFlight]_vars

(* No queued message is forgotten, also where turns of the public API       *)
(* overlap the queue: while one waits, a turn of its chat is in flight whose *)
(* end will drain the queue, and the queued turn that executes, if any, is  *)
(* among them.                                                              *)
QueueIsWatched ==
  \A c \in Chats :
    /\ queue[c] # <<>> => TurnsOf(c) # {}
    /\ draining[c] # NoTurn => draining[c] \in TurnsOf(c)

(* What turn-runner.ts and routes/chat.ts say of every chat: one registry,  *)
(* so no chat runs two turns at once.                                       *)
OneTurnInEveryChat ==
  \A c \in Chats : Cardinality(TurnsOf(c)) <= 1
=============================================================================

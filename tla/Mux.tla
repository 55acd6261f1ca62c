-------------------------------- MODULE Mux --------------------------------
(***************************************************************************)
(* The multiplexer, src/src/upstream/mux.ts, for one endpoint: connections, *)
(* the sets of listeners that hang on them, reconnects and clean-ups.       *)
(*                                                                         *)
(* A subscription is made once; its clean-up may be called again and again  *)
(* (the runner calls it when the turn ends and once more when driveTurn     *)
(* returns).  A connection and a set of listeners are named by the          *)
(* subscription that made them.                                             *)
(***************************************************************************)
EXTENDS FiniteSets

CONSTANTS
  Subs,        \* subscriptions of this endpoint
  Sessions,
  sessionOf,   \* sessionOf[s]: the session s listens to
  NoSub

ASSUME MuxAssumption ==
  /\ sessionOf \in [Subs -> Sessions]
  /\ NoSub \notin Subs

VARIABLES
  current,   \* connections.get(ep.base): the connection new subscribers join
  socket,    \* per connection: its WebSocket
  was,       \* per connection: wasConnected
  timer,     \* per connection: reconnectTimer is set
  closed,    \* per connection: closed
  stage,     \* per subscription: new, on or off
  connOf,    \* per subscription: its connection
  setOf,     \* per subscription: the set its listener was put in
  members,   \* per set: the listeners in it
  hung,      \* the sets that hang in their connection's map
  gap,       \* history: frames lost since the stream was first open for it, untold
  blind      \* history: frames lost before the stream was first open for it

connVars == <<current, socket, was, timer, closed>>
subVars == <<stage, connOf, setOf, members, hung>>
muxVars == <<connVars, subVars, gap, blind>>

MuxInit ==
  /\ current = NoSub
  /\ socket = [k \in Subs |-> "none"]
  /\ was = [k \in Subs |-> FALSE]
  /\ timer = [k \in Subs |-> FALSE]
  /\ closed = [k \in Subs |-> FALSE]
  /\ stage = [s \in Subs |-> "new"]
  /\ connOf = [s \in Subs |-> NoSub]
  /\ setOf = [s \in Subs |-> NoSub]
  /\ members = [c \in Subs |-> {}]
  /\ hung = {}
  /\ gap = [s \in Subs |-> FALSE]
  /\ blind = [s \in Subs |-> FALSE]

-----------------------------------------------------------------------------
(* conn.listeners: the sets of connection k.                                *)
SetsOf(k) == {c \in hung : connOf[c] = k}

(* The listeners emit reaches for session x on connection k.                *)
Listeners(k, x) == UNION {members[c] : c \in {d \in SetsOf(k) : sessionOf[d] = x}}

On == {s \in Subs : stage[s] = "on"}

(* How subscriber s finds its stream: open, lost after it was open, or not  *)
(* open yet.                                                                *)
Link(s) ==
  CASE s \notin On -> "none"
    [] s \in On /\ socket[connOf[s]] = "open" -> "up"
    [] s \in On /\ socket[connOf[s]] # "open" ->
         IF was[connOf[s]] \/ socket[connOf[s]] = "closing" THEN "lost" ELSE "connecting"

-----------------------------------------------------------------------------
(* Subscribing and cleaning up.                                             *)

(* connect: the connection of the endpoint, or a new one.                   *)
Connection(s) == IF current # NoSub /\ ~closed[current] THEN current ELSE s

Subscribe(s) ==
  LET k == Connection(s)
      mine == {c \in SetsOf(k) : sessionOf[c] = sessionOf[s]} IN
  /\ stage[s] = "new"
  /\ stage' = [stage EXCEPT ![s] = "on"]
  /\ current' = k
  /\ socket' = IF k = s THEN [socket EXCEPT ![k] = "connecting"] ELSE socket
  /\ connOf' = [connOf EXCEPT ![s] = k]
  /\ \E c \in (IF mine = {} THEN {s} ELSE mine) :
       /\ setOf' = [setOf EXCEPT ![s] = c]
       /\ members' = [members EXCEPT ![c] = @ \union {s}]
       /\ hung' = hung \union {c}
  /\ UNCHANGED <<was, timer, closed, gap, blind>>

(* The clean-up takes the session's entry away, whichever set it is (a      *)
(* mutation: the defect "Debt A4" speaks of).                               *)
RemainingOfSession(c, left) ==
  IF left = {} THEN {d \in hung : connOf[d] # connOf[c] \/ sessionOf[d] # sessionOf[c]}
               ELSE hung

(* An empty set is taken from the map, if it is the one that hangs there.   *)
Remaining(c, left) == IF left = {} THEN hung \ {c} ELSE hung

(* maybeClose: without sets the connection is closed, and the endpoint's    *)
(* entry deleted, whichever connection it names by then.                    *)
MaybeClose(k, sets) ==
  IF \E c \in sets : connOf[c] = k
  THEN UNCHANGED connVars
  ELSE /\ closed' = [closed EXCEPT ![k] = TRUE]
       /\ timer' = [timer EXCEPT ![k] = FALSE]
       /\ socket' = [socket EXCEPT ![k] = "none"]
       /\ current' = NoSub
       /\ UNCHANGED was

(* The function subscribe returned, called for the first time or again.     *)
Leave(s) ==
  LET c == setOf[s]
      left == members[c] \ {s} IN
  /\ stage[s] \in {"on", "off"}
  /\ stage' = [stage EXCEPT ![s] = "off"]
  /\ members' = [members EXCEPT ![c] = left]
  /\ hung' = Remaining(c, left)
  /\ MaybeClose(connOf[s], hung')
  /\ gap' = [gap EXCEPT ![s] = FALSE]
  /\ blind' = [blind EXCEPT ![s] = FALSE]
  /\ UNCHANGED <<connOf, setOf>>

-----------------------------------------------------------------------------
(* The socket.                                                              *)

(* stream_reconnected goes to every listener, if the connection was open    *)
(* before.                                                                  *)
Told(k) == IF was[k] THEN UNION {members[c] : c \in SetsOf(k)} ELSE {}

(* onopen.                                                                  *)
Opens(k) ==
  /\ socket[k] = "connecting"
  /\ socket' = [socket EXCEPT ![k] = "open"]
  /\ gap' = [s \in Subs |-> gap[s] /\ s \notin Told(k)]
  /\ UNCHANGED <<current, was, timer, closed, subVars, blind>>

(* The line is dead, or the host said stream/error: nothing arrives any     *)
(* more, and onclose is yet to come.                                        *)
Breaks(k) ==
  /\ socket[k] = "open"
  /\ socket' = [socket EXCEPT ![k] = "closing"]
  /\ UNCHANGED <<current, was, timer, closed, subVars, gap, blind>>

(* Any close counts as a connection lost (a mutation: the defect "Debt R5"  *)
(* speaks of).                                                              *)
WasAlways(k) == TRUE

(* Only a socket that fired onopen makes the next one a reconnect.          *)
WasAfter(k) == was[k] \/ socket[k] = "closing"

(* A handshake that failed is not tried again (a mutation).                 *)
RetriesLost(k) == SetsOf(k) # {} /\ socket[k] = "closing"

Retries(k) == SetsOf(k) # {}

(* onclose, of a handshake that failed or of a stream that broke.           *)
Closes(k) ==
  /\ socket[k] \in {"connecting", "closing"}
  /\ socket' = [socket EXCEPT ![k] = "none"]
  /\ was' = [was EXCEPT ![k] = WasAfter(k)]
  /\ IF Retries(k)
     THEN timer' = [timer EXCEPT ![k] = TRUE] /\ UNCHANGED current
     ELSE current' = NoSub /\ UNCHANGED timer
  /\ UNCHANGED <<closed, subVars, gap, blind>>

(* The reconnect timer fires: attach.                                       *)
Reconnects(k) ==
  /\ timer[k]
  /\ timer' = [timer EXCEPT ![k] = FALSE]
  /\ socket' = IF closed[k] THEN socket ELSE [socket EXCEPT ![k] = "connecting"]
  /\ UNCHANGED <<current, was, closed, subVars, gap, blind>>

(* The host broadcasts a frame of session x to every open socket.           *)
Hears(s, x) ==
  /\ socket[connOf[s]] = "open"
  /\ s \in Listeners(connOf[s], x)

Frame(x) ==
  LET deaf == {s \in On : sessionOf[s] = x /\ ~Hears(s, x)} IN
  /\ gap' = [s \in Subs |-> gap[s] \/ (s \in deaf /\ Link(s) # "connecting")]
  /\ blind' = [s \in Subs |-> blind[s] \/ (s \in deaf /\ Link(s) = "connecting")]
  /\ UNCHANGED <<connVars, subVars>>

-----------------------------------------------------------------------------
MuxNext ==
  \/ \E s \in Subs : Subscribe(s) \/ Leave(s)
  \/ \E k \in Subs : Opens(k) \/ Breaks(k) \/ Closes(k) \/ Reconnects(k)
  \/ \E x \in Sessions : Frame(x)

MuxSpec == MuxInit /\ [][MuxNext]_muxVars

(* The timer fires, a handshake comes to an end, a dead socket is closed;   *)
(* and an endpoint that is tried again and again answers at last.           *)
MuxFairness ==
  \A k \in Subs :
    WF_muxVars(Reconnects(k)) /\ WF_muxVars(Closes(k)) /\ SF_muxVars(Opens(k))

-----------------------------------------------------------------------------
Conns == Subs \union {NoSub}

MuxTypeOK ==
  /\ current \in Conns
  /\ socket \in [Subs -> {"none", "connecting", "open", "closing"}]
  /\ {was, timer, closed} \subseteq [Subs -> BOOLEAN]
  /\ stage \in [Subs -> {"new", "on", "off"}]
  /\ {connOf, setOf} \subseteq [Subs -> Conns]
  /\ \A s \in Subs : stage[s] = "new" \/ {connOf[s], setOf[s]} \subseteq Subs
  /\ members \in [Subs -> SUBSET Subs]
  /\ hung \subseteq Subs
  /\ {gap, blind} \subseteq [Subs -> BOOLEAN]

(* Whoever subscribes is served until it leaves: its listener hangs in its  *)
(* connection, and that connection is not closed and has a socket, or a     *)
(* timer that will make one.  Clean-ups of others, late or repeated, on     *)
(* this session or another, do not change that.                             *)
SubscribersAreServed ==
  \A s \in On :
    /\ s \in Listeners(connOf[s], sessionOf[s])
    /\ ~closed[connOf[s]]
    /\ socket[connOf[s]] # "none" \/ timer[connOf[s]]

(* The last to leave switches off the light: a connection nobody listens to *)
(* holds no socket, has no timer and is not in the map.                     *)
NoIdleConnection ==
  \A k \in Subs : socket[k] # "none" \/ timer[k] \/ current = k =>
    \E s \in On : connOf[s] = k

(* A stream that broke is announced when it is back, to everybody who lost  *)
(* it; one that was never open is not taken for one ("Debt A4", "Debt R5"); *)
(* and nobody misses a frame while the stream is open.                      *)
Promise == INSTANCE Feed WITH link <- [s \in Subs |-> Link(s)]
FeedImplemented == Promise!Spec

(* A subscriber's stream opens in the end, or it leaves.                    *)
StreamComesUp == \A s \in Subs : stage[s] = "on" ~> Link(s) = "up" \/ stage[s] = "off"

(* "Subscribe to mux BEFORE sending the prompt, so we catch all frames"     *)
(* (runner.ts): whoever is connected has missed nothing untold.             *)
NothingIsMissedUntold == \A s \in On : Link(s) = "up" => ~gap[s] /\ ~blind[s]

(* "maintains one connection per endpoint" (mux.ts).                        *)
OneConnection ==
  \A j, k \in Subs : socket[j] # "none" /\ socket[k] # "none" => j = k
=============================================================================

---------------------------- MODULE AgentChannel ----------------------------
(***************************************************************************)
(* The command channel between the manager and the agent of one machine:   *)
(* the queue, the long poll, the reports and the rotation of the key       *)
(* (src/src/routes/agents.ts), against the agent's loop                    *)
(* (src/public/assets/agent/runtime.mjs).                                  *)
(*                                                                         *)
(* A command is named by its id, which counts up; the key a config.deliver *)
(* brings is named by that command's id, and the key of registration is 0. *)
(* An agent has one poll out at a time, but the manager does not notice    *)
(* when the agent gives one up.  What a node command does is left out.     *)
(***************************************************************************)
EXTENDS Naturals, Sequences, FiniteSets

CONSTANTS
  NoKey,        \* no identity
  MaxCommands,  \* bound: commands
  MaxWaiters,   \* bound: polls parked at the manager
  MaxPosts      \* bound: reports under way

ASSUME ChannelAssumption ==
  /\ NoKey \notin Nat
  /\ {MaxCommands, MaxWaiters, MaxPosts} \subseteq Nat

VARIABLES
  machine,    \* the agentMachine row
  token,      \* tokenHash
  prev,       \* prevTokenHash: one key or none
  graceOver,  \* prevSetAt is longer ago than ROTATION_GRACE_MS
  online,     \* lastSeenAt is recent
  commands,   \* the agentCommand rows, by id
  waiters     \* the polls parked, each "live" or given up by the agent

managerVars == <<machine, token, prev, graceOver, online, commands, waiters>>

VARIABLES
  phase,      \* where the agent's loop stands
  capable,    \* the agent's version knows config.deliver
  held,       \* agentToken, in memory or, while it is down, to be loaded
  saved,      \* the key in agent.json
  batch,      \* commands of this round still to execute
  results     \* events of this round

agentVars == <<phase, capable, held, saved, batch, results>>

VARIABLES
  request,    \* the agent's poll
  reply,      \* the commands its answer brings
  strays,     \* polls given up before they arrived: their keys
  posts,      \* reports under way
  executed,   \* history: the commands executed, in order
  hurried,    \* history: a key was rotated before the one before it had settled
  lapsed      \* history: a grace window ended before the new key had arrived

netVars == <<request, reply, strays, posts>>
histVars == <<executed, hurried, lapsed>>
channelVars == <<managerVars, agentVars, netVars, histVars>>

ChannelInit ==
  /\ machine = "registered"
  /\ token = 0 /\ prev = {} /\ graceOver = FALSE
  /\ online = TRUE
  /\ commands = <<>>
  /\ waiters = <<>>
  /\ phase = "ready"
  /\ capable \in BOOLEAN
  /\ held = 0 /\ saved = 0
  /\ batch = <<>> /\ results = <<>>
  /\ request = "none" /\ reply = <<>>
  /\ strays = {} /\ posts = {}
  /\ executed = <<>>
  /\ hurried = FALSE /\ lapsed = FALSE

-----------------------------------------------------------------------------
(* The manager: keys and the queue.                                         *)

(* findAgentByToken.                                                        *)
Accepted(k) == machine = "registered" /\ (k = token \/ (k \in prev /\ ~graceOver))

(* The ids of a set, in the order of the queue.                             *)
InOrder(ids) ==
  CHOOSE s \in [1..Cardinality(ids) -> ids] : \A i, j \in DOMAIN s : i < j => s[i] < s[j]

Pending(list) == InOrder({i \in 1..Len(list) : list[i].state = "pending"})

(* claimCommands, and a claim that leaves the rows pending (a mutation).    *)
ClaimedNot(list) == list
Claimed(list) ==
  [i \in 1..Len(list) |->
     IF list[i].state = "pending" THEN [list[i] EXCEPT !.state = "delivered"] ELSE list[i]]

(* reply.send to a poll: nobody reads the answer to one that was given up.  *)
Answer(who, ids) ==
  IF who = "live"
  THEN request' = "answered" /\ reply' = ids
  ELSE UNCHANGED <<request, reply>>

(* enqueueAgentCommand without the wake (a mutation).                       *)
EnqueueAsleep(type) ==
  /\ Len(commands) < MaxCommands
  /\ commands' = Append(commands, [type |-> type, state |-> "pending"])
  /\ UNCHANGED <<waiters, request, reply>>

(* enqueueAgentCommand.  Every parked poll wakes; the first takes all that  *)
(* is pending, the others return with nothing.                              *)
EnqueueFor(type) ==
  LET all == Append(commands, [type |-> type, state |-> "pending"]) IN
  /\ Len(commands) < MaxCommands
  /\ waiters' = <<>>
  /\ IF waiters = <<>>
     THEN commands' = all /\ UNCHANGED <<request, reply>>
     ELSE /\ commands' = Claimed(all)
          /\ IF request = "parked"
             THEN Answer("live", IF Head(waiters) = "live" THEN Pending(all) ELSE <<>>)
             ELSE UNCHANGED <<request, reply>>

(* A node's supervisor or the update button queues a command.               *)
EnqueueCommand ==
  /\ machine # "deleted"
  /\ EnqueueFor("node")
  /\ UNCHANGED <<machine, token, prev, graceOver, online, agentVars, strays, posts, histVars>>

(* Whether the key rotated last may still be on its way, or its answer.     *)
Unsettled ==
  \/ held # token \/ saved # token
  \/ \E i \in DOMAIN commands :
       commands[i].type = "config.deliver" /\ commands[i].state \in {"pending", "delivered"}

(* POST rotate: one step, the deliver command included.                     *)
Rotate ==
  /\ machine = "registered"
  /\ online
  /\ token' = Len(commands) + 1
  /\ prev' = {token}
  /\ graceOver' = FALSE
  /\ EnqueueFor("config.deliver")
  /\ hurried' = (hurried \/ Unsettled)
  /\ UNCHANGED <<machine, online, agentVars, strays, posts, executed, lapsed>>

Revoke ==
  /\ machine = "registered"
  /\ machine' = "revoked"
  /\ UNCHANGED <<token, prev, graceOver, online, commands, waiters, agentVars, netVars, histVars>>

(* POST delete: the row goes, and its commands with it.                     *)
Delete ==
  /\ machine = "revoked"
  /\ machine' = "deleted"
  /\ commands' = [i \in DOMAIN commands |-> [commands[i] EXCEPT !.state = "gone"]]
  /\ UNCHANGED <<token, prev, graceOver, online, waiters, agentVars, netVars, histVars>>

-----------------------------------------------------------------------------
(* The manager: polls and reports.                                          *)

(* GET commands up to its await.                                            *)
Serve(who, k) ==
  IF ~Accepted(k)
  THEN /\ request' = IF who = "live" THEN "refused" ELSE request
       /\ UNCHANGED <<online, commands, waiters, reply>>
  ELSE /\ online' = TRUE
       /\ IF Pending(commands) = <<>>
          THEN /\ Len(waiters) < MaxWaiters
               /\ waiters' = Append(waiters, who)
               /\ request' = IF who = "live" THEN "parked" ELSE request
               /\ UNCHANGED <<commands, reply>>
          ELSE /\ commands' = Claimed(commands)
               /\ Answer(who, Pending(commands))
               /\ UNCHANGED waiters

PollArrives ==
  /\ request = "sent"
  /\ Serve("live", held)
  /\ UNCHANGED <<machine, token, prev, graceOver, agentVars, strays, posts, histVars>>

StrayArrives(k) ==
  /\ k \in strays
  /\ strays' = strays \ {k}
  /\ Serve("dead", k)
  /\ UNCHANGED <<machine, token, prev, graceOver, agentVars, posts, histVars>>

(* The wait is over: the poll leaves the list, claims once more and returns.*)
WaitEnds(i) ==
  /\ i \in DOMAIN waiters
  /\ waiters' = SubSeq(waiters, 1, i - 1) \o SubSeq(waiters, i + 1, Len(waiters))
  /\ commands' = Claimed(commands)
  /\ Answer(waiters[i], Pending(commands))
  /\ UNCHANGED <<machine, token, prev, graceOver, online, agentVars, strays, posts, histVars>>

(* The rows after a report, for delivered commands only.                    *)
Settled(list, events) ==
  [i \in 1..Len(list) |->
     IF list[i].state = "delivered" /\ \E e \in events : e.id = i
     THEN [list[i] EXCEPT !.state = IF [id |-> i, ok |-> TRUE] \in events THEN "done" ELSE "failed"]
     ELSE list[i]]

(* The events of a report that settle a deliver command.                    *)
Deliveries(events) ==
  {i \in DOMAIN events : /\ commands[events[i].id].type = "config.deliver"
                         /\ commands[events[i].id].state = "delivered"}

(* What they do to the keys: the first of them decides, the slot is empty *)
(* for the rest.  A failed one brings it back; and a version that does not  *)
(* (a mutation).                                                            *)
KeysKeptAfter(events) ==
  IF Deliveries(events) = {}
  THEN UNCHANGED <<token, prev>>
  ELSE prev' = {} /\ UNCHANGED token

KeysAfter(events) ==
  IF Deliveries(events) = {}
  THEN UNCHANGED <<token, prev>>
  ELSE \E first \in Deliveries(events) :
         /\ \A i \in Deliveries(events) : first <= i
         /\ prev' = {}
         /\ token' = IF prev # {} /\ ~events[first].ok THEN CHOOSE k \in prev : TRUE ELSE token

(* POST events.                                                             *)
PostArrives(p) ==
  /\ p \in posts
  /\ posts' = posts \ {p}
  /\ IF Accepted(p.key)
     THEN /\ online' = TRUE
          /\ commands' = Settled(commands, {p.events[i] : i \in DOMAIN p.events})
          /\ KeysAfter(p.events)
     ELSE UNCHANGED <<online, commands, token, prev>>
  /\ UNCHANGED <<machine, graceOver, waiters, agentVars, request, reply, strays, histVars>>

PostLost(p) ==
  /\ p \in posts
  /\ posts' = posts \ {p}
  /\ UNCHANGED <<managerVars, agentVars, request, reply, strays, histVars>>

(* ROTATION_GRACE_MS after the rotation.                                    *)
GraceEnds ==
  /\ prev # {} /\ ~graceOver
  /\ graceOver' = TRUE
  /\ lapsed' = (lapsed \/ held # token \/ saved # token)
  /\ UNCHANGED <<machine, token, prev, online, commands, waiters, agentVars, netVars,
                 executed, hurried>>

(* AGENT_OFFLINE_MS without a word from the agent.                          *)
FallsSilent ==
  /\ online
  /\ online' = FALSE
  /\ UNCHANGED <<machine, token, prev, graceOver, commands, waiters, agentVars, netVars, histVars>>

(* The manager is started again: the parked polls break, and                *)
(* convergeAgentCommands fails what was delivered.                          *)
ManagerRestarts ==
  /\ waiters' = <<>>
  /\ request' = IF request = "parked" THEN "broken" ELSE request
  /\ commands' = [i \in DOMAIN commands |->
       IF commands[i].state = "delivered" THEN [commands[i] EXCEPT !.state = "failed"]
       ELSE commands[i]]
  /\ UNCHANGED <<machine, token, prev, graceOver, online, agentVars, reply, strays, posts, histVars>>

-----------------------------------------------------------------------------
(* The agent's loop.                                                        *)

Poll ==
  /\ phase = "ready"
  /\ phase' = "polling"
  /\ request' = "sent"
  /\ UNCHANGED <<managerVars, capable, held, saved, batch, results, reply, strays, posts, histVars>>

(* The agent's end of a poll is gone; the manager's, if any, stays.         *)
GiveUp ==
  /\ request' = "none"
  /\ reply' = <<>>
  /\ strays' = IF request = "sent" THEN strays \union {held} ELSE strays
  /\ waiters' = [i \in DOMAIN waiters |-> "dead"]

(* The call fails and the loop backs off.                                   *)
PollFails ==
  /\ phase = "polling"
  /\ phase' = "ready"
  /\ GiveUp
  /\ UNCHANGED <<machine, token, prev, graceOver, online, commands, capable, held, saved,
                 batch, results, posts, histVars>>

TakeCommands ==
  /\ phase = "polling"
  /\ request = "answered"
  /\ phase' = "executing"
  /\ batch' = reply
  /\ results' = <<>>
  /\ request' = "none" /\ reply' = <<>>
  /\ UNCHANGED <<managerVars, capable, held, saved, strays, posts, histVars>>

(* 401: the identity is wiped; the join token was used up long ago, so      *)
(* registering again fails and with it the process, at every start.         *)
IdentityRejected ==
  /\ phase = "polling"
  /\ request = "refused"
  /\ phase' = "lockedOut"
  /\ held' = NoKey /\ saved' = NoKey
  /\ request' = "none"
  /\ UNCHANGED <<managerVars, capable, batch, results, reply, strays, posts, histVars>>

Brings(i) == commands[i].type = "config.deliver" /\ capable

(* execute: a deliver command changes the key at once, in memory and on     *)
(* disk; one the agent's version does not know fails.                       *)
Execute(ok) ==
  /\ phase = "executing"
  /\ batch # <<>>
  /\ commands[Head(batch)].type = "config.deliver" => (ok <=> capable)
  /\ held' = IF Brings(Head(batch)) THEN Head(batch) ELSE held
  /\ saved' = IF Brings(Head(batch)) THEN Head(batch) ELSE saved
  /\ executed' = Append(executed, Head(batch))
  /\ results' = Append(results, [id |-> Head(batch), ok |-> ok])
  /\ batch' = Tail(batch)
  /\ UNCHANGED <<managerVars, phase, capable, netVars, hurried, lapsed>>

(* execute throws (a disk is full): what is left of the round, its results  *)
(* included, is dropped; a new key stays in memory only.                    *)
ExecuteThrows ==
  /\ phase = "executing"
  /\ batch # <<>>
  /\ held' = IF Brings(Head(batch)) THEN Head(batch) ELSE held
  /\ executed' = Append(executed, Head(batch))
  /\ phase' = "ready"
  /\ batch' = <<>> /\ results' = <<>>
  /\ UNCHANGED <<managerVars, capable, saved, netVars, hurried, lapsed>>

(* The round's events are posted; whether the call succeeds or not, the     *)
(* loop goes on, and a failed call may still reach the manager.             *)
Report ==
  /\ phase = "executing"
  /\ batch = <<>>
  /\ Cardinality(posts) < MaxPosts
  /\ posts' = IF results = <<>> THEN posts
              ELSE posts \union {[key |-> held, events |-> results]}
  /\ phase' = "ready"
  /\ results' = <<>>
  /\ UNCHANGED <<managerVars, capable, held, saved, batch, request, reply, strays, histVars>>

(* The process ends: killed, or to load an update.                          *)
AgentDies ==
  /\ phase \in {"ready", "polling", "executing"}
  /\ phase' = "down"
  /\ held' = saved
  /\ batch' = <<>> /\ results' = <<>>
  /\ GiveUp
  /\ UNCHANGED <<machine, token, prev, graceOver, online, commands, capable, saved, posts, histVars>>

AgentStarts ==
  /\ phase = "down"
  /\ phase' = "ready"
  /\ UNCHANGED <<managerVars, capable, held, saved, batch, results, netVars, histVars>>

ChannelNext ==
  \/ EnqueueCommand \/ Rotate \/ Revoke \/ Delete
  \/ PollArrives \/ \E k \in strays : StrayArrives(k)
  \/ \E i \in DOMAIN waiters : WaitEnds(i)
  \/ \E p \in posts : PostArrives(p) \/ PostLost(p)
  \/ GraceEnds \/ FallsSilent \/ ManagerRestarts
  \/ Poll \/ PollFails \/ TakeCommands \/ IdentityRejected
  \/ (\E ok \in BOOLEAN : Execute(ok)) \/ ExecuteThrows \/ Report
  \/ AgentDies \/ AgentStarts

ChannelSpec == ChannelInit /\ [][ChannelNext]_channelVars

-----------------------------------------------------------------------------
(* A command is executed at most once and in the order of the queue,        *)
(* whatever is lost or given up on the way, restarts of either side         *)
(* included.                                                                *)
ExecutedOnceInOrder ==
  \A i, j \in DOMAIN executed : i < j => executed[i] < executed[j]

(* No command waits beside a poll that waits for commands: the wake-up      *)
(* cannot be missed.                                                        *)
NoMissedWakeUp == waiters # <<>> => Pending(commands) = <<>>

(* Rotating keys does not brick a machine: through lost polls, reports and  *)
(* crashes the manager accepts the key the agent holds and the one it would *)
(* load, unless a key was rotated before the last had settled, or the grace *)
(* window ran out.                                                          *)
KeyIsAccepted ==
  machine = "registered" /\ ~hurried /\ ~lapsed => Accepted(held) /\ Accepted(saved)

(* "the new token is delivered over the command channel with a 30-minute    *)
(* grace window for the old one" (README.md): the key the agent still holds *)
(* is accepted until that window ends.                                      *)
OldKeyHasItsGrace == machine = "registered" /\ ~lapsed => Accepted(held)
=============================================================================

----------------------------- MODULE CommitLock -----------------------------
(***************************************************************************)
(* The per-agent commit lock of src/src/workspace/commit-lock.ts: a chain  *)
(* of promises.  Every call of withCommitLock makes a gate, takes the gate *)
(* that was last in line for its agent as the one to wait for, and puts    *)
(* its own in that place; the body runs when the awaited gate is released. *)
(* A call is used once, so a call and its gate are the same value here.    *)
(***************************************************************************)
EXTENDS Naturals, Sequences

CONSTANTS Agents,    \* agent ids: one lock each
          Calls,     \* the calls of withCommitLock
          agentOf,   \* the agent each call locks
          NoCall     \* no gate: the resolved promise, or no entry in the map

ASSUME LockAssumption ==
  /\ agentOf \in [Calls -> Agents]
  /\ NoCall \notin Calls

VARIABLES
  tail,      \* commitTails: the last gate in line, per agent
  awaited,   \* prev: the gate a call waits for
  stage,     \* where each call stands
  line       \* history: the calls of each agent in the order they were made

lockVars == <<tail, awaited, stage, line>>

Stages == {"new", "waiting", "holding", "released"}

LockTypeOK ==
  /\ tail \in [Agents -> Calls \union {NoCall}]
  /\ awaited \in [Calls -> Calls \union {NoCall}]
  /\ stage \in [Calls -> Stages]
  /\ line \in [Agents -> Seq(Calls)]

LockInit ==
  /\ tail = [a \in Agents |-> NoCall]
  /\ awaited = [c \in Calls |-> NoCall]
  /\ stage = [c \in Calls |-> "new"]
  /\ line = [a \in Agents |-> <<>>]

-----------------------------------------------------------------------------
(* Lines 12-17, up to the await: one synchronous step.                      *)
Enter(c) ==
  /\ stage[c] = "new"
  /\ awaited' = [awaited EXCEPT ![c] = tail[agentOf[c]]]
  /\ tail' = [tail EXCEPT ![agentOf[c]] = c]
  /\ stage' = [stage EXCEPT ![c] = "waiting"]
  /\ line' = [line EXCEPT ![agentOf[c]] = Append(@, c)]

Open(g) == g # NoCall => stage[g] = "released"

(* The await returns and fn begins.                                         *)
Acquire(c) ==
  /\ stage[c] = "waiting"
  /\ Open(awaited[c])
  /\ stage' = [stage EXCEPT ![c] = "holding"]
  /\ UNCHANGED <<tail, awaited, line>>

(* The finally block, whether fn returned or threw.  The entry goes only    *)
(* when nobody has queued behind this call.                                 *)
Release(c) ==
  /\ stage[c] = "holding"
  /\ stage' = [stage EXCEPT ![c] = "released"]
  /\ tail' = [tail EXCEPT ![agentOf[c]] = IF @ = c THEN NoCall ELSE @]
  /\ UNCHANGED <<awaited, line>>

LockNext == \E c \in Calls : Enter(c) \/ Acquire(c) \/ Release(c)

LockSpec == LockInit /\ [][LockNext]_lockVars

-----------------------------------------------------------------------------
(* No two bodies of one agent's lock run at once: what keeps two git        *)
(* processes of one workspace off each other's index.lock.                  *)
MutualExclusion ==
  \A c, d \in Calls :
    /\ stage[c] = "holding" /\ stage[d] = "holding"
    /\ agentOf[c] = agentOf[d]
    => c = d

(* The lock is handed out in the order of the calls: a body runs only when  *)
(* every earlier call on that agent has left.                               *)
FirstComeFirstServed ==
  \A a \in Agents : \A i \in DOMAIN line[a] :
    stage[line[a][i]] \in {"holding", "released"}
      => \A j \in 1..(i - 1) : stage[line[a][j]] = "released"

-----------------------------------------------------------------------------
(* The inductive invariant: the gates form one chain per agent, in the      *)
(* order of the calls, and the map's entry is the chain's last gate unless  *)
(* the whole chain is released.                                             *)
Queued(a) == {line[a][i] : i \in DOMAIN line[a]}

LineIsTheCalls ==
  /\ \A c \in Calls : stage[c] # "new" <=> c \in Queued(agentOf[c])
  /\ \A a \in Agents : \A i \in DOMAIN line[a] : agentOf[line[a][i]] = a
  /\ \A a \in Agents : \A i, j \in DOMAIN line[a] :
       line[a][i] = line[a][j] => i = j

ChainInOrder ==
  \A a \in Agents : \A i \in DOMAIN line[a] :
    \/ i > 1 /\ awaited[line[a][i]] = line[a][i - 1]
    \/ /\ awaited[line[a][i]] = NoCall
       /\ \A j \in 1..(i - 1) : stage[line[a][j]] = "released"

TailIsLast ==
  \A a \in Agents :
    \/ line[a] # <<>> /\ tail[a] = line[a][Len(line[a])]
    \/ tail[a] = NoCall /\ \A i \in DOMAIN line[a] : stage[line[a][i]] = "released"

LockInv ==
  /\ LockTypeOK
  /\ LineIsTheCalls
  /\ ChainInOrder
  /\ TailIsLast
  /\ FirstComeFirstServed
=============================================================================

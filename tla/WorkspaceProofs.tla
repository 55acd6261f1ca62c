-------------------------- MODULE WorkspaceProofs --------------------------
(***************************************************************************)
(* First, the commit lock alone: it excludes and is fair in order, for every *)
(* set of agents and of calls.  The invariant follows the chain of gates:   *)
(* each gate waits for the one queued before it, or was queued when every   *)
(* earlier one had been released.                                           *)
(* Then module Workspace: its runs use the lock only as module CommitLock   *)
(* lets them, so what is proved of the lock alone holds of the runs, for any *)
(* agents, any runs and whatever git does.  At the end, what the manager    *)
(* itself writes into the workspaces (module Documents).                    *)
(***************************************************************************)
EXTENDS Workspace, Documents, FiniteSetTheorems, TLAPS

(* The chain is empty before anyone has queued.                             *)
LEMMA LockInitInv == LockInit => LockInv
  BY LockAssumption
  DEF LockInit, LockInv, LockTypeOK, LineIsTheCalls, ChainInOrder, TailIsLast,
      FirstComeFirstServed, Queued, Stages

-----------------------------------------------------------------------------
(* What queueing one call does to the lines: its own grows by that call,    *)
(* no other changes.                                                        *)
LEMMA EnterLine ==
  ASSUME NEW c \in Calls, LockInv, Enter(c)
  PROVE  /\ line'[agentOf[c]] = Append(line[agentOf[c]], c)
         /\ \A a \in Agents : a # agentOf[c] => line'[a] = line[a]
         /\ c \notin Queued(agentOf[c])
         /\ stage' = [stage EXCEPT ![c] = "waiting"]
  BY LockAssumption DEF Enter, LockInv, LockTypeOK, LineIsTheCalls

(* withLock puts its caller at the end of the chain.                        *)
LEMMA EnterInv ==
  ASSUME NEW c \in Calls, LockInv, Enter(c)
  PROVE  LockInv'
<1> DEFINE m == agentOf[c]
           n == Len(line[m])
<1>0. m \in Agents /\ n \in Nat /\ line[m] \in Seq(Calls)
  BY LockAssumption DEF LockInv, LockTypeOK
<1>1. LockTypeOK'
  <2>1. tail' \in [Agents -> Calls \union {NoCall}]
    BY <1>0 DEF Enter, LockInv, LockTypeOK
  <2>2. awaited' \in [Calls -> Calls \union {NoCall}]
    BY <1>0 DEF Enter, LockInv, LockTypeOK
  <2>3. stage' \in [Calls -> Stages]
    BY DEF Enter, LockInv, LockTypeOK, Stages
  <2>4. Append(line[m], c) \in Seq(Calls)
    BY <1>0
  <2>5. line' \in [Agents -> Seq(Calls)]
    BY <1>0, <2>4 DEF Enter, LockInv, LockTypeOK
  <2> QED
    BY <2>1, <2>2, <2>3, <2>5 DEF LockTypeOK
<1>2. /\ line'[m] = Append(line[m], c)
      /\ \A a \in Agents : a # m => line'[a] = line[a]
      /\ c \notin Queued(m)
      /\ stage' = [stage EXCEPT ![c] = "waiting"]
  BY EnterLine
<1>3. /\ DOMAIN line'[m] = 1..(n + 1)
      /\ \A i \in 1..n : line'[m][i] = line[m][i]
      /\ line'[m][n + 1] = c
      /\ DOMAIN line[m] = 1..n
  BY <1>0, <1>2
(* The calls already queued keep their stage and the gate they wait for.    *)
<1>4. \A a \in Agents : \A i \in DOMAIN line[a] :
        /\ line[a][i] \in Calls
        /\ line[a][i] # c
        /\ stage'[line[a][i]] = stage[line[a][i]]
        /\ awaited'[line[a][i]] = awaited[line[a][i]]
  <2> SUFFICES ASSUME NEW a \in Agents, NEW i \in DOMAIN line[a]
               PROVE  /\ line[a][i] \in Calls
                      /\ line[a][i] # c
                      /\ stage'[line[a][i]] = stage[line[a][i]]
                      /\ awaited'[line[a][i]] = awaited[line[a][i]]
    OBVIOUS
  <2>1. line[a][i] \in Calls /\ agentOf[line[a][i]] = a
    BY DEF LockInv, LockTypeOK, LineIsTheCalls
  <2>2. line[a][i] # c
    BY <1>2, <2>1 DEF Queued
  <2> QED
    BY <1>2, <2>1, <2>2 DEF Enter, LockInv, LockTypeOK
<1>5. LineIsTheCalls'
  <2>1. \A a \in Agents : \A i \in DOMAIN line'[a] : agentOf[line'[a][i]] = a
    <3> SUFFICES ASSUME NEW a \in Agents, NEW i \in DOMAIN line'[a]
                 PROVE  agentOf[line'[a][i]] = a
      OBVIOUS
    <3>1. CASE a = m
      BY <1>0, <1>3, <3>1, SMTT(30) DEF LockInv, LineIsTheCalls
    <3>2. CASE a # m
      BY <1>2, <3>2 DEF LockInv, LineIsTheCalls
    <3> QED BY <3>1, <3>2
  <2>2. \A a \in Agents : \A i, j \in DOMAIN line'[a] :
          line'[a][i] = line'[a][j] => i = j
    <3> SUFFICES ASSUME NEW a \in Agents, NEW i \in DOMAIN line'[a],
                        NEW j \in DOMAIN line'[a], line'[a][i] = line'[a][j]
                 PROVE  i = j
      OBVIOUS
    <3>1. CASE a = m
      <4>1. \A k \in 1..n : line[m][k] # c
        BY <1>0, <1>3, <1>4
      <4>2. i \in 1..n + 1 /\ j \in 1..n + 1
        BY <1>3, <3>1
      <4>3. CASE i = n + 1 \/ j = n + 1
        <5>1. line'[m][i] = line'[m][j]
          BY <3>1
        <5>2. ~(i = n + 1 /\ j \in 1..n)
          BY <1>3, <4>1, <5>1
        <5>3. ~(j = n + 1 /\ i \in 1..n)
          BY <1>3, <4>1, <5>1
        <5> QED
          BY <1>0, <4>2, <4>3, <5>2, <5>3
      <4>4. CASE i \in 1..n /\ j \in 1..n
        <5>1. line[m][i] = line[m][j]
          BY <1>3, <3>1, <4>4
        <5> QED
          BY <1>0, <1>3, <4>4, <5>1 DEF LockInv, LineIsTheCalls
      <4> QED
        BY <1>0, <4>2, <4>3, <4>4
    <3>2. CASE a # m
      BY <1>2, <3>2 DEF LockInv, LineIsTheCalls
    <3> QED BY <3>1, <3>2
  <2>3. ASSUME NEW d \in Calls
        PROVE  stage'[d] # "new" <=> d \in Queued(agentOf[d])'
    <3>1. CASE d = c
      BY <1>0, <1>2, <1>3, <3>1 DEF Queued, LockInv, LockTypeOK
    <3>2. CASE d # c /\ agentOf[d] = m
      <4>1. d \in Queued(m) <=> d \in Queued(m)'
        BY <1>0, <1>3, <3>2, SMTT(30) DEF Queued
      <4> QED
        BY <1>2, <3>2, <4>1 DEF LockInv, LockTypeOK, LineIsTheCalls
    <3>3. CASE d # c /\ agentOf[d] # m
      <4>1. agentOf[d] \in Agents
        BY LockAssumption
      <4> QED
        BY <1>2, <3>3, <4>1 DEF Queued, LockInv, LockTypeOK, LineIsTheCalls
    <3> QED BY <3>1, <3>2, <3>3
  <2> QED
    BY <2>1, <2>2, <2>3 DEF LineIsTheCalls
<1>6. ChainInOrder'
  <2> SUFFICES ASSUME NEW a \in Agents, NEW i \in DOMAIN line'[a]
               PROVE  \/ i > 1 /\ awaited'[line'[a][i]] = line'[a][i - 1]
                      \/ /\ awaited'[line'[a][i]] = NoCall
                         /\ \A j \in 1..(i - 1) : stage'[line'[a][j]] = "released"
    BY DEF ChainInOrder
  <2>1. CASE a # m
    <3>1. line'[a] = line[a] /\ line[a] \in Seq(Calls)
      BY <1>2, <2>1 DEF LockInv, LockTypeOK
    <3>2. \A j \in 1..(i - 1) : j \in DOMAIN line[a]
      BY <3>1
    <3> QED
      BY <1>4, <3>1, <3>2 DEF LockInv, ChainInOrder
  <2>2. CASE a = m /\ i \in 1..n
    <3>1. \A j \in 1..i : j \in DOMAIN line[m] /\ line'[m][j] = line[m][j]
      BY <1>0, <1>3, <2>2
    <3>2. i > 1 => i - 1 \in 1..i
      BY <1>0, <2>2
    <3>3. \A j \in 1..(i - 1) : j \in 1..i
      BY <1>0, <2>2
    <3>4. \/ i > 1 /\ awaited[line[m][i]] = line[m][i - 1]
          \/ /\ awaited[line[m][i]] = NoCall
             /\ \A j \in 1..(i - 1) : stage[line[m][j]] = "released"
      BY <1>0, <1>3, <2>2 DEF LockInv, ChainInOrder
    <3>5. i \in 1..i
      BY <2>2
    <3> QED
      BY <1>0, <1>4, <2>2, <3>1, <3>2, <3>3, <3>4, <3>5
  <2>3. CASE a = m /\ i = n + 1
    <3>1. awaited'[c] = tail[m]
      BY DEF Enter, LockInv, LockTypeOK
    <3>2. CASE line[m] # <<>> /\ tail[m] = line[m][n]
      BY <1>0, <1>3, <2>3, <3>1, <3>2
    <3>3. CASE tail[m] = NoCall /\ \A k \in DOMAIN line[m] : stage[line[m][k]] = "released"
      BY <1>0, <1>3, <1>4, <2>3, <3>1, <3>3
    <3> QED
      BY <1>0, <3>2, <3>3 DEF LockInv, TailIsLast
  <2> QED
    BY <1>0, <1>3, <2>1, <2>2, <2>3
<1>7. TailIsLast'
  <2> SUFFICES ASSUME NEW a \in Agents
               PROVE  \/ line'[a] # <<>> /\ tail'[a] = line'[a][Len(line'[a])]
                      \/ /\ tail'[a] = NoCall
                         /\ \A i \in DOMAIN line'[a] : stage'[line'[a][i]] = "released"
    BY DEF TailIsLast
  <2>1. CASE a = m
    <3>1. tail'[m] = c
      BY <1>0 DEF Enter, LockInv, LockTypeOK
    <3> QED
      BY <1>0, <1>2, <1>3, <2>1, <3>1
  <2>2. CASE a # m
    <3>1. tail'[a] = tail[a] /\ line'[a] = line[a]
      BY <1>2, <2>2 DEF Enter, LockInv, LockTypeOK
    <3> QED
      BY <1>4, <3>1 DEF LockInv, TailIsLast
  <2> QED BY <2>1, <2>2
<1>8. FirstComeFirstServed'
  <2> SUFFICES ASSUME NEW a \in Agents, NEW i \in DOMAIN line'[a],
                      stage'[line'[a][i]] \in {"holding", "released"},
                      NEW j \in 1..(i - 1)
               PROVE  stage'[line'[a][j]] = "released"
    BY DEF FirstComeFirstServed
  <2>1. CASE a # m
    <3>1. line'[a] = line[a] /\ line[a] \in Seq(Calls)
      BY <1>2, <2>1 DEF LockInv, LockTypeOK
    <3>2. j \in DOMAIN line[a]
      BY <3>1
    <3> QED
      BY <1>4, <3>1, <3>2 DEF LockInv, FirstComeFirstServed
  <2>2. CASE a = m
    <3>1. i # n + 1
      BY <1>0, <1>2, <1>3, <2>2 DEF LockInv, LockTypeOK
    <3>2. i \in DOMAIN line[m] /\ j \in DOMAIN line[m]
      <4>1. i \in 1..n + 1 /\ DOMAIN line[m] = 1..n
        BY <1>3, <2>2
      <4>2. i \in 1..n
        BY <1>0, <3>1, <4>1
      <4> QED
        BY <1>0, <4>1, <4>2
    <3>3. line'[m][i] = line[m][i] /\ line'[m][j] = line[m][j]
      BY <1>3, <3>2
    <3>4. stage[line[m][i]] \in {"holding", "released"}
      BY <1>0, <1>4, <2>2, <3>2, <3>3
    <3>5. stage[line[m][j]] = "released"
      BY <1>0, <3>2, <3>4 DEF LockInv, FirstComeFirstServed
    <3> QED
      BY <1>0, <1>4, <2>2, <3>2, <3>3, <3>5
  <2> QED BY <2>1, <2>2
<1> QED
  BY <1>1, <1>5, <1>6, <1>7, <1>8 DEF LockInv

-----------------------------------------------------------------------------
(* The two steps of a call after it has queued touch no line and no gate.   *)
LEMMA AcquireInv ==
  ASSUME NEW c \in Calls, LockInv, Acquire(c)
  PROVE  LockInv'
<1>1. /\ stage' = [stage EXCEPT ![c] = "holding"]
      /\ UNCHANGED <<tail, awaited, line>>
      /\ stage[c] = "waiting"
  BY DEF Acquire
<1>2. LockTypeOK'
  BY <1>1 DEF LockInv, LockTypeOK, Stages
<1>3. \A d \in Calls : stage[d] = "released" => stage'[d] = "released"
  BY <1>1 DEF LockInv, LockTypeOK
<1>4. LineIsTheCalls'
  <2>1. \A d \in Calls : stage'[d] # "new" <=> stage[d] # "new"
    BY <1>1 DEF LockInv, LockTypeOK
  <2>2. \A d \in Calls : d \in Queued(agentOf[d])' <=> d \in Queued(agentOf[d])
    BY <1>1 DEF Queued
  <2> QED
    BY <1>1, <2>1, <2>2 DEF LockInv, LineIsTheCalls
<1>5. \A a \in Agents : \A i \in DOMAIN line[a] :
        line[a][i] \in Calls /\ \A j \in 1..(i - 1) : line[a][j] \in Calls
  BY DEF LockInv, LockTypeOK
<1>6. ChainInOrder'
  BY <1>1, <1>3, <1>5 DEF LockInv, ChainInOrder
<1>7. TailIsLast'
  BY <1>1, <1>3, <1>5 DEF LockInv, TailIsLast
<1>8. FirstComeFirstServed'
  <2> SUFFICES ASSUME NEW a \in Agents, NEW i \in DOMAIN line[a],
                      stage'[line[a][i]] \in {"holding", "released"},
                      NEW j \in 1..(i - 1)
               PROVE  stage'[line[a][j]] = "released"
    BY <1>1 DEF FirstComeFirstServed
  <2>1. CASE line[a][i] # c
    <3>1. stage[line[a][i]] \in {"holding", "released"}
      BY <1>1, <1>5, <2>1 DEF LockInv, LockTypeOK
    <3> QED
      BY <1>3, <1>5, <3>1 DEF LockInv, FirstComeFirstServed
  <2>2. CASE line[a][i] = c
    <3>1. Open(awaited[c])
      BY DEF Acquire
    <3>2. CASE i > 1 /\ awaited[c] = line[a][i - 1]
      <4>1. i - 1 \in DOMAIN line[a] /\ line[a][i - 1] \in Calls
        BY <3>2 DEF LockInv, LockTypeOK
      <4>2. stage[line[a][i - 1]] = "released"
        BY <3>1, <3>2, <4>1, LockAssumption DEF Open
      <4>3. \A k \in 1..((i - 1) - 1) : stage[line[a][k]] = "released"
        BY <4>1, <4>2 DEF LockInv, FirstComeFirstServed
      <4>4. i \in Nat
        BY DEF LockInv, LockTypeOK
      <4>5. j = i - 1 \/ j \in 1..((i - 1) - 1)
        BY <4>4
      <4>6. stage[line[a][j]] = "released"
        BY <4>2, <4>3, <4>5
      <4> QED
        BY <1>3, <1>5, <4>6
    <3>3. CASE \A k \in 1..(i - 1) : stage[line[a][k]] = "released"
      BY <1>3, <1>5, <3>3
    <3> QED
      BY <2>2, <3>2, <3>3 DEF LockInv, ChainInOrder
  <2> QED BY <2>1, <2>2
<1> QED
  BY <1>2, <1>4, <1>6, <1>7, <1>8 DEF LockInv

(* The head of the chain leaves it, and the next, if any, becomes the head. *)
LEMMA ReleaseInv ==
  ASSUME NEW c \in Calls, LockInv, Release(c)
  PROVE  LockInv'
<1>1. /\ stage' = [stage EXCEPT ![c] = "released"]
      /\ tail' = [tail EXCEPT ![agentOf[c]] = IF @ = c THEN NoCall ELSE @]
      /\ UNCHANGED <<awaited, line>>
      /\ stage[c] = "holding"
  BY DEF Release
<1>2. LockTypeOK'
  BY <1>1, LockAssumption DEF LockInv, LockTypeOK, Stages
<1>3. \A d \in Calls : /\ stage[d] = "released" => stage'[d] = "released"
                       /\ d # c => stage'[d] = stage[d]
  BY <1>1 DEF LockInv, LockTypeOK
<1>4. LineIsTheCalls'
  <2>1. \A d \in Calls : stage'[d] # "new" <=> stage[d] # "new"
    BY <1>1 DEF LockInv, LockTypeOK
  <2>2. \A d \in Calls : d \in Queued(agentOf[d])' <=> d \in Queued(agentOf[d])
    BY <1>1 DEF Queued
  <2> QED
    BY <1>1, <2>1, <2>2 DEF LockInv, LineIsTheCalls
<1>5. \A a \in Agents : \A i \in DOMAIN line[a] :
        line[a][i] \in Calls /\ \A j \in 1..(i - 1) : line[a][j] \in Calls
  BY DEF LockInv, LockTypeOK
<1>6. ChainInOrder'
  BY <1>1, <1>3, <1>5 DEF LockInv, ChainInOrder
<1>7. FirstComeFirstServed'
  <2> SUFFICES ASSUME NEW a \in Agents, NEW i \in DOMAIN line[a],
                      stage'[line[a][i]] \in {"holding", "released"},
                      NEW j \in 1..(i - 1)
               PROVE  stage'[line[a][j]] = "released"
    BY <1>1 DEF FirstComeFirstServed
  <2>1. stage[line[a][i]] \in {"holding", "released"}
    BY <1>1, <1>3, <1>5
  <2>2. stage[line[a][j]] = "released"
    BY <2>1 DEF LockInv, FirstComeFirstServed
  <2>3. line[a][j] \in Calls
    BY <1>5
  <2> QED
    BY <1>3, <2>2, <2>3
<1>8. TailIsLast'
  <2> SUFFICES ASSUME NEW a \in Agents
               PROVE  \/ line[a] # <<>> /\ tail'[a] = line[a][Len(line[a])]
                      \/ /\ tail'[a] = NoCall
                         /\ \A i \in DOMAIN line[a] : stage'[line[a][i]] = "released"
    BY <1>1 DEF TailIsLast
  <2>0. line[a] \in Seq(Calls) /\ Len(line[a]) \in Nat /\ DOMAIN line[a] = 1..Len(line[a])
    BY DEF LockInv, LockTypeOK
  <2>1. CASE tail[a] = NoCall /\ \A i \in DOMAIN line[a] : stage[line[a][i]] = "released"
    <3>1. tail'[a] = NoCall
      BY <1>1, <2>1, LockAssumption DEF LockInv, LockTypeOK
    <3>2. \A i \in DOMAIN line[a] : stage'[line[a][i]] = "released"
      BY <1>3, <1>5, <2>1
    <3> QED
      BY <3>1, <3>2
  <2>2. CASE line[a] # <<>> /\ tail[a] = line[a][Len(line[a])] /\ tail[a] # c
    <3>1. tail'[a] = tail[a]
      BY <1>1, <2>2, LockAssumption DEF LockInv, LockTypeOK
    <3> QED
      BY <2>2, <3>1
  (* The last in line leaves: every earlier call has left before it.        *)
  <2>3. CASE line[a] # <<>> /\ tail[a] = line[a][Len(line[a])] /\ tail[a] = c
    <3> DEFINE n == Len(line[a])
    <3>1. n \in DOMAIN line[a] /\ line[a][n] = c
      BY <2>0, <2>3
    <3>2. agentOf[c] = a
      BY <3>1 DEF LockInv, LineIsTheCalls
    <3>3. tail'[a] = NoCall
      BY <1>1, <2>3, <3>2 DEF LockInv, LockTypeOK
    <3>4. \A j \in 1..(n - 1) : stage[line[a][j]] = "released"
      BY <1>1, <3>1 DEF LockInv, FirstComeFirstServed
    <3>5. stage'[c] = "released"
      BY <1>1 DEF LockInv, LockTypeOK
    <3>6. \A i \in DOMAIN line[a] : i = n \/ i \in 1..(n - 1)
      BY <2>0
    <3>7. ASSUME NEW i \in DOMAIN line[a]
          PROVE  stage'[line[a][i]] = "released"
      <4>1. CASE i = n
        BY <3>1, <3>5, <4>1
      <4>2. CASE i \in 1..(n - 1)
        <5>1. stage[line[a][i]] = "released" /\ line[a][i] \in Calls
          BY <1>5, <3>4, <4>2
        <5> QED
          BY <1>3, <5>1
      <4> QED
        BY <3>6, <4>1, <4>2
    <3> QED
      BY <3>3, <3>7
  <2> QED
    BY <2>1, <2>2, <2>3 DEF LockInv, TailIsLast
<1> QED
  BY <1>2, <1>4, <1>6, <1>7, <1>8 DEF LockInv

-----------------------------------------------------------------------------
(* A step that leaves the lock alone.                                       *)
LEMMA LockStutterInv == LockInv /\ UNCHANGED lockVars => LockInv'
  BY DEF lockVars, LockInv, LockTypeOK, LineIsTheCalls, ChainInOrder, TailIsLast,
     FirstComeFirstServed, Queued

(* Two holders of one agent's lock would stand in one line, and the later   *)
(* of them would have had to wait for the earlier one's release.            *)
LEMMA LockInvExcludes == LockInv => MutualExclusion
<1> SUFFICES ASSUME LockInv, NEW c \in Calls, NEW d \in Calls,
                    stage[c] = "holding", stage[d] = "holding",
                    agentOf[c] = agentOf[d]
             PROVE  c = d
  BY DEF MutualExclusion
<1> DEFINE a == agentOf[c]
<1>1. a \in Agents /\ line[a] \in Seq(Calls)
  BY LockAssumption DEF LockInv, LockTypeOK
<1>2. PICK i \in DOMAIN line[a] : line[a][i] = c
  BY DEF LockInv, LineIsTheCalls, Queued
<1>3. PICK j \in DOMAIN line[a] : line[a][j] = d
  BY DEF LockInv, LineIsTheCalls, Queued
<1>4. i \in Nat /\ j \in Nat /\ i >= 1 /\ j >= 1
  BY <1>1, <1>2, <1>3
<1>5. ~(i < j)
  <2> SUFFICES ASSUME i < j PROVE FALSE
    OBVIOUS
  <2>1. i \in 1..(j - 1)
    BY <1>4
  <2> QED
    BY <1>1, <1>2, <1>3, <2>1 DEF LockInv, FirstComeFirstServed
<1>6. ~(j < i)
  <2> SUFFICES ASSUME j < i PROVE FALSE
    OBVIOUS
  <2>1. j \in 1..(i - 1)
    BY <1>4
  <2> QED
    BY <1>1, <1>2, <1>3, <2>1 DEF LockInv, FirstComeFirstServed
<1> QED
  BY <1>2, <1>3, <1>4, <1>5, <1>6

(* The chain of gates is always whole: the invariant behind both theorems.  *)
THEOREM LockInvariant == LockSpec => []LockInv
<1>1. LockInv /\ [LockNext]_lockVars => LockInv'
  BY EnterInv, AcquireInv, ReleaseInv, LockStutterInv DEF LockNext
<1> QED
  BY LockInitInv, <1>1, PTL DEF LockSpec

(* Bodies of one agent's lock never overlap, whatever the calls.            *)
THEOREM LockExcludes == LockSpec => []MutualExclusion
  BY LockInvariant, LockInvExcludes, PTL

(* The lock serves an agent's calls in the order they were made.            *)
THEOREM LockServesInOrder == LockSpec => []FirstComeFirstServed
<1>1. LockInv => FirstComeFirstServed
  BY DEF LockInv
<1> QED
  BY LockInvariant, <1>1, PTL

-----------------------------------------------------------------------------
(* The runs of module Workspace.                                            *)

(* The two calls of a run are calls of the lock.                            *)
LEMMA RunCalls == \A r \in Runs : PreCall(r) \in Calls /\ PostCall(r) \in Calls
BY WorkspaceAssumption DEF WorkspaceAssumption, PreCall, PostCall

(* Every step of a run or of the operator is a step of the lock, or leaves  *)
(* it alone.                                                                *)
LEMMA LockStep == [Next]_vars => [LockNext]_lockVars
<1>. SUFFICES ASSUME [Next]_vars PROVE [LockNext]_lockVars
  OBVIOUS
<1>1. ASSUME NEW r \in Runs, RunStep(r)
      PROVE  [LockNext]_lockVars
  <2>1. CASE Start(r) \/ EndTurn(r)
    BY <2>1, RunCalls DEF Start, EndTurn, LockNext
  <2>2. CASE TakeLock(r)
    BY <2>2, RunCalls DEF TakeLock, LockNext
  <2>3. CASE PreLook(r) \/ PreCommit(r) \/ PreCommitFails(r)
    BY <2>3, RunCalls DEF PreLook, PreCommit, PreCommitFails, LockNext
  <2>4. CASE PostLook(r) \/ PostCommit(r) \/ PostCommitFails(r)
    BY <2>4, RunCalls DEF PostLook, PostCommit, PostCommitFails, LockNext
  <2>5. CASE ReadBaseline(r) \/ CompareHead(r)
    BY <2>5 DEF ReadBaseline, CompareHead
  <2>. QED  BY <1>1, <2>1, <2>2, <2>3, <2>4, <2>5 DEF RunStep
<1>2. ASSUME NEW r \in Runs, Edit(r)
      PROVE  [LockNext]_lockVars
  BY <1>2 DEF Edit
<1>3. ASSUME NEW a \in Agents, OperatorEdit(a)
      PROVE  [LockNext]_lockVars
  BY <1>3 DEF OperatorEdit
<1>4. CASE UNCHANGED vars
  BY <1>4 DEF vars
<1>. QED  BY <1>1, <1>2, <1>3, <1>4 DEF Next

(* The runs implement the lock: snapshotBefore and runAgent's closing step  *)
(* enter, hold and leave it as withCommitLock does.                         *)
THEOREM RunsUseTheLock == Spec => LockSpec
<1>1. Init => LockInit
  BY DEF Init
<1>. QED  BY <1>1, LockStep, PTL DEF Spec, LockSpec

(* Two runs of one agent never have git at work in its workspace at once.   *)
THEOREM RunsExclude == Spec => []MutualExclusion
BY RunsUseTheLock, LockExcludes, PTL

(* Their commits are made in the order in which the runs asked for them.    *)
THEOREM RunsServedInOrder == Spec => []FirstComeFirstServed
BY RunsUseTheLock, LockServesInOrder, PTL
-----------------------------------------------------------------------------
(* The repository's half of the type invariant.                             *)
RepoTypeOK ==
  /\ dirty \in [Agents -> SUBSET Writers]
  /\ log \in [Agents -> Seq([by : Runs, edits : SUBSET Writers])]
  /\ phase \in [Runs -> Phases]
  /\ baseline \in [Runs -> [form : {"full", "abbreviated", "null"}, at : Nat]]
  /\ conflict \in [Runs -> BOOLEAN]
  /\ blind \subseteq Runs
  /\ skipped \subseteq Runs

(* A run works in the workspace of its agent.                               *)
LEMMA RunAgent == \A r \in Runs : workspaceOf(r) \in Agents
BY RunCalls, LockAssumption DEF LockAssumption, workspaceOf

(* git's commit empties the workspace and is one entry more in the log.     *)
LEMMA CommitTypes ==
  ASSUME RepoTypeOK, NEW r \in Runs, CommitAll(r)
  PROVE  /\ dirty' \in [Agents -> SUBSET Writers]
         /\ log' \in [Agents -> Seq([by : Runs, edits : SUBSET Writers])]
<1>. DEFINE Entry == [by : Runs, edits : SUBSET Writers]
            entry == [by |-> r, edits |-> dirty[workspaceOf(r)]]
<1>1. dirty' \in [Agents -> SUBSET Writers]
  BY DEF CommitAll, RepoTypeOK
<1>2. entry \in Entry
  BY RunAgent DEF RepoTypeOK
<1>3. log' = [log EXCEPT ![workspaceOf(r)] = Append(@, entry)] /\ log \in [Agents -> Seq(Entry)]
  BY DEF CommitAll, RepoTypeOK
<1>. HIDE DEF Entry, entry
<1>4. log' \in [Agents -> Seq(Entry)]
  BY <1>2, <1>3, RunAgent
<1>. QED  BY <1>1, <1>4 DEF Entry

(* HEAD, and the hash git prints for the next commit, are hashes.           *)
LEMMA Hashes ==
  ASSUME RepoTypeOK, NEW r \in Runs
  PROVE  /\ HeadOf(workspaceOf(r)) \in [form : {"full", "abbreviated", "null"}, at : Nat]
         /\ PrintedHash(Len(log[workspaceOf(r)]) + 1)
              \in [form : {"full", "abbreviated", "null"}, at : Nat]
<1>1. Len(log[workspaceOf(r)]) \in Nat
  BY RunAgent DEF RepoTypeOK
<1>. QED  BY <1>1 DEF HeadOf, Hash, PrintedHash

(* Every step keeps the types of the repository's half.                     *)
LEMMA RepoTypeStep == RepoTypeOK /\ [Next]_vars => RepoTypeOK'
<1>. SUFFICES ASSUME RepoTypeOK, [Next]_vars PROVE RepoTypeOK'
  OBVIOUS
<1>. USE DEF repoVars
<1>1. ASSUME NEW r \in Runs, RunStep(r)
      PROVE  RepoTypeOK'
  <2>1. CASE PreCommit(r)
    BY <2>1, CommitTypes, Hashes DEF PreCommit, RepoTypeOK, Phases
  <2>2. CASE PostCommit(r)
    BY <2>2, CommitTypes DEF PostCommit, RepoTypeOK, Phases
  <2>3. CASE ReadBaseline(r)
    BY <2>3, Hashes DEF ReadBaseline, RepoTypeOK, Phases
  <2>4. CASE CompareHead(r)
    <3>1. (baseline[r] # NoHash /\ baseline[r] # HeadOf(workspaceOf(r))) \in BOOLEAN
      OBVIOUS
    <3>. QED  BY <2>4, <3>1 DEF CompareHead, RepoTypeOK, Phases
  <2>5. CASE Start(r) \/ EndTurn(r) \/ PreLook(r) \/ PreCommitFails(r) \/ PostLook(r)
    BY <2>5 DEF Start, EndTurn, PreLook, PreCommitFails, PostLook, RepoTypeOK, Phases
  <2>6. CASE PostCommitFails(r)
    BY <2>6 DEF PostCommitFails, RepoTypeOK, Phases
  <2>7. CASE TakeLock(r)
    BY <2>7 DEF TakeLock, RepoTypeOK
  <2>. QED  BY <1>1, <2>1, <2>2, <2>3, <2>4, <2>5, <2>6, <2>7 DEF RunStep
<1>2. ASSUME NEW r \in Runs, Edit(r)
      PROVE  RepoTypeOK'
  BY <1>2 DEF Edit, RepoTypeOK, Writers
<1>3. ASSUME NEW a \in Agents, OperatorEdit(a)
      PROVE  RepoTypeOK'
  BY <1>3 DEF OperatorEdit, RepoTypeOK, Writers
<1>4. CASE UNCHANGED vars
  BY <1>4 DEF vars, RepoTypeOK
<1>. QED  BY <1>1, <1>2, <1>3, <1>4 DEF Next

(* A closed run leaves nothing uncommitted behind, and nothing of it comes  *)
(* back: a run edits only while it is driven.                               *)
LEMMA WorkStep == RepoTypeOK /\ WorkIsCommitted /\ [Next]_vars => WorkIsCommitted'
<1>. SUFFICES ASSUME RepoTypeOK, WorkIsCommitted, [Next]_vars,
                     NEW r \in Runs, phase'[r] = "closed", r \notin skipped'
              PROVE  r \notin dirty'[workspaceOf(r)]
  BY DEF WorkIsCommitted
<1>. USE RunAgent DEF RepoTypeOK, WorkIsCommitted, repoVars
<1>1. ASSUME NEW s \in Runs, RunStep(s)
      PROVE  r \notin dirty'[workspaceOf(r)]
  <2>1. CASE PreCommit(s) \/ PostCommit(s)
    BY <2>1 DEF PreCommit, PostCommit, CommitAll
  <2>2. CASE PostLook(s) \/ PostCommitFails(s)
    BY <2>2 DEF PostLook, PostCommitFails
  <2>3. CASE Start(s) \/ TakeLock(s) \/ PreLook(s) \/ PreCommitFails(s) \/ ReadBaseline(s)
             \/ EndTurn(s) \/ CompareHead(s)
    BY <2>3 DEF Start, TakeLock, PreLook, PreCommitFails, ReadBaseline, EndTurn, CompareHead
  <2>. QED  BY <1>1, <2>1, <2>2, <2>3 DEF RunStep
<1>2. ASSUME NEW s \in Runs, Edit(s)
      PROVE  r \notin dirty'[workspaceOf(r)]
  BY <1>2 DEF Edit
<1>3. ASSUME NEW a \in Agents, OperatorEdit(a)
      PROVE  r \notin dirty'[workspaceOf(r)]
  BY <1>3, WorkspaceAssumption DEF OperatorEdit, WorkspaceAssumption
<1>4. CASE UNCHANGED vars
  BY <1>4 DEF vars
<1>. QED  BY <1>1, <1>2, <1>3, <1>4 DEF Next

(* The repository's half is well typed in every state.                      *)
LEMMA RepoTypeInvariant == Spec => []RepoTypeOK
<1>1. Init => RepoTypeOK
  BY DEF Init, RepoTypeOK, Writers, Phases, NoHash
<1>. QED  BY <1>1, RepoTypeStep, PTL DEF Spec

(* The type invariant, the lock's part from the theorem about the lock.     *)
THEOREM WorkspaceTypeOK == Spec => []TypeOK
<1>1. LockInv /\ RepoTypeOK => TypeOK
  BY DEF LockInv, RepoTypeOK, TypeOK
<1>. QED  BY <1>1, RepoTypeInvariant, RunsUseTheLock, LockInvariant, PTL

(* No work is lost: once a run has closed, its changes are in some commit,  *)
(* unless git refused the closing commit (snapshotAfter and runAgent's      *)
(* catch around it).                                                        *)
THEOREM WorkIsNeverLost == Spec => []WorkIsCommitted
<1>1. Init => WorkIsCommitted
  BY DEF Init, WorkIsCommitted
<1>. QED  BY <1>1, WorkStep, RepoTypeInvariant, PTL DEF Spec
-----------------------------------------------------------------------------
(* What the conflict note is right about.  A run that looks at the          *)
(* workspace to close it holds the lock, so nobody commits any more; and    *)
(* its changes are in no commit before the one it took as its baseline.     *)
Early == {"new", "pre", "preAdd", "base"}

HoldsTheLock(r) ==
  /\ phase[r] = "preAdd" => stage[PreCall(r)] = "holding"
  /\ phase[r] \in {"postLook", "postAdd"} => stage[PostCall(r)] = "holding"

BaselineFits(r) ==
  /\ phase[r] \in Early =>
       /\ r \notin dirty[workspaceOf(r)]
       /\ \A k \in DOMAIN log[workspaceOf(r)] : r \notin log[workspaceOf(r)][k].edits
  /\ baseline[r].form = "full" =>
       /\ phase[r] \notin Early /\ baseline[r].at <= Len(log[workspaceOf(r)])
       /\ \A k \in DOMAIN log[workspaceOf(r)] :
            r \in log[workspaceOf(r)][k].edits => k > baseline[r].at
  /\ phase[r] \notin Early /\ r \notin blind => baseline[r].form # "null"

ConflictInv ==
  /\ \A r \in Runs : HoldsTheLock(r) /\ BaselineFits(r)
  /\ CarriedOffIsReported

(* The calls of the runs are all different.                                 *)
LEMMA CallsDiffer ==
  \A r, s \in Runs : /\ PreCall(r) # PostCall(s)
                     /\ PreCall(r) = PreCall(s) => r = s
                     /\ PostCall(r) = PostCall(s) => r = s
BY DEF PreCall, PostCall

LEMMA HoldStep ==
  ASSUME RepoTypeOK, LockTypeOK, [Next]_vars, NEW r \in Runs, HoldsTheLock(r)
  PROVE  HoldsTheLock(r)'
<1>. USE RunCalls, CallsDiffer DEF RepoTypeOK, LockTypeOK, HoldsTheLock
<1>1. ASSUME NEW s \in Runs, RunStep(s)
      PROVE  HoldsTheLock(r)'
  <2>1. CASE Start(s) \/ EndTurn(s)
    BY <2>1 DEF Start, EndTurn, Enter
  <2>2. CASE TakeLock(s)
    BY <2>2 DEF TakeLock, Acquire, repoVars
  <2>3. CASE PreLook(s)
    BY <2>3 DEF PreLook, Release, lockVars
  <2>4. CASE PreCommit(s) \/ PreCommitFails(s)
    BY <2>4 DEF PreCommit, PreCommitFails, Release
  <2>5. CASE ReadBaseline(s) \/ CompareHead(s)
    BY <2>5 DEF ReadBaseline, CompareHead, lockVars
  <2>6. CASE PostLook(s)
    BY <2>6 DEF PostLook, Release, lockVars
  <2>7. CASE PostCommit(s) \/ PostCommitFails(s)
    BY <2>7 DEF PostCommit, PostCommitFails, Release
  <2>. QED  BY <1>1, <2>1, <2>2, <2>3, <2>4, <2>5, <2>6, <2>7 DEF RunStep
<1>2. ASSUME NEW s \in Runs, Edit(s)
      PROVE  HoldsTheLock(r)'
  BY <1>2 DEF Edit, lockVars
<1>3. ASSUME NEW a \in Agents, OperatorEdit(a)
      PROVE  HoldsTheLock(r)'
  BY <1>3 DEF OperatorEdit, lockVars
<1>4. CASE UNCHANGED vars
  BY <1>4 DEF vars, lockVars, repoVars
<1>. QED  BY <1>1, <1>2, <1>3, <1>4 DEF Next

(* What a commit adds to the log of an agent: one entry of the run that     *)
(* makes it, with all that is dirty.                                        *)
LEMMA CommitEffect ==
  ASSUME RepoTypeOK, NEW s \in Runs, NEW r \in Runs, CommitAll(s)
  PROVE  LET a == workspaceOf(r) IN
         /\ Len(log[a]) \in Nat /\ Len(log'[a]) \in Nat /\ Len(log'[a]) >= Len(log[a])
         /\ DOMAIN log[a] = 1..Len(log[a]) /\ DOMAIN log'[a] = 1..Len(log'[a])
         /\ \A k \in DOMAIN log[a] : k \in DOMAIN log'[a] /\ log'[a][k] = log[a][k]
         /\ \A k \in DOMAIN log'[a] \ DOMAIN log[a] :
              /\ k = Len(log[a]) + 1 /\ a = workspaceOf(s)
              /\ log'[a][k].by = s /\ log'[a][k].edits = dirty[a]
         /\ a = workspaceOf(s) => dirty'[a] = {}
         /\ a # workspaceOf(s) => dirty'[a] = dirty[a]
<1>. DEFINE a == workspaceOf(r)
            b == workspaceOf(s)
            Entry == [by : Runs, edits : SUBSET Writers]
            entry == [by |-> s, edits |-> dirty[b]]
<1>1. a \in Agents /\ b \in Agents /\ log \in [Agents -> Seq(Entry)]
      /\ dirty \in [Agents -> SUBSET Writers]
  BY RunAgent DEF RepoTypeOK
<1>2. log' = [log EXCEPT ![b] = Append(@, entry)] /\ dirty' = [dirty EXCEPT ![b] = {}]
  BY DEF CommitAll
<1>3. entry \in Entry /\ entry.by = s /\ entry.edits = dirty[b]
  BY <1>1
<1>. HIDE DEF a, b, Entry, entry
<1>4. CASE a = b
  <2>1. log'[a] = Append(log[a], entry) /\ log[a] \in Seq(Entry)
    BY <1>1, <1>2, <1>4
  <2>2. Len(log[a]) \in Nat /\ Len(log'[a]) = Len(log[a]) + 1
        /\ DOMAIN log[a] = 1..Len(log[a]) /\ DOMAIN log'[a] = 1..(Len(log[a]) + 1)
        /\ log'[a][Len(log[a]) + 1] = entry
        /\ \A k \in 1..Len(log[a]) : log'[a][k] = log[a][k]
    BY <1>3, <2>1
  <2>. QED  BY <1>1, <1>2, <1>3, <1>4, <2>2 DEF a, b
<1>5. CASE a # b
  <2>1. log'[a] = log[a] /\ log[a] \in Seq(Entry) /\ dirty'[a] = dirty[a]
    BY <1>1, <1>2, <1>5
  <2>. QED  BY <1>5, <2>1 DEF a, b
<1>. QED  BY <1>4, <1>5

LEMMA BaselineStep ==
  ASSUME RepoTypeOK, [Next]_vars, NEW r \in Runs, BaselineFits(r)
  PROVE  BaselineFits(r)'
<1>. DEFINE a == workspaceOf(r)
<1>. a \in Agents /\ Len(log[a]) \in Nat /\ DOMAIN log[a] = 1..Len(log[a])
     /\ baseline[r].at \in Nat
  BY RunAgent DEF RepoTypeOK
<1>0. ASSUME NEW s \in Runs, CommitAll(s)
      PROVE  /\ Len(log'[a]) \in Nat /\ Len(log'[a]) >= Len(log[a])
             /\ DOMAIN log'[a] = 1..Len(log'[a])
             /\ \A k \in DOMAIN log[a] : k \in DOMAIN log'[a] /\ log'[a][k] = log[a][k]
             /\ \A k \in DOMAIN log'[a] \ DOMAIN log[a] :
                  k = Len(log[a]) + 1 /\ log'[a][k].edits = dirty[a]
             /\ dirty'[a] \in {{}, dirty[a]}
  <2>. HIDE DEF a
  <2>. QED  BY <1>0, CommitEffect DEF a
<1>. USE RunAgent DEF RepoTypeOK, BaselineFits, Early
<1>1. ASSUME NEW s \in Runs, RunStep(s)
      PROVE  BaselineFits(r)'
  <2>1. CASE Start(s) \/ PreLook(s) \/ PreCommitFails(s) \/ EndTurn(s)
    BY <2>1 DEF Start, PreLook, PreCommitFails, EndTurn
  <2>2. CASE TakeLock(s)
    BY <2>2 DEF TakeLock, repoVars
  <2>3. CASE PostLook(s) \/ PostCommitFails(s)
    BY <2>3 DEF PostLook, PostCommitFails
  <2>4. CASE CompareHead(s)
    BY <2>4 DEF CompareHead
  <2>5. CASE ReadBaseline(s)
    <3>1. CASE s # r
      BY <2>5, <3>1 DEF ReadBaseline
    <3>2. CASE s = r /\ baseline' = baseline /\ r \in blind'
      BY <2>5, <3>2 DEF ReadBaseline
    <3>3. CASE s = r /\ baseline' = [baseline EXCEPT ![r] = HeadOf(a)]
      <4>1. baseline'[r].form = "full" /\ baseline'[r].at = Len(log[a])
            /\ phase'[r] = "driving" /\ UNCHANGED <<log, dirty>> /\ phase[r] = "base"
        BY <2>5, <3>3 DEF ReadBaseline, HeadOf, Hash
      <4>. QED  BY <4>1
    <3>. QED  BY <2>5, <3>1, <3>2, <3>3 DEF ReadBaseline
  <2>6. CASE PreCommit(s) \/ PostCommit(s)
    <3>1. CommitAll(s)
      BY <2>6 DEF PreCommit, PostCommit
    <3>2. blind' = blind /\ phase' \in {[phase EXCEPT ![s] = "driving"], [phase EXCEPT ![s] = "closed"]}
          /\ phase[s] \in {"preAdd", "postAdd"}
      BY <2>6 DEF PreCommit, PostCommit
    <3>3. \/ baseline'[r] = baseline[r] /\ (s = r => phase[r] \notin Early)
          \/ s = r /\ baseline'[r].form = "abbreviated"
      BY <2>6 DEF PreCommit, PostCommit, PrintedHash
    <3>4. phase'[r] \in Early => phase[r] \in Early /\ s # r
      BY <3>2
    <3>. DEFINE old == log[a]
                new == log'[a]
    <3>5. /\ Len(new) \in Nat /\ Len(new) >= Len(old)
          /\ DOMAIN new = 1..Len(new)
          /\ \A k \in DOMAIN old : k \in DOMAIN new /\ new[k] = old[k]
          /\ \A k \in DOMAIN new \ DOMAIN old : k = Len(old) + 1 /\ new[k].edits = dirty[a]
          /\ dirty'[a] \in {{}, dirty[a]}
      BY <1>0, <3>1
    <3>6. phase'[r] \in Early =>
            r \notin dirty'[a] /\ \A k \in DOMAIN new : r \notin new[k].edits
      BY <3>4, <3>5
    <3>7. baseline'[r].form = "full" =>
            /\ phase'[r] \notin Early /\ baseline'[r].at <= Len(new)
            /\ \A k \in DOMAIN new : r \in new[k].edits => k > baseline'[r].at
      <4>. SUFFICES ASSUME baseline'[r].form = "full"
                    PROVE  /\ phase'[r] \notin Early /\ baseline'[r].at <= Len(new)
                           /\ \A k \in DOMAIN new : r \in new[k].edits => k > baseline'[r].at
        OBVIOUS
      <4>1. baseline'[r] = baseline[r] /\ phase[r] \notin Early
            /\ baseline[r].at <= Len(old)
            /\ \A k \in DOMAIN old : r \in old[k].edits => k > baseline[r].at
        BY <3>3
      <4>. HIDE DEF old, new
      <4>2. baseline'[r].at <= Len(new)
        BY <3>5, <4>1 DEF old
      <4>3. ASSUME NEW k \in DOMAIN new, r \in new[k].edits
            PROVE  k > baseline'[r].at
        <5>1. CASE k \in DOMAIN old
          BY <3>5, <4>1, <4>3, <5>1
        <5>2. CASE k \notin DOMAIN old
          BY <3>5, <4>1, <4>3, <5>2 DEF old
        <5>. QED  BY <5>1, <5>2
      <4>. QED  BY <3>4, <4>1, <4>2, <4>3
    <3>8. phase'[r] \notin Early /\ r \notin blind' => baseline'[r].form # "null"
      BY <3>2, <3>3
    <3>. QED  BY <3>6, <3>7, <3>8 DEF workspaceOf, PreCall
  <2>. QED  BY <1>1, <2>1, <2>2, <2>3, <2>4, <2>5, <2>6 DEF RunStep
<1>2. ASSUME NEW s \in Runs, Edit(s)
      PROVE  BaselineFits(r)'
  BY <1>2 DEF Edit
<1>3. ASSUME NEW b \in Agents, OperatorEdit(b)
      PROVE  BaselineFits(r)'
  BY <1>3, WorkspaceAssumption DEF OperatorEdit, WorkspaceAssumption
<1>4. CASE UNCHANGED vars
  BY <1>4 DEF vars, repoVars
<1>. QED  BY <1>1, <1>2, <1>3, <1>4 DEF Next

(* Once a run has compared, no commit of another takes changes of it along. *)
LEMMA CarriedStep ==
  ASSUME RepoTypeOK, MutualExclusion, ConflictInv, WorkIsCommitted, [Next]_vars
  PROVE  CarriedOffIsReported'
<1>. DEFINE Compared == {"postLook", "postAdd", "closed"}
<1>1. SUFFICES ASSUME NEW r \in Runs, phase'[r] \in Compared, r \notin blind' \union skipped',
                      NEW k \in DOMAIN log'[workspaceOf(r)],
                      log'[workspaceOf(r)][k].by # r, r \in log'[workspaceOf(r)][k].edits
               PROVE  conflict'[r]
  <2>. \A s : workspaceOf(s)' = workspaceOf(s)
    BY DEF workspaceOf, PreCall
  <2>. QED  BY DEF CarriedOffIsReported, TakenByAnother
<1>. DEFINE a == workspaceOf(r)
<1>2. a \in Agents /\ Len(log[a]) \in Nat /\ DOMAIN log[a] = 1..Len(log[a])
      /\ baseline[r].at \in Nat /\ HoldsTheLock(r) /\ BaselineFits(r)
  BY RunAgent DEF RepoTypeOK, ConflictInv
<1>3. ASSUME phase[r] \in Compared, r \notin blind \union skipped, k \in DOMAIN log[a],
             log'[a][k] = log[a][k], conflict'[r] = conflict[r]
      PROVE  conflict'[r]
  BY <1>1, <1>3 DEF ConflictInv, CarriedOffIsReported, TakenByAnother
<1>4. ASSUME NEW s \in Runs, RunStep(s)
      PROVE  conflict'[r]
  <2>1. CASE Start(s) \/ PreLook(s) \/ PreCommitFails(s) \/ EndTurn(s) \/ ReadBaseline(s)
    BY <1>1, <1>3, <2>1
       DEF Start, PreLook, PreCommitFails, EndTurn, ReadBaseline, RepoTypeOK
  <2>2. CASE TakeLock(s)
    BY <1>1, <1>3, <2>2 DEF TakeLock, repoVars
  <2>3. CASE PostLook(s) \/ PostCommitFails(s)
    BY <1>1, <1>3, <2>3 DEF PostLook, PostCommitFails, RepoTypeOK
  <2>4. CASE CompareHead(s)
    <3>1. CASE s # r
      BY <1>1, <1>3, <2>4, <3>1 DEF CompareHead, RepoTypeOK
    <3>2. CASE s = r
      <4>1. /\ r \notin blind /\ phase[r] = "post" /\ UNCHANGED <<log, baseline>>
            /\ conflict'[r] = (baseline[r] # NoHash /\ baseline[r] # HeadOf(a))
        BY <1>1, <2>4, <3>2 DEF CompareHead, RepoTypeOK
      <4>2. baseline[r].form # "null" /\ (baseline[r].form = "full" => k > baseline[r].at)
        BY <1>1, <1>2, <4>1 DEF BaselineFits, Early
      <4>3. baseline[r] # NoHash
        BY <4>2 DEF NoHash
      <4>4. baseline[r] # HeadOf(a)
        <5>1. HeadOf(a).form = "full" /\ HeadOf(a).at = Len(log[a])
          BY DEF HeadOf, Hash
        <5>2. k \in Nat /\ k <= Len(log[a])
          BY <1>1, <1>2, <4>1
        <5>3. ~(k > Len(log[a]))
          BY <1>2, <5>2
        <5>. SUFFICES ASSUME baseline[r] = HeadOf(a) PROVE FALSE
          OBVIOUS
        <5>. QED  BY <4>2, <5>1, <5>3
      <4>. QED  BY <4>1, <4>3, <4>4
    <3>. QED  BY <3>1, <3>2
  <2>5. CASE PreCommit(s) \/ PostCommit(s)
    <3>1. /\ CommitAll(s) /\ UNCHANGED <<conflict, blind, skipped>>
          /\ phase' \in {[phase EXCEPT ![s] = "driving"], [phase EXCEPT ![s] = "closed"]}
          /\ phase[s] \in {"preAdd", "postAdd"}
          /\ phase[s] = "preAdd" => phase' = [phase EXCEPT ![s] = "driving"]
      BY <2>5 DEF PreCommit, PostCommit
    <3>2. phase[r] \in Compared
      BY <1>1, <3>1 DEF RepoTypeOK
    <3>3. /\ \A i \in DOMAIN log[a] : log'[a][i] = log[a][i]
          /\ \A i \in DOMAIN log'[a] \ DOMAIN log[a] :
               a = workspaceOf(s) /\ log'[a][i].by = s /\ log'[a][i].edits = dirty[a]
      BY <3>1, CommitEffect
    <3>4. CASE k \in DOMAIN log[a]
      BY <1>1, <1>3, <3>1, <3>2, <3>3, <3>4
    <3>5. CASE k \notin DOMAIN log[a]
      <4>1. a = workspaceOf(s) /\ s # r /\ r \in dirty[a]
        BY <1>1, <3>3, <3>5
      <4>2. phase[r] # "closed"
        BY <1>1, <3>1, <4>1 DEF WorkIsCommitted
      <4>3. stage[PostCall(r)] = "holding"
        BY <1>2, <3>2, <4>2 DEF HoldsTheLock
      <4>4. stage[PreCall(s)] = "holding" \/ stage[PostCall(s)] = "holding"
        BY <3>1 DEF ConflictInv, HoldsTheLock
      <4>5. agentOf[PostCall(r)] = a /\ agentOf[PreCall(s)] = a /\ agentOf[PostCall(s)] = a
        BY <4>1, WorkspaceAssumption DEF WorkspaceAssumption, workspaceOf
      <4>6. PostCall(r) # PreCall(s) /\ PostCall(r) # PostCall(s)
        BY <4>1, CallsDiffer
      <4>. QED  BY <4>3, <4>4, <4>5, <4>6, RunCalls DEF MutualExclusion
    <3>. QED  BY <3>4, <3>5
  <2>. QED  BY <1>4, <2>1, <2>2, <2>3, <2>4, <2>5 DEF RunStep
<1>5. ASSUME NEW s \in Runs, Edit(s)
      PROVE  conflict'[r]
  BY <1>1, <1>3, <1>5 DEF Edit
<1>6. ASSUME NEW b \in Agents, OperatorEdit(b)
      PROVE  conflict'[r]
  BY <1>1, <1>3, <1>6 DEF OperatorEdit
<1>7. CASE UNCHANGED vars
  BY <1>1, <1>3, <1>7 DEF vars, repoVars
<1>. QED  BY <1>4, <1>5, <1>6, <1>7 DEF Next

(* "Nothing stays silent" (runner.ts, the closing commit): a run whose      *)
(* changes ended up in the commit of another run says so in its conflict    *)
(* note, unless git could not name HEAD or refused the run's own commit.    *)
THEOREM NothingStaysSilent == Spec => []CarriedOffIsReported
<1>1. Init => ConflictInv
  BY WorkspaceAssumption, RunAgent
     DEF Init, ConflictInv, HoldsTheLock, BaselineFits, CarriedOffIsReported, Early, NoHash,
         WorkspaceAssumption
<1>2. ConflictInv /\ RepoTypeOK /\ LockTypeOK /\ MutualExclusion /\ WorkIsCommitted /\ [Next]_vars
        => ConflictInv'
  BY HoldStep, BaselineStep, CarriedStep DEF ConflictInv
<1>3. ConflictInv => CarriedOffIsReported
  BY DEF ConflictInv
<1>4. TypeOK => LockTypeOK
  BY DEF TypeOK
<1>. QED  BY <1>1, <1>2, <1>3, <1>4, RepoTypeInvariant, WorkspaceTypeOK, RunsExclude, WorkIsNeverLost, PTL
          DEF Spec

-----------------------------------------------------------------------------
(* Documents.  A commit of the manager changes the one file it is told to,  *)
(* because git is given that path; whatever else was staged stays staged.   *)

TreeWhole(t) == t = [f \in File |-> t[f]]
DocFiles == {"fleet.md", "AGENTS.md"}

(* The last commit: if it is the manager's, it is one document.             *)
TipWhole(tip) == tip.by = "manager" => \E f \in DocFiles : tip.of = {f}

DiskWhole(d) ==
  /\ d = [dir |-> d.dir, repo |-> d.repo, tree |-> d.tree, index |-> d.index,
          head |-> d.head, tip |-> d.tip]
  /\ TreeWhole(d.tree) /\ TreeWhole(d.index) /\ TreeWhole(d.head) /\ TipWhole(d.tip)

DisksWhole(ds) ==
  /\ ds = [a \in Crew |-> ds[a]]
  /\ \A a \in Crew : DiskWhole(ds[a])

(* A pass over the fleet documents carries one that was rendered.           *)
PassWhole(x) == x.step = "fleet" => x.doc # Template
PassesWhole == pass = [p \in Passes |-> pass[p]] /\ \A p \in Passes : PassWhole(pass[p])

DocsInv == DisksWhole(disk) /\ PassesWhole

(* From d to e no file is replaced but one that is missing.                 *)
AddsOnly(d, e) == \A f \in File : e.tree[f] # d.tree[f] => d.tree[f] = None

(* From d to e documents are written.                                       *)
WritesDocs(d, e) ==
  \A f \in File : e.tree[f] # d.tree[f] => f # "work" /\ e.tree[f] # Template

Untouched(d, e) == e.tree = d.tree

(* What a step may do to a workspace.                                       *)
Respects(d, e) ==
  /\ DiskWhole(e)
  /\ \A f \in File : e.tree[f] # d.tree[f] =>
       \/ d.tree[f] = None
       \/ e.tree[f] = Edited
       \/ f # "work" /\ e.tree[f] # Template

(* A workspace of which one part changes.                                   *)
LEMMA PartChanges ==
  ASSUME NEW d, DiskWhole(d), NEW v
  PROVE  /\ DiskWhole([d EXCEPT !.dir = v]) /\ Untouched(d, [d EXCEPT !.dir = v])
         /\ DiskWhole([d EXCEPT !.repo = v]) /\ Untouched(d, [d EXCEPT !.repo = v])
         /\ TreeWhole(v) => DiskWhole([d EXCEPT !.index = v]) /\ Untouched(d, [d EXCEPT !.index = v])
         /\ TreeWhole(v) => DiskWhole([d EXCEPT !.tree = v]) /\ [d EXCEPT !.tree = v].tree = v
<1>1. DiskWhole([d EXCEPT !.dir = v]) /\ Untouched(d, [d EXCEPT !.dir = v])
  BY DEF DiskWhole, Untouched
<1>3. DiskWhole([d EXCEPT !.repo = v]) /\ Untouched(d, [d EXCEPT !.repo = v])
  BY DEF DiskWhole, Untouched
<1>4. TreeWhole(v) => DiskWhole([d EXCEPT !.index = v]) /\ Untouched(d, [d EXCEPT !.index = v])
  BY DEF DiskWhole, Untouched
<1>5. TreeWhole(v) => DiskWhole([d EXCEPT !.tree = v]) /\ [d EXCEPT !.tree = v].tree = v
  BY DEF DiskWhole
<1>. QED  BY <1>1, <1>3, <1>4, <1>5

(* The four ways to commit.                                                 *)
LEMMA StagingKeeps ==
  ASSUME NEW d, DiskWhole(d)
  PROVE  DiskWhole(StageAll(d)) /\ StageAll(d).tree = d.tree
BY DEF StageAll, DiskWhole, TreeWhole

LEMMA RecordKeeps ==
  ASSUME NEW d, DiskWhole(d), NEW head, TreeWhole(head), NEW by,
         by = "manager" => \E g \in DocFiles : \A f \in File : head[f] # d.head[f] <=> f = g
  PROVE  DiskWhole(Recorded(d, head, by)) /\ Recorded(d, head, by).tree = d.tree
<1>. DEFINE tip == [by |-> by, of |-> {f \in File : head[f] # d.head[f]}]
<1>1. Recorded(d, head, by) = [[d EXCEPT !.head = head] EXCEPT !.tip = tip]
  BY DEF Recorded
<1>2. TipWhole(tip)
  <2>1. CASE by = "manager"
    <3>1. PICK g \in DocFiles : \A f \in File : head[f] # d.head[f] <=> f = g
      BY <2>1
    <3>2. DocFiles \subseteq File
      BY DEF DocFiles, File
    <3>3. tip.of = {g}
      BY <3>1, <3>2
    <3>. QED  BY <3>3 DEF TipWhole
  <2>2. CASE by # "manager"
    BY <2>2 DEF TipWhole
  <2>. QED  BY <2>1, <2>2
<1>. HIDE DEF tip
<1>. QED  BY <1>1, <1>2 DEF DiskWhole

LEMMA IndexCommitKeeps ==
  ASSUME NEW d, DiskWhole(d), NEW by, by # "manager"
  PROVE  DiskWhole(CommitIndex(d, by)) /\ CommitIndex(d, by).tree = d.tree
BY RecordKeeps DEF CommitIndex, DiskWhole

LEMMA PathStagingKeeps ==
  ASSUME NEW d, DiskWhole(d), NEW f \in File
  PROVE  LET e == [d EXCEPT !.index[f] = d.tree[f]] IN
         DiskWhole(e) /\ e.tree = d.tree /\ e.head = d.head /\ e.index[f] = d.tree[f]
BY DEF DiskWhole, TreeWhole

LEMMA PathCommitKeeps ==
  ASSUME NEW d, DiskWhole(d), NEW f \in DocFiles
  PROVE  DiskWhole(CommitPath(d, f)) /\ CommitPath(d, f).tree = d.tree
<1>. DEFINE e == [d EXCEPT !.index[f] = d.tree[f]]
            head == [d.head EXCEPT ![f] = d.tree[f]]
<1>1. f \in File
  BY DEF DocFiles, File
<1>2. DiskWhole(e) /\ e.tree = d.tree /\ e.head = d.head /\ e.index[f] = d.tree[f]
  BY <1>1, PathStagingKeeps
<1>3. /\ TreeWhole(head)
      /\ \A g \in File : head[g] = IF g = f THEN d.tree[f] ELSE d.head[g]
  BY <1>1 DEF DiskWhole, TreeWhole
<1>4. CommitPath(d, f) = IF e.index[f] = d.head[f] THEN e ELSE Recorded(e, head, "manager")
  BY DEF CommitPath
<1>. HIDE DEF e, head
<1>5. CASE e.index[f] = d.head[f]
  BY <1>2, <1>4, <1>5
<1>6. CASE e.index[f] # d.head[f]
  <2>1. \A g \in File : head[g] # e.head[g] <=> g = f
    BY <1>2, <1>3, <1>6
  <2>2. DiskWhole(Recorded(e, head, "manager")) /\ Recorded(e, head, "manager").tree = e.tree
    BY <1>2, <1>3, <2>1, RecordKeeps
  <2>. QED  BY <1>2, <1>4, <1>6, <2>2
<1>. QED  BY <1>5, <1>6

(* A template adds what is missing.                                         *)
LEMMA ScaffoldAdds ==
  ASSUME NEW tree, TreeWhole(tree), NEW files
  PROVE  /\ TreeWhole(Scaffold(tree, files))
         /\ \A f \in File : Scaffold(tree, files)[f] # tree[f] => tree[f] = None
BY DEF Scaffold, TreeWhole

LEMMA InitWorkspaceAdds ==
  ASSUME NEW d, DiskWhole(d), NEW gitWorks
  PROVE  DiskWhole(InitWorkspace(d, gitWorks)) /\ AddsOnly(d, InitWorkspace(d, gitWorks))
<1>. DEFINE tree == Scaffold(d.tree, {"AGENTS.md", "work"})
            made == [[d EXCEPT !.dir = TRUE] EXCEPT !.tree = tree]
            index == [f \in File |-> IF tree[f] # d.tree[f] THEN tree[f] ELSE d.index[f]]
            added == [[made EXCEPT !.repo = TRUE] EXCEPT !.index = index]
<1>1. TreeWhole(tree) /\ \A f \in File : tree[f] # d.tree[f] => d.tree[f] = None
  BY ScaffoldAdds DEF DiskWhole
<1>2. InitWorkspace(d, gitWorks) = IF ~gitWorks THEN made ELSE CommitIndex(added, "init")
  BY DEF InitWorkspace
<1>3. TreeWhole(index)
  BY DEF TreeWhole
<1>. HIDE DEF tree, index
<1>4. DiskWhole(made) /\ made.tree = tree
  <2>1. DiskWhole([d EXCEPT !.dir = TRUE])
    BY PartChanges
  <2>. QED  BY <1>1, <2>1, PartChanges
<1>5. DiskWhole(added) /\ added.tree = tree
  <2>. HIDE DEF made
  <2>1. DiskWhole([made EXCEPT !.repo = TRUE]) /\ [made EXCEPT !.repo = TRUE].tree = tree
    BY <1>4, PartChanges DEF Untouched
  <2>. QED  BY <1>3, <2>1, PartChanges DEF Untouched
<1>. HIDE DEF made, added
<1>6. DiskWhole(CommitIndex(added, "init")) /\ CommitIndex(added, "init").tree = tree
  BY <1>5, IndexCommitKeeps
<1>. QED  BY <1>1, <1>2, <1>4, <1>6 DEF AddsOnly

LEMMA EnsureGitAdds ==
  ASSUME NEW d, DiskWhole(d), NEW gitWorks
  PROVE  DiskWhole(EnsureWorkspaceGit(d, gitWorks)) /\ AddsOnly(d, EnsureWorkspaceGit(d, gitWorks))
<1>. DEFINE tree == Scaffold(d.tree, {"AGENTS.md"})
            made == [d EXCEPT !.dir = TRUE]
            added == [[[d EXCEPT !.dir = TRUE] EXCEPT !.repo = TRUE] EXCEPT !.tree = tree]
<1>1. TreeWhole(tree) /\ \A f \in File : tree[f] # d.tree[f] => d.tree[f] = None
  BY ScaffoldAdds DEF DiskWhole
<1>2. EnsureWorkspaceGit(d, gitWorks) =
        IF d.repo THEN d ELSE IF ~gitWorks THEN made ELSE CommitIndex(StageAll(added), "init")
  BY DEF EnsureWorkspaceGit
<1>. HIDE DEF tree
<1>3. DiskWhole(made) /\ made.tree = d.tree
  BY PartChanges DEF Untouched
<1>4. DiskWhole(added) /\ added.tree = tree
  <2>1. DiskWhole([[d EXCEPT !.dir = TRUE] EXCEPT !.repo = TRUE])
    <3>. HIDE DEF made
    <3>1. DiskWhole([made EXCEPT !.repo = TRUE])
      BY <1>3, PartChanges
    <3>. QED  BY <3>1 DEF made
  <2>. QED  BY <1>1, <2>1, PartChanges
<1>. HIDE DEF made, added
<1>5. DiskWhole(StageAll(added)) /\ StageAll(added).tree = tree
  BY <1>4, StagingKeeps
<1>6. DiskWhole(CommitIndex(StageAll(added), "init")) /\ CommitIndex(StageAll(added), "init").tree = tree
  BY <1>5, IndexCommitKeeps
<1>. QED  BY <1>1, <1>2, <1>3, <1>6 DEF AddsOnly

LEMMA SeedAdds ==
  ASSUME NEW d, DiskWhole(d), NEW gitWorks
  PROVE  DiskWhole(SeedEmptyWorkspace(d, gitWorks)) /\ AddsOnly(d, SeedEmptyWorkspace(d, gitWorks))
BY InitWorkspaceAdds DEF SeedEmptyWorkspace, AddsOnly

(* A step that respects the workspaces.                                     *)
DocStepIsGood == DocsInv' /\ \A a \in Crew : Respects(disk[a], disk'[a])

LEMMA RespectIsSound ==
  ASSUME NEW d, NEW e, DiskWhole(e), AddsOnly(d, e) \/ WritesDocs(d, e) \/ Untouched(d, e)
  PROVE  Respects(d, e)
BY DEF AddsOnly, WritesDocs, Untouched, Respects

(* A pass that goes on writes documents, none of them a template.           *)
LEMMA RendersNoTemplate ==
  /\ FleetDoc # Template
  /\ \A a : RulesDoc(a) # Template
<1>1. Len(FleetDoc) = 3
  BY DEF FleetDoc
<1>2. ASSUME NEW a PROVE Len(RulesDoc(a)) = 2
  BY DEF RulesDoc
<1>3. Len(Template) = 1
  BY DEF Template
<1>. QED  BY <1>1, <1>2, <1>3

LEMMA GoingOnKeeps ==
  ASSUME PassesWhole, NEW p \in Passes, NEW step \in {"fleet", "outward"}, NEW doc,
         step = "fleet" => doc # Template,
         NEW todo, NEW onDisk, DisksWhole(onDisk), NEW lines, NEW trouble,
         GoOn(p, step, doc, todo, onDisk, lines, trouble)
  PROVE  DocsInv' /\ \A b \in Crew : WritesDocs(onDisk[b], disk'[b])
<1>1. PICK i \in 1..(Len(todo) + 1) :
        \/ /\ pass' = [pass EXCEPT ![p] = IF step = "fleet" THEN [Idle EXCEPT !.step = "between"] ELSE Idle]
           /\ disk' = onDisk
        \/ /\ pass' = [pass EXCEPT ![p] = [step |-> step, doc |-> doc, todo |-> SubSeq(todo, i, Len(todo))]]
           /\ disk' = [onDisk EXCEPT ![todo[i]].dir = TRUE,
                         ![todo[i]].tree[FileOf(step)] = IF step = "fleet" THEN doc ELSE RulesDoc(todo[i])]
  BY DEF GoOn
<1>2. PassesWhole'
  <2>1. \A x \in {Idle, [Idle EXCEPT !.step = "between"],
                  [step |-> step, doc |-> doc, todo |-> SubSeq(todo, i, Len(todo))]} : PassWhole(x)
    BY DEF Idle, PassWhole
  <2>. DEFINE x == pass'[p]
  <2>2. pass' = [pass EXCEPT ![p] = x] /\ PassWhole(x)
    BY <1>1, <2>1 DEF PassesWhole
  <2>. QED  BY <2>2 DEF PassesWhole
<1>3. CASE disk' = onDisk
  BY <1>2, <1>3 DEF DocsInv, DisksWhole, WritesDocs
<1>4. CASE disk' # onDisk
  <2>. DEFINE a == todo[i]
              f == FileOf(step)
              v == IF step = "fleet" THEN doc ELSE RulesDoc(a)
              made == [onDisk[a] EXCEPT !.dir = TRUE]
              tree == [onDisk[a].tree EXCEPT ![f] = v]
              e == [made EXCEPT !.tree = tree]
  <2>1. f \in DocFiles /\ v # Template
    BY RendersNoTemplate DEF FileOf, DocFiles
  <2>2. disk' = [onDisk EXCEPT ![a].dir = TRUE, ![a].tree[f] = v]
    BY <1>1, <1>4
  <2>. HIDE DEF a, f, v
  <2>3. CASE a \in Crew
    <3>1. DiskWhole(onDisk[a]) /\ TreeWhole(onDisk[a].tree)
      BY <2>3 DEF DisksWhole, DiskWhole
    <3>2. DiskWhole(made) /\ made.tree = onDisk[a].tree
      BY <3>1, PartChanges DEF Untouched
    <3>3. /\ TreeWhole(tree)
          /\ \A g \in File : tree[g] = IF g = f THEN v ELSE onDisk[a].tree[g]
      BY <2>1, <3>1 DEF TreeWhole, DocFiles, File
    <3>4. disk' = [onDisk EXCEPT ![a] = [made EXCEPT !.tree[f] = v]]
      BY <2>2, <2>3 DEF DisksWhole
    <3>5. [made EXCEPT !.tree[f] = v] = e
      BY <3>2
    <3>. HIDE DEF made, tree
    <3>6. DiskWhole(e) /\ e.tree = tree
      BY <3>2, <3>3, PartChanges
    <3>7. \A b \in Crew : disk'[b] = IF b = a THEN e ELSE onDisk[b]
      BY <2>3, <3>4, <3>5 DEF DisksWhole
    <3>8. DisksWhole(disk')
      BY <2>3, <3>4, <3>5, <3>6 DEF DisksWhole
    <3>9. WritesDocs(onDisk[a], e)
      BY <2>1, <3>3, <3>6 DEF WritesDocs, DocFiles
    <3>. QED  BY <1>2, <3>7, <3>8, <3>9 DEF DocsInv, DisksWhole, WritesDocs
  <2>4. CASE a \notin Crew
    <3>1. disk' = onDisk
      BY <2>2, <2>4 DEF DisksWhole
    <3>. QED  BY <1>4, <3>1
  <2>. QED  BY <2>3, <2>4
<1>. QED  BY <1>3, <1>4

(* One workspace changes, and is whole.                                     *)
LEMMA OneDiskChanges ==
  ASSUME DocsInv, UNCHANGED pass, NEW a, NEW e,
         a \in Crew => DiskWhole(e) /\ Respects(disk[a], e),
         disk' = [disk EXCEPT ![a] = e]
  PROVE  DocStepIsGood
<1>1. \A b \in Crew : disk'[b] = IF b = a THEN e ELSE disk[b]
  BY DEF DocsInv, DisksWhole
<1>2. DisksWhole(disk')
  BY <1>1 DEF DocsInv, DisksWhole
<1>3. PassesWhole'
  BY DEF DocsInv, PassesWhole, PassWhole
<1>4. \A b \in Crew : Respects(disk[b], disk'[b])
  BY <1>1 DEF DocsInv, DisksWhole, Respects
<1>. QED  BY <1>2, <1>3, <1>4 DEF DocStepIsGood, DocsInv

(* No workspace changes.                                                    *)
LEMMA NoDiskChanges ==
  ASSUME DocsInv, UNCHANGED <<disk, pass>>
  PROVE  DocStepIsGood
BY DEF DocsInv, DisksWhole, PassesWhole, PassWhole, DocStepIsGood, Respects

(* A pass goes on over workspaces that differ from the ones there were by a *)
(* commit at most.                                                          *)
LEMMA PassKeeps ==
  ASSUME DocsInv, NEW p \in Passes, NEW step \in {"fleet", "outward"}, NEW doc,
         step = "fleet" => doc # Template,
         NEW todo, NEW onDisk, DisksWhole(onDisk), \A a \in Crew : Untouched(disk[a], onDisk[a]),
         NEW lines, NEW trouble, GoOn(p, step, doc, todo, onDisk, lines, trouble)
  PROVE  DocStepIsGood
<1>1. DocsInv' /\ \A b \in Crew : WritesDocs(onDisk[b], disk'[b])
  BY GoingOnKeeps DEF DocsInv
<1>2. \A b \in Crew : WritesDocs(disk[b], disk'[b])
  BY <1>1 DEF WritesDocs, Untouched
<1>3. \A b \in Crew : DiskWhole(disk'[b])
  BY <1>1 DEF DocsInv, DisksWhole
<1>. QED  BY <1>1, <1>2, <1>3, RespectIsSound DEF DocStepIsGood

LEMMA CommitDocKeeps ==
  ASSUME DocsInv, NEW p \in Passes, CommitDoc(p)
  PROVE  DocStepIsGood
<1>. DEFINE step == pass[p].step
            f == FileOf(step)
            a == Head(pass[p].todo)
            d == disk[a]
            staged == [d EXCEPT !.index[f] = d.tree[f]]
<1>1. PICK result \in {IF d.repo THEN CommitPath(d, f) ELSE d, d, staged}, trouble \in {0, 1} :
        GoOn(p, step, pass[p].doc, Tail(pass[p].todo), [disk EXCEPT ![a] = result],
             [inLine EXCEPT ![a] = Tail(@)], trouble)
  BY Zenon DEF CommitDoc
<1>2. step \in {"fleet", "outward"} /\ (step = "fleet" => pass[p].doc # Template)
  BY DEF CommitDoc, DocsInv, PassesWhole, PassWhole
<1>3. f \in DocFiles /\ f \in File
  BY DEF FileOf, DocFiles, File
<1>. HIDE DEF step, a, f
<1>4. a \in Crew => DiskWhole(result) /\ Untouched(d, result)
  <2>. SUFFICES ASSUME a \in Crew PROVE DiskWhole(result) /\ Untouched(d, result)
    OBVIOUS
  <2>1. DiskWhole(d)
    BY DEF DocsInv, DisksWhole
  <2>. HIDE DEF d
  <2>2. DiskWhole(CommitPath(d, f)) /\ CommitPath(d, f).tree = d.tree
    BY <1>3, <2>1, PathCommitKeeps
  <2>3. DiskWhole(staged) /\ staged.tree = d.tree
    BY <1>3, <2>1, PathStagingKeeps
  <2>. HIDE DEF staged
  <2>. QED  BY <1>1, <2>1, <2>2, <2>3 DEF Untouched
<1>. DEFINE onDisk == [disk EXCEPT ![a] = result]
<1>5. \A b \in Crew : onDisk[b] = IF b = a THEN result ELSE disk[b]
  BY DEF DocsInv, DisksWhole
<1>6. onDisk = [b \in Crew |-> onDisk[b]]
  BY DEF DocsInv, DisksWhole
<1>7. GoOn(p, step, pass[p].doc, Tail(pass[p].todo), onDisk, [inLine EXCEPT ![a] = Tail(@)], trouble)
  BY <1>1
<1>. HIDE DEF onDisk
<1>8. DisksWhole(onDisk) /\ \A b \in Crew : Untouched(disk[b], onDisk[b])
  BY <1>4, <1>5, <1>6 DEF DocsInv, DisksWhole, Untouched
<1>. QED  BY <1>2, <1>7, <1>8, PassKeeps

LEMMA DocStep ==
  ASSUME DocsInv, [DocsNext]_docVars
  PROVE  DocStepIsGood
<1>0. \A a \in Crew : DiskWhole(disk[a]) /\ Untouched(disk[a], disk[a])
  BY DEF DocsInv, DisksWhole, Untouched
<1>1. CASE UNCHANGED docVars
  BY <1>1, NoDiskChanges DEF docVars
<1>2. ASSUME NEW p \in Passes, SyncFleetDocs(p) PROVE DocStepIsGood
  BY <1>0, <1>2, RendersNoTemplate, PassKeeps DEF SyncFleetDocs, DocsInv
<1>3. ASSUME NEW p \in Passes, SyncOutwardAgentDocs(p) PROVE DocStepIsGood
  BY <1>0, <1>3, PassKeeps DEF SyncOutwardAgentDocs, DocsInv
<1>4. ASSUME NEW p \in Passes, CommitDoc(p) PROVE DocStepIsGood
  BY <1>4, CommitDocKeeps
<1>5. ASSUME NEW a \in Crew, QueueSnapshot(a) PROVE DocStepIsGood
  BY <1>5, NoDiskChanges DEF QueueSnapshot
<1>6. ASSUME NEW a \in Crew, AddAll(a) PROVE DocStepIsGood
  <2>1. CASE disk' = [disk EXCEPT ![a] = StageAll(@)]
    <3>1. DiskWhole(StageAll(disk[a])) /\ Respects(disk[a], StageAll(disk[a]))
      BY <1>0, StagingKeeps, RespectIsSound DEF Untouched
    <3>. QED  BY <1>6, <2>1, <3>1, OneDiskChanges DEF AddAll
  <2>2. CASE UNCHANGED disk
    BY <1>6, <2>2, NoDiskChanges DEF AddAll
  <2>. QED  BY <1>6, <2>1, <2>2 DEF AddAll
<1>7. ASSUME NEW a \in Crew, CommitAdded(a) PROVE DocStepIsGood
  <2>. DEFINE e == CommitIndex(disk[a], "run")
  <2>1. DiskWhole(e) /\ Respects(disk[a], e)
    BY <1>0, IndexCommitKeeps, RespectIsSound DEF Untouched
  <2>2. Respects(disk[a], disk[a])
    BY <1>0, RespectIsSound
  <2>. HIDE DEF e
  <2>3. \E x \in {e, disk[a]} : disk' = [disk EXCEPT ![a] = x]
    BY <1>7 DEF CommitAdded, e
  <2>. QED  BY <1>0, <1>7, <2>1, <2>2, <2>3, OneDiskChanges DEF CommitAdded
<1>8. ASSUME NEW a \in Crew, Join(a) PROVE DocStepIsGood
  <2>1. PICK gitWorks \in BOOLEAN :
          disk' = IF a \in Remote THEN disk ELSE [disk EXCEPT ![a] = EnsureWorkspaceGit(@, gitWorks)]
    BY <1>8 DEF Join
  <2>. DEFINE e == EnsureWorkspaceGit(disk[a], gitWorks)
  <2>2. DiskWhole(e) /\ Respects(disk[a], e)
    BY <1>0, EnsureGitAdds, RespectIsSound
  <2>. HIDE DEF e
  <2>3. UNCHANGED pass
    BY <1>8 DEF Join
  <2>4. CASE a \in Remote
    BY <2>1, <2>3, <2>4, NoDiskChanges
  <2>5. CASE a \notin Remote
    BY <2>1, <2>2, <2>3, <2>5, OneDiskChanges DEF e
  <2>. QED  BY <2>4, <2>5
<1>9. ASSUME NEW a \in Crew, Leave(a) PROVE DocStepIsGood
  BY <1>9, NoDiskChanges DEF Leave
<1>10. ASSUME NEW a \in Crew, NEW f \in File, EditFile(a, f) PROVE DocStepIsGood
  <2>. DEFINE d == disk[a]
              tree == [d.tree EXCEPT ![f] = Edited]
              e == [d EXCEPT !.tree = tree]
  <2>1. DiskWhole(d) /\ TreeWhole(d.tree)
    BY <1>0 DEF DiskWhole
  <2>2. disk' = [disk EXCEPT ![a] = e] /\ UNCHANGED pass
    BY <1>10 DEF EditFile
  <2>. HIDE DEF d
  <2>3. TreeWhole(tree) /\ \A g \in File : tree[g] = IF g = f THEN Edited ELSE d.tree[g]
    BY <2>1 DEF TreeWhole
  <2>. HIDE DEF tree
  <2>4. DiskWhole(e) /\ e.tree = tree
    BY <2>1, <2>3, PartChanges
  <2>5. Respects(d, e)
    BY <2>3, <2>4 DEF Respects
  <2>. HIDE DEF e
  <2>. QED  BY <2>2, <2>4, <2>5, OneDiskChanges DEF d
<1>11. ASSUME NEW declared \in SUBSET Crew, ApplyService(declared) PROVE DocStepIsGood
  BY <1>11, NoDiskChanges DEF ApplyService
<1>12. CASE DeleteService
  BY <1>12, NoDiskChanges DEF DeleteService
<1>13. CASE Reboot
  <2>1. PICK refusing \in SUBSET members :
          disk' = [a \in Crew |-> IF a \in members THEN SeedEmptyWorkspace(disk[a], a \notin refusing)
                                  ELSE disk[a]]
    BY <1>13 DEF Reboot
  <2>2. \A a \in Crew : LET e == SeedEmptyWorkspace(disk[a], a \notin refusing) IN
                        DiskWhole(e) /\ Respects(disk[a], e)
    BY <1>0, SeedAdds, RespectIsSound
  <2>3. \A a \in Crew : Respects(disk[a], disk[a])
    BY <1>0, RespectIsSound
  <2>4. \A a \in Crew : DiskWhole(disk'[a]) /\ Respects(disk[a], disk'[a])
    BY <1>0, <2>1, <2>2, <2>3
  <2>5. DisksWhole(disk')
    BY <2>1, <2>4 DEF DisksWhole
  <2>6. PassesWhole'
    BY <1>13 DEF Reboot, PassesWhole, PassWhole, Idle
  <2>. QED  BY <2>4, <2>5, <2>6 DEF DocStepIsGood, DocsInv
<1>. QED  BY <1>1, <1>2, <1>3, <1>4, <1>5, <1>6, <1>7, <1>8, <1>9, <1>10, <1>11, <1>12, <1>13
          DEF DocsNext, Tick, PassStep, SnapshotStep

(* For any agents, passes, edits, refusals of git and restarts: a commit the *)
(* manager makes for a document changes that file alone ("other staged      *)
(* changes ... must never ride along"), and no seed, creation or pass puts  *)
(* anything but a document in the place of a file that is there.            *)
THEOREM ManagerKeepsToItsFiles == DocsSpec => OthersWorkIsLeftAlone
<1>. DEFINE Good ==
        \A a \in Crew :
          /\ disk'[a].tip.by = "manager" =>
               "work" \notin disk'[a].tip.of /\ Cardinality(disk'[a].tip.of) = 1
          /\ \A f \in File : disk'[a].tree[f] # disk[a].tree[f] =>
               \/ disk[a].tree[f] = None
               \/ disk'[a].tree[f] = Edited
               \/ f # "work" /\ disk'[a].tree[f] # Template
<1>1. DocsInit => DocsInv
  <2>. SUFFICES ASSUME DocsInit PROVE DocsInv
    OBVIOUS
  <2>1. PICK d \in FirstDisks : disk = [a \in Crew |-> SeedEmptyWorkspace(d[a], a \in members)]
    BY DEF DocsInit
  <2>2. ASSUME NEW a \in Crew PROVE DiskWhole(d[a])
    <3>1. Fresh(d[a])
      BY DocumentsAssumption DEF DocumentsAssumption
    <3>2. d[a].tip = NoTip
      BY <3>1 DEF Fresh
    <3>3. TipWhole(NoTip)
      BY DEF TipWhole, NoTip
    <3>. QED  BY <3>1, <3>2, <3>3 DEF Fresh, DiskWhole, TreeWhole
  <2>3. \A a \in Crew : DiskWhole(disk[a])
    BY <2>1, <2>2, SeedAdds
  <2>4. PassesWhole
    BY DEF DocsInit, PassesWhole, PassWhole, Idle
  <2>. QED  BY <2>1, <2>3, <2>4 DEF DocsInv, DisksWhole
<1>2. DocsInv /\ [DocsNext]_docVars => DocsInv'
  BY DocStep DEF DocStepIsGood
<1>3. DocsInv /\ [DocsNext]_docVars => [Good]_docVars
  <2>. SUFFICES ASSUME DocsInv, [DocsNext]_docVars, NEW a \in Crew
                PROVE  Good!(a)
    OBVIOUS
  <2>1. Respects(disk[a], disk'[a])
    BY DocStep DEF DocStepIsGood
  <2>2. TipWhole(disk'[a].tip)
    BY <2>1 DEF Respects, DiskWhole
  <2>3. ASSUME disk'[a].tip.by = "manager"
        PROVE  "work" \notin disk'[a].tip.of /\ Cardinality(disk'[a].tip.of) = 1
    <3>1. PICK f \in DocFiles : disk'[a].tip.of = {f}
      BY <2>2, <2>3 DEF TipWhole
    <3>2. Cardinality({f}) = 1 /\ "work" \notin {f}
      BY FS_Singleton DEF DocFiles
    <3>. QED  BY <3>1, <3>2
  <2>. QED  BY <2>1, <2>3 DEF Respects
<1>. QED  BY <1>1, <1>2, <1>3, PTL DEF DocsSpec, OthersWorkIsLeftAlone
=============================================================================

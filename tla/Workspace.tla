------------------------------ MODULE Workspace ------------------------------
(***************************************************************************)
(* What runs do to the git repository of their agent's workspace           *)
(* (src/src/runner.ts, runAgent's outer part; src/src/workspace/snapshot.ts)*)
(* Turns of one agent run in parallel; each commits what it finds before it *)
(* starts and what it leaves behind, both under the commit lock, and        *)
(* compares HEAD with the one it started from to report a conflict.         *)
(*                                                                         *)
(* An edit stands for any change git status sees; who made it is kept, as   *)
(* the code does not.  The turn itself is module Turn.                      *)
(***************************************************************************)
EXTENDS CommitLock, FiniteSets

CONSTANTS Runs,      \* runs, each started once
          Operator   \* whoever else writes into the workspace: a person, the config editor

PreCall(r) == <<r, "pre">>
PostCall(r) == <<r, "post">>
workspaceOf(r) == agentOf[PreCall(r)]

ASSUME WorkspaceAssumption ==
  /\ Calls = Runs \X {"pre", "post"}
  /\ \A r \in Runs : agentOf[PostCall(r)] = agentOf[PreCall(r)]
  /\ Operator \notin Runs

VARIABLES
  dirty,      \* per agent: who has uncommitted changes in the workspace
  log,        \* per agent: the commits after the initial one
  phase,      \* where each run stands
  baseline,   \* the hash a run took as the one it started from
  conflict,   \* run.conflict is set
  blind,      \* history: runs for which git could not name HEAD
  skipped     \* history: runs whose closing commit git refused

repoVars == <<dirty, log, phase, baseline, conflict, blind, skipped>>
vars == <<lockVars, repoVars>>

Writers == Runs \union {Operator}

Phases == {"new", "pre", "preAdd", "base", "driving", "post", "postLook", "postAdd", "closed"}

(* A commit's hash as git prints it in full and as `git commit` prints it:  *)
(* the abbreviation is another string for the same commit.                  *)
Hash(k) == [form |-> "full", at |-> k]
PrintedHash(k) == [form |-> "abbreviated", at |-> k]
NoHash == [form |-> "null", at |-> 0]

HeadOf(a) == Hash(Len(log[a]))

Init ==
  /\ LockInit
  /\ dirty \in [Agents -> {{}, {Operator}}]
  /\ log = [a \in Agents |-> <<>>]
  /\ phase = [r \in Runs |-> "new"]
  /\ baseline = [r \in Runs |-> NoHash]
  /\ conflict = [r \in Runs |-> FALSE]
  /\ blind = {}
  /\ skipped = {}

-----------------------------------------------------------------------------
(* commitAll: `git add --all` and `git commit` take whatever is there.      *)
CommitAll(r) ==
  LET a == workspaceOf(r) IN
  /\ log' = [log EXCEPT ![a] = Append(@, [by |-> r, edits |-> dirty[a]])]
  /\ dirty' = [dirty EXCEPT ![a] = {}]

(* runAgent's first synchronous steps, up to its first await.               *)
Start(r) ==
  /\ phase[r] = "new"
  /\ phase' = [phase EXCEPT ![r] = "pre"]
  /\ Enter(PreCall(r))
  /\ UNCHANGED <<dirty, log, baseline, conflict, blind, skipped>>

TakeLock(r) ==
  /\ \E c \in {PreCall(r), PostCall(r)} : Acquire(c)
  /\ UNCHANGED repoVars

(* snapshotBefore: git status. A clean tree makes no commit.                *)
PreLook(r) ==
  /\ phase[r] = "pre"
  /\ stage[PreCall(r)] = "holding"
  /\ IF dirty[workspaceOf(r)] = {}
     THEN /\ phase' = [phase EXCEPT ![r] = "base"]
          /\ Release(PreCall(r))
     ELSE /\ phase' = [phase EXCEPT ![r] = "preAdd"]
          /\ UNCHANGED lockVars
  /\ UNCHANGED <<dirty, log, baseline, conflict, blind, skipped>>

(* The commit of what was there already; its printed hash is the baseline.  *)
PreCommit(r) ==
  /\ phase[r] = "preAdd"
  /\ CommitAll(r)
  /\ baseline' = [baseline EXCEPT ![r] = PrintedHash(Len(log[workspaceOf(r)]) + 1)]
  /\ phase' = [phase EXCEPT ![r] = "driving"]
  /\ Release(PreCall(r))
  /\ UNCHANGED <<conflict, blind, skipped>>

(* A snapshot that throws past the lock's finally block (a mutation).       *)
PreCommitFailsHeld(r) ==
  /\ phase[r] = "preAdd"
  /\ phase' = [phase EXCEPT ![r] = "base"]
  /\ UNCHANGED <<dirty, log, baseline, conflict, blind, skipped, lockVars>>

(* git refuses (no identity, a failing hook): reported, and the run goes on.*)
PreCommitFails(r) ==
  /\ phase[r] = "preAdd"
  /\ phase' = [phase EXCEPT ![r] = "base"]
  /\ Release(PreCall(r))
  /\ UNCHANGED <<dirty, log, baseline, conflict, blind, skipped>>

(* No commit was made: the baseline is HEAD, read outside the lock.         *)
ReadBaseline(r) ==
  /\ phase[r] = "base"
  /\ phase' = [phase EXCEPT ![r] = "driving"]
  /\ \/ /\ baseline' = [baseline EXCEPT ![r] = HeadOf(workspaceOf(r))]
        /\ UNCHANGED blind
     \/ /\ blind' = blind \union {r}
        /\ UNCHANGED baseline
  /\ UNCHANGED <<dirty, log, conflict, skipped, lockVars>>

(* The agent's tools write into the workspace while its turn is driven.     *)
Edit(r) ==
  /\ phase[r] = "driving"
  /\ dirty' = [dirty EXCEPT ![workspaceOf(r)] = @ \union {r}]
  /\ UNCHANGED <<log, phase, baseline, conflict, blind, skipped, lockVars>>

OperatorEdit(a) ==
  /\ dirty' = [dirty EXCEPT ![a] = @ \union {Operator}]
  /\ UNCHANGED <<log, phase, baseline, conflict, blind, skipped, lockVars>>

(* driveTurn is over, however it ended; the run queues for its closing      *)
(* commit.                                                                  *)
EndTurn(r) ==
  /\ phase[r] = "driving"
  /\ phase' = [phase EXCEPT ![r] = "post"]
  /\ Enter(PostCall(r))
  /\ UNCHANGED <<dirty, log, baseline, conflict, blind, skipped>>

(* A closing step that never compares (a mutation).                         *)
CompareNothing(r) ==
  /\ phase[r] = "post"
  /\ stage[PostCall(r)] = "holding"
  /\ phase' = [phase EXCEPT ![r] = "postLook"]
  /\ UNCHANGED <<dirty, log, baseline, conflict, blind, skipped, lockVars>>

(* The conflict check: the hashes are compared as strings.                  *)
CompareHead(r) ==
  /\ phase[r] = "post"
  /\ stage[PostCall(r)] = "holding"
  /\ phase' = [phase EXCEPT ![r] = "postLook"]
  /\ \/ /\ conflict' = [conflict EXCEPT ![r] =
              baseline[r] # NoHash /\ baseline[r] # HeadOf(workspaceOf(r))]
        /\ UNCHANGED blind
     \/ /\ blind' = blind \union {r}
        /\ UNCHANGED conflict
  /\ UNCHANGED <<dirty, log, baseline, skipped, lockVars>>

PostLook(r) ==
  /\ phase[r] = "postLook"
  /\ IF dirty[workspaceOf(r)] = {}
     THEN /\ phase' = [phase EXCEPT ![r] = "closed"]
          /\ Release(PostCall(r))
     ELSE /\ phase' = [phase EXCEPT ![r] = "postAdd"]
          /\ UNCHANGED lockVars
  /\ UNCHANGED <<dirty, log, baseline, conflict, blind, skipped>>

(* A closing step that forgets to commit (a mutation).                      *)
PostCommitNothing(r) ==
  /\ phase[r] = "postAdd"
  /\ phase' = [phase EXCEPT ![r] = "closed"]
  /\ Release(PostCall(r))
  /\ UNCHANGED <<dirty, log, baseline, conflict, blind, skipped>>

PostCommit(r) ==
  /\ phase[r] = "postAdd"
  /\ CommitAll(r)
  /\ phase' = [phase EXCEPT ![r] = "closed"]
  /\ Release(PostCall(r))
  /\ UNCHANGED <<baseline, conflict, blind, skipped>>

PostCommitFails(r) ==
  /\ phase[r] = "postAdd"
  /\ skipped' = skipped \union {r}
  /\ phase' = [phase EXCEPT ![r] = "closed"]
  /\ Release(PostCall(r))
  /\ UNCHANGED <<dirty, log, baseline, conflict, blind>>

RunStep(r) ==
  \/ Start(r) \/ TakeLock(r) \/ PreLook(r) \/ PreCommit(r) \/ PreCommitFails(r)
  \/ ReadBaseline(r) \/ EndTurn(r) \/ CompareHead(r)
  \/ PostLook(r) \/ PostCommit(r) \/ PostCommitFails(r)

Next ==
  \/ \E r \in Runs : RunStep(r) \/ Edit(r)
  \/ \E a \in Agents : OperatorEdit(a)

Spec == Init /\ [][Next]_vars

(* Git children and promises settle, and every turn ends (module Turn).     *)
FairSpec == Spec /\ \A r \in Runs : WF_vars(RunStep(r))

-----------------------------------------------------------------------------
(* The type invariant: a baseline is a hash in one of its forms or null,    *)
(* and each commit names the run that made it.                              *)
TypeOK ==
  /\ LockTypeOK
  /\ dirty \in [Agents -> SUBSET Writers]
  /\ log \in [Agents -> Seq([by : Runs, edits : SUBSET Writers])]
  /\ phase \in [Runs -> Phases]
  /\ baseline \in [Runs -> [form : {"full", "abbreviated", "null"}, at : Nat]]
  /\ conflict \in [Runs -> BOOLEAN]
  /\ blind \subseteq Runs
  /\ skipped \subseteq Runs

(* The changes of r that another run's commit carries off.                  *)
TakenByAnother(r) ==
  \E k \in DOMAIN log[workspaceOf(r)] :
    LET entry == log[workspaceOf(r)][k] IN entry.by # r /\ r \in entry.edits

(* "Nothing stays silent" (runner.ts, the closing commit): a run whose own  *)
(* changes ended up in the commit of another run says so in its conflict    *)
(* note, unless git could not name HEAD or refused the run's own commit.    *)
CarriedOffIsReported ==
  \A r \in Runs :
    /\ phase[r] \in {"postLook", "postAdd", "closed"}
    /\ r \notin blind \union skipped
    /\ TakenByAnother(r)
    => conflict[r]

(* No work is lost: once a run has closed, its changes are in some commit,  *)
(* its own or another's, unless git refused the closing commit.             *)
WorkIsCommitted ==
  \A r \in Runs :
    phase[r] = "closed" /\ r \notin skipped => r \notin dirty[workspaceOf(r)]

(* Nobody waits for ever in the chain of gates: every run that starts       *)
(* closes, failed snapshots included.                                       *)
EveryRunCloses == \A r \in Runs : phase[r] # "new" ~> phase[r] = "closed"

(* What the conflict note says (runner.ts, RunOutcome.conflict: "Non-empty  *)
(* when the workspace was committed by another turn while this one ran"):   *)
(* a commit of another run lies after this run's baseline.                  *)
ConflictMeansAnotherCommitted ==
  \A r \in Runs : conflict[r] =>
    \E k \in DOMAIN log[workspaceOf(r)] :
      k > baseline[r].at /\ log[workspaceOf(r)][k].by # r
=============================================================================

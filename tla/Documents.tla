------------------------------ MODULE Documents ------------------------------
(***************************************************************************)
(* The files the manager itself writes into the workspaces of its agents   *)
(* (src/src/workspace/seed.ts, init.ts, fleet-doc.ts, outward-doc.ts, and  *)
(* the passes of src/src/reconcile/index.ts that run them).  A pass writes *)
(* one document per agent and commits it under that agent's commit lock,   *)
(* where it may wait for the snapshot of a run; passes of the boot, the    *)
(* ticks and the configuration changes overlap, with each other and with   *)
(* everything agents and people do in the workspaces.                      *)
(*                                                                         *)
(* A document is the value it is rendered from.  The lock is the queue     *)
(* that module CommitLock shows it to be.                                  *)
(***************************************************************************)
EXTENDS Integers, SequencesExt

CONSTANTS Crew,        \* every agent there may be
          Remote,      \* those whose node an agent runner has on another machine
          Passes,      \* reconcile passes under way at a time
          FirstDisks,  \* the workspaces there may be before the first boot
          MaxUnrest    \* runs, changes, edits, refusals and crashes, together

VARIABLES
  members,   \* config.agents
  public,    \* agents with the public flag; a deleted one's object keeps it
  workers,   \* the agents a service declares
  disk,      \* per agent: its workspace on the manager's machine
  pass,      \* the passes
  inLine,    \* per agent: who holds its commit lock and who waits for it
  adding,    \* agents a run's snapshot has staged but not yet committed
  unrest     \* what may still go wrong or change

docVars == <<members, public, workers, disk, pass, inLine, adding, unrest>>

File == {"fleet.md", "AGENTS.md", "work"}
None == <<"none">>
Template == <<"template">>
Edited == <<"edit">>
Blank == [f \in File |-> None]
NoTip == [by |-> "nobody", of |-> {}]
Snapshot == "snapshot"
Idle == [step |-> "idle", doc |-> <<>>, todo |-> <<>>]

Missing == [dir |-> FALSE, repo |-> FALSE, tree |-> Blank, index |-> Blank,
            head |-> Blank, tip |-> NoTip]
EmptyDirectory == [Missing EXCEPT !.dir = TRUE]
Notebook ==
  LET own == [Blank EXCEPT !["AGENTS.md"] = <<"own">>] IN
  [dir |-> TRUE, repo |-> TRUE, tree |-> [own EXCEPT !["work"] = <<"own">>],
   index |-> own, head |-> own, tip |-> NoTip]

(* A workspace in which the manager has not committed anything yet.         *)
Fresh(d) ==
  /\ d = [dir |-> d.dir, repo |-> d.repo, tree |-> d.tree, index |-> d.index,
          head |-> d.head, tip |-> NoTip]
  /\ \A t \in {d.tree, d.index, d.head} : t = [f \in File |-> t[f]]

ASSUME DocumentsAssumption ==
  /\ Remote \subseteq Crew /\ MaxUnrest \in Nat
  /\ \A d \in FirstDisks, a \in Crew : Fresh(d[a])

(* What the documents are rendered from.                                    *)
FleetDoc == <<"fleet", members, public \cap members>>
RulesDoc(a) == <<"rules", IF a \in workers THEN "the service's" ELSE "none declared">>

Disturb(n) == n <= unrest /\ unrest' = unrest - n

-----------------------------------------------------------------------------
(* git.  A commit remembers who made it and the files it changed.           *)
StageAll(d) == [d EXCEPT !.index = d.tree]

Recorded(d, head, by) ==
  [d EXCEPT !.head = head,
            !.tip = [by |-> by, of |-> {f \in File : head[f] # d.head[f]}]]

CommitIndex(d, by) == IF d.index = d.head THEN d ELSE Recorded(d, d.index, by)

(* A commit of everything staged (a mutation).                              *)
CommitPathLoose(d, f) ==
  LET staged == [d EXCEPT !.index[f] = d.tree[f]] IN
  IF staged.index[f] = d.head[f] THEN staged ELSE Recorded(staged, staged.index, "manager")

(* A commit only of what was not staged yet (a mutation).                   *)
CommitPathOfChange(d, f) ==
  IF d.index[f] = d.tree[f] THEN d
  ELSE Recorded([d EXCEPT !.index[f] = d.tree[f]], [d.head EXCEPT ![f] = d.tree[f]], "manager")

(* `git add -- f`, a look at what that staged, `git commit -- f`.           *)
CommitPath(d, f) ==
  LET staged == [d EXCEPT !.index[f] = d.tree[f]] IN
  IF staged.index[f] = d.head[f] THEN staged
  ELSE Recorded(staged, [d.head EXCEPT ![f] = d.tree[f]], "manager")

(* Only files that are missing are added.                                   *)
Scaffold(tree, files) ==
  [f \in File |-> IF f \in files /\ tree[f] = None THEN Template ELSE tree[f]]

(* initWorkspace: the template, a repository, a commit of what was added.   *)
InitWorkspace(d, gitWorks) ==
  LET tree == Scaffold(d.tree, {"AGENTS.md", "work"})
      made == [d EXCEPT !.dir = TRUE, !.tree = tree] IN
  IF ~gitWorks THEN made
  ELSE CommitIndex([made EXCEPT !.repo = TRUE,
                      !.index = [f \in File |-> IF tree[f] # d.tree[f] THEN tree[f] ELSE d.index[f]]],
                   "init")

(* ensureWorkspaceGit: nothing at all in what is a repository already.      *)
EnsureWorkspaceGit(d, gitWorks) ==
  IF d.repo THEN d
  ELSE IF ~gitWorks THEN [d EXCEPT !.dir = TRUE]
  ELSE CommitIndex(StageAll([d EXCEPT !.dir = TRUE, !.repo = TRUE,
                               !.tree = Scaffold(d.tree, {"AGENTS.md"})]), "init")

(* seedEmptyWorkspaces: a directory that is missing or holds anything is    *)
(* left alone.                                                              *)
SeedEmptyWorkspace(d, gitWorks) ==
  IF d.dir /\ ~d.repo /\ d.tree = Blank THEN InitWorkspace(d, gitWorks) ELSE d

-----------------------------------------------------------------------------
(* An agent runner's workspace is on another machine: the outward pass      *)
(* leaves it alone, the fleet pass does not.                                *)
Skipped(step, a) == step = "outward" /\ (a \notin public \/ a \in Remote \cap members)

FileOf(step) == IF step = "fleet" THEN "fleet.md" ELSE "AGENTS.md"

(* A pass goes on until it waits for a lock: agents it skips, writes the    *)
(* disk refuses, then one document written and its author queued.           *)
GoOn(p, step, doc, todo, onDisk, lines, trouble) ==
  \E i \in 1..(Len(todo) + 1) :
    LET refused == {j \in 1..(i - 1) : ~Skipped(step, todo[j])} IN
    /\ Disturb(trouble + Cardinality(refused))
    /\ \/ /\ i > Len(todo)
          /\ pass' = [pass EXCEPT ![p] = IF step = "fleet" THEN [Idle EXCEPT !.step = "between"] ELSE Idle]
          /\ disk' = onDisk
          /\ inLine' = lines
       \/ /\ i <= Len(todo)
          /\ ~Skipped(step, todo[i])
          /\ LET a == todo[i] IN
             /\ pass' = [pass EXCEPT ![p] = [step |-> step, doc |-> doc, todo |-> SubSeq(todo, i, Len(todo))]]
             /\ disk' = [onDisk EXCEPT ![a].dir = TRUE,
                           ![a].tree[FileOf(step)] = IF step = "fleet" THEN doc ELSE RulesDoc(a)]
             /\ inLine' = [lines EXCEPT ![a] = Append(@, p)]

(* A tick, or the end of a configuration change: reconcileAll runs into the *)
(* fleet pass, which renders its document once and takes its list of agents.*)
SyncFleetDocs(p) ==
  /\ pass[p].step = "idle"
  /\ GoOn(p, "fleet", FleetDoc, SetToSeq(members), disk, inLine, 0)
  /\ UNCHANGED <<members, public, workers, adding>>

(* The outward pass follows, with a list of its own.                        *)
SyncOutwardAgentDocs(p) ==
  /\ pass[p].step = "between"
  /\ GoOn(p, "outward", <<>>, SetToSeq(members), disk, inLine, 0)
  /\ UNCHANGED <<members, public, workers, adding>>

(* The pass has the lock: its git calls are synchronous, a refusal of       *)
(* either is swallowed, and it goes on to the next agent ahead of whoever   *)
(* the gate lets through.                                                   *)
CommitDoc(p) ==
  LET step == pass[p].step
      f == FileOf(step)
      a == Head(pass[p].todo)
      d == disk[a]
      Onward(result, trouble) ==
        GoOn(p, step, pass[p].doc, Tail(pass[p].todo), [disk EXCEPT ![a] = result],
             [inLine EXCEPT ![a] = Tail(@)], trouble) IN
  /\ step \in {"fleet", "outward"}
  /\ Head(inLine[a]) = p
  /\ \/ Onward(IF d.repo THEN CommitPath(d, f) ELSE d, 0)
     \/ d.repo /\ \E result \in {d, [d EXCEPT !.index[f] = d.tree[f]]} : Onward(result, 1)
  /\ UNCHANGED <<members, public, workers, adding>>

-----------------------------------------------------------------------------
(* The snapshot of a run (module Workspace): everything is staged, then     *)
(* committed; git may refuse in between and what is staged stays so.        *)
QueueSnapshot(a) ==
  /\ Snapshot \notin Range(inLine[a])
  /\ Disturb(1)
  /\ inLine' = [inLine EXCEPT ![a] = Append(@, Snapshot)]
  /\ UNCHANGED <<members, public, workers, disk, pass, adding>>

AddAll(a) ==
  /\ inLine[a] # <<>> /\ Head(inLine[a]) = Snapshot
  /\ a \notin adding
  /\ IF disk[a].repo /\ disk[a].tree # disk[a].head
     THEN /\ disk' = [disk EXCEPT ![a] = StageAll(@)]
          /\ adding' = adding \cup {a}
          /\ UNCHANGED inLine
     ELSE /\ inLine' = [inLine EXCEPT ![a] = Tail(@)]
          /\ UNCHANGED <<disk, adding>>
  /\ UNCHANGED <<members, public, workers, pass, unrest>>

CommitAdded(a) ==
  /\ a \in adding
  /\ \E trouble \in {0, 1} :
       /\ Disturb(trouble)
       /\ disk' = [disk EXCEPT ![a] = IF trouble = 0 THEN CommitIndex(@, "run") ELSE @]
  /\ adding' = adding \ {a}
  /\ inLine' = [inLine EXCEPT ![a] = Tail(@)]
  /\ UNCHANGED <<members, public, workers, pass>>

-----------------------------------------------------------------------------
(* The configuration changes: an agent is created, in a workspace that is   *)
(* made a repository unless it is remote; its node is deleted; a service is *)
(* applied, which takes over the public flags of the file, edited by hand,  *)
(* or deleted, which does not.                                              *)
Join(a) ==
  /\ a \notin members
  /\ \E gitWorks \in BOOLEAN :
       /\ Disturb(IF gitWorks THEN 1 ELSE 2)
       /\ disk' = IF a \in Remote THEN disk ELSE [disk EXCEPT ![a] = EnsureWorkspaceGit(@, gitWorks)]
  /\ members' = members \cup {a}
  /\ public' = public \ {a}
  /\ UNCHANGED <<workers, pass, inLine, adding>>

Leave(a) ==
  /\ a \in members
  /\ Disturb(1)
  /\ members' = members \ {a}
  /\ UNCHANGED <<public, workers, disk, pass, inLine, adding>>

ApplyService(declared) ==
  /\ declared # {} /\ declared \subseteq members /\ declared # workers
  /\ Disturb(1)
  /\ workers' = declared
  /\ \E marked \in SUBSET members :
       declared \subseteq marked /\ public' = marked \cup (public \ members)
  /\ UNCHANGED <<members, disk, pass, inLine, adding>>

DeleteService ==
  /\ workers # {}
  /\ Disturb(1)
  /\ workers' = {}
  /\ UNCHANGED <<members, public, disk, pass, inLine, adding>>

(* An agent or a person writes into a workspace.                            *)
EditFile(a, f) ==
  /\ disk[a].dir
  /\ Disturb(1)
  /\ disk' = [disk EXCEPT ![a].tree[f] = Edited]
  /\ UNCHANGED <<members, public, workers, pass, inLine, adding>>

(* The manager starts again: passes, locks and snapshots are gone, what git *)
(* had staged is not; empty workspaces are seeded.  (Public flags edited by *)
(* hand are taken over when a service is applied.)                          *)
Reboot ==
  /\ \E refusing \in SUBSET members :
       /\ Disturb(1 + Cardinality(refusing))
       /\ disk' = [a \in Crew |-> IF a \in members THEN SeedEmptyWorkspace(disk[a], a \notin refusing)
                                  ELSE disk[a]]
  /\ pass' = [p \in Passes |-> Idle]
  /\ inLine' = [a \in Crew |-> <<>>]
  /\ adding' = {}
  /\ public' = public \cap members
  /\ UNCHANGED <<members, workers>>

DocsInit ==
  /\ members = Crew
  /\ workers = {}
  /\ public \in SUBSET members
  /\ disk \in {[a \in Crew |-> SeedEmptyWorkspace(d[a], a \in members)] :
                 d \in FirstDisks}
  /\ pass = [p \in Passes |-> Idle]
  /\ inLine = [a \in Crew |-> <<>>]
  /\ adding = {}
  /\ unrest = MaxUnrest

PassStep(p) == SyncOutwardAgentDocs(p) \/ CommitDoc(p)
SnapshotStep(a) == AddAll(a) \/ CommitAdded(a)
Tick == \E p \in Passes : SyncFleetDocs(p)

DocsNext ==
  \/ Tick
  \/ \E p \in Passes : PassStep(p)
  \/ \E a \in Crew : QueueSnapshot(a) \/ SnapshotStep(a) \/ Join(a) \/ Leave(a)
  \/ \E a \in Crew, f \in File : EditFile(a, f)
  \/ \E declared \in SUBSET Crew : ApplyService(declared)
  \/ DeleteService
  \/ Reboot

(* Git children and promises settle.                                        *)
DocsFairness ==
  /\ \A p \in Passes : WF_docVars(PassStep(p))
  /\ \A a \in Crew : WF_docVars(SnapshotStep(a))

DocsSpec == DocsInit /\ [][DocsNext]_docVars /\ DocsFairness

-----------------------------------------------------------------------------
InPlace(a, f, doc) ==
  /\ disk[a].tree[f] = doc
  /\ disk[a].repo => disk[a].head[f] = doc

(* The ticks repair everything: if they go on (an interval of 0 means none),*)
(* once the configuration, the workspaces and git are left in peace every   *)
(* agent's fleet.md is the current one and committed, and so are the rules  *)
(* of every outward agent that is local - whatever stale pass, refused      *)
(* write or commit, edit or crash came before (fleet-doc.ts commits an      *)
(* unchanged file all the same).                                            *)
DocsConverge ==
  []<>(\E p \in Passes : pass[p].step # "idle") =>
    <>[](\A a \in members :
           /\ InPlace(a, "fleet.md", FleetDoc)
           /\ a \in public \ Remote => InPlace(a, "AGENTS.md", RulesDoc(a)))

(* The manager keeps to its own files: a commit it makes for a document     *)
(* changes that file alone, although git may still hold what a refused      *)
(* snapshot staged (fleet-doc.ts: "other staged changes ... must never ride *)
(* along"), and no pass, seed or creation replaces a file that is there by  *)
(* anything but a document (init.ts: "Existing files are never touched").   *)
OthersWorkIsLeftAlone ==
  [][\A a \in Crew :
       /\ disk'[a].tip.by = "manager" =>
            "work" \notin disk'[a].tip.of /\ Cardinality(disk'[a].tip.of) = 1
       /\ \A f \in File : disk'[a].tree[f] # disk[a].tree[f] =>
            \/ disk[a].tree[f] = None
            \/ disk'[a].tree[f] = Edited
            \/ f # "work" /\ disk'[a].tree[f] # Template]_docVars
=============================================================================

---------------------------- MODULE MCWorkspace ----------------------------
(* Two runs of one agent, started in either order, and an operator; beside  *)
(* them, as a system of its own, the documents of a local and a remote agent*)
(* (a run's snapshot is abridged there, a pass has no part here).           *)
EXTENDS Workspace, Documents, TLC

CONSTANTS a1, r1, r2, local, remote, none, operator

MCAgents == {a1}
MCRuns == {r1, r2}
MCCalls == MCRuns \X {"pre", "post"}
MCAgentOf == [c \in MCCalls |-> a1]
MCCrew == {local, remote}
MCRemote == {remote}
MCFirstDisks == {local :> d @@ remote :> Missing : d \in {Notebook, EmptyDirectory}}

VARIABLE part

mcVars == <<part, vars, docVars>>

(* The system that does not move starts in one of its initial states.       *)
MCInit ==
  /\ Init /\ DocsInit
  /\ \/ part = "runs" /\ public = {} /\ disk[local] = Notebook
     \/ part = "documents" /\ dirty = [a \in Agents |-> {}]

MCNext ==
  /\ UNCHANGED part
  /\ \/ part = "runs" /\ Next /\ UNCHANGED docVars
     \/ part = "documents" /\ DocsNext /\ UNCHANGED vars

(* The fairness of FairSpec and of DocsFairness, each for its own part.     *)
MCSpec ==
  /\ MCInit /\ [][MCNext]_mcVars
  /\ \A r \in Runs : WF_vars(part = "runs" /\ RunStep(r))
  /\ \A p \in Passes : WF_docVars(part = "documents" /\ PassStep(p))
  /\ \A a \in Crew : WF_docVars(part = "documents" /\ SnapshotStep(a))
=============================================================================

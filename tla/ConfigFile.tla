----------------------------- MODULE ConfigFile -----------------------------
(***************************************************************************)
(* What manager.config.yaml may say (config.ts, loadConfig): the web of    *)
(* rules between nodes, agents, services and machines that decides whether *)
(* a manager starts with it; and how the service editor sees and changes   *)
(* it (services/config-edit.ts).  A file is a record of three functions;   *)
(* the config in memory has the same shape.                                *)
(***************************************************************************)
EXTENDS Integers, FiniteSets

CONSTANTS Nodes,        \* names of nodes, and of their agents
          ServiceIds,
          Here,         \* the manager's own machine: 'local'
          Hosts,        \* the machines of the fleet
          NoEndpoint, NoAgent, NoDeclaration

\* What a file, and a declaration of a service in the editor, may hold.
EndpointRow == [runner : {"docker", "agent", "process"}, host : Hosts \cup {Here},
                sandbox : BOOLEAN, cap : {"absent", "number", "null"}]
AgentRow == [endpoint : Nodes, public : BOOLEAN, model : {"none", "half", "byModel", "byPair"},
             sandbox : BOOLEAN]
Declaration == [workers : SUBSET Nodes, count : Nat, pin : BOOLEAN, machines : SUBSET Hosts,
                perMachine : Nat, thresholds : BOOLEAN]
File == [endpoints : [Nodes -> EndpointRow \cup {NoEndpoint}],
         agents : [Nodes -> AgentRow \cup {NoAgent}],
         services : [ServiceIds -> Declaration \cup {NoDeclaration}]]
DraftRow == [workers : SUBSET Nodes, pin : BOOLEAN, machines : SUBSET Hosts, perMachine : Nat,
          thresholds : BOOLEAN]

EndpointsOf(f) == {n \in Nodes : f.endpoints[n] # NoEndpoint}
AgentsOf(f) == {a \in Nodes : f.agents[a] # NoAgent}
ServicesOf(f) == {s \in ServiceIds : f.services[s] # NoDeclaration}

----------------------------------------------------------------------------
(* The rules.                                                              *)

\* A memory cap is a number or left out; a runner and its place go together.
SpawnSchema(e) == e.cap # "null" /\ (e.runner = "agent") = (e.host # Here)

\* The keys are those of the environment of the process that reads the file.
EndpointsKeyed(f, env) == \A n \in EndpointsOf(f) : f.endpoints[n].sandbox => n \in env

AgentsResolve(f) == \A a \in AgentsOf(f) : f.agents[a].endpoint \in EndpointsOf(f)

SandboxHasRoute(f) ==
    \A a \in AgentsOf(f) : f.agents[a].sandbox => f.endpoints[f.agents[a].endpoint].sandbox

OneAgentPerProcess(f) ==
    \A a, b \in AgentsOf(f) : f.agents[a].endpoint = f.agents[b].endpoint => a = b

\* A rate is found by the model or by provider and model.
Priced(agent) == agent.model \in {"byModel", "byPair"}
ModelsArePinned(f) ==
    \A a \in AgentsOf(f) : f.agents[a].model # "half" /\ (f.agents[a].public => Priced(f.agents[a]))

ServicesHold(f) ==
    \A s \in ServicesOf(f) :
        LET svc == f.services[s] IN
        /\ \A w \in svc.workers : w \in AgentsOf(f) /\ f.agents[w].public
        /\ svc.pin = (svc.machines # {})
        /\ svc.pin => svc.count <= Cardinality(svc.machines) * svc.perMachine
        /\ svc.count = Cardinality(svc.workers)

MachineOf(f, a) == IF f.agents[a].endpoint \in EndpointsOf(f)
                   THEN f.endpoints[f.agents[a].endpoint].host ELSE Here

\* Outward agents are among themselves on a machine, and of one service.
MachinesSegregated(f) ==
    /\ \A a, b \in AgentsOf(f) :
          MachineOf(f, a) = MachineOf(f, b) => f.agents[a].public = f.agents[b].public
    /\ \A s, t \in ServicesOf(f) : \A v \in f.services[s].workers, w \in f.services[t].workers :
          MachineOf(f, v) = MachineOf(f, w) => s = t

FileSchema(f) ==
    /\ EndpointsOf(f) # {} /\ AgentsOf(f) # {}
    /\ \A n \in EndpointsOf(f) : SpawnSchema(f.endpoints[n])
    /\ \A s \in ServicesOf(f) : f.services[s].workers # {}

\* loadConfig
Loads(f, env) ==
    /\ FileSchema(f) /\ EndpointsKeyed(f, env)
    /\ AgentsResolve(f) /\ SandboxHasRoute(f) /\ OneAgentPerProcess(f)
    /\ ModelsArePinned(f) /\ ServicesHold(f) /\ MachinesSegregated(f)

----------------------------------------------------------------------------
(* The editor.                                                             *)

Watermarks(f, s, draft) ==
    draft.thresholds \/ (f.services[s] # NoDeclaration /\ f.services[s].thresholds)

\* Mutation of EntryOf: the machines of a placement no longer chosen stay.
EntryOfKeepsMachines(f, s, draft) ==
    [workers |-> draft.workers, count |-> Cardinality(draft.workers),
     pin |-> draft.pin, machines |-> draft.machines, perMachine |-> draft.perMachine,
     thresholds |-> Watermarks(f, s, draft)]

\* serviceEntryOf, entryOf: a draft as the file spells it; the watermarks the
\* form does not show are those of the file.
EntryOf(f, s, draft) ==
    [workers |-> draft.workers, count |-> Cardinality(draft.workers),
     pin |-> draft.pin, machines |-> IF draft.pin THEN draft.machines ELSE {},
     perMachine |-> draft.perMachine, thresholds |-> Watermarks(f, s, draft)]

MergeInto(f, s, draft) == [f EXCEPT !.services[s] = EntryOf(f, s, draft)]

\* previewService: the loader of this process on the candidate.
Preview(f, s, draft, env) == Loads(MergeInto(f, s, draft), env)

ServiceOf(config, a) == {s \in ServicesOf(config) : a \in config.services[s].workers}

\* Why a public agent of the config cannot be picked; a rate is looked up by
\* the model only.
BlockedReason(config, a) ==
    CASE config.agents[a].model \in {"none", "half"} -> "no model pin"
      [] config.agents[a].model # "byModel" -> "no rate"
      [] ServiceOf(config, a) # {} -> "already serves"
      [] OTHER -> "none"

\* serviceEditorContext: the agents offered.
Offered(config) ==
    {a \in AgentsOf(config) : config.agents[a].public /\ BlockedReason(config, a) = "none"}
=============================================================================

---------------------------- MODULE Provisioning ----------------------------
(***************************************************************************)
(* How nodes come and go while the manager runs (routes/provision.ts), and *)
(* how services are declared (services/config-edit.ts, routes/             *)
(* config-services.ts).  A creation writes .env and the config file, puts  *)
(* the node into memory and then waits for the reconciler; if that fails   *)
(* it takes back what it did, from a copy of the files made before.  What  *)
(* comes before that wait runs without interruption: the bodies under the  *)
(* config lock do not wait.  An operator edits the file by hand, and the   *)
(* manager is restarted.                                                   *)
(***************************************************************************)
EXTENDS ConfigFile

CONSTANTS Posts,      \* the creations
          NoPost, NoSupervisor,
          Boot,       \* whose supervisor one is that the boot made
          FirstFile,  \* the file of the first boot
          Drafts,     \* the declarations a form may hold
          MaxEdits    \* bound of the edits by hand

VARIABLES file,         \* manager.config.yaml
          env,          \* the nodes whose key is in .env
          proc,         \* those whose key is in the environment of the process
          config,       \* the config in memory
          supervisors,  \* by node: whose it is
          running,      \* the supervisors that were started
          agentRows,         \* the table agent
          posts,        \* the creations, with what they take back if they fail
          edits         \* bound: the edits by hand so far

\* A creation, with how it ended.
Post == [node : Nodes, agent : Nodes, runner : {"docker", "agent", "process"},
         ended : {"no", "ok", "rolledBack", "lost"}, installing : BOOLEAN, started : BOOLEAN,
         newRow : BOOLEAN, fileBefore : File, envBefore : SUBSET Nodes]

ASSUME ProvisionAssumption ==
    /\ IsFiniteSet(Nodes) /\ FirstFile \in File /\ Drafts \subseteq DraftRow
    /\ NoPost \notin Post /\ Boot \notin Posts /\ NoSupervisor \notin Posts \cup {Boot}

configVars == <<file, env, proc, config, supervisors, running, agentRows, posts, edits>>

ProvisionInit ==
    /\ file = FirstFile
    /\ config = FirstFile
    /\ env = EndpointsOf(FirstFile)
    /\ proc = env
    /\ supervisors = [n \in Nodes |-> IF n \in EndpointsOf(FirstFile) THEN Boot ELSE NoSupervisor]
    /\ running = {<<n, Boot>> : n \in EndpointsOf(FirstFile)}
    /\ agentRows = AgentsOf(FirstFile)
    /\ posts = [p \in Posts |-> NoPost]
    /\ edits = 0

----------------------------------------------------------------------------
(* Creation.                                                               *)

Endpoint(runner, host) ==
    [runner |-> runner, host |-> host, sandbox |-> TRUE,
     cap |-> IF runner = "docker" THEN "null" ELSE "absent"]

\* hotLoadAgent, and the same in the file: inward, without a model.
NewAgent(n) == [endpoint |-> n, public |-> FALSE, model |-> "none", sandbox |-> TRUE]

WithNode(f, n, a, runner, host) ==
    [f EXCEPT !.endpoints[n] = Endpoint(runner, host), !.agents[a] = NewAgent(n)]

\* The checks, the copies, .env and the file, memory and the mirror of the
\* agents.  A node of a process waits for its dependencies in the background.
CreateNode(p) ==
    \E n, a \in Nodes, runner \in {"docker", "agent", "process"} :
    \E host \in IF runner = "agent" THEN Hosts ELSE {Here} :
       /\ posts[p] = NoPost
       /\ n \notin EndpointsOf(config) /\ a \notin AgentsOf(config)
       /\ posts' = [posts EXCEPT ![p] =
             [node |-> n, agent |-> a, runner |-> runner, ended |-> "no", installing |-> runner = "process",
              started |-> runner # "process", newRow |-> a \notin agentRows,
              fileBefore |-> file, envBefore |-> env]]
       /\ env' = env \cup {n}
       /\ file' = WithNode(file, n, a, runner, host)
       /\ config' = WithNode(config, n, a, runner, host)
       /\ supervisors' = [supervisors EXCEPT ![n] = p]
       /\ agentRows' = agentRows \cup AgentsOf(config')
       /\ UNCHANGED <<proc, running, edits>>

\* convergeNodes for one node: whoever's it is by now.
Converge(n) ==
    running' = IF n \in EndpointsOf(config) /\ supervisors[n] # NoSupervisor
               THEN running \cup {<<n, supervisors[n]>>} ELSE running

\* The reconciler is done: the node was started, a container only if docker
\* could be reached; that of a process waits for its dependencies.
NodeCreated(p) ==
    /\ posts[p] # NoPost /\ posts[p].ended = "no"
    /\ posts' = [posts EXCEPT ![p].ended = "ok", ![p].fileBefore = FirstFile, ![p].envBefore = {}]
    /\ \/ posts[p].runner # "process" /\ Converge(posts[p].node)
       \/ posts[p].runner # "agent" /\ UNCHANGED running
    /\ UNCHANGED <<file, env, proc, config, supervisors, agentRows, edits>>

\* installNodeDepsAsync has ended, well or not: startAfterInstall.
Installed(p) ==
    /\ posts[p] # NoPost /\ posts[p].installing
    /\ IF posts[p].ended = "rolledBack"
       THEN posts' = [posts EXCEPT ![p].installing = FALSE] /\ UNCHANGED running
       ELSE posts' = [posts EXCEPT ![p].installing = FALSE, ![p].started = TRUE] /\ Converge(posts[p].node)
    /\ UNCHANGED <<file, env, proc, config, supervisors, agentRows, edits>>

\* Mutation of Rollback: the node stays in memory.
RollbackKeepsNode(p) ==
    LET post == posts[p] IN
    /\ post # NoPost /\ post.ended = "no"
    /\ posts' = [posts EXCEPT ![p].ended = "rolledBack", ![p].fileBefore = FirstFile, ![p].envBefore = {}]
    /\ running' = IF post.started THEN running \ {<<post.node, p>>} ELSE running
    /\ supervisors' = IF post.started THEN [supervisors EXCEPT ![post.node] = NoSupervisor] ELSE supervisors
    /\ config' = [config EXCEPT !.agents[post.agent] = NoAgent]
    /\ agentRows' = (IF post.newRow THEN agentRows \ {post.agent} ELSE agentRows) \cup AgentsOf(config')
    /\ file' = post.fileBefore
    /\ env' = post.envBefore
    /\ UNCHANGED <<proc, edits>>

\* The reconciler threw: the steps are taken back in reverse, by name, and the
\* files put back as they were before this creation.
Rollback(p) ==
    LET post == posts[p] IN
    /\ post # NoPost /\ post.ended = "no"
    /\ posts' = [posts EXCEPT ![p].ended = "rolledBack", ![p].fileBefore = FirstFile, ![p].envBefore = {}]
    /\ running' = IF post.started THEN running \ {<<post.node, p>>} ELSE running
    /\ supervisors' = IF post.started THEN [supervisors EXCEPT ![post.node] = NoSupervisor] ELSE supervisors
    /\ config' = [config EXCEPT !.endpoints[post.node] = NoEndpoint, !.agents[post.agent] = NoAgent]
    /\ agentRows' = (IF post.newRow THEN agentRows \ {post.agent} ELSE agentRows) \cup AgentsOf(config')
    /\ file' = post.fileBefore
    /\ env' = post.envBefore
    /\ UNCHANGED <<proc, edits>>

----------------------------------------------------------------------------
(* Deletion.                                                               *)

\* The agentRows stay until the next boot, and so does the key.
DeleteNode(n) ==
    LET bound == {a \in AgentsOf(config) : config.agents[a].endpoint = n}
        Without(f) == [f EXCEPT !.endpoints[n] = NoEndpoint,
                                !.agents = [a \in Nodes |-> IF a \in bound THEN NoAgent ELSE f.agents[a]]]
    IN /\ n \in EndpointsOf(config) /\ supervisors[n] # NoSupervisor
       /\ running' = running \ {<<n, supervisors[n]>>}
       /\ supervisors' = [supervisors EXCEPT ![n] = NoSupervisor]
       /\ config' = Without(config)
       /\ file' = Without(file)
       /\ agentRows' = agentRows \cup AgentsOf(config')
       /\ UNCHANGED <<env, proc, posts, edits>>

----------------------------------------------------------------------------
(* Services.                                                               *)

\* The services as the file has them; who is outward follows the file too.
HotSwap(f) ==
    config' = [config EXCEPT
        !.services = f.services,
        !.agents = [a \in Nodes |-> IF a \in AgentsOf(config) /\ a \in AgentsOf(f)
                                    THEN [config.agents[a] EXCEPT !.public = f.agents[a].public]
                                    ELSE config.agents[a]]]

\* What does not load is refused (and so is a draft that comes with the hash of
\* another file: also a call without a hash is taken).
ApplyService(s) ==
    \E draft \in Drafts :
       /\ Preview(file, s, draft, proc)
       /\ file' = MergeInto(file, s, draft)
       /\ HotSwap(file')
       /\ agentRows' = agentRows \cup AgentsOf(config)
       /\ UNCHANGED <<env, proc, supervisors, running, posts, edits>>

DeleteService(s) ==
    /\ s \in ServicesOf(file)
    /\ file' = [file EXCEPT !.services[s] = NoDeclaration]
    /\ Loads(file', proc)
    /\ config' = [config EXCEPT !.services = file'.services]
    /\ agentRows' = agentRows \cup AgentsOf(config)
    /\ UNCHANGED <<env, proc, supervisors, running, posts, edits>>

----------------------------------------------------------------------------
(* The operator.                                                           *)

\* Makes an agent an outward one, or gives it a model.
HandEdit ==
    /\ \E a \in AgentsOf(file), public \in BOOLEAN, model \in {"none", "byModel", "byPair"} :
          file' = [file EXCEPT !.agents[a].public = public, !.agents[a].model = model]
    /\ edits < MaxEdits /\ edits' = edits + 1
    /\ UNCHANGED <<env, proc, config, supervisors, running, agentRows, posts>>

\* It starts only with a file that loads.
Restart ==
    /\ Loads(file, env)
    /\ config' = file
    /\ proc' = env
    /\ supervisors' = [n \in Nodes |-> IF n \in EndpointsOf(file) THEN Boot ELSE NoSupervisor]
    /\ running' = {<<n, Boot>> : n \in EndpointsOf(file)}
    /\ agentRows' = AgentsOf(file)
    /\ posts' = [p \in Posts |-> IF posts[p] = NoPost THEN NoPost
                                 ELSE [posts[p] EXCEPT !.ended = "lost", !.installing = FALSE,
                                                  !.fileBefore = FirstFile, !.envBefore = {}]]
    /\ UNCHANGED <<file, env, edits>>

\* The periodic reconcile drops the agentRows of agents that are gone.
TickMirror ==
    /\ agentRows' = AgentsOf(config)
    /\ UNCHANGED <<file, env, proc, config, supervisors, running, posts, edits>>

ProvisionNext ==
    \/ \E p \in Posts : CreateNode(p) \/ NodeCreated(p) \/ Installed(p) \/ Rollback(p)
    \/ \E n \in Nodes : DeleteNode(n)
    \/ \E s \in ServiceIds : ApplyService(s) \/ DeleteService(s)
    \/ HandEdit \/ Restart \/ TickMirror

ProvisionSpec == ProvisionInit /\ [][ProvisionNext]_configVars

----------------------------------------------------------------------------

\* Every node in memory has a supervisor, and of a creation that failed nothing
\* is left in memory and nothing runs, whatever else was created, deleted and
\* installed meanwhile -- unless the name was given again.
NodesAreWhole ==
    /\ \A n \in EndpointsOf(config) : supervisors[n] # NoSupervisor
    /\ \A p \in Posts : posts[p] # NoPost /\ posts[p].ended = "rolledBack" =>
          LET again == \E q \in Posts \ {p} : posts[q] # NoPost /\ posts[q].node = posts[p].node
          IN ~again => /\ <<posts[p].node, p>> \notin running
                       /\ posts[p].node \in EndpointsOf(config) => supervisors[posts[p].node] # p

\* What the editor offers is what the loader takes: of a file that loads and is
\* the one in memory, a new service of agents that are offered, on machines that
\* serve no other, loads, whatever machines the form had for a placement before.
OffersAreTaken ==
    config = file /\ Loads(file, proc) =>
        \A workers \in (SUBSET Offered(config)) \ {{}}, s \in ServiceIds \ ServicesOf(config) :
            (\A a \in workers, b \in AgentsOf(config) :
                 MachineOf(config, b) = MachineOf(config, a) => ServiceOf(config, b) = {})
                => Preview(file, s, [workers |-> workers, pin |-> FALSE, machines |-> Hosts,
                                     perMachine |-> 1, thresholds |-> FALSE], proc)

\* The manager writes no file it would refuse to boot with over one it would not.
\* Refuted: the creation of a node in a container writes a memory cap of null.
FileBoots == [][Loads(file, env) /\ ~Loads(file', env') => HandEdit]_configVars

\* The answer of the preview is the answer of the boot.  Refuted: the key of a
\* node that was created is in .env, not in the environment of the process.
VerdictIsTheBootAnswer ==
    \A s \in ServiceIds, draft \in Drafts : Preview(file, s, draft, proc) = Preview(file, s, draft, env)
=============================================================================

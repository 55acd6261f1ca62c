-------------------------------- MODULE Fleet --------------------------------
(***************************************************************************)
(* A node of the fleet from end to end: the supervisor in the manager, the  *)
(* machine an agent node runs on, the command channel between the two, and  *)
(* the watchdog that looks on.                                              *)
(***************************************************************************)
EXTENDS Supervisor, AgentNodes, Watchdog

VARIABLE online   \* the manager hears the machine's heartbeat

vars == <<supVars, machineVars, watchVars, online>>

Remote == runner = "agent"

Init == SupervisorInit /\ MachineInit /\ WatchInit /\ online = TRUE

-----------------------------------------------------------------------------
(* The manager's own steps.                                                 *)

ReadyProbeStep ==
  \/ \E named \in BOOLEAN : ReadyTimerFires(named)
  \/ ReadyProbeIsMoot
  \/ ReadyProbeSucceeds
  \/ ReadyProbeFails

ContainerStep ==
  \/ \E g \in Launches : ContainerStarts(g)
  \/ \E g \in Launches : LaunchFails(g)
  \/ \E g \in Launches : LaunchSettles(g)
  \/ \E stop \in sup.stops : ContainerStops(stop) \/ ContainerStopFails(stop)

SupervisorStep ==
  /\ \/ ChildExits
     \/ RestartTimerFires
     \/ ReadyProbeStep
     \/ ReadyDeadlinePasses
     \/ ContainerStep
     \/ \E c \in containers : ContainerVanishes(c)
     \/ Up
     \/ Down
     \/ RestartByHand
     \/ Tick
     \/ \E ok \in BOOLEAN : TickProbed(ok)
  /\ UNCHANGED <<machineVars, watchVars, online>>

Restarted ==
  /\ \E orderly, matches \in BOOLEAN : ManagerRestarts(orderly, matches)
  /\ last' = [x \in Subjects |-> "none"]
  /\ UNCHANGED <<machineVars, bell, online>>

-----------------------------------------------------------------------------
(* The machine and the channel.                                             *)

MachineStep ==
  /\ Remote
  /\ \/ TakeSpawn \/ AlreadyRunning \/ Install \/ InstallFails \/ Spawn
     \/ TakeStop \/ KillTakes \/ ForgetSpawn \/ KillFails
  /\ UNCHANGED <<supVars, watchVars, online>>

MachineMishap ==
  /\ Remote
  /\ \/ \E p \in procs : ProcessDies(p)
     \/ \E reboot \in BOOLEAN : AgentRestarts(reboot)
  /\ UNCHANGED <<supVars, watchVars, online>>

(* A round of the agent begins: it claims all that is queued.               *)
Poll ==
  /\ Remote /\ online /\ job = Idle /\ inbox = <<>> /\ outcomes = {} /\ sup.sent # <<>>
  /\ inbox' = sup.sent /\ sup' = [sup EXCEPT !.sent = <<>>]
  /\ UNCHANGED <<runner, tick, containers, byHand, givenUp, watchVars, online,
                 job, step, outcomes, OnDisk, procs, pids, lastCommand, cutShort>>

(* ... and ends: the outcomes are reported, or the report gets lost.        *)
Report(o) ==
  /\ job = Idle /\ inbox = <<>> /\ outcomes' = outcomes \ {o}
  /\ IF o.type = "spawn" THEN SpawnResult(o.gen, o.ok) ELSE UNCHANGED supVars
  /\ UNCHANGED <<inbox, job, step, OnDisk, procs, pids, lastCommand, cutShort,
                 watchVars, online>>

ReportLost ==
  /\ job = Idle /\ inbox = <<>> /\ outcomes # {}
  /\ outcomes' = {} /\ cutShort' = TRUE
  /\ UNCHANGED <<inbox, job, step, OnDisk, procs, pids, lastCommand, supVars,
                 watchVars, online>>

(* The heartbeat stays away; it comes back, and the machine's nodes are     *)
(* resumed.                                                                 *)
HeartbeatLost ==
  Remote /\ online /\ online' = FALSE /\ UNCHANGED <<supVars, machineVars, watchVars>>

HeartbeatBack ==
  /\ ~online /\ online' = TRUE /\ MachineIsBack
  /\ UNCHANGED <<machineVars, watchVars>>

Watch ==
  /\ Remote
  /\ Sweep(online, sup.state) \/ MarkRead
  /\ UNCHANGED <<supVars, machineVars, online>>

Next ==
  \/ SupervisorStep \/ Restarted \/ MachineStep \/ MachineMishap
  \/ Poll \/ (\E o \in outcomes : Report(o)) \/ ReportLost
  \/ HeartbeatLost \/ HeartbeatBack \/ Watch

(* Probes carry a timeout and their deadline comes between two restarts of  *)
(* the manager; a killed child exits; docker answers launches and stops.    *)
(* Nothing else is fair.                                                    *)
Fairness ==
  /\ WF_vars(ReadyProbeStep /\ UNCHANGED <<machineVars, watchVars, online>>)
  /\ SF_vars(sup.child = "dying" /\ ChildExits /\ UNCHANGED <<machineVars, watchVars, online>>)
  /\ SF_vars(ReadyDeadlinePasses /\ UNCHANGED <<machineVars, watchVars, online>>)
  /\ \A g \in Launches :
       WF_vars((ContainerStarts(g) \/ LaunchFails(g) \/ LaunchSettles(g))
               /\ UNCHANGED <<machineVars, watchVars, online>>)
  /\ \A g \in Launches :
       WF_vars((\E stop \in sup.stops : stop.id = g /\ (ContainerStops(stop) \/ ContainerStopFails(stop)))
               /\ UNCHANGED <<machineVars, watchVars, online>>)

Spec == Init /\ [][Next]_vars

FairSpec == Spec /\ Fairness

-----------------------------------------------------------------------------
(* Types.                                                                   *)
TypeOK ==
  /\ runner \in Runners
  /\ sup.state \in {"cold", "starting", "live", "restarting", "offline"}
  /\ sup.child \in {"none", "up", "dying"}
  /\ sup.containerId \in {None} \cup Launches /\ containers \subseteq Launches
  /\ {sup.attempts, sup.asking, sup.sleeping, sup.liveProbeFailures} \subseteq Nat
  /\ sup.readyTimer => sup.sleeping > 0
  /\ step \in {"none", "checking", "installing", "killing", "killed"}
  /\ nodePid \in 0..pids /\ procs \subseteq 1..pids
  /\ (job = Idle) = (step = "none")
  /\ last \in [Subjects -> {"none", "offline", "online"}]

(* An agent node runs at most once, whatever is queued again and however    *)
(* often the agent recovers: two would fight over one port.                 *)
OneInstance == Cardinality(procs) <= 1

(* A container that runs is the supervisor's, or about to be stopped, or its *)
(* launch still has to find out whether it is wanted; only those the live   *)
(* probe gave up or docker would not stop are left to themselves.           *)
OrphansAreFinished ==
  \A c \in containers :
    \/ c = sup.containerId
    \/ \E stop \in sup.stops : stop.id = c
    \/ sup.launches[c] = "started"
    \/ c \in givenUp

(* A stop is an intent: once the agent has carried it out, neither a process *)
(* nor a payload to recover from is left until the next spawn, unless the    *)
(* agent died over a command or a stop failed.                              *)
StoppedStaysStopped ==
  job = Idle /\ lastCommand = "stop" /\ ~cutShort => procs = {} /\ ~spawnJson

(* A machine the watchdog last saw silent is the subject of the latest      *)
(* notification about it: no outage goes untold after a recovery.           *)
MachineOutageIsTold == last["machine"] = "offline" => bell["machine"].latest = "down"

(* A start ends, in live, restarting, offline or cold, unless the bound on  *)
(* launches is used up or a stop that failed has left it behind.  An agent  *)
(* node may start for ever: see README.                                     *)
StartEnds ==
  (sup.state = "starting" /\ ~Remote)
    ~> \/ sup.state # "starting" \/ sup.launchGen >= MaxLaunches
       \/ givenUp # {}

-----------------------------------------------------------------------------
(* Said in src/src/nodes/supervisor.ts:23: the stop path settles to cold     *)
(* instead of restarting; so a node a person has stopped does not start by  *)
(* itself.                                                                  *)
StoppedByHandStaysDown ==
  [][byHand /\ byHand' => (sup'.state = "starting" => sup.state = "starting")]_vars

(* Said in src/src/fleet/watchdog.ts:10: a transition is reported once.      *)
NodeOutageIsTold == last["node"] = "offline" => bell["node"].latest = "down"
=============================================================================

----------------------------- MODULE Supervisor -----------------------------
(***************************************************************************)
(* The supervisor of one managed node, src/src/nodes/supervisor.ts.         *)
(*                                                                         *)
(* Its methods call one another before anything else may run (restart ->    *)
(* stop -> startAgent), so each is an operator from the supervisor's state  *)
(* to the next; the actions are the callbacks and requests that call them.  *)
(* What runs outside is here as the supervisor sees it: the child process,  *)
(* the containers of the node's name, the queue of agent commands.          *)
(***************************************************************************)
EXTENDS Naturals, Sequences, FiniteSets

CONSTANTS
  Runners,      \* the runners to look at: process, docker, agent
  MaxAttempts,  \* spec.restart.maxAttempts
  Threshold,    \* LIVE_PROBE_THRESHOLD
  MaxLaunches,  \* bound on the launch generation
  MaxProbes     \* bound on the ready probes under way

ASSUME SupervisorAssumption ==
  /\ Runners \subseteq {"process", "docker", "agent"}
  /\ {MaxAttempts, Threshold, MaxLaunches, MaxProbes} \subseteq Nat \ {0}

VARIABLES
  runner,      \* spec.runner
  sup,         \* the supervisor, see Fresh
  tick,        \* the periodic reconcile awaits its live probe
  containers,  \* the containers of the node that run
  byHand,      \* history: the last thing a person asked for is that it be down
  givenUp      \* history: containers left running: the live probe gave them
               \* up, or docker refused to stop them

supVars == <<runner, sup, tick, containers, byHand, givenUp>>

None == 0
Launches == 1..MaxLaunches + 2   \* a step that Becomes refuses may go beyond

(* A supervisor as constructed.  asking and sleeping count its ready        *)
(* probes, on their way or between two polls; readyTimer says that one of   *)
(* the sleeping is the one the field names.  generation names launches, for *)
(* the database never repeats a command's id either.                        *)
Fresh(generation) ==
  [ state |-> "cold", attempts |-> 0, manualStop |-> FALSE,
    restartRequested |-> FALSE, restartTimer |-> FALSE, launchGen |-> generation,
    asking |-> 0, sleeping |-> 0, readyTimer |-> FALSE, liveProbeFailures |-> 0,
    child |-> "none", containerId |-> None,
    launches |-> [g \in Launches |-> "none"], stops |-> {}, sent |-> <<>> ]

-----------------------------------------------------------------------------
(* The methods.                                                             *)

Command(type, g) == [type |-> type, gen |-> g]

ArmReadyProbe(s) == [s EXCEPT !.asking = @ + 1]

SpawnOnce(s) == ArmReadyProbe([s EXCEPT !.state = "starting", !.child = "up"])

StartDocker(s) ==
  [s EXCEPT !.state = "starting", !.launchGen = @ + 1,
            !.launches[s.launchGen + 1] = "pulling"]

StartAgent(s) ==
  [s EXCEPT !.state = "starting", !.launchGen = @ + 1,
            !.sent = Append(@, Command("spawn", s.launchGen + 1))]

EnqueueStop(s) == [s EXCEPT !.sent = Append(@, Command("stop", None))]

Launch(s) ==
  CASE runner = "process" -> SpawnOnce(s)
    [] runner = "docker" -> StartDocker(s)
    [] runner = "agent" -> StartAgent(s)

Start(s) ==
  IF \/ s.restartTimer \/ s.state = "starting"
     \/ runner = "docker" /\ s.containerId # None
     \/ runner = "process" /\ s.child # "none"
  THEN s ELSE Launch([s EXCEPT !.manualStop = FALSE])

ClearReadyTimer(s) ==
  IF s.readyTimer THEN [s EXCEPT !.readyTimer = FALSE, !.sleeping = @ - 1] ELSE s

Again(s) ==
  Launch([s EXCEPT !.restartRequested = FALSE, !.manualStop = FALSE,
                   !.state = "cold", !.attempts = 0])

Settled(s) == IF s.restartRequested THEN Again(s) ELSE [s EXCEPT !.state = "cold"]

Stop(old) ==
  LET s == ClearReadyTimer([old EXCEPT !.manualStop = TRUE, !.launchGen = @ + 1,
                                       !.restartTimer = FALSE])
  IN CASE runner = "agent" -> Settled(EnqueueStop(s))
       [] runner = "docker" /\ s.containerId # None ->
            [s EXCEPT !.containerId = None,
                      !.stops = @ \cup {[id |-> s.containerId, settles |-> TRUE]}]
       [] runner = "process" /\ s.child # "none" -> [s EXCEPT !.child = "dying"]
       [] OTHER -> [s EXCEPT !.state = "cold"]

Restart(s) ==
  IF runner # "agent" /\ s.child = "none" /\ s.containerId = None /\ ~s.restartTimer
  THEN Start(s) ELSE Stop([s EXCEPT !.restartRequested = TRUE])

Resume(s) ==
  CASE \/ s.manualStop \/ s.restartTimer
       \/ s.state \in {"live", "starting", "restarting"} -> s
    [] OTHER -> IF runner # "agent" /\ s.state = "offline" THEN Restart(s)
                ELSE IF s.child # "none" THEN s ELSE Launch(s)

Adopt(s, c) ==
  ArmReadyProbe([s EXCEPT !.containerId = c, !.manualStop = FALSE,
                          !.launchGen = @ + 1, !.state = "starting"])

DecideAfterExit(attempts) == IF attempts >= MaxAttempts THEN "offline" ELSE "restarting"

(* attempts counts on in the code; beyond MaxAttempts it makes no difference.*)
FailAndRetry(s) ==
  LET next == DecideAfterExit(s.attempts + 1) IN
  IF s.manualStop THEN [s EXCEPT !.state = "cold"]
  ELSE [s EXCEPT !.attempts = IF @ < MaxAttempts THEN @ + 1 ELSE @, !.state = next, !.restartTimer = next = "restarting"]

OnExit(old) ==
  LET s == ClearReadyTimer([old EXCEPT !.child = "none"]) IN
  IF s.manualStop THEN Settled(s) ELSE FailAndRetry(s)

(* armReadyProbe would leave a process that is not ready alone (a mutation). *)
GiveUpQuietly(s) ==
  CASE runner = "process" -> s
    [] OTHER -> FailAndRetry([s EXCEPT !.containerId = None])

(* What armReadyProbe does once its deadline has passed.                    *)
GiveUpStart(s) ==
  CASE runner = "agent" -> FailAndRetry(EnqueueStop(s))
    [] runner = "docker" ->
         FailAndRetry([s EXCEPT
           !.containerId = None,
           !.stops = IF s.containerId = None THEN @
                     ELSE @ \cup {[id |-> s.containerId, settles |-> FALSE]}])
    [] runner = "process" ->
         [s EXCEPT !.child = IF @ = "none" THEN @ ELSE "dying"]

-----------------------------------------------------------------------------
(* The callbacks.  Becomes(s) keeps launches and probes within their        *)
(* bounds.                                                                  *)

Becomes(s) ==
  /\ s.launchGen <= MaxLaunches /\ s.asking + s.sleeping <= MaxProbes
  /\ sup' = s

Callback == UNCHANGED <<runner, tick, byHand, givenUp>>

(* The child exits, or could not be spawned.                                *)
ChildExits ==
  sup.child # "none" /\ Becomes(OnExit(sup)) /\ Callback /\ UNCHANGED containers

RestartTimerFires ==
  /\ sup.restartTimer
  /\ Becomes(Launch([sup EXCEPT !.restartTimer = FALSE]))
  /\ Callback /\ UNCHANGED containers

(* A sleeping ready probe polls again; a newer timer may have taken its     *)
(* place in the field.                                                      *)
ReadyTimerFires(named) ==
  /\ sup.sleeping > 0 /\ (named => sup.readyTimer)
  /\ (~named => sup.sleeping > (IF sup.readyTimer THEN 1 ELSE 0))
  /\ sup' = [sup EXCEPT !.sleeping = @ - 1,
                        !.readyTimer = IF named THEN FALSE ELSE @,
                        !.asking = IF sup.state = "starting" THEN @ + 1 ELSE @]
  /\ Callback /\ UNCHANGED containers

(* A ready probe has its answer: too late, good, or bad and to be repeated. *)
ReadyProbeIsMoot ==
  /\ sup.asking > 0 /\ sup.state # "starting"
  /\ sup' = [sup EXCEPT !.asking = @ - 1]
  /\ Callback /\ UNCHANGED containers

ReadyProbeSucceeds ==
  /\ sup.asking > 0 /\ sup.state = "starting"
  /\ sup' = [sup EXCEPT !.asking = @ - 1, !.state = "live", !.attempts = 0]
  /\ Callback /\ UNCHANGED containers

ReadyProbeFails ==
  /\ sup.asking > 0 /\ sup.state = "starting"
  /\ sup' = [sup EXCEPT !.asking = @ - 1, !.sleeping = @ + 1, !.readyTimer = TRUE]
  /\ Callback /\ UNCHANGED containers

ReadyDeadlinePasses ==
  /\ sup.asking > 0 /\ sup.state = "starting"
  /\ Becomes(GiveUpStart([sup EXCEPT !.asking = @ - 1]))
  /\ Callback /\ UNCHANGED containers

-----------------------------------------------------------------------------
(* Containers.  A launch gives its container its own name; the leftovers of *)
(* the node's name are removed before.  Two launches that collide in        *)
(* between make one of them fail.                                           *)

ContainerStarts(g) ==
  /\ sup.launches[g] = "pulling"
  /\ containers' = {g}
  /\ sup' = [sup EXCEPT !.launches[g] = "started"]
  /\ Callback

(* startDocker, without the question whether the launch is still the        *)
(* current one (a mutation).                                                *)
LaunchSettlesAnyway(g) ==
  /\ sup.launches[g] = "started"
  /\ LET s == [sup EXCEPT !.launches[g] = "none"] IN
     sup' = IF sup.state = "starting"
            THEN ArmReadyProbe([s EXCEPT !.containerId = g])
            ELSE [s EXCEPT !.stops = @ \cup {[id |-> g, settles |-> FALSE]}]
  /\ Callback /\ UNCHANGED containers

LaunchSettles(g) ==
  /\ sup.launches[g] = "started"
  /\ LET s == [sup EXCEPT !.launches[g] = "none"] IN
     sup' = IF g = sup.launchGen /\ sup.state = "starting"
            THEN ArmReadyProbe([s EXCEPT !.containerId = g])
            ELSE [s EXCEPT !.stops = @ \cup {[id |-> g, settles |-> FALSE]}]
  /\ Callback /\ UNCHANGED containers

LaunchFails(g) ==
  /\ sup.launches[g] = "pulling"
  /\ LET s == [sup EXCEPT !.launches[g] = "none"] IN
     Becomes(IF g = sup.launchGen /\ sup.state = "starting" THEN FailAndRetry(s) ELSE s)
  /\ Callback /\ UNCHANGED containers

(* A container is stopped and removed; stop() of the supervisor waits for   *)
(* that, a launch that cleans up does not.                                  *)
ContainerStops(stop) ==
  /\ stop \in sup.stops
  /\ containers' = containers \ {stop.id}
  /\ LET s == [sup EXCEPT !.stops = @ \ {stop}] IN
     Becomes(IF stop.settles THEN Settled(s) ELSE s)
  /\ Callback

(* ... or docker refuses, and that is the end of it: no state is settled.    *)
ContainerStopFails(stop) ==
  /\ stop \in sup.stops
  /\ sup' = [sup EXCEPT !.stops = @ \ {stop}]
  /\ givenUp' = givenUp \cup {stop.id}
  /\ UNCHANGED <<runner, tick, containers, byHand>>

(* Somebody removes the container behind the manager's back.                *)
ContainerVanishes(c) ==
  c \in containers /\ containers' = containers \ {c} /\ Callback /\ UNCHANGED sup

(* The outcome of a spawn command comes back from the node's machine.       *)
SpawnResult(g, ok) ==
  /\ Becomes(IF g # sup.launchGen \/ sup.state # "starting" THEN sup
             ELSE IF ok THEN ArmReadyProbe(sup) ELSE FailAndRetry(sup))
  /\ Callback /\ UNCHANGED containers

-----------------------------------------------------------------------------
(* Requests: the node routes, and the machine that came back.               *)

Request(s, down) ==
  /\ Becomes(s) /\ byHand' = down
  /\ UNCHANGED <<runner, tick, containers, givenUp>>

Up == Request(Start(sup), FALSE)
Down == Request(Stop(sup), TRUE)
RestartByHand == Request(Restart(sup), FALSE)
MachineIsBack == runner = "agent" /\ Request(Resume(sup), byHand)

(* The periodic reconcile, healing only: an offline node is restarted, a    *)
(* live one probed first.                                                   *)
Tick ==
  /\ ~tick
  /\ \/ sup.state = "live" /\ tick' = TRUE /\ UNCHANGED sup
     \/ sup.state = "offline" /\ Becomes(Restart(sup)) /\ UNCHANGED tick
  /\ UNCHANGED <<runner, containers, byHand, givenUp>>

(* probeLive, after its probe, and what the reconcile makes of it.  The     *)
(* state is not looked at again.                                            *)
Probed(ok) ==
  IF ok THEN [sup EXCEPT !.liveProbeFailures = 0]
  ELSE IF sup.liveProbeFailures + 1 < Threshold
  THEN [sup EXCEPT !.liveProbeFailures = @ + 1]
  ELSE [sup EXCEPT !.liveProbeFailures = Threshold, !.state = "offline", !.attempts = 1,
                   !.containerId = None]

TickProbed(ok) ==
  /\ tick /\ tick' = FALSE
  /\ LET s == Probed(ok) IN
     /\ Becomes(IF s.state = "offline" THEN Restart(s) ELSE s)
     /\ givenUp' = IF s.containerId = sup.containerId THEN givenUp
                   ELSE givenUp \cup {sup.containerId}
  /\ UNCHANGED <<runner, containers, byHand>>

(* The manager goes down, in order or not, and comes up: an ordinary child  *)
(* dies with it, containers and machines go on.  A container that runs is   *)
(* adopted if it was made from the current configuration.                   *)
Boot(s, matches) ==
  LET fresh == [Fresh(s.launchGen) EXCEPT !.sent = s.sent] IN
  IF runner # "docker" \/ containers = {} THEN Start(fresh)
  ELSE IF matches THEN Adopt(fresh, CHOOSE c \in containers : TRUE) ELSE Start(fresh)

ManagerRestarts(orderly, matches) ==
  /\ Becomes(Boot(IF orderly THEN Stop(sup) ELSE sup, matches))
  /\ containers' = IF matches THEN containers ELSE {}
  /\ tick' = FALSE /\ byHand' = FALSE /\ givenUp' = {}
  /\ UNCHANGED runner

SupervisorInit ==
  /\ runner \in Runners
  /\ sup = Start(Fresh(0))
  /\ tick = FALSE /\ byHand = FALSE
  /\ containers = {} /\ givenUp = {}
=============================================================================

---------------------------- MODULE FleetProofs ----------------------------
(***************************************************************************)
(* Proofs about Fleet, for every runner and any bounds.                     *)
(*                                                                         *)
(* That no container is left to itself is inductive once it says which     *)
(* launches are the older ones (Holds): one container runs at most, *)
(* and a launch that is still to settle beside the supervisor's container  *)
(* is older than it, so it cannot take its place.  The supervisor's        *)
(* methods call one another, so each is shown to move a supervisor as      *)
(* Moves says, which is transitive.                                        *)
(***************************************************************************)
EXTENDS Fleet, FiniteSetTheorems, TLAPS

Commands == [type : {"spawn", "stop"}, gen : Nat]

Supervisors ==
  [ state : {"cold", "starting", "live", "restarting", "offline"}, attempts : Nat,
    manualStop : BOOLEAN, restartRequested : BOOLEAN, restartTimer : BOOLEAN,
    launchGen : Nat, asking : Nat, sleeping : Nat, readyTimer : BOOLEAN,
    liveProbeFailures : Nat, child : {"none", "up", "dying"},
    containerId : {None} \cup Launches,
    launches : [Launches -> {"none", "pulling", "started"}],
    stops : SUBSET [id : Launches, settles : BOOLEAN], sent : Seq(Commands) ]

Supervises(s) == s \in Supervisors /\ (s.readyTimer => s.sleeping > 0)

(* How a method takes a supervisor on: launches that begin are younger than *)
(* all before, and a container is only let go of to be stopped.             *)
Moves(s, t) ==
  /\ s.launchGen <= t.launchGen
  /\ \A g \in Launches :
       \/ t.launches[g] = s.launches[g]
       \/ /\ runner = "docker" /\ t.launches[g] = "pulling"
          /\ s.launchGen < g /\ g <= t.launchGen
  /\ s.stops \subseteq t.stops
  /\ \/ t.containerId = s.containerId
     \/ t.containerId = None /\ \E stop \in t.stops : stop.id = s.containerId
  /\ runner # "docker" => t.stops = s.stops

(* A supervisor s that holds on to the containers cs.                       *)
Holds(s, cs) ==
  /\ \A c, d \in cs : c = d
  /\ \A c \in cs : c <= s.launchGen
  /\ s.containerId <= s.launchGen
  /\ \A g \in Launches : s.launches[g] # "none" => g <= s.launchGen /\ g # s.containerId
  /\ \A g \in Launches : s.containerId \in cs /\ s.launches[g] = "started"
                           => g < s.containerId
  /\ runner # "docker" =>
       /\ cs = {} /\ s.containerId = None /\ s.stops = {}
       /\ \A g \in Launches : s.launches[g] = "none"

(* OrphansAreFinished, of any of the three.                                 *)
Finished(s, cs, up) ==
  \A c \in cs :
    \/ c = s.containerId
    \/ \E stop \in s.stops : stop.id = c
    \/ s.launches[c] = "started"
    \/ c \in up

MachineInv ==
  /\ inbox \in Seq(Commands) /\ job \in Commands \cup {Idle, Resuming}
  /\ job = Idle <=> step = "none"
  /\ step \in {"none", "checking", "installing", "killing", "killed"}
  /\ pids \in Nat /\ nodePid \in 0..pids /\ procs \subseteq 1..pids
  /\ {spawnJson, cutShort} \subseteq BOOLEAN
  /\ procs \subseteq {nodePid}
  /\ step \in {"installing", "killed"} => procs = {}
  /\ lastCommand = "stop" /\ ~cutShort =>
       \/ job = Idle /\ procs = {} /\ ~spawnJson
       \/ job.type = "stop" /\ step \in {"killing", "killed"}

WatchInv ==
  /\ last \in [Subjects -> {"none", "offline", "online"}]
  /\ bell \in [Subjects -> [unread : BOOLEAN, latest : {"none", "down", "up"}]]
  /\ last["machine"] = "offline" => bell["machine"].latest = "down"

(* Of the supervisor and its containers.                                    *)
SupInv ==
  /\ runner \in Runners /\ Supervises(sup) /\ containers \subseteq Launches
  /\ Holds(sup, containers) /\ Finished(sup, containers, givenUp)

FleetInv == SupInv /\ MachineInv /\ WatchInv

-----------------------------------------------------------------------------
(* The methods.                                                             *)

LEMMA Runner == runner \in Runners => runner \in {"process", "docker", "agent"}
BY SupervisorAssumption DEF SupervisorAssumption

(* Nothing moved is a move, and two moves are one.                          *)
LEMMA MovesNowhere == \A s : Supervises(s) => Moves(s, s)
BY DEF Moves, Supervises, Supervisors

LEMMA MovesTwice ==
  ASSUME NEW s, NEW t, NEW u, Supervises(s), Supervises(t), Supervises(u),
         Moves(s, t), Moves(t, u)
  PROVE  Moves(s, u)
<1>. s.launchGen \in Nat /\ t.launchGen \in Nat /\ u.launchGen \in Nat
  BY DEF Supervises, Supervisors
<1>1. s.launchGen <= u.launchGen
  BY DEF Moves
<1>2. ASSUME NEW g \in Launches
      PROVE  \/ u.launches[g] = s.launches[g]
             \/ /\ runner = "docker" /\ u.launches[g] = "pulling"
                /\ s.launchGen < g /\ g <= u.launchGen
  <2>. g \in Nat
    BY SupervisorAssumption DEF SupervisorAssumption, Launches
  <2>. QED  BY DEF Moves
<1>3. s.stops \subseteq u.stops
  BY DEF Moves
<1>4. \/ u.containerId = s.containerId
      \/ u.containerId = None /\ \E stop \in u.stops : stop.id = s.containerId
  BY DEF Moves
<1>5. runner # "docker" => u.stops = s.stops
  BY DEF Moves
<1>. QED  BY <1>1, <1>2, <1>3, <1>4, <1>5 DEF Moves

(* A step of a method: t is a supervisor, moved from s.                     *)
Goes(s, t) == Supervises(t) /\ Moves(s, t)

LEMMA GoesTwice ==
  ASSUME NEW s, NEW t, NEW u, Supervises(s), Goes(s, t), Goes(t, u)
  PROVE  Goes(s, u)
BY MovesTwice DEF Goes

(* What a method does to the other fields of a supervisor moves nothing.    *)
LEMMA GoesAlong ==
  ASSUME NEW s, NEW t, Supervises(s), Supervises(t),
         t.launchGen >= s.launchGen, t.launches = s.launches,
         t.stops = s.stops, t.containerId = s.containerId
  PROVE  Goes(s, t)
BY DEF Goes, Moves, Supervises, Supervisors

LEMMA ArmReadyProbeGoes == \A s : Supervises(s) => Goes(s, ArmReadyProbe(s))
<1>. SUFFICES ASSUME NEW s, Supervises(s) PROVE Goes(s, ArmReadyProbe(s))
  OBVIOUS
<1>1. Supervises(ArmReadyProbe(s))
  BY DEF ArmReadyProbe, Supervises, Supervisors
<1>. QED  BY <1>1, GoesAlong, SMTT(30) DEF ArmReadyProbe, Supervises, Supervisors

LEMMA SpawnOnceGoes == \A s : Supervises(s) => Goes(s, SpawnOnce(s))
<1>. SUFFICES ASSUME NEW s, Supervises(s) PROVE Goes(s, SpawnOnce(s))
  OBVIOUS
<1>. DEFINE up == [s EXCEPT !.state = "starting", !.child = "up"]
<1>1. Supervises(up) /\ up.launchGen = s.launchGen /\ up.launches = s.launches
      /\ up.stops = s.stops /\ up.containerId = s.containerId
  BY DEF Supervises, Supervisors
<1>. s.launchGen \in Nat
  BY DEF Supervises, Supervisors
<1>. HIDE DEF up
<1>2. Goes(s, up)
  BY <1>1, GoesAlong
<1>3. Goes(up, ArmReadyProbe(up))
  BY <1>1, ArmReadyProbeGoes
<1>4. SpawnOnce(s) = ArmReadyProbe(up)
  BY DEF SpawnOnce, up
<1>. QED  BY <1>2, <1>3, <1>4, GoesTwice

LEMMA StartDockerGoes ==
  ASSUME NEW s, Supervises(s), runner = "docker"
  PROVE  Goes(s, StartDocker(s))
<1>. DEFINE t == StartDocker(s)
<1>1. Supervises(t)
  <2>. DEFINE next == s.launchGen + 1
              launches == [s.launches EXCEPT ![next] = "pulling"]
  <2>1. next \in Nat /\ s.launches \in [Launches -> {"none", "pulling", "started"}]
    BY DEF Supervises, Supervisors
  <2>. HIDE DEF next
  <2>2. launches \in [Launches -> {"none", "pulling", "started"}]
    BY <2>1
  <2>3. t = [s EXCEPT !.state = "starting", !.launchGen = next, !.launches = launches]
    BY DEF StartDocker, Supervises, Supervisors, next
  <2>. HIDE DEF launches, t
  <2>. QED  BY <2>1, <2>2, <2>3 DEF Supervises, Supervisors
<1>2. t.launchGen = s.launchGen + 1 /\ t.stops = s.stops /\ t.containerId = s.containerId
  BY DEF StartDocker, Supervises, Supervisors
<1>3. \A g \in Launches : t.launches[g] = IF g = s.launchGen + 1 THEN "pulling" ELSE s.launches[g]
  BY DEF StartDocker, Supervises, Supervisors
<1>4. s.launchGen \in Nat
  BY DEF Supervises, Supervisors
<1>. QED  BY <1>1, <1>2, <1>3, <1>4 DEF Goes, Moves

LEMMA StartAgentGoes == \A s : Supervises(s) => Goes(s, StartAgent(s))
<1>. SUFFICES ASSUME NEW s, Supervises(s) PROVE Goes(s, StartAgent(s))
  OBVIOUS
<1>. DEFINE t == StartAgent(s)
            sent == Append(s.sent, Command("spawn", s.launchGen + 1))
<1>1. Command("spawn", s.launchGen + 1) \in Commands /\ s.sent \in Seq(Commands)
  BY DEF Command, Commands, Supervises, Supervisors
<1>2. sent \in Seq(Commands)
  BY <1>1
<1>3. Supervises(t)
  <2>1. t = [s EXCEPT !.state = "starting", !.launchGen = @ + 1, !.sent = sent]
    BY DEF StartAgent, Supervises, Supervisors
  <2>. DEFINE next == s.launchGen + 1
  <2>2. next \in Nat
    BY DEF Supervises, Supervisors
  <2>. HIDE DEF sent, next
  <2>3. [s EXCEPT !.state = "starting", !.launchGen = next, !.sent = sent] \in Supervisors
    BY <1>2, <2>2 DEF Supervises, Supervisors
  <2>4. t.readyTimer = s.readyTimer /\ t.sleeping = s.sleeping
    BY <2>1 DEF Supervises, Supervisors
  <2>. HIDE DEF t
  <2>. QED  BY <2>1, <2>3, <2>4 DEF Supervises, next
<1>4. t.launchGen >= s.launchGen /\ t.stops = s.stops /\ t.containerId = s.containerId
      /\ t.launches = s.launches /\ s.launchGen \in Nat
  BY DEF StartAgent, Supervises, Supervisors
<1>. QED  BY <1>3, <1>4, GoesAlong

LEMMA EnqueueStopGoes == \A s : Supervises(s) => Goes(s, EnqueueStop(s))
<1>. SUFFICES ASSUME NEW s, Supervises(s) PROVE Goes(s, EnqueueStop(s))
  OBVIOUS
<1>. DEFINE t == EnqueueStop(s)
            sent == Append(s.sent, Command("stop", None))
<1>1. Command("stop", None) \in Commands /\ s.sent \in Seq(Commands)
  BY DEF Command, Commands, None, Supervises, Supervisors
<1>2. sent \in Seq(Commands)
  BY <1>1
<1>3. Supervises(t)
  <2>1. t = [s EXCEPT !.sent = sent]
    BY DEF EnqueueStop, Supervises, Supervisors
  <2>. HIDE DEF sent, t
  <2>. QED  BY <1>2, <2>1 DEF Supervises, Supervisors
<1>4. t.launchGen >= s.launchGen /\ t.stops = s.stops /\ t.containerId = s.containerId
      /\ t.launches = s.launches /\ s.launchGen \in Nat
  BY DEF EnqueueStop, Supervises, Supervisors
<1>. QED  BY <1>3, <1>4, GoesAlong

LEMMA LaunchGoes ==
  ASSUME runner \in Runners
  PROVE  \A s : Supervises(s) => Goes(s, Launch(s))
BY Runner, SpawnOnceGoes, StartDockerGoes, StartAgentGoes DEF Launch

LEMMA StartGoes ==
  ASSUME runner \in Runners
  PROVE  \A s : Supervises(s) => Goes(s, Start(s))
<1>. SUFFICES ASSUME NEW s, Supervises(s) PROVE Goes(s, Start(s))
  OBVIOUS
<1>. DEFINE t == [s EXCEPT !.manualStop = FALSE]
<1>1. Goes(s, t)
  <2>1. Supervises(t) /\ t.launchGen = s.launchGen /\ t.stops = s.stops
        /\ t.containerId = s.containerId /\ t.launches = s.launches /\ s.launchGen \in Nat
    BY DEF Supervises, Supervisors
  <2>. HIDE DEF t
  <2>. QED  BY <2>1, GoesAlong
<1>. HIDE DEF t
<1>2. Goes(s, Launch(t))
  BY <1>1, LaunchGoes, GoesTwice DEF Goes
<1>3. Goes(s, s)
  BY MovesNowhere DEF Goes
<1>. QED  BY <1>2, <1>3 DEF Start, t

LEMMA ClearReadyTimerGoes == \A s : Supervises(s) => Goes(s, ClearReadyTimer(s))
<1>. SUFFICES ASSUME NEW s, Supervises(s) PROVE Goes(s, ClearReadyTimer(s))
  OBVIOUS
<1>. DEFINE t == [s EXCEPT !.readyTimer = FALSE, !.sleeping = @ - 1]
<1>1. ASSUME s.readyTimer
      PROVE  Goes(s, t)
  <2>1. s.sleeping - 1 \in Nat /\ s.launchGen \in Nat
    BY <1>1 DEF Supervises, Supervisors
  <2>2. Supervises(t) /\ t.launchGen = s.launchGen /\ t.stops = s.stops
        /\ t.containerId = s.containerId /\ t.launches = s.launches
    <3>. DEFINE asleep == s.sleeping - 1
    <3>1. t = [s EXCEPT !.readyTimer = FALSE, !.sleeping = asleep]
      BY DEF Supervises, Supervisors
    <3>. HIDE DEF asleep, t
    <3>. QED  BY <2>1, <3>1 DEF Supervises, Supervisors, asleep
  <2>. HIDE DEF t
  <2>. QED  BY <2>1, <2>2, GoesAlong
<1>2. Goes(s, s)
  BY MovesNowhere DEF Goes
<1>. QED  BY <1>1, <1>2 DEF ClearReadyTimer

LEMMA SettledGoes ==
  ASSUME runner \in Runners
  PROVE  \A s : Supervises(s) => Goes(s, Settled(s))
<1>. SUFFICES ASSUME NEW s, Supervises(s) PROVE Goes(s, Settled(s))
  OBVIOUS
<1>. DEFINE t == [s EXCEPT !.restartRequested = FALSE, !.manualStop = FALSE,
                           !.state = "cold", !.attempts = 0]
            u == [s EXCEPT !.state = "cold"]
<1>1. Supervises(t) /\ t.launchGen = s.launchGen /\ t.stops = s.stops
      /\ t.containerId = s.containerId /\ t.launches = s.launches /\ s.launchGen \in Nat
  BY DEF Supervises, Supervisors
<1>2. Supervises(u) /\ u.launchGen = s.launchGen /\ u.stops = s.stops
      /\ u.containerId = s.containerId /\ u.launches = s.launches
  BY DEF Supervises, Supervisors
<1>. HIDE DEF t, u
<1>3. Goes(s, t) /\ Goes(s, u)
  BY <1>1, <1>2, GoesAlong
<1>4. Goes(s, Launch(t))
  BY <1>1, <1>3, LaunchGoes, GoesTwice
<1>. QED  BY <1>3, <1>4 DEF Settled, Again, t, u

(* A container that is let go of is about to be stopped.                    *)
LEMMA LetGoGoes ==
  ASSUME NEW s, Supervises(s), runner = "docker", s.containerId # None, NEW settles \in BOOLEAN
  PROVE  Goes(s, [s EXCEPT !.containerId = None,
                           !.stops = @ \cup {[id |-> s.containerId, settles |-> settles]}])
<1>. DEFINE stop == [id |-> s.containerId, settles |-> settles]
            stops == s.stops \cup {stop}
            t == [s EXCEPT !.containerId = None, !.stops = stops]
<1>1. stop \in [id : Launches, settles : BOOLEAN] /\ stop.id = s.containerId
  BY DEF Supervises, Supervisors
<1>. HIDE DEF stop
<1>2. stops \in SUBSET [id : Launches, settles : BOOLEAN] /\ stop \in stops
  BY <1>1 DEF Supervises, Supervisors
<1>3. s.stops \subseteq stops
  OBVIOUS
<1>. HIDE DEF stops
<1>4. Supervises(t) /\ t.launchGen = s.launchGen /\ t.launches = s.launches
      /\ t.stops = stops /\ t.containerId = None /\ s.launchGen \in Nat
  BY <1>2 DEF Supervises, Supervisors, None
<1>. HIDE DEF t
<1>5. Goes(s, t)
  BY <1>1, <1>2, <1>3, <1>4 DEF Goes, Moves
<1>. QED  BY <1>5 DEF t, stops, stop

LEMMA StopGoes ==
  ASSUME runner \in Runners
  PROVE  \A s : Supervises(s) => Goes(s, Stop(s))
<1>. SUFFICES ASSUME NEW old, Supervises(old) PROVE Goes(old, Stop(old))
  OBVIOUS
<1>. DEFINE asked == [old EXCEPT !.manualStop = TRUE, !.launchGen = @ + 1, !.restartTimer = FALSE]
            s == ClearReadyTimer(asked)
            dying == [s EXCEPT !.child = "dying"]
            cold == [s EXCEPT !.state = "cold"]
<1>1. Goes(old, asked)
  <2>. DEFINE next == old.launchGen + 1
  <2>1. old.launchGen \in Nat /\ next \in Nat /\ next >= old.launchGen
    BY DEF Supervises, Supervisors
  <2>2. asked = [old EXCEPT !.manualStop = TRUE, !.launchGen = next, !.restartTimer = FALSE]
    BY DEF Supervises, Supervisors
  <2>. HIDE DEF next, asked
  <2>3. Supervises(asked) /\ asked.launchGen = next /\ asked.launches = old.launches
        /\ asked.stops = old.stops /\ asked.containerId = old.containerId
    BY <2>1, <2>2 DEF Supervises, Supervisors
  <2>. QED  BY <2>1, <2>3, GoesAlong
<1>. HIDE DEF asked
<1>2. Goes(old, s) /\ Supervises(s)
  BY <1>1, ClearReadyTimerGoes, GoesTwice DEF Goes
<1>. HIDE DEF s
<1>3. Goes(old, Settled(EnqueueStop(s)))
  BY <1>2, EnqueueStopGoes, SettledGoes, GoesTwice DEF Goes
<1>4. ASSUME runner = "docker", s.containerId # None
      PROVE  Goes(old, [s EXCEPT !.containerId = None,
                                 !.stops = @ \cup {[id |-> s.containerId, settles |-> TRUE]}])
  BY <1>2, <1>4, LetGoGoes, GoesTwice
<1>5. Goes(old, dying) /\ Goes(old, cold)
  <2>1. Supervises(dying) /\ dying.launchGen = s.launchGen /\ dying.launches = s.launches
        /\ dying.stops = s.stops /\ dying.containerId = s.containerId /\ s.launchGen \in Nat
    BY <1>2 DEF Supervises, Supervisors
  <2>2. Supervises(cold) /\ cold.launchGen = s.launchGen /\ cold.launches = s.launches
        /\ cold.stops = s.stops /\ cold.containerId = s.containerId
    BY <1>2 DEF Supervises, Supervisors
  <2>. HIDE DEF dying, cold
  <2>. QED  BY <1>2, <2>1, <2>2, GoesAlong, GoesTwice
<1>6. Stop(old) =
        CASE runner = "agent" -> Settled(EnqueueStop(s))
          [] runner = "docker" /\ s.containerId # None ->
               [s EXCEPT !.containerId = None,
                         !.stops = @ \cup {[id |-> s.containerId, settles |-> TRUE]}]
          [] runner = "process" /\ s.child # "none" -> dying
          [] OTHER -> cold
  BY DEF Stop, s, asked
<1>. HIDE DEF dying, cold
<1>. QED  BY Runner, <1>3, <1>4, <1>5, <1>6

LEMMA RestartGoes ==
  ASSUME runner \in Runners
  PROVE  \A s : Supervises(s) => Goes(s, Restart(s))
<1>. SUFFICES ASSUME NEW s, Supervises(s) PROVE Goes(s, Restart(s))
  OBVIOUS
<1>. DEFINE t == [s EXCEPT !.restartRequested = TRUE]
<1>1. Supervises(t) /\ t.launchGen = s.launchGen /\ t.launches = s.launches
      /\ t.stops = s.stops /\ t.containerId = s.containerId /\ s.launchGen \in Nat
  BY DEF Supervises, Supervisors
<1>. HIDE DEF t
<1>2. Goes(s, Stop(t))
  BY <1>1, GoesAlong, StopGoes, GoesTwice
<1>. QED  BY <1>2, StartGoes DEF Restart, t

LEMMA ResumeGoes ==
  ASSUME runner \in Runners
  PROVE  \A s : Supervises(s) => Goes(s, Resume(s))
BY MovesNowhere, RestartGoes, LaunchGoes DEF Resume, Goes

LEMMA FailAndRetryGoes == \A s : Supervises(s) => Goes(s, FailAndRetry(s))
<1>. SUFFICES ASSUME NEW s, Supervises(s) PROVE Goes(s, FailAndRetry(s))
  OBVIOUS
<1>. DEFINE next == DecideAfterExit(s.attempts + 1)
            attempts == IF s.attempts < MaxAttempts THEN s.attempts + 1 ELSE s.attempts
            cold == [s EXCEPT !.state = "cold"]
            retry == [s EXCEPT !.attempts = attempts, !.state = next,
                               !.restartTimer = next = "restarting"]
<1>1. next \in {"offline", "restarting"}
  BY DEF DecideAfterExit
<1>2. attempts \in Nat
  BY DEF Supervises, Supervisors
<1>. HIDE DEF next, attempts
<1>3. Supervises(retry) /\ retry.launchGen = s.launchGen /\ retry.launches = s.launches
      /\ retry.stops = s.stops /\ retry.containerId = s.containerId /\ s.launchGen \in Nat
  BY <1>1, <1>2, ZenonT(60) DEF Supervises, Supervisors
<1>4. Supervises(cold) /\ cold.launchGen = s.launchGen /\ cold.launches = s.launches
      /\ cold.stops = s.stops /\ cold.containerId = s.containerId
  BY DEF Supervises, Supervisors
<1>5. FailAndRetry(s) = IF s.manualStop THEN cold ELSE retry
  BY DEF FailAndRetry, next, attempts, Supervises, Supervisors
<1>. HIDE DEF retry, cold
<1>. QED  BY <1>3, <1>4, <1>5, GoesAlong

LEMMA OnExitGoes ==
  ASSUME runner \in Runners
  PROVE  \A s : Supervises(s) => Goes(s, OnExit(s))
<1>. SUFFICES ASSUME NEW old, Supervises(old) PROVE Goes(old, OnExit(old))
  OBVIOUS
<1>. DEFINE gone == [old EXCEPT !.child = "none"]
            s == ClearReadyTimer(gone)
<1>1. Supervises(gone) /\ gone.launchGen = old.launchGen /\ gone.launches = old.launches
      /\ gone.stops = old.stops /\ gone.containerId = old.containerId /\ old.launchGen \in Nat
  BY DEF Supervises, Supervisors
<1>. HIDE DEF gone
<1>2. Goes(old, s) /\ Supervises(s)
  BY <1>1, GoesAlong, ClearReadyTimerGoes, GoesTwice DEF Goes
<1>3. OnExit(old) = IF s.manualStop THEN Settled(s) ELSE FailAndRetry(s)
  BY DEF OnExit, gone
<1>. HIDE DEF s
<1>. QED  BY <1>2, <1>3, SettledGoes, FailAndRetryGoes, GoesTwice

LEMMA GiveUpStartGoes ==
  ASSUME runner \in Runners
  PROVE  \A s : Supervises(s) => Goes(s, GiveUpStart(s))
<1>. SUFFICES ASSUME NEW s, Supervises(s) PROVE Goes(s, GiveUpStart(s))
  OBVIOUS
<1>1. CASE runner = "agent"
  BY <1>1, EnqueueStopGoes, FailAndRetryGoes, GoesTwice DEF GiveUpStart, Goes
<1>2. CASE runner = "docker"
  <2>. DEFINE t == [s EXCEPT !.containerId = None,
                             !.stops = IF s.containerId = None THEN @
                                       ELSE @ \cup {[id |-> s.containerId, settles |-> FALSE]}]
  <2>1. CASE s.containerId = None
    <3>1. t = s
      BY <2>1 DEF Supervises, Supervisors
    <3>. QED  BY <1>2, <3>1, FailAndRetryGoes DEF GiveUpStart
  <2>2. CASE s.containerId # None
    <3>1. Goes(s, t)
      BY <1>2, <2>2, LetGoGoes
    <3>2. GiveUpStart(s) = FailAndRetry(t)
      BY <1>2 DEF GiveUpStart
    <3>. HIDE DEF t
    <3>. QED  BY <3>1, <3>2, FailAndRetryGoes, GoesTwice DEF Goes
  <2>. QED  BY <2>1, <2>2
<1>3. CASE runner = "process"
  <2>. DEFINE child == IF s.child = "none" THEN s.child ELSE "dying"
              t == [s EXCEPT !.child = child]
  <2>1. child \in {"none", "up", "dying"}
    BY DEF Supervises, Supervisors
  <2>2. GiveUpStart(s) = t
    BY <1>3 DEF GiveUpStart, Supervises, Supervisors
  <2>. HIDE DEF child
  <2>3. Supervises(t) /\ t.launchGen = s.launchGen /\ t.launches = s.launches
        /\ t.stops = s.stops /\ t.containerId = s.containerId /\ s.launchGen \in Nat
    BY <2>1 DEF Supervises, Supervisors
  <2>. HIDE DEF t
  <2>. QED  BY <2>2, <2>3, GoesAlong
<1>. QED  BY Runner, <1>1, <1>2, <1>3

-----------------------------------------------------------------------------
(* The containers.                                                          *)

(* A supervisor that moves holds on to what it held on to.                  *)
LEMMA MovesHold ==
  ASSUME NEW s, NEW t, NEW cs, NEW up, cs \subseteq Launches, Supervises(s), Goes(s, t),
         Holds(s, cs), Finished(s, cs, up)
  PROVE  Holds(t, cs) /\ Finished(t, cs, up)
<1>. /\ s.launchGen \in Nat /\ t.launchGen \in Nat /\ s.launchGen <= t.launchGen
     /\ s.containerId \in Nat /\ t.containerId \in Nat
  BY SupervisorAssumption, SMTT(30)
     DEF Goes, Moves, Supervises, Supervisors, SupervisorAssumption, Launches, None
<1>. \A g \in Launches : g \in Nat \ {0}
  BY SupervisorAssumption DEF SupervisorAssumption, Launches
<1>1. t.containerId = s.containerId \/ t.containerId = None
  BY DEF Goes, Moves
<1>2. \A g \in Launches :
        \/ t.launches[g] = s.launches[g]
        \/ runner = "docker" /\ t.launches[g] = "pulling" /\ s.launchGen < g /\ g <= t.launchGen
  BY DEF Goes, Moves
<1>3. t.containerId <= t.launchGen /\ \A c \in cs : c <= t.launchGen
  BY <1>1 DEF Holds, None
<1>4. ASSUME NEW g \in Launches, t.launches[g] # "none"
      PROVE  g <= t.launchGen /\ g # t.containerId
  BY <1>1, <1>2, <1>4 DEF Holds, None
<1>5. ASSUME NEW g \in Launches, t.containerId \in cs, t.launches[g] = "started"
      PROVE  g < t.containerId
  BY <1>1, <1>2, <1>5 DEF Holds, None
<1>6. runner # "docker" =>
        /\ cs = {} /\ t.containerId = None /\ t.stops = {}
        /\ \A g \in Launches : t.launches[g] = "none"
  BY <1>1, <1>2 DEF Holds, Goes, Moves
<1>7. ASSUME NEW c \in cs
      PROVE  \/ c = t.containerId
             \/ \E stop \in t.stops : stop.id = c
             \/ t.launches[c] = "started"
             \/ c \in up
  <2>1. CASE c = s.containerId
    BY <1>7, <2>1 DEF Goes, Moves
  <2>2. CASE \E stop \in s.stops : stop.id = c
    BY <1>7, <2>2 DEF Goes, Moves
  <2>3. CASE s.launches[c] = "started"
    BY <1>2, <1>7, <2>3 DEF Holds
  <2>. QED  BY <1>7, <2>1, <2>2, <2>3 DEF Finished
<1>8. \A c, d \in cs : c = d
  BY DEF Holds
<1>9. Holds(t, cs)
  BY <1>3, <1>4, <1>5, <1>6, <1>8 DEF Holds
<1>. QED  BY <1>7, <1>9 DEF Finished

LEMMA CallKeeps ==
  ASSUME SupInv, Goes(sup, sup'), UNCHANGED <<runner, containers, givenUp>>
  PROVE  SupInv'
<1>1. Holds(sup', containers) /\ Finished(sup', containers, givenUp) /\ Supervises(sup')
  BY MovesHold DEF SupInv, Goes
<1>2. runner' = runner /\ containers' = containers /\ givenUp' = givenUp
  OBVIOUS
<1>3. Holds(sup, containers)' /\ Finished(sup, containers, givenUp)' /\ Supervises(sup)'
  BY <1>1, <1>2 DEF Holds, Finished, Supervises, Supervisors
<1>. QED  BY <1>2, <1>3 DEF SupInv

(* A supervisor with one probe fewer on its way.                            *)
LEMMA OneProbeFewer ==
  ASSUME NEW s, Supervises(s), s.asking > 0
  PROVE  Goes(s, [s EXCEPT !.asking = @ - 1])
<1>. DEFINE asking == s.asking - 1
            t == [s EXCEPT !.asking = asking]
<1>1. asking \in Nat /\ s.launchGen \in Nat
  BY DEF Supervises, Supervisors
<1>. HIDE DEF asking
<1>2. Supervises(t) /\ t.launchGen = s.launchGen /\ t.launches = s.launches
      /\ t.stops = s.stops /\ t.containerId = s.containerId
  BY <1>1 DEF Supervises, Supervisors
<1>. HIDE DEF t
<1>3. Goes(s, t)
  BY <1>1, <1>2, GoesAlong
<1>. QED  BY <1>3 DEF t, asking

LEMMA ProbeStepKeeps ==
  ASSUME SupInv, ReadyProbeStep
  PROVE  SupInv'
<1>. Supervises(sup) /\ runner \in Runners
  BY DEF SupInv
<1>. DEFINE s == [sup EXCEPT !.asking = @ - 1]
<1>1. ASSUME NEW named \in BOOLEAN, ReadyTimerFires(named)
      PROVE  SupInv'
  <2>. DEFINE asleep == sup.sleeping - 1
              readyTimer == IF named THEN FALSE ELSE sup.readyTimer
              asking == IF sup.state = "starting" THEN sup.asking + 1 ELSE sup.asking
              t == [sup EXCEPT !.sleeping = asleep, !.readyTimer = readyTimer, !.asking = asking]
  <2>1. asleep \in Nat /\ asking \in Nat /\ readyTimer \in BOOLEAN /\ (readyTimer => asleep > 0)
    <3>1. sup.sleeping \in Nat /\ sup.asking \in Nat /\ sup.readyTimer \in BOOLEAN
      BY DEF Supervises, Supervisors
    <3>2. asking \in Nat
      BY <3>1
    <3>3. readyTimer \in BOOLEAN
      BY <3>1, Zenon
    <3>4. asleep \in Nat
      BY <1>1, <3>1 DEF ReadyTimerFires
    <3>5. readyTimer => asleep > 0
      BY <1>1, <3>1 DEF ReadyTimerFires
    <3>. QED  BY <3>2, <3>3, <3>4, <3>5
  <2>2. sup' = t
    BY <1>1 DEF ReadyTimerFires, Supervises, Supervisors
  <2>. HIDE DEF asleep, asking, readyTimer
  <2>3. Supervises(t) /\ t.launchGen = sup.launchGen /\ t.launches = sup.launches
        /\ t.stops = sup.stops /\ t.containerId = sup.containerId /\ sup.launchGen \in Nat
    BY <2>1 DEF Supervises, Supervisors
  <2>. HIDE DEF t
  <2>4. Goes(sup, t)
    BY <2>3, GoesAlong
  <2>. QED  BY <1>1, <2>2, <2>4, CallKeeps DEF ReadyTimerFires, Callback
<1>2. CASE ReadyProbeIsMoot
  BY <1>2, OneProbeFewer, CallKeeps DEF ReadyProbeIsMoot, Callback
<1>3. CASE ReadyProbeSucceeds
  <2>. DEFINE t == [s EXCEPT !.state = "live", !.attempts = 0]
  <2>1. Goes(sup, s) /\ Supervises(s)
    BY <1>3, OneProbeFewer DEF ReadyProbeSucceeds, Goes
  <2>2. sup' = t
    BY <1>3 DEF ReadyProbeSucceeds, Supervises, Supervisors
  <2>. HIDE DEF s
  <2>3. Supervises(t) /\ t.launchGen = s.launchGen /\ t.launches = s.launches
        /\ t.stops = s.stops /\ t.containerId = s.containerId /\ s.launchGen \in Nat
    BY <2>1 DEF Supervises, Supervisors
  <2>. HIDE DEF t
  <2>4. Goes(sup, t)
    BY <2>1, <2>3, GoesAlong, GoesTwice
  <2>. QED  BY <1>3, <2>2, <2>4, CallKeeps DEF ReadyProbeSucceeds, Callback
<1>4. CASE ReadyProbeFails
  <2>. DEFINE sleeping == sup.sleeping + 1
              t == [s EXCEPT !.sleeping = sleeping, !.readyTimer = TRUE]
  <2>1. Goes(sup, s) /\ Supervises(s)
    BY <1>4, OneProbeFewer DEF ReadyProbeFails, Goes
  <2>2. sup' = t
    BY <1>4 DEF ReadyProbeFails, Supervises, Supervisors
  <2>3. sleeping \in Nat /\ sleeping > 0
    BY DEF Supervises, Supervisors
  <2>. HIDE DEF s, sleeping
  <2>4. Supervises(t) /\ t.launchGen = s.launchGen /\ t.launches = s.launches
        /\ t.stops = s.stops /\ t.containerId = s.containerId /\ s.launchGen \in Nat
    BY <2>1, <2>3 DEF Supervises, Supervisors
  <2>. HIDE DEF t
  <2>5. Goes(sup, t)
    BY <2>1, <2>4, GoesAlong, GoesTwice
  <2>. QED  BY <1>4, <2>2, <2>5, CallKeeps DEF ReadyProbeFails, Callback
<1>. QED  BY <1>1, <1>2, <1>3, <1>4 DEF ReadyProbeStep

(* A launch that is over.                                                   *)
LEMMA LaunchOver ==
  ASSUME NEW g \in Launches, SupInv, NEW s, s = [sup EXCEPT !.launches[g] = "none"]
  PROVE  /\ Supervises(s) /\ s.launchGen = sup.launchGen /\ s.stops = sup.stops
         /\ s.containerId = sup.containerId
         /\ \A h \in Launches : s.launches[h] = IF h = g THEN "none" ELSE sup.launches[h]
<1>. DEFINE launches == [sup.launches EXCEPT ![g] = "none"]
<1>1. launches \in [Launches -> {"none", "pulling", "started"}]
      /\ \A h \in Launches : launches[h] = IF h = g THEN "none" ELSE sup.launches[h]
  BY DEF SupInv, Supervises, Supervisors
<1>2. s = [sup EXCEPT !.launches = launches]
  BY DEF SupInv, Supervises, Supervisors
<1>. HIDE DEF launches
<1>. QED  BY <1>1, <1>2 DEF SupInv, Supervises, Supervisors

LEMMA ContainerStartsKeeps ==
  ASSUME SupInv, NEW g \in Launches, ContainerStarts(g)
  PROVE  SupInv'
<1>. DEFINE launches == [sup.launches EXCEPT ![g] = "started"]
            t == [sup EXCEPT !.launches = launches]
<1>. Supervises(sup)
  BY DEF SupInv
<1>1. launches \in [Launches -> {"none", "pulling", "started"}]
      /\ \A h \in Launches : launches[h] = IF h = g THEN "started" ELSE sup.launches[h]
  BY DEF Supervises, Supervisors
<1>2. sup' = t
  BY DEF ContainerStarts, Supervises, Supervisors
<1>. HIDE DEF launches
<1>3. Supervises(t) /\ t.launchGen = sup.launchGen /\ t.launches = launches
      /\ t.stops = sup.stops /\ t.containerId = sup.containerId
  BY <1>1 DEF Supervises, Supervisors
<1>. HIDE DEF t
<1>4. g <= sup.launchGen /\ g # sup.containerId /\ runner = "docker"
  BY DEF SupInv, Holds, ContainerStarts
<1>5. Holds(t, {g})
  BY <1>1, <1>3, <1>4 DEF SupInv, Holds
<1>6. Finished(t, {g}, givenUp)
  BY <1>1, <1>3 DEF Finished
<1>7. runner' = runner /\ containers' = {g} /\ givenUp' = givenUp
  BY DEF ContainerStarts, Callback
<1>8. Holds(sup, containers)' /\ Finished(sup, containers, givenUp)' /\ Supervises(sup)'
  BY <1>2, <1>3, <1>5, <1>6, <1>7 DEF Holds, Finished, Supervises, Supervisors
<1>. QED  BY <1>7, <1>8 DEF SupInv

LEMMA LaunchFailsKeeps ==
  ASSUME SupInv, NEW g \in Launches, LaunchFails(g)
  PROVE  SupInv'
<1>. DEFINE s == [sup EXCEPT !.launches[g] = "none"]
<1>. Supervises(sup)
  BY DEF SupInv
<1>1. /\ Supervises(s) /\ s.launchGen = sup.launchGen /\ s.stops = sup.stops
      /\ s.containerId = sup.containerId
      /\ \A h \in Launches : s.launches[h] = IF h = g THEN "none" ELSE sup.launches[h]
  <2>1. s = [sup EXCEPT !.launches[g] = "none"]
    OBVIOUS
  <2>. HIDE DEF s
  <2>. QED  BY <2>1, LaunchOver, ZenonT(60)
<1>2. sup' = FailAndRetry(s) \/ sup' = s
  BY DEF LaunchFails, Becomes
<1>. HIDE DEF s
<1>3. Holds(s, containers)
  BY <1>1 DEF SupInv, Holds
<1>4. Finished(s, containers, givenUp)
  BY <1>1 DEF SupInv, Finished, LaunchFails
<1>5. Goes(s, sup') /\ containers \subseteq Launches
  BY <1>1, <1>2, FailAndRetryGoes, MovesNowhere DEF Goes, SupInv
<1>6. Holds(sup', containers) /\ Finished(sup', containers, givenUp) /\ Supervises(sup')
  BY <1>1, <1>3, <1>4, <1>5, MovesHold DEF Goes
<1>7. runner' = runner /\ containers' = containers /\ givenUp' = givenUp
  BY DEF LaunchFails, Callback
<1>8. Holds(sup, containers)' /\ Finished(sup, containers, givenUp)' /\ Supervises(sup)'
  BY <1>6, <1>7 DEF Holds, Finished, Supervises, Supervisors
<1>. QED  BY <1>7, <1>8 DEF SupInv

(* A container becomes the supervisor's if its launch is the latest, and is *)
(* on its way out if not.                                                   *)
LEMMA LaunchSettlesKeeps ==
  ASSUME SupInv, NEW g \in Launches, LaunchSettles(g)
  PROVE  SupInv'
<1>. DEFINE s == [sup EXCEPT !.launches[g] = "none"]
<1>1. /\ Supervises(s) /\ s.launchGen = sup.launchGen /\ s.stops = sup.stops
      /\ s.containerId = sup.containerId
      /\ \A h \in Launches : s.launches[h] = IF h = g THEN "none" ELSE sup.launches[h]
  <2>1. s = [sup EXCEPT !.launches[g] = "none"]
    OBVIOUS
  <2>. HIDE DEF s
  <2>. QED  BY <2>1, LaunchOver, ZenonT(60)
<1>2. g \in Nat \ {0} /\ sup.launchGen \in Nat /\ sup.containerId \in Nat
      /\ \A h \in Launches : h \in Nat \ {0}
  BY SupervisorAssumption
     DEF SupervisorAssumption, Launches, None, SupInv, Supervises, Supervisors
<1>3. g <= sup.launchGen /\ g # sup.containerId /\ runner = "docker"
  BY DEF SupInv, Holds, LaunchSettles
<1>4. sup.containerId \in containers => g < sup.containerId
  BY DEF SupInv, Holds, LaunchSettles
<1>5. runner' = runner /\ containers' = containers /\ givenUp' = givenUp
      /\ containers \subseteq Launches
  BY DEF LaunchSettles, Callback, SupInv
<1>6. Holds(sup', containers) /\ Finished(sup', containers, givenUp) /\ Supervises(sup')
  <2>1. CASE g = sup.launchGen /\ sup.state = "starting"
    <3>. DEFINE t == [s EXCEPT !.containerId = g]
    <3>1. sup' = ArmReadyProbe(t)
      BY <2>1 DEF LaunchSettles
    <3>. HIDE DEF s
    <3>2. Supervises(t) /\ t.launchGen = s.launchGen /\ t.stops = s.stops
          /\ t.containerId = g /\ t.launches = s.launches
      BY <1>1 DEF Supervises, Supervisors
    <3>. HIDE DEF t
    <3>3. sup.containerId \notin containers
      BY <1>2, <1>4, <2>1 DEF SupInv, Holds
    <3>4. \A h \in Launches : t.launches[h] # "none" => h < g
      BY <1>1, <1>2, <2>1, <3>2 DEF SupInv, Holds
    <3>5. Holds(t, containers)
      BY <1>1, <1>2, <1>3, <2>1, <3>2, <3>4 DEF SupInv, Holds
    <3>6. Finished(t, containers, givenUp)
      BY <1>1, <1>5, <3>2, <3>3 DEF SupInv, Finished
    <3>. QED  BY <1>5, <3>1, <3>2, <3>5, <3>6, ArmReadyProbeGoes, MovesHold DEF Goes
  <2>2. CASE ~(g = sup.launchGen /\ sup.state = "starting")
    <3>. DEFINE stop == [id |-> g, settles |-> FALSE]
                stops == s.stops \cup {stop}
                t == [s EXCEPT !.stops = stops]
    <3>1. sup' = t
      BY <2>2 DEF LaunchSettles
    <3>. HIDE DEF s
    <3>2. stop \in [id : Launches, settles : BOOLEAN] /\ stop.id = g
      OBVIOUS
    <3>. HIDE DEF stop
    <3>3. stops \in SUBSET [id : Launches, settles : BOOLEAN] /\ stop \in stops
          /\ s.stops \subseteq stops
      BY <1>1, <3>2 DEF Supervises, Supervisors
    <3>. HIDE DEF stops
    <3>4. Supervises(t) /\ t.launchGen = s.launchGen /\ t.stops = stops
          /\ t.containerId = s.containerId /\ t.launches = s.launches
      BY <1>1, <3>3 DEF Supervises, Supervisors
    <3>. HIDE DEF t
    <3>5. Holds(t, containers)
      BY <1>1, <1>3, <3>4 DEF SupInv, Holds
    <3>6. Finished(t, containers, givenUp)
      BY <1>1, <1>5, <3>2, <3>3, <3>4 DEF SupInv, Finished
    <3>. QED  BY <3>1, <3>4, <3>5, <3>6
  <2>. QED  BY <2>1, <2>2
<1>7. Holds(sup, containers)' /\ Finished(sup, containers, givenUp)' /\ Supervises(sup)'
  BY <1>5, <1>6 DEF Holds, Finished, Supervises, Supervisors
<1>. QED  BY <1>5, <1>7 DEF SupInv

(* A stop that is over, one way or the other.                               *)
LEMMA StopOver ==
  ASSUME SupInv, NEW stop \in sup.stops, NEW s, s = [sup EXCEPT !.stops = @ \ {stop}]
  PROVE  /\ Supervises(s) /\ s.launchGen = sup.launchGen /\ s.launches = sup.launches
         /\ s.containerId = sup.containerId /\ s.stops = sup.stops \ {stop}
<1>. DEFINE stops == sup.stops \ {stop}
<1>1. stops \in SUBSET [id : Launches, settles : BOOLEAN] /\ stops = sup.stops \ {stop}
  BY DEF SupInv, Supervises, Supervisors
<1>2. s = [sup EXCEPT !.stops = stops]
  BY DEF SupInv, Supervises, Supervisors
<1>. HIDE DEF stops
<1>. QED  BY <1>1, <1>2 DEF SupInv, Supervises, Supervisors

LEMMA ContainerStopsKeeps ==
  ASSUME SupInv, NEW stop \in sup.stops, ContainerStops(stop)
  PROVE  SupInv'
<1>. DEFINE s == [sup EXCEPT !.stops = @ \ {stop}]
            left == containers \ {stop.id}
<1>1. /\ Supervises(s) /\ s.launchGen = sup.launchGen /\ s.launches = sup.launches
      /\ s.containerId = sup.containerId /\ s.stops = sup.stops \ {stop}
  <2>1. s = [sup EXCEPT !.stops = @ \ {stop}]
    OBVIOUS
  <2>. HIDE DEF s
  <2>. QED  BY <2>1, StopOver
<1>2. sup' = Settled(s) \/ sup' = s
  BY DEF ContainerStops, Becomes
<1>. HIDE DEF s
<1>3. Holds(s, left) /\ left \subseteq Launches
  BY <1>1 DEF SupInv, Holds
<1>4. Finished(s, left, givenUp)
  BY <1>1 DEF SupInv, Finished
<1>. HIDE DEF left
<1>5. Goes(s, sup') /\ runner \in Runners
  BY <1>1, <1>2, SettledGoes, MovesNowhere DEF Goes, SupInv
<1>6. Holds(sup', left) /\ Finished(sup', left, givenUp) /\ Supervises(sup')
  BY <1>1, <1>3, <1>4, <1>5, MovesHold DEF Goes
<1>7. runner' = runner /\ containers' = left /\ givenUp' = givenUp
  BY DEF ContainerStops, Callback, left
<1>8. Holds(sup, containers)' /\ Finished(sup, containers, givenUp)' /\ Supervises(sup)'
  BY <1>6, <1>7 DEF Holds, Finished, Supervises, Supervisors
<1>. QED  BY <1>3, <1>5, <1>7, <1>8 DEF SupInv

LEMMA ContainerStopFailsKeeps ==
  ASSUME SupInv, NEW stop \in sup.stops, ContainerStopFails(stop)
  PROVE  SupInv'
<1>. DEFINE s == [sup EXCEPT !.stops = @ \ {stop}]
<1>1. /\ Supervises(s) /\ s.launchGen = sup.launchGen /\ s.launches = sup.launches
      /\ s.containerId = sup.containerId /\ s.stops = sup.stops \ {stop}
  <2>1. s = [sup EXCEPT !.stops = @ \ {stop}]
    OBVIOUS
  <2>. HIDE DEF s
  <2>. QED  BY <2>1, StopOver
<1>2. sup' = s /\ runner' = runner /\ containers' = containers
      /\ givenUp' = givenUp \cup {stop.id}
  BY DEF ContainerStopFails
<1>. HIDE DEF s
<1>3. Holds(s, containers)
  BY <1>1 DEF SupInv, Holds
<1>4. Finished(s, containers, givenUp \cup {stop.id})
  BY <1>1 DEF SupInv, Finished
<1>5. Holds(sup, containers)' /\ Finished(sup, containers, givenUp)' /\ Supervises(sup)'
  BY <1>1, <1>2, <1>3, <1>4 DEF Holds, Finished, Supervises, Supervisors
<1>. QED  BY <1>2, <1>5 DEF SupInv

LEMMA ContainerVanishesKeeps ==
  ASSUME SupInv, NEW c \in containers, ContainerVanishes(c)
  PROVE  SupInv'
<1>1. sup' = sup /\ runner' = runner /\ containers' = containers \ {c} /\ givenUp' = givenUp
  BY DEF ContainerVanishes, Callback
<1>2. Holds(sup, containers)' /\ Finished(sup, containers, givenUp)' /\ Supervises(sup)'
  BY <1>1 DEF SupInv, Holds, Finished, Supervises, Supervisors
<1>. QED  BY <1>1, <1>2 DEF SupInv

(* The live probe gives a container up: it is written off, not stopped.     *)
LEMMA TickProbedKeeps ==
  ASSUME SupInv, NEW ok \in BOOLEAN, TickProbed(ok)
  PROVE  SupInv'
<1>. DEFINE s == Probed(ok)
            up == IF s.containerId = sup.containerId THEN givenUp
                  ELSE givenUp \cup {sup.containerId}
<1>. Supervises(sup) /\ runner \in Runners
  BY DEF SupInv
<1>1. /\ Supervises(s) /\ s.launchGen = sup.launchGen /\ s.launches = sup.launches
      /\ s.containerId \in {sup.containerId, None} /\ s.stops = sup.stops
  <2>. DEFINE goesOn == ok \/ sup.liveProbeFailures + 1 < Threshold
  <2>1. CASE goesOn
    <3>. DEFINE failures == IF ok THEN 0 ELSE sup.liveProbeFailures + 1
    <3>1. failures \in Nat
      BY DEF Supervises, Supervisors
    <3>2. s = [sup EXCEPT !.liveProbeFailures = failures]
      BY <2>1 DEF Probed, Supervises, Supervisors
    <3>. HIDE DEF failures
    <3>. QED  BY <3>1, <3>2 DEF Supervises, Supervisors
  <2>2. CASE ~goesOn
    <3>1. s = [sup EXCEPT !.liveProbeFailures = Threshold, !.state = "offline",
                          !.attempts = 1, !.containerId = None]
      BY <2>2 DEF Probed
    <3>2. Threshold \in Nat
      BY SupervisorAssumption DEF SupervisorAssumption
    <3>. HIDE DEF s
    <3>3. s \in Supervisors
      BY <3>1, <3>2 DEF Supervises, Supervisors, None
    <3>4. s.readyTimer = sup.readyTimer /\ s.sleeping = sup.sleeping
          /\ s.launchGen = sup.launchGen /\ s.launches = sup.launches
          /\ s.containerId = None /\ s.stops = sup.stops
      BY <3>1 DEF Supervises, Supervisors
    <3>. QED  BY <3>3, <3>4 DEF Supervises
  <2>. HIDE DEF goesOn, s
  <2>. QED  BY <2>1, <2>2
<1>2. sup' = Restart(s) \/ sup' = s
  BY DEF TickProbed, Becomes
<1>3. runner' = runner /\ containers' = containers /\ givenUp' = up
  BY DEF TickProbed
<1>. HIDE DEF s
<1>4. Holds(s, containers) /\ containers \subseteq Launches
  <2>. \A c \in Launches : c \in Nat \ {0}
    BY SupervisorAssumption DEF SupervisorAssumption, Launches
  <2>. QED  BY <1>1 DEF SupInv, Holds, None, Supervises, Supervisors
<1>5. Finished(s, containers, up)
  BY <1>1 DEF SupInv, Finished
<1>. HIDE DEF up
<1>6. Goes(s, sup')
  BY <1>1, <1>2, RestartGoes, MovesNowhere DEF Goes
<1>7. Holds(sup', containers) /\ Finished(sup', containers, up) /\ Supervises(sup')
  BY <1>1, <1>4, <1>5, <1>6, MovesHold DEF Goes
<1>8. Holds(sup, containers)' /\ Finished(sup, containers, givenUp)' /\ Supervises(sup)'
  BY <1>3, <1>7 DEF Holds, Finished, Supervises, Supervisors
<1>. QED  BY <1>3, <1>4, <1>8 DEF SupInv

(* A supervisor as constructed has no container and no launch.              *)
Unburdened(s, generation) ==
  /\ Supervises(s) /\ s.launchGen = generation /\ s.containerId = None
  /\ s.stops = {} /\ \A g \in Launches : s.launches[g] = "none"

LEMMA FreshIsUnburdened ==
  ASSUME NEW generation \in Nat
  PROVE  Unburdened(Fresh(generation), generation)
<1>. DEFINE launches == [g \in Launches |-> "none"]
            s == Fresh(generation)
<1>1. launches \in [Launches -> {"none", "pulling", "started"}]
      /\ (\A g \in Launches : launches[g] = "none") /\ <<>> \in Seq(Commands)
  OBVIOUS
<1>2. s =
        [ state |-> "cold", attempts |-> 0, manualStop |-> FALSE,
          restartRequested |-> FALSE, restartTimer |-> FALSE, launchGen |-> generation,
          asking |-> 0, sleeping |-> 0, readyTimer |-> FALSE, liveProbeFailures |-> 0,
          child |-> "none", containerId |-> None,
          launches |-> launches, stops |-> {}, sent |-> <<>> ]
  BY DEF Fresh
<1>. HIDE DEF launches, s
<1>3. Supervises(s) /\ s.launchGen = generation /\ s.containerId = None
      /\ s.stops = {} /\ s.launches = launches
  BY <1>1, <1>2 DEF Supervises, Supervisors, None
<1>. QED  BY <1>1, <1>3 DEF Unburdened, s

(* ... also with the commands there are in the database.                    *)
LEMMA RebornIsUnburdened ==
  ASSUME NEW base, NEW generation \in Nat, Unburdened(base, generation),
         NEW sent \in Seq(Commands)
  PROVE  Unburdened([base EXCEPT !.sent = sent], generation)
BY DEF Unburdened, Supervises, Supervisors

LEMMA ManagerRestartsKeeps ==
  ASSUME SupInv, NEW orderly \in BOOLEAN, NEW matches \in BOOLEAN,
         ManagerRestarts(orderly, matches)
  PROVE  SupInv'
<1>. DEFINE s == IF orderly THEN Stop(sup) ELSE sup
            base == Fresh(s.launchGen)
            fresh == [base EXCEPT !.sent = s.sent]
            left == IF matches THEN containers ELSE {}
<1>. runner \in Runners /\ Supervises(sup) /\ containers \subseteq Launches
  BY DEF SupInv
<1>1. Goes(sup, s) /\ Supervises(s)
  BY StopGoes, MovesNowhere DEF Goes
<1>2. runner' = runner /\ containers' = left /\ givenUp' = {} /\ sup' = Boot(s, matches)
  BY DEF ManagerRestarts, Becomes
<1>. HIDE DEF s
<1>3. Unburdened(fresh, s.launchGen)
  <2>1. s.launchGen \in Nat /\ s.sent \in Seq(Commands)
    BY <1>1 DEF Supervises, Supervisors
  <2>2. Unburdened(base, s.launchGen)
    BY <2>1, FreshIsUnburdened
  <2>. HIDE DEF base
  <2>. QED  BY <2>1, <2>2, RebornIsUnburdened
<1>4. Boot(s, matches) =
        IF runner # "docker" \/ containers = {} THEN Start(fresh)
        ELSE IF matches THEN Adopt(fresh, CHOOSE c \in containers : TRUE) ELSE Start(fresh)
  BY DEF Boot
<1>. HIDE DEF fresh
<1>5. s.launchGen \in Nat /\ sup.launchGen \in Nat /\ sup.launchGen <= s.launchGen
      /\ \A c \in Launches : c \in Nat \ {0}
  BY <1>1, SupervisorAssumption
     DEF Goes, Moves, Supervises, Supervisors, SupervisorAssumption, Launches
<1>6. Holds(sup', left) /\ Finished(sup', left, {}) /\ Supervises(sup')
  <2>1. CASE left = {}
    <3>1. sup' = Start(fresh)
      BY <1>2, <1>4, <2>1
    <3>2. Holds(fresh, {}) /\ Finished(fresh, {}, {})
      BY <1>3, <1>5 DEF Unburdened, Holds, Finished, None
    <3>. QED  BY <1>3, <2>1, <3>1, <3>2, StartGoes, MovesHold DEF Unburdened, Goes
  <2>2. CASE left # {}
    <3>1. runner = "docker" /\ matches /\ left = containers /\ containers # {}
      BY <2>2 DEF SupInv, Holds
    <3>2. PICK c \in containers : c = CHOOSE d \in containers : TRUE
      BY <3>1
    <3>. DEFINE next == s.launchGen + 1
                t == [fresh EXCEPT !.containerId = c, !.manualStop = FALSE,
                                   !.launchGen = next, !.state = "starting"]
    <3>3. sup' = ArmReadyProbe(t)
      BY <1>2, <1>3, <1>4, <3>1, <3>2 DEF Adopt, Unburdened, Supervises, Supervisors
    <3>4. next \in Nat /\ c <= next /\ c \in Launches
      <4>1. c <= sup.launchGen /\ c \in Launches
        BY DEF SupInv, Holds
      <4>. QED  BY <1>5, <4>1
    <3>. HIDE DEF next
    <3>5. Supervises(t) /\ t.launchGen = next /\ t.containerId = c /\ t.stops = {}
          /\ t.launches = fresh.launches
      BY <1>3, <3>4 DEF Unburdened, Supervises, Supervisors
    <3>. HIDE DEF t
    <3>6. \A d \in containers : d = c
      BY DEF SupInv, Holds
    <3>7. Holds(t, containers) /\ Finished(t, containers, {})
      BY <1>3, <3>1, <3>4, <3>5, <3>6 DEF Unburdened, Holds, Finished
    <3>. QED  BY <3>1, <3>3, <3>5, <3>7, ArmReadyProbeGoes, MovesHold DEF Goes
  <2>. QED  BY <2>1, <2>2
<1>. HIDE DEF left
<1>7. Holds(sup, containers)' /\ Finished(sup, containers, givenUp)' /\ Supervises(sup)'
  BY <1>2, <1>6 DEF Holds, Finished, Supervises, Supervisors
<1>. QED  BY <1>2, <1>7 DEF SupInv, left

(* Every step of the supervisor keeps it.                                   *)
LEMMA SupervisorStepKeeps ==
  ASSUME SupInv, SupervisorStep
  PROVE  SupInv'
<1>. runner \in Runners /\ Supervises(sup)
  BY DEF SupInv
<1>1. CASE ChildExits
  BY <1>1, OnExitGoes, CallKeeps DEF ChildExits, Becomes, Callback
<1>2. CASE RestartTimerFires
  <2>. DEFINE s == [sup EXCEPT !.restartTimer = FALSE]
  <2>1. Supervises(s) /\ s.launchGen = sup.launchGen /\ s.launches = sup.launches
        /\ s.stops = sup.stops /\ s.containerId = sup.containerId /\ sup.launchGen \in Nat
    BY DEF Supervises, Supervisors
  <2>2. sup' = Launch(s) /\ UNCHANGED <<runner, containers, givenUp>>
    BY <1>2 DEF RestartTimerFires, Becomes, Callback
  <2>. HIDE DEF s
  <2>. QED  BY <2>1, <2>2, GoesAlong, LaunchGoes, GoesTwice, CallKeeps
<1>3. CASE ReadyProbeStep
  BY <1>3, ProbeStepKeeps
<1>4. CASE ReadyDeadlinePasses
  <2>. DEFINE s == [sup EXCEPT !.asking = @ - 1]
  <2>1. Goes(sup, s)
    BY <1>4, OneProbeFewer DEF ReadyDeadlinePasses
  <2>2. sup' = GiveUpStart(s) /\ UNCHANGED <<runner, containers, givenUp>>
    BY <1>4 DEF ReadyDeadlinePasses, Becomes, Callback
  <2>. HIDE DEF s
  <2>. QED  BY <2>1, <2>2, GiveUpStartGoes, GoesTwice, CallKeeps DEF Goes
<1>5. CASE ContainerStep
  BY <1>5, ContainerStartsKeeps, LaunchFailsKeeps, LaunchSettlesKeeps, ContainerStopsKeeps,
     ContainerStopFailsKeeps DEF ContainerStep
<1>6. CASE \E c \in containers : ContainerVanishes(c)
  BY <1>6, ContainerVanishesKeeps
<1>7. CASE Up
  BY <1>7, StartGoes, CallKeeps DEF Up, Request, Becomes
<1>8. CASE Down
  BY <1>8, StopGoes, CallKeeps DEF Down, Request, Becomes
<1>9. CASE RestartByHand
  BY <1>9, RestartGoes, CallKeeps DEF RestartByHand, Request, Becomes
<1>10. CASE Tick
  BY <1>10, RestartGoes, MovesNowhere, CallKeeps DEF Tick, Becomes, Goes
<1>11. CASE \E ok \in BOOLEAN : TickProbed(ok)
  BY <1>11, TickProbedKeeps
<1>. QED  BY <1>1, <1>2, <1>3, <1>4, <1>5, <1>6, <1>7, <1>8, <1>9, <1>10, <1>11
          DEF SupervisorStep

(* The outcome of a spawn changes the supervisor, or comes too late.        *)
LEMMA SpawnResultKeeps ==
  ASSUME SupInv, NEW g, NEW ok, SpawnResult(g, ok)
  PROVE  SupInv'
<1>. Supervises(sup)
  BY DEF SupInv
<1>1. Goes(sup, sup')
  BY ArmReadyProbeGoes, FailAndRetryGoes, MovesNowhere DEF SpawnResult, Becomes, Goes
<1>. QED  BY <1>1, CallKeeps DEF SpawnResult, Callback

(* The agent takes the commands along.                                      *)
LEMMA PollKeeps ==
  ASSUME SupInv, Poll
  PROVE  SupInv' /\ inbox' \in Seq(Commands)
<1>. Supervises(sup)
  BY DEF SupInv
<1>. DEFINE none == <<>>
            t == [sup EXCEPT !.sent = none]
<1>1. none \in Seq(Commands)
  OBVIOUS
<1>2. sup' = t
  BY DEF Poll
<1>. HIDE DEF none
<1>3. Supervises(t) /\ t.launchGen = sup.launchGen /\ t.launches = sup.launches
      /\ t.stops = sup.stops /\ t.containerId = sup.containerId /\ sup.launchGen \in Nat
  BY <1>1 DEF Supervises, Supervisors
<1>. HIDE DEF t
<1>4. Goes(sup, sup')
  BY <1>2, <1>3, GoesAlong
<1>. QED  BY <1>4, CallKeeps DEF Poll, Supervises, Supervisors

(* All else leaves the supervisor alone.                                    *)
LEMMA SupStep == SupInv /\ [Next]_vars => SupInv'
<1>. SUFFICES ASSUME SupInv, [Next]_vars PROVE SupInv'
  OBVIOUS
<1>. Supervises(sup) /\ runner \in Runners
  BY DEF SupInv
<1>1. ASSUME UNCHANGED supVars
      PROVE  SupInv'
  <2>1. Goes(sup, sup')
    BY <1>1, MovesNowhere DEF Goes, supVars
  <2>. QED  BY <1>1, <2>1, CallKeeps DEF supVars
<1>2. CASE SupervisorStep
  BY <1>2, SupervisorStepKeeps
<1>3. CASE Restarted
  BY <1>3, ManagerRestartsKeeps DEF Restarted
<1>4. CASE MachineStep \/ MachineMishap \/ ReportLost \/ HeartbeatLost \/ Watch
  BY <1>1, <1>4 DEF MachineStep, MachineMishap, ReportLost, HeartbeatLost, Watch
<1>5. CASE Poll
  BY <1>5, PollKeeps
<1>6. ASSUME NEW o \in outcomes, Report(o)
      PROVE  SupInv'
  BY <1>1, <1>6, SpawnResultKeeps DEF Report
<1>7. CASE HeartbeatBack
  BY <1>7, ResumeGoes, CallKeeps DEF HeartbeatBack, MachineIsBack, Request, Becomes
<1>8. CASE UNCHANGED vars
  BY <1>1, <1>8 DEF vars
<1>. QED  BY <1>2, <1>3, <1>4, <1>5, <1>6, <1>7, <1>8 DEF Next

-----------------------------------------------------------------------------
(* The machine.                                                             *)

(* A command is not what the agent does when it is idle or recovers.        *)
LEMMA CommandsAreWork ==
  /\ \A command \in Commands : command \notin {Idle, Resuming}
  /\ Idle # Resuming /\ Resuming.type = "resume"
<1>1. Idle.type = "idle" /\ Resuming.type = "resume"
  BY DEF Idle, Resuming
<1>2. \A command \in Commands : command.type \in {"spawn", "stop"}
  BY DEF Commands
<1>. QED  BY <1>1, <1>2

LEMMA MachineActionKeeps ==
  ASSUME MachineInv, MachineStep
  PROVE  MachineInv'
<1>1. CASE TakeSpawn
  BY <1>1, CommandsAreWork DEF TakeSpawn, MachineInv
<1>2. CASE AlreadyRunning
  BY <1>2, CommandsAreWork DEF AlreadyRunning, Done, OnDisk, MachineInv
<1>3. CASE Install
  BY <1>3, CommandsAreWork DEF Install, OnDisk, MachineInv
<1>4. CASE InstallFails
  BY <1>4, CommandsAreWork DEF InstallFails, Done, OnDisk, MachineInv
<1>5. CASE Spawn
  BY <1>5, CommandsAreWork DEF Spawn, Done, MachineInv
<1>6. CASE TakeStop
  BY <1>6, CommandsAreWork DEF TakeStop, OnDisk, MachineInv
<1>7. CASE KillTakes
  BY <1>7, CommandsAreWork DEF KillTakes, OnDisk, MachineInv
<1>8. CASE ForgetSpawn
  BY <1>8, CommandsAreWork DEF ForgetSpawn, Done, MachineInv
<1>9. CASE KillFails
  BY <1>9, CommandsAreWork DEF KillFails, Done, OnDisk, MachineInv
<1>. QED  BY <1>1, <1>2, <1>3, <1>4, <1>5, <1>6, <1>7, <1>8, <1>9 DEF MachineStep

LEMMA MishapKeeps ==
  ASSUME MachineInv, MachineMishap
  PROVE  MachineInv'
<1>1. ASSUME NEW p \in procs, ProcessDies(p)
      PROVE  MachineInv'
  BY <1>1 DEF ProcessDies, OnDisk, MachineInv
<1>2. ASSUME NEW reboot \in BOOLEAN, AgentRestarts(reboot)
      PROVE  MachineInv'
  <2>1. inbox' \in Seq(Commands)
    BY <1>2 DEF AgentRestarts
  <2>2. /\ job' = IF spawnJson THEN Resuming ELSE Idle
        /\ step' = IF spawnJson THEN "checking" ELSE "none"
        /\ UNCHANGED <<spawnJson, nodePid, pids, lastCommand>>
        /\ procs' \subseteq procs
        /\ ~cutShort' => ~cutShort /\ job \in {Idle, Resuming}
        /\ cutShort' \in BOOLEAN
    BY <1>2 DEF AgentRestarts, OnDisk, MachineInv
  <2>3. lastCommand' = "stop" /\ ~cutShort' => job' = Idle /\ procs' = {} /\ ~spawnJson'
    BY <2>2, CommandsAreWork DEF MachineInv
  <2>. QED  BY <2>1, <2>2, <2>3, CommandsAreWork DEF MachineInv
<1>. QED  BY <1>1, <1>2 DEF MachineMishap

LEMMA MachineKept == MachineInv /\ SupInv /\ [Next]_vars => MachineInv'
<1>. SUFFICES ASSUME MachineInv, SupInv, [Next]_vars PROVE MachineInv'
  OBVIOUS
<1>1. CASE SupervisorStep \/ Restarted \/ HeartbeatLost \/ HeartbeatBack \/ Watch
           \/ UNCHANGED vars
  <2>1. UNCHANGED machineVars
    BY <1>1 DEF SupervisorStep, Restarted, HeartbeatLost, HeartbeatBack, Watch, vars
  <2>. QED  BY <2>1 DEF machineVars, MachineInv
<1>2. CASE MachineStep
  BY <1>2, MachineActionKeeps
<1>3. CASE MachineMishap
  BY <1>3, MishapKeeps
<1>4. CASE Poll
  <2>1. inbox' \in Seq(Commands)
    BY <1>4, PollKeeps
  <2>2. UNCHANGED <<job, step, spawnJson, nodePid, procs, pids, lastCommand, cutShort>>
    BY <1>4 DEF Poll, OnDisk
  <2>. QED  BY <2>1, <2>2 DEF MachineInv
<1>5. ASSUME NEW o \in outcomes, Report(o)
      PROVE  MachineInv'
  BY <1>5 DEF Report, OnDisk, MachineInv
<1>6. CASE ReportLost
  BY <1>6 DEF ReportLost, OnDisk, MachineInv
<1>. QED  BY <1>1, <1>2, <1>3, <1>4, <1>5, <1>6 DEF Next

-----------------------------------------------------------------------------
(* The watchdog.                                                            *)

LEMMA WatchKept == WatchInv /\ [Next]_vars => WatchInv'
<1>. SUFFICES ASSUME WatchInv, [Next]_vars PROVE WatchInv'
  OBVIOUS
<1>1. ASSUME UNCHANGED watchVars
      PROVE  WatchInv'
  BY <1>1 DEF watchVars, WatchInv
<1>2. CASE Restarted
  BY <1>2 DEF Restarted, WatchInv, Subjects
<1>3. CASE Sweep(online, sup.state)
  BY <1>3 DEF Sweep, Seen, SeenDown, SeenUp, HasUnreadAlert, Notify, WatchInv, Subjects
<1>4. CASE MarkRead
  BY <1>4 DEF MarkRead, WatchInv, Subjects
<1>. QED  BY <1>1, <1>2, <1>3, <1>4
          DEF Next, SupervisorStep, MachineStep, MachineMishap, Poll, Report, ReportLost,
              HeartbeatLost, HeartbeatBack, Watch, vars

-----------------------------------------------------------------------------
(* The theorems.                                                            *)

LEMMA FleetInitially == Init => FleetInv
<1>. SUFFICES ASSUME Init PROVE FleetInv
  OBVIOUS
<1>1. SupInv
  <2>. DEFINE fresh == Fresh(0)
  <2>1. Unburdened(fresh, 0)
    BY FreshIsUnburdened
  <2>2. sup = Start(fresh) /\ runner \in Runners /\ containers = {} /\ givenUp = {}
    BY DEF Init, SupervisorInit
  <2>. HIDE DEF fresh
  <2>3. Holds(fresh, {}) /\ Finished(fresh, {}, {})
    BY <2>1 DEF Unburdened, Holds, Finished, None
  <2>. QED  BY <2>1, <2>2, <2>3, StartGoes, MovesHold DEF Unburdened, SupInv, Goes
<1>2. MachineInv
  <2>1. inbox \in Seq(Commands)
    BY DEF Init, MachineInit
  <2>2. /\ job = Idle /\ step = "none" /\ nodePid = 0 /\ pids = 0 /\ procs = {}
        /\ lastCommand = "none" /\ ~spawnJson /\ ~cutShort
    BY DEF Init, MachineInit
  <2>3. {spawnJson, cutShort} \subseteq BOOLEAN
    BY DEF Init, MachineInit
  <2>. QED  BY <2>1, <2>2, <2>3 DEF MachineInv
<1>3. WatchInv
  BY DEF Init, WatchInit, WatchInv, Subjects
<1>. QED  BY <1>1, <1>2, <1>3 DEF FleetInv

LEMMA FleetHolds == Spec => []FleetInv
<1>1. FleetInv /\ [Next]_vars => FleetInv'
  BY SupStep, MachineKept, WatchKept DEF FleetInv
<1>. QED  BY <1>1, FleetInitially, PTL DEF Spec

(* The state of the supervisor, the machine and the watchdog has its types, *)
(* whatever the bounds (supervisor.ts, runtime.mjs, watchdog.ts).           *)
THEOREM FleetIsTyped == Spec => []TypeOK
<1>1. FleetInv => TypeOK
  BY DEF FleetInv, SupInv, MachineInv, WatchInv, Supervises, Supervisors, TypeOK
<1>. QED  BY <1>1, FleetHolds, PTL

(* An agent node runs at most once: dispatchSpawn starts a process only     *)
(* when the number on file is not that of one that runs.                    *)
THEOREM NodesRunOnce == Spec => []OneInstance
<1>1. FleetInv => OneInstance
  <2>. SUFFICES ASSUME FleetInv PROVE Cardinality(procs) <= 1
    BY DEF OneInstance
  <2>1. procs \subseteq {nodePid}
    BY DEF FleetInv, MachineInv
  <2>2. IsFiniteSet({nodePid}) /\ Cardinality({nodePid}) = 1
    BY FS_Singleton
  <2>3. Cardinality(procs) <= Cardinality({nodePid})
    BY <2>1, <2>2, FS_Subset
  <2>. QED  BY <2>2, <2>3
<1>. QED  BY <1>1, FleetHolds, PTL

(* A container that runs is the supervisor's, or on its way out: a launch   *)
(* that was overtaken finds that out and stops what it started.             *)
THEOREM ContainersAreLookedAfter == Spec => []OrphansAreFinished
<1>1. FleetInv => OrphansAreFinished
  BY DEF FleetInv, SupInv, Finished, OrphansAreFinished
<1>. QED  BY <1>1, FleetHolds, PTL

(* A stop that was carried out leaves neither a process nor a payload to    *)
(* recover from (execStop, recoverNodes).                                   *)
THEOREM StopsLast == Spec => []StoppedStaysStopped
<1>1. FleetInv => StoppedStaysStopped
  BY DEF FleetInv, MachineInv, StoppedStaysStopped
<1>. QED  BY <1>1, FleetHolds, PTL

(* The watchdog tells of every outage of a machine: a machine it last saw   *)
(* silent is the subject of its latest notification.                        *)
THEOREM OutagesAreTold == Spec => []MachineOutageIsTold
<1>1. FleetInv => MachineOutageIsTold
  BY DEF FleetInv, WatchInv, MachineOutageIsTold
<1>. QED  BY <1>1, FleetHolds, PTL
=============================================================================

----------------------------- MODULE AgentNodes -----------------------------
(***************************************************************************)
(* The machine of an agent node: what the agent program of                  *)
(* public/assets/agent/runtime.mjs does with the commands for one node, and *)
(* what is left on the machine when the program or the whole host goes      *)
(* down.  How commands travel is in AgentChannel.                           *)
(***************************************************************************)
EXTENDS Naturals, Sequences

CONSTANT MaxPids   \* bound on the processes ever spawned

ASSUME AgentNodesAssumption == MaxPids \in Nat

VARIABLES
  inbox,      \* the commands of this round still to execute
  job,        \* the command under execution, or Idle
  step,       \* the await it stands at
  outcomes,   \* results of this round, not reported yet
  spawnJson,  \* nodes/<id>/spawn.json is there
  nodePid,    \* the number in nodes/<id>/node.pid
  procs,      \* the node's processes that run
  pids,       \* how many were spawned so far
  lastCommand, \* history: the type of the last command taken up
  cutShort    \* history: a command or its report was lost, or a stop failed

machineVars ==
  <<inbox, job, step, outcomes, spawnJson, nodePid, procs, pids, lastCommand, cutShort>>

Idle == [type |-> "idle", gen |-> 0]
Resuming == [type |-> "resume", gen |-> 0]

MachineInit ==
  /\ inbox = <<>> /\ outcomes = {}
  /\ job = Idle /\ step = "none"
  /\ spawnJson = FALSE /\ nodePid = 0 /\ procs = {} /\ pids = 0
  /\ lastCommand = "none" /\ cutShort = FALSE

OnDisk == <<spawnJson, nodePid>>

(* The end of a command: its outcome is noted, recovery has none.           *)
Done(ok) ==
  /\ job' = Idle /\ step' = "none"
  /\ outcomes' = IF job = Resuming THEN outcomes
                 ELSE outcomes \cup {[gen |-> job.gen, type |-> job.type, ok |-> ok]}

-----------------------------------------------------------------------------
(* execSpawn, execRestart's second half and recovery.                       *)

(* A spawn command is taken up: its payload is written down first.          *)
TakeSpawn ==
  /\ job = Idle /\ inbox # <<>> /\ Head(inbox).type = "spawn"
  /\ job' = Head(inbox) /\ inbox' = Tail(inbox)
  /\ spawnJson' = TRUE /\ step' = "checking" /\ lastCommand' = "spawn"
  /\ UNCHANGED <<outcomes, nodePid, procs, pids, cutShort>>

(* dispatchSpawn: the process on file is alive, nothing is to be done.      *)
AlreadyRunning ==
  /\ step = "checking" /\ nodePid \in procs
  /\ Done(TRUE)
  /\ UNCHANGED <<inbox, OnDisk, procs, pids, lastCommand, cutShort>>

(* ... without that gate (a mutation).                                      *)
InstallAnyway ==
  /\ step = "checking" /\ step' = "installing"
  /\ UNCHANGED <<inbox, job, outcomes, OnDisk, procs, pids, lastCommand, cutShort>>

(* ... or it is not: the profile is written and what it needs installed.    *)
Install ==
  /\ step = "checking" /\ nodePid \notin procs /\ step' = "installing"
  /\ UNCHANGED <<inbox, job, outcomes, OnDisk, procs, pids, lastCommand, cutShort>>

InstallFails ==
  /\ step = "installing"
  /\ Done(FALSE)
  /\ UNCHANGED <<inbox, OnDisk, procs, pids, lastCommand, cutShort>>

(* The process starts and its number is written to node.pid; nothing else   *)
(* runs between the two.                                                    *)
Spawn ==
  /\ step = "installing" /\ pids < MaxPids
  /\ pids' = pids + 1 /\ procs' = procs \cup {pids + 1} /\ nodePid' = pids + 1
  /\ Done(TRUE)
  /\ UNCHANGED <<inbox, spawnJson, lastCommand, cutShort>>

-----------------------------------------------------------------------------
(* execStop.                                                                *)

TakeStop ==
  /\ job = Idle /\ inbox # <<>> /\ Head(inbox).type = "stop"
  /\ job' = Head(inbox) /\ inbox' = Tail(inbox)
  /\ step' = "killing" /\ lastCommand' = "stop"
  /\ UNCHANGED <<outcomes, OnDisk, procs, pids, cutShort>>

(* The process goes while the agent waits to see it go.                     *)
KillTakes ==
  /\ step = "killing" /\ procs' = procs \ {nodePid} /\ step' = "killed"
  /\ UNCHANGED <<inbox, job, outcomes, OnDisk, pids, lastCommand, cutShort>>

(* ... with the payload left on file (a mutation).                          *)
ForgetNothing ==
  /\ step = "killed" /\ Done(TRUE)
  /\ UNCHANGED <<inbox, OnDisk, procs, pids, lastCommand, cutShort>>

(* The payload on file is removed: that is the intent behind a stop.        *)
ForgetSpawn ==
  /\ step = "killed" /\ spawnJson' = FALSE
  /\ Done(TRUE)
  /\ UNCHANGED <<inbox, nodePid, procs, pids, lastCommand, cutShort>>

(* taskkill finds no such process and fails, the payload stays.             *)
KillFails ==
  /\ step = "killing" /\ nodePid # 0 /\ nodePid \notin procs
  /\ Done(FALSE) /\ cutShort' = TRUE
  /\ UNCHANGED <<inbox, OnDisk, procs, pids, lastCommand>>

-----------------------------------------------------------------------------
(* The program and the host.                                                *)

ProcessDies(p) ==
  p \in procs /\ procs' = procs \ {p}
  /\ UNCHANGED <<inbox, job, step, outcomes, OnDisk, pids, lastCommand, cutShort>>

(* The program is restarted by its service manager, and first of all        *)
(* recovers what it has a payload for.  Processes survive it, but not a     *)
(* reboot of the host.                                                      *)
AgentRestarts(reboot) ==
  /\ inbox' = <<>> /\ outcomes' = {}
  /\ job' = IF spawnJson THEN Resuming ELSE Idle
  /\ step' = IF spawnJson THEN "checking" ELSE "none"
  /\ procs' = IF reboot THEN {} ELSE procs
  /\ cutShort' = (cutShort \/ inbox # <<>> \/ outcomes # {} \/ job \notin {Idle, Resuming})
  /\ UNCHANGED <<OnDisk, pids, lastCommand>>
=============================================================================

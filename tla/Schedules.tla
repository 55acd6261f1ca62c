----------------------------- MODULE Schedules -----------------------------
(***************************************************************************)
(* The scheduler (cron/schedule.ts) and the routes that edit schedules     *)
(* (routes/cron.ts, and the drafts of routes/internal.ts).  A schedule is  *)
(* a row and, while the manager is up and the row enabled, a timer; an     *)
(* attempt reads the row, runs a turn and writes what came of it, with     *)
(* edits, other attempts and restarts in between.  Every pattern is due at *)
(* every tick of the clock.                                                *)
(***************************************************************************)
EXTENDS Integers, FiniteSets

CONSTANTS Crons, Attempts, NoRow, NoAttempt, Never,
          Ceiling,     \* runner.maxConsecutiveFailures
          MissedCap,   \* MISSED_CAP
          MaxTime      \* bound of the clock

\* A row of the table cron.
CronRow ==
    [enabled : BOOLEAN, failures : Nat, end : Nat, lastRun : Nat \cup {Never}, created : Nat]

ASSUME CronAssumption ==
    /\ Ceiling \in Nat \ {0} /\ {MissedCap, MaxTime} \subseteq Nat
    /\ Never \notin Nat /\ NoRow \notin CronRow

VARIABLES rows,      \* the table cron
          jobs,      \* the timers
          attempts,  \* the attempts under way, with the failures they read
          due,       \* the timers that go off at this tick
          now, up,
          told       \* history: the last occurrence reported as missed

cronVars == <<rows, jobs, attempts, due, now, up, told>>

CronInit ==
    /\ rows = [c \in Crons |-> NoRow]
    /\ jobs = {}
    /\ attempts = [a \in Attempts |-> NoAttempt]
    /\ due = {}
    /\ now = 1
    /\ up = TRUE
    /\ told = [c \in Crons |-> 0]

Row(c) == rows[c] # NoRow
NoEnd == MaxTime + 1
\* scheduleProblem: the pattern has a future.
HasFuture(r, c) == r[c].end = NoEnd
Enabled(r, c) == r[c] # NoRow /\ r[c].enabled

\* load: a timer for every enabled row whose pattern has a future.
Load(r) == {c \in Crons : Enabled(r, c) /\ HasFuture(r, c)}

\* Every edit of a row ends with a reload.
Reload(r) == rows' = r /\ jobs' = Load(r) /\ due' = due \cap Load(r)

----------------------------------------------------------------------------
(* Routes.                                                                 *)

NewRow(c, on) ==
    /\ up /\ ~Row(c)
    /\ Reload([rows EXCEPT ![c] = [enabled |-> on, failures |-> 0, end |-> NoEnd,
                                  lastRun |-> Never, created |-> now]])
    /\ UNCHANGED <<attempts, now, up, told>>

\* By a person; the brain only drafts one, which a person has to enable.
Create(c) == NewRow(c, TRUE)
Draft(c) == NewRow(c, FALSE)

\* Mutation of Edit: the failures of before are kept.
EditKeepsFailures(c) ==
    /\ up /\ Row(c)
    /\ \E on \in BOOLEAN : Reload([rows EXCEPT ![c].enabled = on, ![c].end = NoEnd])
    /\ UNCHANGED <<attempts, now, up, told>>

\* The pattern it is left with must have a future.
Edit(c) ==
    /\ up /\ Row(c)
    /\ \E on \in BOOLEAN :
         Reload([rows EXCEPT ![c].enabled = on, ![c].end = NoEnd,
                             ![c].failures = IF on /\ ~rows[c].enabled THEN 0 ELSE @])
    /\ UNCHANGED <<attempts, now, up, told>>

Delete(c) ==
    /\ up /\ Row(c)
    /\ Reload([rows EXCEPT ![c] = NoRow])
    /\ told' = [told EXCEPT ![c] = 0]
    /\ UNCHANGED <<attempts, now, up>>

----------------------------------------------------------------------------
(* Attempts.                                                               *)

\* recordSkip and the row: the occurrence is accounted for.
Skip(c) == rows' = [rows EXCEPT ![c].lastRun = now]

\* The timer, or the button: force.  The agent may be gone from the config, the
\* budget used up or not measurable; the button asks only for the agent.
AttemptBegins(c, force) ==
    /\ up /\ Row(c)
    /\ IF force THEN UNCHANGED due ELSE c \in due /\ due' = due \ {c}
    /\ \/ /\ ~force /\ ~rows[c].enabled
          /\ UNCHANGED <<rows, attempts>>
       \/ /\ force \/ rows[c].enabled
          /\ Skip(c)
          /\ UNCHANGED attempts
       \/ /\ force \/ rows[c].enabled
          /\ \E a \in Attempts : /\ attempts[a] = NoAttempt
                                 /\ attempts' = [attempts EXCEPT ![a] = [cron |-> c, failures |-> rows[c].failures]]
          /\ UNCHANGED rows
    /\ UNCHANGED <<jobs, now, up, told>>

AttemptSucceeds(a) ==
    LET c == attempts[a].cron IN
    /\ attempts[a] # NoAttempt
    /\ rows' = IF Row(c) THEN [rows EXCEPT ![c].failures = 0, ![c].lastRun = now]
               ELSE rows
    /\ attempts' = [attempts EXCEPT ![a] = NoAttempt]
    /\ UNCHANGED <<jobs, due, now, up, told>>

\* Counted as far as the ceiling can tell: failures of the button go on after it.
OneMore(n) == IF n = Ceiling THEN n ELSE n + 1

\* Mutation of CountFailure: the timer of a schedule switched off stays.
CountFailureKeepsTimer(a) ==
    LET c == attempts[a].cron
        failures == OneMore(attempts[a].failures)
    IN /\ attempts[a] # NoAttempt
       /\ rows' = IF Row(c) THEN [rows EXCEPT ![c].failures = failures, ![c].lastRun = now,
                                              ![c].enabled = @ /\ failures < Ceiling]
                  ELSE rows
       /\ attempts' = [attempts EXCEPT ![a] = NoAttempt]
       /\ UNCHANGED <<jobs, due, now, up, told>>

\* The count is the one the attempt read when it began.
CountFailure(a) ==
    LET c == attempts[a].cron
        failures == OneMore(attempts[a].failures)
        off == IF failures >= Ceiling THEN {c} ELSE {}
    IN /\ attempts[a] # NoAttempt
       /\ rows' = IF Row(c) THEN [rows EXCEPT ![c].failures = failures, ![c].lastRun = now,
                                              ![c].enabled = @ /\ failures < Ceiling]
                  ELSE rows
       /\ jobs' = jobs \ off
       /\ due' = due \ off
       /\ attempts' = [attempts EXCEPT ![a] = NoAttempt]
       /\ UNCHANGED <<now, up, told>>

----------------------------------------------------------------------------
(* Restarts and the clock.                                                 *)

\* The turns under way are ended by the reconciler at the next boot.
Dies ==
    /\ up
    /\ up' = FALSE /\ jobs' = {} /\ due' = {}
    /\ attempts' = [a \in Attempts |-> NoAttempt]
    /\ UNCHANGED <<rows, now, told>>

Since(c) == IF rows[c].lastRun = Never THEN rows[c].created ELSE rows[c].lastRun

\* The occurrences recordMissed finds: the first ones after Since, at most the cap.
Missed(c) ==
    IF Enabled(rows, c)
    THEN {t \in Since(c) + 1 .. now : t <= Since(c) + MissedCap /\ t < rows[c].end} ELSE {}

LastOf(T) == CHOOSE t \in T : \A u \in T : u <= t

\* Mutation of Advanced: the time of the boot is not kept.
AdvancedNot(c) == rows[c]

\* To the last one counted, not to now.
Advanced(c) ==
    [rows[c] EXCEPT !.lastRun = LastOf(Missed(c))]

\* start: recordMissed, then load.
Starts ==
    /\ ~up
    /\ up' = TRUE
    /\ rows' = [c \in Crons |-> IF Missed(c) = {} THEN rows[c] ELSE Advanced(c)]
    /\ told' = [c \in Crons |-> IF Missed(c) = {} THEN told[c] ELSE LastOf(Missed(c))]
    /\ jobs' = Load(rows)
    /\ UNCHANGED <<attempts, due, now>>

Tick ==
    /\ now < MaxTime /\ due = {}
    /\ now' = now + 1
    /\ due' = {c \in jobs : HasFuture(rows, c)}
    /\ UNCHANGED <<rows, jobs, attempts, up, told>>

\* The last time a pattern names has gone by, if no later than now; its timer stays until the next load.
RunsOut(c) ==
    /\ Row(c) /\ HasFuture(rows, c)
    /\ rows' = [rows EXCEPT ![c].end = now]
    /\ UNCHANGED <<jobs, attempts, due, now, up, told>>

CronNext ==
    \/ \E c \in Crons : \/ Create(c) \/ Draft(c) \/ Edit(c) \/ Delete(c) \/ RunsOut(c)
                        \/ AttemptBegins(c, TRUE) \/ AttemptBegins(c, FALSE)
    \/ \E a \in Attempts : AttemptSucceeds(a) \/ CountFailure(a)
    \/ Dies \/ Starts \/ Tick

CronSpec == CronInit /\ [][CronNext]_cronVars

----------------------------------------------------------------------------

\* While the manager is up exactly the enabled schedules have a timer -- only one
\* that ran out may be without -- and an enabled one has failed fewer times in a
\* row than switches it off, whatever edits, reloads and overlapping attempts
\* that fail come together.
TimersFollowRows ==
    /\ up => /\ \A c \in jobs : Enabled(rows, c)
             /\ \A c \in Crons : Enabled(rows, c) /\ HasFuture(rows, c) => c \in jobs
    /\ \A c \in Crons : Enabled(rows, c) => rows[c].failures < Ceiling

\* No boot reports an occurrence that an earlier boot has reported, not even
\* when the gap was longer than the count goes.
MissedToldOnce ==
    [][~up /\ up' => \A c \in Crons : \A t \in Missed(c) : t > told[c]]_cronVars

\* Croner's overlap guard, as the scheduler's comment has it: one schedule has
\* one attempt of its timer at a time.
OneAttemptAtATime ==
    \A a, b \in Attempts :
        attempts[a] # NoAttempt /\ attempts[b] # NoAttempt /\ attempts[a].cron = attempts[b].cron => a = b
=============================================================================

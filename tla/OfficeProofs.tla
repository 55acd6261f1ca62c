---------------------------- MODULE OfficeProofs ----------------------------
(***************************************************************************)
(* Proofs about the manager around the turns and about its pages: modules   *)
(* Schedules, PublicApi (with what module Dispatch chooses for it),         *)
(* Delegations, Provisioning, Composer, AdminPages and Sidebar, each by its *)
(* own behaviours, for any sets and any bounds.                             *)
(***************************************************************************)
EXTENDS PublicApi, Schedules, Delegations, Provisioning, Composer, AdminPages, Sidebar,
        FiniteSetTheorems, SequenceTheorems, WellFoundedInduction, TLAPS

(* The least-number principle, and with it the largest of some numbers that *)
(* have a bound.                                                            *)
LEMMA LeastNumber ==
  ASSUME NEW T \in SUBSET Nat, T # {}
  PROVE  \E m \in T : \A n \in T : m <= n
<1>. DEFINE R == {ss \in Nat \X Nat : ss[1] < ss[2]}
<1>1. IsWellFoundedOn(R, Nat)
  BY NatLessThanWellFounded DEF OpToRel
<1>2. \A x, y \in Nat : x < y <=> <<x, y>> \in R
  OBVIOUS
<1>. HIDE DEF R
<1>3. PICK m \in T : \A n \in T : ~ (<<n, m>> \in R)
  BY <1>1, WFMin
<1>4. ASSUME NEW n \in T PROVE m <= n
  <2>1. m \in Nat /\ n \in Nat
    OBVIOUS
  <2>2. ~ (n < m)
    BY <1>2, <1>3, <2>1
  <2>. QED  BY <2>1, <2>2
<1>. QED  BY <1>4

(* Induction on the numbers up to N: for a set instead of a formula.        *)
LEMMA UpTo ==
  ASSUME NEW N \in Nat, NEW T, 0 \in T, \A n \in 0..N : n \in T /\ n < N => n + 1 \in T
  PROVE  \A n \in 0..N : n \in T
<1>. DEFINE Left == {n \in 0..N : n \notin T}
<1>. SUFFICES ASSUME Left # {} PROVE FALSE
  OBVIOUS
<1>1. Left \in SUBSET Nat
  OBVIOUS
<1>2. \E m \in Left : \A n \in Left : m <= n
  <2>. HIDE DEF Left
  <2>. QED  BY <1>1, LeastNumber
<1>3. PICK m \in Left : \A n \in Left : m <= n
  BY <1>2
<1>4. m - 1 \in 0..N /\ m - 1 < N /\ ~ (m <= m - 1) /\ (m - 1) + 1 = m
  OBVIOUS
<1>. QED  BY <1>3, <1>4

LEMMA LargestNumber ==
  ASSUME NEW T \in SUBSET Nat, T # {}, NEW b \in Nat, \A n \in T : n <= b
  PROVE  \E m \in T : \A n \in T : n <= m
<1>. DEFINE U == {b - n : n \in T}
<1>1. U \in SUBSET Nat /\ U # {}
  <2>1. \A n \in T : b - n \in Nat
    OBVIOUS
  <2>. QED  BY <2>1
<1>2. \E u \in U : \A v \in U : u <= v
  <2>. HIDE DEF U
  <2>. QED BY <1>1, LeastNumber
<1>3. PICK m \in T : \A n \in T : b - m <= b - n
  BY <1>2
<1>. QED  BY <1>3

-----------------------------------------------------------------------------
(* The schedules.                                                           *)
CronTyped ==
  /\ rows \in [Crons -> CronRow \union {NoRow}]
  /\ attempts \in [Attempts -> [cron : Crons, failures : Nat] \union {NoAttempt}]
  /\ jobs \subseteq Crons
  /\ now \in Nat /\ up \in BOOLEAN
  /\ told \in [Crons -> Nat]

(* What was told of a schedule is no later than now, nor than the time from *)
(* which its next gap is counted.                                           *)
ToldIsBehind ==
  \A c \in Crons : told[c] <= now /\ (Row(c) => told[c] <= Since(c) /\ Since(c) <= now)

CronInv == CronTyped /\ ToldIsBehind /\ TimersFollowRows

LEMMA CronConstants ==
  /\ Ceiling \in Nat /\ Ceiling > 0 /\ MissedCap \in Nat /\ MaxTime \in Nat /\ Never \notin Nat
  /\ NoEnd \in Nat /\ NoRow \notin CronRow
BY CronAssumption DEF CronAssumption, NoEnd

(* A row that is there is one of the table.                                 *)
LEMMA RowIsTyped ==
  ASSUME CronTyped, NEW c \in Crons, Row(c)
  PROVE  rows[c] \in CronRow /\ Since(c) \in Nat
BY DEF CronTyped, Row, CronRow, Since

(* What a boot counts as missed has a last one.                             *)
LEMMA MissedHasLast ==
  ASSUME CronTyped, NEW c \in Crons, Missed(c) # {}
  PROVE  /\ Row(c) /\ LastOf(Missed(c)) \in Missed(c)
         /\ LastOf(Missed(c)) \in Nat /\ Since(c) < LastOf(Missed(c)) /\ LastOf(Missed(c)) <= now
<1>1. Row(c)
  BY DEF Missed, Enabled, Row
<1>2. Since(c) \in Nat /\ now \in Nat
  BY <1>1, RowIsTyped DEF CronTyped
<1>. DEFINE T == Missed(c)
<1>3. T \in SUBSET Nat /\ \A t \in T : Since(c) < t /\ t <= now
  BY <1>2 DEF Missed
<1>. HIDE DEF T
<1>4. \E t \in T : \A u \in T : u <= t
  BY <1>2, <1>3, LargestNumber DEF T
<1>5. LastOf(T) \in T
  BY <1>4 DEF LastOf
<1>. QED  BY <1>1, <1>2, <1>3, <1>5 DEF T

LEMMA CronBegins == CronInit => CronInv
BY CronConstants
   DEF CronInit, CronInv, CronTyped, ToldIsBehind, TimersFollowRows, Row, Enabled, HasFuture

(* A new row, by a person or as a draft.                                    *)
LEMMA RowIsNew ==
  ASSUME CronTyped, NEW c \in Crons, Create(c) \/ Draft(c)
  PROVE  \E r \in CronRow : /\ rows' = [rows EXCEPT ![c] = r]
                             /\ r.failures = 0 /\ r.lastRun = Never /\ r.created = now
<1>1. PICK on \in BOOLEAN : NewRow(c, on)
  BY DEF Create, Draft
<1>. DEFINE r == [enabled |-> on, failures |-> 0, end |-> NoEnd, lastRun |-> Never, created |-> now]
<1>2. r \in CronRow /\ r.failures = 0 /\ r.lastRun = Never /\ r.created = now
  BY CronConstants DEF CronRow, CronTyped
<1>3. rows' = [rows EXCEPT ![c] = r]
  BY <1>1 DEF NewRow, Reload
<1>. QED  BY <1>2, <1>3

LEMMA CronTypedStep ==
  ASSUME CronTyped, [CronNext]_cronVars
  PROVE  CronTyped'
<1>. USE CronConstants
<1>1. ASSUME NEW c \in Crons, Create(c) \/ Draft(c)
      PROVE  CronTyped'
  BY <1>1, RowIsNew, ZenonT(60) DEF Create, Draft, NewRow, Reload, Load, CronTyped
<1>2. ASSUME NEW c \in Crons, Edit(c)
      PROVE  CronTyped'
  <2>1. PICK on \in BOOLEAN :
          rows' = [rows EXCEPT ![c].enabled = on, ![c].end = NoEnd,
                               ![c].failures = IF on /\ ~rows[c].enabled THEN 0 ELSE @]
    BY <1>2 DEF Edit, Reload
  <2>2. rows[c] \in CronRow /\ UNCHANGED <<attempts, now, up, told>>
        /\ jobs' \subseteq Crons
    BY <1>2, RowIsTyped DEF Edit, Reload, Load
  <2>3. (IF on /\ ~rows[c].enabled THEN 0 ELSE rows[c].failures) \in Nat
    BY <2>2 DEF CronRow
  <2>4. rows' \in [Crons -> CronRow \union {NoRow}]
    BY <2>1, <2>2, <2>3 DEF CronTyped, CronRow
  <2>. QED  BY <2>2, <2>4 DEF CronTyped
<1>3. ASSUME NEW c \in Crons, Delete(c)
      PROVE  CronTyped'
  BY <1>3 DEF Delete, Reload, Load, CronTyped
<1>4. ASSUME NEW c \in Crons, RunsOut(c)
      PROVE  CronTyped'
  BY <1>4, RowIsTyped DEF RunsOut, CronTyped, CronRow
<1>5. ASSUME NEW c \in Crons, NEW force \in BOOLEAN, AttemptBegins(c, force)
      PROVE  CronTyped'
  <2>1. Row(c) /\ rows[c] \in CronRow /\ UNCHANGED <<jobs, now, up, told>>
    BY <1>5, RowIsTyped DEF AttemptBegins
  <2>2. rows' = rows \/ Skip(c)
    BY <1>5 DEF AttemptBegins
  <2>3. rows' \in [Crons -> CronRow \union {NoRow}]
    BY <2>1, <2>2 DEF Skip, CronTyped, CronRow
  <2>4. \/ attempts' = attempts
        \/ \E a \in Attempts :
             attempts' = [attempts EXCEPT ![a] = [cron |-> c, failures |-> rows[c].failures]]
    BY <1>5 DEF AttemptBegins
  <2>5. rows[c].failures \in Nat
    BY <2>1 DEF CronRow
  <2>6. attempts' \in [Attempts -> [cron : Crons, failures : Nat] \union {NoAttempt}]
    BY <2>4, <2>5 DEF CronTyped
  <2>. QED  BY <2>1, <2>3, <2>6 DEF CronTyped
<1>6. ASSUME NEW a \in Attempts, AttemptSucceeds(a)
      PROVE  CronTyped'
  <2>. DEFINE c == attempts[a].cron
  <2>1. c \in Crons
    BY <1>6 DEF AttemptSucceeds, CronTyped
  <2>2. rows' \in [Crons -> CronRow \union {NoRow}]
    <3>1. CASE Row(c)
      BY <1>6, <2>1, <3>1, RowIsTyped DEF AttemptSucceeds, CronTyped, CronRow
    <3>2. CASE ~Row(c)
      BY <1>6, <3>2 DEF AttemptSucceeds, CronTyped
    <3>. QED  BY <3>1, <3>2
  <2>. QED  BY <1>6, <2>2 DEF AttemptSucceeds, CronTyped
<1>7. ASSUME NEW a \in Attempts, CountFailure(a)
      PROVE  CronTyped'
  <2>. DEFINE c == attempts[a].cron  n == OneMore(attempts[a].failures)
  <2>1. c \in Crons /\ n \in Nat /\ now \in Nat
    BY <1>7 DEF CountFailure, CronTyped, OneMore
  <2>2. rows' = IF Row(c) THEN [rows EXCEPT ![c].failures = n, ![c].lastRun = now,
                                            ![c].enabled = @ /\ n < Ceiling]
                ELSE rows
    BY <1>7 DEF CountFailure
  <2>3. /\ attempts' = [attempts EXCEPT ![a] = NoAttempt]
        /\ jobs' \subseteq jobs /\ UNCHANGED <<now, up, told>>
    BY <1>7 DEF CountFailure
  <2>. HIDE DEF c, n
  <2>4. rows' \in [Crons -> CronRow \union {NoRow}]
    <3>1. CASE Row(c)
      <4>1. rows[c] \in CronRow /\ rows \in [Crons -> CronRow \union {NoRow}]
        BY <2>1, <3>1, RowIsTyped DEF CronTyped
      <4>2. [rows[c] EXCEPT !.failures = n, !.lastRun = now, !.enabled = @ /\ n < Ceiling] \in CronRow
        BY <2>1, <4>1 DEF CronRow
      <4>3. rows' = [rows EXCEPT ![c] = [rows[c] EXCEPT !.failures = n, !.lastRun = now,
                                                       !.enabled = @ /\ n < Ceiling]]
        BY <2>1, <2>2, <3>1, <4>1 DEF CronRow
      <4>. QED  BY <2>1, <4>1, <4>2, <4>3
    <3>2. CASE ~Row(c)
      BY <2>2, <3>2 DEF CronTyped
    <3>. QED  BY <3>1, <3>2
  <2>. QED  BY <2>3, <2>4 DEF CronTyped
<1>8. CASE Dies
  BY <1>8 DEF Dies, CronTyped
<1>9. CASE Starts
  BY <1>9, RowIsTyped, MissedHasLast DEF Starts, Advanced, Load, CronTyped, CronRow
<1>10. CASE Tick \/ UNCHANGED cronVars
  BY <1>10 DEF Tick, cronVars, CronTyped
<1>. QED
  BY <1>1, <1>2, <1>3, <1>4, <1>5, <1>6, <1>7, <1>8, <1>9, <1>10 DEF CronNext

(* What was told stays behind: the clock only goes on, and a row is accounted
   for at the time of the step or at the last occurrence that is told.      *)
LEMMA ToldStep ==
  ASSUME CronTyped, ToldIsBehind, [CronNext]_cronVars
  PROVE  ToldIsBehind'
<1>. USE CronConstants
<1>. USE DEF ToldIsBehind
<1>1. ASSUME NEW c \in Crons, Create(c) \/ Draft(c)
      PROVE  ToldIsBehind'
  BY <1>1 DEF Create, Draft, NewRow, Reload, CronTyped, Row, Since
<1>2. ASSUME NEW c \in Crons, Edit(c)
      PROVE  ToldIsBehind'
  <2>1. PICK on \in BOOLEAN :
          rows' = [rows EXCEPT ![c].enabled = on, ![c].end = NoEnd,
                               ![c].failures = IF on /\ ~rows[c].enabled THEN 0 ELSE @]
    BY <1>2 DEF Edit, Reload
  <2>2. UNCHANGED <<now, told>> /\ Row(c) /\ rows[c] \in CronRow
    BY <1>2, RowIsTyped DEF Edit
  <2>3. \A d \in Crons : (Row(d)' => Row(d)) /\ Since(d)' = Since(d)
    BY <2>1, <2>2 DEF CronTyped, CronRow, Row, Since
  <2>. QED  BY <2>2, <2>3
<1>3. ASSUME NEW c \in Crons, Delete(c)
      PROVE  ToldIsBehind'
  BY <1>3 DEF Delete, Reload, CronTyped, Row, Since
<1>4. ASSUME NEW c \in Crons, RunsOut(c)
      PROVE  ToldIsBehind'
  <2>1. UNCHANGED <<now, told>> /\ Row(c) /\ rows[c] \in CronRow
    BY <1>4, RowIsTyped DEF RunsOut
  <2>2. \A d \in Crons : (Row(d)' => Row(d)) /\ Since(d)' = Since(d)
    BY <1>4, <2>1 DEF RunsOut, CronTyped, CronRow, Row, Since
  <2>. QED  BY <2>1, <2>2
<1>5. ASSUME NEW c \in Crons, NEW force \in BOOLEAN, AttemptBegins(c, force)
      PROVE  ToldIsBehind'
  <2>1. UNCHANGED <<now, told>> /\ Row(c) /\ rows[c] \in CronRow
    BY <1>5, RowIsTyped DEF AttemptBegins
  <2>2. CASE rows' = rows
    BY <2>1, <2>2 DEF Row, Since
  <2>3. CASE Skip(c)
    BY <2>1, <2>3 DEF Skip, CronTyped, CronRow, Row, Since
  <2>. QED  BY <1>5, <2>2, <2>3 DEF AttemptBegins
<1>6. ASSUME NEW a \in Attempts, AttemptSucceeds(a) \/ CountFailure(a)
      PROVE  ToldIsBehind'
  <2>. DEFINE c == attempts[a].cron
  <2>1. c \in Crons /\ UNCHANGED <<now, told>>
    BY <1>6 DEF AttemptSucceeds, CountFailure, CronTyped
  <2>2. CASE Row(c)
    <3>1. rows[c] \in CronRow
      BY <2>1, <2>2, RowIsTyped
    <3>2. rows'[c].lastRun = now
      BY <1>6, <2>1, <2>2, <3>1 DEF AttemptSucceeds, CountFailure, CronTyped, CronRow
    <3>3. \A d \in Crons : d # c => rows'[d] = rows[d]
      BY <1>6, <2>1, <2>2 DEF AttemptSucceeds, CountFailure, CronTyped
    <3>. HIDE DEF c
    <3>. QED  BY <2>1, <2>2, <3>2, <3>3 DEF CronTyped, Row, Since
  <2>3. CASE ~Row(c)
    BY <1>6, <2>1, <2>3 DEF AttemptSucceeds, CountFailure, Row, Since
  <2>. QED  BY <2>2, <2>3
<1>7. CASE Starts
  <2>1. ASSUME NEW c \in Crons
        PROVE  told'[c] <= now /\ (Row(c)' => told'[c] <= Since(c)' /\ Since(c)' <= now)
    <3>1. CASE Missed(c) = {}
      BY <1>7, <3>1 DEF Starts, Row, Since
    <3>2. CASE Missed(c) # {}
      <4>1. /\ Row(c) /\ rows[c] \in CronRow
            /\ LastOf(Missed(c)) \in Nat /\ LastOf(Missed(c)) <= now
        BY <3>2, MissedHasLast, RowIsTyped
      <4>. DEFINE t == LastOf(Missed(c))
      <4>2. told'[c] = t /\ rows'[c] = [rows[c] EXCEPT !.lastRun = t]
        BY <1>7, <3>2 DEF Starts, Advanced
      <4>. HIDE DEF t
      <4>3. rows'[c].lastRun = t
        BY <4>1, <4>2 DEF CronRow
      <4>. QED  BY <4>1, <4>2, <4>3 DEF t, Since
    <3>. QED  BY <3>1, <3>2
  <2>. QED  BY <1>7, <2>1 DEF Starts
<1>8. CASE Dies \/ Tick \/ UNCHANGED cronVars
  BY <1>8, RowIsTyped DEF Dies, Tick, cronVars, CronTyped, Row, Since
<1>. QED
  BY <1>1, <1>2, <1>3, <1>4, <1>5, <1>6, <1>7, <1>8 DEF CronNext

(* The timers of the loaded rows are those of the enabled ones.             *)
LEMMA TimersStep ==
  ASSUME CronTyped, TimersFollowRows, [CronNext]_cronVars
  PROVE  TimersFollowRows'
<1>. USE CronConstants
<1>. USE DEF TimersFollowRows
<1>1. ASSUME NEW c \in Crons, Create(c) \/ Draft(c) \/ Delete(c)
      PROVE  TimersFollowRows'
  <2>1. up' = up /\ jobs' = Load(rows') /\ \A d \in Crons : d # c => rows'[d] = rows[d]
    BY <1>1 DEF Create, Draft, NewRow, Delete, Reload, CronTyped
  <2>2. Enabled(rows', c) => rows'[c].failures < Ceiling
    <3>1. CASE Create(c) \/ Draft(c)
      BY <3>1, RowIsNew DEF CronTyped
    <3>2. CASE Delete(c)
      BY <3>2 DEF Delete, Reload, Enabled, CronTyped
    <3>. QED  BY <1>1, <3>1, <3>2
  <2>3. \A d \in Crons : Enabled(rows', d) => rows'[d].failures < Ceiling
    BY <2>1, <2>2 DEF Enabled
  <2>. QED  BY <2>1, <2>3 DEF Load, HasFuture
<1>2. ASSUME NEW c \in Crons, Edit(c)
      PROVE  TimersFollowRows'
  <2>1. PICK on \in BOOLEAN :
          /\ rows' = [rows EXCEPT ![c].enabled = on, ![c].end = NoEnd,
                                  ![c].failures = IF on /\ ~rows[c].enabled THEN 0 ELSE @]
          /\ jobs' = Load(rows')
    BY <1>2 DEF Edit, Reload
  <2>2. up' = up /\ Row(c) /\ rows[c] \in CronRow
    BY <1>2, RowIsTyped DEF Edit
  <2>3. rows'[c].enabled = on /\ rows'[c].failures = (IF on /\ ~rows[c].enabled THEN 0 ELSE rows[c].failures)
        /\ \A d \in Crons : d # c => rows'[d] = rows[d]
    BY <2>1, <2>2 DEF CronTyped, CronRow
  <2>4. \A d \in Crons : Enabled(rows', d) => rows'[d].failures < Ceiling
    BY <2>2, <2>3 DEF CronRow, Enabled, Row
  <2>. QED  BY <2>1, <2>2, <2>4 DEF Load, Enabled, HasFuture
<1>3. ASSUME NEW c \in Crons, RunsOut(c)
      PROVE  TimersFollowRows'
  <2>1. UNCHANGED <<up, jobs>> /\ Row(c) /\ rows[c] \in CronRow
    BY <1>3, RowIsTyped DEF RunsOut
  <2>2. \A d \in Crons : /\ Enabled(rows', d) <=> Enabled(rows, d)
                         /\ Enabled(rows', d) => rows'[d].failures = rows[d].failures
                         /\ HasFuture(rows', d) => HasFuture(rows, d)
    BY <1>3, <2>1 DEF RunsOut, CronTyped, CronRow, Enabled, HasFuture, Row
  <2>. QED  BY <2>1, <2>2 DEF CronTyped
<1>4. ASSUME NEW c \in Crons, NEW force \in BOOLEAN, AttemptBegins(c, force)
      PROVE  TimersFollowRows'
  <2>1. UNCHANGED <<up, jobs>> /\ Row(c) /\ rows[c] \in CronRow
    BY <1>4, RowIsTyped DEF AttemptBegins
  <2>2. \A d \in Crons : /\ Enabled(rows', d) <=> Enabled(rows, d)
                         /\ Enabled(rows', d) => rows'[d].failures = rows[d].failures
                         /\ HasFuture(rows', d) => HasFuture(rows, d)
    BY <1>4, <2>1 DEF AttemptBegins, Skip, CronTyped, CronRow, Enabled, HasFuture, Row
  <2>. QED  BY <2>1, <2>2 DEF CronTyped
<1>5. ASSUME NEW a \in Attempts, AttemptSucceeds(a) \/ CountFailure(a)
      PROVE  TimersFollowRows'
  <2>. DEFINE c == attempts[a].cron
  <2>1. c \in Crons /\ up' = up
    BY <1>5 DEF AttemptSucceeds, CountFailure, CronTyped
  <2>2. CASE ~Row(c)
    <3>1. rows' = rows /\ jobs' \in {jobs, jobs \ {c}}
      BY <1>5, <2>1, <2>2 DEF AttemptSucceeds, CountFailure
    <3>. HIDE DEF c
    <3>. QED  BY <2>1, <2>2, <3>1 DEF CronTyped, Row, Enabled
  <2>3. CASE Row(c) /\ AttemptSucceeds(a)
    <3>1. rows' = [rows EXCEPT ![c].failures = 0, ![c].lastRun = now] /\ jobs' = jobs
      BY <2>1, <2>3 DEF AttemptSucceeds
    <3>2. rows[c] \in CronRow
      BY <2>1, <2>3, RowIsTyped
    <3>. HIDE DEF c
    <3>3. \A d \in Crons : /\ Enabled(rows', d) => Enabled(rows, d)
                           /\ Enabled(rows, d) => rows'[d].enabled
                           /\ rows'[d].failures \in {0, rows[d].failures}
                           /\ HasFuture(rows', d) <=> HasFuture(rows, d)
      BY <2>1, <2>3, <3>1, <3>2 DEF CronTyped, CronRow, Enabled, HasFuture, Row
    <3>4. rows'[c] \in CronRow /\ \A d \in Crons : d # c => rows'[d] = rows[d]
      BY <2>1, <3>1, <3>2 DEF CronTyped, CronRow
    <3>5. \A d \in Crons : Enabled(rows', d) <=> Enabled(rows, d)
      BY <2>3, <3>3, <3>4 DEF Enabled, Row
    <3>. QED  BY <2>1, <3>1, <3>3, <3>5 DEF CronTyped
  <2>4. CASE Row(c) /\ CountFailure(a)
    <3>. DEFINE n == OneMore(attempts[a].failures)
    <3>1. /\ rows' = [rows EXCEPT ![c].failures = n, ![c].lastRun = now,
                                  ![c].enabled = @ /\ n < Ceiling]
          /\ jobs' = jobs \ (IF n >= Ceiling THEN {c} ELSE {})
      BY <2>4 DEF CountFailure
    <3>2. rows[c] \in CronRow /\ n \in Nat
      BY <2>1, <2>4, RowIsTyped DEF CountFailure, OneMore, CronTyped
    <3>. HIDE DEF c, n
    <3>3. /\ rows'[c].enabled <=> rows[c].enabled /\ n < Ceiling
          /\ rows'[c].failures = n /\ rows'[c].end = rows[c].end
          /\ \A d \in Crons : d # c => rows'[d] = rows[d]
      BY <2>1, <3>1, <3>2 DEF CronTyped, CronRow
    <3>4. rows'[c] \in CronRow
      BY <2>1, <3>1, <3>2 DEF CronTyped, CronRow
    <3>5. \A d \in Crons : Enabled(rows', d) => Enabled(rows, d) /\ rows'[d].failures < Ceiling
      BY <3>2, <3>3 DEF Enabled, Row
    <3>6. \A d \in Crons : Enabled(rows, d) /\ (d = c => n < Ceiling) => Enabled(rows', d)
      BY <3>3, <3>4 DEF Enabled
    <3>7. \A d \in Crons : HasFuture(rows', d) <=> HasFuture(rows, d)
      BY <3>3 DEF HasFuture
    <3>8. Enabled(rows', c) => n < Ceiling
      BY <3>3 DEF Enabled
    <3>9. Ceiling \in Nat /\ jobs \subseteq Crons
      BY DEF CronTyped
    <3>10. \A d \in Crons : d \in jobs' <=> d \in jobs /\ (d = c => n < Ceiling)
      BY <3>1, <3>2, <3>9
    <3>11. jobs' \subseteq Crons
      BY <3>1, <3>9
    <3>12. up' => \A d \in jobs' : Enabled(rows', d)
      BY <2>1, <3>6, <3>10, <3>11
    <3>13. up' => \A d \in Crons : Enabled(rows', d) /\ HasFuture(rows', d) => d \in jobs'
      BY <2>1, <3>5, <3>7, <3>8, <3>10
    <3>. QED  BY <3>5, <3>12, <3>13
  <2>. QED  BY <1>5, <2>2, <2>3, <2>4
<1>6. CASE Starts
  <2>1. \A c \in Crons : /\ Enabled(rows', c) <=> Enabled(rows, c)
                         /\ Enabled(rows, c) => rows'[c].failures = rows[c].failures
                         /\ HasFuture(rows', c) <=> HasFuture(rows, c)
    <3>. SUFFICES ASSUME NEW c \in Crons
                  PROVE  /\ Enabled(rows', c) <=> Enabled(rows, c)
                         /\ Enabled(rows, c) => rows'[c].failures = rows[c].failures
                         /\ HasFuture(rows', c) <=> HasFuture(rows, c)
      OBVIOUS
    <3>1. CASE Missed(c) = {}
      BY <1>6, <3>1 DEF Starts, Enabled, HasFuture
    <3>2. CASE Missed(c) # {}
      <4>. DEFINE t == LastOf(Missed(c))
      <4>1. t \in Nat /\ Row(c) /\ rows[c] \in CronRow
        BY <3>2, MissedHasLast, RowIsTyped
      <4>2. rows'[c] = [rows[c] EXCEPT !.lastRun = t]
        BY <1>6, <3>2 DEF Starts, Advanced
      <4>. HIDE DEF t
      <4>. QED  BY <4>1, <4>2 DEF CronRow, Enabled, HasFuture, Row
    <3>. QED  BY <3>1, <3>2
  <2>2. jobs' = {c \in Crons : Enabled(rows, c) /\ HasFuture(rows, c)}
    BY <1>6 DEF Starts, Load
  <2>3. \A c \in Crons : Enabled(rows', c) => rows'[c].failures < Ceiling
    BY <2>1
  <2>. QED  BY <2>1, <2>2, <2>3
<1>7. CASE Dies \/ Tick \/ UNCHANGED cronVars
  BY <1>7 DEF Dies, Tick, cronVars
<1>. QED
  BY <1>1, <1>2, <1>3, <1>4, <1>5, <1>6, <1>7 DEF CronNext

LEMMA CronInvariant == CronSpec => []CronInv
<1>1. CronInv /\ [CronNext]_cronVars => CronInv'
  BY CronTypedStep, ToldStep, TimersStep DEF CronInv
<1>. QED  BY <1>1, CronBegins, PTL DEF CronSpec

(* While the manager is up, its timers are those of the enabled schedules,  *)
(* and a schedule that failed too often is off (the reload after an edit,   *)
(* the end of an attempt and the start of schedule.ts), for any schedules,  *)
(* attempts and ceiling.                                                    *)
THEOREM TimersAreRight == CronSpec => []TimersFollowRows
BY CronInvariant, PTL DEF CronInv

(* A boot tells of a gap only what no boot before it has told: lastRun is   *)
(* advanced to the last occurrence counted (recordMissed).                  *)
THEOREM MissedIsToldOnce == CronSpec => MissedToldOnce
<1>1. CronInv /\ [CronNext]_cronVars =>
        [~up /\ up' => \A c \in Crons : \A t \in Missed(c) : t > told[c]]_cronVars
  <2>. SUFFICES ASSUME CronInv, NEW c \in Crons, NEW t \in Missed(c)
                PROVE  t > told[c]
    OBVIOUS
  <2>1. Row(c) /\ Since(c) \in Nat /\ now \in Nat /\ told[c] \in Nat
    BY MissedHasLast, RowIsTyped DEF CronInv, CronTyped
  <2>2. told[c] <= Since(c)
    BY <2>1 DEF CronInv, ToldIsBehind
  <2>3. t \in Since(c) + 1 .. now
    BY DEF Missed
  <2>. QED  BY <2>1, <2>2, <2>3
<1>. QED  BY <1>1, CronInvariant, PTL DEF CronSpec, MissedToldOnce

-----------------------------------------------------------------------------
(* The choice of an agent.                                                  *)
Askable(req) == req.workers \in Seq(Worker) /\ req.seed \in Nat /\ req.max \in Nat

(* The turn of an agent among those that have room, as the clock has it.    *)
Turned(C, seed, i) == (Position(C, i) - (seed % Cardinality(C)) + Cardinality(C)) % Cardinality(C)

LEMMA LeastBy ==
  ASSUME NEW S, S # {}, NEW f, \A i \in S : f[i] \in Nat
  PROVE  \E i \in S : \A j \in S : f[i] <= f[j]
<1>. DEFINE T == {f[i] : i \in S}
<1>1. T \in SUBSET Nat /\ T # {}
  OBVIOUS
<1>2. \E m \in T : \A n \in T : m <= n
  <2>. HIDE DEF T
  <2>. QED  BY <1>1, LeastNumber
<1>. QED  BY <1>2

LEMMA ModOfTwice ==
  \A n \in Nat \ {0}, x \in Nat : x < 2 * n => x % n = IF x < n THEN x ELSE x - n
OBVIOUS

(* Positions are numbered from zero, one for each.                          *)
LEMMA PositionsDiffer ==
  ASSUME NEW C \in SUBSET Nat, IsFiniteSet(C)
  PROVE  /\ \A i \in C : Position(C, i) \in 0..(Cardinality(C) - 1)
         /\ \A i, j \in C : i < j => Position(C, i) < Position(C, j)
<1>1. ASSUME NEW i \in C, NEW D \in SUBSET C, \A j \in C : j < i => j \in D, i \in D
      PROVE  /\ Position(C, i) + 1 <= Cardinality(D) /\ Cardinality(D) \in Nat
             /\ Cardinality(D) <= Cardinality(C) /\ Position(C, i) \in Nat
  <2>. DEFINE S == {j \in C : j < i}
  <2>1. S \union {i} \subseteq D /\ i \notin S
    <3>1. i \in Nat /\ ~ (i < i)
      OBVIOUS
    <3>2. \A j \in S : j \in D
      BY <1>1
    <3>. QED  BY <1>1, <3>1, <3>2
  <2>2. IsFiniteSet(D) /\ IsFiniteSet(S) /\ IsFiniteSet(S \union {i})
    BY <2>1, FS_Subset
  <2>. HIDE DEF S
  <2>3. Cardinality(S \union {i}) = Cardinality(S) + 1
    BY <2>1, <2>2, FS_AddElement
  <2>4. Cardinality(S \union {i}) <= Cardinality(D) /\ Cardinality(D) <= Cardinality(C)
    BY <2>1, <2>2, FS_Subset
  <2>5. Cardinality(S) \in Nat /\ Cardinality(D) \in Nat
    BY <2>2, FS_CardinalityType
  <2>. QED  BY <2>3, <2>4, <2>5 DEF S, Position
<1>2. ASSUME NEW i \in C
      PROVE  Position(C, i) \in 0..(Cardinality(C) - 1)
  <2>1. Position(C, i) + 1 <= Cardinality(C) /\ Position(C, i) \in Nat /\ Cardinality(C) \in Nat
    BY <1>1
  <2>. QED  BY <2>1
<1>3. ASSUME NEW i \in C, NEW j \in C, i < j
      PROVE  Position(C, i) < Position(C, j)
  <2>. DEFINE D == {k \in C : k < j}
  <2>1. D \subseteq C /\ i \in D /\ \A k \in C : k < i => k \in D
    BY <1>3
  <2>2. Position(C, j) = Cardinality(D)
    BY DEF Position
  <2>. HIDE DEF D
  <2>3. Position(C, i) + 1 <= Cardinality(D) /\ Cardinality(D) \in Nat /\ Position(C, i) \in Nat
    BY <1>1, <2>1
  <2>. QED  BY <2>2, <2>3
<1>. QED  BY <1>2, <1>3

LEMMA TurnsDiffer ==
  ASSUME NEW C \in SUBSET Nat, IsFiniteSet(C), C # {}, NEW seed \in Nat
  PROVE  /\ \A i \in C : Turned(C, seed, i) \in Nat
         /\ \A i, j \in C : i # j => Turned(C, seed, i) # Turned(C, seed, j)
<1>. DEFINE n == Cardinality(C)  r == seed % n
<1>1. n \in Nat \ {0}
  BY FS_CardinalityType, FS_EmptySet
<1>2. r \in 0..(n - 1)
  <2>. HIDE DEF n
  <2>. QED  BY <1>1
<1>3. \A i \in C : Position(C, i) \in 0..(n - 1)
  BY PositionsDiffer
<1>4. \A i, j \in C : i # j => Position(C, i) # Position(C, j)
  BY <1>3, PositionsDiffer
<1>5. \A i \in C : Turned(C, seed, i) = (Position(C, i) - r + n) % n
  BY DEF Turned
<1>. HIDE DEF n, r
<1>6. \A p \in 0..(n - 1) : (p - r + n) % n = IF p < r THEN p - r + n ELSE p - r
  <2>. SUFFICES ASSUME NEW p \in 0..(n - 1)
                PROVE  (p - r + n) % n = IF p < r THEN p - r + n ELSE p - r
    OBVIOUS
  <2>. DEFINE x == p - r + n
  <2>1. x \in Nat /\ x < 2 * n /\ (x < n <=> p < r) /\ x - n = p - r
    BY <1>1, <1>2
  <2>. HIDE DEF x
  <2>2. x % n = IF x < n THEN x ELSE x - n
    BY <1>1, <2>1, ModOfTwice
  <2>. QED  BY <2>1, <2>2 DEF x
<1>7. \A p \in 0..(n - 1) : (p - r + n) % n \in Nat
  BY <1>1, <1>2, <1>6
<1>8. \A p, q \in 0..(n - 1) : p # q => (p - r + n) % n # (q - r + n) % n
  BY <1>1, <1>2, <1>6
<1>. QED  BY <1>3, <1>4, <1>5, <1>7, <1>8

(* One agent is chosen before another.                                      *)
Sooner(W, C, seed, i, j) ==
  \/ ComesBefore(W[i], W[j])
  \/ ~ComesBefore(W[j], W[i]) /\ Turned(C, seed, i) < Turned(C, seed, j)

\* Of these agents one is as fast as any.
SomeIsFastest(W, S) ==
  \E i \in S : \A j \in S :
     \/ CompareLatency(W[i].latency, W[j].latency) < 0
     \/ W[i].latency = W[j].latency

LEMMA LatencyOrder ==
  ASSUME NEW S, S # {}, NEW W, \A i \in S : W[i] \in Worker
  PROVE  SomeIsFastest(W, S)
<1>. USE DEF SomeIsFastest
<1>. DEFINE K == {i \in S : W[i].latency # NoFact}
<1>1. \A i \in S : W[i].latency \in Nat \union {NoFact}
  BY DEF Worker
<1>2. CASE K = {}
  BY <1>2
<1>3. CASE K # {}
  <2>. DEFINE f == [i \in S |-> W[i].latency]
  <2>1. \A i \in K : f[i] \in Nat
    BY <1>1
  <2>2. \E i \in K : \A j \in K : f[i] <= f[j]
    <3>. HIDE DEF K, f
    <3>. QED  BY <1>3, <2>1, LeastBy
  <2>3. PICK i \in K : \A j \in K : W[i].latency <= W[j].latency
    BY <2>2
  <2>4. ASSUME NEW j \in S
        PROVE  \/ CompareLatency(W[i].latency, W[j].latency) < 0
               \/ W[i].latency = W[j].latency
    <3>1. CASE j \in K
      BY <1>1, <2>3, <3>1 DEF CompareLatency
    <3>2. CASE j \notin K
      BY <1>1, <2>3, <3>2 DEF CompareLatency
    <3>. QED  BY <3>1, <3>2
  <2>. QED  BY <2>3, <2>4
<1>. QED  BY <1>2, <1>3

(* Those with the least number are before all others.                       *)
HasLeastOnes(f, D) ==
  \E E \in SUBSET D : E # {} /\ \A i \in E, j \in D : f[i] < f[j] \/ (f[i] = f[j] /\ j \in E)

LEMMA LeastOnes ==
  ASSUME NEW D, D # {}, NEW f, \A i \in D : f[i] \in Nat
  PROVE  HasLeastOnes(f, D)
<1>. DEFINE E == {i \in D : \A j \in D : f[i] <= f[j]}
<1>1. \E i \in D : \A j \in D : f[i] <= f[j]
  BY LeastBy
<1>2. ASSUME NEW i \in E, NEW j \in D PROVE f[i] < f[j] \/ (f[i] = f[j] /\ j \in E)
  OBVIOUS
<1>. QED  BY <1>1, <1>2 DEF HasLeastOnes

(* Among agents there is one that is chosen before every other.             *)
LEMMA BestWorker ==
  ASSUME NEW W, NEW C \in SUBSET Nat, IsFiniteSet(C), C # {}, NEW seed \in Nat,
         \A i \in C : W[i] \in Worker
  PROVE  \E i \in C : \A j \in C \ {i} : Sooner(W, C, seed, i, j)
<1>. DEFINE s == [i \in C |-> W[i].sessions]
            q == [i \in C |-> W[i].queue]
            k == [i \in C |-> W[i].ofKey]
            t == [i \in C |-> Turned(C, seed, i)]
<1>1. \A i \in C : /\ s[i] \in Nat /\ q[i] \in Nat /\ k[i] \in Nat /\ t[i] \in Nat
                   /\ s[i] = W[i].sessions /\ q[i] = W[i].queue /\ k[i] = W[i].ofKey
                   /\ t[i] = Turned(C, seed, i)
  BY TurnsDiffer DEF Worker
<1>2. \A i, j \in C : i # j => t[i] # t[j]
  BY TurnsDiffer
<1>. HIDE DEF s, q, k, t
<1>4. PICK C1 \in SUBSET C : C1 # {} /\ \A i \in C1, j \in C :
        s[i] < s[j] \/ (s[i] = s[j] /\ j \in C1)
  <2>1. C # {} /\ \A i \in C : s[i] \in Nat
    BY <1>1
  <2>2. HasLeastOnes(s, C)
    BY <2>1, LeastOnes
  <2>. QED  BY <2>2 DEF HasLeastOnes
<1>5. PICK C2 \in SUBSET C1 : C2 # {} /\ \A i \in C2, j \in C1 :
        q[i] < q[j] \/ (q[i] = q[j] /\ j \in C2)
  <2>1. C1 # {} /\ \A i \in C1 : q[i] \in Nat
    BY <1>1, <1>4
  <2>2. HasLeastOnes(q, C1)
    BY <2>1, LeastOnes
  <2>. QED  BY <2>2 DEF HasLeastOnes
<1>6. PICK C3 \in SUBSET C2 : C3 # {} /\ \A i \in C3, j \in C2 :
        \/ CompareLatency(W[i].latency, W[j].latency) < 0
        \/ W[i].latency = W[j].latency /\ j \in C3
  <2>1. PICK b \in C2 : \A j \in C2 :
          \/ CompareLatency(W[b].latency, W[j].latency) < 0
          \/ W[b].latency = W[j].latency
    <3>1. C2 # {} /\ \A i \in C2 : W[i] \in Worker
      BY <1>5
    <3>2. SomeIsFastest(W, C2)
      BY <3>1, LatencyOrder
    <3>. QED  BY <3>2 DEF SomeIsFastest
  <2>. DEFINE M == {i \in C2 : W[i].latency = W[b].latency}
  <2>2. \A i \in M, j \in C2 : \/ CompareLatency(W[i].latency, W[j].latency) < 0
                               \/ W[i].latency = W[j].latency /\ j \in M
    BY <2>1
  <2>3. M \in SUBSET C2 /\ M # {}
    OBVIOUS
  <2>. QED  BY <2>2, <2>3
<1>7. PICK C4 \in SUBSET C3 : C4 # {} /\ \A i \in C4, j \in C3 :
        k[i] < k[j] \/ (k[i] = k[j] /\ j \in C4)
  <2>1. C3 # {} /\ \A i \in C3 : k[i] \in Nat
    BY <1>1, <1>6
  <2>2. HasLeastOnes(k, C3)
    BY <2>1, LeastOnes
  <2>. QED  BY <2>2 DEF HasLeastOnes
<1>8. PICK b \in C4 : \A j \in C4 : t[b] <= t[j]
  BY <1>1, <1>7, LeastBy
<1>9. ASSUME NEW j \in C \ {b}
      PROVE  Sooner(W, C, seed, b, j)
  <2>. USE <1>1
  <2>. USE DEF Sooner, ComesBefore
  <2>1. b \in C4 /\ b \in C3 /\ b \in C2 /\ b \in C1 /\ b \in C
    BY <1>4, <1>5, <1>6, <1>7
  <2>2. CASE j \notin C1
    BY <1>4, <2>1, <2>2
  <2>3. CASE j \in C1 \ C2
    BY <1>4, <1>5, <2>1, <2>3
  <2>4. CASE j \in C2 \ C3
    BY <1>4, <1>5, <1>6, <2>1, <2>4
  <2>5. CASE j \in C3 \ C4
    <3>1. CompareLatency(W[b].latency, W[j].latency) < 0
          \/ CompareLatency(W[b].latency, W[j].latency) = 0
      BY <1>6, <2>1, <2>5 DEF CompareLatency
    <3>. QED  BY <1>4, <1>5, <1>7, <2>1, <2>5, <3>1
  <2>6. CASE j \in C4
    <3>1. j \in C1 /\ j \in C2 /\ j \in C3 /\ j \in C /\ b # j
      BY <2>6, <1>7, <1>6, <1>5
    <3>2. s[b] = s[j] /\ q[b] = q[j] /\ k[b] = k[j]
      <4>1. s[b] <= s[j] /\ s[j] <= s[b]
        <5>1. s[b] < s[j] \/ s[b] = s[j]
          BY <1>4, <2>1, <3>1
        <5>2. s[j] < s[b] \/ s[j] = s[b]
          BY <1>4, <2>1, <3>1
        <5>3. s[b] \in Nat /\ s[j] \in Nat
          BY <2>1, <3>1
        <5>. QED  BY <5>1, <5>2, <5>3
      <4>2. q[b] <= q[j] /\ q[j] <= q[b]
        BY <1>5, <2>1, <3>1
      <4>3. k[b] <= k[j] /\ k[j] <= k[b]
        BY <1>7, <2>1, <2>6, <3>1
      <4>. QED  BY <2>1, <3>1, <4>1, <4>2, <4>3
    <3>3. t[b] < t[j]
      <4>1. t[b] # t[j]
        BY <1>2, <2>1, <3>1
      <4>2. t[b] <= t[j]
        BY <1>8, <2>6
      <4>3. t[b] \in Nat /\ t[j] \in Nat
        BY <2>1, <3>1
      <4>. QED  BY <4>1, <4>2, <4>3
    <3>4. CASE CompareLatency(W[b].latency, W[j].latency) < 0
      BY <2>1, <3>1, <3>2, <3>4
    <3>5. CASE W[b].latency = W[j].latency
      <4>1. CompareLatency(W[j].latency, W[b].latency) = 0
        BY <3>5 DEF CompareLatency
      <4>. QED  BY <2>1, <3>1, <3>2, <3>3, <4>1
    <3>. QED  BY <1>6, <2>1, <3>1, <3>4, <3>5
  <2>. QED  BY <2>2, <2>3, <2>4, <2>5, <2>6
<1>. QED  BY <1>4, <1>5, <1>6, <1>7, <1>8, <1>9

(* pickWorker: it answers when one is up and has room, and then with one of *)
(* those, before all others; it refuses otherwise.                          *)
LEMMA PickFrom ==
  ASSUME NEW req, Askable(req)
  PROVE  LET C == DispatchCandidates(req) IN
         /\ PickWorker(req).ok <=> C # {}
         /\ C # {} =>
              /\ PickWorker(req).agent \in C
              /\ \A j \in C \ {PickWorker(req).agent} :
                    Sooner(req.workers, C, req.seed, PickWorker(req).agent, j)
<1>. DEFINE C == DispatchCandidates(req)
            P(i) == \A j \in C \ {i} :
                       \/ ComesBefore(req.workers[i], req.workers[j])
                       \/ /\ ~ComesBefore(req.workers[j], req.workers[i])
                          /\ Turned(C, req.seed, i) < Turned(C, req.seed, j)
            b == CHOOSE i \in C : P(i)
<1>1. C \in SUBSET Nat /\ IsFiniteSet(C) /\ \A i \in C : req.workers[i] \in Worker
  <2>1. Len(req.workers) \in Nat /\ DOMAIN req.workers = 1..Len(req.workers)
        /\ \A i \in DOMAIN req.workers : req.workers[i] \in Worker
    BY DEF Askable
  <2>2. C \subseteq DOMAIN req.workers
    BY DEF DispatchCandidates
  <2>3. IsFiniteSet(1..Len(req.workers))
    BY <2>1, FS_Interval
  <2>. HIDE DEF C
  <2>4. IsFiniteSet(C)
    BY <2>1, <2>2, <2>3, FS_Subset
  <2>. QED  BY <2>1, <2>2, <2>4
<1>2. PickWorker(req) = IF C = {}
        THEN [ok |-> FALSE,
              reason |-> IF req.workers # <<>> /\ \A i \in DOMAIN req.workers : ~req.workers[i].online
                         THEN "no_worker_online" ELSE "all_full"]
        ELSE [ok |-> TRUE, agent |-> b]
  BY DEF PickWorker, Turned, Position
<1>3. CASE C = {}
  BY <1>2, <1>3
<1>4. CASE C # {}
  <2>1. \E i \in C : \A j \in C \ {i} : Sooner(req.workers, C, req.seed, i, j)
    <3>. HIDE DEF C
    <3>. QED  BY <1>1, <1>4, BestWorker DEF Askable
  <2>2. \E i \in C : P(i)
    BY <2>1 DEF Sooner
  <2>3. b \in C /\ P(b)
    BY <2>2
  <2>4. PickWorker(req).ok /\ PickWorker(req).agent = b
    <3>. HIDE DEF b, C
    <3>. QED  BY <1>2, <1>4
  <2>. HIDE DEF b
  <2>. QED  BY <1>4, <2>3, <2>4 DEF Sooner
<1>. QED  BY <1>3, <1>4

-----------------------------------------------------------------------------
(* Numbers in their order.                                                  *)

(* Every place in the order of the numbers of a finite set is taken.        *)
LEMMA EveryPosition ==
  ASSUME NEW S \in SUBSET Nat, IsFiniteSet(S)
  PROVE  \A k \in 0..(Cardinality(S) - 1) : \E o \in S : Position(S, o) = k
<1>. DEFINE n == Cardinality(S)
            f == [o \in S |-> Position(S, o)]
<1>1. n \in Nat
  BY FS_CardinalityType
<1>2. f \in [S -> 0..(n - 1)] /\ \A a, b \in S : f[a] = f[b] => a = b
  <2>1. \A i \in S : Position(S, i) \in 0..(n - 1)
    BY PositionsDiffer
  <2>2. \A a, b \in S : Position(S, a) = Position(S, b) => a = b
    BY <2>1, PositionsDiffer
  <2>. QED  BY <2>1, <2>2
<1>. HIDE DEF f, n
<1>3. f \in Injection(S, 0..(n - 1))
  BY <1>2 DEF Injection, IsInjective
<1>4. IsFiniteSet(0..(n - 1)) /\ Cardinality(0..(n - 1)) = n
  BY <1>1, FS_Interval
<1>5. f \in Surjection(S, 0..(n - 1))
  BY <1>3, <1>4, FS_Injection DEF n
<1>6. \A k \in 0..(n - 1) : \E o \in S : f[o] = k
  BY <1>5 DEF Surjection
<1>. QED  BY <1>6 DEF f, n

(* The lowest ones of some numbers.                                         *)
Lowest(S, count) == {o \in S : Position(S, o) < count}

LEMMA LowestOnes ==
  ASSUME NEW S \in SUBSET Nat, IsFiniteSet(S), NEW count \in Nat
  PROVE  /\ IsFiniteSet(Lowest(S, count)) /\ Cardinality(Lowest(S, count)) \in Nat
         /\ Cardinality(Lowest(S, count)) <= count
         /\ Cardinality(Lowest(S, count)) < count => Lowest(S, count) = S
         /\ \A o \in Lowest(S, count), p \in S \ Lowest(S, count) : o < p
<1>. DEFINE keep == Lowest(S, count)
            f == [o \in keep |-> Position(S, o)]
            n == Cardinality(S)
<1>1. keep \subseteq S /\ IsFiniteSet(keep) /\ n \in Nat /\ Cardinality(keep) \in Nat
  <2>1. keep \subseteq S
    BY DEF Lowest
  <2>. HIDE DEF keep
  <2>. QED  BY <2>1, FS_Subset, FS_CardinalityType
<1>2. \A i \in S : Position(S, i) \in 0..(n - 1)
  BY PositionsDiffer
<1>3. \A a, b \in S : Position(S, a) = Position(S, b) => a = b
  BY <1>2, PositionsDiffer
<1>4. \A o \in S : o \in keep <=> Position(S, o) < count
  BY DEF Lowest
<1>. HIDE DEF keep, n
<1>5. f \in [keep -> 0..(count - 1)]
  BY <1>1, <1>2, <1>4
<1>6. f \in Injection(keep, 0..(count - 1))
  <2>1. \A a, b \in keep : f[a] = f[b] => a = b
    BY <1>1, <1>3
  <2>. HIDE DEF f
  <2>. QED  BY <1>5, <2>1 DEF Injection, IsInjective
<1>7. IsFiniteSet(0..(count - 1)) /\ Cardinality(0..(count - 1)) = count
  BY FS_Interval
<1>8. /\ Cardinality(keep) <= count
      /\ Cardinality(keep) = count <=> f \in Surjection(keep, 0..(count - 1))
  BY <1>6, <1>7, FS_Injection
<1>9. ASSUME Cardinality(keep) < count PROVE keep = S
  <2>. SUFFICES ASSUME NEW p \in S, p \notin keep PROVE FALSE
    BY <1>1
  <2>1. count <= n
    BY <1>1, <1>2, <1>4
  <2>2. ASSUME NEW k \in 0..(count - 1) PROVE \E o \in keep : f[o] = k
    <3>1. k \in 0..(n - 1)
      BY <1>1, <2>1
    <3>2. PICK o \in S : Position(S, o) = k
      BY <3>1, EveryPosition DEF n
    <3>3. o \in keep
      BY <1>4, <3>2
    <3>. QED  BY <3>2, <3>3
  <2>3. f \in Surjection(keep, 0..(count - 1))
    <3>. HIDE DEF f
    <3>. QED  BY <1>5, <2>2 DEF Surjection
  <2>. QED  BY <1>1, <1>8, <1>9, <2>3
<1>10. ASSUME NEW o \in keep, NEW p \in S \ keep PROVE o < p
  <2>1. o \in S /\ p \in S /\ o # p /\ o \in Nat /\ p \in Nat
    BY <1>1
  <2>2. Position(S, o) < count /\ ~ (Position(S, p) < count)
    BY <1>4, <2>1
  <2>3. p < o => Position(S, p) < Position(S, o)
    BY <2>1, PositionsDiffer
  <2>4. Position(S, o) \in Nat /\ Position(S, p) \in Nat
    BY <1>1, <1>2, <2>1
  <2>. QED  BY <2>1, <2>2, <2>3, <2>4
<1>. QED  BY <1>1, <1>8, <1>9, <1>10 DEF keep

(* Of the numbers up to count enough are free.                              *)
LEMMA EnoughAreFree ==
  ASSUME NEW count \in Nat, NEW K, IsFiniteSet(K)
  PROVE  LET free == (1..count) \ K IN
         /\ IsFiniteSet(free) /\ Cardinality(free) \in Nat
         /\ count - Cardinality(K) <= Cardinality(free)
<1>. DEFINE free == (1..count) \ K
<1>1. IsFiniteSet(1..count) /\ Cardinality(1..count) = count
  BY FS_Interval
<1>2. IsFiniteSet(free) /\ Cardinality(free) \in Nat /\ Cardinality(K) \in Nat
  BY <1>1, FS_Subset, FS_CardinalityType
<1>3. free \intersect K = {} /\ 1..count \subseteq free \union K
  OBVIOUS
<1>. HIDE DEF free
<1>4. IsFiniteSet(free \union K) /\ Cardinality(free \union K) = Cardinality(free) + Cardinality(K)
  <2>1. Cardinality(free \intersect K) = 0
    BY <1>3, FS_EmptySet
  <2>2. Cardinality(free \union K)
          = Cardinality(free) + Cardinality(K) - Cardinality(free \intersect K)
    BY <1>2, FS_Union
  <2>3. IsFiniteSet(free \union K)
    BY <1>2, FS_Union
  <2>. QED  BY <1>2, <2>1, <2>2, <2>3
<1>5. count <= Cardinality(free \union K)
  BY <1>1, <1>3, <1>4, FS_Subset
<1>. QED  BY <1>2, <1>4, <1>5 DEF free

LEMMA MinOfTwo ==
  ASSUME NEW a \in Int, NEW b \in Int
  PROVE  Min({a, b}) = IF a <= b THEN a ELSE b
<1>. DEFINE P(x) == x \in {a, b} /\ \A y \in {a, b} : x =< y
            m == IF a <= b THEN a ELSE b
<1>1. P(m) /\ \A x : P(x) => x = m
  OBVIOUS
<1>2. Min({a, b}) = CHOOSE x : P(x)
  BY DEF Min
<1>. HIDE DEF P, m
<1>3. P(CHOOSE x : P(x))
  BY <1>1
<1>. QED  BY <1>1, <1>2, <1>3 DEF m

-----------------------------------------------------------------------------
(* The placement of new agents.                                             *)
Planable(req) ==
  /\ DOMAIN req.machines \in SUBSET Nat /\ IsFiniteSet(DOMAIN req.machines)
  /\ \A i \in DOMAIN req.machines : req.machines[i] \in Machine
  /\ req.strategy \in {"spread", "pack", "pin"} /\ req.perMachine \in Nat

(* The agents placed on a machine; the agents of the service it has seen.   *)
NewOn(placed, i) == Cardinality({k \in DOMAIN placed : placed[k] = i})
OfService(m, req) == Cardinality(m.services \intersect {req.service})
LoadOn(req, placed, i) == AgentsOn(req, placed, i) + OfService(req.machines[i], req)

(* What speaks for a machine apart from its agents and conversations.       *)
Weight(m) ==
  m.cpu + 10 * Min({4, m.mem}) + 5 * Min({4, m.disk}) + (IF m.affinity THEN 50 ELSE 0)

LEMMA OneMorePlaced ==
  ASSUME NEW X, NEW placed \in Seq(X), NEW b \in X, NEW i
  PROVE  /\ NewOn(placed, i) \in Nat
         /\ NewOn(Append(placed, b), i) = IF i = b THEN NewOn(placed, i) + 1 ELSE NewOn(placed, i)
<1>. DEFINE n == Len(placed)
            S == {k \in DOMAIN placed : placed[k] = i}
            U == {k \in DOMAIN Append(placed, b) : Append(placed, b)[k] = i}
<1>1. n \in Nat /\ DOMAIN placed = 1..n /\ DOMAIN Append(placed, b) = 1..(n + 1)
      /\ Append(placed, b)[n + 1] = b /\ \A k \in 1..n : Append(placed, b)[k] = placed[k]
  OBVIOUS
<1>2. IsFiniteSet(S) /\ Cardinality(S) \in Nat
  <2>1. IsFiniteSet(1..n) /\ S \subseteq 1..n
    BY <1>1, FS_Interval
  <2>. HIDE DEF S
  <2>. QED  BY <2>1, FS_Subset, FS_CardinalityType
<1>3. CASE i = b
  <2>1. U = S \union {n + 1} /\ n + 1 \notin S
    BY <1>1, <1>3
  <2>. HIDE DEF S, U
  <2>2. Cardinality(U) = Cardinality(S) + 1
    BY <1>2, <2>1, FS_AddElement
  <2>. QED  BY <1>2, <1>3, <2>2 DEF NewOn, S, U
<1>4. CASE i # b
  <2>1. U = S
    BY <1>1, <1>4
  <2>. QED  BY <1>2, <1>4, <2>1 DEF NewOn
<1>. QED  BY <1>3, <1>4

LEMMA NothingPlaced == \A i : NewOn(<<>>, i) = 0
<1>1. \A i : {k \in DOMAIN <<>> : <<>>[k] = i} = {}
  OBVIOUS
<1>. QED  BY <1>1, FS_EmptySet DEF NewOn

LEMMA OfServiceIs ==
  ASSUME NEW m, NEW req
  PROVE  OfService(m, req) \in {0, 1}
<1>1. CASE req.service \in m.services
  <2>1. m.services \intersect {req.service} = {req.service}
    BY <1>1
  <2>2. Cardinality({req.service}) = 1
    BY FS_Singleton
  <2>. QED  BY <2>1, <2>2 DEF OfService
<1>2. CASE req.service \notin m.services
  <2>1. m.services \intersect {req.service} = {}
    BY <1>2
  <2>. QED  BY <2>1, FS_EmptySet DEF OfService
<1>. QED  BY <1>1, <1>2

(* A machine that may have one more, and what follows when it has fewer.    *)
LEMMA MayHave ==
  ASSUME NEW req, Planable(req), NEW i \in DOMAIN req.machines, NEW held \in Int,
         BlockingReason(i, req, held) = "none"
  PROVE  /\ req.machines[i].online /\ ~req.machines[i].private
         /\ req.machines[i].services \subseteq {req.service}
         /\ held < req.perMachine /\ (req.strategy = "pin" => i \in req.pins)
         /\ MetricsKnown(req.machines[i]) =>
              req.machines[i].cpu >= 20 /\ req.machines[i].mem >= 1 /\ req.machines[i].disk >= 1
         /\ \A fewer \in Int : fewer <= held => BlockingReason(i, req, fewer) = "none"
<1>. DEFINE m == req.machines[i]
<1>1. m \in Machine /\ req.perMachine \in Nat
  BY DEF Planable
<1>2. /\ m.online /\ ~m.private /\ m.services \ {req.service} = {}
      /\ ~ (held >= req.perMachine) /\ ~ (req.strategy = "pin" /\ i \notin req.pins)
      /\ ~ (m.cpu # NoFact /\ m.cpu < MinFreeCpu) /\ ~ (m.mem # NoFact /\ m.mem < 1)
      /\ ~ (m.disk # NoFact /\ m.disk < 1)
  <2>. HIDE DEF m
  <2>. QED  BY DEF BlockingReason, m
<1>3. ASSUME NEW fewer \in Int, fewer <= held PROVE BlockingReason(i, req, fewer) = "none"
  <2>1. ~ (fewer >= req.perMachine)
    BY <1>1, <1>2, <1>3
  <2>. QED  BY <1>2, <2>1 DEF BlockingReason
<1>4. MetricsKnown(m) => m.cpu >= 20 /\ m.mem >= 1 /\ m.disk >= 1
  <2>1. MetricsKnown(m) => m.cpu \in Int /\ m.mem \in Int /\ m.disk \in Int
    BY <1>1 DEF Machine, MetricsKnown
  <2>. HIDE DEF m
  <2>. QED  BY <1>2, <2>1 DEF MetricsKnown, MinFreeCpu
<1>5. held < req.perMachine
  BY <1>1, <1>2
<1>. QED  BY <1>2, <1>3, <1>4, <1>5

(* Scores are numbers; agents weigh more in them than all that is weighed   *)
(* but the conversations.                                                   *)
LEMMA Scores ==
  ASSUME NEW req, NEW m \in Machine, NEW held \in Nat
  PROVE  /\ ScoreMachine(m, req, held) \in Int /\ ScoreMachine(m, req, held) <= 210
         /\ MetricsKnown(m) => Weight(m) \in Int /\ Weight(m) <= 210
         /\ MetricsKnown(m) /\ m.cpu >= 20 /\ m.mem >= 1 /\ m.disk >= 1 => 35 <= Weight(m)
         /\ MetricsKnown(m) /\ req.strategy # "pack" =>
              ScoreMachine(m, req, held) = Weight(m) - m.sessions - 400 * (OfService(m, req) + held)
<1>1. CASE ~MetricsKnown(m)
  BY <1>1 DEF ScoreMachine
<1>2. CASE MetricsKnown(m)
  <2>. DEFINE a == Min({4, m.mem})  d == Min({4, m.disk})  f == IF m.affinity THEN 50 ELSE 0
              h == OfService(m, req)
  <2>1. m.cpu \in 0..100 /\ m.mem \in Nat /\ m.disk \in Nat /\ m.sessions \in Nat
    BY <1>2 DEF Machine, MetricsKnown
  <2>2. a \in 0..4 /\ (m.mem >= 1 => a >= 1)
    BY <2>1, MinOfTwo
  <2>3. d \in 0..4 /\ (m.disk >= 1 => d >= 1)
    BY <2>1, MinOfTwo
  <2>4. f \in 0..50
    OBVIOUS
  <2>5. h \in Nat
    BY OfServiceIs
  <2>6. Weight(m) = m.cpu + 10 * a + 5 * d + f
    BY DEF Weight
  <2>7. ScoreMachine(m, req, held) = m.cpu + 10 * a + 5 * d - m.sessions
           - (IF req.strategy = "pack" THEN 0 ELSE 400 * h + 400 * held) + f
    BY <1>2 DEF ScoreMachine, OfService
  <2>. HIDE DEF a, d, f, h
  <2>. DEFINE c == m.cpu  g == m.sessions  load == 400 * h + 400 * held
  <2>8. c \in 0..100 /\ g \in Nat /\ load \in Nat /\ load = 400 * (h + held)
    BY <2>1, <2>5
  <2>9. /\ Weight(m) = c + 10 * a + 5 * d + f
        /\ ScoreMachine(m, req, held)
             = c + 10 * a + 5 * d - g - (IF req.strategy = "pack" THEN 0 ELSE load) + f
    BY <2>6, <2>7
  <2>10. c >= 20 <=> m.cpu >= 20
    OBVIOUS
  <2>. HIDE DEF c, g, load
  <2>11. Weight(m) \in Int /\ Weight(m) <= 210
    BY <2>2, <2>3, <2>4, <2>8, <2>9
  <2>12. m.cpu >= 20 /\ m.mem >= 1 /\ m.disk >= 1 => 35 <= Weight(m)
    BY <2>2, <2>3, <2>4, <2>8, <2>9, <2>10
  <2>13. req.strategy # "pack" => ScoreMachine(m, req, held) = Weight(m) - g - load
    BY <2>2, <2>3, <2>4, <2>8, <2>9
  <2>14. ScoreMachine(m, req, held) \in Int /\ ScoreMachine(m, req, held) <= 210
    BY <2>2, <2>3, <2>4, <2>8, <2>9
  <2>. QED  BY <1>2, <2>8, <2>11, <2>12, <2>13, <2>14 DEF g, load, h
<1>. QED  BY <1>1, <1>2

LEMMA ScoreBound ==
  ASSUME NEW req, NEW m \in Machine, NEW held \in Nat
  PROVE  ScoreMachine(m, req, held) \in Int /\ ScoreMachine(m, req, held) <= 210
BY ONLY m \in Machine, held \in Nat, Scores

(* The machine that is chosen has the best score.                           *)
LEMMA BestIs ==
  ASSUME NEW req, Planable(req), NEW placed \in Seq(DOMAIN req.machines),
         FitFor(req, placed) # {}
  PROVE  /\ BestOf(req, placed) \in FitFor(req, placed)
         /\ \A j \in FitFor(req, placed) :
              ScoreMachine(req.machines[j], req, AgentsOn(req, placed, j))
                <= ScoreMachine(req.machines[BestOf(req, placed)], req,
                                AgentsOn(req, placed, BestOf(req, placed)))
<1>. DEFINE F == FitFor(req, placed)
            s(i) == ScoreMachine(req.machines[i], req, AgentsOn(req, placed, i))
            P(i) == i \in F /\ \A j \in F \ {i} : s(i) > s(j) \/ (s(i) = s(j) /\ i < j)
            f == [i \in F |-> 210 - s(i)]
            b == CHOOSE i \in F : \A j \in F \ {i} : s(i) > s(j) \/ (s(i) = s(j) /\ i < j)
<1>1. F \subseteq DOMAIN req.machines /\ F \subseteq Nat /\ F # {}
  BY DEF FitFor, Planable
<1>2. \A i \in F : s(i) \in Int /\ s(i) <= 210
  <2>. SUFFICES ASSUME NEW i \in F PROVE s(i) \in Int /\ s(i) <= 210
    OBVIOUS
  <2>1. req.machines[i] \in Machine /\ i \in DOMAIN req.machines
    BY <1>1 DEF Planable
  <2>2. NewOn(placed, i) \in Nat /\ req.machines[i].agents \in Nat
    BY <2>1, OneMorePlaced DEF Machine
  <2>3. AgentsOn(req, placed, i) \in Nat
    BY <2>2 DEF AgentsOn, NewOn
  <2>. DEFINE m == req.machines[i]  n == AgentsOn(req, placed, i)
  <2>4. m \in Machine /\ n \in Nat
    BY <2>1, <2>3
  <2>. HIDE DEF m, n
  <2>5. ScoreMachine(m, req, n) \in Int /\ ScoreMachine(m, req, n) <= 210
    BY ONLY <2>4, ScoreBound
  <2>. QED  BY <2>5 DEF m, n
<1>. HIDE DEF s, F
<1>3. \A i \in F : f[i] \in Nat
  BY <1>2
<1>4. HasLeastOnes(f, F)
  <2>. HIDE DEF f
  <2>. QED  BY <1>1, <1>3, LeastOnes
<1>5. PICK E \in SUBSET F : E # {} /\ \A i \in E, j \in F : f[i] < f[j] \/ (f[i] = f[j] /\ j \in E)
  BY <1>4 DEF HasLeastOnes
<1>6. PICK e \in E : \A j \in E : e <= j
  <2>1. E \in SUBSET Nat /\ E # {}
    BY <1>1, <1>5
  <2>. QED  BY <2>1, LeastNumber
<1>7. P(e)
  <2>1. e \in F
    BY <1>5
  <2>2. ASSUME NEW j \in F \ {e} PROVE s(e) > s(j) \/ (s(e) = s(j) /\ e < j)
    <3>1. s(e) \in Int /\ s(j) \in Int /\ f[e] = 210 - s(e) /\ f[j] = 210 - s(j)
          /\ e \in Nat /\ j \in Nat /\ e # j
      BY <1>1, <1>2, <2>1
    <3>2. f[e] < f[j] \/ (f[e] = f[j] /\ j \in E)
      BY <1>5
    <3>3. j \in E => e <= j
      BY <1>6
    <3>. HIDE DEF f
    <3>. QED  BY <3>1, <3>2, <3>3
  <2>. QED  BY <2>1, <2>2
<1>8. P(b)
  BY <1>7
<1>9. BestOf(req, placed) = b
  BY DEF BestOf, F, s
<1>. HIDE DEF b
<1>10. \A j \in F : s(j) <= s(b)
  BY <1>2, <1>8
<1>. QED  BY <1>8, <1>9, <1>10 DEF F, s

(* What a function yields that is applied again and again.                  *)
HasIteration(X, R, b, N) ==
  \E h \in [0..N -> X] : h[0] = b /\ \A k \in 1..N : h[k] = R[h[k - 1]]

LEMMA IterationExists ==
  ASSUME NEW X, NEW R \in [X -> X], NEW b \in X, NEW N \in Nat
  PROVE  HasIteration(X, R, b, N)
<1>. DEFINE Iter(h, n) == h[0] = b /\ \A k \in 1..n : h[k] = R[h[k - 1]]
            T == {n \in 0..N : \E h \in [0..n -> X] : Iter(h, n)}
<1>1. 0 \in T
  <2>. DEFINE h == [k \in 0..0 |-> b]
  <2>1. h \in [0..0 -> X] /\ h[0] = b /\ 1..0 = {}
    OBVIOUS
  <2>2. Iter(h, 0)
    BY <2>1
  <2>. HIDE DEF h, Iter
  <2>3. \E g \in [0..0 -> X] : Iter(g, 0)
    BY <2>1, <2>2
  <2>. QED  BY <2>3
<1>2. ASSUME NEW n \in 0..N, n \in T, n < N PROVE n + 1 \in T
  <2>1. PICK g \in [0..n -> X] : Iter(g, n)
    BY <1>2
  <2>. DEFINE m == n + 1
              h == [k \in 0..m |-> IF k = m THEN R[g[n]] ELSE g[k]]
  <2>2. m \in 1..N /\ n \in Nat /\ m = n + 1 /\ n \in 0..n
    BY <1>2
  <2>3. h \in [0..m -> X]
    BY <2>2
  <2>4. Iter(h, m)
    <3>1. h[0] = b
      BY <2>1, <2>2
    <3>2. ASSUME NEW k \in 1..m PROVE h[k] = R[h[k - 1]]
      <4>1. CASE k = m
        <5>1. h[k] = R[g[n]] /\ k - 1 = n /\ n # m
          BY <2>2, <4>1
        <5>2. h[n] = g[n]
          BY <2>2, <5>1
        <5>. QED  BY <5>1, <5>2
      <4>2. CASE k # m
        <5>1. k \in 1..n /\ k - 1 \in 0..m /\ k \in 0..m /\ k - 1 # m
          BY <2>2, <4>2
        <5>2. h[k] = g[k] /\ h[k - 1] = g[k - 1]
          BY <4>2, <5>1
        <5>. QED  BY <2>1, <5>1, <5>2
      <4>. QED  BY <4>1, <4>2
    <3>. QED  BY <3>1, <3>2
  <2>. HIDE DEF h, Iter
  <2>5. m \in 0..N /\ \E k \in [0..m -> X] : Iter(k, m)
    BY <2>2, <2>3, <2>4
  <2>. QED  BY <2>5 DEF m
<1>3. N \in T
  <2>. HIDE DEF T
  <2>1. \A n \in 0..N : n \in T /\ n < N => n + 1 \in T
    BY <1>2
  <2>. QED  BY <1>1, <2>1, UpTo
<1>. QED  BY <1>3 DEF HasIteration

(* One agent after the other is placed.                                     *)
LEMMA Placing ==
  ASSUME NEW req, Planable(req), NEW count \in Nat
  PROVE  \E t \in [0..count -> Seq(DOMAIN req.machines)] :
           /\ t[0] = <<>> /\ \A k \in 1..count : t[k] = PlaceOne(req, t[k - 1])
           /\ PlanPlacement(req, count).placements = t[count]
           /\ PlanPlacement(req, count).shortfall = count - Len(t[count])
<1>. DEFINE X == Seq(DOMAIN req.machines)
            R == [p \in X |-> PlaceOne(req, p)]
            After(g) == [k \in 0..count |-> IF k = 0 THEN <<>> ELSE PlaceOne(req, g[k - 1])]
            g == CHOOSE g : g = After(g)
<1>1. R \in [X -> X] /\ <<>> \in X
  <2>1. ASSUME NEW p \in X PROVE PlaceOne(req, p) \in X
    <3>1. CASE FitFor(req, p) = {}
      BY <3>1 DEF PlaceOne
    <3>2. CASE FitFor(req, p) # {}
      <4>1. BestOf(req, p) \in DOMAIN req.machines
        BY <3>2, BestIs DEF FitFor
      <4>2. PlaceOne(req, p) = Append(p, BestOf(req, p))
        BY <3>2 DEF PlaceOne
      <4>3. \A b \in DOMAIN req.machines : Append(p, b) \in Seq(DOMAIN req.machines)
        OBVIOUS
      <4>. QED  BY <4>1, <4>2, <4>3
    <3>. QED  BY <3>1, <3>2
  <2>2. <<>> \in X
    OBVIOUS
  <2>. HIDE DEF X
  <2>. QED  BY <2>1, <2>2
<1>2. PICK h \in [0..count -> X] : h[0] = <<>> /\ \A k \in 1..count : h[k] = R[h[k - 1]]
  <2>. DEFINE none == <<>>
  <2>1. none \in X
    BY <1>1
  <2>. HIDE DEF R, X, none
  <2>2. R \in [X -> X]
    BY <1>1
  <2>3. HasIteration(X, R, none, count)
    BY <2>1, <2>2, IterationExists
  <2>. QED  BY <2>3 DEF none, HasIteration
<1>3. \A k \in 1..count : k - 1 \in 0..count /\ h[k - 1] \in X /\ h[k] = PlaceOne(req, h[k - 1])
  <2>. SUFFICES ASSUME NEW k \in 1..count
                PROVE  k - 1 \in 0..count /\ h[k - 1] \in X /\ h[k] = PlaceOne(req, h[k - 1])
    OBVIOUS
  <2>1. k - 1 \in 0..count
    OBVIOUS
  <2>2. h[k - 1] \in X
    <3>. HIDE DEF X
    <3>. QED  BY <1>2, <2>1
  <2>. HIDE DEF X
  <2>. QED  BY <1>2, <2>1, <2>2
<1>4. h = After(h)
  <2>1. DOMAIN h = 0..count /\ h = [k \in 0..count |-> h[k]]
    BY <1>2
  <2>2. \A k \in 0..count : h[k] = IF k = 0 THEN <<>> ELSE PlaceOne(req, h[k - 1])
    BY <1>2, <1>3
  <2>. QED  BY <2>1, <2>2
<1>5. g = After(g)
  BY <1>4
<1>6. PlanPlacement(req, count).placements = g[count]
      /\ PlanPlacement(req, count).shortfall = count - Len(g[count])
  BY DEF PlanPlacement
<1>. HIDE DEF g
<1>7. g[0] = <<>> /\ \A k \in 1..count : g[k] = PlaceOne(req, g[k - 1])
  <2>1. \A k \in 0..count : g[k] = IF k = 0 THEN <<>> ELSE PlaceOne(req, g[k - 1])
    BY <1>5
  <2>. HIDE DEF After
  <2>2. g[0] = <<>>
    BY <2>1
  <2>3. ASSUME NEW k \in 1..count PROVE g[k] = PlaceOne(req, g[k - 1])
    <3>1. k \in 0..count /\ k # 0
      OBVIOUS
    <3>. QED  BY <2>1, <3>1
  <2>. QED  BY <2>2, <2>3
<1>8. \A k \in 0..count : g[k] = h[k]
  <2>. DEFINE T == {k \in 0..count : g[k] = h[k]}
  <2>1. 0 \in T
    BY <1>2, <1>7
  <2>2. ASSUME NEW k \in 0..count, k \in T, k < count PROVE k + 1 \in T
    <3>1. k + 1 \in 1..count /\ (k + 1) - 1 = k /\ k + 1 \in 0..count
      BY <2>2
    <3>2. g[k + 1] = PlaceOne(req, g[k]) /\ h[k + 1] = PlaceOne(req, h[k]) /\ g[k] = h[k]
      BY <1>3, <1>7, <2>2, <3>1
    <3>. QED  BY <3>1, <3>2
  <2>3. \A k \in 0..count : k \in T /\ k < count => k + 1 \in T
    BY <2>2
  <2>4. \A k \in 0..count : k \in T
    <3>. HIDE DEF T
    <3>. QED  BY <2>1, <2>3, UpTo
  <2>. QED  BY <2>4
<1>9. g[count] = h[count] /\ \A k \in 1..count : h[k] = PlaceOne(req, h[k - 1])
  BY <1>3, <1>8
<1>. HIDE DEF X, R
<1>. QED  BY <1>2, <1>6, <1>9 DEF X

(* Unless the plan packs, no machine that got an agent has two more than    *)
(* one that may have another and whose load is known as well.               *)
Balanced(req, p) ==
  req.strategy # "pack" =>
    \A i, j \in {m \in DOMAIN req.machines : MetricsKnown(req.machines[m])} :
       /\ NewOn(p, i) > 0 /\ j \in FitFor(req, p)
       /\ req.machines[j].sessions < req.machines[i].sessions + Crowd
       => LoadOn(req, p, i) <= LoadOn(req, p, j) + 1

(* After n rounds: each placed, or nobody fits; who got one might have it.  *)
PlacedWell(req, p, n) ==
  /\ p \in Seq(DOMAIN req.machines) /\ Len(p) <= n
  /\ Len(p) = n \/ FitFor(req, p) = {}
  /\ \A i \in DOMAIN req.machines :
        NewOn(p, i) > 0 => BlockingReason(i, req, AgentsOn(req, p, i) - 1) = "none"
  /\ Balanced(req, p)

LEMMA AgentsAre ==
  ASSUME NEW req, Planable(req), NEW p \in Seq(DOMAIN req.machines),
         NEW i \in DOMAIN req.machines
  PROVE  /\ req.machines[i] \in Machine /\ NewOn(p, i) \in Nat /\ AgentsOn(req, p, i) \in Nat
         /\ AgentsOn(req, p, i) = req.machines[i].agents + NewOn(p, i)
         /\ req.machines[i].agents \in Nat
         /\ LoadOn(req, p, i) \in Nat
         /\ LoadOn(req, p, i) = OfService(req.machines[i], req) + AgentsOn(req, p, i)
<1>1. req.machines[i] \in Machine
  BY DEF Planable
<1>2. NewOn(p, i) \in Nat /\ req.machines[i].agents \in Nat
  BY <1>1, OneMorePlaced DEF Machine
<1>3. AgentsOn(req, p, i) = req.machines[i].agents + NewOn(p, i)
  BY DEF AgentsOn, NewOn
<1>4. OfService(req.machines[i], req) \in Nat
  BY OfServiceIs
<1>. QED  BY <1>1, <1>2, <1>3, <1>4 DEF LoadOn

(* Of two machines whose load is known, the better one has no more agents   *)
(* than the other, unless a crowd keeps away from that.                     *)
LEMMA BetterIsLighter ==
  ASSUME NEW req, Planable(req), req.strategy # "pack", NEW p \in Seq(DOMAIN req.machines),
         NEW b \in FitFor(req, p), NEW j \in FitFor(req, p),
         MetricsKnown(req.machines[b]), MetricsKnown(req.machines[j]),
         ScoreMachine(req.machines[j], req, AgentsOn(req, p, j))
           <= ScoreMachine(req.machines[b], req, AgentsOn(req, p, b)),
         req.machines[j].sessions < req.machines[b].sessions + Crowd
  PROVE  LoadOn(req, p, b) <= LoadOn(req, p, j)
<1>1. b \in DOMAIN req.machines /\ j \in DOMAIN req.machines
      /\ BlockingReason(b, req, AgentsOn(req, p, b)) = "none"
      /\ BlockingReason(j, req, AgentsOn(req, p, j)) = "none"
  BY DEF FitFor
<1>. DEFINE sb == req.machines[b].sessions  sj == req.machines[j].sessions
            wb == Weight(req.machines[b])   wj == Weight(req.machines[j])
            lb == LoadOn(req, p, b)         lj == LoadOn(req, p, j)
            Score(i) == ScoreMachine(req.machines[i], req, AgentsOn(req, p, i))
<1>2. lb \in Nat /\ lj \in Nat /\ sb \in Nat /\ sj \in Nat
  <2>1. req.machines[b] \in Machine /\ req.machines[j] \in Machine
    BY <1>1 DEF Planable
  <2>. QED  BY <1>1, <2>1, AgentsAre DEF Machine
<1>3. Score(b) = wb - sb - 400 * lb /\ wb \in Int /\ wb <= 210
  <2>1. req.machines[b] \in Machine /\ AgentsOn(req, p, b) \in Nat
        /\ LoadOn(req, p, b) = OfService(req.machines[b], req) + AgentsOn(req, p, b)
    BY <1>1, AgentsAre
  <2>2. Score(b) = Weight(req.machines[b]) - req.machines[b].sessions
                     - 400 * (OfService(req.machines[b], req) + AgentsOn(req, p, b))
        /\ Weight(req.machines[b]) \in Int /\ Weight(req.machines[b]) <= 210
    BY <2>1, Scores
  <2>. QED  BY <2>1, <2>2
<1>4. Score(j) = wj - sj - 400 * lj /\ wj \in Int /\ 35 <= wj
  <2>1. req.machines[j] \in Machine /\ AgentsOn(req, p, j) \in Nat
        /\ LoadOn(req, p, j) = OfService(req.machines[j], req) + AgentsOn(req, p, j)
    BY <1>1, AgentsAre
  <2>2. req.machines[j].cpu >= 20 /\ req.machines[j].mem >= 1 /\ req.machines[j].disk >= 1
    <3>1. AgentsOn(req, p, j) \in Int
      BY <2>1
    <3>. QED  BY <1>1, <3>1, MayHave
  <2>3. MetricsKnown(req.machines[j]) /\ req.strategy # "pack"
    OBVIOUS
  <2>4. Score(j) = Weight(req.machines[j]) - req.machines[j].sessions
                     - 400 * (OfService(req.machines[j], req) + AgentsOn(req, p, j))
        /\ Weight(req.machines[j]) \in Int /\ 35 <= Weight(req.machines[j])
    <3>. DEFINE m == req.machines[j]  held == AgentsOn(req, p, j)
    <3>1. m \in Machine /\ held \in Nat /\ MetricsKnown(m)
          /\ m.cpu >= 20 /\ m.mem >= 1 /\ m.disk >= 1
      BY <2>1, <2>2, <2>3
    <3>. HIDE DEF m, held
    <3>2. m \in Machine /\ held \in Nat
      BY <3>1
    <3>3. MetricsKnown(m) /\ m.cpu >= 20 /\ m.mem >= 1 /\ m.disk >= 1 => 35 <= Weight(m)
      BY ONLY <3>2, Scores
    <3>4. MetricsKnown(m) => Weight(m) \in Int /\ Weight(m) <= 210
      BY ONLY <3>2, Scores
    <3>5. MetricsKnown(m) /\ req.strategy # "pack" =>
            ScoreMachine(m, req, held) = Weight(m) - m.sessions - 400 * (OfService(m, req) + held)
      BY ONLY <3>2, Scores
    <3>. QED  BY <2>3, <3>1, <3>3, <3>4, <3>5 DEF m, held
  <2>. QED  BY <2>1, <2>4
<1>5. Score(j) <= Score(b) /\ sj < sb + 225
  BY DEF Crowd
<1>. HIDE DEF sb, sj, wb, wj, lb, lj, Score
<1>6. lb <= lj
  BY <1>2, <1>3, <1>4, <1>5
<1>. QED  BY <1>6 DEF lb, lj

LEMMA PlaceOneKeeps ==
  ASSUME NEW req, Planable(req), NEW p, NEW n \in Nat, PlacedWell(req, p, n)
  PROVE  PlacedWell(req, PlaceOne(req, p), n + 1)
<1>0. p \in Seq(DOMAIN req.machines) /\ Len(p) \in Nat
  BY DEF PlacedWell
<1>1. CASE FitFor(req, p) = {}
  <2>1. PlaceOne(req, p) = p /\ Len(p) <= n + 1
    BY <1>0, <1>1 DEF PlaceOne, PlacedWell
  <2>. QED  BY <1>1, <2>1 DEF PlacedWell
<1>2. CASE FitFor(req, p) # {}
  <2>. DEFINE b == BestOf(req, p)  q == Append(p, b)  M == req.machines
  <2>1. PlaceOne(req, p) = q
    BY <1>2 DEF PlaceOne
  <2>2. b \in FitFor(req, p) /\ b \in DOMAIN M
    BY <1>0, <1>2, BestIs DEF FitFor
  <2>3. q \in Seq(DOMAIN M) /\ Len(q) = n + 1
    <3>1. Len(p) = n
      BY <1>2 DEF PlacedWell
    <3>. HIDE DEF b
    <3>. QED  BY <1>0, <2>2, <3>1
  <2>4. \A i \in DOMAIN M : /\ NewOn(q, i) = IF i = b THEN NewOn(p, i) + 1 ELSE NewOn(p, i)
                            /\ NewOn(p, i) \in Nat
    <3>. HIDE DEF b
    <3>. QED  BY <1>0, <2>2, OneMorePlaced
  <2>. HIDE DEF b, q
  <2>5. \A i \in DOMAIN M :
          /\ AgentsOn(req, q, i) = IF i = b THEN AgentsOn(req, p, i) + 1 ELSE AgentsOn(req, p, i)
          /\ LoadOn(req, q, i) = IF i = b THEN LoadOn(req, p, i) + 1 ELSE LoadOn(req, p, i)
          /\ AgentsOn(req, p, i) \in Nat /\ LoadOn(req, p, i) \in Nat
    <3>. SUFFICES ASSUME NEW i \in DOMAIN M
          PROVE
          /\ AgentsOn(req, q, i) = IF i = b THEN AgentsOn(req, p, i) + 1 ELSE AgentsOn(req, p, i)
          /\ LoadOn(req, q, i) = IF i = b THEN LoadOn(req, p, i) + 1 ELSE LoadOn(req, p, i)
          /\ AgentsOn(req, p, i) \in Nat /\ LoadOn(req, p, i) \in Nat
      OBVIOUS
    <3>1. /\ AgentsOn(req, p, i) = M[i].agents + NewOn(p, i) /\ M[i].agents \in Nat
          /\ AgentsOn(req, p, i) \in Nat /\ LoadOn(req, p, i) \in Nat
          /\ LoadOn(req, p, i) = OfService(M[i], req) + AgentsOn(req, p, i)
      BY <1>0, AgentsAre
    <3>2. /\ AgentsOn(req, q, i) = M[i].agents + NewOn(q, i)
          /\ LoadOn(req, q, i) = OfService(M[i], req) + AgentsOn(req, q, i)
      BY <2>3, AgentsAre
    <3>3. OfService(M[i], req) \in Nat
      BY OfServiceIs
    <3>. QED  BY <2>4, <3>1, <3>2, <3>3
  <2>6. \A j \in FitFor(req, q) : j \in FitFor(req, p) /\ j \in DOMAIN M
    <3>. SUFFICES ASSUME NEW j \in FitFor(req, q) PROVE j \in FitFor(req, p) /\ j \in DOMAIN M
      OBVIOUS
    <3>1. j \in DOMAIN M /\ BlockingReason(j, req, AgentsOn(req, q, j)) = "none"
      BY DEF FitFor
    <3>2. AgentsOn(req, p, j) \in Int /\ AgentsOn(req, q, j) \in Int
          /\ AgentsOn(req, p, j) <= AgentsOn(req, q, j)
      BY <2>5, <3>1
    <3>3. BlockingReason(j, req, AgentsOn(req, p, j)) = "none"
      BY <3>1, <3>2, MayHave
    <3>. QED  BY <3>1, <3>3 DEF FitFor
  <2>7. ASSUME NEW i \in DOMAIN M, NewOn(q, i) > 0
        PROVE  BlockingReason(i, req, AgentsOn(req, q, i) - 1) = "none"
    <3>1. CASE i = b
      <4>1. AgentsOn(req, q, i) - 1 = AgentsOn(req, p, b)
        BY <2>5, <3>1
      <4>. QED  BY <2>2, <3>1, <4>1 DEF FitFor
    <3>2. CASE i # b
      BY <2>4, <2>5, <2>7, <3>2 DEF PlacedWell
    <3>. QED  BY <3>1, <3>2
  <2>8. Balanced(req, q)
    <3>. SUFFICES ASSUME req.strategy # "pack", NEW i \in DOMAIN M, NEW j \in DOMAIN M,
                         MetricsKnown(M[i]), MetricsKnown(M[j]),
                         NewOn(q, i) > 0, j \in FitFor(req, q),
                         M[j].sessions < M[i].sessions + Crowd
                  PROVE  LoadOn(req, q, i) <= LoadOn(req, q, j) + 1
      BY DEF Balanced
    <3>1. j \in FitFor(req, p)
      BY <2>6
    <3>2. LoadOn(req, p, j) <= LoadOn(req, q, j) /\ LoadOn(req, q, j) \in Nat
      BY <2>5
    <3>3. CASE i = b
      <4>1. LoadOn(req, p, b) <= LoadOn(req, p, j)
        <5>1. ScoreMachine(M[j], req, AgentsOn(req, p, j))
                <= ScoreMachine(M[b], req, AgentsOn(req, p, b))
          BY <1>0, <1>2, <3>1, BestIs DEF b
        <5>. QED  BY <1>0, <2>2, <3>1, <3>3, <5>1, BetterIsLighter
      <4>2. LoadOn(req, q, b) = LoadOn(req, p, b) + 1
        BY <2>2, <2>5
      <4>. QED  BY <2>2, <2>5, <3>2, <3>3, <4>1, <4>2
    <3>4. CASE i # b
      <4>1. NewOn(p, i) > 0 /\ LoadOn(req, q, i) = LoadOn(req, p, i)
        BY <2>4, <2>5, <3>4
      <4>2. LoadOn(req, p, i) <= LoadOn(req, p, j) + 1
        BY <3>1, <4>1 DEF PlacedWell, Balanced
      <4>. QED  BY <2>5, <3>2, <4>1, <4>2
    <3>. QED  BY <3>3, <3>4
  <2>. QED  BY <2>1, <2>3, <2>7, <2>8 DEF PlacedWell
<1>. QED  BY <1>1, <1>2

LEMMA PlacementIsWell ==
  ASSUME NEW req, Planable(req), NEW count \in Nat
  PROVE  /\ PlacedWell(req, PlanPlacement(req, count).placements, count)
         /\ PlanPlacement(req, count).shortfall
              = count - Len(PlanPlacement(req, count).placements)
<1>1. PICK t \in [0..count -> Seq(DOMAIN req.machines)] :
         /\ t[0] = <<>> /\ \A k \in 1..count : t[k] = PlaceOne(req, t[k - 1])
         /\ PlanPlacement(req, count).placements = t[count]
         /\ PlanPlacement(req, count).shortfall = count - Len(t[count])
  BY Placing
<1>. DEFINE T == {k \in 0..count : PlacedWell(req, t[k], k)}
<1>2. 0 \in T
  <2>1. Len(<<>>) = 0 /\ \A i : ~ (NewOn(<<>>, i) > 0)
    BY NothingPlaced
  <2>2. PlacedWell(req, <<>>, 0)
    BY <2>1 DEF PlacedWell, Balanced
  <2>. QED  BY <1>1, <2>2
<1>3. ASSUME NEW k \in 0..count, k \in T, k < count PROVE k + 1 \in T
  <2>1. k + 1 \in 1..count /\ (k + 1) - 1 = k /\ k + 1 \in 0..count /\ k \in Nat
    BY <1>3
  <2>2. t[k + 1] = PlaceOne(req, t[k])
    BY <1>1, <2>1
  <2>3. PlacedWell(req, PlaceOne(req, t[k]), k + 1)
    BY <1>3, <2>1, PlaceOneKeeps
  <2>. QED  BY <2>1, <2>2, <2>3
<1>4. count \in T
  <2>1. \A k \in 0..count : k \in T /\ k < count => k + 1 \in T
    BY <1>3
  <2>. HIDE DEF T
  <2>2. \A k \in 0..count : k \in T
    BY <1>2, <2>1, UpTo
  <2>. QED  BY <2>2
<1>. QED  BY <1>1, <1>4

-----------------------------------------------------------------------------
(* Dispatch: the answers are what is asked for.                             *)

(* An agent that could have been picked when the clock says so is picked.   *)
LEMMA TurnComes ==
  ASSUME NEW C \in SUBSET Nat, IsFiniteSet(C), NEW i \in C
  PROVE  /\ Position(C, i) \in 0..(Cardinality(C) - 1)
         /\ Turned(C, Position(C, i), i) = 0
<1>. DEFINE n == Cardinality(C)  p == Position(C, i)
<1>1. n \in Nat /\ p \in 0..(n - 1)
  BY FS_CardinalityType, PositionsDiffer
<1>2. Turned(C, p, i) = (p - (p % n) + n) % n
  BY DEF Turned
<1>. HIDE DEF n, p
<1>3. p % n = p /\ n % n = 0 /\ p - p + n = n
  BY <1>1
<1>4. (p - (p % n) + n) % n = 0
  BY <1>1, <1>3
<1>. QED  BY <1>1, <1>2, <1>4 DEF n, p

LEMMA PickIsSound ==
  ASSUME question.of = "pickWorker", Askable(question.req), DOMAIN question.req = {"workers", "seed", "max"},
         question.req = [f \in DOMAIN question.req |-> question.req[f]]
  PROVE  PickIsRight
<1>. DEFINE req == question.req
            W == req.workers
            room == {i \in DOMAIN W : W[i].online /\ W[i].sessions < req.max}
            answer == PickWorker(req)
            alike == \A i, j \in room : [W[i] EXCEPT !.online = TRUE] = [W[j] EXCEPT !.online = TRUE]
            At(s) == [req EXCEPT !.seed = s]
<1>1. W \in Seq(Worker) /\ req.seed \in Nat /\ req.max \in Nat
  BY DEF Askable
<1>2. \A s \in Nat : Askable(At(s)) /\ At(s).seed = s /\ DispatchCandidates(At(s)) = room
                     /\ At(s).workers = W
  BY DEF Askable, DispatchCandidates
<1>3. Askable(req) /\ DispatchCandidates(req) = room
  BY DEF DispatchCandidates
<1>4. room \in SUBSET Nat /\ IsFiniteSet(room) /\ \A i \in room : W[i] \in Worker
  <2>1. DOMAIN W = 1..Len(W) /\ Len(W) \in Nat /\ room \subseteq DOMAIN W
    BY <1>1
  <2>2. IsFiniteSet(1..Len(W))
    BY <2>1, FS_Interval
  <2>3. \A i \in DOMAIN W : W[i] \in Worker
    BY <1>1, <2>1
  <2>. HIDE DEF room
  <2>. QED  BY <2>1, <2>2, <2>3, FS_Subset
<1>6. answer.ok <=> room # {}
  BY <1>3, PickFrom
<1>7. answer.ok =>
        /\ answer.agent \in room
        /\ \A i \in room : \/ W[answer.agent].sessions < W[i].sessions
                           \/ /\ W[answer.agent].sessions = W[i].sessions
                              /\ W[answer.agent].queue <= W[i].queue
  <2>. SUFFICES ASSUME answer.ok
                PROVE  /\ answer.agent \in room
                       /\ \A i \in room : \/ W[answer.agent].sessions < W[i].sessions
                                          \/ /\ W[answer.agent].sessions = W[i].sessions
                                             /\ W[answer.agent].queue <= W[i].queue
    OBVIOUS
  <2>. DEFINE b == answer.agent
  <2>1. b \in room /\ \A j \in room \ {b} : Sooner(W, room, req.seed, b, j)
    <3>1. room # {}
      BY <1>6
    <3>. HIDE DEF req, room
    <3>. QED  BY <1>3, <3>1, PickFrom DEF b
  <2>. HIDE DEF b, room
  <2>2. ASSUME NEW i \in room
        PROVE  \/ W[b].sessions < W[i].sessions
               \/ W[b].sessions = W[i].sessions /\ W[b].queue <= W[i].queue
    <3>1. /\ W[b].sessions \in Nat /\ W[i].sessions \in Nat
          /\ W[b].queue \in Nat /\ W[i].queue \in Nat
      BY <1>4, <2>1 DEF Worker
    <3>2. CASE i = b
      BY <3>1, <3>2
    <3>3. CASE i # b
      <4>1. ComesBefore(W[b], W[i]) \/ ~ComesBefore(W[i], W[b])
        BY <2>1, <3>3 DEF Sooner
      <4>2. ComesBefore(W[b], W[i]) =>
              \/ W[b].sessions < W[i].sessions
              \/ W[b].sessions = W[i].sessions /\ W[b].queue <= W[i].queue
        BY <3>1 DEF ComesBefore
      <4>3. ~ComesBefore(W[i], W[b]) =>
              \/ W[b].sessions < W[i].sessions
              \/ W[b].sessions = W[i].sessions /\ W[b].queue <= W[i].queue
        BY <3>1 DEF ComesBefore
      <4>. QED  BY <4>1, <4>2, <4>3
    <3>. QED  BY <3>2, <3>3
  <2>. QED  BY <2>1, <2>2 DEF b
<1>8. ~answer.ok => ((answer.reason = "no_worker_online")
                       <=> (W # <<>> /\ \A i \in DOMAIN W : ~W[i].online))
  <2>. SUFFICES ASSUME room = {}
                PROVE  (answer.reason = "no_worker_online")
                         <=> (W # <<>> /\ \A i \in DOMAIN W : ~W[i].online)
    BY <1>6
  <2>1. answer = [ok |-> FALSE,
                  reason |-> IF W # <<>> /\ \A i \in DOMAIN W : ~W[i].online
                             THEN "no_worker_online" ELSE "all_full"]
    BY <1>3 DEF PickWorker
  <2>. HIDE DEF answer
  <2>. QED  BY <2>1
<1>9. ASSUME alike, room # {}
      PROVE  {PickWorker(At(s)).agent : s \in 0..(Cardinality(room) - 1)} = room
  <2>1. ASSUME NEW s \in 0..(Cardinality(room) - 1)
        PROVE  PickWorker(At(s)).agent \in room
    <3>1. s \in Nat
      OBVIOUS
    <3>2. Askable(At(s)) /\ DispatchCandidates(At(s)) = room
      BY <1>2, <3>1
    <3>. HIDE DEF At, room
    <3>. QED  BY <1>9, <3>2, PickFrom
  <2>2. ASSUME NEW i \in room
        PROVE  \E s \in 0..(Cardinality(room) - 1) : PickWorker(At(s)).agent = i
    <3>. DEFINE s == Position(room, i)  b == PickWorker(At(s)).agent
    <3>1. s \in 0..(Cardinality(room) - 1) /\ Turned(room, s, i) = 0 /\ s \in Nat
      <4>. HIDE DEF room
      <4>. QED  BY <1>4, TurnComes
    <3>2. b \in room /\ \A j \in room \ {b} : Sooner(W, room, s, b, j)
      <4>1. Askable(At(s)) /\ At(s).seed = s /\ DispatchCandidates(At(s)) = room
            /\ At(s).workers = W
        BY <1>2, <3>1
      <4>. HIDE DEF At, room, s
      <4>. QED  BY <1>9, <4>1, PickFrom
    <3>. HIDE DEF room, s, b
    <3>3. ASSUME b # i PROVE FALSE
      <4>1. Sooner(W, room, s, b, i)
        BY <3>2, <3>3
      <4>2. W[b] \in Worker /\ W[i] \in Worker
            /\ [W[b] EXCEPT !.online = TRUE] = [W[i] EXCEPT !.online = TRUE]
        BY <1>4, <1>9, <3>2
      <4>3. /\ W[b].sessions = W[i].sessions /\ W[b].queue = W[i].queue
            /\ W[b].latency = W[i].latency /\ W[b].ofKey = W[i].ofKey
            /\ W[b].sessions \in Nat /\ W[b].queue \in Nat /\ W[b].ofKey \in Nat
        BY <4>2 DEF Worker
      <4>4. ~ComesBefore(W[b], W[i])
        BY <4>3 DEF ComesBefore, CompareLatency
      <4>5. Turned(room, s, b) < 0
        BY <3>1, <4>1, <4>4 DEF Sooner
      <4>6. Turned(room, s, b) \in Nat
        BY <1>4, <1>9, <3>1, <3>2, TurnsDiffer
      <4>. QED  BY <4>5, <4>6
    <3>. QED  BY <3>1, <3>3 DEF b
  <2>. DEFINE picked == [s \in 0..(Cardinality(room) - 1) |-> PickWorker(At(s)).agent]
  <2>3. \A s \in DOMAIN picked : picked[s] \in room
    BY <2>1
  <2>4. \A i \in room : \E s \in DOMAIN picked : picked[s] = i
    BY <2>2
  <2>5. {PickWorker(At(s)).agent : s \in 0..(Cardinality(room) - 1)}
          = {picked[s] : s \in DOMAIN picked}
    OBVIOUS
  <2>. HIDE DEF picked, room
  <2>6. {picked[s] : s \in DOMAIN picked} = room
    BY <2>3, <2>4
  <2>. QED  BY <2>5, <2>6
<1>10. /\ answer.ok <=> room # {}
       /\ answer.ok => /\ answer.agent \in room
                       /\ \A i \in room : \/ W[answer.agent].sessions < W[i].sessions
                                          \/ /\ W[answer.agent].sessions = W[i].sessions
                                             /\ W[answer.agent].queue <= W[i].queue
       /\ ~answer.ok => ((answer.reason = "no_worker_online")
                            <=> (W # <<>> /\ \A i \in DOMAIN W : ~W[i].online))
       /\ alike /\ room # {} =>
            {PickWorker(At(s)).agent : s \in 0..(Cardinality(room) - 1)} = room
  <2>. HIDE DEF req, answer, room, alike, At
  <2>. QED  BY <1>6, <1>7, <1>8, <1>9
<1>. QED  BY <1>10 DEF PickIsRight

(* What a plan is asked for.                                                *)
PlanAsked(req) ==
  /\ Planable(req) /\ req.count \in Nat
  /\ DOMAIN req.existing \in SUBSET Nat /\ IsFiniteSet(DOMAIN req.existing)
  /\ \A o \in DOMAIN req.existing : req.sessions[o] \in Nat

(* What a plan keeps, the ordinals that are free and the agents to place.   *)
Kept(req) == Lowest(DOMAIN req.existing, req.count)
FreeFor(req) == (1..req.count) \ Kept(req)
Wanted(req) == req.count - Cardinality(Kept(req))
FreeAt(req, k) == CHOOSE o \in FreeFor(req) : Position(FreeFor(req), o) = k - 1

(* The free ordinals are enough; they differ, and none is in use.           *)
LEMMA FreeOrdinals ==
  ASSUME NEW req, PlanAsked(req)
  PROVE  /\ Wanted(req) \in Nat
         /\ Min({Wanted(req), Cardinality(FreeFor(req))}) = Wanted(req)
         /\ \A k \in 1..Wanted(req) : FreeAt(req, k) \notin DOMAIN req.existing
         /\ \A k, l \in 1..Wanted(req) : k # l => FreeAt(req, k) # FreeAt(req, l)
<1>. DEFINE S == DOMAIN req.existing  K == Kept(req)  F == FreeFor(req)  c == req.count
            w == Wanted(req)
<1>1. c \in Nat /\ S \in SUBSET Nat /\ IsFiniteSet(S)
  BY DEF PlanAsked
<1>2. /\ IsFiniteSet(K) /\ Cardinality(K) \in Nat /\ Cardinality(K) <= c
      /\ Cardinality(K) < c => K = S
  <2>. HIDE DEF S, c
  <2>1. /\ IsFiniteSet(Lowest(S, c)) /\ Cardinality(Lowest(S, c)) \in Nat
        /\ Cardinality(Lowest(S, c)) <= c
        /\ Cardinality(Lowest(S, c)) < c => Lowest(S, c) = S
    BY <1>1, LowestOnes
  <2>2. K = Lowest(S, c)
    BY DEF Kept, S, c
  <2>. HIDE DEF K
  <2>. QED  BY <2>1, <2>2
<1>3. F = (1..c) \ K /\ w = c - Cardinality(K)
  BY DEF FreeFor, Wanted
<1>. HIDE DEF S, K, F, c, w
<1>4. IsFiniteSet(F) /\ Cardinality(F) \in Nat /\ w <= Cardinality(F) /\ w \in Nat /\ F \in SUBSET Nat
  <2>1. /\ IsFiniteSet((1..c) \ K) /\ Cardinality((1..c) \ K) \in Nat
        /\ c - Cardinality(K) <= Cardinality((1..c) \ K)
    BY <1>1, <1>2, EnoughAreFree
  <2>2. F \in SUBSET Nat
    BY <1>1, <1>3
  <2>. QED  BY <1>1, <1>2, <1>3, <2>1, <2>2
<1>5. Min({w, Cardinality(F)}) = w
  BY <1>4, MinOfTwo
<1>6. ASSUME NEW k \in 1..w
      PROVE  FreeAt(req, k) \in F /\ Position(F, FreeAt(req, k)) = k - 1
  <2>1. k - 1 \in 0..(Cardinality(F) - 1)
    BY <1>4
  <2>2. \E o \in F : Position(F, o) = k - 1
    BY <1>4, <2>1, EveryPosition
  <2>3. FreeAt(req, k) = CHOOSE o \in F : Position(F, o) = k - 1
    BY DEF FreeAt, F
  <2>. QED  BY <2>2, <2>3
<1>7. ASSUME NEW k \in 1..w PROVE FreeAt(req, k) \notin S
  <2>1. K = S
    BY <1>1, <1>2, <1>3
  <2>. QED  BY <1>3, <1>6, <2>1
<1>8. ASSUME NEW k \in 1..w, NEW l \in 1..w, k # l PROVE FreeAt(req, k) # FreeAt(req, l)
  <2>1. Position(F, FreeAt(req, k)) = k - 1 /\ Position(F, FreeAt(req, l)) = l - 1
    BY <1>6
  <2>2. k - 1 # l - 1
    BY <1>4, <1>8
  <2>. QED  BY <2>1, <2>2
<1>. QED  BY <1>4, <1>5, <1>7, <1>8 DEF S, F, w

LEMMA PlanIsSound ==
  ASSUME question.of = "planAgents", PlanAsked(question.req)
  PROVE  PlanIsRight
<1>. DEFINE req == question.req
            plan == PlanAgents(req)
            existing == DOMAIN req.existing
            M == req.machines
            New(i) == Cardinality({k \in DOMAIN plan.create : plan.create[k].machine = i})
            Full(i) == BlockingReason(i, req, M[i].agents + New(i)) # "none"
            LoadOf(i) == M[i].agents + New(i) + Cardinality(M[i].services \cap {req.service})
            P == PlanPlacement(req, Wanted(req))
            p == P.placements
<1>1. Planable(req) /\ req.count \in Nat /\ existing \in SUBSET Nat /\ IsFiniteSet(existing)
      /\ \A o \in existing : req.sessions[o] \in Nat
  BY DEF PlanAsked
<1>2. /\ Wanted(req) \in Nat
      /\ Min({Wanted(req), Cardinality(FreeFor(req))}) = Wanted(req)
      /\ \A k \in 1..Wanted(req) : FreeAt(req, k) \notin existing
      /\ \A k, l \in 1..Wanted(req) : k # l => FreeAt(req, k) # FreeAt(req, l)
  BY FreeOrdinals
<1>3. /\ plan.keep = Kept(req)
      /\ plan.create = [k \in DOMAIN p |-> [ordinal |-> FreeAt(req, k), machine |-> p[k]]]
      /\ plan.remove = {o \in existing \ Kept(req) : req.sessions[o] = 0}
      /\ plan.draining = {o \in existing \ Kept(req) : req.sessions[o] > 0}
      /\ plan.shortfall = P.shortfall
  <2>1. Kept(req) = {o \in existing : Position(existing, o) < req.count}
    BY DEF Kept, Lowest
  <2>2. FreeFor(req) = (1..req.count) \ Kept(req) /\ Wanted(req) = req.count - Cardinality(Kept(req))
    BY DEF FreeFor, Wanted
  <2>. QED  BY <1>2, <2>1, <2>2 DEF PlanAgents, FreeAt
<1>4. PlacedWell(req, p, Wanted(req)) /\ P.shortfall = Wanted(req) - Len(p)
  BY <1>1, <1>2, PlacementIsWell
<1>. HIDE DEF req, plan, existing, M, P, p
<1>5. /\ p \in Seq(DOMAIN M) /\ Len(p) \in Nat /\ Len(p) <= Wanted(req) /\ DOMAIN p = 1..Len(p)
      /\ Len(p) = Wanted(req) \/ FitFor(req, p) = {}
      /\ \A i \in DOMAIN M :
            NewOn(p, i) > 0 => BlockingReason(i, req, AgentsOn(req, p, i) - 1) = "none"
      /\ Balanced(req, p)
  BY <1>4 DEF PlacedWell, M
<1>6. /\ plan.keep \subseteq existing
      /\ \A o \in plan.keep, q \in existing \ plan.keep : o < q
      /\ Cardinality(plan.keep) \in Nat /\ Wanted(req) = req.count - Cardinality(plan.keep)
  <2>1. Kept(req) = Lowest(existing, req.count)
    BY DEF Kept, existing
  <2>2. Kept(req) \subseteq existing
    BY <2>1 DEF Lowest
  <2>. QED  BY <1>1, <1>3, <2>1, <2>2, LowestOnes DEF Wanted
<1>7. DOMAIN plan.create = 1..Len(p) /\ Len(plan.create) = Len(p)
      /\ \A k \in DOMAIN plan.create : /\ plan.create[k].ordinal = FreeAt(req, k)
                                       /\ plan.create[k].machine = p[k]
                                       /\ k \in 1..Wanted(req)
  BY <1>2, <1>3, <1>5
<1>8. \A i : New(i) = NewOn(p, i)
  <2>1. \A i : {k \in DOMAIN plan.create : plan.create[k].machine = i} = {k \in DOMAIN p : p[k] = i}
    BY <1>5, <1>7
  <2>. QED  BY <2>1 DEF NewOn
<1>9. \A i \in DOMAIN M : /\ AgentsOn(req, p, i) = M[i].agents + New(i) /\ New(i) \in Nat
                          /\ AgentsOn(req, p, i) \in Nat
                          /\ Full(i) <=> i \notin FitFor(req, p)
                          /\ LoadOf(i) = LoadOn(req, p, i)
  <2>. SUFFICES ASSUME NEW i \in DOMAIN M
                PROVE  /\ AgentsOn(req, p, i) = M[i].agents + New(i) /\ New(i) \in Nat
                       /\ AgentsOn(req, p, i) \in Nat
                       /\ Full(i) <=> i \notin FitFor(req, p)
                       /\ LoadOf(i) = LoadOn(req, p, i)
    OBVIOUS
  <2>1. /\ AgentsOn(req, p, i) = M[i].agents + NewOn(p, i) /\ NewOn(p, i) \in Nat
        /\ AgentsOn(req, p, i) \in Nat
    BY <1>1, <1>5, AgentsAre DEF M
  <2>2. NewOn(p, i) = New(i)
    BY <1>8
  <2>3. LoadOn(req, p, i) = AgentsOn(req, p, i) + Cardinality(M[i].services \cap {req.service})
    BY DEF LoadOn, OfService, M
  <2>4. i \in FitFor(req, p) <=> BlockingReason(i, req, AgentsOn(req, p, i)) = "none"
    BY DEF FitFor, M
  <2>. QED  BY <2>1, <2>2, <2>3, <2>4
<1>. HIDE DEF New, Full, LoadOf
<1>10. plan.keep \cup plan.remove \cup plan.draining = existing
  <2>1. \A o \in existing : req.sessions[o] = 0 \/ req.sessions[o] > 0
    BY <1>1
  <2>2. /\ plan.keep \subseteq existing
        /\ plan.remove = {o \in existing \ plan.keep : req.sessions[o] = 0}
        /\ plan.draining = {o \in existing \ plan.keep : req.sessions[o] > 0}
    BY <1>3, <1>6
  <2>. DEFINE K == plan.keep  R == plan.remove  D == plan.draining  Z(o) == req.sessions[o] = 0
              Pos(o) == req.sessions[o] > 0
  <2>. HIDE DEF K, R, D, Z, Pos
  <2>3. K \cup R \cup D = existing
    BY <2>1, <2>2 DEF K, R, D
  <2>. QED  BY <2>3 DEF K, R, D
<1>11. Cardinality(plan.keep) + Len(plan.create) + plan.shortfall = req.count
  BY <1>1, <1>3, <1>4, <1>5, <1>6, <1>7
<1>12. \A o \in plan.remove : req.sessions[o] = 0
  BY <1>3
<1>13. \A k \in DOMAIN plan.create :
         /\ plan.create[k].ordinal \notin existing
         /\ \A l \in DOMAIN plan.create \ {k} : plan.create[l].ordinal # plan.create[k].ordinal
  BY <1>2, <1>7
<1>14. ASSUME NEW i \in DOMAIN M, New(i) > 0
       PROVE  /\ M[i].online /\ ~M[i].private /\ M[i].services \subseteq {req.service}
              /\ M[i].agents + New(i) <= req.perMachine
              /\ req.strategy = "pin" => i \in req.pins
  <2>1. BlockingReason(i, req, AgentsOn(req, p, i) - 1) = "none"
    BY <1>5, <1>8, <1>14
  <2>2. AgentsOn(req, p, i) - 1 \in Int /\ AgentsOn(req, p, i) = M[i].agents + New(i)
    BY <1>9
  <2>3. /\ M[i].online /\ ~M[i].private /\ M[i].services \subseteq {req.service}
        /\ AgentsOn(req, p, i) - 1 < req.perMachine /\ (req.strategy = "pin" => i \in req.pins)
    BY <1>1, <2>1, <2>2, MayHave DEF M
  <2>4. req.perMachine \in Nat /\ AgentsOn(req, p, i) \in Nat
    BY <1>1, <1>9 DEF Planable
  <2>5. AgentsOn(req, p, i) <= req.perMachine
    BY <2>3, <2>4
  <2>. QED  BY <2>2, <2>3, <2>5
<1>15. ASSUME NEW i \in DOMAIN M, plan.shortfall > 0 PROVE Full(i)
  <2>1. Len(p) # Wanted(req)
    BY <1>2, <1>3, <1>4, <1>5, <1>15
  <2>. QED  BY <1>5, <1>9, <2>1
<1>16. ASSUME req.strategy # "pack", NEW i \in DOMAIN M, NEW j \in DOMAIN M,
              MetricsKnown(M[i]), MetricsKnown(M[j]),
              New(i) > 0, ~Full(j), M[j].sessions < M[i].sessions + Crowd
       PROVE  LoadOf(i) <= LoadOf(j) + 1
  <2>1. NewOn(p, i) > 0 /\ j \in FitFor(req, p)
    BY <1>8, <1>9, <1>16
  <2>2. LoadOn(req, p, i) <= LoadOn(req, p, j) + 1
    BY <1>5, <1>16, <2>1 DEF Balanced, M
  <2>. QED  BY <1>9, <2>2
<1>17. /\ plan.keep \cup plan.remove \cup plan.draining = existing
       /\ Cardinality(plan.keep) + Len(plan.create) + plan.shortfall = req.count
       /\ \A o \in plan.remove : req.sessions[o] = 0
       /\ \A o \in plan.keep, q \in existing \ plan.keep : o < q
       /\ \A k \in DOMAIN plan.create :
             /\ plan.create[k].ordinal \notin existing
             /\ \A l \in DOMAIN plan.create \ {k} : plan.create[l].ordinal # plan.create[k].ordinal
       /\ \A i \in DOMAIN M :
             /\ New(i) > 0 => /\ M[i].online /\ ~M[i].private
                              /\ M[i].services \subseteq {req.service}
                              /\ M[i].agents + New(i) <= req.perMachine
                              /\ req.strategy = "pin" => i \in req.pins
             /\ plan.shortfall > 0 => Full(i)
       /\ req.strategy # "pack" =>
             \A i, j \in {m \in DOMAIN M : MetricsKnown(M[m])} :
                New(i) > 0 /\ ~Full(j) /\ M[j].sessions < M[i].sessions + Crowd =>
                    LoadOf(i) <= LoadOf(j) + 1
  BY <1>6, <1>10, <1>11, <1>12, <1>13, <1>14, <1>15, <1>16
<1>. QED  BY <1>17 DEF PlanIsRight, req, plan, existing, M, New, Full, LoadOf

(* What is asked has the form the answers rely on.                          *)
DispatchInv ==
  /\ question.of = "pickWorker" =>
       /\ Askable(question.req) /\ DOMAIN question.req = {"workers", "seed", "max"}
       /\ question.req = [f \in DOMAIN question.req |-> question.req[f]]
  /\ question.of = "planAgents" => PlanAsked(question.req)

LEMMA DispatchAsks == DispatchInv /\ [DispatchNext]_question => DispatchInv'
<1>. SUFFICES ASSUME DispatchInv, [DispatchNext]_question PROVE DispatchInv'
  OBVIOUS
<1>1. CASE AskPick
  <2>1. PICK workers \in WorkerLists, seed \in 0..MaxSeed :
          question' = [of |-> "pickWorker",
                       req |-> [workers |-> workers, seed |-> seed, max |-> 1]]
    BY <1>1 DEF AskPick
  <2>2. workers \in Seq(Worker) /\ seed \in Nat
    BY DispatchAssumption
  <2>. QED  BY <2>1, <2>2 DEF DispatchInv, Askable
<1>2. CASE AskPlan
  <2>1. PICK count \in 0..MaxCount, strategy \in {"spread", "pack", "pin"},
             machines \in [Machines -> MachineFacts], existing \in Existing :
          \E sessions \in [DOMAIN existing -> 0..1] :
            question' = [of |-> "planAgents",
                         req |-> [service |-> 1, count |-> count, strategy |-> strategy,
                                  pins |-> {1}, perMachine |-> 2, machines |-> machines,
                                  existing |-> existing, sessions |-> sessions]]
    BY <1>2 DEF AskPlan
  <2>2. PICK sessions \in [DOMAIN existing -> 0..1] :
            question' = [of |-> "planAgents",
                         req |-> [service |-> 1, count |-> count, strategy |-> strategy,
                                  pins |-> {1}, perMachine |-> 2, machines |-> machines,
                                  existing |-> existing, sessions |-> sessions]]
    BY <2>1
  <2>. DEFINE r == question'.req
  <2>3. /\ question'.of = "planAgents" /\ r.count = count /\ r.strategy = strategy
        /\ r.perMachine = 2 /\ r.machines = machines /\ r.existing = existing
        /\ r.sessions = sessions
    BY <2>2
  <2>. HIDE DEF r
  <2>4. DOMAIN machines = Machines /\ \A i \in DOMAIN machines : machines[i] \in Machine
    BY DispatchAssumption
  <2>5. DOMAIN machines \in SUBSET Nat /\ IsFiniteSet(DOMAIN machines)
    BY <2>4, DispatchAssumption
  <2>6. DOMAIN existing \in SUBSET Nat /\ IsFiniteSet(DOMAIN existing) /\ count \in Nat
        /\ \A o \in DOMAIN existing : sessions[o] \in Nat
    BY DispatchAssumption
  <2>7. PlanAsked(r)
    BY <2>3, <2>4, <2>5, <2>6 DEF PlanAsked, Planable
  <2>. QED  BY <2>3, <2>7 DEF DispatchInv, r
<1>3. CASE UNCHANGED question
  BY <1>3 DEF DispatchInv
<1>. QED  BY <1>1, <1>2, <1>3 DEF DispatchNext

\* Whatever is known of the agents and machines of a service, dispatch.ts,
\* placement.ts and agents-plan.ts choose what their rules ask for.
THEOREM ChoicesAreSound == DispatchSpec => []ChoicesAreRight
<1>1. DispatchInit => DispatchInv
  BY DEF DispatchInit, DispatchInv, NoQuestion
<1>2. DispatchInv => ChoicesAreRight
  BY PickIsSound, PlanIsSound DEF DispatchInv, ChoicesAreRight, PickIsRight, PlanIsRight
<1>. QED  BY <1>1, <1>2, DispatchAsks, PTL DEF DispatchSpec

-----------------------------------------------------------------------------
(* The outward door.                                                        *)
KeyRow == [terms : Terms, state : {"valid", "expired", "revoked"}]
ChatRow == [agent : Agents, key : Keys \union {NoKey}, user : Users \union {NoUser},
            service : Services \union {NoService}, live : BOOLEAN, idle : BOOLEAN,
            turns : 0..MaxTurns]
ApiTyped ==
  /\ keys \in [Keys -> KeyRow \union {NoKey}]
  /\ used \in [Keys -> Nat]
  /\ chats \in Seq(ChatRow)

ApiInv == ApiTyped /\ OneConversationPerUser

LEMMA ChatsAreRows ==
  ASSUME ApiTyped
  PROVE  /\ Len(chats) \in Nat /\ DOMAIN chats = 1..Len(chats) /\ IsFiniteSet(DOMAIN chats)
         /\ \A c \in DOMAIN chats : chats[c] \in ChatRow
         /\ IsFiniteSet(OpenRuns)
<1>1. Len(chats) \in Nat /\ DOMAIN chats = 1..Len(chats)
      /\ \A c \in DOMAIN chats : chats[c] \in ChatRow
  BY DEF ApiTyped
<1>2. IsFiniteSet(DOMAIN chats) /\ IsFiniteSet(1..MaxTurns)
  BY <1>1, FS_Interval, ApiAssumption
<1>3. IsFiniteSet((DOMAIN chats) \X (1..MaxTurns))
  BY <1>2, FS_Product
<1>4. OpenRuns \subseteq (DOMAIN chats) \X (1..MaxTurns)
  BY DEF OpenRuns
<1>. QED  BY <1>1, <1>2, <1>3, <1>4, FS_Subset

(* What a dispatch is told of the agents of a service.                      *)
LEMMA LoadIsTyped ==
  ASSUME ApiTyped, NEW k \in Keys, NEW s \in Services, NEW online,
         NEW latency \in [Agents -> {NoFact, 1}]
  PROVE  LET W == LoadServiceLoad(k, s, online, latency) IN
         /\ W \in Seq(Worker) /\ DOMAIN W = DOMAIN WorkersOf[s]
         /\ \A i \in DOMAIN W : W[i].sessions = Sessions(WorkersOf[s][i])
<1>. DEFINE W == LoadServiceLoad(k, s, online, latency)
            Seen(a) == [online |-> a \in online,
                       sessions |-> Sessions(a),
                       queue |-> Cardinality({r \in OpenRuns : chats[r[1]].agent = a}),
                       latency |-> latency[a],
                       ofKey |-> KeySessionsByAgent(k, a)]
<1>1. W = [i \in DOMAIN WorkersOf[s] |-> Seen(WorkersOf[s][i])]
  BY DEF LoadServiceLoad
<1>2. \A a \in Agents : Seen(a) \in Worker
  <2>. SUFFICES ASSUME NEW a \in Agents PROVE Seen(a) \in Worker
    OBVIOUS
  <2>1. Sessions(a) \in Nat
    <3>. DEFINE X == {c \in DOMAIN chats : chats[c].live /\ chats[c].agent = a}
    <3>1. X \subseteq DOMAIN chats
      OBVIOUS
    <3>. HIDE DEF X
    <3>2. Cardinality(X) \in Nat
      BY <3>1, ChatsAreRows, FS_Subset, FS_CardinalityType
    <3>. QED  BY <3>2 DEF X, Sessions
  <2>2. KeySessionsByAgent(k, a) \in Nat
    <3>. DEFINE X == {c \in DOMAIN chats : chats[c].live /\ chats[c].key = k /\ chats[c].agent = a}
    <3>1. X \subseteq DOMAIN chats
      OBVIOUS
    <3>. HIDE DEF X
    <3>2. Cardinality(X) \in Nat
      BY <3>1, ChatsAreRows, FS_Subset, FS_CardinalityType
    <3>. QED  BY <3>2 DEF X, KeySessionsByAgent
  <2>3. Cardinality({r \in OpenRuns : chats[r[1]].agent = a}) \in Nat
    <3>. DEFINE X == {r \in OpenRuns : chats[r[1]].agent = a}
    <3>1. X \subseteq OpenRuns
      OBVIOUS
    <3>. HIDE DEF X
    <3>2. Cardinality(X) \in Nat
      BY <3>1, ChatsAreRows, FS_Subset, FS_CardinalityType
    <3>. QED  BY <3>2 DEF X
  <2>4. latency[a] \in Nat \union {NoFact} /\ (a \in online) \in BOOLEAN
    OBVIOUS
  <2>. QED  BY <2>1, <2>2, <2>3, <2>4 DEF Worker
<1>3. \A i \in DOMAIN WorkersOf[s] : WorkersOf[s][i] \in Agents
  BY DEF Agents
<1>4. Len(WorkersOf[s]) \in Nat /\ DOMAIN WorkersOf[s] = 1..Len(WorkersOf[s])
  BY ApiAssumption
<1>5. DOMAIN W = DOMAIN WorkersOf[s]
      /\ \A i \in DOMAIN WorkersOf[s] : W[i].sessions = Sessions(WorkersOf[s][i])
  BY <1>1
<1>6. W \in [1..Len(WorkersOf[s]) -> Worker]
  <2>. HIDE DEF Seen
  <2>. QED  BY <1>1, <1>2, <1>3, <1>4
<1>. HIDE DEF W
<1>7. W \in Seq(Worker)
  BY <1>4, <1>6, SeqDef
<1>. QED  BY <1>5, <1>7 DEF W

LEMMA RoomAtTheAgent ==
  ASSUME ApiTyped, NEW k \in Keys, NEW s \in Services, NEW online,
         NEW latency \in [Agents -> {NoFact, 1}], NEW seed \in 0..1,
         DispatchConversation(k, s, online, latency, seed).ok
  PROVE  LET i == DispatchConversation(k, s, online, latency, seed).agent IN
         /\ i \in DOMAIN WorkersOf[s] /\ WorkersOf[s][i] \in Agents
         /\ Sessions(WorkersOf[s][i]) < MaxSessions
<1>. DEFINE W == LoadServiceLoad(k, s, online, latency)
            req == [workers |-> W, max |-> MaxSessions, seed |-> seed]
            i == PickWorker(req).agent
<1>1. /\ W \in Seq(Worker) /\ DOMAIN W = DOMAIN WorkersOf[s]
      /\ \A j \in DOMAIN W : W[j].sessions = Sessions(WorkersOf[s][j])
  BY LoadIsTyped
<1>2. DispatchConversation(k, s, online, latency, seed) = PickWorker(req)
  BY DEF DispatchConversation
<1>. HIDE DEF W
<1>3. Askable(req)
  BY <1>1, ApiAssumption DEF Askable
<1>4. i \in DispatchCandidates(req)
  <2>. HIDE DEF req
  <2>. QED  BY <1>2, <1>3, PickFrom
<1>5. i \in DOMAIN W /\ W[i].sessions < MaxSessions
  <2>1. req.workers = W /\ req.max = MaxSessions
    OBVIOUS
  <2>. HIDE DEF req, i
  <2>. QED  BY <1>4, <2>1 DEF DispatchCandidates
<1>6. \A j \in DOMAIN WorkersOf[s] : WorkersOf[s][j] \in Agents
  BY DEF Agents
<1>. HIDE DEF req
<1>. QED  BY <1>1, <1>2, <1>5, <1>6

(* The conversations are those there were, each of the same caller.         *)
SameCallers ==
  /\ DOMAIN chats' = DOMAIN chats
  /\ \A c \in DOMAIN chats : chats'[c].key = chats[c].key /\ chats'[c].user = chats[c].user

(* TermsAreKept, of one step.                                               *)
WithinTerms ==
  /\ \A k \in Keys : ActiveRuns(k)' > ActiveRuns(k) =>
        /\ Verified(k)
        /\ ActiveRuns(k)' <= keys[k].terms.cap
        /\ keys[k].terms.quota # NoQuota => RunsUsedToday(k)' <= keys[k].terms.quota
  /\ \A c \in DOMAIN chats' \ DOMAIN chats, a \in Agents :
        chats'[c].key # NoKey /\ chats'[c].agent = a =>
           /\ AllowsService(chats'[c].key, chats'[c].service)
           /\ Cardinality({d \in DOMAIN chats' : chats'[d].live /\ chats'[d].agent = a}) <= MaxSessions

LEMMA OneConversationKept ==
  ASSUME OneConversationPerUser, SameCallers,
         \A c \in DOMAIN chats : chats'[c].live => chats[c].live
  PROVE  OneConversationPerUser'
BY DEF OneConversationPerUser, SameCallers

(* No turn begins: no key has more under way than before.                   *)
LEMMA NoMoreRuns ==
  ASSUME ApiTyped, OpenRuns' \subseteq OpenRuns,
         \A r \in OpenRuns : chats'[r[1]].key = chats[r[1]].key, NEW k
  PROVE  ~ (ActiveRuns(k)' > ActiveRuns(k))
<1>. DEFINE A == {r \in OpenRuns : chats[r[1]].key = k}
            B == {r \in OpenRuns' : chats'[r[1]].key = k}
<1>1. B \subseteq A /\ A \subseteq OpenRuns
  OBVIOUS
<1>2. ActiveRuns(k) = Cardinality(A) /\ ActiveRuns(k)' = Cardinality(B)
  BY DEF ActiveRuns
<1>. HIDE DEF A, B
<1>3. IsFiniteSet(A)
  BY <1>1, ChatsAreRows, FS_Subset
<1>4. Cardinality(B) <= Cardinality(A) /\ Cardinality(A) \in Nat /\ Cardinality(B) \in Nat
  BY <1>1, <1>3, FS_Subset, FS_CardinalityType
<1>. QED  BY <1>2, <1>4

LEMMA NoTurnBegins ==
  ASSUME ApiTyped, SameCallers, OpenRuns' \subseteq OpenRuns
  PROVE  WithinTerms
<1>1. \A r \in OpenRuns : chats'[r[1]].key = chats[r[1]].key
  BY DEF OpenRuns, SameCallers
<1>2. \A k \in Keys : ~ (ActiveRuns(k)' > ActiveRuns(k))
  BY <1>1, NoMoreRuns
<1>3. DOMAIN chats' \ DOMAIN chats = {}
  BY DEF SameCallers
<1>. QED  BY <1>2, <1>3 DEF WithinTerms

(* One turn of key's begins: only key has more under way, by one.           *)
LEMMA OneTurnBegins ==
  ASSUME ApiTyped, NEW key, NEW run, OpenRuns' \subseteq OpenRuns \union {run},
         \A r \in OpenRuns : chats'[r[1]].key = chats[r[1]].key,
         chats'[run[1]].key = key, NEW k
  PROVE  /\ ActiveRuns(k) \in Nat /\ ActiveRuns(k)' \in Nat
         /\ ActiveRuns(k)' <= ActiveRuns(k) + 1
         /\ k # key => ActiveRuns(k)' <= ActiveRuns(k)
<1>. DEFINE A == {r \in OpenRuns : chats[r[1]].key = k}
            B == {r \in OpenRuns' : chats'[r[1]].key = k}
<1>1. ActiveRuns(k) = Cardinality(A) /\ ActiveRuns(k)' = Cardinality(B)
  BY DEF ActiveRuns
<1>2. A \subseteq OpenRuns /\ B \subseteq A \union {run} /\ (k # key => B \subseteq A)
  OBVIOUS
<1>. HIDE DEF A, B
<1>3. IsFiniteSet(A) /\ IsFiniteSet(A \union {run})
  BY <1>2, ChatsAreRows, FS_Subset, FS_AddElement
<1>4. Cardinality(A) \in Nat /\ Cardinality(B) \in Nat
  BY <1>2, <1>3, FS_Subset, FS_CardinalityType
<1>5. Cardinality(A \union {run}) <= Cardinality(A) + 1 /\ Cardinality(A \union {run}) \in Nat
  <2>1. CASE run \in A
    <3>1. A \union {run} = A
      BY <2>1
    <3>2. Cardinality(A \union {run}) = Cardinality(A)
      BY <3>1, Zenon
    <3>. QED  BY <1>4, <3>2
  <2>2. CASE run \notin A
    <3>1. Cardinality(A \union {run}) = Cardinality(A) + 1
      BY <1>3, <2>2, FS_AddElement
    <3>. QED  BY <1>4, <3>1
  <2>. QED  BY <2>1, <2>2
<1>6. Cardinality(B) <= Cardinality(A \union {run})
  BY <1>2, <1>3, FS_Subset
<1>7. k # key => Cardinality(B) <= Cardinality(A)
  BY <1>2, <1>3, FS_Subset
<1>. QED  BY <1>1, <1>4, <1>5, <1>6, <1>7

(* What an admitted call counts for its key stays within today's quota.     *)
LEMMA QuotaIsKept ==
  ASSUME ApiTyped, NEW k \in Keys, Verified(k), CheckAdmission(k), Uses(k, 1)
  PROVE  /\ keys[k].terms.quota # NoQuota => RunsUsedToday(k)' <= keys[k].terms.quota
         /\ ActiveRuns(k) < keys[k].terms.cap /\ keys[k].terms.cap \in Nat
<1>1. keys[k] \in KeyRow
  BY DEF ApiTyped, Verified, Minted
<1>2. keys[k].terms \in Terms
  BY <1>1 DEF KeyRow
<1>3. keys[k].terms.quota \in Nat \union {NoQuota} /\ keys[k].terms.cap \in Nat
  BY <1>2, ApiAssumption
<1>4. used[k] \in Nat /\ used'[k] = IF used[k] + 1 > MaxUsed THEN MaxUsed ELSE used[k] + 1
  BY DEF ApiTyped, Uses
<1>. QED  BY <1>3, <1>4, ApiAssumption DEF CheckAdmission, RunsUsedToday

(* The row of one conversation changes, its caller stays.                   *)
LEMMA OneRowMoves ==
  ASSUME ApiTyped, NEW c \in DOMAIN chats, NEW row \in ChatRow,
         chats' = [chats EXCEPT ![c] = row],
         row.key = chats[c].key, row.user = chats[c].user
  PROVE  /\ chats' \in Seq(ChatRow) /\ SameCallers
         /\ chats'[c] = row /\ \A d \in DOMAIN chats : d # c => chats'[d] = chats[d]
<1>1. chats \in Seq(ChatRow) /\ Len(chats) \in Nat /\ DOMAIN chats = 1..Len(chats)
  BY DEF ApiTyped
<1>2. chats' \in Seq(ChatRow)
  BY <1>1
<1>. QED  BY <1>2 DEF SameCallers

LEMMA RowsAreRows ==
  ASSUME ApiTyped, NEW c \in DOMAIN chats
  PROVE  /\ chats[c] \in ChatRow /\ chats[c].turns \in 0..MaxTurns
         /\ chats[c].live \in BOOLEAN /\ chats[c].idle \in BOOLEAN
BY ChatsAreRows DEF ChatRow

(* A call, admitted, starts a turn in a conversation of its key.            *)
LEMMA TurnStarts ==
  ASSUME ApiInv, NEW k \in Keys, NEW c \in DOMAIN chats, Verified(k), CheckAdmission(k),
         chats[c].key = k, RunTurn(k, c), UNCHANGED keys
  PROVE  ApiInv' /\ WithinTerms
<1>. USE DEF ApiInv
<1>. DEFINE n == chats[c].turns + 1
            row == [chats[c] EXCEPT !.turns = n]
<1>1. n \in 0..MaxTurns /\ n \in 1..MaxTurns
  BY RowsAreRows, ApiAssumption DEF RunTurn
<1>2. row \in ChatRow /\ row.key = chats[c].key /\ row.user = chats[c].user
      /\ row.live = chats[c].live /\ row.turns = n
  <2>. HIDE DEF n
  <2>. QED  BY <1>1, RowsAreRows DEF ChatRow
<1>3. chats' = [chats EXCEPT ![c] = row]
  BY DEF RunTurn
<1>. HIDE DEF row
<1>4. /\ chats' \in Seq(ChatRow) /\ SameCallers
      /\ chats'[c] = row /\ \A d \in DOMAIN chats : d # c => chats'[d] = chats[d]
  BY <1>2, <1>3, OneRowMoves
<1>5. used' \in [Keys -> Nat]
  BY ApiAssumption DEF ApiTyped, RunTurn, Uses
<1>6. ApiTyped'
  BY <1>4, <1>5 DEF ApiTyped
<1>7. OneConversationPerUser'
  BY <1>2, <1>4, OneConversationKept
<1>8. OpenRuns' \subseteq OpenRuns \union {<<c, n>>}
  <2>1. ASSUME NEW d \in DOMAIN chats, NEW m \in 1..MaxTurns, m <= chats'[d].turns, ~ (m <= chats[d].turns)
        PROVE  d = c /\ m = n
    <3>1. d = c
      BY <1>4, <2>1
    <3>2. m <= n
      BY <1>2, <1>4, <2>1, <3>1
    <3>. QED  BY <2>1, <3>1, <3>2, RowsAreRows
  <2>2. ASSUME NEW r \in OpenRuns' PROVE r \in OpenRuns \union {<<c, n>>}
    <3>1. PICK d \in DOMAIN chats, m \in 1..MaxTurns : r = <<d, m>> /\ m <= chats'[d].turns
      BY <1>4 DEF OpenRuns, SameCallers
    <3>2. CASE m <= chats[d].turns
      BY <3>1, <3>2 DEF OpenRuns
    <3>3. CASE ~ (m <= chats[d].turns)
      <4>1. d = c /\ m = n
        BY <2>1, <3>1, <3>3
      <4>. QED  BY <3>1, <4>1
    <3>. QED  BY <3>2, <3>3
  <2>. QED  BY <2>2
<1>. HIDE DEF n
<1>9. ASSUME NEW j \in Keys, ActiveRuns(j)' > ActiveRuns(j)
      PROVE  j = k /\ ActiveRuns(j)' <= ActiveRuns(j) + 1 /\ ActiveRuns(j)' \in Nat /\ ActiveRuns(j) \in Nat
  <2>1. PICK run : run = <<c, n>>
    OBVIOUS
  <2>2. \A r \in OpenRuns : chats'[r[1]].key = chats[r[1]].key
    BY <1>4 DEF SameCallers, OpenRuns
  <2>3. chats'[run[1]].key = k
    BY <1>2, <1>4, <2>1
  <2>4. OpenRuns' \subseteq OpenRuns \union {run}
    BY <1>8, <2>1
  <2>5. /\ ActiveRuns(j) \in Nat /\ ActiveRuns(j)' \in Nat
        /\ ActiveRuns(j)' <= ActiveRuns(j) + 1
        /\ j # k => ActiveRuns(j)' <= ActiveRuns(j)
    BY <2>2, <2>3, <2>4, OneTurnBegins
  <2>. QED  BY <1>9, <2>5
<1>10. /\ keys[k].terms.quota # NoQuota => RunsUsedToday(k)' <= keys[k].terms.quota
       /\ ActiveRuns(k) < keys[k].terms.cap /\ keys[k].terms.cap \in Nat
  BY QuotaIsKept DEF RunTurn
<1>11. DOMAIN chats' \ DOMAIN chats = {}
  BY <1>4 DEF SameCallers
<1>12. WithinTerms
  BY <1>9, <1>10, <1>11 DEF WithinTerms
<1>. QED  BY <1>6, <1>7, <1>12

(* A conversation opens: for the operator, or for a key within its terms,   *)
(* then at an agent that has room.                                          *)
LEMMA ChatOpens ==
  ASSUME ApiInv, NEW a \in Agents, NEW k \in Keys \union {NoKey},
         NEW u \in Users \union {NoUser}, NEW s \in Services \union {NoService}, NEW turns \in 0..1,
         CreateChat(a, k, u, s, turns), UNCHANGED keys, used' \in [Keys -> Nat],
         u # NoUser => FindLiveConversation(k, u) = {},
         k # NoKey => AllowsService(k, s) /\ Sessions(a) < MaxSessions,
         turns = 1 => k \in Keys /\ Verified(k) /\ CheckAdmission(k) /\ Uses(k, 1)
  PROVE  ApiInv' /\ WithinTerms
<1>. USE DEF ApiInv
<1>. DEFINE row == [agent |-> a, key |-> k, user |-> u, service |-> s,
                    live |-> TRUE, idle |-> FALSE, turns |-> turns]
<1>1. turns \in 0..MaxTurns
  BY ApiAssumption
<1>2. /\ row \in ChatRow /\ row.key = k /\ row.user = u /\ row.agent = a /\ row.service = s
      /\ row.live /\ row.turns = turns
  BY <1>1 DEF ChatRow
<1>3. chats' = Append(chats, row)
  BY DEF CreateChat
<1>. HIDE DEF row
<1>4. PICK new \in Nat : new = Len(chats) + 1
  BY ChatsAreRows
<1>5. /\ chats' \in Seq(ChatRow) /\ DOMAIN chats' = DOMAIN chats \union {new} /\ new \notin DOMAIN chats
      /\ chats'[new] = row /\ \A d \in DOMAIN chats : chats'[d] = chats[d]
  <2>1. chats \in Seq(ChatRow) /\ Len(chats) \in Nat /\ DOMAIN chats = 1..Len(chats)
    BY DEF ApiTyped
  <2>2. chats' \in Seq(ChatRow) /\ Len(chats') = Len(chats) + 1 /\ DOMAIN chats' = 1..Len(chats')
    BY <1>2, <1>3, <2>1
  <2>3. DOMAIN chats' = DOMAIN chats \union {new} /\ new \notin DOMAIN chats
    BY <1>4, <2>1, <2>2
  <2>4. chats'[new] = row /\ \A d \in DOMAIN chats : chats'[d] = chats[d]
    BY <1>2, <1>3, <1>4, <2>1
  <2>. QED  BY <2>2, <2>3, <2>4
<1>6. ApiTyped'
  BY <1>5 DEF ApiTyped
<1>7. OneConversationPerUser'
  <2>1. ASSUME NEW d \in DOMAIN chats, chats[d].live, chats[d].key = k, chats[d].user = u, u # NoUser
        PROVE  FALSE
    BY <2>1 DEF FindLiveConversation
  <2>2. ASSUME NEW c \in DOMAIN chats', NEW d \in DOMAIN chats', chats'[c].live, chats'[d].live,
               chats'[c].user # NoUser, chats'[c].key = chats'[d].key, chats'[c].user = chats'[d].user
        PROVE  c = d
    <3>1. CASE c \in DOMAIN chats /\ d \in DOMAIN chats
      BY <1>5, <2>2, <3>1 DEF OneConversationPerUser
    <3>2. CASE c = new /\ d \in DOMAIN chats
      <4>1. chats'[c] = row /\ chats'[d] = chats[d]
        BY <1>5, <3>2
      <4>. QED  BY <1>2, <2>1, <2>2, <3>2, <4>1
    <3>3. CASE d = new /\ c \in DOMAIN chats
      <4>1. chats'[d] = row /\ chats'[c] = chats[c]
        BY <1>5, <3>3
      <4>. QED  BY <1>2, <2>1, <2>2, <3>3, <4>1
    <3>. QED  BY <1>5, <2>2, <3>1, <3>2, <3>3
  <2>. QED  BY <2>2 DEF OneConversationPerUser
<1>8. ASSUME NEW r \in OpenRuns'
      PROVE  r \in OpenRuns \/ (r = <<new, 1>> /\ turns = 1)
  <2>1. PICK d \in DOMAIN chats', m \in 1..MaxTurns : r = <<d, m>> /\ m <= chats'[d].turns
    BY DEF OpenRuns
  <2>2. CASE d = new
    BY <1>2, <1>5, <2>1, <2>2
  <2>3. CASE d \in DOMAIN chats
    BY <1>5, <2>1, <2>3 DEF OpenRuns
  <2>. QED  BY <1>5, <2>2, <2>3
<1>9. ASSUME NEW j \in Keys, ActiveRuns(j)' > ActiveRuns(j)
      PROVE  /\ j = k /\ turns = 1
             /\ ActiveRuns(j)' <= ActiveRuns(j) + 1 /\ ActiveRuns(j)' \in Nat /\ ActiveRuns(j) \in Nat
  <2>1. PICK run : run = <<new, 1>>
    OBVIOUS
  <2>2. \A r \in OpenRuns : chats'[r[1]].key = chats[r[1]].key
    BY <1>5 DEF OpenRuns
  <2>3. chats'[run[1]].key = k
    BY <1>2, <1>5, <2>1
  <2>4. OpenRuns' \subseteq OpenRuns \union {run}
    BY <1>8, <2>1
  <2>5. /\ ActiveRuns(j) \in Nat /\ ActiveRuns(j)' \in Nat
        /\ ActiveRuns(j)' <= ActiveRuns(j) + 1
        /\ j # k => ActiveRuns(j)' <= ActiveRuns(j)
    BY <2>2, <2>3, <2>4, OneTurnBegins
  <2>6. turns = 1
    <3>1. turns # 1 => OpenRuns' \subseteq OpenRuns
      BY <1>8
    <3>. QED  BY <1>9, <2>2, <3>1, NoMoreRuns
  <2>. QED  BY <1>9, <2>5, <2>6
<1>10. turns = 1 =>
         /\ Verified(k)
         /\ keys[k].terms.quota # NoQuota => RunsUsedToday(k)' <= keys[k].terms.quota
         /\ ActiveRuns(k) < keys[k].terms.cap /\ keys[k].terms.cap \in Nat
  BY QuotaIsKept
<1>11. ASSUME NEW c \in DOMAIN chats' \ DOMAIN chats, NEW b \in Agents,
              chats'[c].key # NoKey, chats'[c].agent = b
       PROVE  /\ AllowsService(chats'[c].key, chats'[c].service)
              /\ Cardinality({d \in DOMAIN chats' : chats'[d].live /\ chats'[d].agent = b}) <= MaxSessions
  <2>. DEFINE A == {d \in DOMAIN chats : chats[d].live /\ chats[d].agent = a}
              B == {d \in DOMAIN chats' : chats'[d].live /\ chats'[d].agent = b}
  <2>1. c = new /\ b = a /\ k # NoKey
    BY <1>2, <1>5, <1>11
  <2>2. AllowsService(chats'[c].key, chats'[c].service)
    BY <1>2, <1>5, <2>1
  <2>3. A \subseteq DOMAIN chats /\ B = A \union {new} /\ new \notin A
    BY <1>2, <1>5, <2>1
  <2>4. Sessions(a) = Cardinality(A)
    BY DEF Sessions
  <2>. HIDE DEF A, B
  <2>5. IsFiniteSet(A)
    BY <2>3, ChatsAreRows, FS_Subset
  <2>6. Cardinality(B) = Cardinality(A) + 1 /\ Cardinality(A) \in Nat
    BY <2>3, <2>5, FS_AddElement, FS_CardinalityType
  <2>7. Cardinality(B) <= MaxSessions
    BY <2>1, <2>4, <2>6, ApiAssumption
  <2>. QED  BY <2>2, <2>7 DEF B
<1>12. ASSUME NEW j \in Keys, ActiveRuns(j)' > ActiveRuns(j)
       PROVE  /\ Verified(j)
              /\ ActiveRuns(j)' <= keys[j].terms.cap
              /\ keys[j].terms.quota # NoQuota => RunsUsedToday(j)' <= keys[j].terms.quota
  <2>1. /\ j = k /\ turns = 1
        /\ ActiveRuns(j)' <= ActiveRuns(j) + 1 /\ ActiveRuns(j)' \in Nat /\ ActiveRuns(j) \in Nat
    BY <1>9, <1>12
  <2>2. /\ Verified(j)
        /\ keys[j].terms.quota # NoQuota => RunsUsedToday(j)' <= keys[j].terms.quota
        /\ ActiveRuns(j) < keys[j].terms.cap /\ keys[j].terms.cap \in Nat
    BY <1>10, <2>1
  <2>. QED  BY <2>1, <2>2
<1>13. WithinTerms
  BY <1>11, <1>12 DEF WithinTerms
<1>. QED  BY <1>6, <1>7, <1>13

(* The rows change without a turn that begins.                              *)
LEMMA RowsChange ==
  ASSUME ApiInv, keys' \in [Keys -> KeyRow \union {NoKey}], used' \in [Keys -> Nat],
         chats' \in Seq(ChatRow), SameCallers,
         \A c \in DOMAIN chats : chats'[c].turns <= chats[c].turns,
         (\A c \in DOMAIN chats : chats'[c].live => chats[c].live) \/ OneConversationPerUser'
  PROVE  ApiInv' /\ WithinTerms
<1>. USE DEF ApiInv
<1>1. ApiTyped'
  BY DEF ApiTyped
<1>2. OneConversationPerUser'
  BY OneConversationKept
<1>3. OpenRuns' \subseteq OpenRuns
  <2>1. ASSUME NEW r \in OpenRuns' PROVE r \in OpenRuns
    <3>1. PICK d \in DOMAIN chats, m \in 1..MaxTurns : r = <<d, m>> /\ m <= chats'[d].turns
      BY DEF OpenRuns, SameCallers
    <3>2. chats[d].turns \in 0..MaxTurns /\ chats'[d].turns \in 0..MaxTurns
      <4>1. chats[d] \in ChatRow
        BY ChatsAreRows
      <4>2. chats'[d] \in ChatRow
        BY DEF SameCallers
      <4>. QED  BY <4>1, <4>2 DEF ChatRow
    <3>3. m <= chats[d].turns
      BY <3>1, <3>2
    <3>. QED  BY <3>1, <3>3 DEF OpenRuns
  <2>. QED  BY <2>1
<1>. QED  BY <1>1, <1>2, <1>3, NoTurnBegins

LEMMA ConverseStep ==
  ASSUME ApiInv, NEW k \in Keys, Converse(k)
  PROVE  ApiInv' /\ WithinTerms
<1>. USE DEF ApiInv
<1>1. PICK wanted \in Services \union {NoService}, u \in Users \union {NoUser}, says \in BOOLEAN :
      \E s \in IF Verified(k) THEN ResolveService(k, wanted) ELSE {} :
         /\ CheckAdmission(k)
         /\ \/ /\ u # NoUser /\ says
               /\ \E c \in FindLiveConversation(k, u) : RunTurn(k, c)
            \/ /\ u = NoUser \/ FindLiveConversation(k, u) = {}
               /\ \E online \in SUBSET Agents, latency \in [Agents -> {NoFact, 1}], seed \in 0..1 :
                    LET picked == DispatchConversation(k, s, online, latency, seed)
                    IN /\ picked.ok
                       /\ CreateChat(WorkersOf[s][picked.agent], k, u, s, IF says THEN 1 ELSE 0)
               /\ Uses(k, IF says THEN 1 ELSE 0)
         /\ UNCHANGED keys
  BY DEF Converse
<1>2. PICK s \in Services :
         /\ Verified(k) /\ AllowsService(k, s) /\ CheckAdmission(k)
         /\ \/ /\ u # NoUser /\ says
               /\ \E c \in FindLiveConversation(k, u) : RunTurn(k, c)
            \/ /\ u = NoUser \/ FindLiveConversation(k, u) = {}
               /\ \E online \in SUBSET Agents, latency \in [Agents -> {NoFact, 1}], seed \in 0..1 :
                    LET picked == DispatchConversation(k, s, online, latency, seed)
                    IN /\ picked.ok
                       /\ CreateChat(WorkersOf[s][picked.agent], k, u, s, IF says THEN 1 ELSE 0)
               /\ Uses(k, IF says THEN 1 ELSE 0)
         /\ UNCHANGED keys
  BY <1>1 DEF ResolveService
<1>3. CASE \E c \in FindLiveConversation(k, u) : RunTurn(k, c)
  BY <1>2, <1>3, TurnStarts DEF FindLiveConversation
<1>4. CASE /\ u = NoUser \/ FindLiveConversation(k, u) = {}
           /\ \E online \in SUBSET Agents, latency \in [Agents -> {NoFact, 1}], seed \in 0..1 :
                LET picked == DispatchConversation(k, s, online, latency, seed)
                IN /\ picked.ok
                   /\ CreateChat(WorkersOf[s][picked.agent], k, u, s, IF says THEN 1 ELSE 0)
           /\ Uses(k, IF says THEN 1 ELSE 0)
  <2>1. PICK online \in SUBSET Agents, latency \in [Agents -> {NoFact, 1}], seed \in 0..1 :
          /\ DispatchConversation(k, s, online, latency, seed).ok
          /\ CreateChat(WorkersOf[s][DispatchConversation(k, s, online, latency, seed).agent], k, u, s,
                        IF says THEN 1 ELSE 0)
    BY <1>4
  <2>2. PICK a \in Agents : /\ CreateChat(a, k, u, s, IF says THEN 1 ELSE 0)
                            /\ Sessions(a) < MaxSessions
    BY <2>1, RoomAtTheAgent
  <2>3. PICK n \in 0..1 : n = IF says THEN 1 ELSE 0
    OBVIOUS
  <2>4. CreateChat(a, k, u, s, n) /\ Uses(k, n)
    BY <1>4, <2>2, <2>3
  <2>5. used' \in [Keys -> Nat]
    BY <2>4, ApiAssumption DEF ApiTyped, Uses
  <2>6. u # NoUser => FindLiveConversation(k, u) = {}
    BY <1>4
  <2>7. n = 1 => k \in Keys /\ Verified(k) /\ CheckAdmission(k) /\ Uses(k, 1)
    BY <1>2, <2>4
  <2>8. UNCHANGED keys /\ AllowsService(k, s) /\ k \in Keys \union {NoKey}
        /\ s \in Services \union {NoService}
    BY <1>2
  <2>. QED  BY <2>2, <2>4, <2>5, <2>6, <2>7, <2>8, ChatOpens
<1>. QED  BY <1>2, <1>3, <1>4

LEMMA ApiBegins == ApiInit => ApiInv
<1>. SUFFICES ASSUME ApiInit PROVE ApiInv
  OBVIOUS
<1>1. chats \in Seq(ChatRow) /\ DOMAIN chats = {}
  BY DEF ApiInit
<1>2. keys \in [Keys -> KeyRow \union {NoKey}] /\ used \in [Keys -> Nat]
  BY DEF ApiInit
<1>. QED  BY <1>1, <1>2 DEF ApiInv, ApiTyped, OneConversationPerUser

LEMMA ApiStep ==
  ASSUME ApiInv, ApiNext
  PROVE  ApiInv' /\ WithinTerms
<1>. USE DEF ApiInv
<1>0. /\ keys \in [Keys -> KeyRow \union {NoKey}] /\ used \in [Keys -> Nat] /\ chats \in Seq(ChatRow)
      /\ DOMAIN chats = 1..Len(chats) /\ Len(chats) \in Nat
      /\ \A c \in DOMAIN chats : chats[c].turns \in Nat
  <2>1. \A c \in DOMAIN chats : chats[c].turns \in Nat
    BY RowsAreRows
  <2>. QED  BY <2>1, ChatsAreRows DEF ApiTyped
<1>1. ASSUME keys' \in [Keys -> KeyRow \union {NoKey}], used' \in [Keys -> Nat], UNCHANGED chats
      PROVE  ApiInv' /\ WithinTerms
  <2>1. /\ chats' \in Seq(ChatRow) /\ SameCallers
        /\ \A c \in DOMAIN chats : chats'[c].turns <= chats[c].turns /\ (chats'[c].live => chats[c].live)
    BY <1>0, <1>1 DEF SameCallers
  <2>. QED  BY <1>1, <2>1, RowsChange
<1>2. ASSUME NEW c \in DOMAIN chats, NEW row \in ChatRow, chats' = [chats EXCEPT ![c] = row],
             row.key = chats[c].key, row.user = chats[c].user, row.turns <= chats[c].turns,
             (row.live => chats[c].live) \/ ~ChatUserLive(c), UNCHANGED <<keys, used>>
      PROVE  ApiInv' /\ WithinTerms
  <2>1. /\ chats' \in Seq(ChatRow) /\ SameCallers
        /\ chats'[c] = row /\ \A d \in DOMAIN chats : d # c => chats'[d] = chats[d]
    BY <1>2, OneRowMoves
  <2>2. \A d \in DOMAIN chats : chats'[d].turns <= chats[d].turns
    BY <1>0, <1>2, <2>1
  <2>3. CASE row.live => chats[c].live
    BY <1>0, <1>2, <2>1, <2>2, <2>3, RowsChange
  <2>4. CASE ~ChatUserLive(c)
    <3>1. ASSUME NEW d \in DOMAIN chats, NEW e \in DOMAIN chats, chats'[d].live, chats'[e].live,
                 chats'[d].user # NoUser, chats'[d].key = chats'[e].key,
                 chats'[d].user = chats'[e].user
          PROVE  d = e
      <4>1. CASE d # c /\ e # c
        BY <2>1, <3>1, <4>1 DEF OneConversationPerUser
      <4>2. CASE d = c \/ e = c
        BY <1>2, <2>1, <2>4, <3>1, <4>2 DEF ChatUserLive
      <4>. QED  BY <4>1, <4>2
    <3>2. OneConversationPerUser'
      BY <2>1, <3>1 DEF OneConversationPerUser, SameCallers
    <3>. QED  BY <1>0, <1>2, <2>1, <2>2, <3>2, RowsChange
  <2>. QED  BY <1>2, <2>3, <2>4
<1>3. ASSUME NEW k \in Keys, Mint(k) \/ EditKey(k) \/ Revoke(k) \/ Expire(k)
      PROVE  ApiInv' /\ WithinTerms
  <2>1. PICK row \in KeyRow : keys' = [keys EXCEPT ![k] = row]
    <3>1. ASSUME Mint(k)
          PROVE  \E row \in KeyRow : keys' = [keys EXCEPT ![k] = row]
      BY <3>1 DEF Mint, KeyRow
    <3>2. ASSUME EditKey(k)
          PROVE  \E row \in KeyRow : keys' = [keys EXCEPT ![k] = row]
      <4>1. PICK t \in Terms, st \in {"valid", "revoked"} :
              keys' = [keys EXCEPT ![k] = [terms |-> t, state |-> st]]
        BY <1>0, <3>2 DEF EditKey
      <4>. QED  BY <4>1 DEF KeyRow
    <3>3. ASSUME Revoke(k) \/ Expire(k)
          PROVE  \E row \in KeyRow : keys' = [keys EXCEPT ![k] = row]
      <4>1. keys[k] \in KeyRow
        BY <1>0, <3>3 DEF Revoke, Expire, Verified, Minted
      <4>2. PICK st \in {"expired", "revoked"} : keys' = [keys EXCEPT ![k] = [keys[k] EXCEPT !.state = st]]
        BY <3>3 DEF Revoke, Expire
      <4>3. [keys[k] EXCEPT !.state = st] \in KeyRow
        BY <4>1 DEF KeyRow
      <4>. QED  BY <4>2, <4>3
    <3>. QED  BY <1>3, <3>1, <3>2, <3>3
  <2>2. keys' \in [Keys -> KeyRow \union {NoKey}]
    BY <1>0, <2>1
  <2>3. UNCHANGED <<used, chats>>
    BY <1>3 DEF Mint, EditKey, Revoke, Expire
  <2>. QED  BY <1>0, <1>1, <2>2, <2>3
<1>4. ASSUME NEW k \in Keys, SendMessage(k)
      PROVE  ApiInv' /\ WithinTerms
  <2>1. PICK c \in DOMAIN chats : /\ Verified(k) /\ CheckAdmission(k)
                                  /\ chats[c].key = k /\ RunTurn(k, c) /\ UNCHANGED keys
    BY <1>4 DEF SendMessage
  <2>. QED  BY <2>1, TurnStarts
<1>5. ASSUME NEW c \in DOMAIN chats, TurnOfCallEnds(c)
      PROVE  ApiInv' /\ WithinTerms
  <2>. DEFINE n == chats[c].turns - 1
              row == [chats[c] EXCEPT !.turns = n, !.idle = FALSE]
  <2>1. n \in 0..MaxTurns /\ n <= chats[c].turns
    <3>1. chats[c].turns \in 0..MaxTurns /\ chats[c].turns > 0
      BY <1>5, RowsAreRows DEF TurnOfCallEnds
    <3>. QED  BY <3>1, ApiAssumption
  <2>2. chats' = [chats EXCEPT ![c] = row] /\ UNCHANGED <<keys, used>>
    BY <1>5 DEF TurnOfCallEnds
  <2>. HIDE DEF n
  <2>3. /\ row \in ChatRow /\ row.key = chats[c].key /\ row.user = chats[c].user
        /\ row.turns <= chats[c].turns /\ row.live = chats[c].live
    BY <2>1, RowsAreRows DEF ChatRow
  <2>. HIDE DEF row
  <2>. QED  BY <1>2, <2>2, <2>3
<1>6. ASSUME NEW c \in DOMAIN chats, Archive(c) \/ Restore(c) \/ GoesIdle(c)
      PROVE  ApiInv' /\ WithinTerms
  <2>1. PICK l \in BOOLEAN, i \in BOOLEAN :
          /\ chats' = [chats EXCEPT ![c] = [chats[c] EXCEPT !.live = l, !.idle = i]]
          /\ (l => chats[c].live) \/ ~ChatUserLive(c)
          /\ UNCHANGED <<keys, used>>
    <3>1. chats[c] \in ChatRow
      BY RowsAreRows
    <3>2. /\ chats[c] = [chats[c] EXCEPT !.live = chats[c].live, !.idle = chats[c].idle]
          /\ chats[c].live \in BOOLEAN /\ chats[c].idle \in BOOLEAN
      BY <3>1 DEF ChatRow
    <3>3. CASE Archive(c)
      <4>1. chats' = [chats EXCEPT ![c] = [chats[c] EXCEPT !.live = FALSE, !.idle = chats[c].idle]]
        BY <3>1, <3>3 DEF Archive, ChatRow
      <4>. QED  BY <3>2, <3>3, <4>1 DEF Archive
    <3>4. CASE Restore(c)
      <4>1. chats' = [chats EXCEPT ![c] = [chats[c] EXCEPT !.live = TRUE, !.idle = chats[c].idle]]
        BY <3>1, <3>4 DEF Restore, ChatRow
      <4>. QED  BY <3>2, <3>4, <4>1 DEF Restore
    <3>5. CASE GoesIdle(c)
      <4>1. chats' = [chats EXCEPT ![c] = [chats[c] EXCEPT !.live = chats[c].live, !.idle = TRUE]]
        BY <3>1, <3>5 DEF GoesIdle, ChatRow
      <4>. QED  BY <3>2, <3>5, <4>1 DEF GoesIdle
    <3>. QED  BY <1>6, <3>3, <3>4, <3>5
  <2>. DEFINE row == [chats[c] EXCEPT !.live = l, !.idle = i]
  <2>2. /\ row \in ChatRow /\ row.key = chats[c].key /\ row.user = chats[c].user
        /\ row.turns <= chats[c].turns /\ row.live = l
    <3>1. chats[c] \in ChatRow /\ chats[c].turns \in Nat
      BY <1>0, RowsAreRows
    <3>2. row \in ChatRow
      BY <3>1 DEF ChatRow
    <3>3. row.key = chats[c].key /\ row.user = chats[c].user /\ row.turns = chats[c].turns /\ row.live = l
      BY <3>1 DEF ChatRow
    <3>. QED  BY <3>1, <3>2, <3>3
  <2>. HIDE DEF row
  <2>. QED  BY <1>2, <2>1, <2>2 DEF row
<1>7. ASSUME SweepIdleConversations
      PROVE  ApiInv' /\ WithinTerms
  <2>1. /\ DOMAIN chats' = DOMAIN chats
        /\ \A c \in DOMAIN chats :
             /\ chats'[c] \in ChatRow /\ chats'[c].key = chats[c].key /\ chats'[c].user = chats[c].user
             /\ chats'[c].turns <= chats[c].turns /\ (chats'[c].live => chats[c].live)
    <3>1. DOMAIN chats' = DOMAIN chats
      BY <1>7 DEF SweepIdleConversations
    <3>2. ASSUME NEW c \in DOMAIN chats
          PROVE  /\ chats'[c] \in ChatRow /\ chats'[c].key = chats[c].key /\ chats'[c].user = chats[c].user
                 /\ chats'[c].turns <= chats[c].turns /\ (chats'[c].live => chats[c].live)
      <4>1. chats[c] \in ChatRow
        BY RowsAreRows
      <4>2. chats'[c] = [chats[c] EXCEPT !.live = FALSE] \/ chats'[c] = chats[c]
        BY <1>7 DEF SweepIdleConversations
      <4>3. CASE chats'[c] = chats[c]
        BY <1>0, <4>1, <4>3
      <4>4. CASE chats'[c] = [chats[c] EXCEPT !.live = FALSE]
        <5>1. [chats[c] EXCEPT !.live = FALSE] \in ChatRow
          BY <4>1 DEF ChatRow
        <5>2. /\ chats'[c].key = chats[c].key /\ chats'[c].user = chats[c].user
              /\ chats'[c].turns = chats[c].turns /\ chats'[c].live = FALSE
          BY <4>1, <4>4 DEF ChatRow
        <5>. QED  BY <1>0, <4>4, <5>1, <5>2
      <4>. QED  BY <4>2, <4>3, <4>4
    <3>. QED  BY <3>1, <3>2
  <2>2. chats' \in [1..Len(chats) -> ChatRow]
    BY <1>0, <1>7, <2>1 DEF SweepIdleConversations
  <2>3. chats' \in Seq(ChatRow)
    BY <1>0, <2>2, SeqDef
  <2>4. keys' = keys /\ used' = used
    BY <1>7 DEF SweepIdleConversations
  <2>5. SameCallers
    BY <2>1 DEF SameCallers
  <2>. QED  BY <1>0, <2>1, <2>3, <2>4, <2>5, RowsChange
<1>8. ASSUME Midnight
      PROVE  ApiInv' /\ WithinTerms
  <2>1. keys' = keys /\ chats' = chats /\ used' \in [Keys -> Nat]
    BY <1>8 DEF Midnight
  <2>. QED  BY <1>0, <1>1, <2>1
<1>9. ASSUME NEW a \in Agents, OperatorCreates(a)
      PROVE  ApiInv' /\ WithinTerms
  <2>1. CreateChat(a, NoKey, NoUser, NoService, 0) /\ keys' = keys /\ used' = used
    BY <1>9 DEF OperatorCreates
  <2>2. PICK k \in Keys \union {NoKey}, u \in Users \union {NoUser},
             s \in Services \union {NoService}, n \in 0..1 :
          k = NoKey /\ u = NoUser /\ s = NoService /\ n = 0
    <3>1. 0 \in 0..1
      OBVIOUS
    <3>. QED  BY <3>1
  <2>3. CreateChat(a, k, u, s, n) /\ UNCHANGED keys /\ used' \in [Keys -> Nat]
    BY <1>0, <2>1, <2>2
  <2>4. n # 1 /\ u = NoUser /\ k = NoKey
    BY <2>2
  <2>. QED  BY <2>3, <2>4, ChatOpens
<1>. QED
  BY <1>3, <1>4, <1>5, <1>6, <1>7, <1>8, <1>9, ConverseStep DEF ApiNext

LEMMA ApiInvariant == ApiSpec => []ApiInv
<1>1. ApiInv /\ [ApiNext]_apiVars => ApiInv'
  <2>1. ApiInv /\ UNCHANGED apiVars => ApiInv'
    BY DEF ApiInv, ApiTyped, OneConversationPerUser, apiVars
  <2>. QED  BY <2>1, ApiStep
<1>. QED  BY <1>1, ApiBegins, PTL DEF ApiSpec

(* A user of a caller has one live conversation, whatever the callers       *)
(* retry, the sweep archives and the operator restores (converse of         *)
(* conversations.ts and the unique index), for any keys, users, services    *)
(* and agents.                                                              *)
THEOREM CallersHaveOneConversation == ApiSpec => []OneConversationPerUser
BY ApiInvariant, PTL DEF ApiInv

(* Turns begin only within the terms of their key, and conversations open   *)
(* only with agents that have room: checkAdmission, dispatchConversation    *)
(* and the rows written without an await in between.                        *)
THEOREM TermsBindTheCalls == ApiSpec => TermsAreKept
<1>1. ApiInv /\ [ApiNext]_apiVars => [WithinTerms]_apiVars
  BY ApiStep
<1>2. ApiSpec => [][WithinTerms]_apiVars
  BY <1>1, ApiInvariant, PTL DEF ApiSpec
<1>. QED  BY <1>2 DEF WithinTerms, TermsAreKept

-----------------------------------------------------------------------------
(* The brain.                                                               *)
Busy == {c \in Calls : brain[c] # NoCall}

(* What is spent and what the calls under way may still cost stay within    *)
(* what all calls together may pass the budget by.                          *)
WithinBudget ==
  /\ spent \in Nat
  /\ spent + Cardinality(Busy) * Cost < Cap + Cardinality(Calls) * Cost

BrainInv ==
  /\ brain \in [Calls -> {brain[c] : c \in Calls}]
  /\ \A c, d \in InChat : c = d
  /\ WithinBudget

LEMMA Products ==
  ASSUME NEW m \in Nat, NEW n \in Nat, NEW c \in Nat, m <= n
  PROVE  m * c \in Nat /\ n * c \in Nat /\ m * c <= n * c
OBVIOUS

LEMMA ProductOfOneMore ==
  ASSUME NEW m \in Nat, NEW c \in Nat
  PROVE  (m + 1) * c = m * c + c /\ m * c \in Nat
OBVIOUS

LEMMA BusyIsFinite ==
  ASSUME NEW B \in SUBSET Calls
  PROVE  /\ IsFiniteSet(B) /\ Cardinality(B) \in Nat /\ Cardinality(Calls) \in Nat
         /\ Cardinality(B) <= Cardinality(Calls)
         /\ Cardinality(B) * Cost \in Nat /\ Cardinality(Calls) * Cost \in Nat
         /\ Cardinality(B) * Cost <= Cardinality(Calls) * Cost
<1>1. /\ IsFiniteSet(B) /\ Cardinality(B) \in Nat /\ Cardinality(Calls) \in Nat
      /\ Cardinality(B) <= Cardinality(Calls)
  BY BudgetAssumption, FS_Subset, FS_CardinalityType
<1>. QED  BY <1>1, BudgetAssumption, Products

LEMMA BrainBegins == DelegationInit => BrainInv
<1>. SUFFICES ASSUME DelegationInit PROVE BrainInv
  OBVIOUS
<1>1. brain \in [Calls -> {brain[c] : c \in Calls}] /\ Busy = {} /\ InChat = {} /\ spent = 0
  BY DEF DelegationInit, Busy, InChat
<1>2. Cardinality(Busy) = 0 /\ Cardinality(Calls) * Cost \in Nat
  BY <1>1, BusyIsFinite, FS_EmptySet
<1>3. WithinBudget
  BY <1>1, <1>2, BudgetAssumption DEF WithinBudget
<1>. QED  BY <1>1, <1>3 DEF BrainInv

(* A call begins while something is left of the budget.                     *)
LEMMA CallBegins ==
  ASSUME spent \in Nat, ~BudgetUsedUp, UNCHANGED spent
  PROVE  WithinBudget'
<1>1. Busy' \in SUBSET Calls
  BY DEF Busy
<1>2. /\ Cardinality(Busy') * Cost \in Nat /\ Cardinality(Calls) * Cost \in Nat
      /\ Cardinality(Busy') * Cost <= Cardinality(Calls) * Cost
  BY <1>1, BusyIsFinite
<1>3. spent < Cap
  BY BudgetAssumption DEF BudgetUsedUp
<1>. QED  BY <1>2, <1>3, BudgetAssumption DEF WithinBudget

LEMMA BrainStep ==
  ASSUME BrainInv, BrainNext
  PROVE  BrainInv'
<1>. USE DEF BrainInv
<1>0. spent \in Nat /\ Busy \in SUBSET Calls
  BY DEF WithinBudget, Busy
<1>1. ASSUME UNCHANGED <<brain, spent>> PROVE BrainInv'
  BY <1>1 DEF WithinBudget, Busy, InChat
<1>2. ASSUME NEW c \in Calls, Prompt(c) PROVE BrainInv'
  <2>1. InChat = {}
    <3>1. InChat \in SUBSET Calls
      BY DEF InChat
    <3>2. Cardinality(InChat) = 0 /\ IsFiniteSet(InChat)
      <4>1. Cardinality(InChat) \in Nat /\ IsFiniteSet(InChat)
        BY <3>1, BusyIsFinite
      <4>. QED  BY <1>2, <4>1 DEF Prompt, LiveRuns
    <3>. QED  BY <3>2, FS_EmptySet
  <2>2. \A d \in Calls : d # c => brain'[d] = brain[d]
    BY <1>2 DEF Prompt
  <2>3. \A d \in InChat' : d = c
    BY <2>1, <2>2 DEF InChat
  <2>4. WithinBudget'
    BY <1>0, <1>2, CallBegins DEF Prompt
  <2>5. brain' \in [Calls -> {brain'[d] : d \in Calls}]
    BY <1>2 DEF Prompt
  <2>. QED  BY <2>3, <2>4, <2>5
<1>3. ASSUME NEW c \in Calls, DispatchTask(c) PROVE BrainInv'
  <2>1. \A d \in Calls : IF d = c THEN brain'[d].chat = FALSE ELSE brain'[d] = brain[d]
    BY <1>3 DEF DispatchTask
  <2>2. \A d \in InChat' : d \in InChat
    BY <2>1 DEF InChat
  <2>3. WithinBudget'
    BY <1>0, <1>3, CallBegins DEF DispatchTask
  <2>4. brain' \in [Calls -> {brain'[d] : d \in Calls}]
    BY <1>3 DEF DispatchTask
  <2>. QED  BY <2>2, <2>3, <2>4
<1>4. ASSUME NEW c \in Calls, BrainSession(c) PROVE BrainInv'
  <2>1. brain' = [brain EXCEPT ![c].own = c] /\ spent' = spent /\ brain[c] # NoCall
    BY <1>4 DEF BrainSession
  <2>2. InChat' \subseteq InChat
    BY <2>1 DEF InChat
  <2>3. Busy' \subseteq Busy
    BY <2>1 DEF Busy
  <2>4. /\ Cardinality(Busy') \in Nat /\ Cardinality(Busy) \in Nat
        /\ Cardinality(Busy') <= Cardinality(Busy)
    BY <1>0, <2>3, BusyIsFinite, FS_Subset
  <2>5. /\ Cardinality(Busy') * Cost \in Nat /\ Cardinality(Busy) * Cost \in Nat
        /\ Cardinality(Busy') * Cost <= Cardinality(Busy) * Cost
    BY <2>4, BudgetAssumption, Products
  <2>6. WithinBudget'
    BY <2>1, <2>5, BusyIsFinite, BudgetAssumption DEF WithinBudget
  <2>7. brain' \in [Calls -> {brain'[d] : d \in Calls}]
    BY <2>1
  <2>. QED  BY <2>2, <2>6, <2>7
<1>5. ASSUME NEW c \in Calls, BrainEnds(c) PROVE BrainInv'
  <2>1. PICK cost \in {0, Cost} : spent' = spent + cost
    BY <1>5 DEF BrainEnds
  <2>2. brain' = [brain EXCEPT ![c] = NoCall] /\ brain[c] # NoCall
    BY <1>5 DEF BrainEnds
  <2>3. InChat' \subseteq InChat
    BY <2>2 DEF InChat
  <2>4. Busy' = Busy \ {c} /\ c \in Busy
    BY <2>2 DEF Busy
  <2>5. Cardinality(Busy') = Cardinality(Busy) - 1 /\ Cardinality(Busy') \in Nat /\ Cardinality(Busy) \in Nat
    BY <1>0, <2>4, BusyIsFinite, FS_RemoveElement
  <2>6. /\ Cardinality(Busy) * Cost = Cardinality(Busy') * Cost + Cost
        /\ Cardinality(Busy') * Cost \in Nat
    <3>1. PICK m \in Nat : m = Cardinality(Busy')
      BY <2>5
    <3>2. (m + 1) * Cost = m * Cost + Cost /\ m * Cost \in Nat
      BY BudgetAssumption, ProductOfOneMore
    <3>3. Cardinality(Busy) = m + 1
      BY <2>5, <3>1
    <3>. QED  BY <3>1, <3>2, <3>3
  <2>7. WithinBudget'
    BY <1>0, <2>1, <2>6, BusyIsFinite, BudgetAssumption DEF WithinBudget
  <2>8. brain' \in [Calls -> {brain'[d] : d \in Calls}]
    BY <2>2
  <2>. QED  BY <2>3, <2>7, <2>8
<1>6. ASSUME NewDay PROVE BrainInv'
  <2>1. spent' = 0 /\ brain' = brain
    BY <1>6 DEF NewDay
  <2>2. Busy' = Busy /\ InChat' = InChat
    BY <2>1 DEF Busy, InChat
  <2>3. WithinBudget'
    BY <1>0, <2>1, <2>2, BusyIsFinite, BudgetAssumption DEF WithinBudget
  <2>. QED  BY <2>1, <2>2, <2>3
<1>7. ASSUME NEW c \in Calls, Refused(c) PROVE BrainInv'
  BY <1>1, <1>7 DEF Refused, TellBudget
<1>8. ASSUME PersonSends \/ PersonSession \/ PersonEnds PROVE BrainInv'
  BY <1>1, <1>8 DEF PersonSends, PersonSession, PersonEnds
<1>. QED
  BY <1>2, <1>3, <1>4, <1>5, <1>6, <1>7, <1>8 DEF BrainNext

(* The brain has one turn at a time in a conversation (prompt of            *)
(* internal.ts counts the rows that are not final before its first await),  *)
(* and passes its budget by no more than the calls that were let in below   *)
(* it, for any calls, cap and cost.                                         *)
THEOREM TheBrainIsBounded == BrainSpec => []BrainKeepsItsBounds
<1>1. BrainInv => BrainKeepsItsBounds
  <2>. SUFFICES ASSUME BrainInv PROVE BrainKeepsItsBounds
    OBVIOUS
  <2>1. InChat \in SUBSET Calls /\ Busy \in SUBSET Calls
    BY DEF InChat, Busy
  <2>2. Cardinality(InChat) <= 1
    <3>1. CASE InChat = {}
      BY <3>1, FS_EmptySet
    <3>2. CASE InChat # {}
      <4>1. PICK c : InChat = {c}
        BY <3>2 DEF BrainInv
      <4>. QED  BY <4>1, FS_Singleton
    <3>. QED  BY <3>1, <3>2
  <2>3. spent < Cap + Cardinality(Calls) * Cost
    BY <2>1, BusyIsFinite, BudgetAssumption DEF BrainInv, WithinBudget
  <2>. QED  BY <2>2, <2>3 DEF BrainKeepsItsBounds
<1>2. BrainInv /\ [BrainNext]_delegationVars => BrainInv'
  <2>1. BrainInv /\ UNCHANGED delegationVars => BrainInv'
    BY DEF BrainInv, WithinBudget, Busy, InChat, delegationVars
  <2>. QED  BY <2>1, BrainStep
<1>. QED  BY <1>1, <1>2, BrainBegins, PTL DEF BrainSpec

-----------------------------------------------------------------------------
(* Nodes that come and go.                                                  *)
Again(p) == \E q \in Posts \ {p} : posts[q] # NoPost /\ posts[q].node = posts[p].node

FilesTyped ==
  /\ file \in File /\ config \in File /\ env \in SUBSET Nodes /\ proc \in SUBSET Nodes
  /\ posts \in [Posts -> Post \union {NoPost}]
  /\ supervisors \in [Nodes -> Posts \union {Boot, NoSupervisor}]

(* Every node in memory has a supervisor.                                   *)
Supervised == \A n \in EndpointsOf(config) : supervisors[n] # NoSupervisor

(* A supervisor is the boot's or one a creation of its node made.           *)
Owned ==
  \A n \in Nodes, p \in Posts :
     <<n, p>> \in running \/ supervisors[n] = p => posts[p] # NoPost /\ posts[p].node = n

(* Only what was started runs: the node of a process waits for its          *)
(* dependencies.                                                            *)
HeldBack ==
  \A p \in Posts : posts[p] # NoPost =>
     /\ posts[p].runner # "process" => posts[p].started
     /\ ~posts[p].started /\ ~Again(p) => <<posts[p].node, p>> \notin running

(* What was taken back is gone, unless its name was given again.            *)
Gone ==
  \A p \in Posts : posts[p] # NoPost /\ posts[p].ended = "rolledBack" /\ ~Again(p) =>
     /\ <<posts[p].node, p>> \notin running
     /\ posts[p].node \notin EndpointsOf(config)

NodesInv == FilesTyped /\ Supervised /\ Owned /\ HeldBack /\ Gone

LEMMA NodesBegin == ProvisionInit => NodesInv
<1>. SUFFICES ASSUME ProvisionInit PROVE NodesInv
  OBVIOUS
<1>1. FilesTyped
  <2>1. EndpointsOf(FirstFile) \in SUBSET Nodes
    BY DEF EndpointsOf
  <2>. HIDE DEF EndpointsOf
  <2>2. posts \in [Posts -> Post \union {NoPost}]
    BY DEF ProvisionInit
  <2>3. supervisors \in [Nodes -> Posts \union {Boot, NoSupervisor}]
    BY DEF ProvisionInit
  <2>. QED  BY <2>1, <2>2, <2>3, ProvisionAssumption DEF ProvisionInit, FilesTyped
<1>2. Supervised /\ Owned
  BY ProvisionAssumption DEF ProvisionInit, Supervised, Owned, EndpointsOf
<1>3. HeldBack /\ Gone
  BY DEF ProvisionInit, HeldBack, Gone
<1>. QED  BY <1>1, <1>2, <1>3 DEF NodesInv

(* A creation is remembered with its node; what was held back or taken back *)
(* does not come into memory or run by itself.                              *)
LEMMA NothingIsAdded ==
  ASSUME NodesInv, FilesTyped', Supervised',
         \A p \in Posts : posts[p] = NoPost <=> posts'[p] = NoPost,
         \A p \in Posts : posts[p] # NoPost =>
            /\ posts'[p].node = posts[p].node /\ posts'[p].runner = posts[p].runner
            /\ posts'[p].started = posts[p].started
            /\ posts'[p].ended = "rolledBack" =>
                  \/ posts[p].ended = "rolledBack"
                  \/ <<posts[p].node, p>> \notin running' /\ posts[p].node \notin EndpointsOf(config'),
         \A n \in Nodes, p \in Posts :
            /\ <<n, p>> \in running' => <<n, p>> \in running
            /\ supervisors'[n] = p => supervisors[n] = p,
         EndpointsOf(config') \subseteq EndpointsOf(config)
  PROVE  NodesInv'
<1>. USE DEF NodesInv
<1>1. ASSUME NEW p \in Posts, posts[p] # NoPost
      PROVE  /\ posts[p].node \in Nodes /\ posts'[p] # NoPost
             /\ Again(p)' <=> Again(p)
  BY <1>1 DEF FilesTyped, Post, Again
<1>2. Owned'
  BY DEF Owned
<1>3. HeldBack'
  BY <1>1 DEF HeldBack
<1>4. Gone'
  BY <1>1 DEF Gone
<1>. QED  BY <1>2, <1>3, <1>4

(* The files keep their form.                                               *)
LEMMA FilesAreFiles ==
  ASSUME NEW f \in File
  PROVE  /\ f.endpoints \in [Nodes -> EndpointRow \union {NoEndpoint}]
         /\ f.agents \in [Nodes -> AgentRow \union {NoAgent}]
         /\ f.services \in [ServiceIds -> Declaration \union {NoDeclaration}]
BY DEF File

LEMMA NodeIntoFile ==
  ASSUME NEW f \in File, NEW n \in Nodes, NEW a \in Nodes,
         NEW runner \in {"docker", "agent", "process"}, NEW place \in Hosts \union {Here}
  PROVE  /\ WithNode(f, n, a, runner, place) \in File
         /\ EndpointsOf(WithNode(f, n, a, runner, place)) \subseteq EndpointsOf(f) \union {n}
<1>. DEFINE e == Endpoint(runner, place)
            g == NewAgent(n)
<1>1. e \in EndpointRow /\ g \in AgentRow
  BY DEF Endpoint, NewAgent, EndpointRow, AgentRow
<1>2. WithNode(f, n, a, runner, place) = [f EXCEPT !.endpoints[n] = e, !.agents[a] = g]
  BY DEF WithNode
<1>. HIDE DEF e, g
<1>. DEFINE w == [f EXCEPT !.endpoints[n] = e, !.agents[a] = g]
<1>3. w \in File
  BY <1>1 DEF File
<1>4. w.endpoints = [f.endpoints EXCEPT ![n] = e]
  BY DEF File
<1>. HIDE DEF w
<1>5. EndpointsOf(w) \subseteq EndpointsOf(f) \union {n}
  BY <1>4, FilesAreFiles DEF EndpointsOf
<1>. QED  BY <1>2, <1>3, <1>5 DEF w

LEMMA NodeOutOfFile ==
  ASSUME NEW f \in File, NEW n \in Nodes, NEW agents \in [Nodes -> AgentRow \union {NoAgent}]
  PROVE  LET g == [f EXCEPT !.endpoints[n] = NoEndpoint, !.agents = agents] IN
         g \in File /\ EndpointsOf(g) = EndpointsOf(f) \ {n}
<1>. DEFINE g == [f EXCEPT !.endpoints[n] = NoEndpoint, !.agents = agents]
<1>1. g \in File
  BY DEF File
<1>2. g.endpoints = [f.endpoints EXCEPT ![n] = NoEndpoint]
  BY DEF File
<1>. HIDE DEF g
<1>3. EndpointsOf(g) = EndpointsOf(f) \ {n}
  BY <1>2, FilesAreFiles DEF EndpointsOf
<1>. QED  BY <1>1, <1>3 DEF g

LEMMA ServiceIntoFile ==
  ASSUME NEW f \in File, NEW s \in ServiceIds, NEW draft \in DraftRow
  PROVE  MergeInto(f, s, draft) \in File
<1>. DEFINE e == EntryOf(f, s, draft)
<1>1. e \in Declaration
  <2>1. /\ draft.workers \in SUBSET Nodes /\ draft.pin \in BOOLEAN /\ draft.machines \in SUBSET Hosts
        /\ draft.perMachine \in Nat /\ draft.thresholds \in BOOLEAN
    BY DEF DraftRow
  <2>2. Cardinality(draft.workers) \in Nat
    BY <2>1, ProvisionAssumption, FS_Subset, FS_CardinalityType
  <2>3. Watermarks(f, s, draft) \in BOOLEAN
    <3>1. f.services[s] # NoDeclaration => f.services[s].thresholds \in BOOLEAN
      BY DEF File, Declaration
    <3>. QED  BY <2>1, <3>1 DEF Watermarks
  <2>4. (IF draft.pin THEN draft.machines ELSE {}) \in SUBSET Hosts
    BY <2>1
  <2>. QED  BY <2>1, <2>2, <2>3, <2>4 DEF EntryOf, Declaration
<1>. HIDE DEF e
<1>2. [f EXCEPT !.services[s] = e] \in File
  BY <1>1 DEF File
<1>. QED  BY <1>2 DEF MergeInto, e

LEMMA CreateNodeStep ==
  ASSUME NodesInv, NEW p \in Posts, CreateNode(p)
  PROVE  NodesInv'
<1>. USE DEF NodesInv
<1>0. PICK n \in Nodes, a \in Nodes, runner \in {"docker", "agent", "process"} :
        \E place \in IF runner = "agent" THEN Hosts ELSE {Here} :
           /\ posts[p] = NoPost
           /\ n \notin EndpointsOf(config) /\ a \notin AgentsOf(config)
           /\ posts' = [posts EXCEPT ![p] =
                 [node |-> n, agent |-> a, runner |-> runner, ended |-> "no", installing |-> runner = "process",
                  started |-> runner # "process", newRow |-> a \notin agentRows,
                  fileBefore |-> file, envBefore |-> env]]
           /\ env' = env \union {n}
           /\ file' = WithNode(file, n, a, runner, place)
           /\ config' = WithNode(config, n, a, runner, place)
           /\ supervisors' = [supervisors EXCEPT ![n] = p]
           /\ agentRows' = agentRows \cup AgentsOf(config')
           /\ UNCHANGED <<proc, running, edits>>
  BY DEF CreateNode
<1>1. PICK place \in Hosts \union {Here} :
        /\ posts[p] = NoPost
        /\ n \notin EndpointsOf(config)
        /\ posts' = [posts EXCEPT ![p] =
              [node |-> n, agent |-> a, runner |-> runner, ended |-> "no", installing |-> runner = "process",
               started |-> runner # "process", newRow |-> a \notin agentRows,
               fileBefore |-> file, envBefore |-> env]]
        /\ env' = env \union {n}
        /\ file' = WithNode(file, n, a, runner, place)
        /\ config' = WithNode(config, n, a, runner, place)
        /\ supervisors' = [supervisors EXCEPT ![n] = p]
        /\ UNCHANGED <<proc, running>>
  BY <1>0
<1>2. file \in File /\ config \in File /\ env \in SUBSET Nodes /\ proc \in SUBSET Nodes
      /\ posts \in [Posts -> Post \union {NoPost}]
      /\ supervisors \in [Nodes -> Posts \union {Boot, NoSupervisor}]
  BY DEF FilesTyped
<1>. DEFINE post == [node |-> n, agent |-> a, runner |-> runner, ended |-> "no",
                     installing |-> runner = "process",
                     started |-> runner # "process", newRow |-> a \notin agentRows,
                     fileBefore |-> file, envBefore |-> env]
<1>3. /\ post \in Post /\ post.node = n /\ post.runner = runner /\ post.ended = "no"
      /\ post.started <=> runner # "process"
  BY <1>2 DEF Post
<1>4. posts' = [posts EXCEPT ![p] = post]
  BY <1>1
<1>. HIDE DEF post
<1>5. post # NoPost
  BY <1>3, ProvisionAssumption
<1>7. file' \in File /\ config' \in File /\ EndpointsOf(config') \subseteq EndpointsOf(config) \union {n}
  BY <1>1, <1>2, NodeIntoFile
<1>8. posts'[p] = post /\ \A q \in Posts : q # p => posts'[q] = posts[q]
  BY <1>2, <1>4
<1>9. FilesTyped'
  <2>1. posts' \in [Posts -> Post \union {NoPost}]
    BY <1>2, <1>3, <1>4
  <2>2. supervisors' \in [Nodes -> Posts \union {Boot, NoSupervisor}]
    BY <1>1, <1>2
  <2>. QED  BY <1>1, <1>2, <1>7, <2>1, <2>2 DEF FilesTyped
<1>10. Supervised'
  <2>1. p # NoSupervisor
    BY ProvisionAssumption
  <2>2. \A m \in EndpointsOf(config) : supervisors'[m] # NoSupervisor
    BY <1>1, <1>2, <2>1 DEF Supervised, EndpointsOf
  <2>3. supervisors'[n] # NoSupervisor
    BY <1>1, <1>2, <2>1
  <2>. QED  BY <1>7, <2>2, <2>3 DEF Supervised
<1>11. Owned'
  <2>1. \A m \in Nodes, q \in Posts : supervisors'[m] = q => supervisors[m] = q \/ (m = n /\ q = p)
    BY <1>1, <1>2
  <2>2. \A q \in Posts : posts[q] # NoPost => q # p
    BY <1>1
  <2>. QED  BY <1>1, <1>3, <1>5, <1>8, <2>1, <2>2 DEF Owned
<1>12. ASSUME NEW q \in Posts, posts'[q] # NoPost, q # p
       PROVE  /\ posts[q] # NoPost /\ posts'[q] = posts[q] /\ posts[q].node \in Nodes
              /\ ~Again(q)' => ~Again(q) /\ posts[q].node # n
  <2>1. posts[q] # NoPost /\ posts'[q] = posts[q] /\ posts[q].node \in Nodes
    BY <1>2, <1>8, <1>12 DEF Post
  <2>2. Again(q) => Again(q)'
    BY <1>1, <1>8, <2>1 DEF Again
  <2>3. posts[q].node = n => Again(q)'
    BY <1>3, <1>5, <1>8, <1>12, <2>1 DEF Again
  <2>. QED  BY <2>1, <2>2, <2>3
<1>13. HeldBack'
  <2>1. <<n, p>> \notin running
    BY <1>1 DEF Owned
  <2>2. ASSUME NEW q \in Posts, posts'[q] # NoPost
        PROVE  /\ posts'[q].runner # "process" => posts'[q].started
               /\ ~posts'[q].started /\ ~Again(q)' => <<posts'[q].node, q>> \notin running'
    <3>1. CASE q = p
      BY <1>1, <1>3, <1>8, <2>1, <3>1
    <3>2. CASE q # p
      BY <1>1, <1>12, <2>2, <3>2 DEF HeldBack
    <3>. QED  BY <3>1, <3>2
  <2>. QED  BY <2>2 DEF HeldBack
<1>14. Gone'
  <2>1. ASSUME NEW q \in Posts, posts'[q] # NoPost, posts'[q].ended = "rolledBack", ~Again(q)'
        PROVE  <<posts'[q].node, q>> \notin running' /\ posts'[q].node \notin EndpointsOf(config')
    <3>1. q # p
      BY <1>3, <1>8, <2>1
    <3>. QED  BY <1>1, <1>7, <1>12, <2>1, <3>1 DEF Gone
  <2>. QED  BY <2>1 DEF Gone
<1>. QED  BY <1>9, <1>10, <1>11, <1>13, <1>14

(* A creation that goes on: it is started, or its supervisor is.            *)
LEMMA ConvergeStep ==
  ASSUME NodesInv, NEW p \in Posts, posts[p] # NoPost, NEW post \in Post,
         posts' = [posts EXCEPT ![p] = post],
         post.node = posts[p].node, post.runner = posts[p].runner, post.started \/ ~posts[p].started,
         post.ended = posts[p].ended \/ post.ended = "ok",
         \/ UNCHANGED running
         \/ Converge(posts[p].node) /\ post.started /\ post.ended # "rolledBack",
         UNCHANGED <<file, env, proc, config, supervisors>>
  PROVE  NodesInv'
<1>. USE DEF NodesInv
<1>. DEFINE n == posts[p].node
<1>1. posts \in [Posts -> Post \union {NoPost}] /\ post # NoPost
  BY ProvisionAssumption DEF FilesTyped
<1>2. n \in Nodes
  BY <1>1 DEF Post
<1>. HIDE DEF n
<1>3. posts'[p] = post /\ \A q \in Posts : q # p => posts'[q] = posts[q]
  BY <1>1
<1>4. FilesTyped' /\ Supervised'
  <2>1. posts' \in [Posts -> Post \union {NoPost}]
    BY <1>1
  <2>. QED  BY <2>1 DEF FilesTyped, Supervised
<1>5. ASSUME NEW q \in Posts
      PROVE  /\ posts'[q] = NoPost <=> posts[q] = NoPost
             /\ posts[q] # NoPost => /\ posts'[q].node = posts[q].node
                                     /\ posts'[q].runner = posts[q].runner
                                     /\ Again(q)' <=> Again(q)
  BY <1>1, <1>3 DEF Again
<1>6. ASSUME NEW m \in Nodes, NEW q \in Posts, <<m, q>> \in running', <<m, q>> \notin running
      PROVE  m = n /\ supervisors[n] = q /\ posts[q] # NoPost /\ posts[q].node = n
             /\ post.started /\ post.ended # "rolledBack" /\ (q # p => Again(q))
  <2>1. Converge(n) /\ post.started /\ post.ended # "rolledBack"
    BY <1>6 DEF n
  <2>2. m = n /\ supervisors[n] = q
    BY <1>6, <2>1 DEF Converge
  <2>3. posts[q] # NoPost /\ posts[q].node = n
    BY <1>2, <2>2 DEF Owned
  <2>. QED  BY <2>1, <2>2, <2>3 DEF Again, n
<1>7. Owned'
  BY <1>5, <1>6 DEF Owned
<1>8. HeldBack'
  <2>1. ASSUME NEW q \in Posts, posts'[q] # NoPost
        PROVE  /\ posts'[q].runner # "process" => posts'[q].started
               /\ ~posts'[q].started /\ ~Again(q)' => <<posts'[q].node, q>> \notin running'
    <3>1. posts[q] # NoPost /\ posts[q].node \in Nodes
      BY <1>1, <1>5, <2>1 DEF Post
    <3>2. CASE q = p
      BY <1>2, <1>3, <1>5, <1>6, <2>1, <3>1, <3>2 DEF HeldBack
    <3>3. CASE q # p
      BY <1>2, <1>3, <1>5, <1>6, <2>1, <3>1, <3>3 DEF HeldBack
    <3>. QED  BY <3>2, <3>3
  <2>. QED  BY <2>1 DEF HeldBack
<1>9. Gone'
  <2>1. ASSUME NEW q \in Posts, posts'[q] # NoPost, posts'[q].ended = "rolledBack", ~Again(q)'
        PROVE  <<posts'[q].node, q>> \notin running' /\ posts'[q].node \notin EndpointsOf(config')
    <3>1. posts[q] # NoPost /\ posts[q].node \in Nodes
      BY <1>1, <1>5, <2>1 DEF Post
    <3>2. posts[q].ended = "rolledBack"
      BY <1>3, <2>1
    <3>3. <<posts[q].node, q>> \notin running'
      BY <1>3, <1>5, <1>6, <2>1, <3>1, <3>2 DEF Gone
    <3>. QED  BY <1>5, <2>1, <3>1, <3>2, <3>3 DEF Gone
  <2>. QED  BY <2>1 DEF Gone
<1>. QED  BY <1>4, <1>7, <1>8, <1>9

LEMMA RollbackStep ==
  ASSUME NodesInv, NEW p \in Posts, Rollback(p)
  PROVE  NodesInv'
<1>. USE DEF NodesInv
<1>. DEFINE post == [posts[p] EXCEPT !.ended = "rolledBack", !.fileBefore = FirstFile, !.envBefore = {}]
            n == posts[p].node
            agents == [config.agents EXCEPT ![posts[p].agent] = NoAgent]
<1>1. /\ posts[p] # NoPost /\ posts[p] \in Post /\ n \in Nodes
      /\ posts[p].fileBefore \in File /\ posts[p].envBefore \in SUBSET Nodes
  BY DEF Rollback, FilesTyped, Post
<1>2. post \in Post /\ post.node = n /\ post.runner = posts[p].runner /\ post.started = posts[p].started
  BY <1>1, ProvisionAssumption DEF Post
<1>3. /\ posts' = [posts EXCEPT ![p] = post]
      /\ file' = posts[p].fileBefore /\ env' = posts[p].envBefore /\ UNCHANGED proc
      /\ running' = IF posts[p].started THEN running \ {<<n, p>>} ELSE running
      /\ supervisors' = IF posts[p].started THEN [supervisors EXCEPT ![n] = NoSupervisor] ELSE supervisors
      /\ config' = [config EXCEPT !.endpoints[n] = NoEndpoint, !.agents = agents]
  BY DEF Rollback
<1>4. agents \in [Nodes -> AgentRow \union {NoAgent}] /\ config \in File
  BY FilesAreFiles DEF FilesTyped
<1>. HIDE DEF post, n, agents
<1>5. config' \in File /\ EndpointsOf(config') = EndpointsOf(config) \ {n}
  BY <1>1, <1>3, <1>4, NodeOutOfFile
<1>6. post # NoPost
  BY <1>2, ProvisionAssumption
<1>7. posts \in [Posts -> Post \union {NoPost}] /\ supervisors \in [Nodes -> Posts \union {Boot, NoSupervisor}]
  BY DEF FilesTyped
<1>8. posts'[p] = post /\ \A q \in Posts : q # p => posts'[q] = posts[q]
  BY <1>3, <1>7
<1>9. FilesTyped'
  <2>1. posts' \in [Posts -> Post \union {NoPost}]
    BY <1>2, <1>3, <1>7
  <2>2. supervisors' \in [Nodes -> Posts \union {Boot, NoSupervisor}]
    BY <1>3, <1>7
  <2>. QED  BY <1>1, <1>3, <1>5, <2>1, <2>2 DEF FilesTyped
<1>10. Supervised'
  BY <1>3, <1>5, <1>7 DEF Supervised, EndpointsOf
<1>11. ASSUME NEW q \in Posts
       PROVE  /\ posts[q] = NoPost <=> posts'[q] = NoPost
              /\ posts[q] # NoPost =>
                   /\ posts'[q].node = posts[q].node /\ posts'[q].runner = posts[q].runner
                   /\ posts'[q].started = posts[q].started
                   /\ q # p => posts'[q] = posts[q]
  BY <1>1, <1>2, <1>6, <1>8 DEF n
<1>12. \A m \in Nodes, q \in Posts :
         /\ <<m, q>> \in running' => <<m, q>> \in running
         /\ supervisors'[m] = q => supervisors[m] = q
  BY <1>3, <1>7, ProvisionAssumption
<1>13. EndpointsOf(config') \subseteq EndpointsOf(config) /\ n \notin EndpointsOf(config')
  BY <1>5
<1>14. Owned'
  BY <1>11, <1>12 DEF Owned
<1>15. ASSUME NEW q \in Posts, posts[q] # NoPost
       PROVE  posts[q].node \in Nodes /\ (Again(q)' <=> Again(q))
  BY <1>7, <1>11, <1>15 DEF Post, Again
<1>16. HeldBack'
  BY <1>11, <1>12, <1>15 DEF HeldBack
<1>17. Gone'
  <2>1. ASSUME NEW q \in Posts, posts'[q] # NoPost, posts'[q].ended = "rolledBack", ~Again(q)'
        PROVE  <<posts'[q].node, q>> \notin running' /\ posts'[q].node \notin EndpointsOf(config')
    <3>1. CASE q = p
      <4>1. ~posts[p].started => <<n, p>> \notin running
        BY <1>1, <1>15, <2>1, <3>1 DEF HeldBack, n
      <4>2. <<n, p>> \notin running'
        BY <1>3, <4>1
      <4>. QED  BY <1>2, <1>8, <1>13, <3>1, <4>2
    <3>2. CASE q # p
      BY <1>11, <1>12, <1>13, <1>15, <2>1, <3>2 DEF Gone
    <3>. QED  BY <3>1, <3>2
  <2>. QED  BY <2>1 DEF Gone
<1>. QED  BY <1>9, <1>10, <1>14, <1>16, <1>17

LEMMA GoesOnStep ==
  ASSUME NodesInv, NEW p \in Posts, NodeCreated(p) \/ Installed(p)
  PROVE  NodesInv'
<1>. USE DEF NodesInv
<1>1. posts[p] # NoPost /\ posts[p] \in Post
  BY DEF NodeCreated, Installed, FilesTyped
<1>2. posts[p].runner # "process" => posts[p].started
  BY <1>1 DEF HeldBack
<1>3. CASE NodeCreated(p)
  <2>. DEFINE post == [posts[p] EXCEPT !.ended = "ok", !.fileBefore = FirstFile, !.envBefore = {}]
  <2>1. /\ post \in Post /\ post.node = posts[p].node /\ post.runner = posts[p].runner
        /\ post.started = posts[p].started /\ post.ended = "ok"
    BY <1>1, ProvisionAssumption DEF Post
  <2>2. posts' = [posts EXCEPT ![p] = post] /\ UNCHANGED <<file, env, proc, config, supervisors>>
    BY <1>3 DEF NodeCreated
  <2>3. UNCHANGED running \/ (Converge(posts[p].node) /\ posts[p].runner # "process")
    BY <1>3 DEF NodeCreated
  <2>4. posts[p].started \in BOOLEAN
    BY <1>1 DEF Post
  <2>. HIDE DEF post
  <2>5. post.started \/ ~posts[p].started
    BY <2>1, <2>4
  <2>6. \/ UNCHANGED running
        \/ Converge(posts[p].node) /\ post.started /\ post.ended # "rolledBack"
    BY <1>2, <2>1, <2>3
  <2>. QED  BY <1>1, <2>1, <2>2, <2>5, <2>6, ConvergeStep
<1>4. CASE Installed(p) /\ posts[p].ended = "rolledBack"
  <2>. DEFINE post == [posts[p] EXCEPT !.installing = FALSE]
  <2>1. /\ post \in Post /\ post.node = posts[p].node /\ post.runner = posts[p].runner
        /\ post.started = posts[p].started /\ post.ended = posts[p].ended
    BY <1>1 DEF Post
  <2>2. /\ posts' = [posts EXCEPT ![p] = post]
        /\ UNCHANGED <<file, env, proc, config, supervisors>> /\ UNCHANGED running
    BY <1>4 DEF Installed
  <2>3. posts[p].started \in BOOLEAN
    BY <1>1 DEF Post
  <2>. HIDE DEF post
  <2>4. post.started \/ ~posts[p].started
    BY <2>1, <2>3
  <2>. QED  BY <1>1, <2>1, <2>2, <2>4, ConvergeStep
<1>5. CASE Installed(p) /\ posts[p].ended # "rolledBack"
  <2>. DEFINE post == [posts[p] EXCEPT !.installing = FALSE, !.started = TRUE]
  <2>1. /\ post \in Post /\ post.node = posts[p].node /\ post.runner = posts[p].runner
        /\ post.started /\ post.ended = posts[p].ended
    BY <1>1 DEF Post
  <2>2. /\ posts' = [posts EXCEPT ![p] = post]
        /\ UNCHANGED <<file, env, proc, config, supervisors>> /\ Converge(posts[p].node)
    BY <1>5 DEF Installed
  <2>. HIDE DEF post
  <2>. QED  BY <1>1, <1>5, <2>1, <2>2, ConvergeStep
<1>. QED  BY <1>3, <1>4, <1>5

(* Nothing of a creation changes.                                           *)
LEMMA FilesChange ==
  ASSUME NodesInv, FilesTyped', Supervised', UNCHANGED posts, running' \subseteq running,
         \A n \in Nodes, p \in Posts : supervisors'[n] = p => supervisors[n] = p,
         EndpointsOf(config') \subseteq EndpointsOf(config)
  PROVE  NodesInv'
BY NothingIsAdded

LEMMA DeleteNodeStep ==
  ASSUME NodesInv, NEW n \in Nodes, DeleteNode(n)
  PROVE  NodesInv'
<1>. USE DEF NodesInv
<1>. DEFINE bound == {a \in AgentsOf(config) : config.agents[a].endpoint = n}
            rest(f) == [a \in Nodes |-> IF a \in bound THEN NoAgent ELSE f.agents[a]]
<1>1. /\ config' = [config EXCEPT !.endpoints[n] = NoEndpoint, !.agents = rest(config)]
      /\ file' = [file EXCEPT !.endpoints[n] = NoEndpoint, !.agents = rest(file)]
      /\ running' \subseteq running
      /\ supervisors' = [supervisors EXCEPT ![n] = NoSupervisor]
      /\ UNCHANGED <<env, proc, posts>>
  BY DEF DeleteNode
<1>2. /\ file \in File /\ config \in File
      /\ supervisors \in [Nodes -> Posts \union {Boot, NoSupervisor}]
  BY DEF FilesTyped
<1>3. rest(config) \in [Nodes -> AgentRow \union {NoAgent}] /\ rest(file) \in [Nodes -> AgentRow \union {NoAgent}]
  BY <1>2, FilesAreFiles
<1>. HIDE DEF rest, bound
<1>4. /\ config' \in File /\ EndpointsOf(config') = EndpointsOf(config) \ {n}
      /\ file' \in File
  BY <1>1, <1>2, <1>3, NodeOutOfFile
<1>5. FilesTyped'
  <2>1. supervisors' \in [Nodes -> Posts \union {Boot, NoSupervisor}]
    BY <1>1, <1>2
  <2>. QED  BY <1>1, <1>4, <2>1 DEF FilesTyped
<1>6. Supervised'
  BY <1>1, <1>2, <1>4 DEF Supervised, EndpointsOf
<1>7. \A m \in Nodes, p \in Posts : supervisors'[m] = p => supervisors[m] = p
  BY <1>1, <1>2, ProvisionAssumption
<1>. QED  BY <1>1, <1>4, <1>5, <1>6, <1>7, FilesChange

LEMMA ServiceStep ==
  ASSUME NodesInv, NEW s \in ServiceIds, ApplyService(s) \/ DeleteService(s)
  PROVE  NodesInv'
<1>. USE DEF NodesInv
<1>1. file \in File /\ config \in File
  BY DEF FilesTyped
<1>2. file' \in File
  <2>1. CASE ApplyService(s)
    <3>1. PICK draft \in DraftRow : file' = MergeInto(file, s, draft)
      BY <2>1, ProvisionAssumption DEF ApplyService
    <3>. QED  BY <1>1, <3>1, ServiceIntoFile
  <2>2. CASE DeleteService(s)
    <3>1. file' = [file EXCEPT !.services[s] = NoDeclaration]
      BY <2>2 DEF DeleteService
    <3>. QED  BY <1>1, <3>1 DEF File
  <2>. QED  BY <2>1, <2>2
<1>3. config' \in File /\ config'.endpoints = config.endpoints
  <2>1. CASE ApplyService(s)
    <3>. DEFINE agents == [a \in Nodes |-> IF a \in AgentsOf(config) /\ a \in AgentsOf(file')
                                           THEN [config.agents[a] EXCEPT !.public = file'.agents[a].public]
                                           ELSE config.agents[a]]
    <3>1. config' = [config EXCEPT !.services = file'.services, !.agents = agents]
      BY <2>1 DEF ApplyService, HotSwap
    <3>2. agents \in [Nodes -> AgentRow \union {NoAgent}]
      <4>1. ASSUME NEW a \in Nodes, a \in AgentsOf(config), a \in AgentsOf(file')
            PROVE  [config.agents[a] EXCEPT !.public = file'.agents[a].public] \in AgentRow
        <5>1. config.agents[a] \in AgentRow /\ file'.agents[a] \in AgentRow
          BY <1>1, <1>2, <4>1, FilesAreFiles DEF AgentsOf
        <5>. QED  BY <5>1 DEF AgentRow
      <4>2. config.agents \in [Nodes -> AgentRow \union {NoAgent}]
        BY <1>1, FilesAreFiles
      <4>. QED  BY <4>1, <4>2
    <3>3. file'.services \in [ServiceIds -> Declaration \union {NoDeclaration}]
      BY <1>2, FilesAreFiles
    <3>. HIDE DEF agents
    <3>. QED  BY <1>1, <3>1, <3>2, <3>3 DEF File
  <2>2. CASE DeleteService(s)
    <3>1. config' = [config EXCEPT !.services = file'.services]
      BY <2>2 DEF DeleteService
    <3>2. file'.services \in [ServiceIds -> Declaration \union {NoDeclaration}]
      BY <1>2, FilesAreFiles
    <3>. QED  BY <1>1, <3>1, <3>2 DEF File
  <2>. QED  BY <2>1, <2>2
<1>4. UNCHANGED <<env, proc, supervisors, running, posts>>
  BY DEF ApplyService, DeleteService
<1>5. EndpointsOf(config') = EndpointsOf(config)
  BY <1>3 DEF EndpointsOf
<1>6. FilesTyped' /\ Supervised'
  BY <1>2, <1>3, <1>4, <1>5 DEF FilesTyped, Supervised
<1>. QED  BY <1>4, <1>5, <1>6, FilesChange

LEMMA HandEditStep ==
  ASSUME NodesInv, HandEdit
  PROVE  NodesInv'
<1>. USE DEF NodesInv
<1>1. PICK a \in AgentsOf(file), public \in BOOLEAN, model \in {"none", "byModel", "byPair"} :
        file' = [file EXCEPT !.agents[a].public = public, !.agents[a].model = model]
  BY DEF HandEdit
<1>2. file.agents[a] \in AgentRow /\ file \in File /\ a \in Nodes
  BY FilesAreFiles DEF FilesTyped, AgentsOf
<1>. DEFINE row == [file.agents[a] EXCEPT !.public = public, !.model = model]
<1>3. row \in AgentRow
  BY <1>2 DEF AgentRow
<1>4. file' = [file EXCEPT !.agents[a] = row]
  BY <1>1, <1>2, FilesAreFiles
<1>. HIDE DEF row
<1>5. file' \in File
  BY <1>2, <1>3, <1>4 DEF File
<1>6. UNCHANGED <<env, proc, config, supervisors, running, posts>>
  BY DEF HandEdit
<1>7. FilesTyped' /\ Supervised'
  BY <1>5, <1>6 DEF FilesTyped, Supervised
<1>. QED  BY <1>6, <1>7, FilesChange

LEMMA RestartStep ==
  ASSUME NodesInv, Restart
  PROVE  NodesInv'
<1>. USE DEF NodesInv
<1>1. /\ config' = file /\ proc' = env /\ UNCHANGED <<file, env>>
      /\ supervisors' = [n \in Nodes |-> IF n \in EndpointsOf(file) THEN Boot ELSE NoSupervisor]
      /\ running' = {<<n, Boot>> : n \in EndpointsOf(file)}
  BY DEF Restart
<1>2. ASSUME NEW p \in Posts
      PROVE  IF posts[p] = NoPost THEN posts'[p] = NoPost
             ELSE /\ posts'[p] \in Post /\ posts'[p].node = posts[p].node
                  /\ posts'[p].runner = posts[p].runner /\ posts'[p].started = posts[p].started
                  /\ posts'[p].ended = "lost"
  <2>1. CASE posts[p] = NoPost
    BY <2>1 DEF Restart
  <2>2. CASE posts[p] # NoPost
    <3>1. posts'[p] = [posts[p] EXCEPT !.ended = "lost", !.installing = FALSE,
                                       !.fileBefore = FirstFile, !.envBefore = {}]
      BY <2>2 DEF Restart
    <3>2. posts[p] \in Post
      BY <2>2 DEF FilesTyped
    <3>. QED  BY <2>2, <3>1, <3>2, ProvisionAssumption DEF Post
  <2>. QED  BY <2>1, <2>2
<1>3. FilesTyped'
  <2>1. posts' \in [Posts -> Post \union {NoPost}]
    <3>1. posts' = [p \in Posts |-> posts'[p]]
      BY DEF Restart
    <3>2. \A p \in Posts : posts'[p] \in Post \union {NoPost}
      BY <1>2
    <3>. QED  BY <3>1, <3>2
  <2>2. supervisors' \in [Nodes -> Posts \union {Boot, NoSupervisor}]
    BY <1>1
  <2>. QED  BY <1>1, <2>1, <2>2 DEF FilesTyped
<1>4. Supervised'
  BY <1>1, ProvisionAssumption DEF Supervised, EndpointsOf
<1>5. Owned'
  BY <1>1, ProvisionAssumption DEF Owned
<1>6. \A n \in Nodes, p \in Posts : <<n, p>> \notin running'
  BY <1>1, ProvisionAssumption
<1>7. HeldBack'
  <2>1. ASSUME NEW p \in Posts, posts'[p] # NoPost
        PROVE  /\ posts'[p].runner # "process" => posts'[p].started
               /\ <<posts'[p].node, p>> \notin running'
    BY <1>2, <1>6, <2>1 DEF HeldBack, Post
  <2>. QED  BY <2>1 DEF HeldBack
<1>8. Gone'
  BY <1>2 DEF Gone
<1>. QED  BY <1>3, <1>4, <1>5, <1>7, <1>8

LEMMA NodesInvariant == ProvisionSpec => []NodesInv
<1>1. NodesInv /\ [ProvisionNext]_configVars => NodesInv'
  <2>. SUFFICES ASSUME NodesInv, [ProvisionNext]_configVars PROVE NodesInv'
    OBVIOUS
  <2>1. ASSUME UNCHANGED <<file, env, proc, config, supervisors, running, posts>> PROVE NodesInv'
    BY <2>1 DEF NodesInv, FilesTyped, Supervised, Owned, HeldBack, Gone, Again
  <2>2. CASE TickMirror \/ UNCHANGED configVars
    BY <2>1, <2>2 DEF TickMirror, configVars
  <2>3. CASE ProvisionNext
    BY <2>2, <2>3, CreateNodeStep, GoesOnStep, RollbackStep, DeleteNodeStep, ServiceStep,
       HandEditStep, RestartStep DEF ProvisionNext
  <2>. QED  BY <2>2, <2>3
<1>. QED  BY <1>1, NodesBegin, PTL DEF ProvisionSpec

(* Every node in memory has a supervisor, and a creation that was rolled    *)
(* back leaves none and nothing that runs (the steps of provision.ts, taken *)
(* back in reverse), for any creations, deletions, edits and restarts.      *)
THEOREM NodesStayWhole == ProvisionSpec => []NodesAreWhole
<1>1. NodesInv => NodesAreWhole
  <2>. SUFFICES ASSUME NodesInv, NEW p \in Posts, posts[p] # NoPost, posts[p].ended = "rolledBack", ~Again(p)
                PROVE  <<posts[p].node, p>> \notin running /\ posts[p].node \notin EndpointsOf(config)
    BY DEF NodesInv, Supervised, NodesAreWhole, Again
  <2>. QED  BY DEF NodesInv, Gone
<1>. QED  BY <1>1, NodesInvariant, PTL

(* A new service of agents the editor offers is a file the loader takes.    *)
LEMMA OfferLoads ==
  ASSUME NEW f \in File, NEW keyed, Loads(f, keyed),
         NEW workers \in SUBSET Offered(f), workers # {}, NEW s \in ServiceIds, s \notin ServicesOf(f),
         \A a \in workers, b \in AgentsOf(f) : MachineOf(f, b) = MachineOf(f, a) => ServiceOf(f, b) = {}
  PROVE  Preview(f, s, [workers |-> workers, pin |-> FALSE, machines |-> Hosts,
                        perMachine |-> 1, thresholds |-> FALSE], keyed)
<1>. DEFINE draft == [workers |-> workers, pin |-> FALSE, machines |-> Hosts,
                      perMachine |-> 1, thresholds |-> FALSE]
            g == MergeInto(f, s, draft)
            entry == EntryOf(f, s, draft)
<1>1. g = [f EXCEPT !.services[s] = entry]
  BY DEF MergeInto
<1>2. /\ entry.workers = workers /\ entry.count = Cardinality(workers) /\ entry.pin = FALSE
      /\ entry.machines = {}
  BY DEF EntryOf
<1>. HIDE DEF entry, g
<1>3. /\ g.endpoints = f.endpoints /\ g.agents = f.agents
      /\ g.services = [f.services EXCEPT ![s] = entry]
  BY <1>1 DEF File
<1>4. EndpointsOf(g) = EndpointsOf(f) /\ AgentsOf(g) = AgentsOf(f)
      /\ \A a : MachineOf(g, a) = MachineOf(f, a)
  BY <1>3 DEF EndpointsOf, AgentsOf, MachineOf
<1>5. \A a \in workers : a \in AgentsOf(f) /\ f.agents[a].public
  BY DEF Offered
<1>6. \A t \in ServicesOf(g) : \/ t = s /\ g.services[t] = entry
                               \/ t # s /\ t \in ServicesOf(f) /\ g.services[t] = f.services[t]
  BY <1>3, FilesAreFiles DEF ServicesOf
<1>7. /\ \A t \in ServicesOf(f) : f.services[t].workers # {}
      /\ EndpointsOf(f) # {} /\ AgentsOf(f) # {} /\ \A n \in EndpointsOf(f) : SpawnSchema(f.endpoints[n])
  BY DEF Loads, FileSchema
<1>8. FileSchema(g)
  BY <1>2, <1>3, <1>4, <1>6, <1>7 DEF FileSchema
<1>9. EndpointsKeyed(g, keyed) /\ AgentsResolve(g) /\ SandboxHasRoute(g) /\ OneAgentPerProcess(g)
      /\ ModelsArePinned(g)
  BY <1>3, <1>4 DEF Loads, EndpointsKeyed, AgentsResolve, SandboxHasRoute, OneAgentPerProcess, ModelsArePinned
<1>10. ServicesHold(g)
  BY <1>2, <1>3, <1>4, <1>5, <1>6, ZenonT(60) DEF Loads, ServicesHold
<1>11. \A t \in ServicesOf(f) : \A w \in f.services[t].workers : w \in AgentsOf(f) /\ ServiceOf(f, w) # {}
  BY DEF Loads, ServicesHold, ServiceOf
<1>12. ASSUME NEW t \in ServicesOf(g), NEW u \in ServicesOf(g),
              NEW v \in g.services[t].workers, NEW w \in g.services[u].workers,
              MachineOf(f, v) = MachineOf(f, w)
       PROVE  t = u
  <2>1. CASE t # s /\ u # s
    BY <1>6, <1>12, <2>1 DEF Loads, MachinesSegregated
  <2>2. CASE t = s /\ u # s
    BY <1>2, <1>6, <1>11, <1>12, <2>2
  <2>3. CASE t # s /\ u = s
    BY <1>2, <1>6, <1>11, <1>12, <2>3
  <2>. QED  BY <2>1, <2>2, <2>3
<1>13. MachinesSegregated(g)
  BY <1>3, <1>4, <1>12 DEF Loads, MachinesSegregated
<1>14. Loads(g, keyed)
  BY <1>8, <1>9, <1>10, <1>13 DEF Loads
<1>. QED  BY <1>14 DEF Preview, g

(* What the editor offers is what the loader takes (serviceEditorContext    *)
(* and previewService of config-edit.ts against loadConfig), for any nodes, *)
(* machines and declarations.                                               *)
THEOREM TheEditorOffersWhatLoads == ProvisionSpec => []OffersAreTaken
<1>1. NodesInv => OffersAreTaken
  <2>. SUFFICES ASSUME NodesInv, config = file, Loads(file, proc),
                       NEW workers \in SUBSET Offered(config), workers # {},
                       NEW s \in ServiceIds, s \notin ServicesOf(config),
                       \A a \in workers, b \in AgentsOf(config) :
                          MachineOf(config, b) = MachineOf(config, a) => ServiceOf(config, b) = {}
                PROVE  Preview(file, s, [workers |-> workers, pin |-> FALSE, machines |-> Hosts,
                                         perMachine |-> 1, thresholds |-> FALSE], proc)
    BY DEF OffersAreTaken
  <2>1. file \in File
    BY DEF NodesInv, FilesTyped
  <2>. QED  BY <2>1, OfferLoads
<1>. QED  BY <1>1, NodesInvariant, PTL

-----------------------------------------------------------------------------
(* Composer.                                                                *)

Phases == {"off", "create", "prompt", "override", "pinning", "clearing", "running"}
Stages == {"sent", "asking", "pinned", "asleep", "failed", "answered"}

Choosers == [here : BOOLEAN, setting : {"mode"}, value : Modes, stage : Stages, ok : BOOLEAN]
            \union [here : BOOLEAN, setting : {"model"}, value : Models, stage : Stages \ {"asleep"}, ok : BOOLEAN]

SettingsTyped ==
  /\ chatRow \in [session : BOOLEAN, mode : Modes \union {Unset}, override : Modes \union {Unset}]
  /\ atHost \in [live : BOOLEAN, mode : Modes \union {Unset}, model : Models \union {Unset}]
  /\ runsOf \in [Kinds -> [phase : Phases, over : Modes \union {Unset}]]
  /\ picks \subseteq Choosers /\ crossed \in BOOLEAN

(* There is nothing to set before the session is bound, and what waits for  *)
(* the next run was recorded.                                               *)
Bound ==
  /\ \A k \in Kinds : /\ runsOf[k].phase = "create" => ~chatRow.session
                      /\ runsOf[k].phase \notin {"off", "create"} => chatRow.session
  /\ runsOf["brain"].phase # "create"
  /\ ~chatRow.session => chatRow.mode = Unset /\ \A p \in picks : ~Setting(p)
  /\ chatRow.mode = Unset => chatRow.override = Unset

IsPinned(p) == p.setting = "mode" /\ p.stage = "pinned"

Recorded == chatRow.mode # Unset =>
              chatRow.mode = IF chatRow.override # Unset THEN chatRow.override ELSE atHost.mode

(* With one setting at a time: the host has the mode of a choice it took    *)
(* and that is not recorded yet, and of a run that is to clear it; and at   *)
(* any other moment the row says what the host has or will be given.        *)
OneAtATime ==
  /\ \A p, q \in picks : Setting(p) /\ Setting(q) => p = q
  /\ \A p \in picks, k \in Kinds : ~(Setting(p) /\ Pinning(k))
  /\ \A k \in Kinds : Pinning(k) => /\ runsOf[k].over = chatRow.mode
                                    /\ runsOf[k].phase = "clearing" => atHost.mode = chatRow.mode
  /\ \A p \in picks : IsPinned(p) => atHost.mode = p.value
  /\ (\A p \in picks : ~IsPinned(p)) => Recorded

ComposerInv == SettingsTyped /\ Bound /\ (~crossed => OneAtATime)

LEMMA ComposerBegins == ComposerInit => ComposerInv
<1>. SUFFICES ASSUME ComposerInit PROVE ComposerInv
  OBVIOUS
<1>. USE ComposerAssumption DEF ComposerInit, Kinds
<1>1. runsOf \in [Kinds -> [phase : Phases, over : Modes \union {Unset}]]
      /\ \A k \in Kinds : runsOf[k].phase = "off"
  <2>1. Idle \in [phase : Phases, over : Modes \union {Unset}] /\ Idle.phase = "off"
    BY DEF Idle, Phases
  <2>. QED  BY <2>1
<1>2. SettingsTyped
  <2>1. PICK bound \in BOOLEAN :
          /\ chatRow = [session |-> bound, mode |-> Unset, override |-> Unset]
          /\ atHost = [live |-> FALSE, mode |-> IF bound THEN AgentMode ELSE Unset,
                       model |-> IF bound THEN HostModel ELSE Unset]
    OBVIOUS
  <2>2. /\ chatRow \in [session : BOOLEAN, mode : Modes \union {Unset}, override : Modes \union {Unset}]
        /\ atHost \in [live : BOOLEAN, mode : Modes \union {Unset}, model : Models \union {Unset}]
    BY <2>1
  <2>. QED  BY <1>1, <2>2 DEF SettingsTyped
<1>3. Bound
  BY <1>1 DEF Bound
<1>4. OneAtATime
  BY <1>1 DEF OneAtATime, Recorded, Pinning
<1>. QED  BY <1>2, <1>3, <1>4 DEF ComposerInv

LEMMA ChooserMoves ==
  ASSUME NEW p \in Choosers, NEW st \in Stages, st = "asleep" => p.setting = "mode"
  PROVE  LET q == [p EXCEPT !.stage = st]
         IN q \in Choosers /\ q.setting = p.setting /\ q.value = p.value /\ q.stage = st
BY DEF Choosers

LEMMA ChooserIsAnswered ==
  ASSUME NEW p \in Choosers
  PROVE  LET q == [p EXCEPT !.stage = "answered", !.ok = TRUE]
         IN q \in Choosers /\ q.setting = p.setting /\ q.value = p.value /\ q.stage = "answered"
BY DEF Choosers, Stages

(* A step that sets no mode and starts or ends no setting of one.           *)
LEMMA NothingIsSet ==
  ASSUME ComposerInv, SettingsTyped', Bound', chatRow' = chatRow, atHost'.mode = atHost.mode,
         crossed' = crossed,
         \A p \in picks' : Setting(p) => p \in picks,
         \A p \in picks : Setting(p) => p \in picks',
         \A k \in Kinds : Pinning(k)' => Pinning(k) /\ runsOf'[k] = runsOf[k]
  PROVE  ComposerInv'
<1>1. \A p : IsPinned(p) => Setting(p)
  BY DEF IsPinned, Setting
<1>2. Recorded' <=> Recorded
  BY DEF Recorded
<1>3. OneAtATime => OneAtATime'
  BY <1>1, <1>2 DEF OneAtATime, Setting, IsPinned
<1>. QED  BY <1>3 DEF ComposerInv

LEMMA RunStep ==
  ASSUME ComposerInv, NEW k \in Kinds, RunStarts(k) \/ Prompted(k) \/ RunEnds(k)
  PROVE  ComposerInv'
<1>. USE DEF ComposerInv
<1>1. /\ UNCHANGED <<chatRow, picks, crossed>> /\ atHost'.mode = atHost.mode
      /\ atHost' \in [live : BOOLEAN, mode : Modes \union {Unset}, model : Models \union {Unset}]
  BY DEF SettingsTyped, RunStarts, Prompted, RunEnds
<1>2. PICK run \in [phase : Phases, over : Modes \union {Unset}] :
        /\ runsOf' = [runsOf EXCEPT ![k] = run]
        /\ run.phase \in {"off", "create", "prompt", "override"}
        /\ run.phase = "create" => ~chatRow.session /\ k = "chat"
        /\ run.phase \notin {"off", "create"} => chatRow.session
  <2>0. runsOf \in [Kinds -> [phase : Phases, over : Modes \union {Unset}]]
    BY DEF SettingsTyped
  <2>1. CASE RunStarts(k)
    <3>. DEFINE run == [runsOf[k] EXCEPT !.phase = IF chatRow.session THEN "prompt" ELSE "create"]
    <3>1. run \in [phase : Phases, over : Modes \union {Unset}]
          /\ run.phase = IF chatRow.session THEN "prompt" ELSE "create"
      BY <2>0 DEF Phases
    <3>2. runsOf' = [runsOf EXCEPT ![k] = run]
      BY <2>0, <2>1 DEF RunStarts
    <3>3. ~chatRow.session => k = "chat"
      BY <2>1 DEF RunStarts, Kinds
    <3>. HIDE DEF run
    <3>. QED  BY <3>1, <3>2, <3>3
  <2>2. CASE Prompted(k)
    <3>. DEFINE run == [runsOf[k] EXCEPT !.phase = "override"]
    <3>1. run \in [phase : Phases, over : Modes \union {Unset}] /\ run.phase = "override"
      BY <2>0 DEF Phases
    <3>2. runsOf' = [runsOf EXCEPT ![k] = run] /\ chatRow.session
      BY <2>0, <2>2 DEF Prompted, Bound
    <3>. HIDE DEF run
    <3>. QED  BY <3>1, <3>2
  <2>3. CASE RunEnds(k)
    <3>1. Idle \in [phase : Phases, over : Modes \union {Unset}] /\ Idle.phase = "off"
      BY DEF Idle, Phases
    <3>2. runsOf' = [runsOf EXCEPT ![k] = Idle]
      BY <2>3 DEF RunEnds
    <3>. QED  BY <3>1, <3>2
  <2>. QED  BY <2>1, <2>2, <2>3
<1>3. SettingsTyped'
  BY <1>1, <1>2 DEF SettingsTyped
<1>4. \A j \in Kinds : runsOf'[j] = IF j = k THEN run ELSE runsOf[j]
  BY <1>2 DEF SettingsTyped
<1>5. Bound'
  <2>1. "brain" \in Kinds /\ "chat" # "brain"
    BY DEF Kinds
  <2>. QED  BY <1>1, <1>2, <1>4, <2>1 DEF Bound, Setting
<1>6. \A j \in Kinds : Pinning(j)' => Pinning(j) /\ runsOf'[j] = runsOf[j]
  BY <1>2, <1>4 DEF Pinning
<1>. QED  BY <1>1, <1>3, <1>5, <1>6, NothingIsSet

LEMMA SessionStep ==
  ASSUME ComposerInv, NEW k \in Kinds, CreateSession(k)
  PROVE  ComposerInv'
<1>. USE DEF ComposerInv
<1>1. /\ UNCHANGED <<picks, crossed>> /\ runsOf[k].phase = "create"
      /\ chatRow' = [chatRow EXCEPT !.session = TRUE]
      /\ runsOf' = [runsOf EXCEPT ![k].phase = "prompt"]
      /\ atHost' = [live |-> TRUE, mode |-> AgentMode, model |-> HostModel]
  BY DEF CreateSession
<1>2. ~chatRow.session /\ k = "chat" /\ chatRow.mode = Unset /\ chatRow.override = Unset
      /\ \A p \in picks : ~Setting(p)
  BY <1>1 DEF Bound, Kinds
<1>3. /\ chatRow' \in [session : BOOLEAN, mode : Modes \union {Unset}, override : Modes \union {Unset}]
      /\ chatRow'.session = TRUE /\ chatRow'.mode = Unset /\ chatRow'.override = Unset
  BY <1>1, <1>2 DEF SettingsTyped
<1>4. /\ runsOf' \in [Kinds -> [phase : Phases, over : Modes \union {Unset}]]
      /\ \A j \in Kinds : runsOf'[j].phase = IF j = k THEN "prompt" ELSE runsOf[j].phase
  BY <1>1 DEF SettingsTyped, Phases
<1>5. SettingsTyped'
  <2>1. atHost' \in [live : BOOLEAN, mode : Modes \union {Unset}, model : Models \union {Unset}]
    BY <1>1, ComposerAssumption
  <2>. QED  BY <1>1, <1>3, <1>4, <2>1 DEF SettingsTyped
<1>6. \A j \in Kinds : runsOf[j].phase \in {"off", "create"} /\ runsOf'[j].phase \in {"off", "prompt"}
  <2>1. \A j \in Kinds : runsOf[j].phase \in {"off", "create"}
    BY <1>2 DEF Bound
  <2>2. \A j \in Kinds : j = k \/ j = "brain"
    BY <1>2 DEF Kinds
  <2>. QED  BY <1>4, <2>1, <2>2 DEF Bound
<1>7. Bound'
  <2>1. "brain" \in Kinds
    BY DEF Kinds
  <2>. QED  BY <1>3, <1>6, <2>1 DEF Bound
<1>8. OneAtATime'
  <2>1. \A j \in Kinds : ~Pinning(j)'
    BY <1>6 DEF Pinning
  <2>2. \A p \in picks' : ~Setting(p) /\ ~IsPinned(p)
    BY <1>1, <1>2 DEF Setting, IsPinned
  <2>. QED  BY <1>3, <2>1, <2>2 DEF OneAtATime, Recorded, Setting, IsPinned
<1>. QED  BY <1>5, <1>7, <1>8

(* While a run gives the session a mode, nothing else is.                   *)
LEMMA WhileOneIsGiven ==
  ASSUME OneAtATime, NEW k \in Kinds, Pinning(k)
  PROVE  /\ runsOf[k].over = chatRow.mode
         /\ runsOf[k].phase = "clearing" => atHost.mode = chatRow.mode
         /\ \A p \in picks : ~Setting(p) /\ ~IsPinned(p)
         /\ Recorded
<1>1. /\ runsOf[k].over = chatRow.mode
      /\ runsOf[k].phase = "clearing" => atHost.mode = chatRow.mode
      /\ \A p \in picks : ~Setting(p)
      /\ (\A p \in picks : ~IsPinned(p)) => Recorded
  BY DEF OneAtATime
<1>2. \A p : IsPinned(p) => Setting(p)
  BY DEF IsPinned, Setting
<1>. QED  BY <1>1, <1>2

(* Steps of a run that gives the session a mode that waited.                *)
LEMMA OverrideRead ==
  ASSUME ComposerInv, NEW k \in Kinds, ReadOverride(k)
  PROVE  ComposerInv'
<1>. USE DEF ComposerInv
<1>. DEFINE over == chatRow.override
            run == IF over = Unset THEN [runsOf[k] EXCEPT !.phase = "running"]
                   ELSE [phase |-> "pinning", over |-> over]
<1>1. /\ UNCHANGED <<atHost, chatRow, picks>> /\ runsOf[k].phase = "override"
      /\ runsOf' = [runsOf EXCEPT ![k] = run]
      /\ crossed' = IF over = Unset THEN crossed ELSE crossed \/ \E p \in picks : Setting(p)
  BY DEF ReadOverride, SettingsTyped
<1>2. /\ run \in [phase : Phases, over : Modes \union {Unset}]
      /\ run.phase = IF over = Unset THEN "running" ELSE "pinning"
      /\ over # Unset => run.over = over
  BY DEF SettingsTyped, Phases
<1>. HIDE DEF run
<1>3. chatRow.session
  BY <1>1 DEF Bound
<1>4. \A j \in Kinds : runsOf'[j] = IF j = k THEN run ELSE runsOf[j]
  BY <1>1 DEF SettingsTyped
<1>5. SettingsTyped'
  BY <1>1, <1>2 DEF SettingsTyped
<1>6. Bound'
  <2>1. "brain" \in Kinds
    BY DEF Kinds
  <2>. QED  BY <1>1, <1>2, <1>3, <1>4, <2>1 DEF Bound, Setting
<1>7. CASE over = Unset
  <2>1. \A j \in Kinds : Pinning(j)' => Pinning(j) /\ runsOf'[j] = runsOf[j]
    BY <1>2, <1>4, <1>7 DEF Pinning
  <2>2. crossed' = crossed
    BY <1>1, <1>7
  <2>. QED  BY <1>1, <1>5, <1>6, <2>1, <2>2, NothingIsSet
<1>8. CASE over # Unset
  <2>. SUFFICES ASSUME ~crossed' PROVE OneAtATime'
    BY <1>5, <1>6
  <2>1. ~crossed /\ \A p \in picks : ~Setting(p)
    BY <1>1, <1>8 DEF SettingsTyped
  <2>2. \A p \in picks : ~IsPinned(p)
    BY <2>1 DEF Setting, IsPinned
  <2>3. chatRow.mode # Unset /\ Recorded
    BY <1>8, <2>1, <2>2 DEF Bound, OneAtATime
  <2>4. run.phase = "pinning" /\ run.over = chatRow.mode
    BY <1>2, <1>8, <2>3 DEF Recorded
  <2>5. \A j \in Kinds : Pinning(j)' => /\ runsOf'[j].over = chatRow.mode
                                        /\ runsOf'[j].phase = "clearing" => atHost.mode = chatRow.mode
    <3>1. \A j \in Kinds : j # k /\ Pinning(j)' => Pinning(j)
      BY <1>4 DEF Pinning
    <3>2. \A j \in Kinds : Pinning(j) => /\ runsOf[j].over = chatRow.mode
                                         /\ runsOf[j].phase = "clearing" => atHost.mode = chatRow.mode
      BY <2>1, WhileOneIsGiven
    <3>. QED  BY <1>4, <2>4, <3>1, <3>2
  <2>6. Recorded'
    BY <1>1, <2>3 DEF Recorded
  <2>. QED  BY <1>1, <2>1, <2>2, <2>5, <2>6 DEF OneAtATime, Setting, IsPinned
<1>. QED  BY <1>7, <1>8

LEMMA OverridePinned ==
  ASSUME ComposerInv, NEW k \in Kinds, PinOverride(k)
  PROVE  ComposerInv'
<1>. USE DEF ComposerInv
<1>1. /\ UNCHANGED <<chatRow, picks, crossed>> /\ runsOf[k].phase = "pinning"
      /\ atHost' = [atHost EXCEPT !.mode = runsOf[k].over]
      /\ runsOf' = [runsOf EXCEPT ![k].phase = "clearing"]
  BY DEF PinOverride
<1>2. /\ runsOf' \in [Kinds -> [phase : Phases, over : Modes \union {Unset}]]
      /\ \A j \in Kinds : /\ runsOf'[j].phase = IF j = k THEN "clearing" ELSE runsOf[j].phase
                          /\ runsOf'[j].over = runsOf[j].over
  BY <1>1 DEF SettingsTyped, Phases
<1>3. /\ atHost' \in [live : BOOLEAN, mode : Modes \union {Unset}, model : Models \union {Unset}]
      /\ atHost'.mode = runsOf[k].over
  BY <1>1 DEF SettingsTyped
<1>4. SettingsTyped'
  BY <1>1, <1>2, <1>3 DEF SettingsTyped
<1>5. Bound'
  <2>1. "brain" \in Kinds
    BY DEF Kinds
  <2>. QED  BY <1>1, <1>2, <2>1 DEF Bound, Setting
<1>6. ASSUME ~crossed PROVE OneAtATime'
  <2>1. Pinning(k) /\ OneAtATime
    BY <1>1, <1>6 DEF Pinning
  <2>2. atHost'.mode = chatRow.mode /\ \A p \in picks : ~Setting(p)
    BY <1>3, <2>1, WhileOneIsGiven
  <2>3. \A p \in picks : ~IsPinned(p)
    BY <2>2 DEF Setting, IsPinned
  <2>4. Recorded /\ Recorded'
    BY <1>1, <2>1, <2>2, <2>3 DEF OneAtATime, Recorded
  <2>5. \A j \in Kinds : Pinning(j)' => runsOf'[j].over = chatRow.mode
    <3>1. \A j \in Kinds : Pinning(j)' => Pinning(j)
      BY <1>1, <1>2 DEF Pinning
    <3>2. \A j \in Kinds : Pinning(j) => runsOf[j].over = chatRow.mode
      BY <2>1, WhileOneIsGiven
    <3>. QED  BY <1>2, <3>1, <3>2
  <2>. QED  BY <1>1, <2>2, <2>3, <2>4, <2>5 DEF OneAtATime, Setting, IsPinned
<1>. QED  BY <1>1, <1>4, <1>5, <1>6

LEMMA OverrideDone ==
  ASSUME ComposerInv, NEW k \in Kinds, OverrideSettled(k)
  PROVE  ComposerInv'
<1>. USE DEF ComposerInv
<1>. DEFINE run == [Idle EXCEPT !.phase = "running"]
            pinned == runsOf[k].phase = "clearing"
<1>1. /\ UNCHANGED <<atHost, picks, crossed>> /\ Pinning(k)
      /\ chatRow' = IF pinned THEN [chatRow EXCEPT !.override = Unset] ELSE chatRow
      /\ runsOf' = [runsOf EXCEPT ![k] = run]
  BY DEF OverrideSettled, Cleared
<1>2. run \in [phase : Phases, over : Modes \union {Unset}] /\ run.phase = "running"
  BY DEF Idle, Phases
<1>. HIDE DEF run
<1>3. \A j \in Kinds : runsOf'[j] = IF j = k THEN run ELSE runsOf[j]
  BY <1>1 DEF SettingsTyped
<1>4. /\ chatRow' \in [session : BOOLEAN, mode : Modes \union {Unset}, override : Modes \union {Unset}]
      /\ chatRow'.session = chatRow.session /\ chatRow'.mode = chatRow.mode
      /\ chatRow'.override = IF pinned THEN Unset ELSE chatRow.override
  BY <1>1 DEF SettingsTyped
<1>5. SettingsTyped'
  BY <1>1, <1>2, <1>4 DEF SettingsTyped
<1>6. chatRow.session
  BY <1>1 DEF Bound, Pinning
<1>7. Bound'
  <2>1. "brain" \in Kinds
    BY DEF Kinds
  <2>. QED  BY <1>1, <1>2, <1>3, <1>4, <1>6, <2>1 DEF Bound, Setting
<1>8. ASSUME ~crossed PROVE OneAtATime'
  <2>1. OneAtATime
    BY <1>8
  <2>2. \A p \in picks : ~Setting(p) /\ ~IsPinned(p)
    BY <1>1, <2>1, WhileOneIsGiven
  <2>3. Recorded /\ (pinned => atHost.mode = chatRow.mode)
    BY <1>1, <2>1, WhileOneIsGiven
  <2>4. Recorded'
    BY <1>1, <1>4, <2>3 DEF Recorded
  <2>5. \A j \in Kinds : Pinning(j)' => j # k /\ Pinning(j) /\ runsOf'[j] = runsOf[j]
    BY <1>2, <1>3 DEF Pinning
  <2>. QED  BY <1>1, <1>4, <2>1, <2>2, <2>4, <2>5 DEF OneAtATime, Setting, IsPinned
<1>. QED  BY <1>1, <1>5, <1>7, <1>8

(* Steps of a choice.                                                       *)
LEMMA PickServed ==
  ASSUME ComposerInv, NEW p \in picks, ServePick(p)
  PROVE  ComposerInv'
<1>. USE DEF ComposerInv
<1>. DEFINE q == [p EXCEPT !.stage = IF Accepted THEN "asking" ELSE "answered"]
<1>1. /\ UNCHANGED <<atHost, chatRow, runsOf>> /\ p.stage = "sent" /\ p \in Choosers
      /\ picks' = (picks \ {p}) \union {q}
      /\ crossed' = (crossed \/ (Accepted /\ p.setting = "mode"
                        /\ ((\E r \in picks : Setting(r)) \/ \E k \in Kinds : Pinning(k))))
  BY DEF ServePick, Moved, SettingsTyped
<1>2. q \in Choosers /\ q.setting = p.setting /\ q.stage = IF Accepted THEN "asking" ELSE "answered"
  <2>. DEFINE st == IF Accepted THEN "asking" ELSE "answered"
  <2>1. st \in Stages /\ st # "asleep"
    BY DEF Stages
  <2>. HIDE DEF st
  <2>2. LET r == [p EXCEPT !.stage = st]
        IN r \in Choosers /\ r.setting = p.setting /\ r.value = p.value /\ r.stage = st
    BY <1>1, <2>1, ChooserMoves
  <2>. QED  BY <2>2 DEF st
<1>. HIDE DEF q
<1>3. ~IsPinned(q) /\ ~IsPinned(p) /\ ~Setting(p) /\ (Setting(q) <=> Accepted /\ p.setting = "mode")
  BY <1>1, <1>2 DEF IsPinned, Setting
<1>4. SettingsTyped'
  BY <1>1, <1>2 DEF SettingsTyped
<1>5. Bound'
  <2>1. ~chatRow.session => \A r \in picks' : ~Setting(r)
    BY <1>1, <1>3 DEF Bound, Accepted
  <2>. QED  BY <1>1, <2>1 DEF Bound, Setting
<1>6. ASSUME ~crossed' PROVE OneAtATime'
  <2>1. ~crossed /\ OneAtATime
    BY <1>1, <1>6 DEF SettingsTyped
  <2>2. CASE ~Setting(q)
    <3>1. \A r \in picks' : Setting(r) => r \in picks
      BY <1>1, <2>2
    <3>2. (\A r \in picks' : ~IsPinned(r)) => Recorded
      BY <1>1, <1>3, <2>1 DEF OneAtATime
    <3>. QED  BY <1>1, <2>1, <3>1, <3>2 DEF OneAtATime, Setting, IsPinned, Pinning, Recorded
  <2>3. CASE Setting(q)
    <3>1. (\A r \in picks : ~Setting(r)) /\ \A k \in Kinds : ~Pinning(k)
      BY <1>1, <1>3, <1>6, <2>3
    <3>2. \A r \in picks : ~IsPinned(r)
      BY <3>1 DEF Setting, IsPinned
    <3>3. Recorded
      BY <2>1, <3>2 DEF OneAtATime
    <3>. QED  BY <1>1, <1>3, <3>1, <3>2, <3>3 DEF OneAtATime, Setting, IsPinned, Pinning, Recorded
  <2>. QED  BY <2>2, <2>3
<1>. QED  BY <1>1, <1>4, <1>5, <1>6

LEMMA PickTaken ==
  ASSUME ComposerInv, NEW p \in picks, HostTakesPick(p)
  PROVE  ComposerInv'
<1>. USE DEF ComposerInv
<1>1. PICK st \in {"pinned", "failed"} :
        /\ UNCHANGED <<chatRow, runsOf>> /\ p.stage = "asking" /\ p \in Choosers
        /\ picks' = (picks \ {p}) \union {[p EXCEPT !.stage = st]}
        /\ atHost' = [atHost EXCEPT ![p.setting] = p.value]
        /\ crossed' = IF st = "failed" THEN TRUE ELSE crossed
  BY DEF HostTakesPick, Moved, SettingsTyped
<1>. DEFINE q == [p EXCEPT !.stage = st]
<1>2. q \in Choosers /\ q.setting = p.setting /\ q.stage = st /\ q.value = p.value
  <2>1. st \in Stages
    BY DEF Stages
  <2>. QED  BY <1>1, <2>1, ChooserMoves
<1>. HIDE DEF q
<1>3. /\ atHost' \in [live : BOOLEAN, mode : Modes \union {Unset}, model : Models \union {Unset}]
      /\ atHost'.mode = IF p.setting = "mode" THEN p.value ELSE atHost.mode
  BY <1>1 DEF SettingsTyped, Choosers
<1>4. SettingsTyped'
  BY <1>1, <1>2, <1>3 DEF SettingsTyped, q
<1>5. /\ Setting(q) => Setting(p)
      /\ st = "pinned" => (Setting(q) <=> Setting(p))
      /\ p.setting # "mode" => ~Setting(p) /\ ~Setting(q) /\ ~IsPinned(q)
      /\ p.setting = "mode" => Setting(p)
  BY <1>1, <1>2 DEF Setting, IsPinned
<1>6. Bound'
  <2>1. ~chatRow.session => \A r \in picks' : ~Setting(r)
    BY <1>1, <1>5 DEF Bound, q
  <2>. QED  BY <1>1, <2>1 DEF Bound, Setting
<1>7. CASE p.setting # "mode"
  <2>1. ASSUME ~crossed' PROVE OneAtATime'
    <3>1. ~crossed /\ OneAtATime /\ atHost'.mode = atHost.mode /\ ~IsPinned(p)
      BY <1>1, <1>3, <1>7, <2>1 DEF IsPinned
    <3>2. \A r \in picks' : Setting(r) \/ IsPinned(r) => r \in picks
      BY <1>1, <1>5, <1>7 DEF q
    <3>3. (\A r \in picks' : ~IsPinned(r)) => Recorded
      BY <1>1, <3>1 DEF OneAtATime
    <3>. QED  BY <1>1, <3>1, <3>2, <3>3 DEF OneAtATime, Setting, IsPinned, Pinning, Recorded
  <2>. QED  BY <1>4, <1>6, <2>1
<1>8. CASE p.setting = "mode"
  <2>1. ASSUME ~crossed' PROVE OneAtATime'
    <3>1. ~crossed /\ OneAtATime /\ st = "pinned" /\ atHost'.mode = q.value /\ Setting(p)
      BY <1>1, <1>2, <1>3, <1>5, <1>8, <2>1
    <3>2. (\A r \in picks \ {p} : ~Setting(r)) /\ \A k \in Kinds : ~Pinning(k)
      BY <3>1 DEF OneAtATime
    <3>3. \A r \in picks' : Setting(r) \/ IsPinned(r) => r = q
      BY <1>1, <3>2 DEF Setting, IsPinned, q
    <3>4. IsPinned(q) /\ q \in picks'
      BY <1>1, <1>2, <1>8, <3>1 DEF IsPinned, q
    <3>. QED  BY <1>1, <3>1, <3>2, <3>3, <3>4 DEF OneAtATime, Setting, IsPinned, Pinning
  <2>. QED  BY <1>4, <1>6, <2>1
<1>. QED  BY <1>7, <1>8

LEMMA PickRefused ==
  ASSUME ComposerInv, NEW p \in picks, HostRefusesPick(p)
  PROVE  ComposerInv'
<1>. USE DEF ComposerInv
<1>1. PICK st \in {"asleep", "failed"} :
        /\ UNCHANGED <<atHost, chatRow, runsOf, crossed>> /\ p.stage = "asking" /\ p \in Choosers
        /\ picks' = (picks \ {p}) \union {[p EXCEPT !.stage = st]}
        /\ st = "asleep" => p.setting = "mode"
  BY DEF HostRefusesPick, Moved, SettingsTyped
<1>. DEFINE q == [p EXCEPT !.stage = st]
<1>2. q \in Choosers /\ q.setting = p.setting /\ q.stage = st
  <2>1. st \in Stages
    BY DEF Stages
  <2>. QED  BY <1>1, <2>1, ChooserMoves
<1>. HIDE DEF q
<1>3. SettingsTyped'
  BY <1>1, <1>2 DEF SettingsTyped, q
<1>4. (Setting(q) => Setting(p)) /\ ~IsPinned(q) /\ ~IsPinned(p)
  BY <1>1, <1>2 DEF Setting, IsPinned
<1>5. Bound'
  <2>1. ~chatRow.session => \A r \in picks' : ~Setting(r)
    BY <1>1, <1>4 DEF Bound, q
  <2>. QED  BY <1>1, <2>1 DEF Bound, Setting
<1>6. ASSUME ~crossed' PROVE OneAtATime'
  <2>1. OneAtATime
    BY <1>1, <1>6
  <2>2. \A r \in picks' : r \in picks \ {p} \/ (r = q /\ (Setting(q) => Setting(p)))
    BY <1>1, <1>4 DEF q
  <2>3. \A r, u \in picks' : Setting(r) /\ Setting(u) => r = u
    BY <2>1, <2>2 DEF OneAtATime
  <2>4. \A r \in picks', k \in Kinds : ~(Setting(r) /\ Pinning(k))
    BY <2>1, <2>2 DEF OneAtATime
  <2>5. \A r \in picks' : IsPinned(r) => r \in picks
    BY <1>1, <1>4 DEF q
  <2>6. (\A r \in picks' : ~IsPinned(r)) => Recorded
    BY <1>1, <1>4, <2>1 DEF OneAtATime
  <2>. QED  BY <1>1, <2>1, <2>3, <2>4, <2>5, <2>6 DEF OneAtATime, Setting, IsPinned, Pinning, Recorded
<1>. QED  BY <1>3, <1>5, <1>6

(* A choice is recorded: the host took it, or it waits for the next run.    *)
LEMMA PickRecorded ==
  ASSUME ComposerInv, NEW p \in picks, ModePinned(p) \/ ModeDeferred(p)
  PROVE  ComposerInv'
<1>. USE DEF ComposerInv
<1>. DEFINE q == [p EXCEPT !.stage = "answered", !.ok = TRUE]
<1>1. /\ UNCHANGED <<atHost, runsOf, crossed>> /\ p \in Choosers
      /\ p.stage \in {"pinned", "asleep"} /\ picks' = (picks \ {p}) \union {q}
      /\ p.stage = "pinned" => p.setting = "mode"
  BY DEF ModePinned, ModeDeferred, Moved, SettingsTyped
<1>2. p.setting = "mode" /\ p.value \in Modes /\ p.value # Unset /\ Setting(p)
  BY <1>1, ComposerAssumption DEF Choosers, Setting
<1>3. q \in Choosers /\ q.stage = "answered"
  BY <1>1, ChooserIsAnswered
<1>. HIDE DEF q
<1>4. ~Setting(q) /\ ~IsPinned(q)
  BY <1>3 DEF Setting, IsPinned
<1>5. /\ chatRow' \in [session : BOOLEAN, mode : Modes \union {Unset}, override : Modes \union {Unset}]
      /\ chatRow'.session = chatRow.session /\ chatRow'.mode = p.value
      /\ p.stage = "pinned" => chatRow'.override = Unset
      /\ p.stage = "asleep" => chatRow'.override = p.value
  BY <1>1, <1>2 DEF ModePinned, ModeDeferred, PinnedRow, SettingsTyped
<1>6. SettingsTyped'
  BY <1>1, <1>3, <1>5 DEF SettingsTyped
<1>7. Bound'
  <2>1. chatRow.session
    BY <1>2 DEF Bound
  <2>. QED  BY <1>1, <1>2, <1>5, <2>1 DEF Bound
<1>8. ASSUME ~crossed' PROVE OneAtATime'
  <2>1. OneAtATime
    BY <1>1, <1>8
  <2>2. (\A r \in picks \ {p} : ~Setting(r)) /\ \A k \in Kinds : ~Pinning(k)
    BY <1>2, <2>1 DEF OneAtATime
  <2>3. \A r \in picks' : ~Setting(r) /\ ~IsPinned(r)
    BY <1>1, <1>4, <2>2 DEF Setting, IsPinned
  <2>4. p.stage = "pinned" => atHost.mode = p.value
    BY <1>2, <2>1 DEF OneAtATime, IsPinned
  <2>5. Recorded'
    BY <1>1, <1>2, <1>5, <2>4 DEF Recorded
  <2>. QED  BY <1>1, <2>2, <2>3, <2>5 DEF OneAtATime, Setting, IsPinned, Pinning
<1>. QED  BY <1>1, <1>6, <1>7, <1>8

(* The other steps of a choice, and the page's: no mode is set by them.     *)
LEMMA PickEnds ==
  ASSUME ComposerInv, NEW p \in picks, ModelSelected(p) \/ PickFailed(p) \/ PickReturns(p)
  PROVE  ComposerInv'
<1>. USE DEF ComposerInv
<1>. DEFINE q == [p EXCEPT !.stage = "answered", !.ok = TRUE]
            r == [p EXCEPT !.stage = "answered"]
<1>1. UNCHANGED <<atHost, chatRow, runsOf, crossed>> /\ p \in Choosers
  BY DEF ModelSelected, PickFailed, PickReturns, SettingsTyped
<1>2. ~Setting(p)
  BY DEF ModelSelected, PickFailed, PickReturns, Setting
<1>3. q \in Choosers /\ q.stage = "answered" /\ r \in Choosers /\ r.stage = "answered"
  <2>1. "answered" \in Stages
    BY DEF Stages
  <2>. QED  BY <1>1, <2>1, ChooserIsAnswered, ChooserMoves
<1>4. picks' \subseteq (picks \ {p}) \union {q, r} /\ picks \ {p} \subseteq picks'
  BY DEF ModelSelected, PickFailed, PickReturns, Moved
<1>. HIDE DEF q, r
<1>5. ~Setting(q) /\ ~Setting(r)
  BY <1>3 DEF Setting
<1>6. \A u \in picks' \union picks : Setting(u) => u \in picks /\ u \in picks'
  BY <1>2, <1>4, <1>5
<1>7. SettingsTyped'
  BY <1>1, <1>3, <1>4 DEF SettingsTyped
<1>8. Bound'
  BY <1>1, <1>6 DEF Bound, Setting
<1>. QED  BY <1>1, <1>6, <1>7, <1>8, NothingIsSet DEF Pinning

LEMMA NewPick ==
  ASSUME ComposerInv,
         \/ \E mode \in Modes : PickHere("mode", mode) \/ PickElsewhere("mode", mode)
         \/ \E model \in Models : PickHere("model", model) \/ PickElsewhere("model", model)
  PROVE  ComposerInv'
<1>. USE DEF ComposerInv
<1>1. PICK q \in Choosers : /\ q.stage = "sent" /\ picks' = picks \union {q}
                            /\ UNCHANGED <<atHost, chatRow, runsOf, crossed>>
  <2>1. \A here \in BOOLEAN : /\ \A mode \in Modes : Pick(here, "mode", mode) \in Choosers
                              /\ \A model \in Models : Pick(here, "model", model) \in Choosers
    BY DEF Pick, Choosers, Stages
  <2>2. \A here, setting, value : Pick(here, setting, value).stage = "sent"
    BY DEF Pick
  <2>3. \E here \in BOOLEAN :
          /\ \/ \E mode \in Modes : picks' = picks \union {Pick(here, "mode", mode)}
             \/ \E model \in Models : picks' = picks \union {Pick(here, "model", model)}
          /\ UNCHANGED <<atHost, chatRow, runsOf, crossed>>
    BY DEF PickHere, PickElsewhere
  <2>. QED  BY <2>1, <2>2, <2>3
<1>2. ~Setting(q)
  BY <1>1 DEF Setting
<1>3. SettingsTyped'
  BY <1>1 DEF SettingsTyped
<1>4. \A u \in picks' : Setting(u) => u \in picks
  BY <1>1, <1>2
<1>5. Bound'
  BY <1>1, <1>4 DEF Bound, Setting
<1>. QED  BY <1>1, <1>3, <1>4, <1>5, NothingIsSet DEF Pinning

LEMMA PageStep ==
  ASSUME ComposerInv,
         HostCools \/ FrameArrives \/ LoadBegins \/ LoadReads \/ LoadReplies \/ LoadArrives
           \/ UNCHANGED composerVars
  PROVE  ComposerInv'
<1>. USE DEF ComposerInv
<1>1. UNCHANGED <<chatRow, runsOf, picks, crossed>>
  BY DEF HostCools, FrameArrives, LoadBegins, LoadReads, LoadReplies, LoadArrives, composerVars
<1>2. /\ atHost' \in [live : BOOLEAN, mode : Modes \union {Unset}, model : Models \union {Unset}]
      /\ atHost'.mode = atHost.mode
  BY DEF HostCools, FrameArrives, LoadBegins, LoadReads, LoadReplies, LoadArrives, composerVars,
         SettingsTyped
<1>3. SettingsTyped' /\ Bound'
  BY <1>1, <1>2 DEF SettingsTyped, Bound, Setting
<1>. QED  BY <1>1, <1>2, <1>3, NothingIsSet DEF Pinning

LEMMA ComposerInvariant == ComposerSpec => []ComposerInv
<1>1. ComposerInv /\ [ComposerNext]_composerVars => ComposerInv'
  <2>. SUFFICES ASSUME ComposerInv, [ComposerNext]_composerVars PROVE ComposerInv'
    OBVIOUS
  <2>1. CASE \E k \in Kinds : RunStarts(k) \/ CreateSession(k) \/ Prompted(k) \/ ReadOverride(k)
                                \/ PinOverride(k) \/ OverrideSettled(k) \/ RunEnds(k)
    BY <2>1, RunStep, SessionStep, OverrideRead, OverridePinned, OverrideDone
  <2>2. CASE \E p \in picks : \/ ServePick(p) \/ HostTakesPick(p) \/ HostRefusesPick(p)
                              \/ ModePinned(p) \/ ModeDeferred(p) \/ ModelSelected(p) \/ PickFailed(p)
                              \/ PickReturns(p)
    BY <2>2, PickServed, PickTaken, PickRefused, PickRecorded, PickEnds
  <2>. QED  BY <2>1, <2>2, NewPick, PageStep DEF ComposerNext
<1>. QED  BY <1>1, ComposerBegins, PTL DEF ComposerSpec

(* What is recorded is the mode the host runs the session with or the next  *)
(* run will give it (routes/chat.ts, runner.ts), for any number of choices, *)
(* runs and sleeps, as long as the choices come one at a time.              *)
THEOREM TheChoiceStays == ComposerSpec => []ChoiceIsKept
<1>1. ComposerInv => ChoiceIsKept
  <2>. SUFFICES ASSUME ComposerInv, AtEase, ~crossed, chatRow.mode # Unset
                PROVE  chatRow.mode = IF chatRow.override # Unset THEN chatRow.override ELSE atHost.mode
    BY DEF ChoiceIsKept
  <2>1. \A p \in picks : ~IsPinned(p)
    BY DEF AtEase, Setting, IsPinned
  <2>. QED  BY <2>1 DEF ComposerInv, OneAtATime, Recorded
<1>. QED  BY <1>1, ComposerInvariant, PTL

-----------------------------------------------------------------------------
(* The operator's pages.  A page is well if the form it would send holds    *)
(* the values of what it would be sent for.                                 *)
Names == Ids \union {NoId, Fresh}

(* The page of the nodes.                                                   *)
NodeCalls == [op : {"load", "action", "version", "remove", "logs", "create", "access", "clear", "join",
                    "machine"},
              node : Names, form : Names]

NodePages ==
  [listed : SUBSET Names, menu : Names, sub : BOOLEAN, logs : Names, editor : BOOLEAN,
   host : {"here", "remote"}, access : Names, filled : Names, accessShown : BOOLEAN, join : BOOLEAN,
   fold : BOOLEAN, view : {"topo", "nodes", "machines"}, calls : SUBSET NodeCalls]

NodeCallFits(c) == c.op \in {"access", "clear"} => c.form = c.node

NodesPageWell(p) ==
  /\ p \in NodePages
  /\ p.access # NoId => p.filled = p.access
  /\ \A c \in p.calls : NodeCallFits(c)

LEMMA NodesPageAsks ==
  ASSUME NEW p, NodesPageWell(p), NEW c \in NodeCalls, NodeCallFits(c)
  PROVE  NodesPageWell(Asked(p, c))
BY DEF NodesPageWell, NodePages, Asked

LEMMA NodesPageHears ==
  ASSUME NEW p, NodesPageWell(p), NEW c
  PROVE  NodesPageWell(Over(p, c))
BY DEF NodesPageWell, NodePages, Over

LEMMA NodesPageMoves ==
  ASSUME NEW p, NodesPageWell(p), NEW q \in NodePages,
         q.calls = p.calls, q.access = NoId \/ q.access = q.filled \/ (q.access = p.access /\ q.filled = p.filled)
  PROVE  NodesPageWell(q)
BY DEF NodesPageWell

LEMMA MenuCloses ==
  ASSUME NEW p, NodesPageWell(p)
  PROVE  LET q == CloseNodeMenu(p)
         IN NodesPageWell(q) /\ q.access = p.access /\ q.filled = p.filled /\ q.calls = p.calls
<1>. DEFINE q == CloseNodeMenu(p)
<1>1. q \in NodePages /\ q.access = p.access /\ q.filled = p.filled /\ q.calls = p.calls
  BY DEF NodesPageWell, NodePages, CloseNodeMenu, Names
<1>. HIDE DEF q
<1>2. NodesPageWell(q)
  BY <1>1, NodesPageMoves
<1>. QED  BY <1>1, <1>2 DEF q

LEMMA NodesPageStep ==
  ASSUME NodesPageWell(np), nodeRows \subseteq Names, [NodesNext]_nodesVars
  PROVE  NodesPageWell(np)' /\ nodeRows' \subseteq Names
<1>. DEFINE closed == CloseNodeMenu(np)
<1>1. /\ np \in NodePages
      /\ NodesPageWell(closed) /\ closed \in NodePages
      /\ closed.access = np.access /\ closed.filled = np.filled /\ closed.calls = np.calls
  BY MenuCloses DEF NodesPageWell
<1>2. \A n \in Ids \union {NoId} : n \in Names
  BY DEF Names
<1>3. /\ \A op \in {"load", "action", "version", "remove", "logs", "create", "join", "machine"}, n, form \in Names :
            NodeCall(op, n, form) \in NodeCalls /\ NodeCallFits(NodeCall(op, n, form))
      /\ \A op \in {"access", "clear"}, n \in Names :
            NodeCall(op, n, n) \in NodeCalls /\ NodeCallFits(NodeCall(op, n, n))
      /\ NodesLoad \in NodeCalls /\ NodeCallFits(NodesLoad)
  BY DEF NodeCall, NodeCalls, NodeCallFits, NodesLoad, Names
<1>4. CASE UNCHANGED nodesVars
  BY <1>4 DEF nodesVars
<1>5. CASE /\ UNCHANGED nodeRows
           /\ \/ \E n \in Ids : OpenNodeMenu(n) \/ OpenAccessEditor(n)
              \/ OpenSubmenu \/ EscapeNodes \/ CloseLogs \/ NewNode \/ CancelNode \/ ChooseHost
              \/ AccessCancel \/ CloseJoin \/ FoldRevoked
              \/ \E v \in {"topo", "nodes", "machines"} : SetView(v)
              \/ \E v \in {"nodes", "machines"} : JumpTo(v)
  <2>. USE DEF NodePages
  <2>1. np' \in NodePages /\ np'.calls = np.calls
        /\ (np'.access = NoId \/ np'.access = np'.filled \/ (np'.access = np.access /\ np'.filled = np.filled))
    <3>1. CASE \E n \in Ids : OpenNodeMenu(n) \/ OpenAccessEditor(n)
      BY <1>1, <1>2, <3>1, ZenonT(60) DEF OpenNodeMenu, OpenAccessEditor
    <3>2. CASE OpenSubmenu \/ CancelNode \/ ChooseHost
      BY <1>1, <3>2, ZenonT(60) DEF OpenSubmenu, CancelNode, ChooseHost
    <3>3. CASE EscapeNodes \/ CloseLogs \/ NewNode \/ CloseJoin \/ FoldRevoked
      BY <1>1, <1>2, <3>3, ZenonT(60) DEF EscapeNodes, CloseLogs, NewNode, CloseJoin, FoldRevoked
    <3>4. CASE AccessCancel
      BY <1>1, <1>2, <3>4, ZenonT(60) DEF AccessCancel, CloseAccessEditor
    <3>5. CASE \E v \in {"topo", "nodes", "machines"} : SetView(v) \/ JumpTo(v)
      BY <1>1, <3>5, ZenonT(60) DEF SetView, JumpTo
    <3>. QED  BY <1>5, <3>1, <3>2, <3>3, <3>4, <3>5
  <2>. QED  BY <1>5, <2>1, NodesPageMoves
<1>6. CASE /\ UNCHANGED nodeRows
           /\ \/ \E n \in Ids : OpenLogs(n) \/ \E op \in {"action", "version", "remove"} : NodeAction(n, op)
              \/ RefreshLogs \/ SubmitNode \/ AddMachine \/ MachineAction \/ PollNodes
              \/ \E op \in {"access", "clear"} : AccessSave(op)
  <2>1. PICK q \in NodePages, c \in NodeCalls : NodesPageWell(q) /\ NodeCallFits(c) /\ np' = Asked(q, c)
    <3>1. CASE \E n \in Ids : OpenLogs(n)
      <4>1. PICK n \in Ids : np' = Asked([closed EXCEPT !.logs = n], NodeCall("logs", n, NoId))
        BY <3>1 DEF OpenLogs
      <4>2. [closed EXCEPT !.logs = n] \in NodePages /\ NodesPageWell([closed EXCEPT !.logs = n])
        BY <1>1, <1>2 DEF NodesPageWell, NodePages
      <4>. QED  BY <1>2, <1>3, <4>1, <4>2
    <3>2. CASE \E n \in Ids, op \in {"action", "version", "remove"} : NodeAction(n, op)
      BY <1>1, <1>2, <1>3, <3>2 DEF NodeAction
    <3>3. CASE RefreshLogs
      <4>1. np.logs \in Names /\ NoId \in Names
        BY <1>1, <1>2 DEF NodePages
      <4>. QED  BY <1>1, <1>3, <3>3, <4>1 DEF RefreshLogs
    <3>4. CASE SubmitNode \/ AddMachine \/ MachineAction \/ PollNodes
      BY <1>1, <1>2, <1>3, <3>4 DEF SubmitNode, AddMachine, MachineAction, PollNodes
    <3>5. CASE \E op \in {"access", "clear"} : AccessSave(op)
      <4>1. PICK op \in {"access", "clear"} : AccessSave(op)
        BY <3>5
      <4>2. np.access \in Names /\ np.filled = np.access
        BY <1>1, <4>1 DEF AccessSave, NodesPageWell, NodePages
      <4>. QED  BY <1>1, <1>3, <4>1, <4>2 DEF AccessSave
    <3>. QED  BY <1>6, <3>1, <3>2, <3>3, <3>4, <3>5
  <2>. QED  BY <1>6, <2>1, NodesPageAsks
<1>7. CASE \E c \in np.calls : LogsAnswered(c) \/ MachineAnswered(c)
  BY <1>3, <1>7, NodesPageHears, NodesPageAsks DEF LogsAnswered, MachineAnswered
<1>8. CASE \E c \in np.calls, ok \in BOOLEAN :
             ActionAnswered(c, ok) \/ NodeFormAnswered(c, ok) \/ AccessAnswered(c, ok) \/ JoinAnswered(c, ok)
  <2>1. PICK c \in np.calls, ok \in BOOLEAN :
          ActionAnswered(c, ok) \/ NodeFormAnswered(c, ok) \/ AccessAnswered(c, ok) \/ JoinAnswered(c, ok)
    BY <1>8
  <2>. DEFINE over == Over(np, c)
  <2>2. NodesPageWell(over) /\ over \in NodePages
    BY NodesPageHears DEF NodesPageWell
  <2>3. \E q \in NodePages : /\ q.calls = over.calls
                             /\ q.access = NoId \/ (q.access = over.access /\ q.filled = over.filled)
                             /\ np' = q \/ np' = Asked(q, NodesLoad)
    <3>. HIDE DEF over
    <3>1. CASE ActionAnswered(c, ok)
      BY <2>2, <3>1 DEF ActionAnswered, over
    <3>2. CASE NodeFormAnswered(c, ok)
      BY <2>2, <3>2 DEF NodeFormAnswered, over, NodePages
    <3>3. CASE AccessAnswered(c, ok)
      BY <1>2, <2>2, <3>3 DEF AccessAnswered, CloseAccessEditor, over, NodePages
    <3>4. CASE JoinAnswered(c, ok)
      BY <2>2, <3>4 DEF JoinAnswered, over, NodePages
    <3>. QED  BY <2>1, <3>1, <3>2, <3>3, <3>4
  <2>4. NodesPageWell(np)'
    BY <1>3, <2>2, <2>3, NodesPageMoves, NodesPageAsks
  <2>5. nodeRows' \subseteq nodeRows \union Ids
    BY <2>1 DEF ActionAnswered, NodeFormAnswered, AccessAnswered, JoinAnswered
  <2>. QED  BY <2>4, <2>5 DEF Names
<1>9. CASE \E c \in np.calls, nodesOk, agentsOk \in BOOLEAN : NodesLoaded(c, nodesOk, agentsOk)
  <2>1. PICK c \in np.calls : \E nodesOk, agentsOk \in BOOLEAN : NodesLoaded(c, nodesOk, agentsOk)
    BY <1>9
  <2>. DEFINE over == Over(np, c)
              q == CloseNodeMenu(over)
  <2>2. NodesPageWell(over) /\ NodesPageWell(q) /\ q \in NodePages
    BY NodesPageHears, MenuCloses DEF NodesPageWell
  <2>. HIDE DEF q
  <2>3. \/ np' = over
        \/ \E place \in {"here", "remote"}, fold \in BOOLEAN :
              np' = [q EXCEPT !.listed = nodeRows, !.host = place, !.fold = fold]
    <3>1. q.host \in {"here", "remote"} /\ q.fold \in BOOLEAN
      BY <2>2 DEF NodePages
    <3>. QED  BY <2>1, <3>1 DEF NodesLoaded, q
  <2>4. NodesPageWell(np)'
    <3>1. ASSUME NEW place \in {"here", "remote"}, NEW fold \in BOOLEAN
          PROVE  NodesPageWell([q EXCEPT !.listed = nodeRows, !.host = place, !.fold = fold])
      BY <2>2 DEF NodesPageWell, NodePages
    <3>. QED  BY <2>2, <2>3, <3>1
  <2>. QED  BY <2>1, <2>4 DEF NodesLoaded
<1>. QED  BY <1>4, <1>5, <1>6, <1>7, <1>8, <1>9 DEF NodesNext

(* The page of the services: a declaration made in the drawer holds nothing *)
(* of a service that was edited before.                                     *)
ServiceForm == [id : Names, shown : Names, kept : Names]
ServiceCalls == [op : {"services", "context", "preview", "apply", "delete"}, draft : ServiceForm,
                 hash : Nat, from : {"page", "drawer", "form"}]

ServicePages ==
  [param : Names, snapshot : SUBSET Names, listed : SUBSET Names, known : SUBSET Names, hash : Nat,
   menu : Names, view : {"list", "detail", "form"}, detail : Names, editing : Names, locked : BOOLEAN,
   drawer : BOOLEAN, draft : ServiceForm, timer : BOOLEAN, calls : SUBSET ServiceCalls]

IsNew(draft) == draft.shown = Fresh /\ draft.kept = Fresh
ServiceCallFits(c) == c.op = "apply" /\ c.from = "drawer" => IsNew(c.draft)

ServicesPageWell(p) ==
  /\ p \in ServicePages
  /\ p.drawer => IsNew(p.draft)
  /\ \A c \in p.calls : ServiceCallFits(c)

LEMMA ServicesPageAsks ==
  ASSUME NEW p, ServicesPageWell(p), NEW c \in ServiceCalls, ServiceCallFits(c)
  PROVE  ServicesPageWell(Asked(p, c))
BY DEF ServicesPageWell, ServicePages, Asked

LEMMA ServicesPageHears ==
  ASSUME NEW p, ServicesPageWell(p), NEW c
  PROVE  ServicesPageWell(Over(p, c))
BY DEF ServicesPageWell, ServicePages, Over

LEMMA ServicesPageMoves ==
  ASSUME NEW p, ServicesPageWell(p), NEW q \in ServicePages,
         q.calls = p.calls, q.drawer => IsNew(q.draft)
  PROVE  ServicesPageWell(q)
BY DEF ServicesPageWell

(* The drawer opens on an empty form.                                       *)
LEMMA EditorOpens ==
  ASSUME NEW p, ServicesPageWell(p)
  PROVE  ServicesPageWell(EditorOpened(p)) /\ EditorOpened(p) \in ServicePages
<1>. DEFINE form == [id |-> NoId, shown |-> Fresh, kept |-> Fresh]
            q == EditorOpened(p)
<1>1. form \in ServiceForm /\ IsNew(form) /\ NoId \in Names
  BY DEF ServiceForm, IsNew, Names
<1>2. p \in ServicePages
  BY DEF ServicesPageWell
<1>3. q \in ServicePages /\ q.calls = p.calls /\ q.draft = form
  <2>1. ResetDraft([p EXCEPT !.editing = NoId]) = [p EXCEPT !.editing = NoId, !.draft = form]
    BY DEF ResetDraft
  <2>. HIDE DEF form
  <2>. QED  BY <1>1, <1>2, <2>1 DEF EditorOpened, SchedulePreview, RenderForm, ServicePages
<1>. HIDE DEF q, form
<1>4. ServicesPageWell(q)
  BY <1>1, <1>3, ServicesPageMoves
<1>. QED  BY <1>3, <1>4 DEF q

LEMMA ListIsDrawn ==
  ASSUME NEW p, ServicesPageWell(p)
  PROVE  ServicesPageWell(Drawn(p))
<1>. DEFINE q == Drawn(p)
<1>1. q \in ServicePages /\ q.calls = p.calls /\ q.drawer = p.drawer /\ q.draft = p.draft
  BY ZenonT(60) DEF Drawn, Clicked, ServicesPageWell, ServicePages, Names
<1>. HIDE DEF q
<1>2. ServicesPageWell(q)
  BY <1>1, ServicesPageMoves DEF ServicesPageWell
<1>. QED  BY <1>2 DEF q

LEMMA ServicesPageOpens ==
  ASSUME NEW s \in Names
  PROVE  ServicesPageWell(ServicesPage(s))
<1>1. LoadCall \in ServiceCalls /\ ServiceCallFits(LoadCall)
  BY DEF LoadCall, ServiceCall, NoDraft, ServiceCalls, ServiceForm, ServiceCallFits, Names
<1>. HIDE DEF LoadCall
<1>. QED  BY <1>1 DEF ServicesPageWell, ServicesPage, ServicePages, ServiceForm, IsNew, Names

LEMMA ServicesPageStep ==
  ASSUME ServicesPageWell(sp), serviceRows \subseteq Names, fileHash \in Nat, [ServicesNext]_servicesVars
  PROVE  ServicesPageWell(sp)' /\ serviceRows' \subseteq Names /\ fileHash' \in Nat
<1>. DEFINE still == UNCHANGED <<serviceRows, fileHash>>
<1>1. sp \in ServicePages /\ sp.draft \in ServiceForm /\ sp.hash \in Nat
  BY DEF ServicesPageWell, ServicePages
<1>2. /\ \A n \in Ids \union {NoId, Fresh} : n \in Names
      /\ NoDraft \in ServiceForm
      /\ \A n \in Names : [NoDraft EXCEPT !.id = n] \in ServiceForm
  BY DEF Names, NoDraft, ServiceForm
<1>3. /\ \A op \in {"services", "context", "preview", "delete"}, draft \in ServiceForm :
            ServiceCall(op, draft, 0, "page") \in ServiceCalls /\ ServiceCallFits(ServiceCall(op, draft, 0, "page"))
      /\ LoadCall \in ServiceCalls /\ ServiceCallFits(LoadCall)
  BY <1>2 DEF ServiceCall, ServiceCalls, ServiceCallFits, LoadCall
<1>4. CASE UNCHANGED servicesVars
  BY <1>4 DEF servicesVars
<1>5. CASE /\ still
           /\ \/ \E s \in Ids : ServiceMenu(s) \/ OpenDetail(s) \/ OpenEdit(s) \/ TypeId(s)
              \/ EscapeServices \/ BackToServices \/ LeaveServiceForm \/ CancelDrawer
              \/ TypeField \/ ChoosePlacement
  <2>. USE DEF ServicePages
  <2>1. sp' \in ServicePages /\ sp'.calls = sp.calls /\ (sp'.drawer => IsNew(sp'.draft))
    <3>1. CASE \E s \in Ids : ServiceMenu(s) \/ OpenDetail(s)
      BY <1>1, <1>2, <3>1, ZenonT(60) DEF ServiceMenu, OpenDetail, ServicesPageWell
    <3>2. CASE \E s \in Ids : OpenEdit(s)
      <4>1. PICK s \in Ids : OpenEdit(s)
        BY <3>2
      <4>. DEFINE d == IF s \in sp.known THEN [id |-> s, shown |-> s, kept |-> s] ELSE sp.draft
      <4>2. d \in ServiceForm
        BY <1>1, <1>2 DEF ServiceForm
      <4>3. LoadDraft([sp EXCEPT !.editing = s, !.menu = NoId], s)
              = [sp EXCEPT !.editing = s, !.menu = NoId, !.draft = d]
        BY <1>1 DEF LoadDraft
      <4>. HIDE DEF d
      <4>4. sp' \in ServicePages /\ sp'.calls = sp.calls /\ sp'.drawer = sp.drawer
        BY <1>1, <1>2, <4>1, <4>2, <4>3, ZenonT(60) DEF OpenEdit, SchedulePreview, RenderForm
      <4>. QED  BY <4>1, <4>4 DEF OpenEdit
    <3>3. CASE \E s \in Ids : TypeId(s)
      <4>1. PICK s \in Ids : TypeId(s)
        BY <3>3
      <4>. DEFINE d == [sp.draft EXCEPT !.id = s]
      <4>2. d \in ServiceForm /\ d.shown = sp.draft.shown /\ d.kept = sp.draft.kept
        BY <1>1, <1>2 DEF ServiceForm
      <4>3. sp' = [sp EXCEPT !.draft = d, !.timer = TRUE]
        BY <1>1, <4>1 DEF TypeId, SchedulePreview
      <4>. HIDE DEF d
      <4>. QED  BY <1>1, <4>2, <4>3 DEF ServicesPageWell, IsNew
    <3>4. CASE EscapeServices \/ BackToServices \/ LeaveServiceForm
      BY <1>1, <1>2, <3>4, ZenonT(60) DEF EscapeServices, BackToServices, LeaveServiceForm, Clicked, ServicesPageWell
    <3>5. CASE CancelDrawer
      BY <1>1, <1>2, <3>5, ZenonT(60) DEF CancelDrawer, CloseEditor
    <3>6. CASE TypeField \/ ChoosePlacement
      BY <1>1, <3>6, ZenonT(60) DEF TypeField, ChoosePlacement, SchedulePreview, RenderForm, ServicesPageWell
    <3>. QED  BY <1>5, <3>1, <3>2, <3>3, <3>4, <3>5, <3>6
  <2>. QED  BY <1>5, <2>1, ServicesPageMoves
<1>6. CASE still /\ (OpenEditor \/ ReloadServices)
  <2>1. CASE OpenEditor
    <3>. DEFINE q == Clicked(sp)
    <3>1. q \in ServicePages /\ q.calls = sp.calls /\ q.drawer = sp.drawer /\ q.draft = sp.draft
      BY <1>1, <1>2 DEF Clicked, ServicePages
    <3>. HIDE DEF q
    <3>2. ServicesPageWell(q)
      BY <3>1, ServicesPageMoves DEF ServicesPageWell
    <3>. QED  BY <1>6, <2>1, <3>2, EditorOpens DEF OpenEditor, q
  <2>2. CASE ReloadServices
    BY <1>2, <1>6, <2>2, ServicesPageOpens DEF ReloadServices
  <2>. QED  BY <1>6, <2>1, <2>2
<1>7. CASE still /\ (RunPreview \/ Apply \/ PollServices \/ \E s \in Ids : DeleteClicked(s))
  <2>1. \/ sp' \in ServicePages /\ sp'.calls = sp.calls /\ sp'.drawer = sp.drawer /\ sp'.draft = sp.draft
        \/ \E q \in ServicePages, c \in ServiceCalls :
              /\ q.calls = sp.calls /\ q.drawer = sp.drawer /\ q.draft = sp.draft
              /\ ServiceCallFits(c) /\ sp' = Asked(q, c)
    <3>1. CASE RunPreview
      <4>1. [sp EXCEPT !.timer = FALSE] \in ServicePages
        BY <1>1 DEF ServicePages
      <4>. QED  BY <1>1, <1>3, <3>1, <4>1 DEF RunPreview, ServicePages
    <3>2. CASE Apply
      <4>. DEFINE c == ServiceCall("apply", sp.draft, sp.hash, IF sp.drawer THEN "drawer" ELSE "form")
                  q == Clicked(sp)
      <4>1. c \in ServiceCalls /\ ServiceCallFits(c)
        BY <1>1 DEF ServiceCall, ServiceCalls, ServiceCallFits, ServicesPageWell, ServicePages
      <4>2. q \in ServicePages /\ q.calls = sp.calls /\ q.drawer = sp.drawer /\ q.draft = sp.draft
        BY <1>1, <1>2 DEF Clicked, ServicePages
      <4>3. sp' = Asked(q, c)
        BY <3>2 DEF Apply
      <4>. HIDE DEF c, q
      <4>. QED  BY <4>1, <4>2, <4>3
    <3>3. CASE PollServices
      BY <1>1, <1>3, <3>3 DEF PollServices
    <3>4. CASE \E s \in Ids : DeleteClicked(s)
      <4>1. [sp EXCEPT !.menu = NoId] \in ServicePages
        BY <1>1, <1>2 DEF ServicePages
      <4>2. PICK s \in Ids : sp' = Asked([sp EXCEPT !.menu = NoId],
                                          ServiceCall("delete", [NoDraft EXCEPT !.id = s], 0, "page"))
        BY <3>4 DEF DeleteClicked
      <4>3. [NoDraft EXCEPT !.id = s] \in ServiceForm
        BY <1>2
      <4>. QED  BY <1>1, <1>3, <4>1, <4>2, <4>3 DEF ServicePages
    <3>. QED  BY <1>7, <3>1, <3>2, <3>3, <3>4
  <2>2. ServicesPageWell(sp)'
    BY <2>1, ServicesPageMoves, ServicesPageAsks DEF ServicesPageWell
  <2>. QED  BY <1>7, <2>2
<1>8. CASE still /\ \E c \in sp.calls : PreviewAnswered(c)
  BY <1>8, ServicesPageHears DEF PreviewAnswered
<1>9. CASE still /\ \E c \in sp.calls, ok \in BOOLEAN : SnapshotAnswered(c, ok)
  <2>1. PICK c \in sp.calls, ok \in BOOLEAN : SnapshotAnswered(c, ok)
    BY <1>9
  <2>. DEFINE over == Over(sp, c)
              q == IF ok THEN [over EXCEPT !.snapshot = serviceRows] ELSE over
  <2>2. ServicesPageWell(over)
    BY ServicesPageHears
  <2>. HIDE DEF over
  <2>3. q \in ServicePages /\ q.calls = over.calls /\ q.drawer = over.drawer /\ q.draft = over.draft
    BY <2>2 DEF ServicesPageWell, ServicePages
  <2>4. sp' = Asked(q, ServiceCall("context", NoDraft, 0, "page"))
    BY <2>1 DEF SnapshotAnswered, over
  <2>. HIDE DEF q
  <2>5. ServicesPageWell(q)
    BY <2>2, <2>3, ServicesPageMoves DEF ServicesPageWell
  <2>. QED  BY <1>2, <1>3, <1>9, <2>4, <2>5, ServicesPageAsks
<1>10. CASE still /\ \E c \in sp.calls, ok \in BOOLEAN : ContextAnswered(c, ok)
  <2>1. PICK c \in sp.calls, ok \in BOOLEAN : ContextAnswered(c, ok)
    BY <1>10
  <2>. DEFINE over == Over(sp, c)
              q == IF ok THEN [over EXCEPT !.known = serviceRows, !.hash = fileHash] ELSE over
              drawn == Drawn(q)
              moved == EditorOpened(drawn)
  <2>2. ServicesPageWell(over)
    BY ServicesPageHears
  <2>. HIDE DEF over
  <2>3. q \in ServicePages /\ q.calls = over.calls /\ q.drawer = over.drawer /\ q.draft = over.draft
    BY <2>2 DEF ServicesPageWell, ServicePages
  <2>4. sp' = IF q.param = Fresh THEN [moved EXCEPT !.param = NoId]
              ELSE IF q.view = "list" /\ q.param \in q.snapshot
              THEN [drawn EXCEPT !.detail = q.param, !.view = "detail"] ELSE drawn
    BY <2>1 DEF ContextAnswered, over
  <2>. HIDE DEF q
  <2>5. ServicesPageWell(drawn) /\ ServicesPageWell(moved)
    BY <2>2, <2>3, ServicesPageMoves, ListIsDrawn, EditorOpens DEF ServicesPageWell
  <2>6. q.param \in Names /\ NoId \in Names
    BY <1>2, <2>3 DEF ServicePages
  <2>. HIDE DEF drawn, moved
  <2>7. /\ ServicesPageWell([moved EXCEPT !.param = NoId])
        /\ ServicesPageWell([drawn EXCEPT !.detail = q.param, !.view = "detail"])
    BY <2>5, <2>6 DEF ServicesPageWell, ServicePages
  <2>. QED  BY <1>10, <2>4, <2>5, <2>7
<1>11. CASE \E c \in sp.calls, ok \in BOOLEAN : ApplyAnswered(c, ok) \/ DeleteAnswered(c, ok)
  <2>1. PICK c \in sp.calls, ok \in BOOLEAN : ApplyAnswered(c, ok) \/ DeleteAnswered(c, ok)
    BY <1>11
  <2>. DEFINE over == Over(sp, c)
  <2>2. ServicesPageWell(over) /\ over \in ServicePages
    BY ServicesPageHears DEF ServicesPageWell
  <2>. HIDE DEF over
  <2>3. \/ sp' = over
        \/ sp' = Asked(CloseEditor(over), LoadCall)
        \/ sp' = Asked([over EXCEPT !.detail = NoId, !.view = "list"], LoadCall)
    BY <2>1 DEF ApplyAnswered, DeleteAnswered, over
  <2>4. ServicesPageWell(CloseEditor(over)) /\ ServicesPageWell([over EXCEPT !.detail = NoId, !.view = "list"])
    BY <1>2, <2>2 DEF ServicesPageWell, ServicePages, CloseEditor
  <2>5. ServicesPageWell(sp)'
    BY <1>3, <2>2, <2>3, <2>4, ServicesPageAsks
  <2>6. serviceRows' \subseteq Names /\ fileHash' \in Nat
    <3>1. c.draft.id \in Names
      BY DEF ServicesPageWell, ServicePages, ServiceCalls, ServiceForm
    <3>. QED  BY <2>1, <3>1 DEF ApplyAnswered, DeleteAnswered
  <2>. QED  BY <2>5, <2>6
<1>. QED  BY <1>4, <1>5, <1>6, <1>7, <1>8, <1>9, <1>10, <1>11 DEF ServicesNext

(* The page of the keys: a form that can be submitted as an edit holds the  *)
(* values of the key that is edited.  That it does is seen from where forms *)
(* can be: in the drawer or in the edit view; and while the first list is   *)
(* awaited, which may open a key, there is none, and nothing else awaited.  *)
KeyForms == [text : Names, grants : Names]
KeyCalls == [op : {"list", "detail", "edit", "revoke", "refresh", "patch", "create"}, key : Names,
             form : KeyForms, then : {"open", "nothing", "refresh", "list", "leave"}]

KeyPages ==
  [listed : SUBSET Names, menu : Names, view : {"list", "detail", "form"}, subject : Names,
   mode : {"create", "edit"}, edit : KeyForms, drawer : {"closed", "form", "issued"}, own : KeyForms,
   draft : KeyForms, examples : Names, calls : SUBSET KeyCalls]

StartsAForm(c) == c.op = "list" /\ c.then = "open"
KeyCallFits(c) == c.op = "patch" => c.form = FormOf(c.key)

FormFits(p) ==
  (p.drawer = "form" \/ p.view = "form") /\ p.mode = "edit" /\ p.subject # NoId => p.edit = FormOf(p.subject)

KeysPageWell(p) ==
  /\ p \in KeyPages /\ FormFits(p)
  /\ \A c \in p.calls : /\ KeyCallFits(c)
                        /\ StartsAForm(c) => p.drawer = "closed" /\ p.view = "list"
  /\ \A c, d \in p.calls : StartsAForm(c) => c = d

LEMMA KeysPageAsks ==
  ASSUME NEW p, KeysPageWell(p), NEW c \in KeyCalls, KeyCallFits(c), ~StartsAForm(c),
         \A d \in p.calls : ~StartsAForm(d)
  PROVE  KeysPageWell(Asked(p, c))
<1>. DEFINE q == Asked(p, c)
<1>1. q = [p EXCEPT !.calls = p.calls \union {c}] /\ p \in KeyPages
  BY DEF Asked, KeysPageWell, KeyPages
<1>2. /\ q \in KeyPages /\ q.calls = p.calls \union {c} /\ q.drawer = p.drawer /\ q.view = p.view
      /\ q.mode = p.mode /\ q.subject = p.subject /\ q.edit = p.edit
  BY <1>1 DEF KeyPages
<1>. HIDE DEF q
<1>3. KeysPageWell(q)
  BY <1>2 DEF KeysPageWell, FormFits
<1>. QED  BY <1>3 DEF q

(* Steps that fill no form: one may be closed, and left.                    *)
LEMMA KeysPageMoves ==
  ASSUME NEW p, KeysPageWell(p), NEW q \in KeyPages, q.calls \subseteq p.calls,
         q.mode = p.mode, q.edit = p.edit, q.subject \in {p.subject, NoId},
         q.view \in {p.view, "list", "detail"}, q.drawer \in {p.drawer, "closed", "issued"},
         (\E c \in q.calls : StartsAForm(c)) => q.view = p.view /\ q.drawer = p.drawer
  PROVE  KeysPageWell(q)
BY DEF KeysPageWell, FormFits

LEMMA KeysPageHears ==
  ASSUME NEW p, KeysPageWell(p), NEW c
  PROVE  KeysPageWell(Over(p, c)) /\ Over(p, c) \in KeyPages
<1>. DEFINE q == Over(p, c)
<1>1. q = [p EXCEPT !.calls = p.calls \ {c}] /\ p \in KeyPages
  BY DEF Over, KeysPageWell, KeyPages
<1>2. /\ q \in KeyPages /\ q.calls \subseteq p.calls /\ q.drawer = p.drawer /\ q.view = p.view
      /\ q.mode = p.mode /\ q.subject = p.subject /\ q.edit = p.edit
  BY <1>1 DEF KeyPages
<1>. HIDE DEF q
<1>3. KeysPageWell(q)
  BY <1>2, KeysPageMoves
<1>. QED  BY <1>2, <1>3 DEF q

LEMMA KeyCallsAre ==
  /\ \A op \in {"list", "detail", "edit", "revoke", "refresh", "create"}, k \in Names, form \in KeyForms,
        then \in {"open", "nothing", "refresh", "list", "leave"} :
        /\ KeyCall(op, k, form, then) \in KeyCalls /\ KeyCallFits(KeyCall(op, k, form, then))
        /\ op # "list" \/ then # "open" => ~StartsAForm(KeyCall(op, k, form, then))
  /\ \A k \in Names, form \in KeyForms :
        /\ KeyCall("patch", k, form, "nothing") \in KeyCalls /\ ~StartsAForm(KeyCall("patch", k, form, "nothing"))
        /\ form = FormOf(k) => KeyCallFits(KeyCall("patch", k, form, "nothing"))
  /\ NoForm \in KeyForms /\ FreshForm \in KeyForms /\ \A k \in Names : FormOf(k) \in KeyForms
  /\ NoId \in Names /\ Fresh \in Names /\ \A k \in Ids : k \in Names
BY DEF KeyCall, KeyCalls, KeyCallFits, StartsAForm, KeyForms, NoForm, FreshForm, FormOf, Names

(* The detail of a key opens: where a form may be open, that of its key.    *)
LEMMA DetailOpens ==
  ASSUME NEW p, KeysPageWell(p), NEW k \in Names, NEW then \in {"open", "nothing", "list"},
         \A c \in p.calls : ~StartsAForm(c), p.drawer # "form" \/ k = p.subject
  PROVE  KeysPageWell(OpenKeyDetail(p, k, then))
<1>. DEFINE q == [p EXCEPT !.subject = k, !.view = "detail", !.menu = NoId]
            c == KeyCall("detail", k, NoForm, then)
<1>1. p \in KeyPages
  BY DEF KeysPageWell
<1>2. /\ q \in KeyPages /\ q.calls = p.calls /\ q.drawer = p.drawer /\ q.view = "detail"
      /\ q.mode = p.mode /\ q.subject = k /\ q.edit = p.edit
  BY <1>1, KeyCallsAre DEF KeyPages
<1>3. c \in KeyCalls /\ KeyCallFits(c) /\ ~StartsAForm(c)
  BY KeyCallsAre
<1>4. OpenKeyDetail(p, k, then) = Asked(q, c)
  BY DEF OpenKeyDetail
<1>. HIDE DEF q, c
<1>5. KeysPageWell(q)
  BY <1>2 DEF KeysPageWell, FormFits
<1>. QED  BY <1>2, <1>3, <1>4, <1>5, KeysPageAsks

LEMMA FormIsFilled ==
  ASSUME NEW p, p \in KeyPages, NEW form \in KeyForms
  PROVE  LET q == FillForm(p, form)
         IN /\ q \in KeyPages /\ q.calls = p.calls /\ q.drawer = p.drawer /\ q.view = p.view
            /\ q.mode = p.mode /\ q.subject = p.subject
<1>. DEFINE edit == [p.edit EXCEPT !.text = form.text]
            own == [p.own EXCEPT !.text = form.text]
<1>1. edit \in KeyForms /\ own \in KeyForms
  BY DEF KeyPages, KeyForms
<1>2. FillForm(p, form) = IF p.edit # NoForm THEN [p EXCEPT !.edit = edit] ELSE [p EXCEPT !.own = own]
  BY DEF FillForm, KeyPages
<1>. HIDE DEF edit, own
<1>. QED  BY <1>1, <1>2 DEF KeyPages

(* The drawer opens: its form is one to create a key with.                  *)
LEMMA DrawerOpens ==
  ASSUME NEW p, KeysPageWell(p), \A c \in p.calls : ~StartsAForm(c)
  PROVE  KeysPageWell(DrawerOpened(p))
<1>. DEFINE moved == [p EXCEPT !.mode = "create", !.drawer = "form", !.own = FreshForm]
            q == DrawerOpened(p)
<1>1. p \in KeyPages /\ p.draft \in KeyForms
  BY DEF KeysPageWell, KeyPages
<1>2. /\ moved \in KeyPages /\ moved.calls = p.calls /\ moved.mode = "create"
  BY <1>1, KeyCallsAre DEF KeyPages
<1>3. q = IF p.draft = NoForm THEN moved ELSE FillForm(moved, p.draft)
  BY DEF DrawerOpened
<1>. HIDE DEF moved, q
<1>4. q \in KeyPages /\ q.calls = p.calls /\ q.mode = "create"
  BY <1>1, <1>2, <1>3, FormIsFilled
<1>5. KeysPageWell(q)
  BY <1>4 DEF KeysPageWell, FormFits
<1>. QED  BY <1>5 DEF q

LEMMA KeysPageOpens ==
  ASSUME NEW k \in Names, NEW form \in KeyForms
  PROVE  KeysPageWell(KeysPage(k)) /\ KeysPageWell([KeysPage(k) EXCEPT !.draft = form])
<1>. DEFINE c == KeyCall("list", k, NoForm, "open")
            p == KeysPage(k)
            q == [p EXCEPT !.draft = form]
<1>1. c \in KeyCalls /\ KeyCallFits(c)
  BY KeyCallsAre
<1>2. p.calls = {c} /\ p.drawer = "closed" /\ p.view = "list"
  BY DEF KeysPage
<1>. HIDE DEF c
<1>3. p \in KeyPages
  BY <1>1, KeyCallsAre DEF KeysPage, KeyPages, c
<1>. HIDE DEF p
<1>4. q \in KeyPages /\ q.calls = {c} /\ q.drawer = "closed" /\ q.view = "list"
  BY <1>2, <1>3 DEF KeyPages
<1>. HIDE DEF q
<1>5. KeysPageWell(p) /\ KeysPageWell(q)
  BY <1>1, <1>2, <1>3, <1>4 DEF KeysPageWell, FormFits
<1>. QED  BY <1>5 DEF p, q

LEMMA KeysPageStep ==
  ASSUME KeysPageWell(kp), [KeysNext]_keysVars
  PROVE  KeysPageWell(kp)'
<1>1. kp \in KeyPages /\ \A c \in kp.calls : c.key \in Names
  BY DEF KeysPageWell, KeyPages, KeyCalls
<1>2. Started <=> \A c \in kp.calls : ~StartsAForm(c)
  BY DEF Started, StartsAForm
<1>3. CASE UNCHANGED keysVars
  BY <1>3 DEF keysVars
<1>4. CASE \/ \E k \in Ids : KeyMenu(k) \/ KeyExamples(k)
           \/ EscapeKeys \/ BackToKeys \/ LeaveKeyForm \/ TypeInDrawer \/ CloseDrawer \/ CancelForm
  <2>1. /\ kp' \in KeyPages /\ kp'.calls = kp.calls /\ kp'.mode = kp.mode /\ kp'.edit = kp.edit
        /\ kp'.subject \in {kp.subject, NoId}
        /\ kp'.view \in {kp.view, "list", "detail"} /\ kp'.drawer \in {kp.drawer, "closed"}
        /\ (kp'.view = kp.view /\ kp'.drawer = kp.drawer) \/ Started \/ kp.drawer # "closed"
    <3>. USE KeyCallsAre DEF KeyPages
    <3>1. CASE \E k \in Ids : KeyMenu(k) \/ KeyExamples(k)
      BY <1>1, <3>1 DEF KeyMenu, KeyExamples
    <3>2. CASE EscapeKeys
      BY <1>1, <3>2 DEF EscapeKeys, CloseKeyExamples
    <3>3. CASE BackToKeys \/ LeaveKeyForm
      BY <1>1, <3>3 DEF BackToKeys, LeaveKeyForm, Clicked, Uncovered
    <3>4. CASE TypeInDrawer
      <4>1. ReadForm \in KeyForms
        BY <1>1 DEF ReadForm
      <4>. QED  BY <1>1, <3>4, <4>1 DEF TypeInDrawer
    <3>5. CASE CloseDrawer \/ CancelForm
      BY <1>1, <3>5 DEF CloseDrawer, CancelForm, CloseCreateDrawer
    <3>. QED  BY <1>4, <3>1, <3>2, <3>3, <3>4, <3>5
  <2>2. (\E c \in kp.calls : StartsAForm(c)) => kp.drawer = "closed"
    BY DEF KeysPageWell
  <2>. QED  BY <1>2, <2>1, <2>2, KeysPageMoves
<1>5. CASE \/ \E k \in Ids : OpenKeyEdit(k) \/ RevokeKey(k)
           \/ FilterKeys \/ PollKeys
  <2>1. PICK q \in {kp, Clicked(kp)}, c \in KeyCalls : KeyCallFits(c) /\ ~StartsAForm(c) /\ kp' = Asked(q, c)
    BY <1>5, KeyCallsAre DEF OpenKeyEdit, RevokeKey, FilterKeys, PollKeys, Clicked
  <2>1a. \A d \in kp.calls : ~StartsAForm(d)
    BY <1>2, <1>5 DEF OpenKeyEdit, RevokeKey, FilterKeys, PollKeys, Uncovered, StartsAForm
  <2>2. KeysPageWell(q) /\ q.calls = kp.calls
    <3>1. CASE q = kp
      BY <3>1
    <3>2. CASE q = Clicked(kp)
      <4>1. /\ q \in KeyPages /\ q.calls = kp.calls /\ q.mode = kp.mode /\ q.edit = kp.edit
            /\ q.subject = kp.subject /\ q.view = kp.view /\ q.drawer = kp.drawer
        BY <1>1, <3>2, KeyCallsAre DEF Clicked, KeyPages
      <4>. QED  BY <4>1, KeysPageMoves
    <3>. QED  BY <3>1, <3>2
  <2>. QED  BY <2>1, <2>2, <2>1a, KeysPageAsks
<1>6. CASE KeyDone
  <2>. DEFINE q == CloseCreateDrawer(kp)
              c == KeyCall("list", NoId, NoForm, "nothing")
  <2>1. /\ q \in KeyPages /\ q.calls = kp.calls /\ q.mode = kp.mode /\ q.edit = kp.edit
        /\ q.subject = kp.subject /\ q.view = kp.view /\ q.drawer = "closed"
    BY <1>1 DEF CloseCreateDrawer, KeyPages
  <2>2. \A d \in kp.calls : ~StartsAForm(d)
    BY <1>6 DEF KeyDone, KeysPageWell
  <2>3. kp' = Asked(q, c) /\ c \in KeyCalls /\ KeyCallFits(c) /\ ~StartsAForm(c)
    BY <1>6, KeyCallsAre DEF KeyDone
  <2>. HIDE DEF q, c
  <2>4. KeysPageWell(q)
    BY <2>1, <2>2, KeysPageMoves
  <2>. QED  BY <2>1, <2>2, <2>3, <2>4, KeysPageAsks
<1>7. CASE \E k \in Ids : KeyDetail(k)
  BY <1>2, <1>7, KeyCallsAre, DetailOpens DEF KeyDetail, Uncovered
<1>8. CASE OpenCreateDrawer
  <2>. DEFINE q == Clicked(kp)
  <2>1. /\ q \in KeyPages /\ q.calls = kp.calls /\ q.mode = kp.mode /\ q.edit = kp.edit
        /\ q.subject = kp.subject /\ q.view = kp.view /\ q.drawer = kp.drawer
    BY <1>1, KeyCallsAre DEF Clicked, KeyPages
  <2>2. kp' = DrawerOpened(q) /\ \A c \in kp.calls : ~StartsAForm(c)
    BY <1>2, <1>8 DEF OpenCreateDrawer, Uncovered
  <2>. HIDE DEF q
  <2>3. KeysPageWell(q)
    BY <2>1, KeysPageMoves
  <2>. QED  BY <2>1, <2>2, <2>3, DrawerOpens
<1>9. CASE ReloadKeys
  <2>1. kp.draft \in KeyForms
    BY <1>1 DEF KeyPages
  <2>2. PICK k \in Ids \union {NoId, Fresh} : kp' = [KeysPage(k) EXCEPT !.draft = kp.draft]
    BY <1>9 DEF ReloadKeys
  <2>3. k \in Names
    BY DEF Names
  <2>. QED  BY <2>1, <2>2, <2>3, KeysPageOpens
<1>10. CASE SubmitForm
  <2>. DEFINE q == Clicked(kp)
  <2>1. /\ q \in KeyPages /\ q.calls = kp.calls /\ q.mode = kp.mode /\ q.edit = kp.edit
        /\ q.subject = kp.subject /\ q.view = kp.view /\ q.drawer = kp.drawer
    BY <1>1, KeyCallsAre DEF Clicked, KeyPages
  <2>2. KeysPageWell(q)
    <3>. HIDE DEF q
    <3>. QED  BY <2>1, KeysPageMoves
  <2>3. ReadForm \in KeyForms /\ kp.subject \in Names
    BY <1>1 DEF ReadForm, KeyPages
  <2>3a. \A d \in q.calls : ~StartsAForm(d)
    BY <1>10, <2>1 DEF SubmitForm, KeysPageWell
  <2>4. CASE kp.mode = "edit" /\ kp.subject # NoId /\ kp' = Asked(q, KeyCall("patch", kp.subject, ReadForm, "nothing"))
    <3>1. kp.edit = FormOf(kp.subject)
      BY <1>10, <2>4 DEF SubmitForm, KeysPageWell, FormFits
    <3>2. ReadForm = FormOf(kp.subject)
      BY <2>4, <3>1 DEF ReadForm, FormOf, NoForm
    <3>. QED  BY <2>2, <2>3, <2>4, <2>3a, <3>2, KeyCallsAre, KeysPageAsks
  <2>5. CASE kp' = Asked(q, KeyCall("create", NoId, ReadForm, "nothing"))
    BY <2>2, <2>3, <2>5, <2>3a, KeyCallsAre, KeysPageAsks
  <2>. QED  BY <1>10, <2>4, <2>5 DEF SubmitForm
<1>11. ASSUME NEW c \in kp.calls, NEW ok \in BOOLEAN,
              \/ ListAnswered(c, ok) \/ DetailAnswered(c, ok) \/ EditAnswered(c, ok)
              \/ PatchAnswered(c, ok) \/ CreateAnswered(c, ok) \/ RevokeAnswered(c, ok)
       PROVE  KeysPageWell(kp)'
  <2>. DEFINE over == Over(kp, c)
              again(then) == KeyCall("list", NoId, NoForm, then)
  <2>1. KeysPageWell(over) /\ over \in KeyPages
    BY KeysPageHears
  <2>2. /\ over.drawer = kp.drawer /\ over.view = kp.view /\ over.subject = kp.subject
        /\ over.calls = kp.calls \ {c} /\ over.subject \in Names
    BY <1>1 DEF Over, KeyPages
  <2>3. /\ \A d \in over.calls : ~StartsAForm(d)
        /\ StartsAForm(c) => over.drawer = "closed"
    BY <2>2 DEF KeysPageWell
  <2>. HIDE DEF over
  <2>4. CASE ListAnswered(c, ok)
    <3>. DEFINE page == IF ok THEN RenderList(over) ELSE over
    <3>1. /\ page \in KeyPages /\ page.calls = over.calls /\ page.drawer = over.drawer /\ page.view = over.view
          /\ page.subject = over.subject /\ page.mode = over.mode /\ page.edit = over.edit
      BY <2>1, KeyCallsAre, ZenonT(60) DEF RenderList, KeyPages, Names
    <3>2. kp' = IF c.then = "leave" /\ page.subject = c.key
                THEN [page EXCEPT !.subject = NoId, !.view = "list"]
                ELSE IF c.then = "refresh" /\ page.subject # NoId /\ page.view = "detail"
                THEN Asked(page, KeyCall("refresh", page.subject, NoForm, "nothing"))
                ELSE IF c.then = "open" /\ c.key \in Ids /\ page.subject # c.key
                THEN OpenKeyDetail(page, c.key, "open")
                ELSE IF c.then = "open" /\ c.key = Fresh
                THEN DrawerOpened(page)
                ELSE page
      BY <2>4 DEF ListAnswered, over
    <3>. HIDE DEF page
    <3>3. KeysPageWell(page)
      BY <2>1, <3>1, KeysPageMoves
    <3>3a. \A d \in page.calls : ~StartsAForm(d)
      BY <2>3, <3>1
    <3>4. CASE c.then = "leave" /\ kp' = [page EXCEPT !.subject = NoId, !.view = "list"]
      <4>. DEFINE q == [page EXCEPT !.subject = NoId, !.view = "list"]
      <4>1. /\ q \in KeyPages /\ q.calls = page.calls /\ q.drawer = page.drawer /\ q.view = "list"
            /\ q.subject = NoId /\ q.mode = page.mode /\ q.edit = page.edit
        BY <3>1, KeyCallsAre DEF KeyPages
      <4>. HIDE DEF q
      <4>2. (\E d \in q.calls : StartsAForm(d)) => q.view = page.view
        BY <3>3, <4>1 DEF KeysPageWell
      <4>3. KeysPageWell(q)
        BY <3>3, <4>1, <4>2, KeysPageMoves
      <4>. QED  BY <3>4, <4>3 DEF q
    <3>5. CASE kp' = Asked(page, KeyCall("refresh", page.subject, NoForm, "nothing"))
      BY <2>2, <3>1, <3>3, <3>5, <3>3a, KeyCallsAre, KeysPageAsks
    <3>6. CASE c.then = "open"
      <4>1. StartsAForm(c)
        BY <2>4, <3>6 DEF ListAnswered, StartsAForm
      <4>2. (\A d \in page.calls : ~StartsAForm(d)) /\ page.drawer # "form"
        BY <2>3, <3>1, <4>1
      <4>3. KeysPageWell(OpenKeyDetail(page, c.key, "open")) /\ KeysPageWell(DrawerOpened(page))
        BY <1>1, <3>3, <4>2, DetailOpens, DrawerOpens
      <4>. QED  BY <3>2, <3>3, <3>6, <4>3
    <3>. QED  BY <3>2, <3>3, <3>4, <3>5, <3>6
  <2>5. CASE DetailAnswered(c, ok)
    <3>. DEFINE shown == IF ~ok /\ c.op = "detail" THEN [over EXCEPT !.view = "list"] ELSE over
    <3>1. /\ shown \in KeyPages /\ shown.calls = over.calls /\ shown.drawer = over.drawer
          /\ shown.view \in {over.view, "list"}
          /\ shown.subject = over.subject /\ shown.mode = over.mode /\ shown.edit = over.edit
      BY <2>1 DEF KeyPages
    <3>2. kp' = IF c.then = "list" THEN Asked(shown, again("nothing")) ELSE shown
      BY <2>5 DEF DetailAnswered, over
    <3>. HIDE DEF shown
    <3>3. (\E d \in shown.calls : StartsAForm(d)) => shown.view = over.view
      BY <2>1, <3>1 DEF KeysPageWell
    <3>4. KeysPageWell(shown)
      BY <2>1, <3>1, <3>3, KeysPageMoves
    <3>5. KeysPageWell(Asked(shown, again("nothing")))
      BY <2>3, <3>1, <3>4, KeyCallsAre, KeysPageAsks
    <3>. QED  BY <3>2, <3>4, <3>5
  <2>6. CASE EditAnswered(c, ok)
    <3>. DEFINE q == KeyFormFilled(over, c.key)
    <3>1. /\ q \in KeyPages /\ q.calls = over.calls /\ q.subject = c.key /\ q.edit = FormOf(c.key)
      BY <1>1, <2>1, KeyCallsAre DEF KeyFormFilled, KeyPages
    <3>. HIDE DEF q
    <3>3. KeysPageWell(q)
      BY <2>1, <2>3, <3>1 DEF KeysPageWell, FormFits
    <3>. QED  BY <2>1, <2>6, <3>3 DEF EditAnswered, over, q
  <2>7. CASE PatchAnswered(c, ok)
    <3>2. KeysPageWell(OpenKeyDetail(over, kp.subject, "list"))
      BY <2>1, <2>2, <2>3, DetailOpens
    <3>. QED  BY <2>1, <2>7, <3>2 DEF PatchAnswered, over
  <2>8. CASE CreateAnswered(c, ok)
    <3>. DEFINE q == [over EXCEPT !.draft = NoForm, !.drawer = IF over.drawer = "closed" THEN "closed" ELSE "issued"]
    <3>1. /\ q \in KeyPages /\ q.calls = over.calls /\ q.view = over.view
          /\ q.drawer = IF over.drawer = "closed" THEN "closed" ELSE "issued"
          /\ q.subject = over.subject /\ q.mode = over.mode /\ q.edit = over.edit
      BY <2>1, KeyCallsAre DEF KeyPages
    <3>2. kp' = IF ~ok THEN over ELSE Asked(q, again("nothing"))
      BY <2>1, <2>8 DEF CreateAnswered, over, KeyPages
    <3>. HIDE DEF q
    <3>3. (\E d \in q.calls : StartsAForm(d)) => q.drawer = over.drawer
      BY <2>1, <3>1 DEF KeysPageWell
    <3>4. KeysPageWell(q)
      BY <2>1, <3>1, <3>3, KeysPageMoves
    <3>. QED  BY <2>1, <2>3, <3>1, <3>2, <3>4, KeyCallsAre, KeysPageAsks
  <2>9. CASE RevokeAnswered(c, ok)
    BY <1>1, <2>1, <2>3, <2>9, KeyCallsAre, KeysPageAsks DEF RevokeAnswered, over
  <2>. QED  BY <1>11, <2>4, <2>5, <2>6, <2>7, <2>8, <2>9
<1>. QED  BY <1>3, <1>4, <1>5, <1>6, <1>7, <1>8, <1>9, <1>10, <1>11 DEF KeysNext

(* Whatever was opened, left and answered late in between, a request that   *)
(* changes a key or the access of a node carries the values read for that   *)
(* one, and a service declared in the drawer none of another (keys.js,      *)
(* services.js, nodes.js), for any keys, services, nodes and requests.      *)
THEOREM FormsSendTheirOwn == PagesSpec => []OwnTermsOnly
<1>. DEFINE Inv == /\ KeysPageWell(kp) /\ ServicesPageWell(sp) /\ NodesPageWell(np)
                   /\ serviceRows \subseteq Names /\ fileHash \in Nat /\ nodeRows \subseteq Names
<1>1. PagesInit => Inv
  <2>. SUFFICES ASSUME PagesInit PROVE Inv
    OBVIOUS
  <2>1. \A k \in Ids \union {NoId, Fresh} : k \in Names
    BY DEF Names
  <2>2. KeysPageWell(kp) /\ ServicesPageWell(sp)
    BY <2>1, KeyCallsAre, KeysPageOpens, ServicesPageOpens DEF PagesInit
  <2>3. ASSUME NEW v \in {"topo", "nodes", "machines"} PROVE NodesPageWell(NodesPage(v))
    <3>1. NodesLoad \in NodeCalls /\ NodeCallFits(NodesLoad)
      BY DEF NodesLoad, NodeCall, NodeCalls, NodeCallFits, Names
    <3>. HIDE DEF NodesLoad
    <3>. QED  BY <3>1 DEF NodesPageWell, NodesPage, NodePages, Names
  <2>. QED  BY <2>1, <2>2, <2>3 DEF PagesInit
<1>2. Inv /\ [PagesNext]_pagesVars => Inv'
  <2>. SUFFICES ASSUME Inv, [PagesNext]_pagesVars PROVE Inv'
    OBVIOUS
  <2>1. [KeysNext]_keysVars /\ [ServicesNext]_servicesVars /\ [NodesNext]_nodesVars
    BY DEF PagesNext, pagesVars
  <2>. QED  BY <2>1, KeysPageStep, ServicesPageStep, NodesPageStep
<1>3. Inv => OwnTermsOnly
  BY DEF OwnTermsOnly, KeysPageWell, KeyCallFits, ServicesPageWell, ServiceCallFits, IsNew,
         NodesPageWell, NodeCallFits
<1>. QED  BY <1>1, <1>2, <1>3, PTL DEF PagesSpec

-----------------------------------------------------------------------------
(* Sidebar.  The table has one row to an id, which is what makes the look at *)
(* a row before it is deleted a look at the row that goes.                  *)

TableWhole(t) ==
  /\ t \in Seq(TableRow)
  /\ \A i, j \in DOMAIN t : t[i].id = t[j].id => i = j

(* A table from which no row that was written is gone.                      *)
KeepsWritten(t) ==
  \A i \in DOMAIN table : table[i].written => \E j \in DOMAIN t : t[j].id = table[i].id

TabWhole == tab = [at |-> tab.at, data |-> tab.data, menu |-> tab.menu, drawn |-> tab.drawn]

(* A request for a conversation names an agent.                             *)
RequestWhole(k) ==
  /\ k = [x \in DOMAIN k |-> k[x]] /\ {"kind", "agent"} \subseteq DOMAIN k
  /\ k.kind = "create" => k.agent \in Groups
RequestsWhole == \A k \in requests : RequestWhole(k)

SidebarInv == TableWhole(table) /\ TabWhole /\ RequestsWhole /\ visits \in Nat

(* The row of a conversation that is in the table.                          *)
LEMMA RowIsTheOne ==
  ASSUME TableWhole(table), NEW c \in Known
  PROVE  \E i \in DOMAIN table :
           /\ table[i].id = c /\ RowOf(c) = table[i]
           /\ \A j \in DOMAIN table : table[j].id = c => j = i
<1>1. PICK i \in DOMAIN table : table[i].id = c
  BY DEF Known
<1>2. \A j \in DOMAIN table : table[j].id = c => j = i
  BY <1>1 DEF TableWhole
<1>3. ToSet(table) = {table[j] : j \in DOMAIN table}
  BY DEF ToSet
<1>4. \E r \in ToSet(table) : r.id = c
  BY <1>1, <1>3
<1>5. RowOf(c) \in ToSet(table) /\ RowOf(c).id = c
  BY <1>4 DEF RowOf
<1>. QED  BY <1>1, <1>2, <1>3, <1>5

(* A change of one row, whose id stays.                                     *)
LEMMA ChangeKeeps ==
  ASSUME TableWhole(table), NEW c, NEW r \in TableRow, r.id = c
  PROVE  TableWhole(Changed(c, r)) /\ KeepsWritten(Changed(c, r))
<1>. DEFINE t == Changed(c, r)
<1>1. table \in Seq(TableRow) /\ DOMAIN table = 1..Len(table) /\ Len(table) \in Nat
  BY DEF TableWhole
<1>2. t = [i \in 1..Len(table) |-> IF table[i].id = c THEN r ELSE table[i]]
  BY <1>1 DEF Changed
<1>. HIDE DEF t
<1>3. DOMAIN t = DOMAIN table /\ \A i \in DOMAIN table : t[i] \in TableRow /\ t[i].id = table[i].id
  BY <1>1, <1>2
<1>4. t \in Seq(TableRow)
  BY <1>1, <1>2, <1>3
<1>5. TableWhole(t)
  BY <1>3, <1>4 DEF TableWhole
<1>6. KeepsWritten(t)
  BY <1>3 DEF KeepsWritten
<1>. QED  BY <1>5, <1>6 DEF t

LEMMA CreationKeeps ==
  ASSUME TableWhole(table), NEW c \in Chats \ Known, NEW g \in Groups
  PROVE  TableWhole(Created(c, g)) /\ KeepsWritten(Created(c, g))
<1>. DEFINE r == NewChatRow(c, g)
<1>1. table \in Seq(TableRow) /\ DOMAIN table = 1..Len(table) /\ Len(table) \in Nat
  BY DEF TableWhole
<1>2. r \in TableRow /\ r.id = c
  BY DEF NewChatRow, TableRow
<1>. HIDE DEF r
<1>. DEFINE t == <<r>> \o table
<1>3. /\ t \in Seq(TableRow) /\ Len(t) = Len(table) + 1
      /\ t[1] = r /\ \A i \in DOMAIN table : i + 1 \in DOMAIN t /\ t[i + 1] = table[i]
  BY <1>1, <1>2
<1>4. Created(c, g) = t
  BY DEF Created, r
<1>. HIDE DEF t
<1>5. DOMAIN t = 1..(Len(table) + 1)
  BY <1>1, <1>3
<1>6. \A i \in DOMAIN t : i = 1 \/ (i - 1 \in DOMAIN table /\ t[i] = table[i - 1])
  BY <1>1, <1>3, <1>5
<1>7. \A i \in DOMAIN table : table[i].id # c
  BY DEF Known
<1>8. ASSUME NEW i \in DOMAIN t, NEW j \in DOMAIN t, t[i].id = t[j].id PROVE i = j
  <2>1. CASE i = 1 \/ j = 1
    BY <1>2, <1>3, <1>6, <1>7, <1>8, <2>1
  <2>2. CASE i # 1 /\ j # 1
    <3>1. /\ i - 1 \in DOMAIN table /\ j - 1 \in DOMAIN table
          /\ t[i] = table[i - 1] /\ t[j] = table[j - 1]
      BY <1>6, <2>2
    <3>2. i - 1 = j - 1
      BY <1>8, <3>1 DEF TableWhole
    <3>. QED  BY <1>1, <1>5, <3>2
  <2>. QED  BY <2>1, <2>2
<1>9. KeepsWritten(t)
  BY <1>3 DEF KeepsWritten
<1>. QED  BY <1>3, <1>4, <1>8, <1>9 DEF TableWhole

(* The table without the row of a conversation: the others, in their order. *)
LEMMA RemovalKeeps ==
  ASSUME TableWhole(table), NEW c \in Known
  PROVE  /\ TableWhole(Without(c))
         /\ \A i \in DOMAIN Without(c) : Without(c)[i].id # c
         /\ \A i \in DOMAIN table : table[i].id # c =>
              \E j \in DOMAIN Without(c) : Without(c)[j] = table[i]
<1>1. table \in Seq(TableRow) /\ DOMAIN table = 1..Len(table) /\ Len(table) \in Nat
  BY DEF TableWhole
<1>. DEFINE p == CHOOSE i \in DOMAIN table : table[i].id = c
<1>2. p \in DOMAIN table /\ table[p].id = c
  BY DEF Known
<1>3. Without(c) = RemoveAt(table, p)
  BY DEF Without
<1>. HIDE DEF p
<1>. DEFINE front == SubSeq(table, 1, p - 1)
            back == SubSeq(table, p + 1, Len(table))
            t == front \o back
<1>4. /\ front \in Seq(TableRow) /\ Len(front) = p - 1
      /\ \A i \in 1..(p - 1) : front[i] = table[i]
  BY <1>1, <1>2
<1>5. /\ back \in Seq(TableRow) /\ Len(back) = Len(table) - p
      /\ \A i \in 1..(Len(table) - p) : back[i] = table[p + i]
  BY <1>1, <1>2
<1>6. Without(c) = t
  BY <1>3 DEF RemoveAt
<1>. HIDE DEF front, back
<1>7. t \in Seq(TableRow) /\ Len(t) = Len(table) - 1
  <2>1. t \in Seq(TableRow) /\ Len(t) = Len(front) + Len(back)
    BY <1>4, <1>5, ConcatProperties
  <2>. QED  BY <1>1, <1>2, <1>4, <1>5, <2>1
<1>8. DOMAIN t = 1..(Len(table) - 1)
  BY <1>7
<1>9. \A i \in DOMAIN t : t[i] = IF i < p THEN table[i] ELSE table[i + 1]
  <2>. TAKE i \in DOMAIN t
  <2>. DEFINE n == Len(table)
  <2>3. n \in Nat /\ p \in 1..n /\ i \in 1..(n - 1) /\ Len(front) = p - 1 /\ Len(back) = n - p
    BY <1>1, <1>2, <1>4, <1>5, <1>8
  <2>4. t[i] = IF i <= Len(front) THEN front[i] ELSE back[i - Len(front)]
    BY <1>4, <1>5, <1>7, <1>8, <2>3, ConcatProperties DEF t
  <2>. HIDE DEF n
  <2>1. CASE i < p
    BY <1>4, <2>1, <2>3, <2>4
  <2>2. CASE ~(i < p)
    <3>1. i - Len(front) \in 1..(n - p) /\ p + (i - Len(front)) = i + 1 /\ ~(i <= Len(front))
      BY <2>2, <2>3
    <3>2. back[i - Len(front)] = table[p + (i - Len(front))]
      BY <1>5, <3>1 DEF n
    <3>. QED  BY <2>2, <2>4, <3>1, <3>2
  <2>. QED  BY <2>1, <2>2
<1>. HIDE DEF t
<1>10. \A i \in DOMAIN table : table[i].id = c => i = p
  BY <1>2 DEF TableWhole
<1>11. TableWhole(t)
  <2>1. ASSUME NEW i \in DOMAIN t, NEW j \in DOMAIN t, t[i].id = t[j].id
        PROVE  i = j
    <3>. DEFINE m(k) == IF k < p THEN k ELSE k + 1
    <3>1. m(i) \in DOMAIN table /\ m(j) \in DOMAIN table
      BY <1>1, <1>2, <1>8
    <3>2. t[i] = table[m(i)] /\ t[j] = table[m(j)]
      BY <1>9
    <3>3. m(i) = m(j)
      BY <2>1, <3>1, <3>2 DEF TableWhole
    <3>. QED  BY <1>1, <1>2, <1>8, <3>3
  <2>. QED  BY <1>7, <2>1 DEF TableWhole
<1>12. \A i \in DOMAIN t : t[i].id # c
  BY <1>1, <1>2, <1>8, <1>9, <1>10
<1>13. ASSUME NEW i \in DOMAIN table, table[i].id # c
       PROVE  \E j \in DOMAIN t : t[j] = table[i]
  <2>1. i # p
    BY <1>2, <1>13
  <2>2. CASE i < p
    BY <1>1, <1>2, <1>8, <1>9, <2>2
  <2>3. CASE i > p
    <3>1. i - 1 \in DOMAIN t /\ ~(i - 1 < p) /\ (i - 1) + 1 = i
      BY <1>1, <1>2, <1>8, <2>3
    <3>. QED  BY <1>9, <3>1
  <2>. QED  BY <1>1, <1>2, <2>1, <2>2, <2>3
<1>. QED  BY <1>6, <1>11, <1>12, <1>13

LEMMA TouchKeeps ==
  ASSUME TableWhole(table), NEW c \in Known
  PROVE  TableWhole(Touched(c)) /\ KeepsWritten(Touched(c))
<1>1. PICK p \in DOMAIN table : table[p].id = c /\ RowOf(c) = table[p]
  BY RowIsTheOne
<1>. DEFINE r == [RowOf(c) EXCEPT !.written = TRUE]
            u == Without(c)
            t == <<r>> \o u
<1>2. table \in Seq(TableRow) /\ DOMAIN table = 1..Len(table) /\ Len(table) \in Nat
  BY DEF TableWhole
<1>3. r \in TableRow /\ r.id = c
  <2>1. RowOf(c) \in TableRow /\ RowOf(c).id = c
    BY <1>1, <1>2
  <2>. QED  BY <2>1 DEF TableRow
<1>4. /\ TableWhole(u)
      /\ \A i \in DOMAIN u : u[i].id # c
      /\ \A i \in DOMAIN table : table[i].id # c => \E j \in DOMAIN u : u[j] = table[i]
  BY RemovalKeeps
<1>. HIDE DEF r, u
<1>5. u \in Seq(TableRow) /\ DOMAIN u = 1..Len(u) /\ Len(u) \in Nat
  BY <1>4 DEF TableWhole
<1>6. /\ t \in Seq(TableRow) /\ Len(t) = Len(u) + 1
      /\ t[1] = r /\ \A i \in DOMAIN u : i + 1 \in DOMAIN t /\ t[i + 1] = u[i]
  BY <1>3, <1>5
<1>7. Touched(c) = t
  BY DEF Touched, r, u
<1>. HIDE DEF t
<1>8. DOMAIN t = 1..(Len(u) + 1)
  BY <1>5, <1>6
<1>9. \A i \in DOMAIN t : i = 1 \/ (i - 1 \in DOMAIN u /\ t[i] = u[i - 1])
  BY <1>5, <1>6, <1>8
<1>10. ASSUME NEW i \in DOMAIN t, NEW j \in DOMAIN t, t[i].id = t[j].id PROVE i = j
  <2>1. CASE i = 1 \/ j = 1
    BY <1>3, <1>4, <1>6, <1>9, <1>10, <2>1
  <2>2. CASE i # 1 /\ j # 1
    <3>1. /\ i - 1 \in DOMAIN u /\ j - 1 \in DOMAIN u
          /\ t[i] = u[i - 1] /\ t[j] = u[j - 1]
      BY <1>9, <2>2
    <3>2. i - 1 = j - 1
      BY <1>4, <1>10, <3>1 DEF TableWhole
    <3>. QED  BY <1>5, <1>8, <3>2
  <2>. QED  BY <2>1, <2>2
<1>11. ASSUME NEW i \in DOMAIN table PROVE \E j \in DOMAIN t : t[j].id = table[i].id
  <2>1. CASE table[i].id = c
    BY <1>3, <1>5, <1>6, <1>8, <2>1
  <2>2. CASE table[i].id # c
    <3>1. PICK j \in DOMAIN u : u[j] = table[i]
      BY <1>4, <2>2
    <3>. QED  BY <1>6, <3>1
  <2>. QED  BY <2>1, <2>2
<1>. QED  BY <1>6, <1>7, <1>10, <1>11 DEF TableWhole, KeepsWritten

(* What is given back was not written, so what was written stays.           *)
LEMMA VacatingKeeps ==
  ASSUME TableWhole(table), NEW c
  PROVE  TableWhole(Vacated(c)) /\ KeepsWritten(Vacated(c))
<1>0. KeepsWritten(table)
  BY DEF KeepsWritten
<1>1. CASE ~(Live(c) /\ ~RowOf(c).written)
  BY <1>0, <1>1 DEF Vacated
<1>2. CASE Live(c) /\ ~RowOf(c).written
  <2>0. Vacated(c) = Without(c) /\ c \in Known
    BY <1>2 DEF Vacated, Live
  <2>1. PICK p \in DOMAIN table : /\ table[p].id = c /\ RowOf(c) = table[p]
                                  /\ \A j \in DOMAIN table : table[j].id = c => j = p
    BY <2>0, RowIsTheOne
  <2>2. \A i \in DOMAIN table : table[i].written => table[i].id # c
    BY <1>2, <2>1
  <2>3. /\ TableWhole(Without(c))
        /\ \A i \in DOMAIN table : table[i].id # c =>
              \E j \in DOMAIN Without(c) : Without(c)[j] = table[i]
    BY <2>0, RemovalKeeps
  <2>. QED  BY <2>0, <2>2, <2>3 DEF KeepsWritten
<1>. QED  BY <1>1, <1>2

(* A change of one field of a row of the table.                             *)
LEMMA EditKeeps ==
  ASSUME TableWhole(table), NEW c \in Known
  PROVE  /\ \A r \in {[RowOf(c) EXCEPT !.written = TRUE], [RowOf(c) EXCEPT !.archived = TRUE],
                      [RowOf(c) EXCEPT !.archived = ~@]} :
              TableWhole(Changed(c, r)) /\ KeepsWritten(Changed(c, r))
<1>1. PICK p \in DOMAIN table : table[p].id = c /\ RowOf(c) = table[p]
  BY RowIsTheOne
<1>2. RowOf(c) \in TableRow /\ RowOf(c).id = c
  BY <1>1 DEF TableWhole
<1>3. \A r \in {[RowOf(c) EXCEPT !.written = TRUE], [RowOf(c) EXCEPT !.archived = TRUE],
                [RowOf(c) EXCEPT !.archived = ~@]} : r \in TableRow /\ r.id = c
  BY <1>2 DEF TableRow
<1>. QED  BY <1>3, ChangeKeeps

(* What a step may do: the table and the requests stay whole, no written row *)
(* is gone, and the groups are opened by a redraw only on arrival.          *)
SidebarStepIsGood ==
  /\ TableWhole(table') /\ KeepsWritten(table')
  /\ TabWhole' /\ RequestsWhole' /\ visits' \in Nat
  /\ FoldsAreTheReaders

LEMMA CallWhole ==
  \A kind, c, g : kind # "create" \/ g \in Groups => RequestWhole(Call(kind, c, g))
BY DEF Call, RequestWhole

LEMMA RefreshWhole == RequestWhole(Refresh)
BY CallWhole DEF Refresh

LEMMA AbandonedWhole ==
  ASSUME NEW S, \A k \in S : RequestWhole(k)
  PROVE  \A k \in Abandoned(S) : RequestWhole(k)
BY DEF Abandoned, RequestWhole

(* A page is opened.                                                        *)
LEMMA GoingKeeps ==
  ASSUME SidebarInv, NEW c, NEW S, \A k \in S : RequestWhole(k), Goes(c, S)
  PROVE  TabWhole' /\ RequestsWhole' /\ visits' \in Nat /\ FoldsAreTheReaders
<1>1. visits' \in Nat /\ visits' # visits
  BY DEF SidebarInv, Goes
<1>2. RequestsWhole'
  BY AbandonedWhole, RefreshWhole DEF Goes, RequestsWhole
<1>3. TabWhole'
  BY DEF Goes, Page, TabWhole
<1>. QED  BY <1>1, <1>2, <1>3 DEF FoldsAreTheReaders

LEMMA SidebarStep ==
  ASSUME SidebarInv, [SidebarNext]_sidebarVars
  PROVE  SidebarStepIsGood
<1>. USE DEF SidebarInv
<1>0. KeepsWritten(table)
  BY DEF KeepsWritten
<1>1. ASSUME UNCHANGED table, UNCHANGED visits, RequestsWhole', TabWhole',
             tab'.data = tab.data \/ opened' = opened
      PROVE  SidebarStepIsGood
  BY <1>0, <1>1 DEF SidebarStepIsGood, FoldsAreTheReaders
<1>2. ASSUME NEW c, NEW S, \A k \in S : RequestWhole(k), Goes(c, S), UNCHANGED table
      PROVE  SidebarStepIsGood
  BY <1>0, <1>2, GoingKeeps DEF SidebarStepIsGood
<1>3. ASSUME NEW call, RequestWhole(call), Sends(call) PROVE RequestsWhole'
  BY <1>3 DEF Sends, RequestsWhole
<1>4. ASSUME NEW g, tab' = Redrawn(tab, g) PROVE TabWhole' /\ tab'.data = tab.data
  BY <1>4 DEF Redrawn, TabWhole
<1>5. CASE UNCHANGED sidebarVars
  BY <1>1, <1>5 DEF sidebarVars, RequestsWhole, TabWhole
<1>6. CASE Polls
  BY <1>1, <1>3, <1>6, RefreshWhole DEF Polls, TabWhole
<1>7. ASSUME NEW k \in requests, Serves(k) PROVE SidebarStepIsGood
  <2>0. UNCHANGED <<tab, prevChat, opened, unfolded, changes, visits>> /\ RequestWhole(k)
    BY <1>7 DEF Serves, RequestsWhole
  <2>1. ASSUME RequestsWhole', TableWhole(table'), KeepsWritten(table') PROVE SidebarStepIsGood
    BY <2>0, <2>1 DEF SidebarStepIsGood, FoldsAreTheReaders, TabWhole
  <2>2. ASSUME NEW ok, NEW list, Replies(k, ok, list) PROVE RequestsWhole'
    <3>1. RequestWhole([k EXCEPT !.stage = "answered", !.ok = ok, !.list = list])
      BY <2>0 DEF RequestWhole
    <3>. QED  BY <2>2, <3>1 DEF Replies, RequestsWhole
  <2>3. CASE ServeList(k)
    BY <1>0, <2>1, <2>2, <2>3 DEF ServeList
  <2>4. CASE ServeVacate(k)
    BY <2>1, <2>2, <2>4, VacatingKeeps DEF ServeVacate
  <2>5. CASE ServeRename(k)
    BY <1>0, <2>1, <2>2, <2>5, EditKeeps DEF ServeRename, Live
  <2>6. CASE ServeArchive(k)
    BY <1>0, <2>1, <2>2, <2>6, EditKeeps DEF ServeArchive
  <2>7. CASE ServeCreate(k)
    <3>1. PICK c \in Chats \ Known :
            /\ table' = Created(c, k.agent)
            /\ requests' = (requests \ {k}) \cup {[x EXCEPT !.stage = "answered", !.ok = TRUE, !.chat = c] : x \in {y \in {k} : y.mine}}
      BY <2>7 DEF ServeCreate
    <3>2. k.agent \in Groups
      BY <2>0, <2>7 DEF ServeCreate, RequestWhole
    <3>3. RequestsWhole'
      <4>1. RequestWhole([k EXCEPT !.stage = "answered", !.ok = TRUE, !.chat = c])
        BY <2>0 DEF RequestWhole
      <4>2. \A y \in requests' : y \in requests \/ y = [k EXCEPT !.stage = "answered", !.ok = TRUE, !.chat = c]
        BY <3>1
      <4>. QED  BY <4>1, <4>2 DEF RequestsWhole
    <3>. QED  BY <2>1, <3>1, <3>2, <3>3, CreationKeeps
  <2>. QED  BY <1>7, <2>3, <2>4, <2>5, <2>6, <2>7 DEF Serves
<1>8. ASSUME NEW k \in requests, Lost(k) PROVE SidebarStepIsGood
  BY <1>1, <1>8 DEF Lost, RequestsWhole, TabWhole
<1>9. ASSUME NEW k \in requests, Answers(k) PROVE SidebarStepIsGood
  <2>0. LoadAnswered(k)
    BY <1>9 DEF Answers
  <2>1. \A x \in Leaves(tab, k.list) : RequestWhole(x)
    BY CallWhole DEF Leaves
  <2>2. RequestsWhole' /\ UNCHANGED <<table, visits>>
    BY <2>0, <2>1 DEF LoadAnswered, RequestsWhole
  <2>3. TabWhole'
    BY <2>0 DEF LoadAnswered, TabWhole
  <2>4. tab.data.known => opened' = opened
    BY <2>0 DEF LoadAnswered, Reveal
  <2>. QED  BY <1>0, <2>2, <2>3, <2>4 DEF SidebarStepIsGood, FoldsAreTheReaders
<1>10. ASSUME NEW k \in requests, Returns(k) PROVE SidebarStepIsGood
  <2>0. UNCHANGED <<table, opened>> /\ \A x \in requests \ {k} : RequestWhole(x)
    BY <1>10 DEF Returns, RequestsWhole
  <2>1. CASE \E c : Goes(c, requests \ {k})
    BY <1>2, <2>0, <2>1
  <2>2. CASE ~ \E c : Goes(c, requests \ {k})
    <3>1. UNCHANGED <<tab, visits>> /\ requests' \subseteq (requests \ {k}) \cup {Refresh}
      BY <1>10, <2>2 DEF Returns
    <3>2. RequestsWhole' /\ TabWhole'
      BY <2>0, <3>1, RefreshWhole DEF RequestsWhole, TabWhole
    <3>. QED  BY <1>1, <2>0, <3>1, <3>2
  <2>. QED  BY <2>1, <2>2
<1>11. ASSUME NEW c \in Chats \cup {NoChat}, Opens(c) PROVE SidebarStepIsGood
  BY <1>2, <1>11 DEF Opens, RequestsWhole
<1>12. ASSUME NEW g \in Groups, Toggles(g) PROVE SidebarStepIsGood
  BY <1>1, <1>4, <1>12 DEF Toggles, RequestsWhole
<1>13. ASSUME NEW g \in Groups, ShowsMore(g) PROVE SidebarStepIsGood
  BY <1>1, <1>4, <1>13 DEF ShowsMore, RequestsWhole
<1>14. ASSUME NEW g \in Groups, NewChat(g) PROVE SidebarStepIsGood
  BY <1>1, <1>3, <1>14, CallWhole DEF NewChat, TabWhole
<1>15. ASSUME NEW g \in Groups, OthersFold(g) PROVE SidebarStepIsGood
  BY <1>1, <1>15 DEF OthersFold, RequestsWhole, TabWhole
<1>16. ASSUME NEW c \in Chats, OpensMenu(c) PROVE SidebarStepIsGood
  BY <1>1, <1>16 DEF OpensMenu, RequestsWhole, TabWhole
<1>17. CASE ClosesMenu
  BY <1>1, <1>17 DEF ClosesMenu, RequestsWhole, TabWhole
<1>18. CASE OpenBrainChat
  <2>1. CASE ChatsOf(Brain, tab.data.list) = <<>>
    BY <1>1, <1>3, <1>18, <2>1, CallWhole, SidebarAssumption DEF OpenBrainChat, TabWhole, SidebarAssumption
  <2>2. CASE ChatsOf(Brain, tab.data.list) # <<>>
    BY <1>2, <1>18, <2>2 DEF OpenBrainChat, RequestsWhole
  <2>. QED  BY <2>1, <2>2
<1>19. CASE Writes
  <2>1. tab.at \in Known /\ table' = Touched(tab.at)
    BY <1>19 DEF Writes, Live
  <2>2. TableWhole(table') /\ KeepsWritten(table')
    BY <2>1, TouchKeeps
  <2>. QED  BY <1>19, <2>2 DEF Writes, SidebarStepIsGood, FoldsAreTheReaders, RequestsWhole, TabWhole
<1>20. CASE Heals
  BY <1>2, <1>20 DEF Heals, RequestsWhole
<1>21. ASSUME NEW act \in {"rename", "archive"}, PicksFromMenu(act) PROVE SidebarStepIsGood
  <2>1. RequestsWhole'
    BY <1>3, <1>21, CallWhole DEF PicksFromMenu
  <2>. QED  BY <1>1, <1>21, <2>1 DEF PicksFromMenu, TabWhole
<1>22. CASE OthersChange
  <2>1. TableWhole(table') /\ KeepsWritten(table')
    <3>1. CASE \E c \in Known : Live(c) /\ table' = Touched(c)
      BY <3>1, TouchKeeps
    <3>2. CASE \E c \in Known : table' \in {Changed(c, [RowOf(c) EXCEPT !.written = TRUE]), Changed(c, [RowOf(c) EXCEPT !.archived = ~@])}
      BY <3>2, EditKeeps
    <3>3. CASE \E c \in Chats \ Known, g \in Groups : table' = Created(c, g)
      BY <3>3, CreationKeeps
    <3>. QED  BY <1>22, <3>1, <3>2, <3>3 DEF OthersChange
  <2>. QED  BY <1>22, <2>1 DEF OthersChange, SidebarStepIsGood, FoldsAreTheReaders, RequestsWhole, TabWhole
<1>. QED  BY <1>5, <1>6, <1>7, <1>8, <1>9, <1>10, <1>11, <1>12, <1>13, <1>14, <1>15, <1>16,
             <1>17, <1>18, <1>19, <1>20, <1>21, <1>22 DEF SidebarNext

(* "A chat with content may only be archived, never physically deleted", and *)
(* no redraw opens what the reader has closed: for any conversations, polls *)
(* that come late or not at all, and whatever other tabs do.                *)
THEOREM TheSidebarKeeps == SidebarSpec => SidebarKeeps
<1>1. SidebarInit => SidebarInv
  <2>. SUFFICES ASSUME SidebarInit PROVE SidebarInv
    OBVIOUS
  <2>1. TableWhole(table)
    BY SidebarAssumption DEF SidebarInit, SidebarAssumption, TableWhole
  <2>2. RequestsWhole
    BY RefreshWhole DEF SidebarInit, RequestsWhole
  <2>. QED  BY <2>1, <2>2 DEF SidebarInit, SidebarInv, TabWhole, Page
<1>2. SidebarInv /\ [SidebarNext]_sidebarVars => SidebarInv'
  BY SidebarStep DEF SidebarStepIsGood, SidebarInv, TableWhole
<1>3. SidebarInv /\ [SidebarNext]_sidebarVars => [WrittenChatsAreKept /\ FoldsAreTheReaders]_sidebarVars
  <2>. SUFFICES ASSUME SidebarInv, [SidebarNext]_sidebarVars PROVE WrittenChatsAreKept /\ FoldsAreTheReaders
    OBVIOUS
  <2>1. KeepsWritten(table') /\ FoldsAreTheReaders
    BY SidebarStep DEF SidebarStepIsGood
  <2>2. ToSet(table) = {table[i] : i \in DOMAIN table} /\ ToSet(table)' = {table'[i] : i \in DOMAIN table'}
    BY DEF ToSet
  <2>3. WrittenChatsAreKept
    BY <2>1, <2>2 DEF WrittenChatsAreKept, KeepsWritten, ToSet
  <2>. QED  BY <2>1, <2>3
<1>. QED  BY <1>1, <1>2, <1>3, PTL DEF SidebarSpec, SidebarKeeps
=============================================================================

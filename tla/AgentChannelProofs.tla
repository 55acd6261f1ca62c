------------------------- MODULE AgentChannelProofs -------------------------
(***************************************************************************)
(* Proofs about AgentChannel, for any numbers of commands, polls and        *)
(* reports.                                                                *)
(*                                                                         *)
(* That commands run once and in order is inductive once it says where a   *)
(* command may be: what waits is the end of the queue, what was claimed is *)
(* behind the agent (executed), with it (batch) or on its way (reply), in   *)
(* this order (QueueInv).  That the agent's key is accepted rests on there  *)
(* being one rotation under way at a time (KeyInv): a deliver command that *)
(* may still be executed or reported is the one that set the manager's key. *)
(***************************************************************************)
EXTENDS AgentChannel, FiniteSetTheorems, SequenceTheorems, TLAPS

States == {"pending", "delivered", "done", "failed", "gone"}
Rows == [type : {"node", "config.deliver"}, state : States]
Ids == 1..MaxCommands
Keys == 0..MaxCommands
Events == [id : Ids, ok : BOOLEAN]

ManagerOK ==
  /\ machine \in {"registered", "revoked", "deleted"}
  /\ token \in Keys
  /\ prev \subseteq Keys /\ \A k, l \in prev : k = l
  /\ {graceOver, online} \subseteq BOOLEAN
  /\ commands \in Seq(Rows) /\ Len(commands) <= MaxCommands
  /\ waiters \in Seq({"live", "dead"})

AgentOK ==
  /\ phase \in {"ready", "polling", "executing", "down", "lockedOut"}
  /\ capable \in BOOLEAN
  /\ {held, saved} \subseteq Keys \union {NoKey}
  /\ batch \in Seq(Ids)
  /\ results \in Seq(Events)

NetOK ==
  /\ request \in {"none", "sent", "parked", "answered", "refused", "broken"}
  /\ reply \in Seq(Ids)
  /\ strays \subseteq Keys \union {NoKey}
  /\ posts \subseteq [key : Keys \union {NoKey}, events : Seq(Events)]
  /\ executed \in Seq(Ids)
  /\ {hurried, lapsed} \subseteq BOOLEAN

ChannelTypeOK == ManagerOK /\ AgentOK /\ NetOK

Ascending(s) == \A i, j \in DOMAIN s : i < j => s[i] < s[j]
Below(s, t) == \A i \in DOMAIN s, j \in DOMAIN t : s[i] < t[j]
Claims(s) == \A i \in DOMAIN s : s[i] \in DOMAIN commands /\ commands[s[i]].state # "pending"
WaitsAbove(n) == \A i \in DOMAIN commands : commands[i].state = "pending" <=> i > n

(* One poll of the agent at most is parked, and it is the one it waits for. *)
PollInv ==
  /\ request # "none" => phase = "polling"
  /\ \A i, j \in DOMAIN waiters : waiters[i] = "live" /\ waiters[j] = "live" => i = j
  /\ \A i \in DOMAIN waiters : waiters[i] = "live" => request = "parked"
  /\ reply # <<>> => request = "answered"
  /\ batch # <<>> => phase = "executing"

QueueInv ==
  /\ \E n \in 0..Len(commands) : WaitsAbove(n)
  /\ Ascending(executed) /\ Ascending(batch) /\ Ascending(reply)
  /\ Below(executed, batch) /\ Below(executed, reply)
  /\ Claims(executed) /\ Claims(batch) /\ Claims(reply)

OrderInv == ChannelTypeOK /\ PollInv /\ QueueInv

Ran(i) == \E k \in DOMAIN executed : executed[k] = i
ToRun(i) == (\E k \in DOMAIN batch : batch[k] = i) \/ (\E k \in DOMAIN reply : reply[k] = i)
Delivers(i) == i \in DOMAIN commands /\ commands[i].type = "config.deliver"

Reported(e) ==
  \/ \E k \in DOMAIN results : results[k] = e
  \/ \E p \in posts : \E k \in DOMAIN p.events : p.events[k] = e

(* What an event says of a command, and where keys come from.               *)
EventInv ==
  /\ \A e \in Events :
       Reported(e) => Ran(e.id) /\ (Delivers(e.id) => e.ok = capable)
  /\ \A k \in {held, saved} : k \in {0, NoKey} \/ Ran(k)
  /\ ~capable => {held, saved} \subseteq {0, NoKey}

Quiet == machine = "registered" /\ ~hurried /\ ~lapsed

(* While no rotation was hurried and no grace window lapsed.                *)
KeyInv ==
  Quiet =>
    /\ phase # "lockedOut" /\ request # "refused"
    /\ {held, saved} \subseteq {token} \union prev
    /\ prev # {} /\ graceOver => held = token /\ saved = token
    /\ \A i \in Ids : Delivers(i) /\ commands[i].state \in {"pending", "delivered"}
                        => i = token /\ prev # {}
    /\ \A i \in Ids : Delivers(i) /\ ToRun(i) => i = token
    /\ \A e \in Events :
         capable /\ Reported(e) /\ Delivers(e.id) /\ e.id = token => held = token /\ saved = token

ChannelInv == OrderInv /\ EventInv /\ KeyInv

-----------------------------------------------------------------------------
(* The operators.                                                           *)

(* A function on 1..n is a sequence.                                        *)
LEMMA FunctionIsSequence ==
  ASSUME NEW n \in Nat, NEW S, NEW f \in [1..n -> S]
  PROVE  f \in Seq(S) /\ Len(f) = n /\ DOMAIN f = 1..n
OBVIOUS

(* There are m - n numbers after n up to m.                                 *)
LEMMA IntervalCount ==
  ASSUME NEW n \in Nat, NEW m \in Nat, n <= m
  PROVE  Cardinality((n + 1)..m) = m - n
<1>. DEFINE a == n + 1
<1>1. a \in Int /\ m \in Int /\ (IF a > m THEN 0 ELSE m - a + 1) = m - n
  OBVIOUS
<1>. HIDE DEF a
<1>2. Cardinality(a..m) = IF a > m THEN 0 ELSE m - a + 1
  BY <1>1, FS_Interval
<1>. QED  BY <1>1, <1>2 DEF a

(* What waits at the end of a queue is claimed in its order, all of it.     *)
LEMMA PendingFacts ==
  ASSUME NEW list \in Seq(Rows), NEW n \in 0..Len(list),
         \A i \in DOMAIN list : list[i].state = "pending" <=> i > n
  PROVE  /\ Pending(list) \in Seq(DOMAIN list)
         /\ Ascending(Pending(list))
         /\ \A k \in DOMAIN Pending(list) : Pending(list)[k] > n
         /\ Pending(list) = <<>> => n = Len(list)
<1>. DEFINE ids == {i \in 1..Len(list) : list[i].state = "pending"}
            InOrderOK(s) == \A i, j \in DOMAIN s : i < j => s[i] < s[j]
            count == Len(list) - n
<1>1. DOMAIN list = 1..Len(list) /\ Len(list) \in Nat /\ n \in Nat /\ count \in Nat
  OBVIOUS
<1>2. ids = (n + 1)..Len(list)
  BY <1>1
<1>3. Cardinality(ids) = count
  <2>1. n <= Len(list)
    OBVIOUS
  <2>2. Cardinality((n + 1)..Len(list)) = Len(list) - n
    BY <1>1, <2>1, IntervalCount
  <2>. QED  BY <1>2, <2>2
<1>4. \E s \in [1..count -> ids] : InOrderOK(s)
  <2>1. [k \in 1..count |-> n + k] \in [1..count -> ids]
    BY <1>1, <1>2
  <2>2. InOrderOK([k \in 1..count |-> n + k])
    BY <1>1
  <2>. HIDE DEF InOrderOK
  <2>. QED  BY <2>1, <2>2
<1>5. Pending(list) = CHOOSE s \in [1..count -> ids] : InOrderOK(s)
  BY <1>3 DEF Pending, InOrder
<1>6. Pending(list) \in [1..count -> ids] /\ InOrderOK(Pending(list))
  <2>. HIDE DEF InOrderOK, ids, count
  <2>. QED  BY <1>4, <1>5
<1>7. Pending(list) \in Seq(DOMAIN list) /\ Len(Pending(list)) = count
  <2>1. ids \subseteq DOMAIN list
    BY <1>1
  <2>. HIDE DEF ids, count
  <2>2. Pending(list) \in [1..count -> DOMAIN list]
    BY <1>6, <2>1
  <2>. QED  BY <1>1, <2>2, FunctionIsSequence
<1>8. Ascending(Pending(list))
  BY <1>6 DEF Ascending
<1>9. \A k \in DOMAIN Pending(list) : Pending(list)[k] > n
  BY <1>2, <1>6
<1>10. Pending(list) = <<>> => n = Len(list)
  <2>. HIDE DEF count
  <2>1. Pending(list) = <<>> => count = 0
    BY <1>7, EmptySeq, Zenon
  <2>2. n # Len(list) => count # 0
    <3>. DEFINE m == Len(list)
    <3>1. n \in Nat /\ m \in Nat /\ count = m - n
      BY <1>1 DEF count
    <3>. HIDE DEF m
    <3>2. n # m => count # 0
      BY <3>1
    <3>. QED  BY <3>2 DEF m
  <2>. QED  BY <2>1, <2>2
<1>. QED  BY <1>7, <1>8, <1>9, <1>10

(* A claim changes the state of what was pending, and nothing else.         *)
LEMMA ClaimedFacts ==
  ASSUME NEW list \in Seq(Rows)
  PROVE  /\ Claimed(list) \in Seq(Rows)
         /\ Len(Claimed(list)) = Len(list)
         /\ \A i \in DOMAIN list :
              /\ Claimed(list)[i].type = list[i].type
              /\ Claimed(list)[i].state =
                   IF list[i].state = "pending" THEN "delivered" ELSE list[i].state
<1>1. \A i \in 1..Len(list) : list[i] \in Rows
  OBVIOUS
<1>2. \A i \in 1..Len(list) : Claimed(list)[i] \in Rows
  BY <1>1 DEF Claimed, Rows, States
<1>3. Claimed(list) = [i \in 1..Len(list) |-> Claimed(list)[i]]
  BY DEF Claimed
<1>4. Claimed(list) \in [1..Len(list) -> Rows]
  BY <1>2, <1>3
<1>5. Claimed(list) \in Seq(Rows) /\ Len(Claimed(list)) = Len(list)
  BY <1>4, FunctionIsSequence
<1>6. \A i \in DOMAIN list :
        /\ Claimed(list)[i].type = list[i].type
        /\ Claimed(list)[i].state =
             IF list[i].state = "pending" THEN "delivered" ELSE list[i].state
  BY <1>1 DEF Claimed, Rows
<1>. QED  BY <1>5, <1>6

(* A report settles delivered commands only.                                *)
LEMMA SettledFacts ==
  ASSUME NEW list \in Seq(Rows), NEW events
  PROVE  /\ Settled(list, events) \in Seq(Rows)
         /\ Len(Settled(list, events)) = Len(list)
         /\ \A i \in DOMAIN list :
              /\ Settled(list, events)[i].type = list[i].type
              /\ Settled(list, events)[i].state # list[i].state =>
                   list[i].state = "delivered" /\ Settled(list, events)[i].state \in {"done", "failed"}
              /\ list[i].state = "delivered" /\ (\E e \in events : e.id = i)
                   => Settled(list, events)[i].state \in {"done", "failed"}
<1>1. \A i \in 1..Len(list) : list[i] \in Rows
  OBVIOUS
<1>2. \A i \in 1..Len(list) : Settled(list, events)[i] \in Rows
  BY <1>1 DEF Settled, Rows, States
<1>3. Settled(list, events) = [i \in 1..Len(list) |-> Settled(list, events)[i]]
  BY DEF Settled
<1>4. Settled(list, events) \in [1..Len(list) -> Rows]
  BY <1>2, <1>3
<1>5. Settled(list, events) \in Seq(Rows) /\ Len(Settled(list, events)) = Len(list)
  BY <1>4, FunctionIsSequence
<1>6. \A i \in DOMAIN list :
        /\ Settled(list, events)[i].type = list[i].type
        /\ Settled(list, events)[i].state # list[i].state =>
             list[i].state = "delivered" /\ Settled(list, events)[i].state \in {"done", "failed"}
        /\ list[i].state = "delivered" /\ (\E e \in events : e.id = i)
             => Settled(list, events)[i].state \in {"done", "failed"}
  BY <1>1 DEF Settled, Rows
<1>. QED  BY <1>5, <1>6

(* The polls that are left when one leaves the list.                        *)
LEMMA WaitersLeft ==
  ASSUME NEW S, NEW s \in Seq(S), NEW i \in 1..Len(s)
  PROVE  LET t == SubSeq(s, 1, i - 1) \o SubSeq(s, i + 1, Len(s)) IN
         /\ t \in Seq(S)
         /\ DOMAIN t = 1..(Len(s) - 1)
         /\ \A j \in 1..(Len(s) - 1) : t[j] = s[IF j < i THEN j ELSE j + 1]
<1>. DEFINE n == Len(s)
            front == SubSeq(s, 1, i - 1)
            back == SubSeq(s, i + 1, n)
            t == front \o back
<1>1. n \in Nat /\ i \in Nat /\ 1 <= i /\ i <= n /\ \A j \in 1..n : s[j] \in S
  OBVIOUS
<1>2. front \in Seq(S) /\ Len(front) = i - 1 /\ \A j \in 1..(i - 1) : front[j] = s[j]
  <2>. DEFINE m == i - 1
  <2>1. 1 \in Int /\ m \in Int /\ \A j \in 1..m : s[j] \in S
    BY <1>1
  <2>. HIDE DEF m, n
  <2>2. /\ SubSeq(s, 1, m) \in Seq(S)
        /\ Len(SubSeq(s, 1, m)) = IF 1 <= m THEN m - 1 + 1 ELSE 0
        /\ \A j \in 1..(m - 1 + 1) : SubSeq(s, 1, m)[j] = s[1 + j - 1]
    BY <2>1, SubSeqProperties DEF m
  <2>. QED  BY <1>1, <2>2 DEF m
<1>3. back \in Seq(S) /\ Len(back) = n - i /\ \A j \in 1..(n - i) : back[j] = s[j + i]
  <2>. DEFINE m == i + 1
  <2>1. m \in Int /\ n \in Int /\ \A j \in m..n : s[j] \in S
    BY <1>1
  <2>. HIDE DEF m, n
  <2>2. /\ SubSeq(s, m, n) \in Seq(S)
        /\ Len(SubSeq(s, m, n)) = IF m <= n THEN n - m + 1 ELSE 0
        /\ \A j \in 1..(n - m + 1) : SubSeq(s, m, n)[j] = s[m + j - 1]
    BY <2>1, SubSeqProperties
  <2>. QED  BY <1>1, <2>2 DEF m
<1>. HIDE DEF n, front, back
<1>4. /\ t \in Seq(S) /\ Len(t) = Len(front) + Len(back)
      /\ \A j \in 1..(Len(front) + Len(back)) :
           t[j] = IF j <= Len(front) THEN front[j] ELSE back[j - Len(front)]
  BY <1>2, <1>3, ConcatProperties
<1>. HIDE DEF t
<1>5. Len(front) + Len(back) = n - 1
  BY <1>1, <1>2, <1>3
<1>6. DOMAIN t = 1..(n - 1)
  BY <1>4, <1>5
<1>7. ASSUME NEW j \in 1..(n - 1)
      PROVE  t[j] = s[IF j < i THEN j ELSE j + 1]
  <2>1. t[j] = IF j <= i - 1 THEN front[j] ELSE back[j - (i - 1)]
    BY <1>2, <1>4, <1>5
  <2>2. CASE j < i
    <3>1. j \in 1..(i - 1) /\ j <= i - 1
      BY <1>1, <2>2
    <3>. QED  BY <1>2, <2>1, <2>2, <3>1
  <2>3. CASE ~(j < i)
    <3>1. j - (i - 1) \in 1..(n - i) /\ ~(j <= i - 1) /\ j - (i - 1) + i = j + 1
      BY <1>1, <2>3
    <3>. QED  BY <1>3, <2>1, <2>3, <3>1
  <2>. QED  BY <2>2, <2>3
<1>. QED  BY <1>4, <1>6, <1>7 DEF t, front, back, n

(* A command that is executed goes from the head of the batch to the end of *)
(* what was executed, and the order stays.                                  *)
LEMMA MoveFacts ==
  ASSUME NEW s \in Seq(Ids), NEW b \in Seq(Ids), b # <<>>,
         Ascending(s), Ascending(b), Below(s, b)
  PROVE  /\ Append(s, Head(b)) \in Seq(Ids) /\ Tail(b) \in Seq(Ids) /\ Head(b) \in Ids
         /\ Ascending(Append(s, Head(b))) /\ Ascending(Tail(b))
         /\ Below(Append(s, Head(b)), Tail(b))
         /\ \A k \in DOMAIN Append(s, Head(b)) :
              IF k \in DOMAIN s THEN Append(s, Head(b))[k] = s[k]
              ELSE k = Len(s) + 1 /\ Append(s, Head(b))[k] = Head(b)
         /\ \A k \in DOMAIN s : k \in DOMAIN Append(s, Head(b))
         /\ Len(s) + 1 \in DOMAIN Append(s, Head(b))
         /\ Append(s, Head(b))[Len(s) + 1] = Head(b)
         /\ \A k \in DOMAIN Tail(b) : k + 1 \in DOMAIN b /\ Tail(b)[k] = b[k + 1]
         /\ 1 \in DOMAIN b /\ Head(b) = b[1]
<1>1. /\ Len(s) \in Nat /\ DOMAIN s = 1..Len(s) /\ \A k \in 1..Len(s) : s[k] \in Ids
      /\ Len(b) \in Nat /\ DOMAIN b = 1..Len(b) /\ \A k \in 1..Len(b) : b[k] \in Ids
  OBVIOUS
<1>2. 1 \in DOMAIN b /\ Head(b) = b[1] /\ Len(b) >= 1
  BY <1>1, EmptySeq
<1>3. /\ Tail(b) \in Seq(Ids) /\ DOMAIN Tail(b) = 1..(Len(b) - 1)
      /\ \A k \in 1..(Len(b) - 1) : Tail(b)[k] = b[k + 1]
  BY <1>1, <1>2, HeadTailProperties
<1>4. /\ Append(s, Head(b)) \in Seq(Ids) /\ DOMAIN Append(s, Head(b)) = 1..(Len(s) + 1)
      /\ \A k \in 1..Len(s) : Append(s, Head(b))[k] = s[k]
      /\ Append(s, Head(b))[Len(s) + 1] = Head(b)
  BY <1>1, <1>2
<1>5. /\ \A k \in 1..(Len(s) + 1) : k \in 1..Len(s) \/ k = Len(s) + 1
      /\ \A k \in 1..(Len(b) - 1) : k + 1 \in 1..Len(b) /\ 1 < k + 1
      /\ Ids \subseteq Nat
  BY <1>1, <1>2, ChannelAssumption DEF ChannelAssumption, Ids
<1>6. /\ \A i, j \in 1..Len(s) : i < j => s[i] < s[j]
      /\ \A i, j \in 1..Len(b) : i < j => b[i] < b[j]
      /\ \A i \in 1..Len(s), j \in 1..Len(b) : s[i] < b[j]
  BY <1>1 DEF Ascending, Below
<1>7. Ascending(Append(s, Head(b)))
  <2>1. SUFFICES ASSUME NEW i \in 1..(Len(s) + 1), NEW j \in 1..(Len(s) + 1), i < j
                 PROVE  Append(s, Head(b))[i] < Append(s, Head(b))[j]
    BY <1>4 DEF Ascending
  <2>2. i \in 1..Len(s)
    BY <1>1, <2>1
  <2>3. CASE j \in 1..Len(s)
    BY <1>4, <1>6, <2>1, <2>2, <2>3
  <2>4. CASE j = Len(s) + 1
    BY <1>1, <1>2, <1>4, <1>6, <2>2, <2>4
  <2>. QED  BY <1>5, <2>3, <2>4
<1>8. Ascending(Tail(b))
  <2>1. SUFFICES ASSUME NEW i \in 1..(Len(b) - 1), NEW j \in 1..(Len(b) - 1), i < j
                 PROVE  b[i + 1] < b[j + 1]
    BY <1>3 DEF Ascending
  <2>2. i + 1 \in 1..Len(b) /\ j + 1 \in 1..Len(b) /\ i + 1 < j + 1
    BY <1>5, <2>1
  <2>. QED  BY <1>6, <2>2
<1>9. Below(Append(s, Head(b)), Tail(b))
  <2>1. SUFFICES ASSUME NEW i \in 1..(Len(s) + 1), NEW j \in 1..(Len(b) - 1)
                 PROVE  Append(s, Head(b))[i] < b[j + 1]
    BY <1>3, <1>4 DEF Below
  <2>2. j + 1 \in 1..Len(b) /\ 1 < j + 1 /\ 1 \in 1..Len(b)
    BY <1>1, <1>2, <1>5
  <2>3. CASE i \in 1..Len(s)
    BY <1>4, <1>6, <2>2, <2>3
  <2>4. CASE i = Len(s) + 1
    BY <1>2, <1>4, <1>6, <2>2, <2>4
  <2>. QED  BY <1>5, <2>3, <2>4
<1>10. \A k \in DOMAIN Append(s, Head(b)) :
         IF k \in DOMAIN s THEN Append(s, Head(b))[k] = s[k]
         ELSE k = Len(s) + 1 /\ Append(s, Head(b))[k] = Head(b)
  BY <1>1, <1>4, <1>5
<1>11. /\ \A k \in DOMAIN s : k \in DOMAIN Append(s, Head(b))
       /\ Len(s) + 1 \in DOMAIN Append(s, Head(b))
       /\ \A k \in DOMAIN Tail(b) : k + 1 \in DOMAIN b /\ Tail(b)[k] = b[k + 1]
  BY <1>1, <1>3, <1>4, <1>5
<1>. QED  BY <1>2, <1>3, <1>4, <1>7, <1>8, <1>9, <1>10, <1>11

(* The rows change as they may (nothing that was claimed waits again), what *)
(* waits is left or claimed, and an answer brings what was claimed: what    *)
(* waits stays behind all that was ever handed out.                         *)
LEMMA RowsStep ==
  ASSUME ChannelTypeOK, QueueInv, UNCHANGED <<executed, batch>>,
         NEW list \in Seq(Rows), NEW n \in 0..Len(list), Len(commands) <= Len(list),
         \A i \in DOMAIN list : list[i].state = "pending" <=> i > n,
         \A i \in DOMAIN commands :
           commands[i].state # "pending" => list[i].state # "pending",
         \/ commands' = list /\ reply' = reply
         \/ commands' = Claimed(list) /\ reply' \in {reply, Pending(list), <<>>}
  PROVE  QueueInv'
<1>1. /\ Len(list) \in Nat /\ DOMAIN list = 1..Len(list) /\ n \in Nat
      /\ Len(commands) \in Nat /\ DOMAIN commands = 1..Len(commands)
      /\ DOMAIN commands \subseteq DOMAIN list
  BY DEF ChannelTypeOK, ManagerOK
<1>2. /\ Claimed(list) \in Seq(Rows) /\ Len(Claimed(list)) = Len(list)
      /\ \A i \in DOMAIN list : Claimed(list)[i].state # "pending"
      /\ DOMAIN Claimed(list) = DOMAIN list
  BY <1>1, ClaimedFacts
<1>3. /\ Pending(list) \in Seq(DOMAIN list) /\ Ascending(Pending(list))
      /\ \A k \in DOMAIN Pending(list) : Pending(list)[k] \in DOMAIN list /\ Pending(list)[k] > n
  BY PendingFacts
<1>4. DOMAIN commands' = DOMAIN list /\ Len(commands') = Len(list)
  BY <1>2
<1>5. \A i \in DOMAIN commands : commands[i].state # "pending" =>
        i \in DOMAIN commands' /\ commands'[i].state # "pending" /\ i <= n
  BY <1>1, <1>2, <1>4
<1>6. \E m \in 0..Len(commands') : WaitsAbove(m)'
  <2>1. CASE commands' = list
    BY <1>4, <2>1 DEF WaitsAbove
  <2>2. CASE commands' = Claimed(list)
    <3>1. Len(list) \in 0..Len(list) /\ \A i \in DOMAIN list : ~(i > Len(list))
      BY <1>1
    <3>. QED  BY <1>2, <1>4, <2>2, <3>1 DEF WaitsAbove
  <2>. QED  BY <2>1, <2>2
<1>7. Claims(executed)' /\ Claims(batch)'
  BY <1>5 DEF QueueInv, Claims
<1>8. CASE reply' = reply
  BY <1>5, <1>6, <1>7, <1>8 DEF QueueInv, Claims, Ascending, Below
<1>9. CASE reply' = Pending(list) /\ commands' = Claimed(list)
  <2>1. Ascending(reply)' /\ Claims(reply)'
    BY <1>2, <1>3, <1>4, <1>9 DEF Ascending, Claims
  <2>2. Below(executed, reply)'
    <3>1. \A i \in DOMAIN executed : executed[i] <= n
      BY <1>5 DEF QueueInv, Claims
    <3>2. \A i \in DOMAIN executed : executed[i] \in Nat
      BY <1>1 DEF QueueInv, Claims
    <3>3. \A k \in DOMAIN Pending(list) : Pending(list)[k] \in Nat
      BY <1>1, <1>3
    <3>. QED  BY <1>1, <1>3, <1>9, <3>1, <3>2, <3>3 DEF Below
  <2>. QED  BY <1>6, <1>7, <2>1, <2>2 DEF QueueInv, Ascending, Below
<1>10. CASE reply' = <<>>
  <2>1. DOMAIN reply' = {}
    BY <1>10
  <2>. QED  BY <1>6, <1>7, <2>1 DEF QueueInv, Claims, Ascending, Below
<1>. QED  BY <1>8, <1>9, <1>10

(* A command that is queued is behind all others, and a claim takes it too. *)
LEMMA AppendedFacts ==
  ASSUME ManagerOK, NEW type \in {"node", "config.deliver"}, NEW n \in 0..Len(commands),
         WaitsAbove(n)
  PROVE  LET all == Append(commands, [type |-> type, state |-> "pending"]) IN
         /\ all \in Seq(Rows) /\ Len(all) = Len(commands) + 1 /\ n \in 0..Len(all)
         /\ DOMAIN all = 1..(Len(commands) + 1)
         /\ \A i \in DOMAIN all : all[i].state = "pending" <=> i > n
         /\ \A i \in DOMAIN commands : i \in DOMAIN all /\ all[i] = commands[i]
         /\ Len(commands) + 1 \in DOMAIN all /\ Len(commands) + 1 \notin DOMAIN commands
         /\ all[Len(commands) + 1] = [type |-> type, state |-> "pending"]
<1>. DEFINE row == [type |-> type, state |-> "pending"]
            all == Append(commands, row)
<1>1. row \in Rows /\ row.state = "pending"
  BY DEF Rows, States
<1>2. commands \in Seq(Rows) /\ Len(commands) \in Nat /\ DOMAIN commands = 1..Len(commands)
  BY DEF ManagerOK
<1>. HIDE DEF row
<1>3. /\ all \in Seq(Rows) /\ Len(all) = Len(commands) + 1
      /\ DOMAIN all = 1..(Len(commands) + 1)
      /\ \A i \in 1..Len(commands) : all[i] = commands[i]
      /\ all[Len(commands) + 1] = row
  BY <1>1, <1>2
<1>. HIDE DEF all
<1>4. \A i \in 1..(Len(commands) + 1) : i \in 1..Len(commands) \/ i = Len(commands) + 1
  BY <1>2
<1>5. \A i \in 1..(Len(commands) + 1) : all[i].state = "pending" <=> i > n
  BY <1>1, <1>2, <1>3, <1>4 DEF WaitsAbove
<1>6. /\ n \in 0..Len(all)
      /\ Len(commands) + 1 \in 1..(Len(commands) + 1) /\ Len(commands) + 1 \notin 1..Len(commands)
      /\ \A i \in 1..Len(commands) : i \in 1..(Len(commands) + 1)
  BY <1>2, <1>3
<1>. QED  BY <1>2, <1>3, <1>5, <1>6 DEF all, row

(* An answer brings ids of the queue.                                       *)
LEMMA AnsweredIds ==
  ASSUME NEW list \in Seq(Rows), Len(list) <= MaxCommands, NEW n \in 0..Len(list),
         \A i \in DOMAIN list : list[i].state = "pending" <=> i > n
  PROVE  Pending(list) \in Seq(Ids)
<1>1. Pending(list) \in Seq(DOMAIN list)
  BY PendingFacts
<1>2. DOMAIN list \subseteq Ids
  BY ChannelAssumption DEF Ids, ChannelAssumption
<1>. QED  BY <1>1, <1>2, SeqMonotonic

(* A command is queued, and the parked polls wake.                          *)
LEMMA EnqueueOrder ==
  ASSUME OrderInv, NEW type \in {"node", "config.deliver"}, EnqueueFor(type),
         UNCHANGED <<agentVars, executed>>
  PROVE  /\ commands' \in Seq(Rows) /\ Len(commands') = Len(commands) + 1
         /\ Len(commands') <= MaxCommands
         /\ waiters' = <<>>
         /\ request' \in {request, "answered"} /\ reply' \in Seq(Ids)
         /\ PollInv' /\ QueueInv'
<1>. DEFINE all == Append(commands, [type |-> type, state |-> "pending"])
<1>. USE DEF OrderInv, ChannelTypeOK, agentVars
<1>1. PICK n \in 0..Len(commands) : WaitsAbove(n)
  BY DEF QueueInv
<1>2. /\ all \in Seq(Rows) /\ Len(all) = Len(commands) + 1 /\ n \in 0..Len(all)
      /\ \A i \in DOMAIN all : all[i].state = "pending" <=> i > n
      /\ \A i \in DOMAIN commands : all[i] = commands[i]
  BY <1>1, AppendedFacts
<1>3. Len(commands) \in Nat /\ Len(commands) < MaxCommands /\ MaxCommands \in Nat
  BY ChannelAssumption DEF EnqueueFor, ManagerOK, ChannelAssumption
<1>. HIDE DEF all
<1>4. /\ waiters' = <<>>
      /\ \/ commands' = all /\ UNCHANGED <<request, reply>> /\ waiters = <<>>
         \/ /\ commands' = Claimed(all)
            /\ \/ request = "parked" /\ request' = "answered" /\ reply' \in {Pending(all), <<>>}
               \/ request # "parked" /\ UNCHANGED <<request, reply>>
  BY DEF EnqueueFor, Answer, all
<1>5. Claimed(all) \in Seq(Rows) /\ Len(Claimed(all)) = Len(all)
  BY <1>2, ClaimedFacts
<1>6. Len(all) <= MaxCommands /\ Len(commands) <= Len(all)
  BY <1>2, <1>3
<1>7. Pending(all) \in Seq(Ids) /\ <<>> \in Seq(Ids)
  BY <1>2, <1>6, AnsweredIds
<1>8. reply' \in Seq(Ids)
  BY <1>4, <1>7 DEF NetOK
<1>9. PollInv'
  <2>1. DOMAIN waiters' = {}
    BY <1>4
  <2>. QED  BY <1>4, <2>1 DEF PollInv
<1>10. QueueInv'
  BY <1>2, <1>4, <1>6, RowsStep
<1>. QED  BY <1>2, <1>4, <1>5, <1>6, <1>8, <1>9, <1>10

(* A poll is served up to its wait.                                         *)
LEMMA ServeOrder ==
  ASSUME OrderInv, NEW who \in {"live", "dead"}, NEW k, Serve(who, k),
         who = "live" => request = "sent",
         UNCHANGED <<agentVars, executed>>
  PROVE  /\ commands' \in Seq(Rows) /\ Len(commands') = Len(commands)
         /\ waiters' \in Seq({"live", "dead"}) /\ online' \in BOOLEAN
         /\ request' \in {request, "refused", "parked", "answered"} /\ reply' \in Seq(Ids)
         /\ PollInv' /\ QueueInv'
<1>. USE DEF OrderInv, ChannelTypeOK, agentVars
<1>1. PICK n \in 0..Len(commands) : WaitsAbove(n)
  BY DEF QueueInv
<1>2. commands \in Seq(Rows) /\ Len(commands) \in Nat /\ Len(commands) <= MaxCommands
  BY DEF ManagerOK
<1>3. Pending(commands) \in Seq(Ids)
  BY <1>1, <1>2, AnsweredIds DEF WaitsAbove
<1>4. Claimed(commands) \in Seq(Rows) /\ Len(Claimed(commands)) = Len(commands)
  BY <1>2, ClaimedFacts
<1>5. CASE /\ request' = IF who = "live" THEN "refused" ELSE request
           /\ UNCHANGED <<online, commands, waiters, reply>>
  <2>1. PollInv'
    BY <1>5 DEF PollInv
  <2>2. QueueInv'
    BY <1>1, <1>2, <1>5, RowsStep DEF WaitsAbove
  <2>. QED  BY <1>2, <1>5, <2>1, <2>2 DEF ManagerOK, NetOK
<1>6. CASE /\ online' = TRUE /\ waiters' = Append(waiters, who)
           /\ request' = IF who = "live" THEN "parked" ELSE request
           /\ UNCHANGED <<commands, reply>>
  <2>1. /\ waiters' \in Seq({"live", "dead"})
        /\ \A i \in DOMAIN waiters' : IF i \in DOMAIN waiters THEN waiters'[i] = waiters[i]
                                      ELSE i = Len(waiters) + 1 /\ waiters'[i] = who
    BY <1>6 DEF ManagerOK
  <2>2. PollInv'
    BY <1>6, <2>1 DEF PollInv
  <2>3. QueueInv'
    BY <1>1, <1>2, <1>6, RowsStep DEF WaitsAbove
  <2>. QED  BY <1>2, <1>6, <2>1, <2>2, <2>3 DEF NetOK
<1>7. CASE /\ online' = TRUE /\ commands' = Claimed(commands)
           /\ Answer(who, Pending(commands)) /\ UNCHANGED waiters
  <2>1. PollInv'
    BY <1>7 DEF PollInv, Answer
  <2>2. QueueInv'
    BY <1>1, <1>2, <1>7, RowsStep DEF WaitsAbove, Answer
  <2>. QED  BY <1>3, <1>4, <1>7, <2>1, <2>2 DEF ManagerOK, NetOK, Answer
<1>. QED  BY <1>5, <1>6, <1>7 DEF Serve

(* The wait of a poll is over.                                              *)
LEMMA WaitEndsOrder ==
  ASSUME OrderInv, NEW i \in DOMAIN waiters, WaitEnds(i)
  PROVE  OrderInv'
<1>. USE DEF OrderInv, ChannelTypeOK, agentVars, histVars
<1>1. PICK n \in 0..Len(commands) : WaitsAbove(n)
  BY DEF QueueInv
<1>2. commands \in Seq(Rows) /\ Len(commands) \in Nat /\ Len(commands) <= MaxCommands
  BY DEF ManagerOK
<1>3. Pending(commands) \in Seq(Ids)
  BY <1>1, <1>2, AnsweredIds DEF WaitsAbove
<1>4. Claimed(commands) \in Seq(Rows) /\ Len(Claimed(commands)) = Len(commands)
  BY <1>2, ClaimedFacts
<1>5. /\ waiters' \in Seq({"live", "dead"})
      /\ DOMAIN waiters' = 1..(Len(waiters) - 1)
      /\ \A j \in 1..(Len(waiters) - 1) : waiters'[j] = waiters[IF j < i THEN j ELSE j + 1]
  <2>1. waiters \in Seq({"live", "dead"}) /\ i \in 1..Len(waiters)
    BY DEF ManagerOK
  <2>2. waiters' = SubSeq(waiters, 1, i - 1) \o SubSeq(waiters, i + 1, Len(waiters))
    BY DEF WaitEnds
  <2>. QED  BY <2>1, <2>2, WaitersLeft, Zenon
<1>6. /\ commands' = Claimed(commands) /\ Answer(waiters[i], Pending(commands))
      /\ UNCHANGED <<machine, token, prev, graceOver, online, agentVars, strays, posts, histVars>>
  BY DEF WaitEnds
<1>7. ASSUME NEW j \in DOMAIN waiters'
      PROVE  \E k \in DOMAIN waiters : k # i /\ waiters'[j] = waiters[k]
                /\ k = IF j < i THEN j ELSE j + 1
  BY <1>5 DEF ManagerOK
<1>8. PollInv'
  <2>1. ASSUME NEW j \in DOMAIN waiters', NEW l \in DOMAIN waiters',
               waiters'[j] = "live", waiters'[l] = "live"
        PROVE  j = l
    BY <1>5, <1>7, <2>1 DEF PollInv, ManagerOK
  <2>2. ASSUME NEW j \in DOMAIN waiters', waiters'[j] = "live"
        PROVE  request' = "parked"
    BY <1>6, <1>7, <2>2 DEF PollInv, Answer
  <2>3. waiters[i] = "live" => request = "parked"
    BY DEF PollInv
  <2>. QED  BY <1>6, <2>1, <2>2, <2>3 DEF PollInv, Answer
<1>9. QueueInv'
  BY <1>1, <1>2, <1>6, RowsStep DEF WaitsAbove, Answer
<1>10. ManagerOK' /\ AgentOK' /\ NetOK'
  BY <1>2, <1>3, <1>4, <1>5, <1>6 DEF ManagerOK, AgentOK, NetOK, Answer
<1>. QED  BY <1>8, <1>9, <1>10

(* The keys, the clock and what only loses or sends something.              *)
LEMMA KeysOrder ==
  ASSUME OrderInv,
         \/ Revoke \/ GraceEnds \/ FallsSilent \/ Poll \/ AgentStarts
         \/ \E p \in posts : PostLost(p)
  PROVE  OrderInv'
<1>. USE DEF OrderInv, ChannelTypeOK, managerVars, agentVars, netVars, histVars
<1>1. /\ UNCHANGED <<token, prev, commands, waiters, capable, held, saved, batch, results,
                     reply, strays, executed, hurried>>
      /\ machine' \in {machine, "revoked"} /\ posts' \subseteq posts
      /\ {graceOver', online', lapsed'} \subseteq BOOLEAN
  BY DEF Revoke, GraceEnds, FallsSilent, Poll, AgentStarts, PostLost, ManagerOK, NetOK
<1>2. \/ UNCHANGED <<phase, request>>
      \/ phase = "ready" /\ phase' = "polling" /\ request' = "sent"
      \/ phase = "down" /\ phase' = "ready" /\ request' = request
  BY DEF Revoke, GraceEnds, FallsSilent, Poll, AgentStarts, PostLost
<1>3. ManagerOK' /\ AgentOK'
  BY <1>1, <1>2 DEF ManagerOK, AgentOK
<1>4. NetOK'
  BY <1>1, <1>2 DEF NetOK
<1>5. PollInv'
  BY <1>1, <1>2 DEF PollInv
<1>6. QueueInv'
  BY <1>1 DEF QueueInv, WaitsAbove, Ascending, Below, Claims
<1>. QED  BY <1>3, <1>4, <1>5, <1>6

(* A command is queued: a node's, or the delivery of a key.                 *)
LEMMA QueueOrder ==
  ASSUME OrderInv, EnqueueCommand \/ Rotate
  PROVE  OrderInv'
<1>. USE DEF OrderInv, ChannelTypeOK, agentVars, histVars
<1>1. PICK type \in {"node", "config.deliver"} : EnqueueFor(type)
  BY DEF EnqueueCommand, Rotate
<1>2. UNCHANGED <<agentVars, executed, machine, online, strays, posts, lapsed>>
  BY DEF EnqueueCommand, Rotate
<1>3. /\ commands' \in Seq(Rows) /\ Len(commands') = Len(commands) + 1
      /\ Len(commands') <= MaxCommands
      /\ waiters' = <<>>
      /\ request' \in {request, "answered"} /\ reply' \in Seq(Ids)
      /\ PollInv' /\ QueueInv'
  BY <1>1, <1>2, EnqueueOrder
<1>4. Len(commands) + 1 \in Keys
  BY <1>3, ChannelAssumption DEF Keys, ChannelAssumption, ManagerOK
<1>5. token' \in Keys /\ prev' \subseteq Keys /\ \A k, l \in prev' : k = l
  BY <1>4 DEF EnqueueCommand, Rotate, ManagerOK
<1>6. {graceOver', hurried'} \subseteq BOOLEAN
  BY DEF EnqueueCommand, Rotate, ManagerOK, NetOK, Unsettled
<1>7. ManagerOK'
  BY <1>2, <1>3, <1>5, <1>6 DEF ManagerOK
<1>8. AgentOK' /\ NetOK'
  BY <1>2, <1>3, <1>6 DEF AgentOK, NetOK
<1>. QED  BY <1>3, <1>7, <1>8

(* A poll arrives, or one that was given up.                                *)
LEMMA ServedOrder ==
  ASSUME OrderInv, PollArrives \/ \E k \in strays : StrayArrives(k)
  PROVE  OrderInv'
<1>. USE DEF OrderInv, ChannelTypeOK, agentVars, histVars
<1>1. PICK who \in {"live", "dead"}, k \in {held} \union strays :
        Serve(who, k) /\ (who = "live" => request = "sent")
  BY DEF PollArrives, StrayArrives
<1>2. /\ UNCHANGED <<machine, token, prev, graceOver, agentVars, posts, executed, hurried, lapsed>>
      /\ strays' \subseteq strays
  BY DEF PollArrives, StrayArrives
<1>3. /\ commands' \in Seq(Rows) /\ Len(commands') = Len(commands)
      /\ waiters' \in Seq({"live", "dead"}) /\ online' \in BOOLEAN
      /\ request' \in {request, "refused", "parked", "answered"} /\ reply' \in Seq(Ids)
      /\ PollInv' /\ QueueInv'
  BY <1>1, <1>2, ServeOrder
<1>4. ManagerOK' /\ AgentOK' /\ NetOK'
  BY <1>2, <1>3 DEF ManagerOK, AgentOK, NetOK
<1>. QED  BY <1>3, <1>4

(* The rows go on without the agent: deleted, reported, failed at a boot.   *)
LEMMA DeletedRows ==
  ASSUME ManagerOK, Delete
  PROVE  /\ commands' \in Seq(Rows) /\ Len(commands') = Len(commands)
         /\ \A i \in DOMAIN commands :
              commands'[i].type = commands[i].type /\ commands'[i].state = "gone"
<1>1. /\ commands \in Seq(Rows) /\ Len(commands) \in Nat /\ DOMAIN commands = 1..Len(commands)
      /\ \A i \in 1..Len(commands) : commands[i] \in Rows
  BY DEF ManagerOK
<1>2. commands' = [i \in 1..Len(commands) |-> [commands[i] EXCEPT !.state = "gone"]]
  BY <1>1 DEF Delete
<1>3. \A i \in 1..Len(commands) : [commands[i] EXCEPT !.state = "gone"] \in Rows
  BY <1>1 DEF Rows, States
<1>4. commands' \in [1..Len(commands) -> Rows]
  BY <1>2, <1>3
<1>5. commands' \in Seq(Rows) /\ Len(commands') = Len(commands)
  BY <1>1, <1>4, FunctionIsSequence
<1>. QED  BY <1>1, <1>2, <1>5 DEF Rows

LEMMA FailedRows ==
  ASSUME ManagerOK, ManagerRestarts
  PROVE  /\ commands' \in Seq(Rows) /\ Len(commands') = Len(commands)
         /\ \A i \in DOMAIN commands :
              /\ commands'[i].type = commands[i].type
              /\ commands'[i].state = IF commands[i].state = "delivered" THEN "failed"
                                      ELSE commands[i].state
<1>. DEFINE row(i) == IF commands[i].state = "delivered"
                      THEN [commands[i] EXCEPT !.state = "failed"] ELSE commands[i]
<1>1. /\ commands \in Seq(Rows) /\ Len(commands) \in Nat /\ DOMAIN commands = 1..Len(commands)
      /\ \A i \in 1..Len(commands) : commands[i] \in Rows
  BY DEF ManagerOK
<1>2. commands' = [i \in 1..Len(commands) |-> row(i)]
  BY <1>1 DEF ManagerRestarts
<1>3. \A i \in 1..Len(commands) :
        /\ row(i) \in Rows /\ row(i).type = commands[i].type
        /\ row(i).state = IF commands[i].state = "delivered" THEN "failed" ELSE commands[i].state
  BY <1>1 DEF Rows, States
<1>. HIDE DEF row
<1>4. commands' \in [1..Len(commands) -> Rows]
  BY <1>2, <1>3
<1>5. commands' \in Seq(Rows) /\ Len(commands') = Len(commands)
  BY <1>1, <1>4, FunctionIsSequence
<1>. QED  BY <1>1, <1>2, <1>3, <1>5

LEMMA RowsOrder ==
  ASSUME OrderInv, Delete \/ ManagerRestarts \/ \E p \in posts : PostArrives(p)
  PROVE  OrderInv'
<1>. USE DEF OrderInv, ChannelTypeOK, agentVars, netVars, histVars
<1>1. PICK n \in 0..Len(commands) : WaitsAbove(n)
  BY DEF QueueInv
<1>2. /\ commands \in Seq(Rows) /\ Len(commands) \in Nat /\ Len(commands) <= MaxCommands
      /\ DOMAIN commands = 1..Len(commands)
  BY DEF ManagerOK
<1>3. /\ commands' \in Seq(Rows) /\ Len(commands') = Len(commands)
      /\ \/ \A i \in DOMAIN commands : commands'[i].state = "pending" <=> commands[i].state = "pending"
         \/ \A i \in DOMAIN commands : commands'[i].state # "pending"
  <2>1. CASE Delete
    BY <2>1, DeletedRows
  <2>2. CASE ManagerRestarts
    BY <2>2, FailedRows
  <2>3. ASSUME NEW p \in posts, PostArrives(p)
        PROVE  /\ commands' \in Seq(Rows) /\ Len(commands') = Len(commands)
               /\ \A i \in DOMAIN commands :
                    commands'[i].state = "pending" <=> commands[i].state = "pending"
    <3>1. CASE Accepted(p.key)
      <4>. DEFINE events == {p.events[i] : i \in DOMAIN p.events}
      <4>1. commands' = Settled(commands, events)
        BY <2>3, <3>1 DEF PostArrives
      <4>. HIDE DEF events
      <4>. QED  BY <1>2, <4>1, SettledFacts
    <3>2. CASE ~Accepted(p.key)
      BY <1>2, <2>3, <3>2 DEF PostArrives
    <3>. QED  BY <3>1, <3>2
  <2>. QED  BY <2>1, <2>2, <2>3
<1>4. PICK m \in 0..Len(commands') : \A i \in DOMAIN commands' : commands'[i].state = "pending" <=> i > m
  <2>1. DOMAIN commands' = 1..Len(commands)
    BY <1>3
  <2>2. CASE \A i \in DOMAIN commands : commands'[i].state = "pending" <=> commands[i].state = "pending"
    BY <1>1, <1>2, <1>3, <2>1, <2>2 DEF WaitsAbove
  <2>3. CASE \A i \in DOMAIN commands : commands'[i].state # "pending"
    <3>1. Len(commands) \in 0..Len(commands) /\ \A i \in 1..Len(commands) : ~(i > Len(commands))
      BY <1>2
    <3>. QED  BY <1>2, <1>3, <2>1, <2>3, <3>1
  <2>. QED  BY <1>3, <2>2, <2>3
<1>5. UNCHANGED <<executed, batch, reply, phase, capable, held, saved, results, strays, hurried, lapsed>>
  BY DEF Delete, ManagerRestarts, PostArrives
<1>6. \A i \in DOMAIN commands : commands[i].state # "pending" => commands'[i].state # "pending"
  BY <1>3
<1>7. QueueInv'
  <2>. DEFINE list == commands'
  <2>1. /\ list \in Seq(Rows) /\ m \in 0..Len(list) /\ Len(commands) <= Len(list)
        /\ \A i \in DOMAIN list : list[i].state = "pending" <=> i > m
        /\ \A i \in DOMAIN commands : commands[i].state # "pending" => list[i].state # "pending"
        /\ commands' = list /\ reply' = reply
    BY <1>2, <1>3, <1>4, <1>5, <1>6
  <2>. HIDE DEF list
  <2>. QED  BY <1>5, <2>1, RowsStep
<1>8. PollInv'
  <2>1. CASE UNCHANGED <<waiters, request>>
    BY <1>5, <2>1 DEF PollInv
  <2>2. CASE ManagerRestarts
    <3>1. waiters' = <<>> /\ request' = IF request = "parked" THEN "broken" ELSE request
      BY <2>2 DEF ManagerRestarts
    <3>2. DOMAIN waiters' = {}
      BY <3>1
    <3>. QED  BY <1>5, <3>1, <3>2 DEF PollInv
  <2>. QED  BY <2>1, <2>2 DEF Delete, PostArrives
<1>9. /\ machine' \in {machine, "deleted"} /\ {graceOver', online'} \subseteq BOOLEAN
      /\ waiters' \in {waiters, <<>>} /\ request' \in {request, "broken"} /\ posts' \subseteq posts
  BY DEF Delete, ManagerRestarts, PostArrives, ManagerOK
<1>10. token' \in Keys /\ prev' \subseteq Keys /\ \A k, l \in prev' : k = l
  <2>1. CASE UNCHANGED <<token, prev>>
    BY <2>1 DEF ManagerOK
  <2>2. ASSUME NEW p \in posts, KeysAfter(p.events)
        PROVE  token' \in Keys /\ prev' \in {prev, {}}
    BY <2>2 DEF KeysAfter, ManagerOK
  <2>. QED  BY <2>1, <2>2 DEF Delete, ManagerRestarts, PostArrives, ManagerOK
<1>11. waiters' \in Seq({"live", "dead"})
  <2>1. <<>> \in Seq({"live", "dead"})
    OBVIOUS
  <2>. QED  BY <1>9, <2>1 DEF ManagerOK
<1>12. ManagerOK'
  BY <1>2, <1>3, <1>9, <1>10, <1>11 DEF ManagerOK
<1>13. AgentOK' /\ NetOK'
  BY <1>5, <1>9 DEF AgentOK, NetOK
<1>. QED  BY <1>7, <1>8, <1>12, <1>13

(* The agent's end of a poll is gone.                                       *)
LEMMA GiveUpFacts ==
  ASSUME OrderInv, GiveUp
  PROVE  /\ waiters' \in Seq({"live", "dead"}) /\ Len(waiters') = Len(waiters)
         /\ \A i \in DOMAIN waiters' : waiters'[i] = "dead"
         /\ request' = "none" /\ reply' = <<>>
         /\ strays' \subseteq Keys \union {NoKey}
<1>. USE DEF OrderInv, ChannelTypeOK
<1>1. waiters' = [i \in 1..Len(waiters) |-> "dead"] /\ Len(waiters) \in Nat
  BY DEF GiveUp, ManagerOK
<1>2. waiters' \in [1..Len(waiters) -> {"live", "dead"}]
  BY <1>1
<1>3. waiters' \in Seq({"live", "dead"}) /\ Len(waiters') = Len(waiters)
  BY <1>1, <1>2, FunctionIsSequence
<1>4. strays' \subseteq Keys \union {NoKey}
  BY DEF GiveUp, NetOK, AgentOK
<1>. QED  BY <1>1, <1>3, <1>4 DEF GiveUp

(* The steps of the agent's loop that execute nothing.                      *)
LEMMA LoopOrder ==
  ASSUME OrderInv,
         PollFails \/ AgentDies \/ TakeCommands \/ IdentityRejected \/ Report
  PROVE  OrderInv'
<1>. USE DEF OrderInv, ChannelTypeOK, managerVars, histVars
<1>0. /\ UNCHANGED <<machine, token, prev, graceOver, online, commands, capable, executed,
                     hurried, lapsed>>
      /\ <<>> \in Seq(Ids) /\ <<>> \in Seq(Events)
  BY DEF PollFails, AgentDies, TakeCommands, IdentityRejected, Report
<1>1. CASE PollFails \/ AgentDies
  <2>1. /\ GiveUp /\ posts' = posts /\ phase' \in {"ready", "down"}
        /\ saved' = saved /\ held' \in {held, saved}
        /\ batch' \in {batch, <<>>} /\ (phase' = "ready" => phase = "polling")
        /\ (phase' = "down" => batch' = <<>>) /\ results' \in {results, <<>>}
    BY <1>1 DEF PollFails, AgentDies
  <2>2. /\ waiters' \in Seq({"live", "dead"}) /\ Len(waiters') = Len(waiters)
        /\ \A i \in DOMAIN waiters' : waiters'[i] = "dead"
        /\ request' = "none" /\ reply' = <<>>
        /\ strays' \subseteq Keys \union {NoKey}
    BY <2>1, GiveUpFacts
  <2>3. ManagerOK'
    BY <1>0, <2>2 DEF ManagerOK
  <2>4. AgentOK' /\ NetOK'
    BY <1>0, <2>1, <2>2 DEF AgentOK, NetOK
  <2>5. PollInv'
    BY <2>1, <2>2 DEF PollInv
  <2>6. QueueInv'
    <3>1. DOMAIN reply' = {} /\ (batch' = batch \/ DOMAIN batch' = {})
      BY <2>1, <2>2
    <3>. QED  BY <1>0, <3>1 DEF QueueInv, WaitsAbove, Ascending, Below, Claims
  <2>. QED  BY <2>3, <2>4, <2>5, <2>6
<1>2. CASE TakeCommands
  <2>1. /\ phase = "polling" /\ phase' = "executing" /\ batch' = reply /\ results' = <<>>
        /\ request = "answered" /\ request' = "none" /\ reply' = <<>>
        /\ UNCHANGED <<waiters, held, saved, strays, posts>>
    BY <1>2 DEF TakeCommands
  <2>2. ManagerOK' /\ AgentOK' /\ NetOK'
    BY <1>0, <2>1 DEF ManagerOK, AgentOK, NetOK
  <2>3. PollInv'
    BY <2>1 DEF PollInv
  <2>4. QueueInv'
    <3>1. DOMAIN reply' = {}
      BY <2>1
    <3>. QED  BY <1>0, <2>1, <3>1 DEF QueueInv, WaitsAbove, Ascending, Below, Claims
  <2>. QED  BY <2>2, <2>3, <2>4
<1>3. CASE IdentityRejected
  <2>1. /\ phase' = "lockedOut" /\ request = "refused" /\ request' = "none"
        /\ phase = "polling" /\ held' = NoKey /\ saved' = NoKey
        /\ UNCHANGED <<waiters, batch, results, reply, strays, posts>>
    BY <1>3 DEF IdentityRejected
  <2>2. ManagerOK' /\ AgentOK' /\ NetOK'
    BY <1>0, <2>1 DEF ManagerOK, AgentOK, NetOK
  <2>3. PollInv'
    BY <2>1 DEF PollInv
  <2>4. QueueInv'
    BY <1>0, <2>1 DEF QueueInv, WaitsAbove, Ascending, Below, Claims
  <2>. QED  BY <2>2, <2>3, <2>4
<1>4. CASE Report
  <2>1. /\ phase = "executing" /\ phase' = "ready" /\ batch = <<>> /\ results' = <<>>
        /\ posts' \in {posts, posts \union {[key |-> held, events |-> results]}}
        /\ UNCHANGED <<waiters, held, saved, batch, request, reply, strays>>
    BY <1>4 DEF Report
  <2>2. posts' \subseteq [key : Keys \union {NoKey}, events : Seq(Events)]
    BY <2>1 DEF AgentOK, NetOK
  <2>3. ManagerOK' /\ AgentOK' /\ NetOK'
    BY <1>0, <2>1, <2>2 DEF ManagerOK, AgentOK, NetOK
  <2>4. PollInv'
    BY <2>1 DEF PollInv
  <2>5. QueueInv'
    BY <1>0, <2>1 DEF QueueInv, WaitsAbove, Ascending, Below, Claims
  <2>. QED  BY <2>3, <2>4, <2>5
<1>. QED  BY <1>1, <1>2, <1>3, <1>4

(* A command is executed: it leaves the batch, or the round ends with it.   *)
LEMMA ExecuteFacts ==
  ASSUME OrderInv, ExecuteThrows \/ \E ok \in BOOLEAN : Execute(ok)
  PROVE  /\ phase = "executing" /\ reply = <<>> /\ batch # <<>> /\ request = "none"
         /\ batch \in Seq(Ids) /\ executed \in Seq(Ids)
         /\ executed' = Append(executed, Head(batch)) /\ batch' \in {Tail(batch), <<>>}
         /\ Ascending(executed) /\ Ascending(batch) /\ Below(executed, batch)
BY DEF OrderInv, ChannelTypeOK, AgentOK, NetOK, PollInv, QueueInv, Execute, ExecuteThrows

LEMMA ExecuteOrder ==
  ASSUME OrderInv, ExecuteThrows \/ \E ok \in BOOLEAN : Execute(ok)
  PROVE  OrderInv'
<1>. USE DEF OrderInv, ChannelTypeOK, managerVars, netVars
<1>1. /\ phase = "executing" /\ reply = <<>> /\ batch # <<>> /\ request = "none"
      /\ batch \in Seq(Ids) /\ executed \in Seq(Ids)
      /\ executed' = Append(executed, Head(batch)) /\ batch' \in {Tail(batch), <<>>}
      /\ Ascending(executed) /\ Ascending(batch) /\ Below(executed, batch)
  BY ExecuteFacts
<1>2. /\ UNCHANGED <<managerVars, capable, netVars, hurried, lapsed>>
      /\ phase' = "executing" \/ (phase' = "ready" /\ batch' = <<>>)
      /\ {held', saved'} \subseteq {held, saved, Head(batch)}
      /\ \/ results' = <<>>
         \/ \E ok \in BOOLEAN : results' = Append(results, [id |-> Head(batch), ok |-> ok])
  BY DEF Execute, ExecuteThrows
<1>3. /\ executed' \in Seq(Ids) /\ Tail(batch) \in Seq(Ids) /\ Head(batch) \in Ids
      /\ Ascending(executed') /\ Ascending(Tail(batch)) /\ Below(executed', Tail(batch))
      /\ \A k \in DOMAIN executed' :
           IF k \in DOMAIN executed THEN executed'[k] = executed[k] ELSE executed'[k] = Head(batch)
      /\ \A k \in DOMAIN Tail(batch) : k + 1 \in DOMAIN batch /\ Tail(batch)[k] = batch[k + 1]
      /\ 1 \in DOMAIN batch /\ Head(batch) = batch[1]
  BY <1>1, MoveFacts
<1>4. batch' \in Seq(Ids) /\ Ascending(batch') /\ Below(executed', batch')
  <2>1. CASE batch' = <<>>
    <3>1. DOMAIN batch' = {} /\ <<>> \in Seq(Ids)
      BY <2>1
    <3>. QED  BY <2>1, <3>1 DEF Ascending, Below
  <2>2. CASE batch' = Tail(batch)
    BY <1>3, <2>2
  <2>. QED  BY <1>1, <2>1, <2>2
<1>5. results' \in Seq(Events)
  <2>1. CASE results' = <<>>
    BY <2>1
  <2>2. ASSUME NEW ok \in BOOLEAN, results' = Append(results, [id |-> Head(batch), ok |-> ok])
        PROVE  results' \in Seq(Events)
    <3>. DEFINE e == [id |-> Head(batch), ok |-> ok]
    <3>1. e \in Events
      BY <1>3 DEF Events
    <3>2. results' = Append(results, e)
      BY <2>2
    <3>. HIDE DEF e
    <3>. QED  BY <3>1, <3>2 DEF AgentOK
  <2>. QED  BY <1>2, <2>1, <2>2
<1>6. Ids \subseteq Keys
  BY ChannelAssumption DEF Ids, Keys, ChannelAssumption
<1>7. ManagerOK' /\ AgentOK' /\ NetOK'
  <2>1. ManagerOK'
    BY <1>2 DEF ManagerOK
  <2>2. AgentOK'
    BY <1>1, <1>2, <1>3, <1>4, <1>5, <1>6 DEF AgentOK
  <2>3. NetOK'
    BY <1>2, <1>3 DEF NetOK
  <2>. QED  BY <2>1, <2>2, <2>3
<1>8. PollInv'
  BY <1>1, <1>2 DEF PollInv
<1>9. Claims(executed)' /\ Claims(batch)'
  <2>1. \A k \in DOMAIN batch : batch[k] \in DOMAIN commands /\ commands[batch[k]].state # "pending"
    BY DEF QueueInv, Claims
  <2>2. \A k \in DOMAIN executed : executed[k] \in DOMAIN commands /\ commands[executed[k]].state # "pending"
    BY DEF QueueInv, Claims
  <2>3. DOMAIN batch' = {} \/ batch' = Tail(batch)
    BY <1>1
  <2>. QED  BY <1>2, <1>3, <2>1, <2>2, <2>3, SMTT(30) DEF Claims
<1>10. Ascending(reply)' /\ Below(executed, reply)' /\ Claims(reply)'
  <2>1. DOMAIN reply' = {}
    BY <1>1, <1>2
  <2>. QED  BY <2>1 DEF Ascending, Below, Claims
<1>11. QueueInv'
  BY <1>2, <1>3, <1>4, <1>9, <1>10 DEF QueueInv, WaitsAbove, Ascending, Below
<1>. QED  BY <1>7, <1>8, <1>11

(* What the manager and the agent keep of the queue.                        *)
LEMMA OrderStep == OrderInv /\ [ChannelNext]_channelVars => OrderInv'
<1>. SUFFICES ASSUME OrderInv, [ChannelNext]_channelVars PROVE OrderInv'
  OBVIOUS
<1>1. CASE UNCHANGED channelVars
  BY <1>1 DEF channelVars, managerVars, agentVars, netVars, histVars, OrderInv, ChannelTypeOK,
              ManagerOK, AgentOK, NetOK, PollInv, QueueInv, WaitsAbove, Ascending, Below, Claims
<1>2. CASE EnqueueCommand \/ Rotate
  BY <1>2, QueueOrder
<1>3. CASE \/ Revoke \/ GraceEnds \/ FallsSilent \/ Poll \/ AgentStarts
           \/ \E p \in posts : PostLost(p)
  BY <1>3, KeysOrder
<1>4. CASE PollArrives \/ \E k \in strays : StrayArrives(k)
  BY <1>4, ServedOrder
<1>5. CASE \E i \in DOMAIN waiters : WaitEnds(i)
  BY <1>5, WaitEndsOrder
<1>6. CASE Delete \/ ManagerRestarts \/ \E p \in posts : PostArrives(p)
  BY <1>6, RowsOrder
<1>7. CASE PollFails \/ AgentDies \/ TakeCommands \/ IdentityRejected \/ Report
  BY <1>7, LoopOrder
<1>8. CASE ExecuteThrows \/ \E ok \in BOOLEAN : Execute(ok)
  BY <1>8, ExecuteOrder
<1>. QED  BY <1>1, <1>2, <1>3, <1>4, <1>5, <1>6, <1>7, <1>8 DEF ChannelNext

LEMMA OrderInit == ChannelInit => OrderInv
<1>. SUFFICES ASSUME ChannelInit PROVE OrderInv
  OBVIOUS
<1>. USE DEF ChannelInit
<1>1. /\ <<>> \in Seq(Rows) /\ <<>> \in Seq({"live", "dead"}) /\ <<>> \in Seq(Ids)
      /\ <<>> \in Seq(Events) /\ Len(<<>>) = 0 /\ DOMAIN <<>> = {}
      /\ 0 \in Keys /\ 0 <= MaxCommands
  BY ChannelAssumption DEF ChannelAssumption, Keys
<1>2. ManagerOK
  BY <1>1 DEF ManagerOK
<1>3. AgentOK /\ NetOK
  BY <1>1 DEF AgentOK, NetOK
<1>4. PollInv
  BY <1>1 DEF PollInv
<1>5. QueueInv
  <2>1. WaitsAbove(0) /\ 0 \in 0..Len(commands)
    BY <1>1 DEF WaitsAbove
  <2>. QED  BY <1>1, <2>1 DEF QueueInv, Ascending, Below, Claims
<1>. QED  BY <1>2, <1>3, <1>4, <1>5 DEF OrderInv, ChannelTypeOK

LEMMA OrderHolds == ChannelSpec => []OrderInv
<1>. QED  BY OrderInit, OrderStep, PTL DEF ChannelSpec

(* The rows, the polls, the reports and the keys on both sides are well     *)
(* typed (the tables agentMachine and agentCommand, the waiters of          *)
(* routes/agents.ts and the state of the agent's loop).                     *)
THEOREM ChannelIsTyped == ChannelSpec => []ChannelTypeOK
<1>1. OrderInv => ChannelTypeOK
  BY DEF OrderInv
<1>. QED  BY <1>1, OrderHolds, PTL

(* A command is executed at most once and in the order of the queue,        *)
(* through polls given up, lost reports and restarts of either side         *)
(* (claimCommands against the agent's loop).                                *)
THEOREM CommandsRunInOrder == ChannelSpec => []ExecutedOnceInOrder
<1>1. OrderInv => ExecutedOnceInOrder
  BY DEF OrderInv, QueueInv, Ascending, ExecutedOnceInOrder
<1>. QED  BY <1>1, OrderHolds, PTL

-----------------------------------------------------------------------------
(* No answer is empty while something waits, and none is full while nothing *)
(* does.                                                                    *)
LEMMA NonePending ==
  ASSUME OrderInv
  PROVE  Pending(commands) = <<>> <=> \A i \in DOMAIN commands : commands[i].state # "pending"
<1>1. PICK n \in 0..Len(commands) : WaitsAbove(n)
  BY DEF OrderInv, QueueInv
<1>2. commands \in Seq(Rows) /\ Len(commands) \in Nat /\ DOMAIN commands = 1..Len(commands)
  BY DEF OrderInv, ChannelTypeOK, ManagerOK
<1>3. /\ Pending(commands) \in Seq(DOMAIN commands)
      /\ \A k \in DOMAIN Pending(commands) : Pending(commands)[k] > n
      /\ Pending(commands) = <<>> => n = Len(commands)
  BY <1>1, <1>2, PendingFacts DEF WaitsAbove
<1>4. \A k \in DOMAIN Pending(commands) : Pending(commands)[k] \in DOMAIN commands
  BY <1>3
<1>5. ASSUME \A i \in DOMAIN commands : commands[i].state # "pending"
      PROVE  Pending(commands) = <<>>
  <2>1. DOMAIN Pending(commands) = {}
    BY <1>1, <1>2, <1>3, <1>4, <1>5 DEF WaitsAbove
  <2>. QED  BY <1>3, <2>1, EmptySeq
<1>6. ASSUME n = Len(commands)
      PROVE  \A i \in DOMAIN commands : commands[i].state # "pending"
  BY <1>1, <1>2, <1>6 DEF WaitsAbove
<1>. QED  BY <1>3, <1>5, <1>6

(* While a poll is parked, no row waits.                                    *)
WakeInv == waiters # <<>> => \A i \in DOMAIN commands : commands[i].state # "pending"

LEMMA WakeStep == OrderInv /\ WakeInv /\ [ChannelNext]_channelVars => WakeInv'
<1>. SUFFICES ASSUME OrderInv, WakeInv, [ChannelNext]_channelVars PROVE WakeInv'
  OBVIOUS
<1>. USE DEF WakeInv
<1>0. /\ commands \in Seq(Rows) /\ Len(commands) \in Nat /\ DOMAIN commands = 1..Len(commands)
      /\ ManagerOK
  BY DEF OrderInv, ChannelTypeOK, ManagerOK
<1>1. CASE UNCHANGED channelVars \/ (UNCHANGED commands /\ waiters' \in {waiters, <<>>})
  BY <1>1 DEF channelVars, managerVars
<1>2. CASE EnqueueCommand \/ Rotate
  BY <1>2 DEF EnqueueCommand, Rotate, EnqueueFor
<1>3. CASE PollArrives \/ \E k \in strays : StrayArrives(k)
  <2>1. PICK who \in {"live", "dead"}, k \in {held} \union strays : Serve(who, k)
    BY <1>3 DEF PollArrives, StrayArrives
  <2>2. CASE UNCHANGED <<commands, waiters>>
    BY <2>2
  <2>3. CASE Pending(commands) = <<>> /\ commands' = commands
    BY <2>3, NonePending
  <2>4. CASE commands' = Claimed(commands) /\ waiters' = waiters
    BY <1>0, <2>4, ClaimedFacts
  <2>. QED  BY <2>1, <2>2, <2>3, <2>4 DEF Serve
<1>4. CASE \E i \in DOMAIN waiters : WaitEnds(i)
  <2>1. commands' = Claimed(commands)
    BY <1>4 DEF WaitEnds
  <2>. QED  BY <1>0, <2>1, ClaimedFacts
<1>5. CASE Delete
  BY <1>0, <1>5, DeletedRows
<1>6. CASE ManagerRestarts
  BY <1>6 DEF ManagerRestarts
<1>7. ASSUME NEW p \in posts, PostArrives(p)
      PROVE  WakeInv'
  <2>1. CASE ~Accepted(p.key)
    BY <1>7, <2>1 DEF PostArrives
  <2>2. CASE Accepted(p.key)
    <3>. DEFINE events == {p.events[i] : i \in DOMAIN p.events}
    <3>1. commands' = Settled(commands, events) /\ waiters' = waiters
      BY <1>7, <2>2 DEF PostArrives
    <3>. HIDE DEF events
    <3>. QED  BY <1>0, <3>1, SettledFacts
  <2>. QED  BY <2>1, <2>2
<1>8. CASE PollFails \/ AgentDies
  <2>1. commands' = commands /\ GiveUp
    BY <1>8 DEF PollFails, AgentDies
  <2>2. waiters' # <<>> => waiters # <<>>
    <3>1. Len(waiters') = Len(waiters) /\ waiters' \in Seq({"live", "dead"})
      BY <2>1, GiveUpFacts
    <3>. QED  BY <3>1, EmptySeq
  <2>. QED  BY <2>1, <2>2
<1>9. CASE \/ Revoke \/ GraceEnds \/ FallsSilent \/ Poll \/ AgentStarts
           \/ (\E p \in posts : PostLost(p))
           \/ TakeCommands \/ IdentityRejected \/ Report
           \/ ExecuteThrows \/ \E ok \in BOOLEAN : Execute(ok)
  BY <1>9 DEF Revoke, GraceEnds, FallsSilent, Poll, AgentStarts, PostLost, TakeCommands,
              IdentityRejected, Report, ExecuteThrows, Execute, managerVars
<1>. QED  BY <1>1, <1>2, <1>3, <1>4, <1>5, <1>6, <1>7, <1>8, <1>9 DEF ChannelNext

(* No command waits beside a poll that waits for commands, whatever wakes,  *)
(* ends or breaks the polls (wake, enqueueAgentCommand and the long poll of *)
(* GET commands).                                                           *)
THEOREM WakeUpsAreNotMissed == ChannelSpec => []NoMissedWakeUp
<1>1. ChannelInit => WakeInv
  BY DEF ChannelInit, WakeInv
<1>2. OrderInv /\ WakeInv => NoMissedWakeUp
  BY NonePending DEF WakeInv, NoMissedWakeUp
<1>. QED  BY <1>1, <1>2, WakeStep, OrderHolds, PTL DEF ChannelSpec

-----------------------------------------------------------------------------
(* Keys and events.                                                         *)

(* A command that ran is not to run again.                                  *)
LEMMA RanOrToRun == ASSUME OrderInv PROVE \A i \in Ids : ~(Ran(i) /\ ToRun(i))
<1>. SUFFICES ASSUME NEW i \in Ids, Ran(i), ToRun(i) PROVE FALSE
  OBVIOUS
<1>1. i \in Nat
  BY DEF Ids
<1>2. PICK k \in DOMAIN executed : executed[k] = i
  BY DEF Ran
<1>. QED  BY <1>1, <1>2 DEF OrderInv, QueueInv, Below, ToRun

(* What is to run or has run is in the queue and was claimed.               *)
LEMMA RunsWereClaimed ==
  ASSUME OrderInv
  PROVE  \A i : Ran(i) \/ ToRun(i) => i \in DOMAIN commands /\ commands[i].state # "pending"
BY DEF OrderInv, QueueInv, Claims, Ran, ToRun

(* Events and keys while nothing is executed: those there are stay or go.   *)
LEMMA EventsKept ==
  ASSUME OrderInv, EventInv,
         capable' = capable, executed' = executed,
         {held', saved'} \subseteq {held, saved, NoKey},
         \A i \in DOMAIN commands : i \in DOMAIN commands' /\ commands'[i].type = commands[i].type,
         \A e \in Events : Reported(e)' => Reported(e)
  PROVE  EventInv'
<1>1. \A e \in Events : Reported(e)' => Ran(e.id)' /\ (Delivers(e.id)' => e.ok = capable')
  <2>1. SUFFICES ASSUME NEW e \in Events, Reported(e)
                 PROVE  Ran(e.id)' /\ (Delivers(e.id)' => e.ok = capable')
    OBVIOUS
  <2>2. Ran(e.id) /\ (Delivers(e.id) => e.ok = capable)
    BY <2>1 DEF EventInv
  <2>3. e.id \in DOMAIN commands
    BY <2>2, RunsWereClaimed
  <2>. QED  BY <2>2, <2>3 DEF Ran, Delivers
<1>2. \A k \in {held', saved'} : k \in {0, NoKey} \/ Ran(k)'
  BY DEF EventInv, Ran
<1>3. ~capable' => {held', saved'} \subseteq {0, NoKey}
  BY DEF EventInv
<1>. QED  BY <1>1, <1>2, <1>3 DEF EventInv

(* What every step keeps of the rows: they stay, with their type.           *)
LEMMA RowsStay ==
  ASSUME OrderInv, [ChannelNext]_channelVars
  PROVE  /\ DOMAIN commands \subseteq DOMAIN commands'
         /\ \A i \in DOMAIN commands : commands'[i].type = commands[i].type
<1>0. /\ commands \in Seq(Rows) /\ Len(commands) \in Nat /\ DOMAIN commands = 1..Len(commands)
      /\ ManagerOK
  BY DEF OrderInv, ChannelTypeOK, ManagerOK
<1>1. CASE UNCHANGED commands
  BY <1>1
<1>2. ASSUME NEW type \in {"node", "config.deliver"}, EnqueueFor(type)
      PROVE  /\ DOMAIN commands \subseteq DOMAIN commands'
             /\ \A i \in DOMAIN commands : commands'[i].type = commands[i].type
  <2>. DEFINE all == Append(commands, [type |-> type, state |-> "pending"])
  <2>1. PICK n \in 0..Len(commands) : WaitsAbove(n)
    BY DEF OrderInv, QueueInv
  <2>2. /\ all \in Seq(Rows)
        /\ \A i \in DOMAIN commands : i \in DOMAIN all /\ all[i] = commands[i]
    BY <1>0, <2>1, AppendedFacts
  <2>3. commands' \in {all, Claimed(all)}
    BY <1>2 DEF EnqueueFor
  <2>. HIDE DEF all
  <2>. QED  BY <2>2, <2>3, ClaimedFacts
<1>3. CASE commands' = Claimed(commands)
  BY <1>0, <1>3, ClaimedFacts
<1>4. CASE Delete
  BY <1>0, <1>4, DeletedRows
<1>5. CASE ManagerRestarts
  BY <1>0, <1>5, FailedRows
<1>6. ASSUME NEW events, commands' = Settled(commands, events)
      PROVE  /\ DOMAIN commands \subseteq DOMAIN commands'
             /\ \A i \in DOMAIN commands : commands'[i].type = commands[i].type
  BY <1>0, <1>6, SettledFacts
<1>7. CASE EnqueueCommand \/ Rotate
  BY <1>2, <1>7 DEF EnqueueCommand, Rotate
<1>8. CASE \/ PollArrives \/ (\E k \in strays : StrayArrives(k))
           \/ (\E i \in DOMAIN waiters : WaitEnds(i))
  BY <1>1, <1>3, <1>8 DEF PollArrives, StrayArrives, WaitEnds, Serve
<1>9. CASE \E p \in posts : PostArrives(p)
  BY <1>1, <1>6, <1>9 DEF PostArrives
<1>10. CASE \/ UNCHANGED channelVars
            \/ Revoke \/ GraceEnds \/ FallsSilent \/ Poll \/ AgentStarts
            \/ (\E p \in posts : PostLost(p)) \/ PollFails \/ AgentDies
            \/ TakeCommands \/ IdentityRejected \/ Report
            \/ ExecuteThrows \/ \E ok \in BOOLEAN : Execute(ok)
  BY <1>1, <1>10 DEF Revoke, GraceEnds, FallsSilent, Poll, AgentStarts, PostLost, PollFails,
       AgentDies, TakeCommands, IdentityRejected, Report, ExecuteThrows, Execute, managerVars,
       channelVars
<1>. QED  BY <1>4, <1>5, <1>7, <1>8, <1>9, <1>10 DEF ChannelNext

LEMMA EventStep == OrderInv /\ EventInv /\ [ChannelNext]_channelVars => EventInv'
<1>. SUFFICES ASSUME OrderInv, EventInv, [ChannelNext]_channelVars PROVE EventInv'
  OBVIOUS
<1>0. \A i \in DOMAIN commands : i \in DOMAIN commands' /\ commands'[i].type = commands[i].type
  BY RowsStay
<1>1. CASE UNCHANGED <<capable, executed, held, saved, results, posts>>
  BY <1>0, <1>1, EventsKept DEF Reported
<1>2. CASE \E p \in posts : PostArrives(p) \/ PostLost(p)
  <2>1. /\ posts' \subseteq posts /\ UNCHANGED <<capable, executed, held, saved, results>>
    BY <1>2 DEF PostArrives, PostLost, agentVars, histVars
  <2>. QED  BY <1>0, <2>1, EventsKept DEF Reported
<1>3. CASE AgentDies \/ TakeCommands \/ IdentityRejected
  <2>1. /\ results' \in {results, <<>>} /\ UNCHANGED <<capable, executed, posts>>
        /\ {held', saved'} \subseteq {held, saved, NoKey}
    BY <1>3 DEF AgentDies, TakeCommands, IdentityRejected, histVars
  <2>2. results' = results \/ DOMAIN results' = {}
    BY <2>1
  <2>3. \A e \in Events : Reported(e)' => Reported(e)
    BY <2>1, <2>2 DEF Reported
  <2>. QED  BY <1>0, <2>1, <2>3, EventsKept
<1>4. CASE Report
  <2>1. /\ results' = <<>> /\ UNCHANGED <<capable, executed, held, saved>>
        /\ posts' \in {posts, posts \union {[key |-> held, events |-> results]}}
    BY <1>4 DEF Report, histVars
  <2>2. DOMAIN results' = {}
    BY <2>1
  <2>3. \A e \in Events : Reported(e)' => Reported(e)
    BY <2>1, <2>2 DEF Reported
  <2>. QED  BY <1>0, <2>1, <2>3, EventsKept
<1>5. CASE ExecuteThrows \/ \E ok \in BOOLEAN : Execute(ok)
  <2>1. /\ batch \in Seq(Ids) /\ executed \in Seq(Ids) /\ batch # <<>>
        /\ executed' = Append(executed, Head(batch))
        /\ Ascending(executed) /\ Ascending(batch) /\ Below(executed, batch)
    BY <1>5, ExecuteFacts
  <2>0. PICK i \in Ids : i = Head(batch)
    BY <2>1, MoveFacts
  <2>2. (\A j : Ran(j) => Ran(j)') /\ Ran(i)'
    <3>1. /\ \A k \in DOMAIN executed : k \in DOMAIN executed' /\ executed'[k] = executed[k]
          /\ Len(executed) + 1 \in DOMAIN executed' /\ executed'[Len(executed) + 1] = i
      BY <2>0, <2>1, MoveFacts
    <3>. QED  BY <3>1 DEF Ran
  <2>3. /\ UNCHANGED <<commands, posts, capable>>
        /\ {held', saved'} \subseteq {held, saved} \union (IF Brings(i) THEN {i} ELSE {})
        /\ \/ results' = <<>>
           \/ \E ok \in BOOLEAN :
                /\ results' = Append(results, [id |-> i, ok |-> ok])
                /\ commands[i].type = "config.deliver" => (ok <=> capable)
    BY <1>5, <2>0 DEF Execute, ExecuteThrows, managerVars, netVars
  <2>4. ASSUME NEW e \in Events, Reported(e)'
        PROVE  Reported(e) \/ (e.id = i /\ (Delivers(i) => e.ok = capable))
    <3>1. CASE results' = <<>>
      <4>1. DOMAIN results' = {}
        BY <3>1
      <4>. QED  BY <2>3, <2>4, <4>1 DEF Reported
    <3>2. CASE results' # <<>>
      <4>0. PICK ok \in BOOLEAN : /\ results' = Append(results, [id |-> i, ok |-> ok])
                                  /\ commands[i].type = "config.deliver" => (ok <=> capable)
        BY <2>3, <3>2, Zenon
      <4>. DEFINE made == [id |-> i, ok |-> ok]
      <4>1. results \in Seq(Events) /\ made \in Events /\ capable \in BOOLEAN
        BY DEF OrderInv, ChannelTypeOK, AgentOK, Events
      <4>2. made.id = i /\ made.ok = ok /\ results' = Append(results, made)
        BY <4>0
      <4>. HIDE DEF made
      <4>3. \A k \in DOMAIN results' : IF k \in DOMAIN results THEN results'[k] = results[k]
                                      ELSE results'[k] = made
        BY <4>1, <4>2
      <4>4. Reported(e) \/ e = made
        BY <2>3, <2>4, <4>3 DEF Reported
      <4>. QED  BY <4>0, <4>1, <4>2, <4>4 DEF Delivers
    <3>. QED  BY <3>1, <3>2
  <2>5. \A e \in Events : Reported(e)' => Ran(e.id)' /\ (Delivers(e.id)' => e.ok = capable')
    <3>1. \A j : Delivers(j)' <=> Delivers(j)
      BY <2>3 DEF Delivers
    <3>. QED  BY <2>2, <2>3, <2>4, <3>1 DEF EventInv
  <2>6. \A k \in {held', saved'} : k \in {0, NoKey} \/ Ran(k)'
    BY <2>2, <2>3 DEF EventInv
  <2>7. ~capable' => {held', saved'} \subseteq {0, NoKey}
    BY <2>3 DEF EventInv, Brings
  <2>. QED  BY <2>5, <2>6, <2>7 DEF EventInv
<1>6. CASE \/ UNCHANGED channelVars
           \/ EnqueueCommand \/ Rotate \/ Revoke \/ Delete \/ PollArrives
           \/ (\E k \in strays : StrayArrives(k)) \/ (\E i \in DOMAIN waiters : WaitEnds(i))
           \/ GraceEnds \/ FallsSilent \/ ManagerRestarts \/ Poll \/ PollFails \/ AgentStarts
  <2>1. UNCHANGED <<capable, executed, held, saved, results, posts>>
    BY <1>6 DEF channelVars, agentVars, netVars, histVars, EnqueueCommand, Rotate, Revoke, Delete,
         PollArrives, StrayArrives, WaitEnds, GraceEnds, FallsSilent, ManagerRestarts, Poll,
         PollFails, AgentStarts
  <2>. QED  BY <1>1, <2>1
<1>. QED  BY <1>2, <1>3, <1>4, <1>5, <1>6 DEF ChannelNext

-----------------------------------------------------------------------------
(* The keys, while no rotation was hurried and no grace window lapsed.      *)

(* An answer brings what it brought, or rows that waited.                   *)
LEMMA AnsweredRows ==
  ASSUME OrderInv
  PROVE  \A k \in DOMAIN Pending(commands) :
           /\ Pending(commands)[k] \in DOMAIN commands
           /\ commands[Pending(commands)[k]].state = "pending"
<1>1. PICK n \in 0..Len(commands) : WaitsAbove(n)
  BY DEF OrderInv, QueueInv
<1>2. commands \in Seq(Rows)
  BY DEF OrderInv, ChannelTypeOK, ManagerOK
<1>3. /\ Pending(commands) \in Seq(DOMAIN commands)
      /\ \A k \in DOMAIN Pending(commands) : Pending(commands)[k] > n
  BY <1>1, <1>2, PendingFacts DEF WaitsAbove
<1>4. \A k \in DOMAIN Pending(commands) : Pending(commands)[k] \in DOMAIN commands
  BY <1>3
<1>. QED  BY <1>1, <1>3, <1>4 DEF WaitsAbove

(* One that a new command wakes brings rows that waited, or the new one.    *)
LEMMA EnqueuedRows ==
  ASSUME OrderInv, NEW type \in {"node", "config.deliver"}, EnqueueFor(type)
  PROVE  /\ DOMAIN commands' = DOMAIN commands \union {Len(commands) + 1}
         /\ Len(commands) + 1 \notin DOMAIN commands
         /\ commands'[Len(commands) + 1].type = type
         /\ \A i \in DOMAIN commands :
              /\ commands'[i].type = commands[i].type
              /\ commands'[i].state \in {"pending", "delivered"} =>
                   commands[i].state \in {"pending", "delivered"}
         /\ \/ reply' = reply
            \/ \A k \in DOMAIN reply' :
                 \/ reply'[k] = Len(commands) + 1
                 \/ reply'[k] \in DOMAIN commands /\ commands[reply'[k]].state = "pending"
<1>. DEFINE new == Len(commands) + 1
            row == [type |-> type, state |-> "pending"]
            all == Append(commands, row)
<1>1. PICK n \in 0..Len(commands) : WaitsAbove(n)
  BY DEF OrderInv, QueueInv
<1>2. /\ all \in Seq(Rows) /\ Len(all) = new /\ n \in 0..Len(all) /\ DOMAIN all = 1..new
      /\ \A i \in DOMAIN all : all[i].state = "pending" <=> i > n
      /\ \A i \in DOMAIN commands : i \in DOMAIN all /\ all[i] = commands[i]
      /\ new \in DOMAIN all /\ new \notin DOMAIN commands
      /\ all[new] = row /\ row.type = type
  BY <1>1, AppendedFacts DEF OrderInv, ChannelTypeOK
<1>3. Len(commands) \in Nat /\ DOMAIN commands = 1..Len(commands)
  BY DEF OrderInv, ChannelTypeOK, ManagerOK
<1>4. DOMAIN all = DOMAIN commands \union {new}
  BY <1>2, <1>3
<1>5. /\ Claimed(all) \in Seq(Rows) /\ Len(Claimed(all)) = Len(all)
      /\ \A i \in DOMAIN all :
           /\ Claimed(all)[i].type = all[i].type
           /\ Claimed(all)[i].state = IF all[i].state = "pending" THEN "delivered" ELSE all[i].state
  BY <1>2, ClaimedFacts
<1>6. DOMAIN Claimed(all) = DOMAIN all
  BY <1>2, <1>5
<1>7. \A k \in DOMAIN Pending(all) : Pending(all)[k] \in DOMAIN all /\ Pending(all)[k] > n
  <2>1. Pending(all) \in Seq(DOMAIN all) /\ \A k \in DOMAIN Pending(all) : Pending(all)[k] > n
    BY <1>2, PendingFacts
  <2>. QED  BY <2>1
<1>8. commands' \in {all, Claimed(all)} /\ (reply' = reply \/ reply' \in {Pending(all), <<>>})
  BY DEF EnqueueFor, Answer
<1>. HIDE DEF new, row, all
<1>9. /\ DOMAIN commands' = DOMAIN commands \union {new}
      /\ commands'[new].type = type
      /\ \A i \in DOMAIN commands :
           /\ commands'[i].type = commands[i].type
           /\ commands'[i].state \in {"pending", "delivered"} =>
                commands[i].state \in {"pending", "delivered"}
  BY <1>2, <1>4, <1>5, <1>6, <1>8
<1>10. \/ reply' = reply
       \/ \A k \in DOMAIN reply' :
            \/ reply'[k] = new
            \/ reply'[k] \in DOMAIN commands /\ commands[reply'[k]].state = "pending"
  <2>1. CASE reply' = <<>>
    <3>1. DOMAIN reply' = {}
      BY <2>1
    <3>. QED  BY <3>1
  <2>2. CASE reply' = Pending(all)
    BY <1>1, <1>2, <1>4, <1>7, <2>2 DEF WaitsAbove
  <2>. QED  BY <1>8, <2>1, <2>2
<1>. QED  BY <1>2, <1>9, <1>10 DEF new

(* A step that leaves the manager's keys alone, and the agent's or takes    *)
(* one for the other.                                                       *)
LEMMA KeysKept ==
  ASSUME OrderInv, KeyInv, Quiet,
         UNCHANGED <<token, prev, graceOver, capable>>,
         {held', saved'} \subseteq {held, saved},
         phase' # "lockedOut", request' # "refused",
         \A i \in Ids : Delivers(i)' => Delivers(i),
         \A i \in Ids : Delivers(i) /\ commands'[i].state \in {"pending", "delivered"} =>
                          commands[i].state \in {"pending", "delivered"},
         \A i \in Ids : Delivers(i) /\ ToRun(i)' => ToRun(i) \/ commands[i].state = "pending",
         \A e \in Events : Reported(e)' => Reported(e)
  PROVE  KeyInv'
<1>1. /\ {held, saved} \subseteq {token} \union prev
      /\ prev # {} /\ graceOver => held = token /\ saved = token
      /\ \A i \in Ids : Delivers(i) /\ commands[i].state \in {"pending", "delivered"}
                          => i = token /\ prev # {}
      /\ \A i \in Ids : Delivers(i) /\ ToRun(i) => i = token
      /\ \A e \in Events :
           capable /\ Reported(e) /\ Delivers(e.id) /\ e.id = token => held = token /\ saved = token
  BY DEF KeyInv
<1>2. {held', saved'} \subseteq {token'} \union prev'
  BY <1>1
<1>3. prev' # {} /\ graceOver' => held' = token' /\ saved' = token'
  BY <1>1
<1>4. \A i \in Ids : Delivers(i)' /\ commands'[i].state \in {"pending", "delivered"}
                       => i = token' /\ prev' # {}
  BY <1>1
<1>5. \A i \in Ids : Delivers(i)' /\ ToRun(i)' => i = token'
  BY <1>1
<1>6. \A e \in Events :
        capable' /\ Reported(e)' /\ Delivers(e.id)' /\ e.id = token' => held' = token' /\ saved' = token'
  <2>1. \A e \in Events : e.id \in Ids
    BY DEF Events
  <2>. QED  BY <1>1, <2>1
<1>. QED  BY <1>2, <1>3, <1>4, <1>5, <1>6 DEF KeyInv

(* The manager's own steps but rotations and reports.                       *)
LEMMA ManagerKeys ==
  ASSUME OrderInv, KeyInv, Quiet, Quiet',
         \/ EnqueueCommand \/ Revoke \/ Delete \/ PollArrives
         \/ (\E k \in strays : StrayArrives(k)) \/ (\E i \in DOMAIN waiters : WaitEnds(i))
         \/ FallsSilent \/ ManagerRestarts
  PROVE  KeyInv'
<1>0. /\ ManagerOK /\ commands \in Seq(Rows) /\ DOMAIN commands = 1..Len(commands)
      /\ Len(commands) \in Nat
      /\ phase # "lockedOut" /\ request # "refused"
  BY DEF OrderInv, ChannelTypeOK, ManagerOK, KeyInv
<1>1. /\ UNCHANGED <<token, prev, graceOver, capable, held, saved, phase, results, posts, batch>>
      /\ \A e \in Events : Reported(e)' => Reported(e)
  BY DEF EnqueueCommand, Revoke, Delete, PollArrives, StrayArrives, WaitEnds, FallsSilent,
         ManagerRestarts, agentVars, netVars, Reported
<1>2. CASE UNCHANGED <<commands, reply>> /\ request' # "refused"
  BY <1>0, <1>1, <1>2, KeysKept DEF Delivers, ToRun
<1>3. CASE EnqueueCommand
  <2>1. EnqueueFor("node") /\ request' # "refused"
    BY <1>0, <1>3 DEF EnqueueCommand, EnqueueFor, Answer
  <2>2. /\ DOMAIN commands' = DOMAIN commands \union {Len(commands) + 1}
        /\ commands'[Len(commands) + 1].type = "node"
        /\ \A i \in DOMAIN commands :
             /\ commands'[i].type = commands[i].type
             /\ commands'[i].state \in {"pending", "delivered"} =>
                  commands[i].state \in {"pending", "delivered"}
        /\ Len(commands) + 1 \notin DOMAIN commands
        /\ \/ reply' = reply
           \/ \A k \in DOMAIN reply' :
                \/ reply'[k] = Len(commands) + 1
                \/ reply'[k] \in DOMAIN commands /\ commands[reply'[k]].state = "pending"
    BY <2>1, EnqueuedRows
  <2>3. \A i : Delivers(i)' => Delivers(i)
    BY <2>2 DEF Delivers
  <2>4. \A i : Delivers(i) /\ ToRun(i)' => ToRun(i) \/ commands[i].state = "pending"
    BY <1>1, <2>2 DEF Delivers, ToRun
  <2>5. \A i : Delivers(i) /\ commands'[i].state \in {"pending", "delivered"} =>
                          commands[i].state \in {"pending", "delivered"}
    BY <2>2 DEF Delivers
  <2>. QED  BY <1>0, <1>1, <2>1, <2>3, <2>4, <2>5, KeysKept
<1>4. ASSUME commands' = Claimed(commands), reply' \in {reply, Pending(commands)},
             request' # "refused"
      PROVE  KeyInv'
  <2>1. /\ DOMAIN commands' = DOMAIN commands
        /\ \A i \in DOMAIN commands :
             /\ commands'[i].type = commands[i].type
             /\ commands'[i].state = IF commands[i].state = "pending" THEN "delivered"
                                     ELSE commands[i].state
    BY <1>0, <1>4, ClaimedFacts
  <2>2. \A k \in DOMAIN reply' :
          \/ reply' = reply
          \/ reply'[k] \in DOMAIN commands /\ commands[reply'[k]].state = "pending"
    BY <1>4, AnsweredRows
  <2>3. \A i : Delivers(i)' => Delivers(i)
    BY <2>1 DEF Delivers
  <2>4. \A i : Delivers(i) /\ ToRun(i)' => ToRun(i) \/ commands[i].state = "pending"
    BY <1>1, <2>2 DEF Delivers, ToRun
  <2>5. \A i : Delivers(i) /\ commands'[i].state \in {"pending", "delivered"} =>
                          commands[i].state \in {"pending", "delivered"}
    BY <2>1 DEF Delivers
  <2>. QED  BY <1>0, <1>1, <1>4, <2>3, <2>4, <2>5, KeysKept
<1>5. CASE PollArrives
  <2>1. Accepted(held)
    BY DEF KeyInv, Quiet, Accepted
  <2>2. \/ UNCHANGED <<commands, reply>> /\ request' # "refused"
        \/ /\ commands' = Claimed(commands) /\ reply' \in {reply, Pending(commands)}
           /\ request' # "refused"
    BY <1>0, <1>5, <2>1 DEF PollArrives, Serve, Answer
  <2>. QED  BY <1>2, <1>4, <2>2
<1>6. CASE \/ (\E k \in strays : StrayArrives(k)) \/ (\E i \in DOMAIN waiters : WaitEnds(i))
  <2>1. \/ UNCHANGED <<commands, reply>> /\ request' # "refused"
        \/ /\ commands' = Claimed(commands) /\ reply' \in {reply, Pending(commands)}
           /\ request' # "refused"
    BY <1>0, <1>6 DEF StrayArrives, WaitEnds, Serve, Answer
  <2>. QED  BY <1>2, <1>4, <2>1
<1>7. CASE ManagerRestarts
  <2>1. /\ DOMAIN commands' = DOMAIN commands
        /\ \A i \in DOMAIN commands :
             /\ commands'[i].type = commands[i].type
             /\ commands'[i].state \in {"pending", "delivered"} =>
                  commands[i].state \in {"pending", "delivered"}
    BY <1>0, <1>7, FailedRows
  <2>2. request' # "refused" /\ reply' = reply
    BY <1>0, <1>7 DEF ManagerRestarts
  <2>. QED  BY <1>0, <1>1, <2>1, <2>2, KeysKept DEF Delivers, ToRun
<1>8. CASE Revoke \/ Delete
  BY <1>8 DEF Revoke, Delete, Quiet
<1>9. CASE FallsSilent
  BY <1>0, <1>2, <1>9 DEF FallsSilent, netVars
<1>. QED  BY <1>3, <1>5, <1>6, <1>7, <1>8, <1>9

(* The agent's steps but executions, and the network's.                     *)
LEMMA AgentKeys ==
  ASSUME OrderInv, KeyInv, Quiet,
         \/ Poll \/ PollFails \/ TakeCommands \/ IdentityRejected \/ Report
         \/ AgentDies \/ AgentStarts \/ (\E p \in posts : PostLost(p))
  PROVE  KeyInv'
<1>1. phase # "lockedOut" /\ request # "refused"
  BY DEF KeyInv
<1>2. /\ UNCHANGED <<token, prev, graceOver, capable, commands>>
      /\ {held', saved'} \subseteq {held, saved}
      /\ phase' # "lockedOut" /\ request' # "refused"
      /\ results' \in {results, <<>>} /\ batch' \in {batch, <<>>, reply} /\ reply' \in {reply, <<>>}
      /\ \/ posts' \subseteq posts
         \/ results # <<>> /\ posts' = posts \union {[key |-> held, events |-> results]}
  BY <1>1 DEF Poll, PollFails, TakeCommands, IdentityRejected, Report, AgentDies, AgentStarts,
       PostLost, GiveUp, managerVars, agentVars, netVars
<1>3. /\ \A i : Delivers(i)' => Delivers(i)
      /\ \A i : Delivers(i) /\ commands'[i].state \in {"pending", "delivered"} =>
                   commands[i].state \in {"pending", "delivered"}
  BY <1>2 DEF Delivers
<1>4. \A i : ToRun(i)' => ToRun(i)
  <2>1. (batch' \in {batch, reply} \/ DOMAIN batch' = {}) /\ (reply' = reply \/ DOMAIN reply' = {})
    BY <1>2
  <2>. QED  BY <2>1 DEF ToRun
<1>5. \A e \in Events : Reported(e)' => Reported(e)
  <2>1. results' = results \/ DOMAIN results' = {}
    BY <1>2
  <2>. QED  BY <1>2, <2>1 DEF Reported
<1>. QED  BY <1>2, <1>3, <1>4, <1>5, KeysKept

LEMMA GraceKeys ==
  ASSUME KeyInv, Quiet', GraceEnds
  PROVE  KeyInv'
<1>1. /\ UNCHANGED <<machine, token, prev, commands, phase, capable, held, saved, batch, results,
                     request, reply, posts, hurried>>
      /\ lapsed' = (lapsed \/ held # token \/ saved # token)
  BY DEF GraceEnds, agentVars, netVars
<1>2. Quiet /\ held = token /\ saved = token
  BY <1>1 DEF Quiet
<1>. QED  BY <1>1, <1>2 DEF KeyInv, Delivers, ToRun, Reported

(* A key is rotated once the one before it has settled.                     *)
LEMMA RotateKeys ==
  ASSUME OrderInv, EventInv, KeyInv, Quiet', Rotate
  PROVE  KeyInv'
<1>. DEFINE new == Len(commands) + 1
<1>1. /\ UNCHANGED <<machine, capable, held, saved, phase, batch, results, posts, executed, lapsed>>
      /\ token' = new /\ prev' = {token} /\ graceOver' = FALSE
      /\ EnqueueFor("config.deliver") /\ hurried' = (hurried \/ Unsettled)
  BY DEF Rotate, agentVars
<1>2. Quiet /\ ~Unsettled
  BY <1>1 DEF Quiet
<1>3. /\ held = token /\ saved = token
      /\ \A i \in DOMAIN commands :
           ~(commands[i].type = "config.deliver" /\ commands[i].state \in {"pending", "delivered"})
  BY <1>2 DEF Unsettled
<1>4. /\ DOMAIN commands' = DOMAIN commands \union {new} /\ new \notin DOMAIN commands
      /\ \A i \in DOMAIN commands :
           /\ commands'[i].type = commands[i].type
           /\ commands'[i].state \in {"pending", "delivered"} =>
                commands[i].state \in {"pending", "delivered"}
      /\ \/ reply' = reply
         \/ \A k \in DOMAIN reply' :
              \/ reply'[k] = new
              \/ reply'[k] \in DOMAIN commands /\ commands[reply'[k]].state = "pending"
  BY <1>1, EnqueuedRows
<1>5. phase' # "lockedOut" /\ request' # "refused"
  BY <1>1, <1>2 DEF EnqueueFor, Answer, KeyInv
<1>6. {held', saved'} \subseteq {token'} \union prev' /\ ~graceOver'
  BY <1>1, <1>3
<1>7. \A i \in Ids : Delivers(i)' /\ commands'[i].state \in {"pending", "delivered"}
                       => i = token' /\ prev' # {}
  BY <1>1, <1>3, <1>4 DEF Delivers
<1>8. \A i \in Ids : Delivers(i)' /\ ToRun(i)' => i = token'
  <2>1. ASSUME NEW i \in Ids, Delivers(i), ToRun(i) PROVE FALSE
    <3>1. i = token /\ held = i
      BY <1>2, <1>3, <2>1 DEF KeyInv
    <3>2. i # 0 /\ i # NoKey
      BY ChannelAssumption DEF Ids, ChannelAssumption
    <3>3. Ran(i)
      BY <3>1, <3>2 DEF EventInv
    <3>. QED  BY <2>1, <3>3, RanOrToRun
  <2>2. SUFFICES ASSUME NEW i \in Ids, Delivers(i)', ToRun(i)', i # new PROVE FALSE
    BY <1>1
  <2>3. Delivers(i)
    BY <1>4, <2>2 DEF Delivers
  <2>4. ToRun(i) \/ commands[i].state = "pending"
    BY <1>1, <1>4, <2>2 DEF ToRun
  <2>. QED  BY <1>3, <2>1, <2>3, <2>4 DEF Delivers
<1>9. \A e \in Events : ~(Reported(e)' /\ e.id = token')
  <2>1. SUFFICES ASSUME NEW e \in Events, Reported(e), e.id = new PROVE FALSE
    BY <1>1 DEF Reported
  <2>2. Ran(e.id)
    BY <2>1 DEF EventInv
  <2>. QED  BY <1>4, <2>1, <2>2, RunsWereClaimed
<1>. QED  BY <1>5, <1>6, <1>7, <1>8, <1>9 DEF KeyInv

(* A report that settles a rotation: the key it was about is held, or the   *)
(* one before it is.                                                        *)
LEMMA ReportKeys ==
  ASSUME OrderInv, EventInv, KeyInv, Quiet', NEW p \in posts, PostArrives(p)
  PROVE  KeyInv'
<1>. DEFINE events == {p.events[k] : k \in DOMAIN p.events}
<1>1. /\ UNCHANGED <<machine, graceOver, waiters, capable, held, saved, phase, batch, results,
                     request, reply, executed, hurried, lapsed>>
      /\ posts' \subseteq posts
      /\ \/ commands' = Settled(commands, events) /\ KeysAfter(p.events)
         \/ UNCHANGED <<commands, token, prev>>
  BY DEF PostArrives, agentVars, histVars
<1>2. Quiet
  BY <1>1 DEF Quiet
<1>3. /\ commands \in Seq(Rows) /\ DOMAIN commands = 1..Len(commands) /\ Len(commands) \in Nat
      /\ \A k, l \in prev : k = l
      /\ p.events \in Seq(Events)
  BY DEF OrderInv, ChannelTypeOK, ManagerOK, NetOK
<1>4. \A e \in Events : Reported(e)' => Reported(e)
  BY <1>1 DEF Reported
<1>5. \A i : ToRun(i)' <=> ToRun(i)
  BY <1>1 DEF ToRun
<1>6. phase' # "lockedOut" /\ request' # "refused"
  BY <1>1, <1>2 DEF KeyInv
<1>. HIDE DEF events
<1>7. /\ DOMAIN commands' = DOMAIN commands
      /\ \A i \in DOMAIN commands :
           /\ commands'[i].type = commands[i].type
           /\ commands'[i].state \in {"pending", "delivered"} => commands'[i].state = commands[i].state
      /\ \A i \in DOMAIN commands :
           /\ commands' = Settled(commands, events)
           /\ commands[i].state = "delivered" /\ \E e \in events : e.id = i
           => commands'[i].state \notin {"pending", "delivered"}
  BY <1>1, <1>3, SettledFacts
<1>8. \A i : Delivers(i)' <=> Delivers(i)
  BY <1>7 DEF Delivers
<1>9. CASE UNCHANGED <<token, prev>>
  BY <1>1, <1>2, <1>4, <1>5, <1>6, <1>7, <1>8, <1>9, KeysKept DEF Delivers
<1>10. ASSUME NEW first \in Deliveries(p.events), prev' = {},
              token' = IF prev # {} /\ ~p.events[first].ok THEN CHOOSE k \in prev : TRUE ELSE token,
              commands' = Settled(commands, events)
       PROVE  KeyInv'
  <2>. DEFINE e == p.events[first]
  <2>1. /\ first \in DOMAIN p.events /\ e \in Events /\ e.id \in Ids /\ e \in events
        /\ commands[e.id].type = "config.deliver" /\ commands[e.id].state = "delivered"
    <3>1. /\ first \in DOMAIN p.events
          /\ commands[e.id].type = "config.deliver" /\ commands[e.id].state = "delivered"
      BY DEF Deliveries
    <3>2. e \in Events
      BY <1>3, <3>1
    <3>. QED  BY <3>1, <3>2 DEF Events, events
  <2>2. PICK f \in Events : f = e
    BY <2>1
  <2>3. Reported(f)
    BY <2>1, <2>2 DEF Reported
  <2>. HIDE DEF e
  <2>4. Ran(f.id) /\ f.id \in DOMAIN commands /\ Delivers(f.id) /\ f.ok = capable
    <3>1. Ran(f.id) /\ (Delivers(f.id) => f.ok = capable)
      BY <2>3 DEF EventInv
    <3>2. f.id \in DOMAIN commands
      BY <3>1, RunsWereClaimed
    <3>. QED  BY <2>1, <2>2, <3>1, <3>2 DEF Delivers
  <2>5. f.id = token /\ prev # {}
    BY <1>2, <2>1, <2>2, <2>4 DEF KeyInv
  <2>6. held = token' /\ saved = token'
    <3>1. CASE capable
      <4>1. token' = token
        BY <1>10, <2>2, <2>4, <3>1 DEF e
      <4>. QED  BY <1>2, <2>3, <2>4, <2>5, <3>1, <4>1 DEF KeyInv
    <3>2. CASE ~capable
      <4>1. token' = CHOOSE k \in prev : TRUE
        BY <1>10, <2>2, <2>4, <2>5, <3>2 DEF e
      <4>2. token' \in prev
        BY <2>5, <4>1
      <4>3. token # 0 /\ token # NoKey
        BY <2>5, ChannelAssumption DEF Events, Ids, ChannelAssumption
      <4>4. {held, saved} \subseteq {0, NoKey} /\ {held, saved} \subseteq {token} \union prev
        BY <1>2, <3>2 DEF EventInv, KeyInv
      <4>. QED  BY <1>3, <4>2, <4>3, <4>4
    <3>. QED  BY <3>1, <3>2
  <2>7. \A i \in Ids : ~(Delivers(i)' /\ commands'[i].state \in {"pending", "delivered"})
    <3>1. SUFFICES ASSUME NEW i \in Ids, Delivers(i), commands'[i].state \in {"pending", "delivered"}
                   PROVE  FALSE
      BY <1>8
    <3>2. commands[i].state \in {"pending", "delivered"}
      BY <1>7, <3>1 DEF Delivers
    <3>3. i = f.id
      BY <1>2, <2>5, <3>1, <3>2 DEF KeyInv
    <3>. QED  BY <1>7, <1>10, <2>1, <2>2, <2>4, <3>1, <3>3
  <2>8. \A i \in Ids : ~(Delivers(i)' /\ ToRun(i)')
    <3>1. SUFFICES ASSUME NEW i \in Ids, Delivers(i), ToRun(i) PROVE FALSE
      BY <1>5, <1>8
    <3>2. i = f.id
      BY <1>2, <2>5, <3>1 DEF KeyInv
    <3>. QED  BY <2>4, <3>1, <3>2, RanOrToRun
  <2>. QED  BY <1>1, <1>6, <1>10, <2>6, <2>7, <2>8 DEF KeyInv
<1>. QED  BY <1>1, <1>9, <1>10 DEF KeysAfter

(* A key that arrives is the one the manager waits for.                     *)
LEMMA ExecuteKeys ==
  ASSUME OrderInv, EventInv, KeyInv, Quiet, ExecuteThrows \/ \E ok \in BOOLEAN : Execute(ok)
  PROVE  KeyInv'
<1>1. /\ batch \in Seq(Ids) /\ executed \in Seq(Ids) /\ batch # <<>>
      /\ executed' = Append(executed, Head(batch)) /\ batch' \in {Tail(batch), <<>>}
      /\ Ascending(executed) /\ Ascending(batch) /\ Below(executed, batch)
      /\ reply = <<>> /\ phase = "executing" /\ request = "none"
  BY ExecuteFacts
<1>2. PICK i \in Ids : i = Head(batch)
  BY <1>1, MoveFacts
<1>3. /\ UNCHANGED <<token, prev, graceOver, capable, commands, request, reply, posts>>
      /\ phase' \in {"executing", "ready"}
      /\ \/ ~Brings(i) /\ held' = held /\ saved' = saved
         \/ Brings(i) /\ held' = i /\ saved' \in {saved, i}
      /\ \/ results' = <<>>
         \/ /\ \E ok \in BOOLEAN : results' = Append(results, [id |-> i, ok |-> ok])
            /\ Brings(i) => saved' = i
  BY <1>2 DEF Execute, ExecuteThrows, managerVars, netVars
<1>4. ToRun(i) /\ ~Ran(i)
  <2>1. ToRun(i)
    BY <1>1, <1>2, MoveFacts DEF ToRun
  <2>. QED  BY <2>1, RanOrToRun
<1>5. i # 0 /\ i # NoKey
  BY ChannelAssumption DEF Ids, ChannelAssumption
<1>6. i \in DOMAIN commands
  BY <1>4, RunsWereClaimed
<1>7. Brings(i) => i = token /\ Delivers(i)
  BY <1>4, <1>6 DEF KeyInv, Brings, Delivers
<1>8. held # i /\ saved # i
  BY <1>4, <1>5 DEF EventInv
<1>9. {held', saved'} \subseteq {token'} \union prev'
  BY <1>3, <1>7 DEF KeyInv
<1>10. prev' # {} /\ graceOver' => held' = token' /\ saved' = token'
  BY <1>3, <1>7, <1>8 DEF KeyInv
<1>11. \A j : Delivers(j)' <=> Delivers(j)
  BY <1>3 DEF Delivers
<1>12. \A j \in Ids : Delivers(j)' /\ ToRun(j)' => j = token'
  <2>1. \A j : ToRun(j)' => ToRun(j)
    <3>1. DOMAIN batch' = {} \/ batch' = Tail(batch)
      BY <1>1
    <3>2. \A k \in DOMAIN Tail(batch) : k + 1 \in DOMAIN batch /\ Tail(batch)[k] = batch[k + 1]
      BY <1>1, MoveFacts
    <3>. QED  BY <1>3, <3>1, <3>2 DEF ToRun
  <2>. QED  BY <1>3, <1>11, <2>1 DEF KeyInv
<1>13. \A j \in Ids : Delivers(j)' /\ commands'[j].state \in {"pending", "delivered"}
                        => j = token' /\ prev' # {}
  BY <1>3, <1>11 DEF KeyInv
<1>14. ASSUME NEW e \in Events, capable', Reported(e)', Delivers(e.id)', e.id = token'
       PROVE  held' = token' /\ saved' = token'
  <2>1. e.id \in Ids /\ Delivers(e.id) /\ e.id = token /\ capable
    BY <1>3, <1>11, <1>14 DEF Events
  <2>2. CASE Reported(e)
    <3>1. held = token /\ saved = token
      BY <2>1, <2>2 DEF KeyInv
    <3>. QED  BY <1>3, <1>7, <1>8, <3>1
  <2>3. CASE ~Reported(e)
    <3>1. results' # <<>>
      <4>1. CASE results' = <<>>
        <5>1. DOMAIN results' = {}
          BY <4>1
        <5>. QED  BY <1>3, <1>14, <2>3, <5>1 DEF Reported
      <4>. QED  BY <4>1
    <3>2. PICK ok \in BOOLEAN : results' = Append(results, [id |-> i, ok |-> ok])
      BY <1>3, <3>1
    <3>. DEFINE made == [id |-> i, ok |-> ok]
    <3>3. results \in Seq(Events) /\ made \in Events /\ made.id = i /\ results' = Append(results, made)
      BY <3>2 DEF OrderInv, ChannelTypeOK, AgentOK, Events
    <3>. HIDE DEF made
    <3>4. \A k \in DOMAIN results' : IF k \in DOMAIN results THEN results'[k] = results[k]
                                    ELSE results'[k] = made
      BY <3>3
    <3>5. e = made
      BY <1>3, <1>14, <2>3, <3>4 DEF Reported
    <3>6. Brings(i)
      BY <2>1, <3>3, <3>5 DEF Brings, Delivers
    <3>. QED  BY <1>3, <1>7, <3>1, <3>6
  <2>. QED  BY <2>2, <2>3
<1>15. phase' # "lockedOut" /\ request' # "refused"
  BY <1>1, <1>3
<1>. QED  BY <1>9, <1>10, <1>12, <1>13, <1>14, <1>15 DEF KeyInv

LEMMA KeyStep == OrderInv /\ EventInv /\ KeyInv /\ [ChannelNext]_channelVars => KeyInv'
<1>. SUFFICES ASSUME OrderInv, EventInv, KeyInv, [ChannelNext]_channelVars PROVE KeyInv'
  OBVIOUS
<1>1. CASE ~Quiet'
  BY <1>1 DEF KeyInv
<1>2. CASE Quiet'
  <2>1. CASE UNCHANGED channelVars
    BY <2>1 DEF channelVars, managerVars, agentVars, netVars, histVars, KeyInv, Quiet, Delivers,
         ToRun, Reported
  <2>2. CASE Rotate
    BY <1>2, <2>2, RotateKeys
  <2>3. CASE GraceEnds
    BY <1>2, <2>3, GraceKeys
  <2>4. CASE \E p \in posts : PostArrives(p)
    BY <1>2, <2>4, ReportKeys
  <2>5. CASE \/ EnqueueCommand \/ Revoke \/ Delete \/ PollArrives
             \/ (\E k \in strays : StrayArrives(k)) \/ (\E i \in DOMAIN waiters : WaitEnds(i))
             \/ FallsSilent \/ ManagerRestarts
    <3>1. hurried' = hurried /\ lapsed' = lapsed /\ machine' \in {machine, "revoked", "deleted"}
      BY <2>5 DEF EnqueueCommand, Revoke, Delete, PollArrives, StrayArrives, WaitEnds,
           FallsSilent, ManagerRestarts, histVars
    <3>2. Quiet
      BY <1>2, <3>1 DEF Quiet
    <3>. QED  BY <1>2, <2>5, <3>2, ManagerKeys
  <2>6. CASE \/ Poll \/ PollFails \/ TakeCommands \/ IdentityRejected \/ Report
             \/ AgentDies \/ AgentStarts \/ (\E p \in posts : PostLost(p))
    <3>1. hurried' = hurried /\ lapsed' = lapsed /\ machine' = machine
      BY <2>6 DEF Poll, PollFails, TakeCommands, IdentityRejected, Report, AgentDies,
           AgentStarts, PostLost, histVars, managerVars
    <3>2. Quiet
      BY <1>2, <3>1 DEF Quiet
    <3>. QED  BY <2>6, <3>2, AgentKeys
  <2>7. CASE ExecuteThrows \/ \E ok \in BOOLEAN : Execute(ok)
    <3>1. hurried' = hurried /\ lapsed' = lapsed /\ machine' = machine
      BY <2>7 DEF ExecuteThrows, Execute, managerVars
    <3>2. Quiet
      BY <1>2, <3>1 DEF Quiet
    <3>. QED  BY <2>7, <3>2, ExecuteKeys
  <2>. QED  BY <2>1, <2>2, <2>3, <2>4, <2>5, <2>6, <2>7 DEF ChannelNext
<1>. QED  BY <1>1, <1>2

(* Rotating keys bricks no machine: the manager accepts the key its agent   *)
(* holds and the one it would load, unless a rotation was hurried or a      *)
(* grace window lapsed (POST rotate and POST events of routes/agents.ts     *)
(* against the agent's adoption of config.deliver).                         *)
THEOREM RotationKeepsTheMachine == ChannelSpec => []KeyIsAccepted
<1>1. ChannelInit => EventInv /\ KeyInv
  <2>. SUFFICES ASSUME ChannelInit PROVE EventInv /\ KeyInv
    OBVIOUS
  <2>1. DOMAIN commands = {} /\ DOMAIN results = {} /\ posts = {}
    BY DEF ChannelInit
  <2>2. \A e \in Events : ~Reported(e)
    BY <2>1 DEF Reported
  <2>3. EventInv
    BY <2>2 DEF ChannelInit, EventInv
  <2>4. KeyInv
    BY <2>1, <2>2 DEF ChannelInit, KeyInv, Delivers
  <2>. QED  BY <2>3, <2>4
<1>2. KeyInv => KeyIsAccepted
  BY DEF KeyInv, Quiet, KeyIsAccepted, Accepted
<1>. QED  BY <1>1, <1>2, EventStep, KeyStep, OrderHolds, PTL DEF ChannelSpec
=============================================================================

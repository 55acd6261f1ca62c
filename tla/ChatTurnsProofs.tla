--------------------------- MODULE ChatTurnsProofs ---------------------------
(***************************************************************************)
(* Proofs about module ChatTurns, for any chats, messages and number of    *)
(* restarts.  The invariant is stated for one chat: what happens in a chat *)
(* leaves every other chat as it was.                                      *)
(***************************************************************************)
EXTENDS ChatTurns, SequenceTheorems, TLAPS

(* Every message has its chat, and no message is NoTurn.                    *)
LEMMA ChatFacts ==
  /\ \A m \in Messages : chatOf[m] \in Chats /\ m # NoTurn
  /\ \A m \in FromApi : chatOf[m] \in Outward
BY ChatAssumption DEF ChatAssumption

(* The queue without its k-th turn: as long as before less one, the turns   *)
(* behind the k-th moved up.                                                *)
LEMMA WithoutFacts ==
  ASSUME NEW S, NEW q \in Seq(S), NEW k \in DOMAIN q
  PROVE  /\ Without(q, k) \in Seq(S)
         /\ Len(Without(q, k)) = Len(q) - 1
         /\ \A p \in DOMAIN Without(q, k) :
              Without(q, k)[p] = IF p < k THEN q[p] ELSE q[p + 1]
<1>1. k \in 1..Len(q) /\ Len(q) \in Nat /\ DOMAIN q = 1..Len(q)
  OBVIOUS
<1>. DEFINE front == SubSeq(q, 1, k - 1)
            back == SubSeq(q, k + 1, Len(q))
<1>2. /\ front \in Seq(S) /\ Len(front) = k - 1
      /\ \A p \in 1..(k - 1) : front[p] = q[p]
  BY <1>1
<1>3. /\ back \in Seq(S) /\ Len(back) = Len(q) - k
      /\ \A p \in 1..(Len(q) - k) : back[p] = q[k + p]
  BY <1>1
<1>4. Without(q, k) = front \o back
  BY DEF Without
<1>. HIDE DEF front, back
<1>5. /\ front \o back \in Seq(S)
      /\ Len(front \o back) = Len(q) - 1
      /\ DOMAIN (front \o back) = 1..(Len(q) - 1)
  <2>1. front \o back \in Seq(S) /\ Len(front \o back) = Len(front) + Len(back)
    BY <1>2, <1>3, ConcatProperties
  <2>2. Len(front) + Len(back) = Len(q) - 1
    BY <1>1, <1>2, <1>3
  <2>. QED  BY <2>1, <2>2
<1>6. \A p \in 1..(Len(q) - 1) :
        (front \o back)[p] = IF p < k THEN q[p] ELSE q[p + 1]
  <2>. SUFFICES ASSUME NEW p \in 1..(Len(q) - 1)
                PROVE  (front \o back)[p] = IF p < k THEN q[p] ELSE q[p + 1]
    OBVIOUS
  <2>1. CASE p < k
    BY <1>1, <1>2, <1>3, <2>1
  <2>2. CASE ~(p < k)
    <3>1. (front \o back)[p] = back[p - (k - 1)]
      BY <1>1, <1>2, <1>3, <2>2
    <3>2. back[p - (k - 1)] = q[k + (p - (k - 1))]
      BY <1>1, <1>3, <2>2
    <3>3. k + (p - (k - 1)) = p + 1
      BY <1>1
    <3>. QED  BY <2>2, <3>1, <3>2, <3>3
  <2>. QED  BY <2>1, <2>2
<1>. QED  BY <1>4, <1>5, <1>6

(* The queue without its first turn.                                        *)
LEMMA NextFacts ==
  ASSUME NEW S, NEW q \in Seq(S), q # <<>>
  PROVE  /\ NextOf(q).first = q[1] /\ q[1] \in S /\ 1 \in DOMAIN q
         /\ NextOf(q).rest \in Seq(S)
         /\ Len(NextOf(q).rest) = Len(q) - 1
         /\ \A p \in DOMAIN NextOf(q).rest : NextOf(q).rest[p] = q[p + 1] /\ p + 1 \in DOMAIN q
BY DEF NextOf

-----------------------------------------------------------------------------
(* A turn leaves behind a well typed registry.                              *)
LEMMA LeaveTypes ==
  ASSUME TypeOK, NEW m \in Messages, Leave(m), session' \in [Chats -> Messages \union {NoTurn}]
  PROVE  /\ queue' \in [Chats -> Seq(Messages)]
         /\ draining' \in [Chats -> Messages \union {NoTurn}]
         /\ chatTurns' \in [Chats -> Messages \union {NoTurn}]
         /\ chatCancels' \in [Chats -> Messages \union {NoTurn}]
         /\ stage' \in [Messages -> Stages]
         /\ snapshot' \in [Messages -> Messages \union {NoTurn}]
<1>. DEFINE c == chatOf[m]
            drains == draining[c] \in {NoTurn, m} /\ queue[c] # <<>>
            starts == IF drains /\ ~archived[c] THEN NextOf(queue[c]).first ELSE NoTurn
<1>1. c \in Chats
  BY ChatFacts
<1>2. queue[c] \in Seq(Messages)
  BY <1>1 DEF TypeOK
<1>3. queue[c] # <<>> => NextOf(queue[c]).first \in Messages /\ NextOf(queue[c]).rest \in Seq(Messages)
  BY <1>2, NextFacts
<1>4. starts \in Messages \union {NoTurn}
  BY <1>3
<1>5. queue' = [queue EXCEPT ![c] =
        IF ~drains THEN @ ELSE IF archived[c] THEN <<>> ELSE NextOf(@).rest]
  BY DEF Leave
<1>6. /\ chatTurns' = [chatTurns EXCEPT ![c] = starts]
      /\ chatCancels' = [chatCancels EXCEPT ![c] =
           IF starts # NoTurn THEN starts ELSE IF @ = m THEN NoTurn ELSE @]
      /\ draining' = [draining EXCEPT ![c] = IF @ \in {NoTurn, m} THEN starts ELSE @]
      /\ snapshot' = FreshRow(m, starts)
  BY DEF Leave
<1>7. stage' \in [Messages -> Stages]
  BY DEF Leave, Stages, TypeOK
<1>. HIDE DEF c, drains, starts
<1>8. queue' \in [Chats -> Seq(Messages)]
  <2>1. <<>> \in Seq(Messages)
    OBVIOUS
  <2>2. drains => queue[c] # <<>>
    BY DEF drains
  <2>. QED  BY <1>1, <1>2, <1>3, <1>5, <2>1, <2>2 DEF TypeOK
<1>9. /\ draining' \in [Chats -> Messages \union {NoTurn}]
      /\ chatTurns' \in [Chats -> Messages \union {NoTurn}]
      /\ chatCancels' \in [Chats -> Messages \union {NoTurn}]
  BY <1>1, <1>4, <1>6 DEF TypeOK
<1>10. snapshot' \in [Messages -> Messages \union {NoTurn}]
  BY <1>6, ChatFacts DEF TypeOK, FreshRow
<1>. QED  BY <1>7, <1>8, <1>9, <1>10

(* A chat begins well typed.                                                *)
LEMMA TypeInit == Init => TypeOK
BY ChatAssumption DEF ChatAssumption, Init, TypeOK, Stages

(* Every action keeps the types.                                            *)
LEMMA TypeStep == TypeOK /\ [Next]_vars => TypeOK'
<1>. SUFFICES ASSUME TypeOK, [Next]_vars PROVE TypeOK'
  OBVIOUS
<1>. USE ChatFacts DEF chatVars, registryVars, turnVars
<1>1. ASSUME NEW m \in Messages, Send(m) \/ SendOverApi(m)
      PROVE  TypeOK'
  <2>1. accepted' \in [Chats -> Seq(Messages)] /\ UNCHANGED <<archived, session, restarts>>
    <3>1. Accept(m)
      BY <1>1 DEF Send, SendOverApi
    <3>2. /\ accepted' = [accepted EXCEPT ![chatOf[m]] = Append(@, m)]
          /\ accepted \in [Chats -> Seq(Messages)]
      BY <3>1 DEF Accept, TypeOK
    <3>3. accepted' \in [Chats -> Seq(Messages)]
      BY <3>2
    <3>. QED  BY <3>1, <3>3 DEF Accept
  <2>2. idle' \in [Chats -> BOOLEAN]
    BY <1>1 DEF Send, SendOverApi, TypeOK
  <2>3. CASE Register(m)
    BY <2>1, <2>2, <2>3 DEF Register, TypeOK, Stages
  <2>4. CASE Enqueue(m)
    BY <2>1, <2>2, <2>4 DEF Enqueue, TypeOK, Stages
  <2>. QED  BY <1>1, <2>3, <2>4 DEF Send, SendOverApi
<1>2. ASSUME NEW m \in Messages, NEW bound \in BOOLEAN, OpenSession(m, bound)
      PROVE  TypeOK'
  BY <1>2 DEF OpenSession, TypeOK, Stages
<1>3. ASSUME NEW m \in Messages, TurnEnds(m)
      PROVE  TypeOK'
  <2>1. session' \in [Chats -> Messages \union {NoTurn}] /\ idle' \in [Chats -> BOOLEAN]
    <3>1. Bookkeeping(m)
      BY <1>3 DEF TurnEnds
    <3>2. session' \in [Chats -> Messages \union {NoTurn}]
      <4>1. session \in [Chats -> Messages \union {NoTurn}]
        BY DEF TypeOK
      <4>2. \/ session' = [session EXCEPT ![chatOf[m]] = m]
            \/ session' = session
            \/ session' = [session EXCEPT ![chatOf[m]] = session[chatOf[m]]]
        BY <3>1 DEF Bookkeeping
      <4>. QED  BY <4>1, <4>2
    <3>3. idle' \in [Chats -> BOOLEAN]
      BY <3>1 DEF Bookkeeping, TypeOK
    <3>. QED  BY <3>2, <3>3
  <2>2. Leave(m) /\ UNCHANGED <<archived, accepted, restarts>>
    BY <1>3 DEF TurnEnds
  <2>3. /\ queue' \in [Chats -> Seq(Messages)]
        /\ draining' \in [Chats -> Messages \union {NoTurn}]
        /\ chatTurns' \in [Chats -> Messages \union {NoTurn}]
        /\ chatCancels' \in [Chats -> Messages \union {NoTurn}]
        /\ stage' \in [Messages -> Stages]
        /\ snapshot' \in [Messages -> Messages \union {NoTurn}]
    BY <2>1, <2>2, LeaveTypes
  <2>. QED  BY <2>1, <2>2, <2>3 DEF TypeOK
<1>4. ASSUME NEW m \in Messages, CancelQueued(m)
      PROVE  TypeOK'
  <2>1. PICK i \in DOMAIN queue[chatOf[m]] :
          queue' = [queue EXCEPT ![chatOf[m]] = Without(@, i)]
    BY <1>4 DEF CancelQueued
  <2>2. queue' \in [Chats -> Seq(Messages)]
    BY <2>1, WithoutFacts DEF TypeOK
  <2>. QED  BY <1>4, <2>2 DEF CancelQueued, TypeOK, Stages
<1>5. ASSUME NEW c \in Chats, Archive(c)
      PROVE  TypeOK'
  BY <1>5 DEF Archive, TypeOK, Stages
<1>6. ASSUME NEW c \in Chats, Restore(c) \/ Age(c) \/ SweepIdle(c)
      PROVE  TypeOK'
  BY <1>6 DEF Restore, Age, SweepIdle, TypeOK
<1>7. CASE Restart
  BY <1>7, ChatAssumption DEF Restart, TypeOK, Stages, ChatAssumption
<1>8. CASE UNCHANGED vars
  BY <1>8 DEF vars, TypeOK
<1>. QED  BY <1>1, <1>2, <1>3, <1>4, <1>5, <1>6, <1>7, <1>8 DEF Next

(* The registry, the queues and the rows of the chats are well typed.       *)
THEOREM ChatTypeOK == Spec => []TypeOK
BY TypeInit, TypeStep, PTL DEF Spec
-----------------------------------------------------------------------------
(* The inductive invariant of one chat.                                     *)

(* What is queued waits, belongs to the chat and is in the queue once.      *)
QueueOK(c) ==
  /\ \A i \in DOMAIN queue[c] : chatOf[queue[c][i]] = c /\ stage[queue[c][i]] = "queued"
  /\ \A i, j \in DOMAIN queue[c] : queue[c][i] = queue[c][j] => i = j

(* The registered turn, and the queued one that executes, are in flight;    *)
(* and while a turn is queued, some turn is.                                *)
RegistryOK(c) ==
  /\ chatTurns[c] # NoTurn => chatTurns[c] \in TurnsOf(c)
  /\ draining[c] # NoTurn => draining[c] \in TurnsOf(c)
  /\ queue[c] # <<>> => TurnsOf(c) # {}

(* In an internal chat every turn in flight is the registered one, and so   *)
(* is the turn that stop reaches.                                           *)
SerialOK(c) ==
  c \in Internal => \A m \in TurnsOf(c) : chatTurns[c] = m /\ chatCancels[c] = m

(* The session a turn without one will bind is the chat's first.            *)
SessionOK(c) ==
  c \in Internal =>
    \A m \in TurnsOf(c) : snapshot[m] = NoTurn => session[c] \in {NoTurn, m}

ChatInv(c) == QueueOK(c) /\ RegistryOK(c) /\ SerialOK(c) /\ SessionOK(c)

(* What a step may leave alone in a chat.                                   *)
SameChat(c) ==
  /\ queue'[c] = queue[c] /\ draining'[c] = draining[c]
  /\ chatTurns'[c] = chatTurns[c] /\ chatCancels'[c] = chatCancels[c]
  /\ session'[c] = session[c]
  /\ \A m \in Messages : chatOf[m] = c => stage'[m] = stage[m] /\ snapshot'[m] = snapshot[m]

(* A chat that a step leaves alone keeps its invariant.                     *)
LEMMA SameChatStays ==
  ASSUME TypeOK, NEW c \in Chats, ChatInv(c), SameChat(c)
  PROVE  ChatInv(c)'
<1>1. TurnsOf(c)' = TurnsOf(c)
  BY DEF TurnsOf, SameChat
<1>2. \A i \in DOMAIN queue[c] : queue[c][i] \in Messages
  BY DEF TypeOK
<1>3. QueueOK(c)'
  BY <1>2 DEF QueueOK, SameChat, ChatInv
<1>4. RegistryOK(c)' /\ SerialOK(c)'
  BY <1>1 DEF RegistryOK, SerialOK, SameChat, ChatInv, Internal
<1>5. SessionOK(c)'
  <2>1. \A m \in TurnsOf(c) : snapshot'[m] = snapshot[m]
    BY DEF SameChat, TurnsOf
  <2>. QED  BY <1>1, <2>1 DEF SessionOK, SameChat, ChatInv, Internal
<1>. QED  BY <1>3, <1>4, <1>5 DEF ChatInv

(* A message that starts its turn at once: in an internal chat no other is  *)
(* in flight, and so none is queued.                                        *)
LEMMA RegisterInv ==
  ASSUME TypeOK, NEW m \in Messages, ChatInv(chatOf[m]),
         stage[m] = "unsent", Register(m), UNCHANGED session,
         chatOf[m] \in Internal => chatTurns[chatOf[m]] = NoTurn
  PROVE  ChatInv(chatOf[m])'
<1>. DEFINE c == chatOf[m]
<1>. USE ChatFacts
<1>1. TurnsOf(c)' = TurnsOf(c) \union {m}
  BY DEF Register, TurnsOf, InFlight, TypeOK
<1>2. c \in Internal => TurnsOf(c) = {}
  BY DEF ChatInv, SerialOK, TurnsOf
<1>3. \A i \in DOMAIN queue[c] : queue[c][i] \in Messages /\ queue[c][i] # m
  BY DEF TypeOK, ChatInv, QueueOK
<1>4. QueueOK(c)'
  BY <1>3 DEF QueueOK, ChatInv, Register, TypeOK
<1>5. chatTurns'[c] = m /\ chatCancels'[c] = m
  BY DEF Register, TypeOK
<1>6. RegistryOK(c)'
  BY <1>1, <1>5 DEF RegistryOK, ChatInv, Register
<1>7. SerialOK(c)'
  BY <1>1, <1>2, <1>5 DEF SerialOK, Internal
<1>8. SessionOK(c)'
  <2>1. snapshot'[m] = session[c]
    BY DEF Register, TypeOK
  <2>. QED  BY <1>1, <1>2, <2>1 DEF SessionOK, Internal
<1>. QED  BY <1>4, <1>6, <1>7, <1>8 DEF ChatInv

(* A message that waits, behind a turn that is in flight.                   *)
LEMMA EnqueueInv ==
  ASSUME TypeOK, NEW m \in Messages, ChatInv(chatOf[m]),
         stage[m] = "unsent", Enqueue(m), UNCHANGED session,
         chatTurns[chatOf[m]] # NoTurn
  PROVE  ChatInv(chatOf[m])'
<1>. DEFINE c == chatOf[m]
<1>. USE ChatFacts
<1>1. TurnsOf(c)' = TurnsOf(c)
  BY DEF Enqueue, TurnsOf, InFlight, TypeOK
<1>2. TurnsOf(c) # {}
  BY DEF ChatInv, RegistryOK
<1>3. queue[c] \in Seq(Messages) /\ queue'[c] = Append(queue[c], m)
  BY DEF Enqueue, TypeOK
<1>4. \A i \in DOMAIN queue[c] : queue[c][i] \in Messages /\ queue[c][i] # m
  BY <1>3 DEF ChatInv, QueueOK
<1>5. /\ DOMAIN queue[c] = 1..Len(queue[c]) /\ Len(queue[c]) \in Nat
      /\ DOMAIN queue'[c] = 1..(Len(queue[c]) + 1)
      /\ \A i \in DOMAIN queue[c] : queue'[c][i] = queue[c][i]
      /\ queue'[c][Len(queue[c]) + 1] = m
  BY <1>3
<1>6. \A x \in Messages : stage'[x] = IF x = m THEN "queued" ELSE stage[x]
  BY DEF Enqueue, TypeOK
<1>. HIDE DEF c
<1>7. QueueOK(c)'
  <2>1. \A i \in DOMAIN queue'[c] : i \in DOMAIN queue[c] \/ i = Len(queue[c]) + 1
    BY <1>5
  <2>2. \A i \in DOMAIN queue'[c] : chatOf[queue'[c][i]] = c /\ stage'[queue'[c][i]] = "queued"
    BY <1>4, <1>5, <1>6, <2>1 DEF c, ChatInv, QueueOK
  <2>3. \A i, j \in DOMAIN queue'[c] : queue'[c][i] = queue'[c][j] => i = j
    BY <1>4, <1>5, <2>1 DEF c, ChatInv, QueueOK
  <2>. QED  BY <2>2, <2>3 DEF QueueOK
<1>8. RegistryOK(c)' /\ SerialOK(c)'
  BY <1>1, <1>2 DEF c, RegistryOK, SerialOK, ChatInv, Enqueue, Internal
<1>9. SessionOK(c)'
  BY <1>1 DEF c, SessionOK, ChatInv, Enqueue, Internal
<1>. QED  BY <1>7, <1>8, <1>9 DEF ChatInv, c

(* A turn opens its session: nobody enters or leaves.                       *)
LEMMA OpenSessionInv ==
  ASSUME TypeOK, NEW m \in Messages, ChatInv(chatOf[m]), NEW bound, OpenSession(m, bound)
  PROVE  ChatInv(chatOf[m])'
<1>. DEFINE c == chatOf[m]
<1>. USE ChatFacts DEF registryVars
<1>1. TurnsOf(c)' = TurnsOf(c) /\ m \in TurnsOf(c)
  BY DEF OpenSession, TurnsOf, InFlight, TypeOK
<1>2. \A i \in DOMAIN queue[c] : queue[c][i] \in Messages /\ queue[c][i] # m
  BY DEF OpenSession, TypeOK, ChatInv, QueueOK
<1>3. QueueOK(c)'
  BY <1>2 DEF QueueOK, ChatInv, OpenSession, TypeOK
<1>4. RegistryOK(c)' /\ SerialOK(c)'
  BY <1>1 DEF RegistryOK, SerialOK, ChatInv, OpenSession, Internal
<1>5. SessionOK(c)'
  <2>1. session'[c] \in {session[c], m} /\ UNCHANGED snapshot
    BY DEF OpenSession, TypeOK
  <2>2. c \in Internal => TurnsOf(c) = {m}
    BY <1>1 DEF ChatInv, SerialOK
  <2>. QED  BY <1>1, <2>1, <2>2 DEF SessionOK, ChatInv, Internal
<1>. QED  BY <1>3, <1>4, <1>5 DEF ChatInv

(* A queued turn is cancelled: the others keep their places.                *)
LEMMA CancelInv ==
  ASSUME TypeOK, NEW m \in Messages, ChatInv(chatOf[m]), CancelQueued(m)
  PROVE  ChatInv(chatOf[m])'
<1>. DEFINE c == chatOf[m]
<1>. USE ChatFacts DEF chatVars
<1>1. PICK k \in DOMAIN queue[c] : queue[c][k] = m /\ queue'[c] = Without(queue[c], k)
  BY DEF CancelQueued, TypeOK
<1>2. queue[c] \in Seq(Messages) /\ stage[m] = "queued"
  BY <1>1 DEF TypeOK, ChatInv, QueueOK
<1>3. TurnsOf(c)' = TurnsOf(c)
  BY <1>2 DEF CancelQueued, TurnsOf, InFlight, TypeOK
<1>4. \A p \in DOMAIN queue'[c] :
        \E q \in DOMAIN queue[c] \ {k} :
          queue'[c][p] = queue[c][q] /\ q = IF p < k THEN p ELSE p + 1
  BY <1>1, <1>2, WithoutFacts, SMTT(30)
<1>5. \A q \in DOMAIN queue[c] \ {k} : queue[c][q] \in Messages /\ queue[c][q] # m
  BY <1>1, <1>2 DEF ChatInv, QueueOK
<1>6. \A x \in Messages : stage'[x] = IF x = m THEN "dropped" ELSE stage[x]
  BY DEF CancelQueued, TypeOK
<1>7. QueueOK(c)'
  <2>1. \A p \in DOMAIN queue'[c] : chatOf[queue'[c][p]] = c /\ stage'[queue'[c][p]] = "queued"
    BY <1>4, <1>5, <1>6 DEF ChatInv, QueueOK
  <2>2. \A p, q \in DOMAIN queue'[c] : queue'[c][p] = queue'[c][q] => p = q
    <3>1. DOMAIN queue'[c] \subseteq Nat
      BY <1>1, <1>2, WithoutFacts, SMTT(30)
    <3>. SUFFICES ASSUME NEW p \in DOMAIN queue'[c], NEW q \in DOMAIN queue'[c],
                         queue'[c][p] = queue'[c][q]
                  PROVE  p = q
      OBVIOUS
    <3>2. PICK i \in DOMAIN queue[c] : queue'[c][p] = queue[c][i] /\ i = IF p < k THEN p ELSE p + 1
      BY <1>4
    <3>3. PICK j \in DOMAIN queue[c] : queue'[c][q] = queue[c][j] /\ j = IF q < k THEN q ELSE q + 1
      BY <1>4
    <3>4. i = j
      BY <3>2, <3>3 DEF ChatInv, QueueOK
    <3>5. k \in Nat /\ p \in Nat /\ q \in Nat
      BY <1>2, <3>1
    <3>. QED  BY <3>2, <3>3, <3>4, <3>5
  <2>. QED  BY <2>1, <2>2 DEF QueueOK
<1>8. RegistryOK(c)' /\ SerialOK(c)'
  BY <1>1, <1>3 DEF RegistryOK, SerialOK, ChatInv, CancelQueued, Internal
<1>9. SessionOK(c)'
  BY <1>3 DEF SessionOK, ChatInv, CancelQueued, Internal
<1>. QED  BY <1>7, <1>8, <1>9 DEF ChatInv

(* A chat is archived: what was queued is gone, what runs runs on.          *)
LEMMA ArchiveInv ==
  ASSUME TypeOK, NEW c \in Chats, ChatInv(c), Archive(c)
  PROVE  ChatInv(c)'
<1>1. queue'[c] = <<>>
  BY DEF Archive, TypeOK
<1>2. \A m \in Messages : stage[m] \in InFlight => m \notin Queued(c)
  BY DEF ChatInv, QueueOK, Queued, InFlight
<1>3. TurnsOf(c)' = TurnsOf(c)
  BY <1>2 DEF TurnsOf, Archive, InFlight
<1>4. QueueOK(c)'
  BY <1>1 DEF QueueOK
<1>5. RegistryOK(c)' /\ SerialOK(c)'
  BY <1>1, <1>3 DEF RegistryOK, SerialOK, ChatInv, Archive, Internal
<1>6. SessionOK(c)'
  BY <1>3 DEF SessionOK, ChatInv, Archive, Internal
<1>. QED  BY <1>4, <1>5, <1>6 DEF ChatInv
(* Whether the end of m drains its chat's queue, and what it starts.        *)
Drains(m) == draining[chatOf[m]] \in {NoTurn, m} /\ queue[chatOf[m]] # <<>>
Starts(m) == IF Drains(m) /\ ~archived[chatOf[m]] THEN queue[chatOf[m]][1] ELSE NoTurn

(* What the end of a turn does, with the head of the queue, if anything, to *)
(* start.                                                                   *)
LeaveEffect(m, c, drains, starts) ==
  /\ drains /\ ~archived[c] =>
       starts \in Messages /\ chatOf[starts] = c /\ stage[starts] = "queued"
  /\ chatTurns' = [chatTurns EXCEPT ![c] = starts]
  /\ chatCancels' = [chatCancels EXCEPT ![c] =
       IF starts # NoTurn THEN starts ELSE IF @ = m THEN NoTurn ELSE @]
  /\ draining' = [draining EXCEPT ![c] = IF @ \in {NoTurn, m} THEN starts ELSE @]
  /\ queue' = [queue EXCEPT ![c] =
       IF ~drains THEN @ ELSE IF archived[c] THEN <<>> ELSE NextOf(@).rest]
  /\ \A x \in Messages : stage'[x] =
       IF x = m THEN "done" ELSE IF x = starts THEN "opening"
       ELSE IF drains /\ archived[c] /\ x \in Queued(c) THEN "dropped" ELSE stage[x]
  /\ \A x \in Messages : snapshot'[x] =
       IF x = starts THEN session'[c] ELSE IF x = m THEN NoTurn ELSE snapshot[x]

(* What Leave does, in these words.                                         *)
LEMMA LeaveFacts ==
  ASSUME TypeOK, NEW m \in Messages, ChatInv(chatOf[m]), Leave(m)
  PROVE  LeaveEffect(m, chatOf[m], Drains(m), Starts(m))
<1>. DEFINE c == chatOf[m]
<1>1. queue[c] \in Seq(Messages) /\ c \in Chats
  BY ChatFacts DEF TypeOK
<1>2. Drains(m) => NextOf(queue[c]).first = queue[c][1] /\ queue[c][1] \in Messages
                /\ 1 \in DOMAIN queue[c]
  BY <1>1, NextFacts DEF Drains
<1>3. Drains(m) /\ ~archived[c] =>
        Starts(m) \in Messages /\ chatOf[Starts(m)] = c /\ stage[Starts(m)] = "queued"
  BY <1>2 DEF ChatInv, QueueOK, Starts
<1>4. Starts(m) = IF Drains(m) /\ ~archived[c] THEN NextOf(queue[c]).first ELSE NoTurn
  BY <1>2 DEF Starts
<1>5. \A x \in Messages : stage'[x] =
        IF x = m THEN "done" ELSE IF x = Starts(m) THEN "opening"
        ELSE IF Drains(m) /\ archived[c] /\ x \in Queued(c) THEN "dropped" ELSE stage[x]
  BY <1>4 DEF Leave, Drains
<1>6. /\ chatTurns' = [chatTurns EXCEPT ![c] = Starts(m)]
      /\ chatCancels' = [chatCancels EXCEPT ![c] =
           IF Starts(m) # NoTurn THEN Starts(m) ELSE IF @ = m THEN NoTurn ELSE @]
      /\ draining' = [draining EXCEPT ![c] = IF @ \in {NoTurn, m} THEN Starts(m) ELSE @]
      /\ snapshot' = FreshRow(m, Starts(m))
  BY <1>4 DEF Leave, Drains
<1>7. queue' = [queue EXCEPT ![c] =
        IF ~Drains(m) THEN @ ELSE IF archived[c] THEN <<>> ELSE NextOf(@).rest]
  BY DEF Leave, Drains
<1>. QED  BY <1>3, <1>5, <1>6, <1>7 DEF LeaveEffect, FreshRow

(* A turn ends and the queue is drained: at most its head starts, after the *)
(* turn that ended has left.                                                *)
LEMMA TurnEndsInv ==
  ASSUME TypeOK, NEW m \in Messages, ChatInv(chatOf[m]), TurnEnds(m)
  PROVE  ChatInv(chatOf[m])'
<1>. DEFINE c == chatOf[m]
            drains == Drains(m)
            starts == Starts(m)
            entering == IF drains /\ ~archived[c] THEN {starts} ELSE {}
<1>. USE ChatFacts
<1>1. m \in TurnsOf(c) /\ Leave(m) /\ c \in Chats
  BY DEF TurnEnds, TurnsOf
<1>2. LeaveEffect(m, c, drains, starts)
  BY <1>1, LeaveFacts
<1>3. /\ queue[c] \in Seq(Messages)
      /\ \A i \in DOMAIN queue[c] : queue[c][i] \in Messages /\ queue[c][i] # m
      /\ \A x \in Queued(c) : x \in Messages /\ stage[x] = "queued"
      /\ stage[m] \in InFlight
  BY <1>1 DEF TypeOK, ChatInv, QueueOK, Queued, TurnsOf, InFlight
<1>4. drains => queue[c] # <<>>
  BY DEF Drains
<1>5. ~drains => starts = NoTurn
  BY DEF Starts
<1>6. archived[c] => starts = NoTurn
  BY DEF Starts
<1>7. drains /\ ~archived[c] => starts = queue[c][1]
  BY DEF Starts
<1>8. entering = IF starts = NoTurn THEN {} ELSE {starts}
  BY <1>2, <1>5, <1>6 DEF LeaveEffect
<1>9. ~drains => draining[c] \notin {NoTurn, m} \/ queue[c] = <<>>
  BY DEF Drains
<1>. HIDE DEF c, drains, starts, entering
<1>. USE DEF LeaveEffect
<1>10. TurnsOf(c)' = (TurnsOf(c) \ {m}) \union entering
  <2>1. \A x \in Messages : chatOf[x] = c =>
          (stage'[x] \in InFlight <=> (stage[x] \in InFlight /\ x # m) \/ x \in entering)
    BY <1>2, <1>3, <1>5, <1>6, <1>8 DEF InFlight
  <2>2. \A x \in entering : x \in Messages /\ chatOf[x] = c
    BY <1>2, <1>5, <1>6, <1>8
  <2>. QED  BY <2>1, <2>2 DEF TurnsOf
<1>11. QueueOK(c)'
  <2>1. CASE ~drains
    BY <1>1, <1>2, <1>3, <1>5, <2>1 DEF QueueOK, ChatInv, c, TypeOK
  <2>2. CASE drains /\ archived[c]
    <3>1. queue'[c] = <<>>
      BY <1>1, <1>2, <2>2 DEF TypeOK
    <3>. QED  BY <3>1 DEF QueueOK
  <2>3. CASE drains /\ ~archived[c]
    <3>1. queue'[c] = NextOf(queue[c]).rest
      BY <1>1, <1>2, <2>3 DEF TypeOK
    <3>2. \A p \in DOMAIN queue'[c] :
            p \in Nat /\ p > 0 /\ p + 1 \in DOMAIN queue[c] /\ queue'[c][p] = queue[c][p + 1]
      BY <1>3, <1>4, <2>3, <3>1, NextFacts
    <3>3. 1 \in DOMAIN queue[c]
      BY <1>3, <1>4, <2>3, NextFacts
    <3>4. \A p \in DOMAIN queue'[c] : queue'[c][p] # starts
      BY <1>7, <2>3, <3>2, <3>3 DEF ChatInv, QueueOK, c
    <3>5. \A p \in DOMAIN queue'[c] : chatOf[queue'[c][p]] = c /\ stage'[queue'[c][p]] = "queued"
      BY <1>2, <1>3, <2>3, <3>2, <3>4 DEF ChatInv, QueueOK, c
    <3>6. \A p, q \in DOMAIN queue'[c] : queue'[c][p] = queue'[c][q] => p = q
      <4>. SUFFICES ASSUME NEW p \in DOMAIN queue'[c], NEW q \in DOMAIN queue'[c],
                           queue'[c][p] = queue'[c][q]
                    PROVE  p = q
        OBVIOUS
      <4>1. p + 1 = q + 1
        BY <3>2 DEF ChatInv, QueueOK, c
      <4>. QED  BY <3>2, <4>1
    <3>. QED  BY <3>5, <3>6 DEF QueueOK
  <2>. QED  BY <2>1, <2>2, <2>3
<1>12. chatTurns'[c] = starts /\ (starts # NoTurn => chatCancels'[c] = starts)
  BY <1>1, <1>2 DEF TypeOK
<1>13. RegistryOK(c)'
  <2>1. chatTurns'[c] # NoTurn => chatTurns'[c] \in TurnsOf(c)'
    BY <1>8, <1>10, <1>12
  <2>2. draining'[c] # NoTurn => draining'[c] \in TurnsOf(c)'
    <3>1. draining'[c] = IF draining[c] \in {NoTurn, m} THEN starts ELSE draining[c]
      BY <1>1, <1>2 DEF TypeOK
    <3>. QED  BY <1>8, <1>10, <3>1 DEF ChatInv, RegistryOK, c
  <2>3. queue'[c] # <<>> => TurnsOf(c)' # {}
    <3>1. CASE drains /\ archived[c]
      BY <1>1, <1>2, <3>1 DEF TypeOK
    <3>2. CASE drains /\ ~archived[c]
      BY <1>2, <1>8, <1>10, <3>2, ChatFacts
    <3>3. CASE ~drains
      <4>1. queue'[c] = queue[c]
        BY <1>1, <1>2, <3>3 DEF TypeOK
      <4>2. draining[c] \notin {NoTurn, m} => draining[c] \in TurnsOf(c)'
        BY <1>10 DEF ChatInv, RegistryOK, c
      <4>. QED  BY <1>9, <3>3, <4>1, <4>2
    <3>. QED  BY <3>1, <3>2, <3>3
  <2>. QED  BY <2>1, <2>2, <2>3 DEF RegistryOK
<1>14. c \in Internal => TurnsOf(c) = {m}
  BY <1>1 DEF ChatInv, SerialOK, c
<1>15. SerialOK(c)'
  BY <1>8, <1>10, <1>12, <1>14 DEF SerialOK, Internal
<1>16. SessionOK(c)'
  <2>1. \A x \in entering : snapshot'[x] = session'[c]
    BY <1>2, <1>5, <1>6, <1>8
  <2>. QED  BY <1>10, <1>14, <2>1 DEF SessionOK, Internal
<1>. QED  BY <1>11, <1>13, <1>15, <1>16 DEF ChatInv, c

(* The manager is started again: nothing is in flight and nothing queued.   *)
LEMMA RestartInv ==
  ASSUME TypeOK, Restart, NEW c \in Chats
  PROVE  ChatInv(c)'
<1>1. TurnsOf(c)' = {}
  BY DEF Restart, TurnsOf, InFlight
<1>2. queue'[c] = <<>> /\ chatTurns'[c] = NoTurn /\ draining'[c] = NoTurn
  BY DEF Restart
<1>3. QueueOK(c)' /\ RegistryOK(c)'
  BY <1>1, <1>2 DEF QueueOK, RegistryOK
<1>4. SerialOK(c)' /\ SessionOK(c)'
  BY <1>1 DEF SerialOK, SessionOK
<1>. QED  BY <1>3, <1>4 DEF ChatInv

(* A step about a message leaves the other chats alone.                     *)
LEMMA OtherChats ==
  ASSUME TypeOK, NEW m \in Messages, ChatInv(chatOf[m]), NEW c \in Chats, c # chatOf[m],
         \/ Send(m) \/ SendOverApi(m) \/ TurnEnds(m) \/ CancelQueued(m)
         \/ \E bound \in BOOLEAN : OpenSession(m, bound)
  PROVE  SameChat(c)
<1>. USE ChatFacts DEF SameChat, chatVars, registryVars
<1>1. CASE Send(m) \/ SendOverApi(m)
  BY <1>1 DEF Send, SendOverApi, Accept, Register, Enqueue, TypeOK
<1>2. CASE TurnEnds(m)
  <2>. DEFINE d == chatOf[m]
  <2>1. LeaveEffect(m, d, Drains(m), Starts(m))
    BY <1>2, LeaveFacts DEF TurnEnds
  <2>2. Starts(m) \in Messages => chatOf[Starts(m)] = d
    BY <2>1 DEF LeaveEffect, Starts
  <2>3. \A x \in Queued(d) : chatOf[x] = d
    BY DEF ChatInv, QueueOK, Queued
  <2>5. session'[c] = session[c]
    BY <1>2 DEF TurnEnds, Bookkeeping, TypeOK
  <2>6. queue'[c] = queue[c] /\ draining'[c] = draining[c]
    BY <2>1 DEF LeaveEffect, TypeOK
  <2>7. chatTurns'[c] = chatTurns[c] /\ chatCancels'[c] = chatCancels[c]
    BY <2>1 DEF LeaveEffect, TypeOK
  <2>8. ASSUME NEW x \in Messages, chatOf[x] = c
        PROVE  x # m /\ x # Starts(m) /\ x \notin Queued(d)
    BY <2>2, <2>3, <2>8
  <2>9. ASSUME NEW x \in Messages, chatOf[x] = c
        PROVE  stage'[x] = stage[x] /\ snapshot'[x] = snapshot[x]
    <3>. HIDE DEF d
    <3>1. /\ stage'[x] = IF x = m THEN "done" ELSE IF x = Starts(m) THEN "opening"
             ELSE IF Drains(m) /\ archived[d] /\ x \in Queued(d) THEN "dropped" ELSE stage[x]
          /\ snapshot'[x] = IF x = Starts(m) THEN session'[d]
             ELSE IF x = m THEN NoTurn ELSE snapshot[x]
      BY <2>1 DEF LeaveEffect
    <3>. QED  BY <2>8, <2>9, <3>1
  <2>. QED  BY <2>5, <2>6, <2>7, <2>9
<1>3. CASE CancelQueued(m)
  BY <1>3 DEF CancelQueued, TypeOK
<1>4. ASSUME NEW bound, OpenSession(m, bound)
      PROVE  SameChat(c)
  BY <1>4 DEF OpenSession, TypeOK
<1>. QED  BY <1>1, <1>2, <1>3, <1>4

(* The inductive invariant of all chats.                                    *)
AllChats == \A c \in Chats : ChatInv(c)

(* Every step keeps the invariant of every chat.                            *)
LEMMA ChatStep == TypeOK /\ AllChats /\ [Next]_vars => AllChats'
<1>. SUFFICES ASSUME TypeOK, AllChats, [Next]_vars, NEW c \in Chats
              PROVE  ChatInv(c)'
  BY DEF AllChats
<1>. USE ChatFacts DEF AllChats, chatVars, registryVars, turnVars
<1>1. ASSUME NEW m \in Messages, Send(m)
      PROVE  ChatInv(c)'
  <2>1. CASE c = chatOf[m] /\ chatTurns[c] # NoTurn
    BY <1>1, <2>1, EnqueueInv DEF Send, Accept
  <2>2. CASE c = chatOf[m] /\ chatTurns[c] = NoTurn
    BY <1>1, <2>2, RegisterInv DEF Send, Accept
  <2>3. CASE c # chatOf[m]
    BY <1>1, <2>3, OtherChats, SameChatStays
  <2>. QED  BY <2>1, <2>2, <2>3
<1>2. ASSUME NEW m \in Messages, SendOverApi(m)
      PROVE  ChatInv(c)'
  <2>1. CASE c = chatOf[m]
    BY <1>2, <2>1, RegisterInv DEF SendOverApi, Accept, Internal
  <2>2. CASE c # chatOf[m]
    BY <1>2, <2>2, OtherChats, SameChatStays
  <2>. QED  BY <2>1, <2>2
<1>3. ASSUME NEW m \in Messages,
             \/ TurnEnds(m) \/ CancelQueued(m)
             \/ \E bound \in BOOLEAN : OpenSession(m, bound)
      PROVE  ChatInv(c)'
  <2>1. CASE c = chatOf[m]
    BY <1>3, <2>1, TurnEndsInv, CancelInv, OpenSessionInv
  <2>2. CASE c # chatOf[m]
    BY <1>3, <2>2, OtherChats, SameChatStays
  <2>. QED  BY <2>1, <2>2
<1>4. ASSUME NEW d \in Chats, Archive(d)
      PROVE  ChatInv(c)'
  <2>1. CASE c = d
    BY <1>4, <2>1, ArchiveInv
  <2>2. CASE c # d
    <3>1. \A x \in Queued(d) : chatOf[x] = d
      BY DEF ChatInv, QueueOK, Queued
    <3>2. SameChat(c)
      BY <1>4, <2>2, <3>1 DEF Archive, SameChat, TypeOK
    <3>. QED  BY <3>2, SameChatStays
  <2>. QED  BY <2>1, <2>2
<1>5. ASSUME NEW d \in Chats, Restore(d) \/ Age(d) \/ SweepIdle(d)
      PROVE  ChatInv(c)'
  <2>1. SameChat(c)
    BY <1>5 DEF Restore, Age, SweepIdle, SameChat
  <2>. QED  BY <2>1, SameChatStays
<1>6. CASE Restart
  BY <1>6, RestartInv
<1>7. CASE UNCHANGED vars
  <2>1. SameChat(c)
    BY <1>7 DEF vars, SameChat
  <2>. QED  BY <2>1, SameChatStays
<1>. QED  BY <1>1, <1>2, <1>3, <1>4, <1>5, <1>6, <1>7 DEF Next

(* The invariant of the chats.                                              *)
LEMMA ChatInvariant == Spec => [](TypeOK /\ AllChats)
<1>1. Init => AllChats
  BY DEF Init, AllChats, ChatInv, QueueOK, RegistryOK, SerialOK, SessionOK, TurnsOf, InFlight
<1>. QED  BY <1>1, TypeInit, TypeStep, ChatStep, PTL DEF Spec

(* "a chat runs at most one turn at any moment", and the stop button reaches *)
(* it: for every chat the public API does not write to (startChatTurn, the  *)
(* queue and the routes of a chat).                                         *)
THEOREM ChatIsSerial == Spec => []OneTurnAtATime
<1>1. AllChats => OneTurnAtATime
  BY DEF AllChats, ChatInv, SerialOK, OneTurnAtATime, StopReaches, Internal
<1>. QED  BY <1>1, ChatInvariant, PTL

(* No queued message is forgotten, in whatever chat: a turn is in flight    *)
(* whose end will drain the queue (drainChatQueue).                         *)
THEOREM QueuesAreWatched == Spec => []QueueIsWatched
<1>1. AllChats => QueueIsWatched
  BY DEF AllChats, ChatInv, RegistryOK, QueueIsWatched
<1>. QED  BY <1>1, ChatInvariant, PTL

(* An internal chat never changes the session it continues (bindSession and *)
(* the fresh chat row of a queued turn).                                    *)
THEOREM SessionsAreKept == Spec => SessionIsKept
<1>1. ASSUME TypeOK, AllChats, [Next]_vars, NEW c \in Internal, session[c] # NoTurn
      PROVE  session'[c] = session[c]
  <2>. USE <1>1 DEF AllChats, chatVars, Internal
  <2>1. ASSUME NEW m \in Messages, TurnEnds(m)
        PROVE  session'[c] = session[c]
    <3>1. CASE c = chatOf[m] /\ snapshot[m] = NoTurn
      <4>1. session[c] = m
        BY <2>1, <3>1 DEF TurnEnds, ChatInv, SessionOK, TurnsOf
      <4>. QED  BY <2>1, <3>1, <4>1 DEF TurnEnds, Bookkeeping, TypeOK
    <3>2. CASE ~(c = chatOf[m] /\ snapshot[m] = NoTurn)
      BY <2>1, <3>2 DEF TurnEnds, Bookkeeping, TypeOK
    <3>. QED  BY <3>1, <3>2
  <2>2. ASSUME NEW m \in Messages, NEW bound, OpenSession(m, bound)
        PROVE  session'[c] = session[c]
    BY <2>2 DEF OpenSession, TypeOK
  <2>3. ASSUME NEW m \in Messages, Send(m) \/ SendOverApi(m) \/ CancelQueued(m)
        PROVE  session'[c] = session[c]
    BY <2>3 DEF Send, SendOverApi, Accept, CancelQueued
  <2>4. ASSUME NEW d \in Chats, Archive(d) \/ Restore(d) \/ Age(d) \/ SweepIdle(d)
        PROVE  session'[c] = session[c]
    BY <2>4 DEF Archive, Restore, Age, SweepIdle
  <2>5. CASE Restart \/ UNCHANGED vars
    BY <2>5 DEF Restart, vars
  <2>. QED  BY <2>1, <2>2, <2>3, <2>4, <2>5 DEF Next
<1>2. TypeOK /\ AllChats /\ [Next]_vars =>
        [\A c \in Internal : session[c] # NoTurn => session'[c] = session[c]]_vars
  BY <1>1
<1>. QED  BY <1>2, ChatInvariant, PTL DEF Spec, SessionIsKept

(* Nothing starts in an archived chat, however it was archived (resolve,    *)
(* and the queued turn that finds its chat gone).                           *)
THEOREM ArchivedChatsRest == Spec => ArchivedStartsNothing
<1>1. ASSUME TypeOK, AllChats, [Next]_vars, NEW x \in Messages,
             archived[chatOf[x]], stage[x] \notin InFlight
      PROVE  stage'[x] \notin InFlight
  <2>. USE <1>1, ChatFacts DEF AllChats, turnVars
  <2>1. ASSUME NEW m \in Messages, Send(m) \/ SendOverApi(m)
        PROVE  stage'[x] \notin InFlight
    BY <2>1 DEF Send, SendOverApi, Accepts, Register, Enqueue, InFlight, TypeOK
  <2>2. ASSUME NEW m \in Messages, NEW bound, OpenSession(m, bound)
        PROVE  stage'[x] \notin InFlight
    BY <2>2 DEF OpenSession, InFlight, TypeOK
  <2>3. ASSUME NEW m \in Messages, TurnEnds(m)
        PROVE  stage'[x] \notin InFlight
    <3>1. LeaveEffect(m, chatOf[m], Drains(m), Starts(m))
      BY <2>3, LeaveFacts DEF TurnEnds
    <3>2. x # Starts(m)
      BY <3>1 DEF LeaveEffect, Starts
    <3>. QED  BY <3>1, <3>2 DEF LeaveEffect, InFlight
  <2>4. ASSUME NEW m \in Messages, CancelQueued(m)
        PROVE  stage'[x] \notin InFlight
    BY <2>4 DEF CancelQueued, InFlight, TypeOK
  <2>5. ASSUME NEW d \in Chats, Archive(d) \/ Restore(d) \/ Age(d) \/ SweepIdle(d)
        PROVE  stage'[x] \notin InFlight
    BY <2>5 DEF Archive, Restore, Age, SweepIdle, InFlight
  <2>6. CASE Restart \/ UNCHANGED vars
    BY <2>6 DEF Restart, vars, InFlight
  <2>. QED  BY <2>1, <2>2, <2>3, <2>4, <2>5, <2>6 DEF Next
<1>2. TypeOK /\ AllChats /\ [Next]_vars =>
        [\A m \in Messages :
           archived[chatOf[m]] /\ stage[m] \notin InFlight => stage'[m] \notin InFlight]_vars
  BY <1>1
<1>. QED  BY <1>2, ChatInvariant, PTL DEF Spec, ArchivedStartsNothing
-----------------------------------------------------------------------------
(* The order of service.                                                    *)

(* What was accepted is a message of the chat that was sent.                *)
KnownOK(c) ==
  \A i \in DOMAIN accepted[c] :
    chatOf[accepted[c][i]] = c /\ stage[accepted[c][i]] # "unsent"

(* What waits is in the queue.                                              *)
WaitingOK(c) ==
  \A i \in DOMAIN accepted[c] :
    stage[accepted[c][i]] = "queued" => accepted[c][i] \in Queued(c)

(* The queue has the order in which its turns were accepted.                *)
LineOK(c) ==
  \A i, j \in DOMAIN accepted[c] : \A p, q \in DOMAIN queue[c] :
    i < j /\ accepted[c][i] = queue[c][p] /\ accepted[c][j] = queue[c][q] => p < q

(* In an internal chat whoever came before one that started is over.        *)
ServedOK(c) ==
  c \in Internal =>
    \A i, j \in DOMAIN accepted[c] :
      j < i /\ stage[accepted[c][i]] \in InFlight \union {"done"}
        => stage[accepted[c][j]] \in {"done", "dropped"}

OrderInv(c) == KnownOK(c) /\ WaitingOK(c) /\ LineOK(c) /\ ServedOK(c)

(* The messages accepted are messages, at positions that count from 1.      *)
LEMMA AcceptedFacts ==
  ASSUME TypeOK, NEW c \in Chats
  PROVE  /\ accepted[c] \in Seq(Messages)
         /\ DOMAIN accepted[c] = 1..Len(accepted[c]) /\ Len(accepted[c]) \in Nat
         /\ \A i \in DOMAIN accepted[c] : i \in Nat /\ accepted[c][i] \in Messages
<1>1. accepted[c] \in Seq(Messages)
  BY DEF TypeOK
<1>. QED  BY <1>1

(* A chat that a step leaves alone keeps its order.                         *)
LEMMA OrderFrame ==
  ASSUME TypeOK, NEW c \in Chats, OrderInv(c), SameChat(c), accepted'[c] = accepted[c]
  PROVE  OrderInv(c)'
<1>1. \A i \in DOMAIN accepted[c] :
        accepted[c][i] \in Messages /\ stage'[accepted[c][i]] = stage[accepted[c][i]]
  BY AcceptedFacts DEF OrderInv, KnownOK, SameChat
<1>2. KnownOK(c)'
  BY <1>1 DEF OrderInv, KnownOK
<1>3. WaitingOK(c)'
  BY <1>1 DEF OrderInv, WaitingOK, Queued, SameChat
<1>4. LineOK(c)'
  BY DEF OrderInv, LineOK, SameChat
<1>5. ServedOK(c)'
  BY <1>1 DEF OrderInv, ServedOK, Internal
<1>. QED  BY <1>2, <1>3, <1>4, <1>5 DEF OrderInv

(* A step that accepts nothing and moves every message of the chat on, from *)
(* the queue or from its turn, or leaves it where it is, and empties the    *)
(* queue.                                                                   *)
LEMMA EmptiedOrder ==
  ASSUME TypeOK, NEW c \in Chats, OrderInv(c), accepted'[c] = accepted[c], queue'[c] = <<>>,
         \A x \in Messages : chatOf[x] = c =>
           \/ stage'[x] = "dropped"
           \/ stage'[x] = stage[x] /\ x \notin Queued(c)
  PROVE  OrderInv(c)'
<1>1. \A i \in DOMAIN accepted[c] :
        \/ stage'[accepted[c][i]] = "dropped"
        \/ stage'[accepted[c][i]] = stage[accepted[c][i]] /\ accepted[c][i] \notin Queued(c)
  BY AcceptedFacts DEF OrderInv, KnownOK
<1>2. KnownOK(c)'
  BY <1>1 DEF OrderInv, KnownOK
<1>3. WaitingOK(c)'
  BY <1>1 DEF OrderInv, WaitingOK
<1>4. LineOK(c)'
  BY DEF LineOK
<1>5. ServedOK(c)'
  BY <1>1 DEF OrderInv, ServedOK, Internal, InFlight
<1>. QED  BY <1>2, <1>3, <1>4, <1>5 DEF OrderInv

(* A message is accepted and its turn starts at once: in an internal chat   *)
(* everything before it is over.                                            *)
LEMMA RegisterOrder ==
  ASSUME TypeOK, NEW m \in Messages, ChatInv(chatOf[m]), OrderInv(chatOf[m]),
         Accept(m), Register(m),
         chatOf[m] \in Internal => chatTurns[chatOf[m]] = NoTurn
  PROVE  OrderInv(chatOf[m])'
<1>. DEFINE c == chatOf[m]
<1>1. c \in Chats /\ stage[m] = "unsent"
  BY ChatFacts DEF Accept
<1>2. /\ accepted'[c] = Append(accepted[c], m)
      /\ queue'[c] = queue[c]
  BY <1>1 DEF Accept, Register, TypeOK
<1>3. \A x \in Messages : stage'[x] = IF x = m THEN "opening" ELSE stage[x]
  BY DEF Register, TypeOK
<1>4. \A p \in DOMAIN queue[c] : queue[c][p] # m
  BY <1>1 DEF ChatInv, QueueOK
<1>5. \A i \in DOMAIN accepted'[c] :
        \/ i \in DOMAIN accepted[c] /\ accepted'[c][i] = accepted[c][i]
           /\ accepted[c][i] \in Messages /\ accepted[c][i] # m
        \/ i = Len(accepted[c]) + 1 /\ accepted'[c][i] = m
  BY <1>1, <1>2, AcceptedFacts DEF OrderInv, KnownOK
<1>6. \A i \in DOMAIN accepted[c] : i < Len(accepted[c]) + 1
  BY <1>1, AcceptedFacts
<1>7. c \in Internal =>
        \A i \in DOMAIN accepted[c] : stage[accepted[c][i]] \in {"done", "dropped"}
  <2>. SUFFICES ASSUME c \in Internal, NEW i \in DOMAIN accepted[c]
                PROVE  stage[accepted[c][i]] \in {"done", "dropped"}
    OBVIOUS
  <2>1. accepted[c][i] \in Messages /\ chatOf[accepted[c][i]] = c
        /\ stage[accepted[c][i]] # "unsent"
    BY <1>1, AcceptedFacts DEF OrderInv, KnownOK
  <2>2. TurnsOf(c) = {}
    BY ChatFacts DEF ChatInv, SerialOK, TurnsOf
  <2>3. queue[c] = <<>>
    BY <2>2 DEF ChatInv, RegistryOK
  <2>4. accepted[c][i] \notin Queued(c)
    BY <2>3 DEF Queued
  <2>5. stage[accepted[c][i]] \in Stages
    BY <2>1 DEF TypeOK
  <2>. QED  BY <2>1, <2>2, <2>4, <2>5 DEF OrderInv, WaitingOK, TurnsOf, InFlight, Stages
<1>. HIDE DEF c
<1>8. KnownOK(c)'
  BY <1>3, <1>5 DEF c, OrderInv, KnownOK
<1>9. WaitingOK(c)'
  BY <1>2, <1>3, <1>5 DEF c, OrderInv, WaitingOK, Queued
<1>10. LineOK(c)'
  BY <1>2, <1>4, <1>5 DEF c, OrderInv, LineOK
<1>11. ServedOK(c)'
  <2>. SUFFICES ASSUME c \in Internal,
                       NEW i \in DOMAIN accepted'[c], NEW j \in DOMAIN accepted'[c],
                       j < i, stage'[accepted'[c][i]] \in InFlight \union {"done"}
                PROVE  stage'[accepted'[c][j]] \in {"done", "dropped"}
    BY DEF ServedOK, Internal
  <2>1. j \in DOMAIN accepted[c] /\ accepted'[c][j] = accepted[c][j]
        /\ accepted[c][j] \in Messages /\ accepted[c][j] # m
    <3>1. i \in DOMAIN accepted[c] \/ i = Len(accepted[c]) + 1
      BY <1>5
    <3>2. j # Len(accepted[c]) + 1
      BY <1>1, <1>6, <3>1, AcceptedFacts
    <3>. QED  BY <1>5, <3>2
  <2>. QED  BY <1>3, <1>7, <2>1
<1>. QED  BY <1>8, <1>9, <1>10, <1>11 DEF OrderInv, c

(* A message is accepted and queued: last in both orders.                   *)
LEMMA EnqueueOrder ==
  ASSUME TypeOK, NEW m \in Messages, ChatInv(chatOf[m]), OrderInv(chatOf[m]),
         Accept(m), Enqueue(m)
  PROVE  OrderInv(chatOf[m])'
<1>. DEFINE c == chatOf[m]
<1>1. c \in Chats /\ stage[m] = "unsent"
  BY ChatFacts DEF Accept
<1>2. /\ accepted'[c] = Append(accepted[c], m)
      /\ queue'[c] = Append(queue[c], m) /\ queue[c] \in Seq(Messages)
  BY <1>1 DEF Accept, Enqueue, TypeOK
<1>3. \A x \in Messages : stage'[x] = IF x = m THEN "queued" ELSE stage[x]
  BY DEF Enqueue, TypeOK
<1>4. \A p \in DOMAIN queue[c] : queue[c][p] # m
  BY <1>1 DEF ChatInv, QueueOK
<1>5. \A i \in DOMAIN accepted'[c] :
        \/ i \in DOMAIN accepted[c] /\ accepted'[c][i] = accepted[c][i]
           /\ accepted[c][i] \in Messages /\ accepted[c][i] # m
        \/ i = Len(accepted[c]) + 1 /\ accepted'[c][i] = m
  BY <1>1, <1>2, AcceptedFacts DEF OrderInv, KnownOK
<1>6. \A i \in DOMAIN accepted[c] : i < Len(accepted[c]) + 1
  BY <1>1, AcceptedFacts
<1>7. /\ DOMAIN queue'[c] = DOMAIN queue[c] \union {Len(queue[c]) + 1}
      /\ \A p \in DOMAIN queue[c] : p \in Nat /\ p < Len(queue[c]) + 1
      /\ \A p \in DOMAIN queue[c] : queue'[c][p] = queue[c][p]
      /\ queue'[c][Len(queue[c]) + 1] = m
  BY <1>2
<1>8. \A i, j \in DOMAIN accepted'[c] : i < j =>
        i \in DOMAIN accepted[c] /\ accepted'[c][i] = accepted[c][i] /\ accepted[c][i] # m
  <2>. SUFFICES ASSUME NEW i \in DOMAIN accepted'[c], NEW j \in DOMAIN accepted'[c], i < j
                PROVE  i # Len(accepted[c]) + 1
    BY <1>5
  <2>1. j \in DOMAIN accepted[c] \/ j = Len(accepted[c]) + 1
    BY <1>5
  <2>. QED  BY <1>1, <1>6, <2>1, AcceptedFacts
<1>. HIDE DEF c
<1>9. KnownOK(c)'
  BY <1>3, <1>5 DEF c, OrderInv, KnownOK
<1>10. WaitingOK(c)'
  <2>1. Queued(c)' = Queued(c) \union {m}
    BY <1>7 DEF Queued
  <2>. QED  BY <1>3, <1>5, <2>1 DEF c, OrderInv, WaitingOK
<1>11. LineOK(c)'
  <2>. SUFFICES ASSUME NEW i \in DOMAIN accepted'[c], NEW j \in DOMAIN accepted'[c],
                       NEW p \in DOMAIN queue'[c], NEW q \in DOMAIN queue'[c], i < j,
                       accepted'[c][i] = queue'[c][p], accepted'[c][j] = queue'[c][q]
                PROVE  p < q
    BY DEF LineOK
  <2>1. /\ i \in DOMAIN accepted[c] /\ accepted[c][i] = queue'[c][p]
        /\ p \in DOMAIN queue[c] /\ accepted[c][i] = queue[c][p]
    BY <1>7, <1>8
  <2>2. CASE q = Len(queue[c]) + 1
    BY <1>7, <2>1, <2>2
  <2>3. CASE q \in DOMAIN queue[c]
    <3>1. j \in DOMAIN accepted[c] /\ accepted[c][j] = queue[c][q]
      BY <1>4, <1>5, <1>7, <2>3
    <3>. QED  BY <2>1, <2>3, <3>1 DEF c, OrderInv, LineOK
  <2>. QED  BY <1>7, <2>2, <2>3
<1>12. ServedOK(c)'
  <2>. SUFFICES ASSUME c \in Internal,
                       NEW i \in DOMAIN accepted'[c], NEW j \in DOMAIN accepted'[c],
                       j < i, stage'[accepted'[c][i]] \in InFlight \union {"done"}
                PROVE  stage'[accepted'[c][j]] \in {"done", "dropped"}
    BY DEF ServedOK, Internal
  <2>1. j \in DOMAIN accepted[c] /\ accepted'[c][j] = accepted[c][j] /\ accepted[c][j] # m
    BY <1>8
  <2>2. i \in DOMAIN accepted[c] /\ accepted'[c][i] = accepted[c][i] /\ accepted[c][i] # m
    BY <1>3, <1>5 DEF InFlight
  <2>. QED  BY <1>1, <1>3, <2>1, <2>2, AcceptedFacts DEF c, OrderInv, ServedOK
<1>. QED  BY <1>9, <1>10, <1>11, <1>12 DEF OrderInv, c

(* A turn opens its session: it was in flight and stays so.                 *)
LEMMA OpenSessionOrder ==
  ASSUME TypeOK, NEW m \in Messages, OrderInv(chatOf[m]), NEW bound, OpenSession(m, bound)
  PROVE  OrderInv(chatOf[m])'
<1>. DEFINE c == chatOf[m]
<1>. USE ChatFacts
<1>1. accepted'[c] = accepted[c] /\ queue'[c] = queue[c] /\ stage[m] = "opening"
  BY DEF OpenSession, registryVars
<1>2. \A x \in Messages : stage'[x] = IF x = m THEN "driving" ELSE stage[x]
  BY DEF OpenSession, TypeOK
<1>3. \A i \in DOMAIN accepted[c] : accepted[c][i] \in Messages
  BY AcceptedFacts
<1>4. KnownOK(c)'
  BY <1>1, <1>2, <1>3 DEF OrderInv, KnownOK
<1>5. WaitingOK(c)'
  BY <1>1, <1>2, <1>3 DEF OrderInv, WaitingOK, Queued
<1>6. LineOK(c)'
  BY <1>1 DEF OrderInv, LineOK
<1>7. ServedOK(c)'
  BY <1>1, <1>2, <1>3 DEF OrderInv, ServedOK, Internal, InFlight
<1>. QED  BY <1>4, <1>5, <1>6, <1>7 DEF OrderInv

(* A queued turn is cancelled: those behind it move up, none overtakes.     *)
LEMMA CancelOrder ==
  ASSUME TypeOK, NEW m \in Messages, ChatInv(chatOf[m]), OrderInv(chatOf[m]), CancelQueued(m)
  PROVE  OrderInv(chatOf[m])'
<1>. DEFINE c == chatOf[m]
<1>. USE ChatFacts
<1>1. PICK k \in DOMAIN queue[c] : queue[c][k] = m /\ queue'[c] = Without(queue[c], k)
  BY DEF CancelQueued, TypeOK
<1>2. queue[c] \in Seq(Messages) /\ stage[m] = "queued"
  BY <1>1 DEF TypeOK, ChatInv, QueueOK
<1>3. /\ Len(queue'[c]) = Len(queue[c]) - 1 /\ DOMAIN queue'[c] = 1..Len(queue'[c])
      /\ \A p \in DOMAIN queue'[c] :
           queue'[c][p] = IF p < k THEN queue[c][p] ELSE queue[c][p + 1]
  <2>1. queue'[c] \in Seq(Messages) /\ Len(queue'[c]) = Len(queue[c]) - 1
    BY <1>1, <1>2, WithoutFacts, ZenonT(60)
  <2>2. \A p \in DOMAIN queue'[c] :
          queue'[c][p] = IF p < k THEN queue[c][p] ELSE queue[c][p + 1]
    BY <1>1, <1>2, WithoutFacts, ZenonT(60)
  <2>. QED  BY <2>1, <2>2
<1>4. k \in Nat /\ k <= Len(queue[c]) /\ k > 0 /\ Len(queue[c]) \in Nat
      /\ DOMAIN queue[c] = 1..Len(queue[c])
  BY <1>2
<1>5. \A x \in Messages : stage'[x] = IF x = m THEN "dropped" ELSE stage[x]
  BY DEF CancelQueued, TypeOK
<1>6. accepted'[c] = accepted[c]
  BY DEF CancelQueued
<1>7. \A i \in DOMAIN accepted[c] : accepted[c][i] \in Messages
  BY AcceptedFacts
<1>. HIDE DEF c
<1>8. KnownOK(c)'
  BY <1>5, <1>6, <1>7 DEF c, OrderInv, KnownOK
<1>9. WaitingOK(c)'
  <2>. SUFFICES ASSUME NEW i \in DOMAIN accepted[c], stage'[accepted[c][i]] = "queued"
                PROVE  \E p \in DOMAIN queue'[c] : queue'[c][p] = accepted[c][i]
    BY <1>6 DEF WaitingOK, Queued
  <2>1. accepted[c][i] # m /\ stage[accepted[c][i]] = "queued"
    BY <1>5, <1>7
  <2>2. PICK q \in DOMAIN queue[c] : queue[c][q] = accepted[c][i]
    BY <2>1 DEF c, OrderInv, WaitingOK, Queued
  <2>3. q # k
    BY <1>1, <2>1, <2>2
  <2>4. CASE q < k
    BY <1>3, <1>4, <2>2, <2>4
  <2>5. CASE q > k
    <3>1. q - 1 \in DOMAIN queue'[c] /\ ~(q - 1 < k) /\ (q - 1) + 1 = q
      BY <1>3, <1>4, <2>5
    <3>. QED  BY <1>3, <2>2, <3>1
  <2>. QED  BY <1>4, <2>3, <2>4, <2>5
<1>10. LineOK(c)'
  <2>. SUFFICES ASSUME NEW i \in DOMAIN accepted[c], NEW j \in DOMAIN accepted[c],
                       NEW p \in DOMAIN queue'[c], NEW q \in DOMAIN queue'[c], i < j,
                       accepted[c][i] = queue'[c][p], accepted[c][j] = queue'[c][q]
                PROVE  p < q
    BY <1>6 DEF LineOK
  <2>. DEFINE p0 == IF p < k THEN p ELSE p + 1
              q0 == IF q < k THEN q ELSE q + 1
  <2>1. p0 \in DOMAIN queue[c] /\ q0 \in DOMAIN queue[c]
    BY <1>3, <1>4
  <2>2. accepted[c][i] = queue[c][p0] /\ accepted[c][j] = queue[c][q0]
    BY <1>3
  <2>3. p0 < q0
    BY <2>1, <2>2 DEF c, OrderInv, LineOK
  <2>. QED  BY <1>3, <1>4, <2>3
<1>11. ServedOK(c)'
  BY <1>2, <1>5, <1>6, <1>7 DEF c, OrderInv, ServedOK, Internal, InFlight
<1>. QED  BY <1>8, <1>9, <1>10, <1>11 DEF OrderInv, c

(* A turn ends: in the order it is over, and what starts is the first of    *)
(* those that wait.                                                         *)
LEMMA TurnEndsOrder ==
  ASSUME TypeOK, NEW m \in Messages, ChatInv(chatOf[m]), OrderInv(chatOf[m]), TurnEnds(m)
  PROVE  OrderInv(chatOf[m])'
<1>. DEFINE c == chatOf[m]
            drains == Drains(m)
            starts == Starts(m)
<1>. USE ChatFacts
<1>1. c \in Chats /\ accepted'[c] = accepted[c] /\ m \in TurnsOf(c)
  BY DEF TurnEnds, TurnsOf
<1>2. LeaveEffect(m, c, drains, starts)
  BY LeaveFacts DEF TurnEnds
<1>3. CASE drains /\ archived[c]
  <2>1. queue'[c] = <<>>
    BY <1>1, <1>2, <1>3 DEF LeaveEffect, TypeOK
  <2>2. starts = NoTurn
    BY <1>3 DEF Starts
  <2>3. \A x \in Messages : stage'[x] =
          IF x = m THEN "done" ELSE IF x \in Queued(c) THEN "dropped" ELSE stage[x]
    BY <1>2, <1>3, <2>2 DEF LeaveEffect
  <2>4. \A i \in DOMAIN accepted[c] : accepted[c][i] \in Messages
    BY <1>1, AcceptedFacts
  <2>5. stage[m] \in InFlight
    BY <1>1 DEF TurnsOf
  <2>6. KnownOK(c)' /\ LineOK(c)'
    BY <1>1, <2>1, <2>3, <2>4 DEF OrderInv, KnownOK, LineOK
  <2>7. WaitingOK(c)'
    BY <1>1, <2>3, <2>4 DEF OrderInv, WaitingOK
  <2>8. ServedOK(c)'
    BY <1>1, <2>3, <2>4, <2>5 DEF OrderInv, ServedOK, Internal, InFlight
  <2>. QED  BY <2>6, <2>7, <2>8 DEF OrderInv
<1>4. CASE ~(drains /\ archived[c])
  <2>1. \A x \in Messages : stage'[x] =
          IF x = m THEN "done" ELSE IF x = starts THEN "opening" ELSE stage[x]
    BY <1>2, <1>4 DEF LeaveEffect
  <2>2. /\ \A i \in DOMAIN accepted[c] : accepted[c][i] \in Messages /\ i \in Nat
        /\ stage[m] \in InFlight
    BY <1>1, AcceptedFacts DEF TurnsOf
  <2>3. ~drains => starts = NoTurn
    BY DEF Starts
  <2>4. drains => starts = queue[c][1] /\ queue[c] # <<>> /\ stage[starts] = "queued"
    BY <1>2, <1>4 DEF Starts, Drains, LeaveEffect
  <2>5. queue[c] \in Seq(Messages)
    BY <1>1 DEF TypeOK
  <2>6. /\ ~drains => queue'[c] = queue[c]
        /\ drains => queue'[c] = NextOf(queue[c]).rest
    BY <1>1, <1>2, <1>4 DEF LeaveEffect, TypeOK
  <2>7. drains =>
          /\ \A p \in DOMAIN queue'[c] : p \in Nat /\ p + 1 \in DOMAIN queue[c]
                                       /\ queue'[c][p] = queue[c][p + 1]
          /\ \A q \in DOMAIN queue[c] : q # 1 => q - 1 \in DOMAIN queue'[c] /\ (q - 1) + 1 = q
          /\ 1 \in DOMAIN queue[c]
    <3>. SUFFICES ASSUME drains
                  PROVE  /\ \A p \in DOMAIN queue'[c] : p \in Nat /\ p + 1 \in DOMAIN queue[c]
                                                       /\ queue'[c][p] = queue[c][p + 1]
                         /\ \A q \in DOMAIN queue[c] : q # 1 => q - 1 \in DOMAIN queue'[c]
                                                               /\ (q - 1) + 1 = q
                         /\ 1 \in DOMAIN queue[c]
      OBVIOUS
    <3>. HIDE DEF c, drains, starts
    <3>1. /\ queue'[c] \in Seq(Messages) /\ Len(queue'[c]) = Len(queue[c]) - 1
          /\ 1 \in DOMAIN queue[c]
          /\ \A p \in DOMAIN queue'[c] : queue'[c][p] = queue[c][p + 1] /\ p + 1 \in DOMAIN queue[c]
      BY <2>4, <2>5, <2>6, NextFacts
    <3>2. /\ DOMAIN queue'[c] = 1..(Len(queue[c]) - 1)
          /\ DOMAIN queue[c] = 1..Len(queue[c]) /\ Len(queue[c]) \in Nat
      BY <2>5, <3>1
    <3>. QED  BY <3>1, <3>2
  <2>. HIDE DEF c, drains, starts
  <2>8. KnownOK(c)'
    BY <1>1, <2>1, <2>2 DEF c, OrderInv, KnownOK
  <2>9. WaitingOK(c)'
    <3>. SUFFICES ASSUME NEW i \in DOMAIN accepted[c], stage'[accepted[c][i]] = "queued"
                  PROVE  \E p \in DOMAIN queue'[c] : queue'[c][p] = accepted[c][i]
      BY <1>1 DEF WaitingOK, Queued
    <3>1. stage[accepted[c][i]] = "queued" /\ accepted[c][i] # starts
      BY <2>1, <2>2
    <3>2. PICK q \in DOMAIN queue[c] : queue[c][q] = accepted[c][i]
      BY <3>1 DEF c, OrderInv, WaitingOK, Queued
    <3>3. CASE ~drains
      BY <2>6, <3>2, <3>3
    <3>4. CASE drains
      <4>1. q - 1 \in DOMAIN queue'[c] /\ (q - 1) + 1 = q
        BY <2>4, <2>7, <3>1, <3>2, <3>4
      <4>. QED  BY <2>7, <3>2, <3>4, <4>1
    <3>. QED  BY <3>3, <3>4
  <2>10. LineOK(c)'
    <3>1. CASE ~drains
      BY <1>1, <2>6, <3>1 DEF c, OrderInv, LineOK
    <3>2. CASE drains
      <4>. SUFFICES ASSUME NEW i \in DOMAIN accepted[c], NEW j \in DOMAIN accepted[c],
                           NEW p \in DOMAIN queue'[c], NEW q \in DOMAIN queue'[c], i < j,
                           accepted[c][i] = queue'[c][p], accepted[c][j] = queue'[c][q]
                    PROVE  p < q
        BY <1>1 DEF LineOK
      <4>1. p + 1 < q + 1
        BY <2>7, <3>2 DEF c, OrderInv, LineOK
      <4>. QED  BY <2>7, <3>2, <4>1
    <3>. QED  BY <3>1, <3>2
  <2>11. ServedOK(c)'
    <3>. SUFFICES ASSUME c \in Internal,
                         NEW i \in DOMAIN accepted[c], NEW j \in DOMAIN accepted[c],
                         j < i, stage'[accepted[c][i]] \in InFlight \union {"done"}
                  PROVE  stage'[accepted[c][j]] \in {"done", "dropped"}
      BY <1>1 DEF ServedOK, Internal
    <3>1. CASE accepted[c][i] # starts
      <4>1. stage[accepted[c][i]] \in InFlight \union {"done"}
        BY <2>1, <2>2, <3>1
      <4>2. stage[accepted[c][j]] \in {"done", "dropped"}
        BY <4>1 DEF c, OrderInv, ServedOK
      <4>3. accepted[c][j] # starts
        BY <2>2, <2>3, <2>4, <4>2, ChatFacts
      <4>. QED  BY <2>1, <2>2, <4>2, <4>3
    <3>2. CASE accepted[c][i] = starts
      <4>1. drains
        BY <2>2, <2>3, <3>2, ChatFacts
      <4>2. accepted[c][j] \notin Queued(c)
        <5>. SUFFICES ASSUME NEW q \in DOMAIN queue[c], queue[c][q] = accepted[c][j]
                      PROVE  FALSE
          BY DEF Queued
        <5>1. q < 1
          BY <2>4, <2>7, <3>2, <4>1 DEF c, OrderInv, LineOK
        <5>. QED  BY <2>5, <5>1
      <4>3. stage[accepted[c][j]] # "queued"
        BY <4>2 DEF c, OrderInv, WaitingOK
      <4>4. chatOf[accepted[c][j]] = c /\ stage[accepted[c][j]] \in Stages \ {"unsent"}
        BY <2>2 DEF c, OrderInv, KnownOK, TypeOK
      <4>5. stage[accepted[c][j]] \in InFlight => accepted[c][j] = m
        BY <1>1, <2>2, <4>4 DEF c, ChatInv, SerialOK, TurnsOf
      <4>6. accepted[c][j] # starts
        BY <2>4, <4>1, <4>3
      <4>. QED  BY <2>1, <2>2, <4>3, <4>4, <4>5, <4>6 DEF InFlight, Stages
    <3>. QED  BY <3>1, <3>2
  <2>. QED  BY <2>8, <2>9, <2>10, <2>11 DEF OrderInv, c
<1>. QED  BY <1>3, <1>4

(* The order of every chat.                                                 *)
AllInOrder == \A c \in Chats : OrderInv(c)

(* Every step keeps the order of every chat.                                *)
LEMMA OrderStep == TypeOK /\ AllChats /\ AllInOrder /\ [Next]_vars => AllInOrder'
<1>. SUFFICES ASSUME TypeOK, AllChats, AllInOrder, [Next]_vars, NEW c \in Chats
              PROVE  OrderInv(c)'
  BY DEF AllInOrder
<1>. USE ChatFacts DEF AllChats, AllInOrder, chatVars, registryVars, turnVars
<1>1. ASSUME NEW m \in Messages, Send(m)
      PROVE  OrderInv(c)'
  <2>1. CASE c = chatOf[m] /\ chatTurns[c] # NoTurn
    BY <1>1, <2>1, EnqueueOrder DEF Send
  <2>2. CASE c = chatOf[m] /\ chatTurns[c] = NoTurn
    BY <1>1, <2>2, RegisterOrder DEF Send
  <2>3. CASE c # chatOf[m]
    <3>1. SameChat(c)
      BY <1>1, <2>3, OtherChats
    <3>2. accepted'[c] = accepted[c]
      BY <1>1, <2>3 DEF Send, Accept, TypeOK
    <3>. QED  BY <3>1, <3>2, OrderFrame
  <2>. QED  BY <2>1, <2>2, <2>3
<1>2. ASSUME NEW m \in Messages, SendOverApi(m)
      PROVE  OrderInv(c)'
  <2>1. CASE c = chatOf[m]
    BY <1>2, <2>1, RegisterOrder DEF SendOverApi, Internal
  <2>2. CASE c # chatOf[m]
    <3>1. SameChat(c)
      BY <1>2, <2>2, OtherChats
    <3>2. accepted'[c] = accepted[c]
      BY <1>2, <2>2 DEF SendOverApi, Accept, TypeOK
    <3>. QED  BY <3>1, <3>2, OrderFrame
  <2>. QED  BY <2>1, <2>2
<1>3. ASSUME NEW m \in Messages,
             \/ TurnEnds(m) \/ CancelQueued(m)
             \/ \E bound \in BOOLEAN : OpenSession(m, bound)
      PROVE  OrderInv(c)'
  <2>1. CASE c = chatOf[m]
    BY <1>3, <2>1, TurnEndsOrder, CancelOrder, OpenSessionOrder
  <2>2. CASE c # chatOf[m]
    <3>1. SameChat(c)
      BY <1>3, <2>2, OtherChats
    <3>2. accepted' = accepted
      BY <1>3 DEF TurnEnds, CancelQueued, OpenSession
    <3>. QED  BY <3>1, <3>2, OrderFrame
  <2>. QED  BY <2>1, <2>2
<1>4. ASSUME NEW d \in Chats, Archive(d)
      PROVE  OrderInv(c)'
  <2>1. CASE c = d
    <3>1. queue'[c] = <<>> /\ accepted'[c] = accepted[c]
      BY <1>4, <2>1 DEF Archive, TypeOK
    <3>2. \A x \in Messages : stage'[x] = IF x \in Queued(c) THEN "dropped" ELSE stage[x]
      BY <1>4, <2>1 DEF Archive
    <3>. QED  BY <3>1, <3>2, EmptiedOrder
  <2>2. CASE c # d
    <3>1. \A x \in Queued(d) : chatOf[x] = d
      BY DEF ChatInv, QueueOK, Queued
    <3>2. SameChat(c) /\ accepted'[c] = accepted[c]
      BY <1>4, <2>2, <3>1 DEF Archive, SameChat, TypeOK
    <3>. QED  BY <3>2, OrderFrame
  <2>. QED  BY <2>1, <2>2
<1>5. ASSUME NEW d \in Chats, Restore(d) \/ Age(d) \/ SweepIdle(d)
      PROVE  OrderInv(c)'
  <2>1. SameChat(c) /\ accepted'[c] = accepted[c]
    BY <1>5 DEF Restore, Age, SweepIdle, SameChat
  <2>. QED  BY <2>1, OrderFrame
<1>6. CASE Restart
  <2>1. queue'[c] = <<>> /\ accepted'[c] = accepted[c]
    BY <1>6 DEF Restart
  <2>2. \A x \in Messages : stage'[x] =
          IF stage[x] \in InFlight \union {"queued"} THEN "dropped" ELSE stage[x]
    BY <1>6 DEF Restart
  <2>3. \A x \in Queued(c) : stage[x] = "queued"
    BY DEF ChatInv, QueueOK, Queued
  <2>. QED  BY <2>1, <2>2, <2>3, EmptiedOrder
<1>7. CASE UNCHANGED vars
  <2>1. SameChat(c) /\ accepted'[c] = accepted[c]
    BY <1>7 DEF vars, SameChat
  <2>. QED  BY <2>1, OrderFrame
<1>. QED  BY <1>1, <1>2, <1>3, <1>4, <1>5, <1>6, <1>7 DEF Next

(* The messages of an internal chat are served in the order in which they   *)
(* were accepted, over direct starts, the queue, cancels, archives and      *)
(* restarts (routes/chat.ts and drainChatQueue).                            *)
THEOREM ChatsServeInOrder == Spec => []ServedInOrder
<1>1. Init => AllInOrder
  BY DEF Init, AllInOrder, OrderInv, KnownOK, WaitingOK, LineOK, ServedOK
<1>2. TypeOK /\ AllInOrder => ServedInOrder
  <2>. SUFFICES ASSUME TypeOK, AllInOrder, NEW c \in Internal,
                       NEW i \in DOMAIN accepted[c], NEW j \in 1..(i - 1),
                       stage[accepted[c][i]] \in InFlight \union {"done"}
                PROVE  stage[accepted[c][j]] \in {"done", "dropped"}
    BY DEF ServedInOrder
  <2>1. j \in DOMAIN accepted[c] /\ j < i
    BY AcceptedFacts DEF Internal
  <2>. QED  BY <2>1 DEF AllInOrder, OrderInv, ServedOK, Internal
<1>. QED  BY <1>1, <1>2, OrderStep, ChatInvariant, PTL DEF Spec
=============================================================================

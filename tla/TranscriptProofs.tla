-------------------------- MODULE TranscriptProofs --------------------------
(***************************************************************************)
(* That a page shows every message, tool call and usage of a session's log   *)
(* once and in order, and that a load gives an answer that was cut the words *)
(* that were streamed.  Folding frames into blocks adds to what the blocks   *)
(* say what the frame says, whatever else it does (ReduceAdds): so what is   *)
(* shown is what is in the frames, by induction on their number, and the     *)
(* trimming of a history keeps it.  For an answer that was cut, the blocks   *)
(* are followed through the frames of its turn.                              *)
(***************************************************************************)
EXTENDS Transcript, FiniteSetTheorems, SequenceTheorems, WellFoundedInduction, TLAPS

-----------------------------------------------------------------------------
(* Induction, on the numbers up to N: for a set instead of a formula.        *)
LEMMA UpTo ==
  ASSUME NEW N \in Nat, NEW T, 0 \in T, \A n \in 0..N : n \in T /\ n < N => n + 1 \in T
  PROVE  \A n \in 0..N : n \in T
<1>. DEFINE R == {ss \in Nat \X Nat : ss[1] < ss[2]}
            Left == {n \in 0..N : n \notin T}
<1>1. IsWellFoundedOn(R, Nat)
  BY NatLessThanWellFounded DEF OpToRel
<1>2. \A x, y \in Nat : x < y <=> <<x, y>> \in R
  OBVIOUS
<1>. HIDE DEF R
<1>3. SUFFICES ASSUME Left # {} PROVE FALSE
  OBVIOUS
<1>4. PICK m \in Left : \A n \in Left : ~ (<<n, m>> \in R)
  <2>1. Left \subseteq Nat
    OBVIOUS
  <2>. QED  BY <1>1, <1>3, <2>1, WFMin
<1>5. m \in Nat /\ m # 0 /\ m <= N /\ m \notin T
  OBVIOUS
<1>6. m - 1 \in 0..N /\ m - 1 < m /\ m - 1 < N /\ m - 1 \in Nat /\ (m - 1) + 1 = m
  BY <1>5
<1>7. m - 1 \notin T
  BY <1>5, <1>6
<1>8. m - 1 \in Left
  BY <1>6, <1>7
<1>. QED  BY <1>2, <1>4, <1>5, <1>6, <1>8

(* Some steps from b, one for every item of s.                               *)
IsRun(r, F, b, s, N) == r[0] = b /\ \A k \in 1..N : r[k] = F[<<r[k - 1], s[k]>>]
HasRun(X, F, b, s, N) == \E r \in [0..N -> X] : IsRun(r, F, b, s, N)

LEMMA RunExists ==
  ASSUME NEW X, NEW A, NEW F \in [X \X A -> X], NEW b \in X, NEW N \in Nat, NEW s \in [1..N -> A]
  PROVE  HasRun(X, F, b, s, N)
<1>. DEFINE T == {n \in 0..N : HasRun(X, F, b, s, n)}
<1>1. 0 \in T
  <2>. DEFINE h == [k \in 0..0 |-> b]
  <2>1. h \in [0..0 -> X] /\ h[0] = b /\ 1..0 = {}
    OBVIOUS
  <2>2. IsRun(h, F, b, s, 0)
    BY <2>1 DEF IsRun
  <2>. HIDE DEF h
  <2>3. HasRun(X, F, b, s, 0)
    BY <2>1, <2>2 DEF HasRun
  <2>. QED  BY <2>3
<1>2. ASSUME NEW n \in 0..N, n \in T, n < N PROVE n + 1 \in T
  <2>1. PICK g \in [0..n -> X] : IsRun(g, F, b, s, n)
    BY <1>2 DEF HasRun
  <2>. DEFINE m == n + 1
              h == [k \in 0..m |-> IF k = m THEN F[<<g[n], s[m]>>] ELSE g[k]]
  <2>2. m \in 1..N /\ n \in Nat /\ m = n + 1 /\ n \in 0..n /\ s[m] \in A /\ g[n] \in X
    BY <1>2
  <2>3. h \in [0..m -> X]
    BY <2>2
  <2>4. IsRun(h, F, b, s, m)
    <3>1. h[0] = b
      BY <2>1, <2>2 DEF IsRun
    <3>2. ASSUME NEW k \in 1..m PROVE h[k] = F[<<h[k - 1], s[k]>>]
      <4>1. CASE k = m
        <5>1. h[k] = F[<<g[n], s[k]>>] /\ k - 1 = n /\ n # m
          BY <2>2, <4>1
        <5>2. h[n] = g[n]
          BY <2>2, <5>1
        <5>. QED  BY <5>1, <5>2
      <4>2. CASE k # m
        <5>1. k \in 1..n /\ k - 1 \in 0..m /\ k \in 0..m /\ k - 1 # m
          BY <2>2, <4>2
        <5>2. h[k] = g[k] /\ h[k - 1] = g[k - 1]
          BY <4>2, <5>1
        <5>. QED  BY <2>1, <5>1, <5>2 DEF IsRun
      <4>. QED  BY <4>1, <4>2
    <3>. HIDE DEF h
    <3>. QED  BY <3>1, <3>2 DEF IsRun
  <2>. HIDE DEF h
  <2>5. m \in 0..N /\ HasRun(X, F, b, s, m)
    BY <2>2, <2>3, <2>4 DEF HasRun
  <2>. QED  BY <2>5 DEF m
<1>3. N \in T
  <2>. HIDE DEF T
  <2>1. \A n \in 0..N : n \in T /\ n < N => n + 1 \in T
    BY <1>2
  <2>2. \A n \in 0..N : n \in T
    BY <1>1, <2>1, UpTo
  <2>. QED  BY <2>2
<1>. QED  BY <1>3

-----------------------------------------------------------------------------
(* FlattenSeq, an item at a time.                                            *)
Joins(r, s, N) == r[0] = <<>> /\ \A k \in 1..N : r[k] = r[k - 1] \o s[k]

LEMMA JoinsUnique ==
  ASSUME NEW s, NEW N \in Nat, NEW g, NEW h, Joins(g, s, N), Joins(h, s, N)
  PROVE  \A k \in 0..N : g[k] = h[k]
<1>. DEFINE T == {k \in 0..N : g[k] = h[k]}
<1>1. 0 \in T
  BY DEF Joins
<1>2. ASSUME NEW k \in 0..N, k \in T, k < N PROVE k + 1 \in T
  <2>1. k + 1 \in 1..N /\ (k + 1) - 1 = k /\ k + 1 \in 0..N
    BY <1>2
  <2>2. g[k + 1] = g[k] \o s[k + 1] /\ h[k + 1] = h[k] \o s[k + 1] /\ g[k] = h[k]
    BY <1>2, <2>1 DEF Joins
  <2>. QED  BY <2>1, <2>2
<1>3. \A k \in 0..N : k \in T /\ k < N => k + 1 \in T
  BY <1>2
<1>4. \A k \in 0..N : k \in T
  <2>. HIDE DEF T
  <2>. QED  BY <1>1, <1>3, UpTo
<1>. QED  BY <1>4

HasJoin(T, s) == \E r \in [0..Len(s) -> Seq(T)] : Joins(r, s, Len(s)) /\ FlattenSeq(s) = r[Len(s)]

LEMMA FlattenJoins ==
  ASSUME NEW T, NEW s \in Seq(Seq(T))
  PROVE  HasJoin(T, s)
<1>. DEFINE N == Len(s)
            X == Seq(T)
            F == [p \in X \X X |-> p[1] \o p[2]]
            After(g) == [i \in 1..Len(s) |-> IF i = 1 THEN s[i] ELSE g[i-1] \o s[i]]
            g == CHOOSE g : g = After(g)
<1>1. N \in Nat /\ s \in [1..N -> X] /\ <<>> \in X
  OBVIOUS
<1>2. F \in [X \X X -> X]
  OBVIOUS
<1>3. PICK h \in [0..N -> X] : IsRun(h, F, <<>>, s, N)
  <2>. DEFINE none == <<>>
  <2>1. none \in X
    BY <1>1
  <2>. HIDE DEF F, X, none, N
  <2>2. HasRun(X, F, none, s, N)
    BY <1>1, <1>2, <2>1, RunExists
  <2>. QED  BY <2>2 DEF none, HasRun
<1>4. Joins(h, s, N)
  <2>1. ASSUME NEW k \in 1..N PROVE h[k] = h[k - 1] \o s[k]
    <3>1. k - 1 \in 0..N
      BY <1>1
    <3>2. h[k - 1] \in X /\ s[k] \in X
      <4>. HIDE DEF X, N
      <4>. QED  BY <1>1, <1>3, <3>1
    <3>3. h[k] = F[<<h[k - 1], s[k]>>]
      BY <1>3 DEF IsRun
    <3>. HIDE DEF X, N
    <3>. QED  BY <3>2, <3>3
  <2>2. h[0] = <<>>
    BY <1>3 DEF IsRun
  <2>. QED  BY <2>1, <2>2 DEF Joins
<1>5. CASE N = 0
  <2>1. s = <<>> /\ FlattenSeq(s) = <<>>
    BY <1>5 DEF FlattenSeq
  <2>2. FlattenSeq(s) = h[N]
    BY <1>4, <1>5, <2>1 DEF Joins
  <2>. HIDE DEF X
  <2>. QED  BY <1>3, <1>4, <2>2 DEF HasJoin, X
<1>6. CASE N # 0
  <2>. DEFINE f == [i \in 1..Len(s) |-> h[i]]
  <2>1. f = After(f)
    <3>1. ASSUME NEW i \in 1..N PROVE h[i] = IF i = 1 THEN s[i] ELSE f[i-1] \o s[i]
      <4>1. h[i] = h[i - 1] \o s[i]
        BY <1>4 DEF Joins
      <4>2. CASE i = 1
        <5>1. i - 1 = 0 /\ h[0] = <<>> /\ s[i] \in Seq(T)
          BY <1>1, <1>4, <4>2 DEF Joins
        <5>2. <<>> \o s[i] = s[i]
          BY <5>1
        <5>. QED  BY <4>1, <4>2, <5>1, <5>2
      <4>3. CASE i # 1
        <5>1. i - 1 \in 1..N
          BY <1>1, <4>3
        <5>. QED  BY <4>1, <4>3, <5>1
      <4>. QED  BY <4>2, <4>3
    <3>. QED  BY <3>1
  <2>2. g = After(g)
    BY <2>1
  <2>3. FlattenSeq(s) = g[N]
    BY <1>6 DEF FlattenSeq
  <2>. HIDE DEF g
  <2>. DEFINE r == [k \in 0..N |-> IF k = 0 THEN <<>> ELSE g[k]]
  <2>4. Joins(r, s, N)
    <3>1. ASSUME NEW k \in 1..N PROVE r[k] = r[k - 1] \o s[k]
      <4>1. g[k] = IF k = 1 THEN s[k] ELSE g[k-1] \o s[k]
        BY <2>2
      <4>2. r[k] = g[k] /\ k - 1 \in 0..N
        BY <1>1
      <4>3. CASE k = 1
        <5>1. r[k - 1] = <<>> /\ s[k] \in Seq(T)
          BY <1>1, <4>2, <4>3
        <5>. QED  BY <4>1, <4>2, <4>3, <5>1
      <4>4. CASE k # 1
        <5>1. r[k - 1] = g[k - 1]
          BY <1>1, <4>2, <4>4
        <5>. QED  BY <4>1, <4>2, <4>4, <5>1
      <4>. QED  BY <4>3, <4>4
    <3>. QED  BY <3>1 DEF Joins
  <2>5. r[N] = h[N] /\ r[N] = g[N]
    <3>1. N \in 0..N /\ r[N] = g[N]
      BY <1>1, <1>6
    <3>. HIDE DEF r, N
    <3>. QED  BY <1>1, <1>4, <2>4, <3>1, JoinsUnique
  <2>. HIDE DEF X
  <2>. QED  BY <1>3, <1>4, <2>3, <2>5 DEF HasJoin, X
<1>. QED  BY <1>5, <1>6

LEMMA FlattenOf ==
  ASSUME NEW T, NEW s \in Seq(Seq(T)), NEW r, Joins(r, s, Len(s))
  PROVE  FlattenSeq(s) = r[Len(s)] /\ FlattenSeq(s) \in Seq(T)
<1>1. PICK q \in [0..Len(s) -> Seq(T)] : Joins(q, s, Len(s)) /\ FlattenSeq(s) = q[Len(s)]
  BY FlattenJoins DEF HasJoin
<1>2. Len(s) \in Nat /\ Len(s) \in 0..Len(s)
  OBVIOUS
<1>3. r[Len(s)] = q[Len(s)]
  BY <1>1, <1>2, JoinsUnique
<1>. QED  BY <1>1, <1>2, <1>3

LEMMA FlattenAppend ==
  ASSUME NEW T, NEW s \in Seq(Seq(T)), NEW e \in Seq(T)
  PROVE  FlattenSeq(Append(s, e)) = FlattenSeq(s) \o e
<1>. DEFINE N == Len(s)  t == Append(s, e)
<1>1. N \in Nat /\ t \in Seq(Seq(T)) /\ Len(t) = N + 1 /\ t[N + 1] = e /\ \A k \in 1..N : t[k] = s[k]
  OBVIOUS
<1>. HIDE DEF N, t
<1>2. PICK q \in [0..Len(t) -> Seq(T)] : Joins(q, t, Len(t)) /\ FlattenSeq(t) = q[Len(t)]
  BY <1>1, FlattenJoins DEF HasJoin
<1>3. Joins(q, s, N)
  <2>1. ASSUME NEW k \in 1..N PROVE q[k] = q[k - 1] \o s[k]
    <3>1. k \in 1..Len(t) /\ t[k] = s[k]
      BY <1>1
    <3>. QED  BY <1>2, <3>1 DEF Joins
  <2>2. q[0] = <<>>
    BY <1>2 DEF Joins
  <2>. QED  BY <2>1, <2>2 DEF Joins
<1>4. FlattenSeq(s) = q[N]
  BY <1>3, FlattenOf DEF N
<1>5. q[N + 1] = q[N] \o e
  <2>1. N + 1 \in 1..Len(t) /\ (N + 1) - 1 = N
    BY <1>1
  <2>2. q[N + 1] = q[(N + 1) - 1] \o t[N + 1]
    BY <1>2, <2>1 DEF Joins
  <2>. QED  BY <1>1, <2>1, <2>2
<1>. QED  BY <1>1, <1>2, <1>4, <1>5 DEF t

(* Nothing but empty sequences makes an empty one.                           *)
LEMMA FlattenEmpty ==
  ASSUME NEW T, NEW s \in Seq(Seq(T)), \A i \in DOMAIN s : s[i] = <<>>
  PROVE  FlattenSeq(s) = <<>>
<1>. DEFINE N == Len(s)  r == [k \in 0..N |-> <<>>]
<1>1. N \in Nat /\ N \in 0..N /\ \A k \in 1..N : s[k] = <<>>
  OBVIOUS
<1>2. Joins(r, s, N)
  <2>1. ASSUME NEW k \in 1..N PROVE r[k] = r[k - 1] \o s[k]
    <3>1. r[k] = <<>> /\ r[k - 1] = <<>> /\ s[k] = <<>>
      BY <1>1
    <3>2. <<>> \o <<>> = <<>>
      OBVIOUS
    <3>. QED  BY <3>1, <3>2
  <2>2. r[0] = <<>>
    BY <1>1
  <2>. QED  BY <2>1, <2>2 DEF Joins
<1>3. r[N] = <<>>
  BY <1>1
<1>. HIDE DEF r
<1>4. FlattenSeq(s) = r[N]
  BY <1>2, FlattenOf DEF N
<1>. QED  BY <1>3, <1>4

-----------------------------------------------------------------------------
(* Events, frames and blocks.                                                *)
Words == Seq(Nat)
Notes == {"", "open", "plain", "wrapped", "text-delta", "reasoning-delta", "unknown", "counted",
          "completed", "aborted"}
Types == {"user/message", "turn/start", "assistant/chunk", "assistant/message", "tool/call",
          "tool/result", "session/other", "turn/end"}
Kinds == {"none", "user", "turn_start", "chunk", "message", "tool_call", "tool_result", "turn_end"}
EventLike == [type : Types, words : Words, note : Notes]
FrameLike == [kind : Kinds, seq : Nat, words : Words, note : Notes]
Tool == [call : Words, done : BOOLEAN]
Answer == [role : {"agent"}, text : Words, streamed : Words, tools : Seq(Tool),
           usage : Seq(Notes), reason : Notes]
Question == [role : {"user"}, text : Words, injected : BOOLEAN]
Block == Answer \union Question
Blocks == Seq(Block)

(* What blocks, or frames, say together, with g what each of them says.      *)
SumOf(g, list) == FlattenSeq([i \in DOMAIN list |-> g[list[i]]])

LEMMA SumParts ==
  ASSUME NEW T, NEW B, NEW g \in [B -> Seq(T)], NEW list \in Seq(B)
  PROVE  /\ [i \in DOMAIN list |-> g[list[i]]] \in Seq(Seq(T))
         /\ SumOf(g, list) \in Seq(T)
<1>1. [i \in DOMAIN list |-> g[list[i]]] \in Seq(Seq(T))
  <2>. DEFINE X == Seq(T)
  <2>1. Len(list) \in Nat /\ DOMAIN list = 1..Len(list) /\ \A i \in 1..Len(list) : list[i] \in B
    OBVIOUS
  <2>2. \A i \in 1..Len(list) : g[list[i]] \in X
    BY <2>1
  <2>. HIDE DEF X
  <2>3. [i \in 1..Len(list) |-> g[list[i]]] \in Seq(X)
    BY <2>1, <2>2
  <2>. QED  BY <2>1, <2>3 DEF X
<1>2. \A s \in Seq(Seq(T)) : FlattenSeq(s) \in Seq(T)
  <2>. SUFFICES ASSUME NEW s \in Seq(Seq(T)) PROVE FlattenSeq(s) \in Seq(T)
    OBVIOUS
  <2>1. PICK r \in [0..Len(s) -> Seq(T)] : Joins(r, s, Len(s)) /\ FlattenSeq(s) = r[Len(s)]
    BY FlattenJoins DEF HasJoin
  <2>2. Len(s) \in 0..Len(s)
    OBVIOUS
  <2>. QED  BY <2>1, <2>2
<1>. QED  BY <1>1, <1>2 DEF SumOf

LEMMA SumAppend ==
  ASSUME NEW T, NEW B, NEW g \in [B -> Seq(T)], NEW list \in Seq(B), NEW b \in B
  PROVE  SumOf(g, Append(list, b)) = SumOf(g, list) \o g[b]
<1>. DEFINE s == [i \in DOMAIN list |-> g[list[i]]]
            t == [i \in DOMAIN Append(list, b) |-> g[Append(list, b)[i]]]
<1>1. s \in Seq(Seq(T)) /\ g[b] \in Seq(T)
  OBVIOUS
<1>2. t = Append(s, g[b])
  <2>. DEFINE n == Len(list)  X == Seq(T)  u == Append(list, b)  v == Append(s, g[b])
  <2>1. n \in Nat /\ DOMAIN list = 1..n /\ u \in Seq(B) /\ Len(u) = n + 1 /\ u[n + 1] = b
        /\ \A i \in 1..n : u[i] = list[i]
    BY AppendProperties
  <2>2. s \in Seq(X) /\ g[b] \in X /\ Len(s) = n /\ \A i \in 1..n : s[i] = g[list[i]]
    BY <1>1, <2>1
  <2>3. v \in Seq(X) /\ Len(v) = n + 1 /\ v[n + 1] = g[b] /\ \A i \in 1..n : v[i] = s[i]
    <3>. HIDE DEF X, s, n
    <3>. QED  BY <2>2, AppendProperties
  <2>4. t = [i \in 1..(n + 1) |-> g[u[i]]]
    BY <2>1
  <2>. HIDE DEF n, X, u, v, s, t
  <2>5. \A i \in 1..(n + 1) : g[u[i]] = v[i]
    <3>. SUFFICES ASSUME NEW i \in 1..(n + 1) PROVE g[u[i]] = v[i]
      OBVIOUS
    <3>1. CASE i = n + 1
      BY <2>1, <2>3, <3>1
    <3>2. CASE i # n + 1
      <4>1. i \in 1..n
        BY <2>1, <3>2
      <4>. QED  BY <2>1, <2>2, <2>3, <4>1
    <3>. QED  BY <3>1, <3>2
  <2>6. v = [i \in 1..(n + 1) |-> v[i]]
    BY <2>1, <2>3
  <2>7. t = v
    BY <2>4, <2>5, <2>6
  <2>. QED  BY <2>7 DEF v
<1>3. FlattenSeq(Append(s, g[b])) = FlattenSeq(s) \o g[b]
  <2>. HIDE DEF s
  <2>. QED  BY <1>1, FlattenAppend
<1>. HIDE DEF s, t
<1>. QED  BY <1>2, <1>3 DEF SumOf, s, t

LEMMA FrontAndLast ==
  ASSUME NEW B, NEW list \in Seq(B), list # <<>>
  PROVE  /\ Front(list) \in Seq(B) /\ Len(Front(list)) = Len(list) - 1 /\ Last(list) \in B
         /\ list = Append(Front(list), Last(list))
         /\ Len(list) \in Nat \ {0} /\ Last(list) = list[Len(list)]
         /\ \A i \in 1..(Len(list) - 1) : Front(list)[i] = list[i]
<1>. DEFINE n == Len(list)
<1>1. n \in Nat \ {0} /\ list \in [1..n -> B]
  OBVIOUS
<1>2. Last(list) = list[n] /\ Last(list) \in B
  BY <1>1 DEF Last
<1>3. Front(list) = [i \in 1..(n - 1) |-> list[i]]
  BY <1>1 DEF Front
<1>4. Front(list) \in Seq(B) /\ Len(Front(list)) = n - 1
  BY <1>1, <1>3
<1>5. \A i \in 1..(n - 1) : Front(list)[i] = list[i]
  BY <1>3
<1>6. list = Append(Front(list), Last(list))
  <2>. DEFINE a == Append(Front(list), Last(list))
  <2>1. a \in Seq(B) /\ Len(a) = n /\ a[n] = list[n] /\ \A i \in 1..(n - 1) : a[i] = list[i]
    <3>. DEFINE f == Front(list)  l == Last(list)
    <3>1. f \in Seq(B) /\ l \in B /\ Len(f) = n - 1 /\ l = list[n] /\ \A i \in 1..(n - 1) : f[i] = list[i]
      BY <1>2, <1>4, <1>5
    <3>. HIDE DEF f, l
    <3>2. /\ Append(f, l) \in Seq(B) /\ Len(Append(f, l)) = Len(f) + 1 /\ Append(f, l)[Len(f) + 1] = l
          /\ \A i \in 1..Len(f) : Append(f, l)[i] = f[i]
      BY ONLY <3>1, AppendProperties
    <3>3. (n - 1) + 1 = n
      BY <1>1
    <3>4. Append(f, l) \in Seq(B) /\ Len(Append(f, l)) = n /\ Append(f, l)[n] = list[n]
          /\ \A i \in 1..(n - 1) : Append(f, l)[i] = list[i]
      <4>. HIDE DEF n
      <4>. QED  BY <3>1, <3>2, <3>3
    <3>. QED  BY <3>4 DEF f, l
  <2>2. \A i \in 1..n : a[i] = list[i]
    BY <1>1, <2>1
  <2>. HIDE DEF a
  <2>3. a = list
    BY <1>1, <2>1, <2>2
  <2>. QED  BY <2>3 DEF a
<1>. QED  BY <1>1, <1>2, <1>4, <1>5, <1>6

Weighs(g, B, T) == g \in [B -> Seq(T)]
Parted(T, g, list) == [i \in DOMAIN list |-> g[list[i]]] \in Seq(Seq(T)) /\ SumOf(g, list) \in Seq(T)

LEMMA PartsTyped ==
  ASSUME NEW T, NEW B, NEW g, Weighs(g, B, T), NEW list \in Seq(B)
  PROVE  Parted(T, g, list)
<1>1. g \in [B -> Seq(T)]
  BY DEF Weighs
<1>. QED  BY <1>1, SumParts DEF Parted

Regroups(x, y, z) == (x \o y) \o z = x \o (y \o z)

LEMMA Regrouped ==
  ASSUME NEW T, NEW x, NEW y, NEW z, x \in Seq(T), y \in Seq(T), z \in Seq(T)
  PROVE  Regroups(x, y, z)
BY ConcatAssociative DEF Regroups

Sums(B, g) == \A list \in Seq(B), b \in B : SumOf(g, Append(list, b)) = SumOf(g, list) \o g[b]

LEMMA SumsOf ==
  ASSUME NEW T, NEW B, NEW g, Weighs(g, B, T)
  PROVE  Sums(B, g)
<1>1. g \in [B -> Seq(T)]
  BY DEF Weighs
<1>. SUFFICES ASSUME NEW list \in Seq(B), NEW b \in B
              PROVE  SumOf(g, Append(list, b)) = SumOf(g, list) \o g[b]
  BY DEF Sums
<1>. QED  BY <1>1, SumAppend

Grows(T, B, g, list, b, more) == SumOf(g, WithLast(list, b)) = SumOf(g, list) \o more

(* A block that says more at the end of a list makes the list say more.      *)
LEMMA SumWithLast ==
  ASSUME NEW T, NEW B, NEW g, Weighs(g, B, T), NEW list \in Seq(B), list # <<>>, NEW b \in B,
         NEW more \in Seq(T), g[b] = g[Last(list)] \o more
  PROVE  Grows(T, B, g, list, b, more)
<1>0. g \in [B -> Seq(T)]
  BY DEF Weighs
<1>1. Front(list) \in Seq(B) /\ Last(list) \in B /\ list = Append(Front(list), Last(list))
  BY FrontAndLast
<1>. DEFINE f == Front(list)  l == Last(list)
<1>2. f \in Seq(B) /\ l \in B /\ list = Append(f, l) /\ WithLast(list, b) = Append(f, b)
  BY <1>1 DEF WithLast
<1>3. g[b] = g[l] \o more /\ g[l] \in Seq(T)
  BY <1>0, <1>2
<1>. HIDE DEF f, l
<1>4. SumOf(g, Append(f, l)) = SumOf(g, f) \o g[l] /\ SumOf(g, Append(f, b)) = SumOf(g, f) \o g[b]
  <2>1. Sums(B, g)
    BY SumsOf
  <2>. QED  BY <1>2, <2>1 DEF Sums
<1>5. SumOf(g, f) \in Seq(T)
  BY <1>0, <1>2, SumParts
<1>. DEFINE x == SumOf(g, f)  y == g[l]
<1>6. x \in Seq(T) /\ y \in Seq(T) /\ SumOf(g, list) = x \o y /\ SumOf(g, Append(f, b)) = x \o (y \o more)
  BY <1>2, <1>3, <1>4, <1>5
<1>. HIDE DEF x, y
<1>7. Regroups(x, y, more)
  BY <1>6, Regrouped
<1>. QED  BY <1>2, <1>6, <1>7 DEF Regroups, Grows

LEMMA FlattenTyped ==
  ASSUME NEW T, NEW s \in Seq(Seq(T))
  PROVE  FlattenSeq(s) \in Seq(T)
<1>1. PICK r \in [0..Len(s) -> Seq(T)] : Joins(r, s, Len(s)) /\ FlattenSeq(s) = r[Len(s)]
  BY FlattenJoins DEF HasJoin
<1>2. Len(s) \in 0..Len(s)
  OBVIOUS
<1>. QED  BY <1>1, <1>2

-----------------------------------------------------------------------------
(* What blocks and frames say.                                               *)
TextWeight == [b \in Block |-> TextOf(b)]
CallWeight == [b \in Block |-> CallsOf(b)]
CostWeight == [b \in Block |-> CostOf(b)]

SaidIn == [f \in FrameLike |-> IF f.kind = "message" THEN f.words ELSE <<>>]
CalledIn == [f \in FrameLike |-> IF f.kind = "tool_call" THEN f.words ELSE <<>>]
CountedIn == [f \in FrameLike |-> IF f.kind = "message" THEN <<f.note>> ELSE <<>>]

CallOf == [t \in Tool |-> t.call]

LEMMA CallsAre ==
  ASSUME NEW b \in Answer
  PROVE  CallsOf(b) = FlattenSeq([n \in DOMAIN b.tools |-> b.tools[n].call]) /\ CallsOf(b) \in Seq(Nat)
<1>1. b.role = "agent" /\ b.tools \in Seq(Tool)
  BY DEF Answer
<1>2. CallsOf(b) = FlattenSeq([n \in DOMAIN b.tools |-> b.tools[n].call])
  BY <1>1 DEF CallsOf
<1>. DEFINE N == Len(b.tools)  s == [n \in 1..N |-> b.tools[n].call]
<1>3. N \in Nat /\ DOMAIN b.tools = 1..N /\ \A n \in 1..N : b.tools[n].call \in Words
  <2>. DEFINE tools == b.tools
  <2>1. tools \in Seq(Tool)
    BY <1>1
  <2>. HIDE DEF tools
  <2>2. Len(tools) \in Nat /\ DOMAIN tools = 1..Len(tools) /\ \A n \in 1..Len(tools) : tools[n] \in Tool
    BY <2>1
  <2>3. \A t \in Tool : t.call \in Words
    BY DEF Tool
  <2>. QED  BY <2>2, <2>3 DEF tools
<1>4. s \in Seq(Words)
  <2>. HIDE DEF N
  <2>. QED  BY <1>3
<1>5. CallsOf(b) = FlattenSeq(s)
  BY <1>2, <1>3
<1>6. FlattenSeq(s) \in Seq(Nat)
  <2>. HIDE DEF s
  <2>. QED  BY <1>4, FlattenTyped DEF Words
<1>. QED  BY <1>2, <1>5, <1>6

LEMMA WeightsTyped ==
  /\ Weighs(TextWeight, Block, Nat) /\ Weighs(CallWeight, Block, Nat) /\ Weighs(CostWeight, Block, Notes)
  /\ Weighs(SaidIn, FrameLike, Nat) /\ Weighs(CalledIn, FrameLike, Nat)
  /\ Weighs(CountedIn, FrameLike, Notes)
<1>1. ASSUME NEW b \in Block
      PROVE  TextOf(b) \in Seq(Nat) /\ CallsOf(b) \in Seq(Nat) /\ CostOf(b) \in Seq(Notes)
  <2>1. CASE b \in Answer
    <3>1. b.role = "agent" /\ b.text \in Seq(Nat) /\ b.usage \in Seq(Notes)
      BY <2>1 DEF Answer, Words
    <3>. QED  BY <2>1, <3>1, CallsAre DEF TextOf, CostOf
  <2>2. CASE b \in Question
    <3>1. b.role # "agent"
      BY <2>2 DEF Question
    <3>. QED  BY <3>1 DEF TextOf, CallsOf, CostOf
  <2>. QED  BY <2>1, <2>2 DEF Block
<1>2. ASSUME NEW f \in FrameLike
      PROVE  /\ (IF f.kind = "message" THEN f.words ELSE <<>>) \in Seq(Nat)
             /\ (IF f.kind = "tool_call" THEN f.words ELSE <<>>) \in Seq(Nat)
             /\ (IF f.kind = "message" THEN <<f.note>> ELSE <<>>) \in Seq(Notes)
  <2>1. f.words \in Seq(Nat) /\ f.note \in Notes
    BY DEF FrameLike, Words
  <2>2. <<>> \in Seq(Nat) /\ <<>> \in Seq(Notes)
    OBVIOUS
  <2>3. <<f.note>> \in Seq(Notes)
    BY <2>1
  <2>. QED  BY <2>1, <2>2, <2>3
<1>3. Weighs(TextWeight, Block, Nat) /\ Weighs(CallWeight, Block, Nat) /\ Weighs(CostWeight, Block, Notes)
  BY <1>1 DEF Weighs, TextWeight, CallWeight, CostWeight
<1>4. Weighs(SaidIn, FrameLike, Nat) /\ Weighs(CalledIn, FrameLike, Nat) /\ Weighs(CountedIn, FrameLike, Notes)
  BY <1>2 DEF Weighs, SaidIn, CalledIn, CountedIn
<1>. QED  BY <1>3, <1>4

(* A result changes no call.                                                 *)
LEMMA ResolvedIs ==
  ASSUME NEW tools \in Seq(Tool), NEW seq
  PROVE  /\ Resolved(tools, seq) \in Seq(Tool) /\ DOMAIN Resolved(tools, seq) = DOMAIN tools
         /\ \A n \in DOMAIN tools : Resolved(tools, seq)[n].call = tools[n].call
<1>. DEFINE open == {i \in DOMAIN tools : ~tools[i].done}
            c == CHOOSE i \in open : \A j \in open : j <= i
<1>1. CASE open = {}
  BY <1>1 DEF Resolved
<1>2. CASE open # {}
  <2>. DEFINE r == [tools EXCEPT ![c] = [@ EXCEPT !.done = TRUE]]
  <2>1. Resolved(tools, seq) = r
    BY <1>2 DEF Resolved
  <2>. HIDE DEF c
  <2>2. \A n \in DOMAIN tools : tools[n] \in Tool
    OBVIOUS
  <2>3. \A n \in DOMAIN tools : r[n] \in Tool /\ r[n].call = tools[n].call
    BY <2>2 DEF Tool
  <2>4. r \in Seq(Tool) /\ DOMAIN r = DOMAIN tools
    <3>1. Len(tools) \in Nat /\ DOMAIN tools = 1..Len(tools) /\ DOMAIN r = DOMAIN tools
      OBVIOUS
    <3>2. r = [n \in 1..Len(tools) |-> r[n]]
      BY <3>1
    <3>. HIDE DEF r
    <3>3. [n \in 1..Len(tools) |-> r[n]] \in Seq(Tool)
      BY <2>3, <3>1
    <3>. QED  BY <3>1, <3>2, <3>3
  <2>. HIDE DEF r
  <2>. QED  BY <2>1, <2>3, <2>4
<1>. QED  BY <1>1, <1>2

(* A frame of an answer changes its block by what the frame says.            *)
BlockSays(b, c, f) ==
  /\ TextWeight[c] = TextWeight[b] \o SaidIn[f]
  /\ CallWeight[c] = CallWeight[b] \o CalledIn[f]
  /\ CostWeight[c] = CostWeight[b] \o CountedIn[f]

LEMMA BlockAdds ==
  ASSUME NEW b \in Answer, NEW f \in FrameLike, f.kind \in AnswerKinds
  PROVE  AfterFrame(b, f) \in Answer /\ BlockSays(b, AfterFrame(b, f), f)
<1>. DEFINE c == AfterFrame(b, f)
<1>1. /\ b.role = "agent" /\ b.text \in Seq(Nat) /\ b.streamed \in Seq(Nat) /\ b.tools \in Seq(Tool)
      /\ b.usage \in Seq(Notes) /\ f.words \in Seq(Nat) /\ f.note \in Notes
      /\ b = [role |-> "agent", text |-> b.text, streamed |-> b.streamed, tools |-> b.tools,
              usage |-> b.usage, reason |-> b.reason] /\ b.reason \in Notes
  BY DEF Answer, FrameLike, Words
<1>2. b \in Block /\ (c \in Answer => c \in Block)
  BY DEF Block
<1>3. \A a \in Answer : TextWeight[a] = a.text /\ CallWeight[a] = CallsOf(a) /\ CostWeight[a] = a.usage
  BY DEF TextWeight, CallWeight, CostWeight, TextOf, CostOf, Answer, Block
<1>4. SUFFICES c \in Answer /\ c.text = b.text \o SaidIn[f] /\ CallsOf(c) = CallsOf(b) \o CalledIn[f]
               /\ c.usage = b.usage \o CountedIn[f]
  <2>. HIDE DEF c
  <2>1. TextWeight[c] = TextWeight[b] \o SaidIn[f] /\ CallWeight[c] = CallWeight[b] \o CalledIn[f]
        /\ CostWeight[c] = CostWeight[b] \o CountedIn[f]
    BY <1>3, <1>4
  <2>. QED  BY <1>4, <2>1 DEF BlockSays, c
<1>5. /\ \A x \in Seq(Nat) : x \o <<>> = x
      /\ \A x \in Seq(Notes) : x \o <<>> = x
  BY ConcatEmptySeq
<1>6. CallsOf(b) \in Seq(Nat) /\ CallsOf(b) = FlattenSeq([n \in DOMAIN b.tools |-> b.tools[n].call])
  BY CallsAre
<1>7. CASE f.kind = "chunk"
  <2>1. SaidIn[f] = <<>> /\ CalledIn[f] = <<>> /\ CountedIn[f] = <<>>
    BY <1>7 DEF SaidIn, CalledIn, CountedIn
  <2>2. c = IF f.note = "text-delta" THEN [b EXCEPT !.streamed = @ \o f.words] ELSE b
    BY <1>7 DEF AfterFrame
  <2>3. b.streamed \o f.words \in Seq(Nat)
    BY <1>1
  <2>4. c \in Answer /\ c.text = b.text /\ c.tools = b.tools /\ c.usage = b.usage
    BY <1>1, <2>2, <2>3 DEF Answer, Words
  <2>5. CallsOf(c) = CallsOf(b)
    <3>. HIDE DEF c
    <3>. QED  BY <1>6, <2>4, CallsAre
  <2>. HIDE DEF c
  <2>. QED  BY <1>1, <1>5, <1>6, <2>1, <2>4, <2>5
<1>8. CASE f.kind = "message"
  <2>1. SaidIn[f] = f.words /\ CalledIn[f] = <<>> /\ CountedIn[f] = <<f.note>>
    BY <1>8 DEF SaidIn, CalledIn, CountedIn
  <2>2. c = [b EXCEPT !.text = @ \o f.words, !.streamed = <<>>, !.usage = Append(@, f.note)]
    BY <1>8 DEF AfterFrame
  <2>3. b.text \o f.words \in Seq(Nat) /\ Append(b.usage, f.note) \in Seq(Notes) /\ <<>> \in Seq(Nat)
    BY <1>1
  <2>4. c \in Answer /\ c.text = b.text \o f.words /\ c.tools = b.tools /\ c.usage = Append(b.usage, f.note)
    BY <1>1, <2>2, <2>3 DEF Answer, Words
  <2>5. CallsOf(c) = CallsOf(b)
    <3>. HIDE DEF c
    <3>. QED  BY <1>6, <2>4, CallsAre
  <2>6. Append(b.usage, f.note) = b.usage \o <<f.note>>
    BY <1>1, AppendIsConcat
  <2>. HIDE DEF c
  <2>. QED  BY <1>1, <1>5, <1>6, <2>1, <2>4, <2>5, <2>6
<1>9. CASE f.kind = "tool_call"
  <2>. DEFINE call == [call |-> f.words, done |-> FALSE]
  <2>1. SaidIn[f] = <<>> /\ CalledIn[f] = f.words /\ CountedIn[f] = <<>>
    BY <1>9 DEF SaidIn, CalledIn, CountedIn
  <2>2. c = [b EXCEPT !.tools = Append(@, call)]
    BY <1>9 DEF AfterFrame
  <2>3. call \in Tool /\ call.call = f.words
    BY <1>1 DEF Tool, Words
  <2>4. Append(b.tools, call) \in Seq(Tool)
    <3>. HIDE DEF call
    <3>. QED  BY <1>1, <2>3
  <2>5. c \in Answer /\ c.text = b.text /\ c.tools = Append(b.tools, call) /\ c.usage = b.usage
    <3>. HIDE DEF call
    <3>. QED  BY <1>1, <2>2, <2>4 DEF Answer, Words
  <2>6. CallsOf(c) = SumOf(CallOf, c.tools) /\ CallsOf(b) = SumOf(CallOf, b.tools)
    <3>1. \A a \in Answer : CallsOf(a) = SumOf(CallOf, a.tools)
      <4>. SUFFICES ASSUME NEW a \in Answer PROVE CallsOf(a) = SumOf(CallOf, a.tools)
        OBVIOUS
      <4>1. CallsOf(a) = FlattenSeq([n \in DOMAIN a.tools |-> a.tools[n].call])
        BY CallsAre
      <4>2. a.tools \in Seq(Tool)
        BY DEF Answer
      <4>3. \A n \in DOMAIN a.tools : CallOf[a.tools[n]] = a.tools[n].call
        BY <4>2 DEF CallOf
      <4>4. [n \in DOMAIN a.tools |-> a.tools[n].call] = [n \in DOMAIN a.tools |-> CallOf[a.tools[n]]]
        BY <4>3
      <4>. QED  BY <4>1, <4>4 DEF SumOf
    <3>. HIDE DEF c
    <3>. QED  BY <2>5, <3>1
  <2>7. SumOf(CallOf, Append(b.tools, call)) = SumOf(CallOf, b.tools) \o f.words
    <3>. DEFINE tools == b.tools
    <3>1. Weighs(CallOf, Tool, Nat)
      BY DEF Weighs, CallOf, Tool, Words
    <3>2. Sums(Tool, CallOf)
      BY ONLY <3>1, SumsOf
    <3>3. tools \in Seq(Tool) /\ CallOf[call] = f.words
      BY <1>1, <2>3 DEF CallOf
    <3>. HIDE DEF call, tools
    <3>4. SumOf(CallOf, Append(tools, call)) = SumOf(CallOf, tools) \o f.words
      BY <2>3, <3>2, <3>3 DEF Sums
    <3>. QED  BY <3>4 DEF tools
  <2>. HIDE DEF c, call
  <2>. QED  BY <1>1, <1>5, <1>6, <2>1, <2>5, <2>6, <2>7
<1>10. CASE f.kind = "tool_result"
  <2>1. SaidIn[f] = <<>> /\ CalledIn[f] = <<>> /\ CountedIn[f] = <<>>
    BY <1>10 DEF SaidIn, CalledIn, CountedIn
  <2>. DEFINE r == Resolved(b.tools, f.seq)
  <2>2. c = [b EXCEPT !.tools = r]
    BY <1>10 DEF AfterFrame
  <2>3. r \in Seq(Tool) /\ DOMAIN r = DOMAIN b.tools /\ \A n \in DOMAIN b.tools : r[n].call = b.tools[n].call
    BY <1>1, ResolvedIs
  <2>. HIDE DEF r
  <2>4. c \in Answer /\ c.text = b.text /\ c.tools = r /\ c.usage = b.usage
    BY <1>1, <2>2, <2>3 DEF Answer, Words
  <2>5. CallsOf(c) = CallsOf(b)
    <3>. HIDE DEF c
    <3>1. CallsOf(c) = FlattenSeq([n \in DOMAIN c.tools |-> c.tools[n].call])
      BY <2>4, CallsAre
    <3>2. [n \in DOMAIN c.tools |-> c.tools[n].call] = [n \in DOMAIN b.tools |-> b.tools[n].call]
      BY <2>3, <2>4
    <3>. QED  BY <1>6, <3>1, <3>2
  <2>. HIDE DEF c
  <2>. QED  BY <1>1, <1>5, <1>6, <2>1, <2>4, <2>5
<1>11. CASE f.kind = "turn_end"
  <2>1. SaidIn[f] = <<>> /\ CalledIn[f] = <<>> /\ CountedIn[f] = <<>>
    BY <1>11 DEF SaidIn, CalledIn, CountedIn
  <2>2. c = [b EXCEPT !.reason = f.note]
    BY <1>11 DEF AfterFrame
  <2>4. c \in Answer /\ c.text = b.text /\ c.tools = b.tools /\ c.usage = b.usage
    BY <1>1, <2>2 DEF Answer, Words
  <2>5. CallsOf(c) = CallsOf(b)
    <3>. HIDE DEF c
    <3>. QED  BY <1>6, <2>4, CallsAre
  <2>. HIDE DEF c
  <2>. QED  BY <1>1, <1>5, <1>6, <2>1, <2>4, <2>5
<1>. QED  BY <1>7, <1>8, <1>9, <1>10, <1>11 DEF AnswerKinds

LEMMA OpenedIs ==
  ASSUME NEW list \in Blocks
  PROVE  /\ Opened(list) \in Blocks /\ Opened(list) # <<>> /\ Last(Opened(list)) \in Answer
         /\ SumOf(TextWeight, Opened(list)) = SumOf(TextWeight, list)
         /\ SumOf(CallWeight, Opened(list)) = SumOf(CallWeight, list)
         /\ SumOf(CostWeight, Opened(list)) = SumOf(CostWeight, list)
<1>1. CASE IsOpen(list)
  <2>1. Opened(list) = list /\ list # <<>> /\ Last(list).role = "agent"
    BY <1>1 DEF Opened, IsOpen
  <2>2. Last(list) \in Block
    BY <2>1, FrontAndLast DEF Blocks
  <2>3. Last(list) \in Answer
    BY <2>1, <2>2 DEF Block, Question
  <2>. QED  BY <2>1, <2>3
<1>2. CASE ~IsOpen(list)
  <2>. DEFINE n == NewAgentBlock
  <2>1. n \in Answer /\ n.text = <<>> /\ n.tools = <<>> /\ n.usage = <<>>
    <3>1. <<>> \in Seq(Nat) /\ <<>> \in Seq(Tool) /\ <<>> \in Seq(Notes)
      OBVIOUS
    <3>2. n = [role |-> "agent", text |-> <<>>, streamed |-> <<>>, tools |-> <<>>, usage |-> <<>>, reason |-> "open"]
      BY DEF NewAgentBlock
    <3>3. n.text = <<>> /\ n.tools = <<>> /\ n.usage = <<>>
      BY <3>2
    <3>. HIDE DEF n
    <3>. DEFINE W == Seq(Nat)  S == Seq(Tool)  U == Seq(Notes)  none == <<>>
    <3>4. none \in W /\ none \in S /\ none \in U
      BY <3>1
    <3>5. n = [role |-> "agent", text |-> none, streamed |-> none, tools |-> none, usage |-> none, reason |-> "open"]
      BY <3>2
    <3>. HIDE DEF W, S, U, none
    <3>7. "open" \in Notes
      BY DEF Notes
    <3>6. n \in [role : {"agent"}, text : W, streamed : W, tools : S, usage : U, reason : Notes]
      BY ONLY <3>4, <3>5, <3>7
    <3>. QED  BY <3>3, <3>6 DEF Answer, Words, W, S, U
  <2>2. n \in Block
    BY <2>1 DEF Block
  <2>3. TextWeight[n] = <<>> /\ CallWeight[n] = <<>> /\ CostWeight[n] = <<>>
    <3>1. CallsOf(n) = FlattenSeq([k \in DOMAIN n.tools |-> n.tools[k].call])
      BY <2>1, CallsAre
    <3>2. [k \in DOMAIN n.tools |-> n.tools[k].call] = <<>>
      BY <2>1
    <3>3. FlattenSeq(<<>>) = <<>>
      BY DEF FlattenSeq
    <3>4. n.role = "agent"
      BY <2>1 DEF Answer
    <3>. HIDE DEF n
    <3>. QED  BY <2>1, <2>2, <3>1, <3>2, <3>3, <3>4 DEF TextWeight, CallWeight, CostWeight, TextOf, CostOf
  <2>4. Opened(list) = Append(list, n)
    BY <1>2 DEF Opened
  <2>. HIDE DEF n
  <2>5. Append(list, n) \in Blocks /\ Append(list, n) # <<>> /\ Last(Append(list, n)) = n
    <3>1. Append(list, n) \in Seq(Block) /\ Len(Append(list, n)) = Len(list) + 1
          /\ Append(list, n)[Len(list) + 1] = n /\ Append(list, n) # <<>>
      BY <2>2, AppendProperties DEF Blocks
    <3>. QED  BY <3>1 DEF Last, Blocks
  <2>6. /\ Sums(Block, TextWeight) /\ Sums(Block, CallWeight) /\ Sums(Block, CostWeight)
    BY WeightsTyped, SumsOf
  <2>7. /\ SumOf(TextWeight, Append(list, n)) = SumOf(TextWeight, list) \o <<>>
        /\ SumOf(CallWeight, Append(list, n)) = SumOf(CallWeight, list) \o <<>>
        /\ SumOf(CostWeight, Append(list, n)) = SumOf(CostWeight, list) \o <<>>
    BY <2>2, <2>3, <2>6 DEF Sums, Blocks
  <2>8. SumOf(TextWeight, list) \in Seq(Nat) /\ SumOf(CallWeight, list) \in Seq(Nat)
        /\ SumOf(CostWeight, list) \in Seq(Notes)
    BY WeightsTyped, SumParts DEF Weighs, Blocks
  <2>9. /\ SumOf(TextWeight, list) \o <<>> = SumOf(TextWeight, list)
        /\ SumOf(CallWeight, list) \o <<>> = SumOf(CallWeight, list)
        /\ SumOf(CostWeight, list) \o <<>> = SumOf(CostWeight, list)
    BY <2>8, ConcatEmptySeq
  <2>. QED  BY <2>1, <2>4, <2>5, <2>7, <2>9
<1>. QED  BY <1>1, <1>2

(* A frame makes the blocks say what it says, and no more.                   *)
ListSays(list, next, f) ==
  /\ SumOf(TextWeight, next) = SumOf(TextWeight, list) \o SaidIn[f]
  /\ SumOf(CallWeight, next) = SumOf(CallWeight, list) \o CalledIn[f]
  /\ SumOf(CostWeight, next) = SumOf(CostWeight, list) \o CountedIn[f]

LEMMA WithLastIs ==
  ASSUME NEW B, NEW list \in Seq(B), list # <<>>, NEW b \in B
  PROVE  /\ WithLast(list, b) \in Seq(B) /\ Len(WithLast(list, b)) = Len(list)
         /\ WithLast(list, b) # <<>> /\ Last(WithLast(list, b)) = b
         /\ \A i \in 1..(Len(list) - 1) : WithLast(list, b)[i] = list[i]
<1>. DEFINE f == Front(list)
<1>1. f \in Seq(B) /\ Len(f) = Len(list) - 1 /\ Len(list) \in Nat \ {0} /\ WithLast(list, b) = Append(f, b)
      /\ \A i \in 1..(Len(list) - 1) : f[i] = list[i]
  BY FrontAndLast DEF WithLast
<1>. HIDE DEF f
<1>2. /\ Append(f, b) \in Seq(B) /\ Len(Append(f, b)) = Len(f) + 1 /\ Append(f, b)[Len(f) + 1] = b
      /\ Append(f, b) # <<>> /\ \A i \in 1..Len(f) : Append(f, b)[i] = f[i]
  BY <1>1, AppendProperties
<1>3. Last(Append(f, b)) = b
  BY <1>2 DEF Last
<1>. QED  BY <1>1, <1>2, <1>3

LEMMA ReduceAdds ==
  ASSUME NEW list \in Blocks, NEW f \in FrameLike
  PROVE  Reduce(list, f) \in Blocks /\ ListSays(list, Reduce(list, f), f)
<1>1. SumOf(TextWeight, list) \in Seq(Nat) /\ SumOf(CallWeight, list) \in Seq(Nat)
      /\ SumOf(CostWeight, list) \in Seq(Notes)
  BY WeightsTyped, SumParts DEF Weighs, Blocks
<1>2. /\ SumOf(TextWeight, list) \o <<>> = SumOf(TextWeight, list)
      /\ SumOf(CallWeight, list) \o <<>> = SumOf(CallWeight, list)
      /\ SumOf(CostWeight, list) \o <<>> = SumOf(CostWeight, list)
  BY <1>1, ConcatEmptySeq
<1>3. f.kind \notin AnswerKinds => SaidIn[f] = <<>> /\ CalledIn[f] = <<>> /\ CountedIn[f] = <<>>
  BY DEF AnswerKinds, SaidIn, CalledIn, CountedIn
<1>4. CASE f.kind = "user"
  <2>. DEFINE u == UserBlock(f.words, IsInjected(f, list))
  <2>1. u \in Question
    BY DEF UserBlock, Question, FrameLike, IsInjected
  <2>2. u \in Block /\ u.role = "user"
    BY <2>1 DEF Block, Question
  <2>3. Reduce(list, f) = Append(list, u)
    BY <1>4 DEF Reduce, AnswerKinds
  <2>. HIDE DEF u
  <2>4. TextWeight[u] = <<>> /\ CallWeight[u] = <<>> /\ CostWeight[u] = <<>>
    BY <2>2 DEF TextWeight, CallWeight, CostWeight, TextOf, CallsOf, CostOf
  <2>5. /\ Sums(Block, TextWeight) /\ Sums(Block, CallWeight) /\ Sums(Block, CostWeight)
    BY WeightsTyped, SumsOf
  <2>6. /\ SumOf(TextWeight, Append(list, u)) = SumOf(TextWeight, list) \o <<>>
        /\ SumOf(CallWeight, Append(list, u)) = SumOf(CallWeight, list) \o <<>>
        /\ SumOf(CostWeight, Append(list, u)) = SumOf(CostWeight, list) \o <<>>
    BY <2>2, <2>4, <2>5 DEF Sums, Blocks
  <2>7. Append(list, u) \in Blocks
    BY <2>2, AppendProperties DEF Blocks
  <2>8. f.kind \notin AnswerKinds
    BY <1>4 DEF AnswerKinds
  <2>. QED  BY <1>3, <2>3, <2>6, <2>7, <2>8 DEF ListSays
<1>5. CASE f.kind \in AnswerKinds
  <2>. DEFINE o == Opened(list)  b == Last(o)  c == AfterFrame(b, f)
  <2>1. Reduce(list, f) = WithLast(o, c)
    BY <1>5 DEF Reduce, AnswerKinds
  <2>2. /\ o \in Seq(Block) /\ o # <<>> /\ b \in Answer
        /\ SumOf(TextWeight, o) = SumOf(TextWeight, list)
        /\ SumOf(CallWeight, o) = SumOf(CallWeight, list)
        /\ SumOf(CostWeight, o) = SumOf(CostWeight, list)
    BY OpenedIs DEF Blocks
  <2>. HIDE DEF b, c, o
  <2>3. c \in Answer /\ BlockSays(b, c, f)
    BY <1>5, <2>2, BlockAdds DEF c
  <2>4. c \in Block /\ b = Last(o)
    BY <2>3 DEF Block, b
  <2>5. SaidIn[f] \in Seq(Nat) /\ CalledIn[f] \in Seq(Nat) /\ CountedIn[f] \in Seq(Notes)
    BY WeightsTyped DEF Weighs
  <2>6. WithLast(o, c) \in Blocks
    BY <2>2, <2>4, WithLastIs DEF Blocks
  <2>7. /\ SumOf(TextWeight, WithLast(o, c)) = SumOf(TextWeight, o) \o SaidIn[f]
        /\ SumOf(CallWeight, WithLast(o, c)) = SumOf(CallWeight, o) \o CalledIn[f]
        /\ SumOf(CostWeight, WithLast(o, c)) = SumOf(CostWeight, o) \o CountedIn[f]
    <3>1. /\ TextWeight[c] = TextWeight[Last(o)] \o SaidIn[f]
          /\ CallWeight[c] = CallWeight[Last(o)] \o CalledIn[f]
          /\ CostWeight[c] = CostWeight[Last(o)] \o CountedIn[f]
      BY <2>3, <2>4 DEF BlockSays
    <3>2. Grows(Nat, Block, TextWeight, o, c, SaidIn[f])
      BY <2>2, <2>4, <2>5, <3>1, WeightsTyped, SumWithLast
    <3>3. Grows(Nat, Block, CallWeight, o, c, CalledIn[f])
      BY <2>2, <2>4, <2>5, <3>1, WeightsTyped, SumWithLast
    <3>4. Grows(Notes, Block, CostWeight, o, c, CountedIn[f])
      BY <2>2, <2>4, <2>5, <3>1, WeightsTyped, SumWithLast
    <3>. QED  BY <3>2, <3>3, <3>4 DEF Grows
  <2>. QED  BY <2>1, <2>2, <2>6, <2>7 DEF ListSays
<1>6. CASE f.kind # "user" /\ f.kind \notin AnswerKinds
  <2>1. Reduce(list, f) = list
    BY <1>6 DEF Reduce
  <2>. QED  BY <1>2, <1>3, <1>6, <2>1 DEF ListSays
<1>. QED  BY <1>4, <1>5, <1>6

-----------------------------------------------------------------------------
(* Build, a frame at a time.                                                 *)
Builds(r, list, frames, N) == r[0] = list /\ \A k \in 1..N : r[k] = Reduce(r[k - 1], frames[k])
HasBuild(list, frames) ==
  \E r \in [0..Len(frames) -> Blocks] :
    Builds(r, list, frames, Len(frames)) /\ Build(list, frames) = r[Len(frames)]

LEMMA BuildRuns ==
  ASSUME NEW list \in Blocks, NEW frames \in Seq(FrameLike)
  PROVE  HasBuild(list, frames)
<1>. DEFINE N == Len(frames)
            F == [p \in Blocks \X FrameLike |-> Reduce(p[1], p[2])]
            After(g) == [n \in 0..Len(frames) |-> IF n = 0 THEN list ELSE Reduce(g[n - 1], frames[n])]
            g == CHOOSE g : g = After(g)
<1>1. N \in Nat /\ frames \in [1..N -> FrameLike]
  OBVIOUS
<1>2. F \in [Blocks \X FrameLike -> Blocks]
  <2>1. \A p \in Blocks \X FrameLike : Reduce(p[1], p[2]) \in Blocks
    BY ReduceAdds
  <2>. QED  BY <2>1
<1>3. PICK h \in [0..N -> Blocks] : IsRun(h, F, list, frames, N)
  <2>. HIDE DEF F, N
  <2>1. HasRun(Blocks, F, list, frames, N)
    BY <1>1, <1>2, RunExists
  <2>. QED  BY <2>1 DEF HasRun
<1>4. Builds(h, list, frames, N)
  <2>1. ASSUME NEW k \in 1..N PROVE h[k] = Reduce(h[k - 1], frames[k])
    <3>1. k - 1 \in 0..N
      BY <1>1
    <3>2. h[k - 1] \in Blocks /\ frames[k] \in FrameLike
      <4>. HIDE DEF N
      <4>. QED  BY <1>1, <1>3, <3>1
    <3>3. h[k] = F[<<h[k - 1], frames[k]>>]
      BY <1>3 DEF IsRun
    <3>. HIDE DEF N
    <3>. QED  BY <3>2, <3>3
  <2>2. h[0] = list
    BY <1>3 DEF IsRun
  <2>. QED  BY <2>1, <2>2 DEF Builds
<1>5. h = After(h)
  <2>1. \A n \in 0..N : h[n] = IF n = 0 THEN list ELSE Reduce(h[n - 1], frames[n])
    <3>. SUFFICES ASSUME NEW n \in 0..N
                  PROVE  h[n] = IF n = 0 THEN list ELSE Reduce(h[n - 1], frames[n])
      OBVIOUS
    <3>1. n # 0 => n \in 1..N
      BY <1>1
    <3>. QED  BY <1>4, <3>1 DEF Builds
  <2>2. h = [n \in 0..N |-> h[n]]
    BY <1>3
  <2>. QED  BY <2>1, <2>2
<1>6. g = After(g)
  BY <1>5
<1>7. Build(list, frames) = g[N]
  BY DEF Build
<1>. HIDE DEF g
<1>8. Builds(g, list, frames, N)
  <2>1. \A n \in 0..N : g[n] = IF n = 0 THEN list ELSE Reduce(g[n - 1], frames[n])
    BY <1>6
  <2>. HIDE DEF After
  <2>2. g[0] = list
    BY <1>1, <2>1
  <2>3. ASSUME NEW n \in 1..N PROVE g[n] = Reduce(g[n - 1], frames[n])
    <3>1. n \in 0..N /\ n # 0
      BY <1>1
    <3>. QED  BY <2>1, <3>1
  <2>. HIDE DEF N
  <2>. QED  BY <2>2, <2>3 DEF Builds
<1>9. g[N] = h[N]
  <2>. DEFINE T == {k \in 0..N : g[k] = h[k]}
  <2>1. 0 \in T
    BY <1>1, <1>4, <1>8 DEF Builds
  <2>2. ASSUME NEW k \in 0..N, k \in T, k < N PROVE k + 1 \in T
    <3>1. k + 1 \in 1..N /\ (k + 1) - 1 = k /\ k + 1 \in 0..N
      BY <1>1, <2>2
    <3>2. g[k + 1] = Reduce(g[k], frames[k + 1]) /\ h[k + 1] = Reduce(h[k], frames[k + 1]) /\ g[k] = h[k]
      BY <1>4, <1>8, <2>2, <3>1 DEF Builds
    <3>. QED  BY <3>1, <3>2
  <2>3. \A k \in 0..N : k \in T /\ k < N => k + 1 \in T
    BY <2>2
  <2>4. \A k \in 0..N : k \in T
    <3>. HIDE DEF T, N
    <3>. QED  BY <1>1, <2>1, <2>3, UpTo
  <2>5. N \in 0..N
    BY <1>1
  <2>. QED  BY <2>4, <2>5
<1>. HIDE DEF F, After
<1>. QED  BY <1>3, <1>4, <1>7, <1>9 DEF HasBuild

(* What grows by an item at a time has grown by all of them.                 *)
Accumulated(V, s, v) == v[Len(s)] = v[0] \o FlattenSeq(s)

LEMMA Accumulates ==
  ASSUME NEW V, NEW s, s \in Seq(Seq(V)), NEW v, v[0] \in Seq(V),
         \A k \in 1..Len(s) : v[k] = v[k - 1] \o s[k]
  PROVE  Accumulated(V, s, v)
<1>. DEFINE N == Len(s)
<1>1. PICK q \in [0..N -> Seq(V)] : Joins(q, s, N) /\ FlattenSeq(s) = q[N]
  BY FlattenJoins DEF HasJoin
<1>2. N \in Nat /\ N \in 0..N
  OBVIOUS
<1>3. \A k \in 1..N : s[k] \in Seq(V)
  OBVIOUS
<1>. HIDE DEF N
<1>. DEFINE T == {k \in 0..N : v[k] = v[0] \o q[k]}
<1>4. 0 \in T
  <2>1. q[0] = <<>> /\ v[0] \o <<>> = v[0]
    BY <1>1, ConcatEmptySeq DEF Joins
  <2>2. 0 \in 0..N
    BY <1>2
  <2>. QED  BY <2>1, <2>2
<1>5. ASSUME NEW k \in 0..N, k \in T, k < N PROVE k + 1 \in T
  <2>1. k + 1 \in 1..N /\ (k + 1) - 1 = k /\ k + 1 \in 0..N
    BY <1>2, <1>5
  <2>2. v[k + 1] = v[k] \o s[k + 1] /\ q[k + 1] = q[k] \o s[k + 1] /\ v[k] = v[0] \o q[k]
    BY <1>1, <1>5, <2>1 DEF Joins, N
  <2>3. q[k] \in Seq(V) /\ s[k + 1] \in Seq(V)
    BY <1>1, <1>3, <2>1
  <2>4. Regroups(v[0], q[k], s[k + 1])
    BY <2>3, Regrouped
  <2>. QED  BY <2>1, <2>2, <2>4 DEF Regroups
<1>6. \A k \in 0..N : k \in T /\ k < N => k + 1 \in T
  BY <1>5
<1>7. \A k \in 0..N : k \in T
  <2>. HIDE DEF T
  <2>. QED  BY <1>2, <1>4, <1>6, UpTo
<1>. QED  BY <1>1, <1>2, <1>7 DEF Accumulated, N

(* Folding frames into blocks makes the blocks say what the frames say.      *)
BuildSays(list, next, frames) ==
  /\ SumOf(TextWeight, next) = SumOf(TextWeight, list) \o SumOf(SaidIn, frames)
  /\ SumOf(CallWeight, next) = SumOf(CallWeight, list) \o SumOf(CalledIn, frames)
  /\ SumOf(CostWeight, next) = SumOf(CostWeight, list) \o SumOf(CountedIn, frames)

LEMMA BuildAdds ==
  ASSUME NEW list \in Blocks, NEW frames \in Seq(FrameLike)
  PROVE  Build(list, frames) \in Blocks /\ BuildSays(list, Build(list, frames), frames)
<1>. DEFINE N == Len(frames)
<1>1. PICK r \in [0..N -> Blocks] : Builds(r, list, frames, N) /\ Build(list, frames) = r[N]
  BY BuildRuns DEF HasBuild
<1>2. N \in Nat /\ N \in 0..N /\ DOMAIN frames = 1..N /\ \A k \in 1..N : frames[k] \in FrameLike
  OBVIOUS
<1>. DEFINE said == [i \in DOMAIN frames |-> SaidIn[frames[i]]]
            called == [i \in DOMAIN frames |-> CalledIn[frames[i]]]
            counted == [i \in DOMAIN frames |-> CountedIn[frames[i]]]
<1>3. /\ said \in Seq(Seq(Nat)) /\ called \in Seq(Seq(Nat)) /\ counted \in Seq(Seq(Notes))
      /\ Len(said) = N /\ Len(called) = N /\ Len(counted) = N
  <2>1. said \in Seq(Seq(Nat)) /\ called \in Seq(Seq(Nat)) /\ counted \in Seq(Seq(Notes))
    <3>1. Parted(Nat, SaidIn, frames) /\ Parted(Nat, CalledIn, frames) /\ Parted(Notes, CountedIn, frames)
      BY WeightsTyped, PartsTyped
    <3>. QED  BY <3>1 DEF Parted
  <2>2. Len(said) = N /\ Len(called) = N /\ Len(counted) = N
    BY <1>2
  <2>. QED  BY <2>1, <2>2
<1>4. \A k \in 1..N : said[k] = SaidIn[frames[k]] /\ called[k] = CalledIn[frames[k]]
                      /\ counted[k] = CountedIn[frames[k]]
  BY <1>2
<1>. DEFINE texts == [k \in 0..N |-> SumOf(TextWeight, r[k])]
            calls == [k \in 0..N |-> SumOf(CallWeight, r[k])]
            costs == [k \in 0..N |-> SumOf(CostWeight, r[k])]
<1>5. \A k \in 1..N : k - 1 \in 0..N /\ k \in 0..N
  BY <1>2
<1>6. \A k \in 1..N : ListSays(r[k - 1], r[k], frames[k])
  <2>. SUFFICES ASSUME NEW k \in 1..N PROVE ListSays(r[k - 1], r[k], frames[k])
    OBVIOUS
  <2>1. r[k - 1] \in Blocks /\ frames[k] \in FrameLike
    <3>. HIDE DEF N
    <3>. QED  BY <1>1, <1>2, <1>5
  <2>2. r[k] = Reduce(r[k - 1], frames[k])
    BY <1>1 DEF Builds
  <2>. QED  BY <2>1, <2>2, ReduceAdds
<1>7. texts[0] \in Seq(Nat) /\ calls[0] \in Seq(Nat) /\ costs[0] \in Seq(Notes)
  <2>1. 0 \in 0..N /\ r[0] = list
    BY <1>1, <1>2 DEF Builds
  <2>2. SumOf(TextWeight, list) \in Seq(Nat) /\ SumOf(CallWeight, list) \in Seq(Nat)
        /\ SumOf(CostWeight, list) \in Seq(Notes)
    BY WeightsTyped, SumParts DEF Weighs, Blocks
  <2>. QED  BY <2>1, <2>2
<1>8. \A k \in 1..N : /\ texts[k] = texts[k - 1] \o said[k]
                      /\ calls[k] = calls[k - 1] \o called[k]
                      /\ costs[k] = costs[k - 1] \o counted[k]
  <2>. SUFFICES ASSUME NEW k \in 1..N
                PROVE  /\ texts[k] = texts[k - 1] \o said[k]
                       /\ calls[k] = calls[k - 1] \o called[k]
                       /\ costs[k] = costs[k - 1] \o counted[k]
    OBVIOUS
  <2>1. k - 1 \in 0..N /\ k \in 0..N
    BY <1>5
  <2>2. /\ texts[k] = SumOf(TextWeight, r[k]) /\ texts[k - 1] = SumOf(TextWeight, r[k - 1])
        /\ calls[k] = SumOf(CallWeight, r[k]) /\ calls[k - 1] = SumOf(CallWeight, r[k - 1])
        /\ costs[k] = SumOf(CostWeight, r[k]) /\ costs[k - 1] = SumOf(CostWeight, r[k - 1])
    BY <2>1
  <2>. HIDE DEF texts, calls, costs, said, called, counted, N
  <2>. QED  BY <1>4, <1>6, <2>2 DEF ListSays
<1>9. /\ texts[N] = SumOf(TextWeight, r[N]) /\ texts[0] = SumOf(TextWeight, list)
      /\ calls[N] = SumOf(CallWeight, r[N]) /\ calls[0] = SumOf(CallWeight, list)
      /\ costs[N] = SumOf(CostWeight, r[N]) /\ costs[0] = SumOf(CostWeight, list)
  BY <1>1, <1>2 DEF Builds
<1>10. /\ SumOf(SaidIn, frames) = FlattenSeq(said) /\ SumOf(CalledIn, frames) = FlattenSeq(called)
       /\ SumOf(CountedIn, frames) = FlattenSeq(counted)
  BY DEF SumOf
<1>. HIDE DEF texts, calls, costs, said, called, counted, N
<1>11. Accumulated(Nat, said, texts) /\ Accumulated(Nat, called, calls) /\ Accumulated(Notes, counted, costs)
  BY <1>3, <1>7, <1>8, Accumulates
<1>12. BuildSays(list, r[N], frames)
  BY <1>3, <1>9, <1>10, <1>11 DEF Accumulated, BuildSays
<1>. QED  BY <1>1, <1>2, <1>12

-----------------------------------------------------------------------------
(* What the log says, and the frames of its events.                          *)
EventSaid == [e \in EventLike |-> IF e.type = "assistant/message" THEN e.words ELSE <<>>]
EventCalled == [e \in EventLike |-> IF e.type = "tool/call" THEN e.words ELSE <<>>]
EventCounted == [e \in EventLike |-> IF e.type = "assistant/message" THEN <<e.note>> ELSE <<>>]

FrameSays(f, e) ==
  SaidIn[f] = EventSaid[e] /\ CalledIn[f] = EventCalled[e] /\ CountedIn[f] = EventCounted[e]

LEMMA EventsTyped ==
  /\ Weighs(EventSaid, EventLike, Nat) /\ Weighs(EventCalled, EventLike, Nat)
  /\ Weighs(EventCounted, EventLike, Notes)
<1>1. ASSUME NEW e \in EventLike
      PROVE  /\ (IF e.type = "assistant/message" THEN e.words ELSE <<>>) \in Seq(Nat)
             /\ (IF e.type = "tool/call" THEN e.words ELSE <<>>) \in Seq(Nat)
             /\ (IF e.type = "assistant/message" THEN <<e.note>> ELSE <<>>) \in Seq(Notes)
  <2>1. e.words \in Seq(Nat) /\ e.note \in Notes
    BY DEF EventLike, Words
  <2>2. <<>> \in Seq(Nat) /\ <<>> \in Seq(Notes)
    OBVIOUS
  <2>3. <<e.note>> \in Seq(Notes)
    BY <2>1
  <2>. QED  BY <2>1, <2>2, <2>3
<1>. QED  BY <1>1 DEF Weighs, EventSaid, EventCalled, EventCounted

LEMMA NoFrameIs ==
  NoFrame \in FrameLike /\ NoFrame.kind = "none" /\ NoFrame.seq = 0
  /\ SaidIn[NoFrame] = <<>> /\ CalledIn[NoFrame] = <<>> /\ CountedIn[NoFrame] = <<>>
<1>1. <<>> \in Words
  BY DEF Words
<1>2. NoFrame = [kind |-> "none", seq |-> 0, words |-> <<>>, note |-> ""]
  BY DEF NoFrame, Frame
<1>3. NoFrame \in FrameLike
  BY <1>1, <1>2 DEF FrameLike, Kinds, Notes
<1>. QED  BY <1>2, <1>3 DEF SaidIn, CalledIn, CountedIn

LEMMA PayloadIs ==
  ASSUME NEW e \in EventLike, NEW n \in Nat
  PROVE  /\ EventPayload(e, n) \in FrameLike
         /\ FrameSays(EventPayload(e, n), e)
         /\ EventPayload(e, n) = NoFrame
              \/ EventPayload(e, n) = [kind |-> KindOf(e.type), seq |-> n, words |-> e.words, note |-> e.note]
         /\ e.type # "assistant/chunk" /\ KindOf(e.type) # "none" => EventPayload(e, n) # NoFrame
         /\ KindOf(e.type) \in Kinds
<1>. DEFINE p == EventPayload(e, n)
            f == [kind |-> KindOf(e.type), seq |-> n, words |-> e.words, note |-> e.note]
<1>1. e.type \in Types /\ e.words \in Words /\ e.note \in Notes
  BY DEF EventLike
<1>2. /\ KindOf(e.type) \in Kinds
      /\ KindOf(e.type) = "message" <=> e.type = "assistant/message"
      /\ KindOf(e.type) = "tool_call" <=> e.type = "tool/call"
      /\ KindOf(e.type) = "chunk" <=> e.type = "assistant/chunk"
  BY <1>1 DEF Types, KindOf, Kinds
<1>3. f \in FrameLike
  BY <1>1, <1>2 DEF FrameLike
<1>4. p = IF KindOf(e.type) = "none" \/ (e.type = "assistant/chunk" /\ e.note \notin ChunkTypes)
          THEN NoFrame ELSE f
  BY DEF EventPayload, Frame
<1>5. EventSaid[e] = (IF e.type = "assistant/message" THEN e.words ELSE <<>>)
      /\ EventCalled[e] = (IF e.type = "tool/call" THEN e.words ELSE <<>>)
      /\ EventCounted[e] = (IF e.type = "assistant/message" THEN <<e.note>> ELSE <<>>)
  BY DEF EventSaid, EventCalled, EventCounted
<1>6. SaidIn[f] = (IF e.type = "assistant/message" THEN e.words ELSE <<>>)
      /\ CalledIn[f] = (IF e.type = "tool/call" THEN e.words ELSE <<>>)
      /\ CountedIn[f] = (IF e.type = "assistant/message" THEN <<e.note>> ELSE <<>>)
  BY <1>2, <1>3 DEF SaidIn, CalledIn, CountedIn
<1>7. KindOf(e.type) = "none" \/ e.type = "assistant/chunk"
        => e.type # "assistant/message" /\ e.type # "tool/call"
  BY <1>2
<1>8. KindOf(e.type) # "none" => f # NoFrame
  BY NoFrameIs
<1>9. p \in FrameLike /\ (p = NoFrame \/ p = f)
  BY <1>3, <1>4, NoFrameIs
<1>10. FrameSays(p, e)
  <2>. HIDE DEF p, f
  <2>1. CASE KindOf(e.type) = "none" \/ (e.type = "assistant/chunk" /\ e.note \notin ChunkTypes)
    BY <1>4, <1>5, <1>7, <2>1, NoFrameIs DEF FrameSays
  <2>2. CASE ~ (KindOf(e.type) = "none" \/ (e.type = "assistant/chunk" /\ e.note \notin ChunkTypes))
    BY <1>4, <1>5, <1>6, <2>2 DEF FrameSays
  <2>. QED  BY <2>1, <2>2
<1>11. e.type # "assistant/chunk" /\ KindOf(e.type) # "none" => p # NoFrame
  BY <1>4, <1>8
<1>. QED  BY <1>2, <1>9, <1>10, <1>11

LEMMA SumSame ==
  ASSUME NEW g, NEW a, NEW h, NEW b, DOMAIN a = DOMAIN b, \A i \in DOMAIN a : g[a[i]] = h[b[i]]
  PROVE  SumOf(g, a) = SumOf(h, b)
<1>1. [i \in DOMAIN a |-> g[a[i]]] = [i \in DOMAIN b |-> h[b[i]]]
  OBVIOUS
<1>. QED  BY <1>1 DEF SumOf

LEMMA ShownAre ==
  ASSUME NEW list \in Blocks
  PROVE  Texts(list) = SumOf(TextWeight, list) /\ Calls(list) = SumOf(CallWeight, list)
         /\ Costs(list) = SumOf(CostWeight, list)
<1>1. \A i \in DOMAIN list : list[i] \in Block
  BY DEF Blocks
<1>2. \A i \in DOMAIN list : TextWeight[list[i]] = TextOf(list[i]) /\ CallWeight[list[i]] = CallsOf(list[i])
                             /\ CostWeight[list[i]] = CostOf(list[i])
  BY <1>1 DEF TextWeight, CallWeight, CostWeight
<1>3. /\ [i \in DOMAIN list |-> TextOf(list[i])] = [i \in DOMAIN list |-> TextWeight[list[i]]]
      /\ [i \in DOMAIN list |-> CallsOf(list[i])] = [i \in DOMAIN list |-> CallWeight[list[i]]]
      /\ [i \in DOMAIN list |-> CostOf(list[i])] = [i \in DOMAIN list |-> CostWeight[list[i]]]
  BY <1>2
<1>. QED  BY <1>3 DEF Texts, Calls, Costs, SumOf

LEMMA LoggedAre ==
  ASSUME log \in Seq(EventLike)
  PROVE  Logged("assistant/message") = SumOf(EventSaid, log) /\ Logged("tool/call") = SumOf(EventCalled, log)
         /\ Counted = SumOf(EventCounted, log)
<1>1. \A i \in DOMAIN log : log[i] \in EventLike
  OBVIOUS
<1>2. \A i \in DOMAIN log :
        /\ EventSaid[log[i]] = (IF log[i].type = "assistant/message" THEN log[i].words ELSE <<>>)
        /\ EventCalled[log[i]] = (IF log[i].type = "tool/call" THEN log[i].words ELSE <<>>)
        /\ EventCounted[log[i]] = (IF log[i].type = "assistant/message" THEN <<log[i].note>> ELSE <<>>)
  BY <1>1 DEF EventSaid, EventCalled, EventCounted
<1>3. /\ [i \in DOMAIN log |-> IF log[i].type = "assistant/message" THEN log[i].words ELSE <<>>]
           = [i \in DOMAIN log |-> EventSaid[log[i]]]
      /\ [i \in DOMAIN log |-> IF log[i].type = "tool/call" THEN log[i].words ELSE <<>>]
           = [i \in DOMAIN log |-> EventCalled[log[i]]]
      /\ [i \in DOMAIN log |-> IF log[i].type = "assistant/message" THEN <<log[i].note>> ELSE <<>>]
           = [i \in DOMAIN log |-> EventCounted[log[i]]]
  BY <1>2
<1>. QED  BY <1>3 DEF Logged, Counted, SumOf

-----------------------------------------------------------------------------
(* The history: a frame, or none, for every event.                           *)
LEMMA MapIs ==
  ASSUME NEW l \in Seq(EventLike)
  PROVE  /\ MapEvents(l) \in Seq(FrameLike) /\ Len(MapEvents(l)) = Len(l)
         /\ \A i \in 1..Len(l) : l[i] \in EventLike /\ MapEvents(l)[i] = EventPayload(l[i], i)
<1>. DEFINE N == Len(l)  h == [i \in 1..N |-> EventPayload(l[i], i)]
<1>1. N \in Nat /\ DOMAIN l = 1..N /\ \A i \in 1..N : l[i] \in EventLike /\ i \in Nat
  OBVIOUS
<1>. HIDE DEF N
<1>2. \A i \in 1..N : EventPayload(l[i], i) \in FrameLike
  BY <1>1, PayloadIs
<1>3. h \in Seq(FrameLike) /\ Len(h) = N /\ \A i \in 1..N : h[i] = EventPayload(l[i], i)
  BY <1>1, <1>2
<1>4. MapEvents(l) = <<>> \o h
  BY <1>1 DEF MapEvents
<1>. HIDE DEF h
<1>5. <<>> \o h = h
  BY <1>3, ConcatEmptySeq
<1>. QED  BY <1>1, <1>3, <1>4, <1>5 DEF N

ChunkWords(h, i) == [n \in DOMAIN h |-> IF n \in SameType(h, i) THEN h[n].words ELSE <<>>]

LEMMA MergedIs ==
  ASSUME NEW h \in Seq(FrameLike), NEW i \in DOMAIN h
  PROVE  /\ Merged(h, i) \in FrameLike /\ Merged(h, i).kind = h[i].kind
         /\ Merged(h, i).seq = h[i].seq /\ Merged(h, i).note = h[i].note
         /\ h[i].kind # "chunk" => Merged(h, i) = h[i]
         /\ h[i].kind = "chunk" => Merged(h, i).words = FlattenSeq(ChunkWords(h, i))
         /\ ChunkWords(h, i) \in Seq(Seq(Nat))
<1>1. Len(h) \in Nat /\ DOMAIN h = 1..Len(h) /\ \A n \in 1..Len(h) : h[n] \in FrameLike
  OBVIOUS
<1>2. h[i] \in FrameLike /\ \A n \in 1..Len(h) : h[n].words \in Seq(Nat)
  BY <1>1 DEF FrameLike, Words
<1>. DEFINE s == ChunkWords(h, i)  S == SameType(h, i)
<1>3. s \in Seq(Seq(Nat))
  <2>. DEFINE X == Seq(Nat)  N == Len(h)
  <2>1. <<>> \in X
    OBVIOUS
  <2>2. s = [n \in 1..N |-> IF n \in S THEN h[n].words ELSE <<>>]
    BY <1>1 DEF ChunkWords
  <2>3. \A n \in 1..N : (IF n \in S THEN h[n].words ELSE <<>>) \in X
    BY <1>2, <2>1
  <2>4. N \in Nat
    BY <1>1
  <2>. HIDE DEF X, N, S, s
  <2>5. [n \in 1..N |-> IF n \in S THEN h[n].words ELSE <<>>] \in Seq(X)
    BY <2>3, <2>4
  <2>. QED  BY <2>2, <2>5 DEF X
<1>4. FlattenSeq(s) \in Words
  <2>. HIDE DEF s
  <2>. QED  BY <1>3, FlattenTyped DEF Words
<1>5. CASE h[i].kind # "chunk"
  BY <1>2, <1>3, <1>5 DEF Merged
<1>6. CASE h[i].kind = "chunk"
  <2>1. Merged(h, i) = [h[i] EXCEPT !.words = FlattenSeq(s)]
    BY <1>6 DEF Merged, ChunkWords
  <2>. DEFINE w == FlattenSeq(s)
  <2>2. w \in Words
    BY <1>4
  <2>. HIDE DEF s, w
  <2>3. Merged(h, i) = [h[i] EXCEPT !.words = w]
    BY <2>1 DEF w
  <2>4. Merged(h, i) \in FrameLike /\ Merged(h, i).kind = h[i].kind /\ Merged(h, i).seq = h[i].seq
        /\ Merged(h, i).note = h[i].note /\ Merged(h, i).words = w
    BY <1>2, <2>2, <2>3 DEF FrameLike
  <2>. QED  BY <1>3, <1>6, <2>4 DEF w, s
<1>. QED  BY <1>5, <1>6

LEMMA CompactIs ==
  ASSUME NEW h \in Seq(FrameLike)
  PROVE  /\ CompactHistory(h) \in Seq(FrameLike) /\ Len(CompactHistory(h)) = Len(h)
         /\ \A i \in 1..Len(h) : /\ Kept(h, i) => CompactHistory(h)[i] = Merged(h, i)
                                 /\ ~Kept(h, i) => CompactHistory(h)[i] = NoFrame
                                 /\ h[i].kind # "chunk" => CompactHistory(h)[i] = h[i]
<1>. DEFINE N == Len(h)  c == [i \in 1..N |-> IF Kept(h, i) THEN Merged(h, i) ELSE NoFrame]
<1>1. N \in Nat /\ DOMAIN h = 1..N
  OBVIOUS
<1>. HIDE DEF N
<1>2. \A i \in 1..N : Merged(h, i) \in FrameLike /\ (h[i].kind # "chunk" => Merged(h, i) = h[i])
  BY <1>1, MergedIs
<1>3. c \in Seq(FrameLike) /\ Len(c) = N
      /\ \A i \in 1..N : c[i] = IF Kept(h, i) THEN Merged(h, i) ELSE NoFrame
  BY <1>1, <1>2, NoFrameIs
<1>4. CompactHistory(h) = <<>> \o c
  BY <1>1 DEF CompactHistory
<1>. HIDE DEF c
<1>5. <<>> \o c = c
  BY <1>3, ConcatEmptySeq
<1>6. \A i \in 1..N : h[i].kind # "chunk" => Kept(h, i)
  BY DEF Kept
<1>. QED  BY <1>2, <1>3, <1>4, <1>5, <1>6 DEF N

(* A history says what the log says.                                         *)
LEMMA HistorySays ==
  ASSUME NEW l \in Seq(EventLike)
  PROVE  /\ CompactHistory(MapEvents(l)) \in Seq(FrameLike) /\ Len(CompactHistory(MapEvents(l))) = Len(l)
         /\ SumOf(SaidIn, CompactHistory(MapEvents(l))) = SumOf(EventSaid, l)
         /\ SumOf(CalledIn, CompactHistory(MapEvents(l))) = SumOf(EventCalled, l)
         /\ SumOf(CountedIn, CompactHistory(MapEvents(l))) = SumOf(EventCounted, l)
<1>. DEFINE N == Len(l)  h == MapEvents(l)  c == CompactHistory(h)
<1>1. N \in Nat /\ DOMAIN l = 1..N
  OBVIOUS
<1>2. h \in Seq(FrameLike) /\ Len(h) = N /\ \A i \in 1..N : l[i] \in EventLike /\ h[i] = EventPayload(l[i], i)
  BY MapIs
<1>. HIDE DEF h
<1>3. /\ c \in Seq(FrameLike) /\ Len(c) = N
      /\ \A i \in 1..N : /\ Kept(h, i) => c[i] = Merged(h, i)
                         /\ ~Kept(h, i) => c[i] = NoFrame
                         /\ h[i].kind # "chunk" => c[i] = h[i]
  BY <1>2, CompactIs
<1>. HIDE DEF c, N
<1>4. ASSUME NEW i \in 1..N PROVE FrameSays(c[i], l[i])
  <2>1. l[i] \in EventLike /\ h[i] = EventPayload(l[i], i) /\ i \in Nat /\ i \in DOMAIN h
    BY <1>1, <1>2
  <2>2. FrameSays(h[i], l[i])
    BY <2>1, PayloadIs
  <2>3. CASE h[i].kind # "chunk"
    BY <1>3, <2>2, <2>3
  <2>4. CASE h[i].kind = "chunk"
    <3>1. c[i] \in FrameLike /\ c[i].kind \notin {"message", "tool_call"}
      <4>1. c[i] = Merged(h, i) \/ c[i] = NoFrame
        BY <1>3
      <4>. QED  BY <1>2, <2>1, <2>4, <4>1, MergedIs, NoFrameIs
    <3>2. SaidIn[c[i]] = <<>> /\ CalledIn[c[i]] = <<>> /\ CountedIn[c[i]] = <<>>
      BY <3>1 DEF SaidIn, CalledIn, CountedIn
    <3>3. h[i] \in FrameLike
      BY <1>2, <2>1
    <3>4. SaidIn[h[i]] = <<>> /\ CalledIn[h[i]] = <<>> /\ CountedIn[h[i]] = <<>>
      BY <2>4, <3>3 DEF SaidIn, CalledIn, CountedIn
    <3>. QED  BY <2>2, <3>2, <3>4 DEF FrameSays
  <2>. QED  BY <2>3, <2>4
<1>5. DOMAIN c = DOMAIN l /\ DOMAIN c = 1..N
  BY <1>1, <1>3
<1>6. SumOf(SaidIn, c) = SumOf(EventSaid, l)
  <2>1. \A i \in DOMAIN c : SaidIn[c[i]] = EventSaid[l[i]]
    BY <1>4, <1>5 DEF FrameSays
  <2>2. DOMAIN c = DOMAIN l
    BY <1>5
  <2>. QED  BY ONLY <2>1, <2>2, SumSame
<1>7. SumOf(CalledIn, c) = SumOf(EventCalled, l)
  <2>1. \A i \in DOMAIN c : CalledIn[c[i]] = EventCalled[l[i]]
    BY <1>4, <1>5 DEF FrameSays
  <2>2. DOMAIN c = DOMAIN l
    BY <1>5
  <2>. QED  BY ONLY <2>1, <2>2, SumSame
<1>8. SumOf(CountedIn, c) = SumOf(EventCounted, l)
  <2>1. \A i \in DOMAIN c : CountedIn[c[i]] = EventCounted[l[i]]
    BY <1>4, <1>5 DEF FrameSays
  <2>2. DOMAIN c = DOMAIN l
    BY <1>5
  <2>. QED  BY ONLY <2>1, <2>2, SumSame
<1>. QED  BY <1>3, <1>6, <1>7, <1>8 DEF c, h, N

-----------------------------------------------------------------------------
(* A load shows what the log says, whatever it lacks of the running turn.    *)
OfLog(l, f) == f.kind = "user" \/ (f.seq \in 1..Len(l) /\ f = EventPayload(l[f.seq], f.seq))

Reads(list, l) ==
  /\ SumOf(TextWeight, list) = SumOf(EventSaid, l)
  /\ SumOf(CallWeight, list) = SumOf(EventCalled, l)
  /\ SumOf(CostWeight, list) = SumOf(EventCounted, l)

LEMMA EmptyReads ==
  /\ <<>> \in Blocks
  /\ SumOf(TextWeight, <<>>) = <<>> /\ SumOf(CallWeight, <<>>) = <<>> /\ SumOf(CostWeight, <<>>) = <<>>
  /\ Reads(<<>>, <<>>)
<1>1. \A g : [i \in DOMAIN <<>> |-> g[<<>>[i]]] = <<>>
  OBVIOUS
<1>2. \A g : SumOf(g, <<>>) = <<>>
  BY <1>1 DEF SumOf, FlattenSeq
<1>. QED  BY <1>2 DEF Reads, Blocks

LEMMA LackingIs ==
  ASSUME NEW frames \in Seq(FrameLike), NEW history, NEW list
  PROVE  /\ Lacking(frames, history, list) \in Seq(FrameLike)
         /\ Len(Lacking(frames, history, list)) = Len(frames)
         /\ \A i \in 1..Len(frames) :
              /\ frames[i] \in FrameLike
              /\ Lacking(frames, history, list)[i] =
                   IF AlreadyLoaded(frames[i], history, list) THEN NoFrame ELSE frames[i]
<1>. DEFINE N == Len(frames)
<1>1. N \in Nat /\ DOMAIN frames = 1..N /\ \A i \in 1..N : frames[i] \in FrameLike
  OBVIOUS
<1>. HIDE DEF N
<1>2. \A i \in 1..N : (IF AlreadyLoaded(frames[i], history, list) THEN NoFrame ELSE frames[i]) \in FrameLike
  BY <1>1, NoFrameIs
<1>. DEFINE m == [i \in 1..N |-> IF AlreadyLoaded(frames[i], history, list) THEN NoFrame ELSE frames[i]]
<1>3. m \in Seq(FrameLike) /\ Len(m) = N
      /\ \A i \in 1..N : m[i] = IF AlreadyLoaded(frames[i], history, list) THEN NoFrame ELSE frames[i]
  BY <1>1, <1>2
<1>4. Lacking(frames, history, list) = m
  BY <1>1 DEF Lacking
<1>. HIDE DEF m
<1>. QED  BY <1>1, <1>3, <1>4 DEF N

(* Frames that say nothing leave what is said.                               *)
Silent(frames) ==
  /\ SumOf(SaidIn, frames) = <<>> /\ SumOf(CalledIn, frames) = <<>> /\ SumOf(CountedIn, frames) = <<>>

LEMMA SilentFrames ==
  ASSUME NEW frames \in Seq(FrameLike),
         \A i \in 1..Len(frames) : frames[i].kind \notin {"message", "tool_call"}
  PROVE  Silent(frames)
<1>1. Len(frames) \in Nat /\ DOMAIN frames = 1..Len(frames) /\ \A i \in 1..Len(frames) : frames[i] \in FrameLike
  OBVIOUS
<1>2. \A i \in 1..Len(frames) : SaidIn[frames[i]] = <<>> /\ CalledIn[frames[i]] = <<>>
                                /\ CountedIn[frames[i]] = <<>>
  BY <1>1 DEF SaidIn, CalledIn, CountedIn
<1>3. Parted(Nat, SaidIn, frames) /\ Parted(Nat, CalledIn, frames) /\ Parted(Notes, CountedIn, frames)
  BY WeightsTyped, PartsTyped
<1>. DEFINE said == [i \in DOMAIN frames |-> SaidIn[frames[i]]]
            called == [i \in DOMAIN frames |-> CalledIn[frames[i]]]
            counted == [i \in DOMAIN frames |-> CountedIn[frames[i]]]
<1>4. /\ said \in Seq(Seq(Nat)) /\ \A i \in DOMAIN said : said[i] = <<>>
      /\ called \in Seq(Seq(Nat)) /\ \A i \in DOMAIN called : called[i] = <<>>
      /\ counted \in Seq(Seq(Notes)) /\ \A i \in DOMAIN counted : counted[i] = <<>>
  BY <1>1, <1>2, <1>3 DEF Parted
<1>5. /\ SumOf(SaidIn, frames) = FlattenSeq(said) /\ SumOf(CalledIn, frames) = FlattenSeq(called)
      /\ SumOf(CountedIn, frames) = FlattenSeq(counted)
  BY DEF SumOf
<1>. HIDE DEF said, called, counted
<1>6. FlattenSeq(said) = <<>>
  BY <1>4, FlattenEmpty
<1>7. FlattenSeq(called) = <<>>
  BY <1>4, FlattenEmpty
<1>8. FlattenSeq(counted) = <<>>
  BY <1>4, FlattenEmpty
<1>. QED  BY <1>5, <1>6, <1>7, <1>8 DEF Silent

LEMMA LoadedReads ==
  ASSUME NEW l \in Seq(EventLike), NEW frames \in Seq(FrameLike), \A i \in 1..Len(frames) : OfLog(l, frames[i])
  PROVE  Loaded(l, frames) \in Blocks /\ Reads(Loaded(l, frames), l)
<1>. DEFINE h == CompactHistory(MapEvents(l))  b == Build(<<>>, h)  m == Lacking(frames, h, b)
<1>1. /\ h \in Seq(FrameLike) /\ Len(h) = Len(l)
      /\ SumOf(SaidIn, h) = SumOf(EventSaid, l)
      /\ SumOf(CalledIn, h) = SumOf(EventCalled, l)
      /\ SumOf(CountedIn, h) = SumOf(EventCounted, l)
  BY HistorySays
<1>2. Loaded(l, frames) = Build(b, m)
  BY DEF Loaded
<1>3. b \in Blocks /\ BuildSays(<<>>, b, h)
  <2>. HIDE DEF h
  <2>. QED  BY <1>1, EmptyReads, BuildAdds
<1>4. Reads(b, l)
  <2>1. Parted(Nat, EventSaid, l) /\ Parted(Nat, EventCalled, l) /\ Parted(Notes, EventCounted, l)
    BY EventsTyped, PartsTyped
  <2>2. /\ <<>> \o SumOf(EventSaid, l) = SumOf(EventSaid, l)
        /\ <<>> \o SumOf(EventCalled, l) = SumOf(EventCalled, l)
        /\ <<>> \o SumOf(EventCounted, l) = SumOf(EventCounted, l)
    BY <2>1, ConcatEmptySeq DEF Parted
  <2>. HIDE DEF b, h
  <2>. QED  BY <1>1, <1>3, <2>2, EmptyReads DEF BuildSays, Reads
<1>5. m \in Seq(FrameLike) /\ Len(m) = Len(frames)
      /\ \A i \in 1..Len(frames) : /\ frames[i] \in FrameLike
                                   /\ m[i] = IF AlreadyLoaded(frames[i], h, b) THEN NoFrame ELSE frames[i]
  <2>. HIDE DEF h, b
  <2>. QED  BY LackingIs DEF m
<1>6. \A i \in 1..Len(m) : m[i].kind \notin {"message", "tool_call"}
  <2>. SUFFICES ASSUME NEW i \in 1..Len(frames), m[i].kind \in {"message", "tool_call"} PROVE FALSE
    BY <1>5
  <2>. DEFINE f == frames[i]
  <2>1. f \in FrameLike /\ ~AlreadyLoaded(f, h, b) /\ m[i] = f
    BY <1>5, NoFrameIs
  <2>. HIDE DEF m
  <2>2. f.seq \in 1..Len(l) /\ f = EventPayload(l[f.seq], f.seq) /\ f.kind \in {"message", "tool_call"}
    BY <2>1 DEF OfLog
  <2>. DEFINE n == f.seq
  <2>3. n \in 1..Len(l) /\ MapEvents(l) \in Seq(FrameLike) /\ Len(MapEvents(l)) = Len(l) /\ MapEvents(l)[n] = f
    BY <2>2, MapIs
  <2>. HIDE DEF f, n
  <2>4. h[n] = f /\ n \in DOMAIN h
    <3>1. f.kind # "chunk"
      BY <2>2
    <3>2. h[n] = MapEvents(l)[n]
      BY <2>3, <3>1, CompactIs
    <3>3. DOMAIN h = 1..Len(h)
      BY <1>1
    <3>. HIDE DEF h
    <3>. QED  BY <1>1, <2>3, <3>2, <3>3
  <2>5. f.seq # Unnumbered /\ f.seq \in Nat /\ n = f.seq
    BY <2>2 DEF Unnumbered, n
  <2>. HIDE DEF h, b
  <2>6. AlreadyLoaded(f, h, b)
    <3>1. f.seq <= h[n].seq
      BY <2>4, <2>5
    <3>. QED  BY <2>4, <2>5, <3>1 DEF AlreadyLoaded
  <2>. QED  BY <2>1, <2>6
<1>. HIDE DEF m, b, h
<1>7. Silent(m)
  BY <1>5, <1>6, SilentFrames
<1>8. Build(b, m) \in Blocks /\ BuildSays(b, Build(b, m), m)
  BY <1>3, <1>5, BuildAdds
<1>9. /\ SumOf(TextWeight, b) \o <<>> = SumOf(TextWeight, b)
      /\ SumOf(CallWeight, b) \o <<>> = SumOf(CallWeight, b)
      /\ SumOf(CostWeight, b) \o <<>> = SumOf(CostWeight, b)
  <2>1. Parted(Nat, TextWeight, b) /\ Parted(Nat, CallWeight, b) /\ Parted(Notes, CostWeight, b)
    BY <1>3, WeightsTyped, PartsTyped DEF Blocks
  <2>. QED  BY <2>1, ConcatEmptySeq DEF Parted
<1>10. Reads(Build(b, m), l)
  BY <1>4, <1>7, <1>8, <1>9 DEF BuildSays, Silent, Reads
<1>. QED  BY <1>2, <1>8, <1>10

-----------------------------------------------------------------------------
(* The log: what a turn does comes after its start, with no message and no   *)
(* end in between.                                                           *)
WorkTypes == {"assistant/chunk", "assistant/message", "tool/call", "tool/result", "turn/end"}
Rooted(l, j) ==
  \E s \in 1..(j - 1) : /\ l[s].type = "turn/start"
                        /\ \A k \in (s + 1)..(j - 1) : l[k].type \notin {"user/message", "turn/end"}
Grammar(l) ==
  \A j \in 1..Len(l) : /\ l[j].type \in WorkTypes => Rooted(l, j)
                       /\ l[j].type = "turn/end" => l[j].note # "open"

TranscriptTyped ==
  /\ plan \in Plans /\ log \in Seq(EventLike)
  /\ turn \in {"none", "sent", "taken", "started", "over"} /\ sent \in Nat
  /\ live \in Seq(FrameLike) /\ blocks \in Blocks

TranscriptInv ==
  /\ TranscriptTyped
  /\ Grammar(log) /\ (turn = "started" => Rooted(log, Len(log) + 1))
  /\ \A i \in 1..Len(live) : OfLog(log, live[i])
  /\ Reads(blocks, log)

LEMMA LongerLog ==
  ASSUME NEW l \in Seq(EventLike), NEW e \in EventLike
  PROVE  /\ Append(l, e) \in Seq(EventLike) /\ Len(Append(l, e)) = Len(l) + 1 /\ Len(l) \in Nat
         /\ Append(l, e)[Len(l) + 1] = e /\ \A k \in 1..Len(l) : Append(l, e)[k] = l[k]
         /\ \A j \in 1..(Len(l) + 1) : Rooted(Append(l, e), j) <=> Rooted(l, j)
         /\ \A f : OfLog(l, f) => OfLog(Append(l, e), f)
         /\ Rooted(l, Len(l) + 1) /\ e.type \notin {"user/message", "turn/end"}
              => Rooted(Append(l, e), Len(l) + 2)
         /\ e.type = "turn/start" => Rooted(Append(l, e), Len(l) + 2)
<1>. DEFINE a == Append(l, e)  N == Len(l)
<1>1. a \in Seq(EventLike) /\ Len(a) = N + 1 /\ N \in Nat /\ a[N + 1] = e /\ \A k \in 1..N : a[k] = l[k]
  BY AppendProperties
<1>. HIDE DEF a, N
<1>2. \A j \in 1..(N + 1) : Rooted(a, j) <=> Rooted(l, j)
  <2>. SUFFICES ASSUME NEW j \in 1..(N + 1) PROVE Rooted(a, j) <=> Rooted(l, j)
    OBVIOUS
  <2>1. \A k \in 1..(j - 1) : a[k] = l[k]
    BY <1>1
  <2>2. \A s \in 1..(j - 1) : \A k \in (s + 1)..(j - 1) : k \in 1..(j - 1)
    BY <1>1
  <2>. QED  BY <2>1, <2>2 DEF Rooted
<1>3. \A f : OfLog(l, f) => OfLog(a, f)
  <2>1. \A k \in 1..N : k \in 1..(N + 1) /\ a[k] = l[k]
    BY <1>1
  <2>. QED  BY <1>1, <2>1 DEF OfLog, N
<1>4. ASSUME Rooted(l, N + 1), e.type \notin {"user/message", "turn/end"} PROVE Rooted(a, N + 2)
  <2>1. PICK s \in 1..N : l[s].type = "turn/start"
                          /\ \A k \in (s + 1)..N : l[k].type \notin {"user/message", "turn/end"}
    <3>1. (N + 1) - 1 = N
      BY <1>1
    <3>. QED  BY <1>4, <3>1 DEF Rooted
  <2>2. s \in 1..(N + 1) /\ (N + 2) - 1 = N + 1 /\ a[s] = l[s]
    BY <1>1
  <2>3. \A k \in (s + 1)..(N + 1) : a[k].type \notin {"user/message", "turn/end"}
    <3>. SUFFICES ASSUME NEW k \in (s + 1)..(N + 1) PROVE a[k].type \notin {"user/message", "turn/end"}
      OBVIOUS
    <3>1. CASE k = N + 1
      BY <1>1, <1>4, <3>1
    <3>2. CASE k # N + 1
      <4>1. k \in (s + 1)..N /\ k \in 1..N
        BY <1>1, <3>2
      <4>. QED  BY <1>1, <2>1, <4>1
    <3>. QED  BY <3>1, <3>2
  <2>. QED  BY <2>1, <2>2, <2>3 DEF Rooted
<1>5. ASSUME e.type = "turn/start" PROVE Rooted(a, N + 2)
  <2>1. N + 1 \in 1..((N + 2) - 1) /\ a[N + 1].type = "turn/start"
    BY <1>1, <1>5
  <2>2. \A k \in ((N + 1) + 1)..((N + 2) - 1) : FALSE
    BY <1>1
  <2>. QED  BY <2>1, <2>2 DEF Rooted
<1>. QED  BY <1>1, <1>2, <1>3, <1>4, <1>5 DEF a, N

LEMMA ReadsMore ==
  ASSUME NEW list \in Blocks, NEW next, NEW l \in Seq(EventLike), NEW e \in EventLike, NEW f \in FrameLike,
         Reads(list, l), ListSays(list, next, f), FrameSays(f, e)
  PROVE  Reads(next, Append(l, e))
<1>1. Sums(EventLike, EventSaid) /\ Sums(EventLike, EventCalled) /\ Sums(EventLike, EventCounted)
  BY EventsTyped, SumsOf
<1>2. /\ SumOf(EventSaid, Append(l, e)) = SumOf(EventSaid, l) \o EventSaid[e]
      /\ SumOf(EventCalled, Append(l, e)) = SumOf(EventCalled, l) \o EventCalled[e]
      /\ SumOf(EventCounted, Append(l, e)) = SumOf(EventCounted, l) \o EventCounted[e]
  BY <1>1 DEF Sums
<1>. QED  BY <1>2 DEF Reads, ListSays, FrameSays

(* ... a frame that says nothing need not be drawn.                          *)
LEMMA ReadsAsBefore ==
  ASSUME NEW list \in Blocks, NEW f \in FrameLike, f.kind \notin {"message", "tool_call"}
  PROVE  ListSays(list, list, f)
<1>1. SaidIn[f] = <<>> /\ CalledIn[f] = <<>> /\ CountedIn[f] = <<>>
  BY DEF SaidIn, CalledIn, CountedIn
<1>2. Parted(Nat, TextWeight, list) /\ Parted(Nat, CallWeight, list) /\ Parted(Notes, CostWeight, list)
  BY WeightsTyped, PartsTyped DEF Blocks
<1>3. /\ SumOf(TextWeight, list) \o <<>> = SumOf(TextWeight, list)
      /\ SumOf(CallWeight, list) \o <<>> = SumOf(CallWeight, list)
      /\ SumOf(CostWeight, list) \o <<>> = SumOf(CostWeight, list)
  BY <1>2, ConcatEmptySeq DEF Parted
<1>. QED  BY <1>1, <1>3 DEF ListSays

LEMMA LogsKeeps ==
  ASSUME TranscriptInv, NEW e \in EventLike, Logs(e),
         e.type \in WorkTypes => turn = "started", e.type = "turn/end" => e.note # "open"
  PROVE  /\ plan' = plan /\ log' = Append(log, e) /\ log' \in Seq(EventLike) /\ Len(log') = Len(log) + 1
         /\ live' \in Seq(FrameLike) /\ blocks' \in Blocks
         /\ Grammar(log')
         /\ \A i \in 1..Len(live') : OfLog(log', live'[i])
         /\ Reads(blocks', log')
         /\ turn = "started" /\ e.type \notin {"user/message", "turn/end"} => Rooted(log', Len(log') + 1)
         /\ e.type = "turn/start" => Rooted(log', Len(log') + 1)
<1>. DEFINE N == Len(log)  f == EventPayload(e, N + 1)
<1>1. log \in Seq(EventLike) /\ live \in Seq(FrameLike) /\ blocks \in Blocks /\ N \in Nat /\ Grammar(log)
      /\ (turn = "started" => Rooted(log, N + 1)) /\ Reads(blocks, log)
      /\ \A i \in 1..Len(live) : OfLog(log, live[i])
  BY DEF TranscriptInv, TranscriptTyped
<1>2. log' = Append(log, e) /\ plan' = plan
      /\ IF f = NoFrame \/ f.kind = "user" THEN live' = live /\ blocks' = blocks
         ELSE live' = Append(live, f) /\ blocks' = Reduce(blocks, f)
  BY DEF Logs
<1>3. f \in FrameLike /\ FrameSays(f, e)
  BY <1>1, PayloadIs
<1>4. /\ log' \in Seq(EventLike) /\ Len(log') = N + 1 /\ log'[N + 1] = e /\ \A k \in 1..N : log'[k] = log[k]
      /\ \A j \in 1..(N + 1) : Rooted(log', j) <=> Rooted(log, j)
      /\ \A x : OfLog(log, x) => OfLog(log', x)
      /\ Rooted(log, N + 1) /\ e.type \notin {"user/message", "turn/end"} => Rooted(log', N + 2)
      /\ e.type = "turn/start" => Rooted(log', N + 2)
  BY <1>1, <1>2, LongerLog
<1>5. Grammar(log')
  <2>. SUFFICES ASSUME NEW j \in 1..(N + 1)
                PROVE  /\ log'[j].type \in WorkTypes => Rooted(log', j)
                       /\ log'[j].type = "turn/end" => log'[j].note # "open"
    BY <1>4 DEF Grammar
  <2>1. CASE j = N + 1
    BY <1>1, <1>4, <2>1
  <2>2. CASE j # N + 1
    <3>1. j \in 1..N
      BY <1>1, <2>2
    <3>. QED  BY <1>1, <1>4, <3>1 DEF Grammar
  <2>. QED  BY <2>1, <2>2
<1>6. (N + 1) + 1 = N + 2
  BY <1>1
<1>7. turn = "started" /\ e.type \notin {"user/message", "turn/end"} => Rooted(log', Len(log') + 1)
  BY <1>1, <1>4, <1>6
<1>8. e.type = "turn/start" => Rooted(log', Len(log') + 1)
  BY <1>4, <1>6
<1>9. CASE f = NoFrame \/ f.kind = "user"
  <2>1. live' = live /\ blocks' = blocks
    BY <1>2, <1>9
  <2>2. f.kind \notin {"message", "tool_call"}
    BY <1>9, NoFrameIs
  <2>. HIDE DEF f
  <2>3. ListSays(blocks, blocks, f)
    BY <1>1, <1>3, <2>2, ReadsAsBefore
  <2>4. Reads(blocks, Append(log, e))
    BY <1>1, <1>3, <2>3, ReadsMore
  <2>. QED  BY <1>1, <1>2, <1>4, <1>5, <1>7, <1>8, <2>1, <2>4
<1>10. CASE ~(f = NoFrame \/ f.kind = "user")
  <2>1. live' = Append(live, f) /\ blocks' = Reduce(blocks, f)
    BY <1>2, <1>10
  <2>2. OfLog(log', f)
    <3>1. f.seq = N + 1
      BY <1>1, <1>10, PayloadIs
    <3>2. f.seq \in 1..Len(log') /\ log'[f.seq] = e
      BY <1>1, <1>4, <3>1
    <3>. QED  BY <3>1, <3>2 DEF OfLog
  <2>. HIDE DEF f
  <2>3. Reduce(blocks, f) \in Blocks /\ ListSays(blocks, Reduce(blocks, f), f)
    BY <1>1, <1>3, ReduceAdds
  <2>4. Reads(Reduce(blocks, f), Append(log, e))
    BY <1>1, <1>3, <2>3, ReadsMore
  <2>5. live' \in Seq(FrameLike) /\ \A i \in 1..Len(live') : OfLog(log', live'[i])
    <3>1. /\ Append(live, f) \in Seq(FrameLike) /\ Len(Append(live, f)) = Len(live) + 1 /\ Len(live) \in Nat
          /\ Append(live, f)[Len(live) + 1] = f /\ \A i \in 1..Len(live) : Append(live, f)[i] = live[i]
      BY <1>1, <1>3, AppendProperties
    <3>2. ASSUME NEW i \in 1..(Len(live) + 1) PROVE OfLog(log', Append(live, f)[i])
      <4>1. CASE i = Len(live) + 1
        BY <2>2, <3>1, <4>1
      <4>2. CASE i # Len(live) + 1
        <5>1. i \in 1..Len(live)
          BY <3>1, <4>2
        <5>. QED  BY <1>1, <1>4, <3>1, <5>1
      <4>. QED  BY <4>1, <4>2
    <3>. QED  BY <2>1, <3>1, <3>2
  <2>. QED  BY <1>2, <1>4, <1>5, <1>7, <1>8, <2>1, <2>3, <2>4, <2>5
<1>. QED  BY <1>9, <1>10

-----------------------------------------------------------------------------
LEMMA TranscriptInitInv ==
  ASSUME TranscriptInit
  PROVE  TranscriptInv
<1>1. plan \in Plans /\ log = <<>> /\ turn = "none" /\ sent = 0 /\ live = <<>> /\ blocks = <<>>
  BY DEF TranscriptInit
<1>2. <<>> \in Seq(EventLike) /\ <<>> \in Seq(FrameLike) /\ Len(<<>>) = 0
  OBVIOUS
<1>3. TranscriptTyped
  BY <1>1, <1>2, EmptyReads DEF TranscriptTyped
<1>4. Grammar(log) /\ \A i \in 1..Len(live) : OfLog(log, live[i])
  BY <1>1, <1>2 DEF Grammar
<1>. QED  BY <1>1, <1>3, <1>4, EmptyReads DEF TranscriptInv

IsEvent(type, words, note) ==
  /\ Event(type, words, note) \in EventLike /\ Event(type, words, note).type = type
  /\ Event(type, words, note).note = note

LEMMA EventIs ==
  ASSUME NEW type, type \in Types, NEW words, words \in Words, NEW note, note \in Notes
  PROVE  IsEvent(type, words, note)
BY DEF IsEvent, Event, EventLike

LEMMA SomeWords ==
  ASSUME TranscriptTyped
  PROVE  /\ Word \in Words /\ Streaming \in Words /\ <<>> \in Words
         /\ <<plan.events + sent>> \in Words /\ <<plan.events + (sent + 1)>> \in Words
<1>1. log \in Seq(EventLike) /\ Len(log) \in Nat /\ plan.events \in Nat /\ sent \in Nat
  BY TranscriptAssumption DEF TranscriptTyped
<1>2. Word \in Words /\ <<>> \in Words
  BY <1>1 DEF Word, Words
<1>3. <<plan.events + sent>> \in Words /\ <<plan.events + (sent + 1)>> \in Words
  <2>1. plan.events + sent \in Nat /\ plan.events + (sent + 1) \in Nat
    BY <1>1
  <2>. QED  BY <2>1 DEF Words
<1>4. Streaming \in Words
  <2>. DEFINE N == Len(log)
              P(i) == (\A b \in StepBegan : b < i) /\ log[i].type = "assistant/chunk" /\ log[i].note = "text-delta"
              s == [i \in 1..N |-> IF P(i) THEN log[i].words ELSE <<>>]
  <2>1. DOMAIN log = 1..N /\ N \in Nat /\ \A i \in 1..N : log[i].words \in Words
    <3>1. DOMAIN log = 1..N /\ N \in Nat /\ \A i \in 1..N : log[i] \in EventLike
      BY <1>1
    <3>. QED  BY <3>1 DEF EventLike
  <2>2. s \in Seq(Words)
    <3>. HIDE DEF P, N
    <3>. QED  BY <1>2, <2>1
  <2>3. Streaming = FlattenSeq(s)
    BY <2>1 DEF Streaming
  <2>. HIDE DEF s
  <2>. QED  BY <2>2, <2>3, FlattenTyped DEF Words
<1>. QED  BY <1>2, <1>3, <1>4

LEMMA TranscriptStepInv ==
  ASSUME TranscriptInv, [TranscriptNext]_transcriptVars
  PROVE  TranscriptInv'
<1>1. TranscriptTyped /\ Grammar(log) /\ (turn = "started" => Rooted(log, Len(log) + 1))
      /\ (\A i \in 1..Len(live) : OfLog(log, live[i])) /\ Reads(blocks, log)
  BY DEF TranscriptInv
<1>2. /\ plan \in Plans /\ log \in Seq(EventLike) /\ sent \in Nat
      /\ turn \in {"none", "sent", "taken", "started", "over"}
      /\ live \in Seq(FrameLike) /\ blocks \in Blocks
  BY <1>1 DEF TranscriptTyped
<1>3. ASSUME NEW e \in EventLike, Logs(e), sent' = sent,
             e.type \in WorkTypes => turn = "started", e.type = "turn/end" => e.note # "open",
             turn' \in {"none", "sent", "taken", "started", "over"},
             turn' = "started" => e.type = "turn/start"
                                  \/ (turn = "started" /\ e.type \notin {"user/message", "turn/end"})
      PROVE  TranscriptInv'
  <2>1. /\ plan' = plan /\ log' \in Seq(EventLike)
        /\ live' \in Seq(FrameLike) /\ blocks' \in Blocks
        /\ Grammar(log')
        /\ \A i \in 1..Len(live') : OfLog(log', live'[i])
        /\ Reads(blocks', log')
        /\ turn = "started" /\ e.type \notin {"user/message", "turn/end"} => Rooted(log', Len(log') + 1)
        /\ e.type = "turn/start" => Rooted(log', Len(log') + 1)
    BY <1>3, LogsKeeps
  <2>2. TranscriptTyped'
    BY <1>2, <1>3, <2>1 DEF TranscriptTyped
  <2>. QED  BY <1>3, <2>1, <2>2 DEF TranscriptInv
<1>4. ASSUME UNCHANGED <<plan, log, sent, live, blocks>>,
             turn' \in {"none", "sent", "taken", "started", "over"}, turn' = "started" => turn = "started"
      PROVE  TranscriptInv'
  <2>1. TranscriptTyped'
    BY <1>2, <1>4 DEF TranscriptTyped
  <2>. QED  BY <1>1, <1>4, <2>1 DEF TranscriptInv
<1>5. CASE UNCHANGED transcriptVars
  BY <1>2, <1>4, <1>5 DEF transcriptVars
<1>6. CASE Send
  <2>. DEFINE echo == Frame("user", Unnumbered, <<plan.events + sent'>>, "plain")
  <2>1. /\ sent' = sent + 1 /\ turn' = "sent" /\ plan' = plan /\ log' = log
        /\ live' = Append(live, echo) /\ blocks' = Reduce(blocks, echo)
    BY <1>6 DEF Send
  <2>2. echo \in FrameLike /\ echo.kind = "user"
    <3>1. <<plan.events + sent'>> \in Words
      BY <1>1, <2>1, SomeWords
    <3>. QED  BY <3>1 DEF Frame, FrameLike, Kinds, Notes, Unnumbered
  <2>. HIDE DEF echo
  <2>3. Reduce(blocks, echo) \in Blocks /\ ListSays(blocks, Reduce(blocks, echo), echo)
    BY <1>2, <2>2, ReduceAdds
  <2>4. ListSays(blocks, blocks, echo)
    BY <1>2, <2>2, ReadsAsBefore
  <2>5. Reads(Reduce(blocks, echo), log)
    BY <1>1, <2>3, <2>4 DEF ListSays, Reads
  <2>6. live' \in Seq(FrameLike) /\ \A i \in 1..Len(live') : OfLog(log, live'[i])
    <3>1. /\ Append(live, echo) \in Seq(FrameLike) /\ Len(Append(live, echo)) = Len(live) + 1 /\ Len(live) \in Nat
          /\ Append(live, echo)[Len(live) + 1] = echo
          /\ \A i \in 1..Len(live) : Append(live, echo)[i] = live[i]
      BY <1>2, <2>2, AppendProperties
    <3>2. ASSUME NEW i \in 1..(Len(live) + 1) PROVE OfLog(log, Append(live, echo)[i])
      <4>1. CASE i = Len(live) + 1
        BY <2>2, <3>1, <4>1 DEF OfLog
      <4>2. CASE i # Len(live) + 1
        <5>1. i \in 1..Len(live)
          BY <3>1, <4>2
        <5>. QED  BY <1>1, <3>1, <5>1
      <4>. QED  BY <4>1, <4>2
    <3>. QED  BY <2>1, <3>1, <3>2
  <2>7. TranscriptTyped'
    BY <1>2, <2>1, <2>3, <2>6 DEF TranscriptTyped
  <2>. QED  BY <1>1, <2>1, <2>5, <2>6, <2>7 DEF TranscriptInv
<1>7. CASE HostTakesMessage
  <2>. DEFINE e == Event("user/message", <<plan.events + sent>>, "plain")
  <2>1. turn' = "taken" /\ Logs(e) /\ sent' = sent
    BY <1>7 DEF HostTakesMessage
  <2>2. e \in EventLike /\ e.type = "user/message"
    <3>1. IsEvent("user/message", <<plan.events + sent>>, "plain")
      BY <1>1, SomeWords, EventIs DEF Types, Notes
    <3>. QED  BY <3>1 DEF IsEvent
  <2>. QED  BY <1>3, <2>1, <2>2 DEF WorkTypes
<1>8. ASSUME NEW note \in {"plain", "wrapped"}, HostAddsContext(note) PROVE TranscriptInv'
  <2>. DEFINE e == Event("user/message", Word, note)
  <2>1. turn = "taken" /\ turn' = turn /\ Logs(e) /\ sent' = sent
    BY <1>8 DEF HostAddsContext
  <2>2. e \in EventLike /\ e.type = "user/message"
    <3>1. IsEvent("user/message", Word, note)
      BY <1>1, <1>8, SomeWords, EventIs DEF Types, Notes
    <3>. QED  BY <3>1 DEF IsEvent
  <2>. QED  BY <1>3, <2>1, <2>2 DEF WorkTypes
<1>9. CASE HostStarts
  <2>. DEFINE e == Event("turn/start", <<>>, "")
  <2>1. turn' = "started" /\ Logs(e) /\ sent' = sent
    BY <1>9 DEF HostStarts
  <2>2. e \in EventLike /\ e.type = "turn/start"
    <3>1. IsEvent("turn/start", <<>>, "")
      BY <1>1, SomeWords, EventIs DEF Types, Notes
    <3>. QED  BY <3>1 DEF IsEvent
  <2>. QED  BY <1>3, <2>1, <2>2 DEF WorkTypes
<1>10. ASSUME NEW e \in EventLike, e.type \notin {"user/message", "turn/end"}, Working, Logs(e)
       PROVE  TranscriptInv'
  BY <1>3, <1>10 DEF Working
<1>11. ASSUME NEW type \in {"text-delta", "reasoning-delta", "unknown"}, HostStreams(type)
       PROVE  TranscriptInv'
  <2>. DEFINE e == Event("assistant/chunk", Word, type)
  <2>1. Working /\ Logs(e)
    BY <1>11 DEF HostStreams
  <2>2. e \in EventLike /\ e.type = "assistant/chunk"
    <3>1. IsEvent("assistant/chunk", Word, type)
      BY <1>1, <1>11, SomeWords, EventIs DEF Types, Notes
    <3>. QED  BY <3>1 DEF IsEvent
  <2>. QED  BY <1>10, <2>1, <2>2
<1>12. CASE HostSays
  <2>. DEFINE e == Event("assistant/message", Streaming, "counted")
  <2>1. Working /\ Logs(e)
    BY <1>12 DEF HostSays
  <2>2. e \in EventLike /\ e.type = "assistant/message"
    <3>1. IsEvent("assistant/message", Streaming, "counted")
      BY <1>1, SomeWords, EventIs DEF Types, Notes
    <3>. QED  BY <3>1 DEF IsEvent
  <2>. QED  BY <1>10, <2>1, <2>2
<1>13. CASE HostCalls
  <2>. DEFINE e == Event("tool/call", Word, "")
  <2>1. Working /\ Logs(e)
    BY <1>13 DEF HostCalls
  <2>2. e \in EventLike /\ e.type = "tool/call"
    <3>1. IsEvent("tool/call", Word, "")
      BY <1>1, SomeWords, EventIs DEF Types, Notes
    <3>. QED  BY <3>1 DEF IsEvent
  <2>. QED  BY <1>10, <2>1, <2>2
<1>14. CASE HostGetsResult
  <2>. DEFINE e == Event("tool/result", Word, "")
  <2>1. Working /\ Logs(e)
    BY <1>14 DEF HostGetsResult
  <2>2. e \in EventLike /\ e.type = "tool/result"
    <3>1. IsEvent("tool/result", Word, "")
      BY <1>1, SomeWords, EventIs DEF Types, Notes
    <3>. QED  BY <3>1 DEF IsEvent
  <2>. QED  BY <1>10, <2>1, <2>2
<1>15. CASE HostKeepsBooks
  <2>. DEFINE e == Event("session/other", <<>>, "")
  <2>1. Working /\ Logs(e)
    BY <1>15 DEF HostKeepsBooks
  <2>2. e \in EventLike /\ e.type = "session/other"
    <3>1. IsEvent("session/other", <<>>, "")
      BY <1>1, SomeWords, EventIs DEF Types, Notes
    <3>. QED  BY <3>1 DEF IsEvent
  <2>. QED  BY <1>10, <2>1, <2>2
<1>16. ASSUME NEW reason \in {"completed", "aborted"}, HostEnds(reason) PROVE TranscriptInv'
  <2>. DEFINE e == Event("turn/end", <<>>, reason)
  <2>1. turn = "started" /\ turn' = "over" /\ Logs(e) /\ sent' = sent
    BY <1>16 DEF HostEnds
  <2>2. e \in EventLike /\ e.type = "turn/end" /\ e.note # "open"
    <3>1. IsEvent("turn/end", <<>>, reason)
      BY <1>1, <1>16, SomeWords, EventIs DEF Types, Notes
    <3>. QED  BY <3>1, <1>16 DEF IsEvent
  <2>. QED  BY <1>3, <2>1, <2>2
<1>17. CASE HostDies
  BY <1>4, <1>17 DEF HostDies
<1>18. CASE TurnDone
  <2>1. turn' = "none" /\ live' = <<>> /\ blocks' = Loaded(log, <<>>) /\ UNCHANGED <<plan, log, sent>>
    BY <1>18 DEF TurnDone
  <2>2. <<>> \in Seq(FrameLike) /\ \A i \in 1..Len(<<>>) : OfLog(log, <<>>[i])
    OBVIOUS
  <2>3. Loaded(log, <<>>) \in Blocks /\ Reads(Loaded(log, <<>>), log)
    BY <1>2, <2>2, LoadedReads
  <2>4. TranscriptTyped'
    BY <1>2, <2>1, <2>2, <2>3 DEF TranscriptTyped
  <2>. QED  BY <1>1, <2>1, <2>2, <2>3, <2>4 DEF TranscriptInv
<1>19. CASE Load
  <2>1. blocks' = Loaded(log, live) /\ UNCHANGED <<plan, log, turn, sent, live>>
    BY <1>19 DEF Load
  <2>2. Loaded(log, live) \in Blocks /\ Reads(Loaded(log, live), log)
    BY <1>1, <1>2, LoadedReads
  <2>3. TranscriptTyped'
    BY <1>2, <2>1, <2>2 DEF TranscriptTyped
  <2>. QED  BY <1>1, <2>1, <2>2, <2>3 DEF TranscriptInv
<1>. QED  BY <1>5, <1>6, <1>7, <1>8, <1>9, <1>11, <1>12, <1>13, <1>14, <1>15, <1>16, <1>17, <1>18, <1>19
          DEF TranscriptNext

-----------------------------------------------------------------------------
(* What is streamed into an answer, frame by frame.                          *)
StreamOf(list) == IF IsOpen(list) THEN Last(list).streamed ELSE <<>>

LEMMA OpenedStream ==
  ASSUME NEW list \in Blocks
  PROVE  Last(Opened(list)).streamed = StreamOf(list) /\ Last(Opened(list)).reason = "open"
<1>1. CASE IsOpen(list)
  BY <1>1 DEF Opened, StreamOf, IsOpen
<1>2. CASE ~IsOpen(list)
  <2>. DEFINE n == NewAgentBlock
  <2>1. Opened(list) = Append(list, n) /\ StreamOf(list) = <<>>
    BY <1>2 DEF Opened, StreamOf
  <2>2. n.streamed = <<>> /\ n.reason = "open"
    BY DEF NewAgentBlock
  <2>3. Last(Append(list, n)) = n
    <3>. HIDE DEF n
    <3>1. list \in Seq(Block \union {n}) /\ n \in Block \union {n}
      BY DEF Blocks
    <3>2. Append(list, n)[Len(list) + 1] = n /\ Len(Append(list, n)) = Len(list) + 1
      BY <3>1, AppendProperties
    <3>. QED  BY <3>2 DEF Last
  <2>. HIDE DEF n
  <2>. QED  BY <2>1, <2>2, <2>3
<1>. QED  BY <1>1, <1>2

LEMMA ReduceOpens ==
  ASSUME NEW list \in Blocks, NEW f \in FrameLike, f.kind \in AnswerKinds
  PROVE  /\ Reduce(list, f) # <<>> /\ Last(Reduce(list, f)) = AfterFrame(Last(Opened(list)), f)
         /\ Last(Reduce(list, f)) \in Answer /\ Len(Reduce(list, f)) = Len(Opened(list))
         /\ \A i \in 1..(Len(Opened(list)) - 1) : Reduce(list, f)[i] = Opened(list)[i]
<1>. DEFINE o == Opened(list)  b == Last(o)  c == AfterFrame(b, f)
<1>1. Reduce(list, f) = WithLast(o, c)
  BY DEF Reduce, AnswerKinds
<1>2. o \in Seq(Block) /\ o # <<>> /\ b \in Answer
  BY OpenedIs DEF Blocks
<1>. HIDE DEF b, o
<1>3. c \in Answer
  BY <1>2, BlockAdds
<1>. HIDE DEF c
<1>4. c \in Block
  BY <1>3 DEF Block
<1>5. /\ WithLast(o, c) # <<>> /\ Last(WithLast(o, c)) = c /\ Len(WithLast(o, c)) = Len(o)
      /\ \A i \in 1..(Len(o) - 1) : WithLast(o, c)[i] = o[i]
  BY <1>2, <1>4, WithLastIs
<1>. QED  BY <1>1, <1>3, <1>5 DEF o, b, c

LEMMA ReduceStream ==
  ASSUME NEW list \in Blocks, NEW f \in FrameLike, f.kind \notin {"user", "message", "turn_end"}
  PROVE  StreamOf(Reduce(list, f)) =
           IF f.kind = "chunk" /\ f.note = "text-delta" THEN StreamOf(list) \o f.words ELSE StreamOf(list)
<1>1. CASE f.kind \in AnswerKinds
  <2>. DEFINE b == Last(Opened(list))  c == AfterFrame(b, f)  r == Reduce(list, f)
  <2>1. r # <<>> /\ Last(r) = c /\ c \in Answer
    BY <1>1, ReduceOpens
  <2>2. b.streamed = StreamOf(list) /\ b.reason = "open" /\ b \in Answer
    BY OpenedStream, OpenedIs
  <2>. HIDE DEF b, r
  <2>3. f.kind \in {"chunk", "tool_call", "tool_result"}
    BY <1>1 DEF AnswerKinds
  <2>4. c.reason = "open" /\ c.streamed = IF f.kind = "chunk" /\ f.note = "text-delta"
                                          THEN b.streamed \o f.words ELSE b.streamed
    BY <2>2, <2>3 DEF AfterFrame, Answer
  <2>. HIDE DEF c
  <2>5. c.role = "agent"
    BY <2>1 DEF Answer
  <2>6. IsOpen(r)
    BY <2>1, <2>4, <2>5 DEF IsOpen
  <2>7. StreamOf(r) = c.streamed
    BY <2>1, <2>6 DEF StreamOf
  <2>. QED  BY <2>2, <2>4, <2>7 DEF r
<1>2. CASE f.kind \notin AnswerKinds
  <2>1. Reduce(list, f) = list /\ f.kind # "chunk"
    BY <1>2 DEF Reduce, AnswerKinds
  <2>. QED  BY <2>1
<1>. QED  BY <1>1, <1>2

(* The end of a turn closes the answer, with the words it streamed.          *)
LEMMA ReduceEnds ==
  ASSUME NEW list \in Blocks, NEW f \in FrameLike, f.kind = "turn_end"
  PROVE  /\ Reduce(list, f) # <<>> /\ Last(Reduce(list, f)).role = "agent"
         /\ Last(Reduce(list, f)).streamed = StreamOf(list) /\ Last(Reduce(list, f)).reason = f.note
<1>. DEFINE b == Last(Opened(list))  c == AfterFrame(b, f)
<1>1. Reduce(list, f) # <<>> /\ Last(Reduce(list, f)) = c /\ c \in Answer
  BY ReduceOpens DEF AnswerKinds
<1>2. b.streamed = StreamOf(list) /\ b \in Answer
  BY OpenedStream, OpenedIs
<1>. HIDE DEF b
<1>3. c.streamed = b.streamed /\ c.reason = f.note
  BY <1>2 DEF AfterFrame, Answer
<1>4. c.role = "agent"
  BY <1>1 DEF Answer
<1>. HIDE DEF c
<1>. QED  BY <1>1, <1>2, <1>3, <1>4

(* An answer is opened by a frame of an answer, and by nothing else.         *)
LEMMA ReduceOpenOnly ==
  ASSUME NEW list \in Blocks, NEW f \in FrameLike, IsOpen(Reduce(list, f)),
         f.kind = "turn_end" => f.note # "open"
  PROVE  f.kind \in AnswerKinds \ {"turn_end"} \/ (IsOpen(list) /\ f.kind # "turn_end")
<1>1. f.kind # "turn_end"
  <2>. SUFFICES ASSUME f.kind = "turn_end" PROVE FALSE
    OBVIOUS
  <2>1. Last(Reduce(list, f)).reason = f.note
    BY ReduceEnds
  <2>. QED  BY <2>1 DEF IsOpen
<1>2. f.kind # "user"
  <2>. SUFFICES ASSUME f.kind = "user" PROVE FALSE
    OBVIOUS
  <2>. DEFINE u == UserBlock(f.words, IsInjected(f, list))
  <2>1. Reduce(list, f) = Append(list, u)
    BY DEF Reduce, AnswerKinds
  <2>2. u.role = "user"
    BY DEF UserBlock
  <2>. HIDE DEF u
  <2>3. list \in Seq(Block \union {u}) /\ u \in Block \union {u}
    BY DEF Blocks
  <2>4. Append(list, u)[Len(list) + 1] = u /\ Len(Append(list, u)) = Len(list) + 1
    BY <2>3, AppendProperties
  <2>5. Last(Append(list, u)) = u
    BY <2>4 DEF Last
  <2>. QED  BY <2>1, <2>2, <2>5 DEF IsOpen
<1>3. f.kind \notin AnswerKinds => Reduce(list, f) = list
  BY <1>2 DEF Reduce
<1>. QED  BY <1>1, <1>3

(* A closed block stays as it is.                                            *)
Closed(list, m) == m \in 1..Len(list) /\ list[m].role = "agent" /\ list[m].reason # "open"

LEMMA ReduceKeepsClosed ==
  ASSUME NEW list \in Blocks, NEW f \in FrameLike, NEW m, Closed(list, m)
  PROVE  m \in 1..Len(Reduce(list, f)) /\ Reduce(list, f)[m] = list[m]
<1>1. m \in 1..Len(list) /\ list \in Seq(Block) /\ Len(list) \in Nat
  BY DEF Closed, Blocks
<1>2. \A b \in Block : /\ Len(Append(list, b)) = Len(list) + 1
                       /\ \A i \in 1..Len(list) : Append(list, b)[i] = list[i]
  BY <1>1, AppendProperties
<1>3. CASE f.kind = "user"
  <2>. DEFINE u == UserBlock(f.words, IsInjected(f, list))
  <2>1. Reduce(list, f) = Append(list, u)
    BY <1>3 DEF Reduce, AnswerKinds
  <2>2. u \in Question
    BY DEF UserBlock, Question, FrameLike, IsInjected
  <2>3. u \in Block
    BY <2>2 DEF Block
  <2>. HIDE DEF u
  <2>. QED  BY <1>1, <1>2, <2>1, <2>3
<1>4. CASE f.kind \in AnswerKinds
  <2>. DEFINE o == Opened(list)
  <2>1. Len(Reduce(list, f)) = Len(o) /\ \A i \in 1..(Len(o) - 1) : Reduce(list, f)[i] = o[i]
    BY <1>4, ReduceOpens
  <2>2. CASE IsOpen(list)
    <3>1. o = list /\ Last(list).reason = "open"
      BY <2>2 DEF Opened, IsOpen
    <3>2. Last(list) = list[Len(list)]
      BY DEF Last
    <3>3. m # Len(list)
      BY <3>1, <3>2 DEF Closed
    <3>4. m \in 1..(Len(list) - 1)
      BY <1>1, <3>3
    <3>. HIDE DEF o
    <3>. QED  BY <1>1, <2>1, <3>1, <3>4
  <2>3. CASE ~IsOpen(list)
    <3>1. o = Append(list, NewAgentBlock)
      BY <2>3 DEF Opened
    <3>2. Len(o) = Len(list) + 1 /\ \A i \in 1..Len(list) : o[i] = list[i]
      <4>. DEFINE n == NewAgentBlock
      <4>1. list \in Seq(Block \union {n}) /\ n \in Block \union {n} /\ o = Append(list, n)
        BY <1>1, <3>1
      <4>. HIDE DEF n, o
      <4>. QED  BY <4>1, AppendProperties
    <3>. HIDE DEF o
    <3>3. Len(o) - 1 = Len(list)
      BY <1>1, <3>2
    <3>. QED  BY <1>1, <2>1, <3>2, <3>3
  <2>. QED  BY <2>2, <2>3
<1>5. CASE f.kind # "user" /\ f.kind \notin AnswerKinds
  BY <1>1, <1>5 DEF Reduce
<1>. QED  BY <1>3, <1>4, <1>5

LEMMA BuildKeepsClosed ==
  ASSUME NEW frames \in Seq(FrameLike), NEW list, NEW r \in [0..Len(frames) -> Blocks],
         Builds(r, list, frames, Len(frames)), NEW a \in 0..Len(frames), NEW m, Closed(r[a], m)
  PROVE  m \in 1..Len(r[Len(frames)]) /\ r[Len(frames)][m] = r[a][m]
<1>. DEFINE N == Len(frames)
            T == {k \in 0..N : k >= a => m \in 1..Len(r[k]) /\ r[k][m] = r[a][m]}
<1>1. N \in Nat /\ N \in 0..N /\ \A k \in 1..N : frames[k] \in FrameLike
  OBVIOUS
<1>. HIDE DEF N
<1>2. a \in 0..N /\ a \in Nat
  BY <1>1 DEF N
<1>3. 0 \in T
  BY <1>1, <1>2 DEF Closed
<1>4. ASSUME NEW k \in 0..N, k \in T, k < N PROVE k + 1 \in T
  <2>1. k + 1 \in 1..N /\ (k + 1) - 1 = k /\ k + 1 \in 0..N
    BY <1>1, <1>4
  <2>2. r[k + 1] = Reduce(r[k], frames[k + 1]) /\ r[k] \in Blocks /\ frames[k + 1] \in FrameLike
    BY <1>1, <2>1 DEF Builds, N
  <2>3. CASE k + 1 = a
    BY <1>1, <2>1, <2>3 DEF Closed
  <2>4. CASE k >= a
    <3>1. m \in 1..Len(r[k]) /\ r[k][m] = r[a][m]
      BY <1>4, <2>4
    <3>2. Closed(r[k], m)
      BY <3>1 DEF Closed
    <3>3. m \in 1..Len(r[k + 1]) /\ r[k + 1][m] = r[k][m]
      BY <2>2, <3>2, ReduceKeepsClosed
    <3>. QED  BY <2>1, <3>1, <3>3
  <2>5. CASE k + 1 < a
    BY <1>2, <2>1, <2>5
  <2>. QED  BY <1>2, <2>3, <2>4, <2>5
<1>5. \A k \in 0..N : k \in T /\ k < N => k + 1 \in T
  BY <1>4
<1>6. \A k \in 0..N : k \in T
  <2>. HIDE DEF T
  <2>. QED  BY <1>1, <1>3, <1>5, UpTo
<1>7. N \in T /\ N >= a
  BY <1>1, <1>2, <1>6
<1>. QED  BY <1>7 DEF N

-----------------------------------------------------------------------------
(* The frame of an event in the history, and in the trimmed one.             *)
TextDelta(e) == e.type = "assistant/chunk" /\ e.note = "text-delta"
FrameOf(e, f, c) ==
  /\ f \in FrameLike /\ c \in FrameLike
  /\ f.kind = "turn_end" <=> e.type = "turn/end"
  /\ f.kind = "message" <=> e.type = "assistant/message"
  /\ IsChunk(f, "text-delta") <=> TextDelta(e)
  /\ TextDelta(e) => f.words = e.words
  /\ c.kind = "turn_end" <=> e.type = "turn/end"
  /\ c.kind = "turn_end" => c.note = e.note
  /\ c.kind = "message" => e.type = "assistant/message"
  /\ c.kind = "user" => e.type = "user/message"
  /\ c.kind \in AnswerKinds => e.type \in WorkTypes
  /\ IsChunk(c, "text-delta") => TextDelta(e)

LEMMA FramesOfLog ==
  ASSUME log \in Seq(EventLike), NEW k \in 1..Len(log)
  PROVE  FrameOf(log[k], MapEvents(log)[k], CompactHistory(MapEvents(log))[k])
<1>. DEFINE e == log[k]  h == MapEvents(log)  f == h[k]  c == CompactHistory(h)[k]
            p == [kind |-> KindOf(e.type), seq |-> k, words |-> e.words, note |-> e.note]
<1>1. k \in Nat /\ e \in EventLike
  OBVIOUS
<1>2. h \in Seq(FrameLike) /\ k \in DOMAIN h /\ k \in 1..Len(h) /\ f = EventPayload(e, k)
  <2>1. h \in Seq(FrameLike) /\ Len(h) = Len(log) /\ f = EventPayload(e, k)
    BY MapIs
  <2>. HIDE DEF h
  <2>. QED  BY <2>1
<1>3. e.type \in Types /\ e.note \in Notes
  BY <1>1 DEF EventLike
<1>4. /\ KindOf(e.type) = "turn_end" <=> e.type = "turn/end"
      /\ KindOf(e.type) = "message" <=> e.type = "assistant/message"
      /\ KindOf(e.type) = "chunk" <=> e.type = "assistant/chunk"
      /\ KindOf(e.type) = "user" <=> e.type = "user/message"
      /\ KindOf(e.type) \in AnswerKinds => e.type \in WorkTypes
  BY <1>3 DEF Types, KindOf, WorkTypes, AnswerKinds
<1>5. f = IF KindOf(e.type) = "none" \/ (e.type = "assistant/chunk" /\ e.note \notin ChunkTypes)
          THEN NoFrame ELSE p
  BY <1>2 DEF EventPayload, Frame
<1>6. f \in FrameLike
  BY <1>1, <1>2, PayloadIs
<1>7. "none" \notin AnswerKinds /\ NoFrame.kind = "none" /\ NoFrame \in FrameLike
  BY NoFrameIs DEF AnswerKinds
<1>8. p.kind = KindOf(e.type) /\ p.words = e.words /\ p.note = e.note
  OBVIOUS
<1>9. /\ c \in FrameLike /\ (c = NoFrame \/ (c.kind = f.kind /\ c.note = f.note))
      /\ f.kind # "chunk" => c = f
  <2>1. /\ c \in FrameLike /\ (c = Merged(h, k) \/ c = NoFrame)
        /\ f.kind # "chunk" => c = f
    <3>. HIDE DEF h
    <3>1. /\ CompactHistory(h) \in Seq(FrameLike) /\ Len(CompactHistory(h)) = Len(h)
          /\ Kept(h, k) => c = Merged(h, k)
          /\ ~Kept(h, k) => c = NoFrame
          /\ f.kind # "chunk" => c = f
      BY <1>2, CompactIs
    <3>2. c \in FrameLike
      BY <1>2, <3>1
    <3>. QED  BY <3>1, <3>2
  <2>2. Merged(h, k).kind = f.kind /\ Merged(h, k).note = f.note /\ Merged(h, k) \in FrameLike
    <3>. HIDE DEF h
    <3>. QED  BY <1>2, MergedIs
  <2>. HIDE DEF h, f, c
  <2>. QED  BY <2>1, <2>2, NoFrameIs
<1>. HIDE DEF f, c, p, e, h
<1>10. /\ f.kind = "turn_end" <=> e.type = "turn/end"
       /\ f.kind = "message" <=> e.type = "assistant/message"
       /\ f.kind = "turn_end" => f.note = e.note
       /\ f.kind = "user" => e.type = "user/message"
       /\ f.kind \in AnswerKinds => e.type \in WorkTypes
  BY <1>3, <1>4, <1>5, <1>7, <1>8
<1>11. /\ IsChunk(f, "text-delta") <=> TextDelta(e)
       /\ TextDelta(e) => f.words = e.words
  <2>1. "text-delta" \in ChunkTypes
    BY DEF ChunkTypes
  <2>. QED  BY <1>3, <1>4, <1>5, <1>7, <1>8, <2>1 DEF IsChunk, TextDelta
<1>12. /\ c.kind = "turn_end" <=> e.type = "turn/end"
       /\ c.kind = "turn_end" => c.note = e.note
       /\ c.kind = "message" => e.type = "assistant/message"
       /\ c.kind = "user" => e.type = "user/message"
       /\ c.kind \in AnswerKinds => e.type \in WorkTypes
  BY <1>7, <1>9, <1>10
<1>13. IsChunk(c, "text-delta") => TextDelta(e)
  BY <1>7, <1>9, <1>11 DEF IsChunk
<1>. QED  BY <1>6, <1>9, <1>10, <1>11, <1>12, <1>13 DEF FrameOf, e, f, c, h

(* The segments of the history are the turns.                                *)
LEMMA SegmentIs ==
  ASSUME log \in Seq(EventLike), NEW i \in Ends, NEW j \in TurnOf(i)
  PROVE  SegmentOf(MapEvents(log), j) = TurnOf(i)
<1>. DEFINE N == Len(log)  h == MapEvents(log)
<1>1. N \in Nat /\ DOMAIN log = 1..N
  OBVIOUS
<1>2. DOMAIN h = 1..N
  <2>1. h \in Seq(FrameLike) /\ Len(h) = N
    BY MapIs
  <2>. HIDE DEF h, N
  <2>. QED  BY <2>1
<1>3. \A k \in 1..N : h[k].kind = "turn_end" <=> k \in Ends
  <2>1. \A k \in 1..N : FrameOf(log[k], h[k], CompactHistory(h)[k])
    BY FramesOfLog
  <2>. HIDE DEF h, N
  <2>. QED  BY <1>1, <2>1 DEF FrameOf, Ends
<1>4. i \in 1..N /\ Ends \subseteq 1..N /\ j \in 1..i /\ \A k \in Ends : k < j \/ k >= i
  BY <1>1 DEF Ends, TurnOf
<1>. HIDE DEF h, N
<1>5. ASSUME NEW n \in SegmentOf(h, j) PROVE n \in TurnOf(i)
  <2>1. n \in 1..N /\ \A k \in j..(n - 1) \union n..(j - 1) : h[k].kind # "turn_end"
    BY <1>2 DEF SegmentOf
  <2>2. \A k \in Ends : ~(j <= k /\ k <= n - 1) /\ ~(n <= k /\ k <= j - 1)
    BY <1>1, <1>3, <1>4, <2>1
  <2>3. n <= i
    BY <1>1, <1>4, <2>1, <2>2
  <2>4. \A k \in Ends : k < n \/ k >= i
    BY <1>1, <1>4, <2>1, <2>2
  <2>. QED  BY <1>1, <1>4, <2>1, <2>3, <2>4 DEF TurnOf
<1>6. ASSUME NEW n \in TurnOf(i) PROVE n \in SegmentOf(h, j)
  <2>1. n \in 1..i /\ \A k \in Ends : k < n \/ k >= i
    BY DEF TurnOf
  <2>2. ASSUME NEW k \in j..(n - 1) \union n..(j - 1) PROVE h[k].kind # "turn_end"
    <3>1. k \in 1..N /\ k < i
      BY <1>1, <1>4, <2>1
    <3>2. k \notin Ends
      BY <1>1, <1>4, <2>1, <3>1
    <3>. QED  BY <1>3, <3>1, <3>2
  <2>3. n \in 1..N
    BY <1>1, <1>4, <2>1
  <2>. QED  BY <1>2, <2>2, <2>3 DEF SegmentOf
<1>7. SegmentOf(h, j) \subseteq TurnOf(i) /\ TurnOf(i) \subseteq SegmentOf(h, j)
  BY <1>5, <1>6
<1>. QED  BY <1>7 DEF h

(* A turn that nothing interrupted starts once, before all it does.          *)
StartsAt(i, s) ==
  /\ s \in TurnOf(i) /\ s < i
  /\ \A k \in (s + 1)..(i - 1) : log[k].type \notin {"user/message", "turn/end"}
  /\ \A j \in TurnOf(i) : log[j].type \in WorkTypes => s < j

LEMMA TurnStarts ==
  ASSUME log \in Seq(EventLike), Grammar(log), NEW i \in Ends, ~Interrupted(i)
  PROVE  \E s \in Nat : StartsAt(i, s)
<1>. DEFINE N == Len(log)  S == TurnOf(i)
<1>1. N \in Nat /\ DOMAIN log = 1..N
  OBVIOUS
<1>2. i \in 1..N /\ log[i].type = "turn/end" /\ Ends \subseteq 1..N
      /\ \A k \in 1..N : log[k].type = "turn/end" <=> k \in Ends
  BY <1>1 DEF Ends
<1>. HIDE DEF N
<1>3. S \subseteq 1..i /\ \A n \in 1..i : n \in S <=> \A k \in Ends : k < n \/ k >= i
  BY DEF TurnOf
<1>4. ASSUME NEW j \in S, log[j].type \in WorkTypes
      PROVE  \E s \in S : /\ s < j /\ log[s].type = "turn/start"
                          /\ \A k \in (s + 1)..(j - 1) : log[k].type \notin {"user/message", "turn/end"}
  <2>1. j \in 1..N /\ j \in 1..i
    BY <1>1, <1>2, <1>3
  <2>2. PICK s \in 1..(j - 1) : /\ log[s].type = "turn/start"
                                /\ \A k \in (s + 1)..(j - 1) : log[k].type \notin {"user/message", "turn/end"}
    BY <1>4, <2>1 DEF Grammar, Rooted, N
  <2>3. s \in 1..i /\ s < j
    BY <1>1, <1>2, <2>1
  <2>4. ASSUME NEW k \in Ends, k >= s, k < i PROVE FALSE
    <3>1. k \in 1..N /\ log[k].type = "turn/end"
      BY <1>2, <2>4
    <3>2. k # s
      BY <2>2, <3>1
    <3>3. k < j
      BY <1>1, <1>2, <1>3, <2>1, <2>4, <3>1
    <3>4. k \in (s + 1)..(j - 1)
      BY <2>1, <2>3, <2>4, <3>1, <3>2, <3>3
    <3>. QED  BY <2>2, <3>1, <3>4
  <2>5. \A k \in Ends : k < s \/ k >= i
    BY <1>1, <1>2, <2>3, <2>4
  <2>. QED  BY <1>3, <2>2, <2>3, <2>5
<1>5. i \in S
  BY <1>1, <1>2, <1>3
<1>6. PICK s \in S : /\ s < i /\ log[s].type = "turn/start"
                     /\ \A k \in (s + 1)..(i - 1) : log[k].type \notin {"user/message", "turn/end"}
  BY <1>2, <1>4, <1>5 DEF WorkTypes
<1>7. \A t \in S : log[t].type = "turn/start" => t = s
  <2>. DEFINE A == {n \in S : log[n].type = "turn/start"}
  <2>1. IsFiniteSet(A)
    <3>1. IsFiniteSet(1..i)
      BY <1>1, <1>2, FS_Interval
    <3>2. A \subseteq 1..i
      BY <1>3
    <3>. QED  BY <3>1, <3>2, FS_Subset
  <2>2. ~(Cardinality(A) > 1)
    BY DEF Interrupted
  <2>. SUFFICES ASSUME NEW t \in S, log[t].type = "turn/start", t # s PROVE FALSE
    OBVIOUS
  <2>3. t \in A /\ s \in A
    BY <1>6
  <2>. HIDE DEF A
  <2>4. {s} \subseteq A /\ {s} # A
    BY <2>3
  <2>5. Cardinality({s}) = 1 /\ IsFiniteSet({s})
    BY FS_Singleton
  <2>6. Cardinality({s}) < Cardinality(A) /\ Cardinality(A) \in Nat
    BY <2>1, <2>4, FS_Subset, FS_CardinalityType
  <2>. QED  BY <2>2, <2>5, <2>6
<1>8. \A j \in S : log[j].type \in WorkTypes => s < j
  BY <1>4, <1>7
<1>9. s \in Nat
  BY <1>1, <1>2, <1>3
<1>. QED  BY <1>6, <1>8, <1>9 DEF StartsAt

(* When the turn starts, no answer is open: what was streamed before it, and *)
(* not closed, would be of a turn that it interrupted.                       *)
LEMMA TurnOpens ==
  ASSUME log \in Seq(EventLike), Grammar(log), NEW i \in Ends, NEW s \in Nat, StartsAt(i, s),
         NEW r \in [0..Len(log) -> Blocks],
         Builds(r, <<>>, CompactHistory(MapEvents(log)), Len(log))
  PROVE  StreamOf(r[s]) = <<>>
<1>. DEFINE N == Len(log)  c == CompactHistory(MapEvents(log))
            Since(k) == \E j \in 1..k : /\ log[j].type \in WorkTypes
                                        /\ \A n \in j..k : log[n].type # "turn/end"
            T == {k \in 0..N : IsOpen(r[k]) => Since(k)}
<1>1. N \in Nat /\ DOMAIN log = 1..N
  OBVIOUS
<1>2. \A k \in 1..N : FrameOf(log[k], MapEvents(log)[k], c[k])
  BY FramesOfLog
<1>3. r[0] = <<>> /\ \A k \in 1..N : r[k] = Reduce(r[k - 1], c[k])
  BY DEF Builds
<1>4. i \in 1..N /\ Ends \subseteq 1..N /\ \A k \in 1..N : log[k].type = "turn/end" => k \in Ends
  BY <1>1 DEF Ends
<1>5. r \in [0..N -> Blocks]
  OBVIOUS
<1>. HIDE DEF N, c
<1>6. 0 \in T
  BY <1>1, <1>3 DEF IsOpen
<1>7. ASSUME NEW k \in 0..N, k \in T, k < N PROVE k + 1 \in T
  <2>1. k + 1 \in 1..N /\ (k + 1) - 1 = k /\ k + 1 \in 0..N
    BY <1>1, <1>7
  <2>2. r[k + 1] = Reduce(r[k], c[k + 1]) /\ r[k] \in Blocks
    BY <1>3, <1>5, <2>1
  <2>3. FrameOf(log[k + 1], MapEvents(log)[k + 1], c[k + 1])
    BY <1>2, <2>1
  <2>4. /\ c[k + 1] \in FrameLike
        /\ c[k + 1].kind = "turn_end" => c[k + 1].note # "open"
        /\ c[k + 1].kind = "turn_end" <=> log[k + 1].type = "turn/end"
        /\ c[k + 1].kind \in AnswerKinds => log[k + 1].type \in WorkTypes
    BY <2>1, <2>3 DEF FrameOf, Grammar, N
  <2>. SUFFICES ASSUME IsOpen(r[k + 1]) PROVE Since(k + 1)
    BY <2>1
  <2>5. c[k + 1].kind \in AnswerKinds \ {"turn_end"} \/ (IsOpen(r[k]) /\ c[k + 1].kind # "turn_end")
    BY <2>2, <2>4, ReduceOpenOnly
  <2>6. CASE c[k + 1].kind \in AnswerKinds \ {"turn_end"}
    <3>1. \A n \in (k + 1)..(k + 1) : n = k + 1
      BY <2>1
    <3>. QED  BY <2>1, <2>4, <2>6, <3>1
  <2>7. CASE IsOpen(r[k]) /\ c[k + 1].kind # "turn_end"
    <3>1. PICK j \in 1..k : log[j].type \in WorkTypes /\ \A n \in j..k : log[n].type # "turn/end"
      BY <1>7, <2>7
    <3>2. j \in 1..(k + 1) /\ \A n \in j..(k + 1) : n \in j..k \/ n = k + 1
      BY <2>1
    <3>. QED  BY <2>4, <2>7, <3>1, <3>2
  <2>. QED  BY <2>5, <2>6, <2>7
<1>8. \A k \in 0..N : k \in T /\ k < N => k + 1 \in T
  BY <1>7
<1>9. \A k \in 0..N : k \in T
  <2>. HIDE DEF T
  <2>. QED  BY <1>1, <1>6, <1>8, UpTo
<1>10. s \in 0..N /\ s \in 1..i /\ (\A k \in Ends : k < s \/ k >= i) /\ s < i
       /\ \A j \in TurnOf(i) : log[j].type \in WorkTypes => s < j
  BY <1>1, <1>4 DEF StartsAt, TurnOf
<1>11. ~IsOpen(r[s])
  <2>. SUFFICES ASSUME IsOpen(r[s]) PROVE FALSE
    OBVIOUS
  <2>1. s \in T
    BY <1>9, <1>10
  <2>2. PICK j \in 1..s : log[j].type \in WorkTypes /\ \A n \in j..s : log[n].type # "turn/end"
    BY <2>1
  <2>3. j \in 1..i /\ j <= s
    BY <1>4, <1>10
  <2>4. ASSUME NEW k \in Ends PROVE k < j \/ k >= i
    <3>1. k \in 1..N /\ log[k].type = "turn/end"
      BY <1>4 DEF Ends
    <3>2. ~(k \in j..s)
      BY <2>2, <3>1
    <3>. QED  BY <1>4, <1>10, <2>3, <3>1, <3>2
  <2>5. j \in TurnOf(i)
    BY <2>3, <2>4 DEF TurnOf
  <2>. QED  BY <1>10, <2>2, <2>3, <2>5
<1>. QED  BY <1>11 DEF StreamOf

LEMMA Least ==
  ASSUME NEW D, D \subseteq Nat, D # {}
  PROVE  \E f \in D : \A j \in D : f <= j
<1>. DEFINE R == {ss \in Nat \X Nat : ss[1] < ss[2]}
<1>1. IsWellFoundedOn(R, Nat)
  BY NatLessThanWellFounded DEF OpToRel
<1>2. \A x, y \in Nat : x < y <=> <<x, y>> \in R
  OBVIOUS
<1>. HIDE DEF R
<1>3. PICK f \in D : \A j \in D : ~ (<<j, f>> \in R)
  BY <1>1, WFMin
<1>4. \A j \in D : j \in Nat /\ f \in Nat /\ ~(j < f)
  BY <1>2, <1>3
<1>5. \A j \in D : f <= j
  BY <1>4
<1>. QED  BY <1>5

(* The trimmed history has the words of a turn that was cut in one frame,    *)
(* and nothing in it that would put them away.                               *)
CutAt(c, i, s, f) ==
  /\ f \in (s + 1)..(i - 1) /\ IsChunk(c[f], "text-delta") /\ c[f].words = Deltas(i)
  /\ \A k \in (s + 1)..(i - 1) : /\ c[k].kind \notin {"user", "message", "turn_end"}
                                 /\ IsChunk(c[k], "text-delta") => k = f

LEMMA CutWords ==
  ASSUME log \in Seq(EventLike), NEW i \in Ends, Wordless(i), Deltas(i) # <<>>, NEW s \in Nat, StartsAt(i, s)
  PROVE  Deltas(i) \in Words /\ \E f \in Nat : CutAt(CompactHistory(MapEvents(log)), i, s, f)
<1>. DEFINE N == Len(log)  h == MapEvents(log)  c == CompactHistory(h)  S == TurnOf(i)
            D == {j \in S : TextDelta(log[j])}
            d == [j \in 1..N |-> IF j \in D THEN log[j].words ELSE <<>>]
<1>1. N \in Nat /\ DOMAIN log = 1..N /\ \A j \in 1..N : log[j] \in EventLike
  OBVIOUS
<1>2. h \in Seq(FrameLike) /\ Len(h) = N /\ DOMAIN h = 1..N
  <2>1. h \in Seq(FrameLike) /\ Len(h) = N
    BY MapIs
  <2>. HIDE DEF h, N
  <2>. QED  BY <2>1
<1>3. \A k \in 1..N : FrameOf(log[k], h[k], c[k])
  BY FramesOfLog
<1>4. \A j \in S : SegmentOf(h, j) = S
  BY SegmentIs
<1>5. i \in 1..N /\ log[i].type = "turn/end" /\ Ends \subseteq 1..N
  BY <1>1 DEF Ends
<1>. HIDE DEF N, h
<1>6. /\ \A k \in 1..N : Kept(h, k) => c[k] = Merged(h, k)
      /\ \A k \in 1..N : ~Kept(h, k) => c[k] = NoFrame
  BY <1>2, CompactIs
<1>. HIDE DEF c
<1>7. S \subseteq 1..N /\ \A n \in 1..i : n \in S <=> \A k \in Ends : k < n \/ k >= i
  BY <1>1, <1>5 DEF TurnOf
<1>8. Deltas(i) = FlattenSeq(d) /\ d \in Seq(Words)
  <2>1. Deltas(i) = FlattenSeq(d)
    <3>1. d = [j \in DOMAIN log |-> IF j \in TurnOf(i) /\ log[j].type = "assistant/chunk" /\ log[j].note = "text-delta"
                                    THEN log[j].words ELSE <<>>]
      BY <1>1 DEF TextDelta
    <3>. HIDE DEF d
    <3>. QED  BY <3>1 DEF Deltas
  <2>2. \A j \in 1..N : log[j].words \in Words
    BY <1>1 DEF EventLike
  <2>3. <<>> \in Words
    BY DEF Words
  <2>4. \A j \in 1..N : (IF j \in D THEN log[j].words ELSE <<>>) \in Words
    BY <2>2, <2>3
  <2>5. d \in Seq(Words)
    <3>. HIDE DEF D
    <3>. QED  BY <1>1, <2>4
  <2>. QED  BY <2>1, <2>5
<1>9. Deltas(i) \in Words
  <2>. HIDE DEF d
  <2>. QED  BY <1>8, FlattenTyped DEF Words
<1>10. D # {}
  <2>. SUFFICES ASSUME D = {} PROVE FALSE
    OBVIOUS
  <2>1. \A j \in DOMAIN d : d[j] = <<>>
    OBVIOUS
  <2>. HIDE DEF d
  <2>2. FlattenSeq(d) = <<>>
    BY <1>8, <2>1, FlattenEmpty DEF Words
  <2>. QED  BY <1>8, <2>2
<1>11. D \subseteq S /\ D \subseteq 1..N /\ \A j \in S : j \in D <=> TextDelta(log[j])
  BY <1>7
<1>. DEFINE least == CHOOSE f \in D : \A j \in D : f <= j
<1>12. least \in D /\ \A j \in D : least <= j
  <2>1. D \subseteq Nat
    BY <1>1, <1>11
  <2>. HIDE DEF D
  <2>2. \E f \in D : \A j \in D : f <= j
    BY <1>10, <2>1, Least
  <2>. QED  BY <2>2
<1>. HIDE DEF D, least
<1>13. \A k \in D : SameType(h, k) = D /\ h[k].kind = "chunk" /\ h[k].note = "text-delta" /\ k \in 1..N
  <2>. SUFFICES ASSUME NEW k \in D
                PROVE  SameType(h, k) = D /\ h[k].kind = "chunk" /\ h[k].note = "text-delta" /\ k \in 1..N
    OBVIOUS
  <2>1. \A j \in S : IsChunk(h[j], "text-delta") <=> j \in D
    BY <1>3, <1>7, <1>11 DEF FrameOf
  <2>2. h[k].kind = "chunk" /\ h[k].note = "text-delta"
    BY <1>11, <2>1 DEF IsChunk
  <2>3. SameType(h, k) = {j \in S : IsChunk(h[j], "text-delta")}
    BY <1>4, <1>11, <2>2 DEF SameType
  <2>4. SameType(h, k) = D
    BY <1>11, <2>1, <2>3
  <2>. QED  BY <1>11, <2>2, <2>4
<1>14. \A k \in D : k # least => c[k] = NoFrame
  <2>. SUFFICES ASSUME NEW k \in D, k # least PROVE c[k] = NoFrame
    OBVIOUS
  <2>1. least <= k /\ ~(k <= least)
    BY <1>1, <1>11, <1>12
  <2>2. ~Kept(h, k)
    BY <1>12, <1>13, <2>1 DEF Kept
  <2>. QED  BY <1>6, <1>11, <2>2
<1>15. IsChunk(c[least], "text-delta") /\ c[least].words = Deltas(i)
  <2>1. ~HasMessage(h, least)
    <3>1. \A j \in S : h[j].kind # "message"
      BY <1>3, <1>7 DEF FrameOf, Wordless
    <3>. QED  BY <1>4, <1>11, <1>12, <3>1 DEF HasMessage
  <2>2. Kept(h, least)
    BY <1>12, <1>13, <2>1 DEF Kept
  <2>3. c[least] = Merged(h, least) /\ least \in DOMAIN h
    BY <1>2, <1>6, <1>11, <1>12, <2>2
  <2>4. /\ c[least].kind = "chunk" /\ c[least].note = "text-delta"
        /\ c[least].words = FlattenSeq(ChunkWords(h, least))
    BY <1>2, <1>12, <1>13, <2>3, MergedIs
  <2>5. ChunkWords(h, least) = d
    <3>1. ChunkWords(h, least) = [n \in 1..N |-> IF n \in D THEN h[n].words ELSE <<>>]
      BY <1>2, <1>12, <1>13 DEF ChunkWords
    <3>2. \A n \in D : h[n].words = log[n].words
      BY <1>3, <1>11 DEF FrameOf
    <3>. QED  BY <3>1, <3>2
  <2>. HIDE DEF d
  <2>. QED  BY <1>8, <2>4, <2>5 DEF IsChunk
<1>16. s < i /\ s \in S /\ \A k \in (s + 1)..(i - 1) : log[k].type \notin {"user/message", "turn/end"}
  BY DEF StartsAt
<1>17. least \in (s + 1)..(i - 1)
  <2>1. TextDelta(log[least]) /\ least \in S
    BY <1>11, <1>12
  <2>2. s < least
    BY <2>1 DEF TextDelta, StartsAt, WorkTypes
  <2>3. least # i
    BY <1>5, <2>1 DEF TextDelta
  <2>4. least \in 1..i
    BY <2>1 DEF TurnOf
  <2>. QED  BY <1>1, <1>5, <2>2, <2>3, <2>4
<1>18. ASSUME NEW k \in (s + 1)..(i - 1)
       PROVE  c[k].kind \notin {"user", "message", "turn_end"} /\ (IsChunk(c[k], "text-delta") => k = least)
  <2>1. k \in 1..N /\ k \in 1..i /\ s < k
    BY <1>1, <1>5, <1>16
  <2>2. s \in 1..i /\ \A e \in Ends : e < s \/ e >= i
    BY <1>16 DEF TurnOf
  <2>3. \A e \in Ends : e < k \/ e >= i
    <3>. SUFFICES ASSUME NEW e \in Ends, e < s PROVE e < k
      BY <2>2
    <3>1. e \in 1..N
      BY <1>5
    <3>. QED  BY <1>1, <2>1, <3>1
  <2>4. k \in S
    BY <1>7, <2>1, <2>3
  <2>5. FrameOf(log[k], h[k], c[k])
    BY <1>3, <2>1
  <2>6. log[k].type \notin {"user/message", "turn/end", "assistant/message"}
    BY <1>16, <2>4 DEF Wordless
  <2>7. c[k].kind \notin {"user", "message", "turn_end"}
    BY <2>5, <2>6 DEF FrameOf
  <2>8. ASSUME IsChunk(c[k], "text-delta"), k # least PROVE FALSE
    <3>1. k \in D
      BY <1>11, <2>4, <2>5, <2>8 DEF FrameOf
    <3>2. c[k] = NoFrame
      BY <1>14, <2>8, <3>1
    <3>. QED  BY <2>8, <3>2, NoFrameIs DEF IsChunk
  <2>. QED  BY <2>7, <2>8
<1>19. CutAt(c, i, s, least)
  BY <1>15, <1>17, <1>18 DEF CutAt
<1>20. least \in Nat
  BY <1>1, <1>11, <1>12
<1>. QED  BY <1>9, <1>19, <1>20 DEF c, h

LEMMA CutReadsBack ==
  ASSUME log \in Seq(EventLike), Grammar(log), NEW frames \in Seq(FrameLike), NEW i \in Ends,
         Wordless(i), ~Interrupted(i), Deltas(i) # <<>>
  PROVE  \E b \in ToSet(Loaded(log, frames)) :
           b.role = "agent" /\ b.streamed = Deltas(i) /\ b.reason = log[i].note
<1>. DEFINE N == Len(log)  h == MapEvents(log)  c == CompactHistory(h)  W == Deltas(i)
            base == Build(<<>>, c)  rest == Lacking(frames, c, base)
<1>1. N \in Nat /\ DOMAIN log = 1..N
  OBVIOUS
<1>2. i \in 1..N /\ log[i].type = "turn/end"
  BY <1>1 DEF Ends
<1>3. PICK s \in Nat : StartsAt(i, s)
  BY TurnStarts
<1>4. W \in Words /\ \E f \in Nat : CutAt(c, i, s, f)
  BY <1>3, CutWords
<1>5. PICK f \in Nat : CutAt(c, i, s, f)
  BY <1>4
<1>6. \A k \in 1..N : FrameOf(log[k], h[k], c[k])
  BY FramesOfLog
<1>7. c \in Seq(FrameLike) /\ Len(c) = N /\ \A k \in 1..N : c[k] \in FrameLike
  <2>1. c \in Seq(FrameLike) /\ Len(c) = N
    BY HistorySays
  <2>. HIDE DEF c, N
  <2>. QED  BY <1>1, <2>1
<1>8. PICK r \in [0..N -> Blocks] : Builds(r, <<>>, c, N) /\ base = r[N]
  <2>. HIDE DEF c
  <2>. QED  BY <1>7, EmptyReads, BuildRuns DEF HasBuild
<1>9. StreamOf(r[s]) = <<>>
  BY <1>3, <1>8, TurnOpens
<1>10. Loaded(log, frames) = Build(base, rest)
  BY DEF Loaded
<1>11. rest \in Seq(FrameLike)
  <2>. HIDE DEF c, base
  <2>. QED  BY LackingIs DEF rest
<1>. HIDE DEF h, c, N, W, base, rest
<1>12. s \in 1..(i - 1) /\ s < i /\ i \in Nat
  BY <1>1, <1>2, <1>3 DEF StartsAt, TurnOf
<1>13. \A k \in 1..N : r[k] = Reduce(r[k - 1], c[k]) /\ r[k - 1] \in Blocks
  BY <1>1, <1>8 DEF Builds
(* The words are in the open answer from their frame to the end of the turn. *)
<1>. DEFINE T == {k \in 0..N : k \in s..(i - 1) => StreamOf(r[k]) = IF f <= k THEN W ELSE <<>>}
<1>14. 0 \in T
  BY <1>1, <1>12
<1>15. ASSUME NEW k \in 0..N, k \in T, k < N PROVE k + 1 \in T
  <2>1. k + 1 \in 1..N /\ (k + 1) - 1 = k /\ k + 1 \in 0..N
    BY <1>1, <1>15
  <2>. SUFFICES ASSUME k + 1 \in s..(i - 1) PROVE StreamOf(r[k + 1]) = IF f <= k + 1 THEN W ELSE <<>>
    BY <2>1
  <2>2. f \in (s + 1)..(i - 1) /\ IsChunk(c[f], "text-delta") /\ c[f].words = W
    BY <1>5 DEF CutAt, W
  <2>3. CASE k + 1 = s
    <3>1. ~(f <= k + 1)
      BY <1>12, <2>2, <2>3
    <3>. QED  BY <1>9, <2>3, <3>1
  <2>4. CASE k + 1 # s
    <3>1. k \in s..(i - 1) /\ k + 1 \in (s + 1)..(i - 1)
      BY <1>12, <2>1, <2>4
    <3>2. StreamOf(r[k]) = IF f <= k THEN W ELSE <<>>
      BY <1>15, <3>1
    <3>3. /\ c[k + 1].kind \notin {"user", "message", "turn_end"}
          /\ IsChunk(c[k + 1], "text-delta") => k + 1 = f
      BY <1>5, <3>1 DEF CutAt
    <3>4. r[k + 1] = Reduce(r[k], c[k + 1]) /\ r[k] \in Blocks /\ c[k + 1] \in FrameLike
      BY <1>7, <1>13, <2>1
    <3>5. StreamOf(r[k + 1]) = IF IsChunk(c[k + 1], "text-delta") THEN StreamOf(r[k]) \o c[k + 1].words
                               ELSE StreamOf(r[k])
      BY <3>3, <3>4, ReduceStream DEF IsChunk
    <3>6. CASE k + 1 = f
      <4>1. ~(f <= k) /\ f <= k + 1
        BY <2>1, <3>6
      <4>2. <<>> \o W = W
        BY <1>4, ConcatEmptySeq DEF Words
      <4>. QED  BY <2>2, <3>2, <3>5, <3>6, <4>1, <4>2
    <3>7. CASE k + 1 # f
      <4>1. f <= k <=> f <= k + 1
        BY <2>1, <2>2, <3>7
      <4>. QED  BY <3>2, <3>3, <3>5, <3>7, <4>1
    <3>. QED  BY <3>6, <3>7
  <2>. QED  BY <2>3, <2>4
<1>16. \A k \in 0..N : k \in T /\ k < N => k + 1 \in T
  BY <1>15
<1>17. \A k \in 0..N : k \in T
  <2>. HIDE DEF T
  <2>. QED  BY <1>1, <1>14, <1>16, UpTo
<1>18. StreamOf(r[i - 1]) = W
  <2>1. i - 1 \in 0..N /\ i - 1 \in s..(i - 1)
    BY <1>1, <1>2, <1>12
  <2>2. f <= i - 1
    BY <1>5, <1>12 DEF CutAt
  <2>3. i - 1 \in T
    BY <1>17, <2>1
  <2>. QED  BY <2>1, <2>2, <2>3
<1>. HIDE DEF T
(* The end closes it, and closed it stays, whatever else is loaded.          *)
<1>. DEFINE m == Len(r[i])  b == r[i][m]
<1>19. /\ b.role = "agent" /\ b.streamed = W /\ b.reason = log[i].note /\ b.reason # "open"
       /\ m \in 1..Len(r[i])
  <2>1. /\ c[i] \in FrameLike /\ c[i].kind = "turn_end" /\ c[i].note = log[i].note /\ log[i].note # "open"
    BY <1>2, <1>6, <1>7 DEF FrameOf, Grammar, N
  <2>2. r[i] = Reduce(r[i - 1], c[i]) /\ r[i - 1] \in Blocks /\ r[i] \in Blocks
    BY <1>1, <1>2, <1>8, <1>13
  <2>3. /\ r[i] # <<>> /\ Last(r[i]).role = "agent"
        /\ Last(r[i]).streamed = W /\ Last(r[i]).reason = log[i].note
    BY <1>18, <2>1, <2>2, ReduceEnds
  <2>4. Last(r[i]) = b
    BY DEF Last
  <2>5. m \in Nat /\ m # 0
    BY <2>2, <2>3 DEF Blocks
  <2>. HIDE DEF b, m
  <2>6. m \in 1..m
    BY <2>5
  <2>. QED  BY <2>1, <2>3, <2>4, <2>6 DEF m
<1>20. Closed(r[i], m)
  BY <1>19 DEF Closed
<1>. HIDE DEF m, b
<1>21. m \in 1..Len(base) /\ base[m] = r[i][m]
  <2>1. i \in 0..N
    BY <1>1, <1>2
  <2>. QED  BY <1>7, <1>8, <1>20, <2>1, BuildKeepsClosed
<1>22. base \in Blocks /\ Closed(base, m)
  <2>1. base \in Blocks
    BY <1>1, <1>8
  <2>. QED  BY <1>20, <1>21, <2>1 DEF Closed
<1>. DEFINE M == Len(rest)
<1>23. M \in Nat /\ 0 \in 0..M
  BY <1>11
<1>24. PICK q \in [0..M -> Blocks] : Builds(q, base, rest, M) /\ Build(base, rest) = q[M]
  BY <1>11, <1>22, BuildRuns DEF HasBuild
<1>25. q[0] = base
  BY <1>24 DEF Builds
<1>26. m \in 1..Len(q[M]) /\ q[M][m] = q[0][m]
  BY <1>11, <1>22, <1>23, <1>24, <1>25, BuildKeepsClosed
<1>27. q[M] \in Blocks
  BY <1>23, <1>24
<1>28. b \in ToSet(q[M])
  <2>1. q[M][m] = b /\ m \in DOMAIN q[M]
    BY <1>21, <1>25, <1>26, <1>27 DEF b, Blocks
  <2>. QED  BY <2>1 DEF ToSet
<1>. QED  BY <1>10, <1>19, <1>24, <1>28 DEF W

-----------------------------------------------------------------------------
LEMMA WholeByInv ==
  ASSUME TranscriptInv
  PROVE  TranscriptIsWhole
<1>1. log \in Seq(EventLike) /\ live \in Seq(FrameLike) /\ blocks \in Blocks /\ Grammar(log) /\ Reads(blocks, log)
  BY DEF TranscriptInv, TranscriptTyped
<1>2. /\ Texts(blocks) = Logged("assistant/message")
      /\ Calls(blocks) = Logged("tool/call")
      /\ Costs(blocks) = Counted
  BY <1>1, ShownAre, LoggedAre DEF Reads
<1>3. ASSUME NEW i \in Ends, Wordless(i), ~Interrupted(i), Deltas(i) # <<>>
      PROVE  \E b \in ToSet(Loaded(log, live)) :
               b.role = "agent" /\ b.streamed = Deltas(i) /\ b.reason = log[i].note
  BY <1>1, <1>3, CutReadsBack
<1>. QED  BY <1>2, <1>3 DEF TranscriptIsWhole

(* Whatever a host logs and whenever a page loads, the page shows every       *)
(* message, tool call and usage of the log once and in order, and a load      *)
(* gives an answer that was cut before its first message the words that were *)
(* streamed: trimming a history (replay.ts), leaving out the frames it has    *)
(* (chat-wire.js) and drawing the rest (chat-reducer.js) lose and repeat      *)
(* nothing.                                                                  *)
THEOREM TranscriptReadsWhole == TranscriptSpec => []TranscriptIsWhole
<1>1. TranscriptInit => TranscriptInv
  BY TranscriptInitInv
<1>2. TranscriptInv /\ [TranscriptNext]_transcriptVars => TranscriptInv'
  BY TranscriptStepInv
<1>3. TranscriptInv => TranscriptIsWhole
  BY WholeByInv
<1>. QED  BY <1>1, <1>2, <1>3, PTL DEF TranscriptSpec
=============================================================================

------------------------------ MODULE PageProofs ------------------------------
(***************************************************************************)
(* Proofs about module ChatPage, for any number of messages and upsets and  *)
(* any bound on the stream: the cards the server keeps for what is asked,   *)
(* and that a settled page shows every answer once and in order.  The       *)
(* invariant says of every place a message can be in on its way to the page *)
(* (the live frames, the stream, what a load took and what was set aside    *)
(* meanwhile) which part of the log is there, and in which order.           *)
(***************************************************************************)
EXTENDS ChatPage, FiniteSetTheorems, SequenceTheorems, WellFoundedInduction, TLAPS

(* What a frame does to the cards.                                          *)
LEMMA CardIsRemembered ==
  ASSUME NEW kind, NEW seq, NEW m, NEW set
  PROVE  LET f == Frame(kind, seq, m)
         IN /\ set \ {m} \subseteq RememberCard(set, f)
            /\ kind = "question_asked" => m \in RememberCard(set, f)
            /\ kind # "question_resolved" => set \subseteq RememberCard(set, f)
<1>. DEFINE f == Frame(kind, seq, m)
<1>1. f.kind = kind /\ f.msg = m
  BY DEF Frame
<1>. HIDE DEF f
<1>. QED  BY <1>1 DEF RememberCard, f

(* Whatever a step does to the cards of a chat, an ask keeps its own for as *)
(* long as it is open.                                                      *)
LEMMA CardsFollowAsks ==
  ASSUME OpenAskHasACard, [PageNext]_chatPageVars
  PROVE  OpenAskHasACard'
<1>. USE DEF OpenAskHasACard
<1>1. CASE UNCHANGED <<asks, cards>>
  BY <1>1
<1>2. CASE HostWorks
  BY <1>2, CardIsRemembered DEF HostWorks, Say
<1>3. CASE HostAsks
  BY <1>3, CardIsRemembered DEF HostAsks, Say, AskFrame
<1>4. ASSUME NEW a, AskCloses(a) \/ Answered(a) PROVE OpenAskHasACard'
  BY <1>4, CardIsRemembered DEF AskCloses, Answered, Say
<1>5. CASE TurnOver
  BY <1>5, CardIsRemembered DEF TurnOver, Say
<1>6. CASE BaseTaken
  BY <1>6 DEF BaseTaken
<1>7. CASE RelayNext
  BY <1>1, <1>2, <1>3, <1>4, <1>5, <1>7 DEF RelayNext, TurnCloses, CacheExpires
<1>8. CASE CutShort
  BY <1>5, <1>8 DEF CutShort
<1>9. CASE \E a \in Sendable : AnswerHere(a)
  BY <1>4, <1>9 DEF AnswerHere
<1>10. CASE Deliver \/ HistoryRead \/ LoadApplies \/ LoadFails
  BY <1>1, <1>10 DEF Deliver, HistoryRead, LoadApplies, LoadFails, relayVars
<1>11. CASE Sends \/ OtherTabSends \/ PostReturns
  BY <1>1, <1>11 DEF Sends, OtherTabSends, PostReturns, PostMessage, relayVars
<1>12. CASE StreamOpens \/ StreamBreaks \/ Hides \/ Shows
  BY <1>1, <1>12 DEF StreamOpens, StreamBreaks, Hides, Shows, Cut, relayVars
<1>13. CASE UNCHANGED chatPageVars
  BY <1>1, <1>13 DEF chatPageVars, relayVars
<1>. QED  BY <1>6, <1>7, <1>8, <1>9, <1>10, <1>11, <1>12, <1>13 DEF PageNext

(* What the agent asks can be answered while the host has it open: the      *)
(* manager keeps its card over the ends of turns, reloads and answers given *)
(* elsewhere (updatePendingCard of routes/chat.ts), for any messages.       *)
THEOREM AsksCanBeAnswered == PageSpec => []OpenAskHasACard
<1>1. PageInit => OpenAskHasACard
  BY DEF PageInit, RelayInit, OpenAskHasACard
<1>. QED  BY <1>1, CardsFollowAsks, PTL DEF PageSpec

-----------------------------------------------------------------------------
(* The frames that are sent, the events of the log and the blocks of the    *)
(* transcript.                                                              *)
Kinds == {"user", "turn_queued", "turn_start", "message", "turn_end", "turn_done",
          "question_asked", "question_resolved"}
Frames == [kind : Kinds, seq : Nat \cup {Unnumbered}, msg : Sendable]
Events == [kind : {"user", "turn_start", "message", "turn_end"}, msg : Sendable]
Block == [role : {"user", "agent"}, said : Seq(Sendable), open : BOOLEAN]

(* y comes after x in the list; x comes before the first y.                 *)
Follows(s, x, y) == \E i, j \in DOMAIN s : i < j /\ s[i] = x /\ s[j] = y
Leads(s, x, y) == \E i \in DOMAIN s : s[i] = x /\ \A k \in 1..i : s[k] # y

(* The answers of the agent, and the frame that ends a turn.                *)
Word(f) == f.kind = "message"
Done(f) == f.kind = "turn_done"

(* The numbers of the answers in a log, and of those in a list of frames.   *)
Told(events) == {k \in 1..Len(events) : events[k].kind = "message"}
Nums(s) == {f.seq : f \in {x \in ToSet(s) : Word(x)}}

(* The answers of a list are in the order of their numbers, and each is what *)
(* the log has under its number.                                            *)
InOrder(s) == \A x, y \in ToSet(s) : Word(x) /\ Word(y) /\ Follows(s, x, y) => x.seq < y.seq
Truthful(s, events) ==
  \A f \in ToSet(s) : Word(f) => f.seq \in Told(events) /\ f.msg = events[f.seq].msg

(* The list brings the end of a turn.                                       *)
Ends(s) == \E d \in ToSet(s) : Done(d)

(* An answer up to number n is only there with the end of its turn behind it. *)
Owed(s, n) ==
  \A x \in ToSet(s) : Word(x) => x.seq > n \/ \E d \in ToSet(s) : Done(d) /\ Follows(s, x, d)

(* What the manager keeps is well typed.                                    *)
RelayTyped ==
  /\ log \in Seq(Events)
  /\ asks \subseteq Sendable /\ cards \subseteq Sendable /\ turn \in {0} \cup Sendable
  /\ sent \in 0..MaxMsgs /\ waiting \in Seq(Sendable)
  /\ live \in Seq(Frames) /\ wire.frames \in Seq(Frames)
  /\ wire = [up |-> wire.up, frames |-> wire.frames]
  /\ cache \in {Empty} \cup 0..Len(log) /\ closed \in 0..Len(log)

(* Live are the answers that were given since the last turn ended.          *)
LiveInv ==
  /\ Truthful(live, log) /\ InOrder(live)
  /\ Nums(live) = {k \in Told(log) : k > closed}
  /\ turn = 0 => closed = Len(log)

(* What is on the stream.                                                   *)
WireInv ==
  /\ conn = "open" <=> wire.up
  /\ ~wire.up => wire.frames = <<>>
  /\ Truthful(wire.frames, log) /\ InOrder(wire.frames) /\ Owed(wire.frames, closed)

(* What came and comes over the stream while a load is under way.           *)
Stream == page.buffered \o wire.frames

LoadInv ==
  /\ page.loading <=> get # Idle
  /\ page.loading => Truthful(page.buffered, log) /\ InOrder(Stream)

(* A load that took its snapshot when the log had m events, c of them of    *)
(* turns that had ended, was given the answers from c to m; the stream has  *)
(* brought or brings the later ones, and the history has the earlier ones.  *)
Covered(c, m) ==
  /\ Nums(get.live) = {k \in Told(log) : c < k /\ k <= m}
  /\ ~missed => \A k \in Told(log) : k > m => k \in Nums(Stream)
  /\ get.stage = "reading" => c <= closed
  /\ get.stage = "read" /\ ~outdated => c <= get.n

GetInv ==
  get.stage \in {"reading", "read"} =>
    /\ get.live \in Seq(Frames) /\ Truthful(get.live, log) /\ InOrder(get.live)
    /\ get.stage = "read" => get.n \in 0..Len(log)
    /\ \E c, m \in 0..Len(log) : Covered(c, m)

(* The page is well typed.                                                  *)
PageLike(p) ==
  /\ p = [blocks |-> p.blocks, dock |-> p.dock, pending |-> p.pending, shown |-> p.shown,
          buffered |-> p.buffered, loading |-> p.loading, fatal |-> p.fatal]
  /\ p.blocks \in Seq(Block) /\ p.dock \in Seq(Sendable) /\ p.pending \in Seq(Sendable)
  /\ p.buffered \in Seq(Frames)

(* Between two turns, with no load under way and no end of a turn on the    *)
(* stream (which would start one), the page shows what the log says.        *)
Settled ==
  get = Idle /\ turn = 0 /\ ~missed /\ ~outdated /\ ~page.fatal /\ ~Ends(wire.frames) =>
    Said(page.blocks) = Answers(log)

(* A reply that is on its way is to a message.                              *)
SendInv == post # "no" => sent \in Sendable

PageInv ==
  /\ RelayTyped /\ LiveInv /\ WireInv /\ LoadInv /\ GetInv
  /\ PageLike(page) /\ Settled /\ SendInv

-----------------------------------------------------------------------------
(* Induction, on the numbers up to N: for a set instead of a formula.       *)
LEMMA UpTo ==
  ASSUME NEW N \in Nat, NEW T, 0 \in T, \A n \in 0..N : n \in T /\ n < N => n + 1 \in T
  PROVE  \A n \in 0..N : n \in T
<1>. DEFINE R == {ss \in Nat \X Nat : ss[1] < ss[2]}
            Left == {n \in 0..N : n \notin T}
<1>1. IsWellFoundedOn(R, Nat)
  BY NatLessThanWellFounded DEF OpToRel
<1>2. \A x, y \in Nat : x < y <=> <<x, y>> \in R
  OBVIOUS
<1>. HIDE DEF R
<1>3. SUFFICES ASSUME Left # {} PROVE FALSE
  OBVIOUS
<1>4. PICK m \in Left : \A n \in Left : ~ (<<n, m>> \in R)
  <2>1. Left \subseteq Nat
    OBVIOUS
  <2>. QED  BY <1>1, <1>3, <2>1, WFMin
<1>5. m \in Nat /\ m # 0 /\ m <= N /\ m \notin T
  OBVIOUS
<1>6. m - 1 \in 0..N /\ m - 1 < m /\ m - 1 < N /\ m - 1 \in Nat /\ (m - 1) + 1 = m
  BY <1>5
<1>7. m - 1 \notin T
  BY <1>5, <1>6
<1>8. m - 1 \in Left
  BY <1>6, <1>7
<1>. QED  BY <1>2, <1>4, <1>5, <1>6, <1>8

(* The largest member of a set, as FoldLeft finds it.                       *)
LEMMA MaxOf ==
  ASSUME NEW d, NEW m \in d, m \in Nat, \A x \in d : x \in Nat /\ x <= m
  PROVE  Max(d) = m
<1>. DEFINE P(x) == x \in d /\ \A y \in d : x >= y
<1>1. P(m)
  OBVIOUS
<1>2. \A x : P(x) => x = m
  OBVIOUS
<1>3. Max(d) = CHOOSE x : P(x)
  BY DEF Max
<1>. HIDE DEF P
<1>4. P(CHOOSE x : P(x))
  BY <1>1
<1>. QED  BY <1>2, <1>3, <1>4

(* h is the fold of s from the left, by a function R, on every part of it.  *)
IsFold(h, R, b, s, N) ==
  \A d \in SUBSET (1..N) : h[d] = IF d = {} THEN b ELSE R[<<h[d \ {Max(d)}], s[Max(d)]>>]

(* What a fold from the left computes exists, for an operator that is a     *)
(* function.                                                                *)
LEMMA FoldExists ==
  ASSUME NEW X, NEW F, NEW R \in [X \X F -> X], NEW b \in X, NEW N \in Nat, NEW s \in [1..N -> F]
  PROVE  \E h \in [SUBSET (1..N) -> X] : IsFold(h, R, b, s, N)
<1>. DEFINE Folds(h, n) == \A d \in SUBSET (1..n) :
              h[d] = IF d = {} THEN b ELSE R[<<h[d \ {Max(d)}], s[Max(d)]>>]
            T == {n \in 0..N : \E h \in [SUBSET (1..n) -> X] : Folds(h, n)}
<1>1. 0 \in T
  <2>1. 1..0 = {} /\ SUBSET (1..0) = {{}}
    OBVIOUS
  <2>. DEFINE h == [d \in SUBSET (1..0) |-> b]
  <2>2. h \in [SUBSET (1..0) -> X] /\ Folds(h, 0)
    BY <2>1
  <2>. HIDE DEF h, Folds
  <2>3. 0 \in 0..N
    OBVIOUS
  <2>4. \E k \in [SUBSET (1..0) -> X] : Folds(k, 0)
    BY <2>2
  <2>. QED  BY <2>3, <2>4
<1>2. ASSUME NEW n \in 0..N, n \in T, n < N
      PROVE  n + 1 \in T
  <2>1. PICK g \in [SUBSET (1..n) -> X] : Folds(g, n)
    BY <1>2
  <2>. DEFINE m == n + 1
              h == [d \in SUBSET (1..m) |-> IF m \in d THEN R[<<g[d \ {m}], s[m]>>] ELSE g[d]]
  <2>2. m \in 1..N /\ m \in Nat /\ n \in Nat
    BY <1>2
  <2>3. \A d \in SUBSET (1..m) : /\ m \in d => d \ {m} \in SUBSET (1..n) /\ Max(d) = m
                                 /\ m \notin d => d \in SUBSET (1..n)
    <3>. SUFFICES ASSUME NEW d \in SUBSET (1..m)
                  PROVE  /\ m \in d => d \ {m} \in SUBSET (1..n) /\ Max(d) = m
                         /\ m \notin d => d \in SUBSET (1..n)
      OBVIOUS
    <3>1. \A x \in d : x \in Nat /\ x <= m /\ (x # m => x \in 1..n)
      BY <2>2
    <3>. HIDE DEF m
    <3>2. m \in d => Max(d) = m
      BY <2>2, <3>1, MaxOf
    <3>. QED  BY <3>1, <3>2
  <2>4. s[m] \in F
    BY <2>2
  <2>. HIDE DEF m
  <2>5. h \in [SUBSET (1..m) -> X]
    <3>. SUFFICES ASSUME NEW d \in SUBSET (1..m)
                  PROVE  (IF m \in d THEN R[<<g[d \ {m}], s[m]>>] ELSE g[d]) \in X
      OBVIOUS
    <3>. QED  BY <2>3, <2>4
  <2>6. Folds(h, m)
    <3>. SUFFICES ASSUME NEW d \in SUBSET (1..m)
                  PROVE  h[d] = IF d = {} THEN b ELSE R[<<h[d \ {Max(d)}], s[Max(d)]>>]
      OBVIOUS
    <3>1. CASE m \in d
      <4>1. h[d] = R[<<g[d \ {m}], s[m]>>] /\ d # {} /\ Max(d) = m
        BY <2>3, <3>1
      <4>2. h[d \ {m}] = g[d \ {m}]
        OBVIOUS
      <4>. QED  BY <4>1, <4>2
    <3>2. CASE m \notin d
      <4>1. d \in SUBSET (1..n) /\ h[d] = g[d]
        BY <2>3, <3>2
      <4>2. g[d] = IF d = {} THEN b ELSE R[<<g[d \ {Max(d)}], s[Max(d)]>>]
        BY <2>1, <4>1
      <4>3. d \ {Max(d)} \in SUBSET (1..m) /\ m \notin d \ {Max(d)}
        BY <3>2
      <4>4. h[d \ {Max(d)}] = g[d \ {Max(d)}]
        BY <4>3
      <4>. QED  BY <4>1, <4>2, <4>4
    <3>. QED  BY <3>1, <3>2
  <2>. HIDE DEF h, Folds
  <2>7. m \in 0..N /\ \E k \in [SUBSET (1..m) -> X] : Folds(k, m)
    BY <2>2, <2>5, <2>6
  <2>. QED  BY <2>7 DEF m
<1>3. N \in T
  <2>. HIDE DEF T
  <2>1. \A n \in 0..N : n \in T /\ n < N => n + 1 \in T
    BY <1>2
  <2>2. \A n \in 0..N : n \in T
    BY <1>1, <2>1, UpTo
  <2>. QED  BY <2>2
<1>. QED  BY <1>3 DEF IsFold

(* A set of some of the numbers up to N has a largest one.                  *)
LEMMA MaxIn ==
  ASSUME NEW N \in Nat, NEW d \in SUBSET (1..N), d # {}
  PROVE  Max(d) \in d
<1>. DEFINE T == {n \in 0..N : d \cap 1..n # {} => \E m \in d : \A x \in d \cap 1..n : x <= m}
<1>1. 0 \in T
  OBVIOUS
<1>2. ASSUME NEW n \in 0..N, n \in T, n < N PROVE n + 1 \in T
  <2>1. CASE n + 1 \in d
    <3>1. \A x \in d \cap 1..(n + 1) : x <= n + 1
      OBVIOUS
    <3>. QED  BY <1>2, <2>1, <3>1
  <2>2. CASE n + 1 \notin d
    <3>1. d \cap 1..(n + 1) = d \cap 1..n
      BY <2>2
    <3>. QED  BY <1>2, <3>1
  <2>. QED  BY <2>1, <2>2
<1>3. N \in T
  <2>. HIDE DEF T
  <2>1. \A n \in 0..N : n \in T /\ n < N => n + 1 \in T
    BY <1>2
  <2>. QED  BY <1>1, <2>1, UpTo
<1>4. PICK m \in d : \A x \in d : x <= m
  <2>1. d \cap 1..N = d
    OBVIOUS
  <2>. QED  BY <1>3, <2>1
<1>5. Max(d) = m
  <2>1. m \in Nat /\ \A x \in d : x \in Nat /\ x <= m
    BY <1>4
  <2>. QED  BY <2>1, MaxOf
<1>. QED  BY <1>5

(* The first k numbers, one after the other.                                *)
LEMMA FirstNumbers ==
  ASSUME NEW N \in Nat
  PROVE  \A k \in 1..N : /\ 1..k \in SUBSET (1..N) /\ 1..k # {} /\ Max(1..k) = k
                         /\ (1..k) \ {k} = 1..(k - 1)
<1>. SUFFICES ASSUME NEW k \in 1..N
              PROVE  /\ 1..k \in SUBSET (1..N) /\ 1..k # {} /\ Max(1..k) = k
                     /\ (1..k) \ {k} = 1..(k - 1)
  OBVIOUS
<1>1. k \in 1..k /\ k \in Nat /\ \A x \in 1..k : x \in Nat /\ x <= k
  OBVIOUS
<1>2. Max(1..k) = k
  BY <1>1, MaxOf
<1>. QED  BY <1>1, <1>2

(* The part of the numbers without the largest of them, and that one.       *)
LEMMA Less ==
  ASSUME NEW N \in Nat, NEW d \in SUBSET (1..N), d # {}
  PROVE  d \ {Max(d)} \in SUBSET (1..N) /\ Max(d) \in 1..N
BY MaxIn

(* The frames of F can be played, remembered and docked.                    *)
Dockable(X) ==
  \A q \in X, m \in Sendable : [q EXCEPT !.dock = Append(@, m)] \in X /\ Undock(q) \in X
Playable(F) == \A list \in Seq(Block), f \in F : Reduce(list, f) \in Seq(Block)
Remembers(F) == \A list \in Seq(F), f \in F : Remember(list, f) \in Seq(F)

(* The folds of the page and the relay, step by step.  The fold of the      *)
(* library takes its operator as a parameter, which the provers cannot be   *)
(* given, so each fold has the same proof for its own operator: it is the   *)
(* fold of a function, which exists (FoldExists).  First, frames that are   *)
(* played into a transcript.                                                *)
LEMMA PlayedSteps ==
  ASSUME NEW F, NEW b \in Seq(Block), NEW s \in Seq(F),
         Playable(F)
  PROVE  \E t \in [0..Len(s) -> Seq(Block)] :
           /\ t[0] = b /\ Played(b, s) = t[Len(s)]
           /\ \A k \in 1..Len(s) : t[k] = Reduce(t[k - 1], s[k])
<1>. DEFINE X == Seq(Block)
            N == Len(s)
            R == [p \in X \X F |-> Reduce(p[1], p[2])]
            Fold(g) == [d \in SUBSET (1..N) |->
                          IF d = {} THEN b
                          ELSE Reduce(g[d \ {Max(d)}], s[Max(d)])]
            g == CHOOSE g : g = Fold(g)
            t == [k \in 0..N |-> g[1..k]]
<1>1. N \in Nat /\ s \in [1..N -> F] /\ DOMAIN s = 1..N /\ b \in X
  OBVIOUS
<1>2. R \in [X \X F -> X]
  <2>1. ASSUME NEW x \in X, NEW f \in F PROVE Reduce(x, f) \in X
    BY DEF Playable
  <2>. HIDE DEF X
  <2>. QED  BY <2>1
<1>3. Played(b, s) = g[1..N]
  BY <1>1 DEF Played, FoldLeft, MapThenFoldSet
<1>4. PICK h \in [SUBSET (1..N) -> X] : IsFold(h, R, b, s, N)
  <2>. HIDE DEF R, N, X
  <2>. QED  BY <1>1, <1>2, FoldExists
<1>5. h = Fold(h)
  <2>. SUFFICES ASSUME NEW d \in SUBSET (1..N), d # {}
                PROVE  R[<<h[d \ {Max(d)}], s[Max(d)]>>]
                         = Reduce(h[d \ {Max(d)}], s[Max(d)])
    BY <1>4 DEF IsFold
  <2>1. h[d \ {Max(d)}] \in X /\ s[Max(d)] \in F
    BY <1>1, <1>4, Less
  <2>. QED  BY <2>1
<1>6. g = Fold(g)
  BY <1>5
<1>7. g[{}] = b /\ \A k \in 1..N : g[1..k] = Reduce(g[1..(k - 1)], s[k])
  <2>. HIDE DEF g, N
  <2>1. \A d \in SUBSET (1..N) :
          g[d] = IF d = {} THEN b ELSE Reduce(g[d \ {Max(d)}], s[Max(d)])
    BY <1>6
  <2>. HIDE DEF Fold
  <2>2. g[{}] = b
    BY <2>1
  <2>3. ASSUME NEW k \in 1..N PROVE g[1..k] = Reduce(g[1..(k - 1)], s[k])
    <3>1. 1..k \in SUBSET (1..N) /\ 1..k # {} /\ Max(1..k) = k /\ (1..k) \ {k} = 1..(k - 1)
      BY <1>1, FirstNumbers
    <3>2. g[1..k] = Reduce(g[(1..k) \ {Max(1..k)}], s[Max(1..k)])
      BY <2>1, <3>1
    <3>. QED  BY <3>1, <3>2
  <2>. QED  BY <2>2, <2>3
<1>. HIDE DEF g, R, N
<1>8. t[0] = b /\ Played(b, s) = t[N] /\ \A k \in 1..N : t[k] = Reduce(t[k - 1], s[k])
  <2>1. 1..0 = {} /\ 0 \in 0..N /\ N \in 0..N /\ \A k \in 1..N : k - 1 \in 0..N /\ k \in 0..N
    BY <1>1
  <2>. QED  BY <1>3, <1>7, <2>1
<1>. DEFINE T == {k \in 0..N : t[k] \in X}
<1>9. \A k \in 0..N : k \in T
  <2>. HIDE DEF t
  <2>1. 0 \in T
    <3>1. t[0] \in X
      BY <1>1, <1>8
    <3>. QED  BY <1>1, <3>1
  <2>2. ASSUME NEW k \in 0..N, t[k] \in X, k < N PROVE k + 1 \in T
    <3>1. k + 1 \in 1..N /\ (k + 1) - 1 = k /\ k + 1 \in 0..N
      BY <1>1, <2>2
    <3>2. t[k + 1] = Reduce(t[k], s[k + 1]) /\ s[k + 1] \in F
      BY <1>1, <1>8, <3>1
    <3>3. R[<<t[k], s[k + 1]>>] \in X
      <4>. HIDE DEF X
      <4>. QED  BY <1>2, <2>2, <3>2
    <3>4. R[<<t[k], s[k + 1]>>] = t[k + 1]
      BY <2>2, <3>2 DEF R
    <3>. QED  BY <3>1, <3>3, <3>4
  <2>3. \A k \in 0..N : k \in T /\ k < N => k + 1 \in T
    BY <2>2
  <2>. HIDE DEF T, X
  <2>. QED  BY <1>1, <2>1, <2>3, UpTo
<1>10. t \in [0..N -> X]
  BY <1>9
<1>. QED  BY <1>8, <1>10 DEF N

(* The asks that a load lists are remembered.                               *)
LEMMA RecoveredSteps ==
  ASSUME NEW F, NEW b \in Seq(F), NEW s \in Seq(F),
         Remembers(F)
  PROVE  \E t \in [0..Len(s) -> Seq(F)] :
           /\ t[0] = b /\ Recovered(b, s) = t[Len(s)]
           /\ \A k \in 1..Len(s) : t[k] = Remember(t[k - 1], s[k])
<1>. DEFINE X == Seq(F)
            N == Len(s)
            R == [p \in X \X F |-> Remember(p[1], p[2])]
            Fold(g) == [d \in SUBSET (1..N) |->
                          IF d = {} THEN b
                          ELSE Remember(g[d \ {Max(d)}], s[Max(d)])]
            g == CHOOSE g : g = Fold(g)
            t == [k \in 0..N |-> g[1..k]]
<1>1. N \in Nat /\ s \in [1..N -> F] /\ DOMAIN s = 1..N /\ b \in X
  OBVIOUS
<1>2. R \in [X \X F -> X]
  <2>1. ASSUME NEW x \in X, NEW f \in F PROVE Remember(x, f) \in X
    BY DEF Remembers
  <2>. HIDE DEF X
  <2>. QED  BY <2>1
<1>3. Recovered(b, s) = g[1..N]
  BY <1>1 DEF Recovered, FoldLeft, MapThenFoldSet
<1>4. PICK h \in [SUBSET (1..N) -> X] : IsFold(h, R, b, s, N)
  <2>. HIDE DEF R, N, X
  <2>. QED  BY <1>1, <1>2, FoldExists
<1>5. h = Fold(h)
  <2>. SUFFICES ASSUME NEW d \in SUBSET (1..N), d # {}
                PROVE  R[<<h[d \ {Max(d)}], s[Max(d)]>>]
                         = Remember(h[d \ {Max(d)}], s[Max(d)])
    BY <1>4 DEF IsFold
  <2>1. h[d \ {Max(d)}] \in X /\ s[Max(d)] \in F
    BY <1>1, <1>4, Less
  <2>. QED  BY <2>1
<1>6. g = Fold(g)
  BY <1>5
<1>7. g[{}] = b /\ \A k \in 1..N : g[1..k] = Remember(g[1..(k - 1)], s[k])
  <2>. HIDE DEF g, N
  <2>1. \A d \in SUBSET (1..N) :
          g[d] = IF d = {} THEN b ELSE Remember(g[d \ {Max(d)}], s[Max(d)])
    BY <1>6
  <2>. HIDE DEF Fold
  <2>2. g[{}] = b
    BY <2>1
  <2>3. ASSUME NEW k \in 1..N PROVE g[1..k] = Remember(g[1..(k - 1)], s[k])
    <3>1. 1..k \in SUBSET (1..N) /\ 1..k # {} /\ Max(1..k) = k /\ (1..k) \ {k} = 1..(k - 1)
      BY <1>1, FirstNumbers
    <3>2. g[1..k] = Remember(g[(1..k) \ {Max(1..k)}], s[Max(1..k)])
      BY <2>1, <3>1
    <3>. QED  BY <3>1, <3>2
  <2>. QED  BY <2>2, <2>3
<1>. HIDE DEF g, R, N
<1>8. t[0] = b /\ Recovered(b, s) = t[N] /\ \A k \in 1..N : t[k] = Remember(t[k - 1], s[k])
  <2>1. 1..0 = {} /\ 0 \in 0..N /\ N \in 0..N /\ \A k \in 1..N : k - 1 \in 0..N /\ k \in 0..N
    BY <1>1
  <2>. QED  BY <1>3, <1>7, <2>1
<1>. DEFINE T == {k \in 0..N : t[k] \in X}
<1>9. \A k \in 0..N : k \in T
  <2>. HIDE DEF t
  <2>1. 0 \in T
    <3>1. t[0] \in X
      BY <1>1, <1>8
    <3>. QED  BY <1>1, <3>1
  <2>2. ASSUME NEW k \in 0..N, t[k] \in X, k < N PROVE k + 1 \in T
    <3>1. k + 1 \in 1..N /\ (k + 1) - 1 = k /\ k + 1 \in 0..N
      BY <1>1, <2>2
    <3>2. t[k + 1] = Remember(t[k], s[k + 1]) /\ s[k + 1] \in F
      BY <1>1, <1>8, <3>1
    <3>3. R[<<t[k], s[k + 1]>>] \in X
      <4>. HIDE DEF X
      <4>. QED  BY <1>2, <2>2, <3>2
    <3>4. R[<<t[k], s[k + 1]>>] = t[k + 1]
      BY <2>2, <3>2 DEF R
    <3>. QED  BY <3>1, <3>3, <3>4
  <2>3. \A k \in 0..N : k \in T /\ k < N => k + 1 \in T
    BY <2>2
  <2>. HIDE DEF T, X
  <2>. QED  BY <1>1, <2>1, <2>3, UpTo
<1>10. t \in [0..N -> X]
  BY <1>9
<1>. QED  BY <1>8, <1>10 DEF N

(* What a transcript says.                                                  *)
LEMMA SaidSteps ==
  ASSUME NEW s \in Seq(Block)
  PROVE  \E t \in [0..Len(s) -> Seq(Sendable)] :
           /\ t[0] = <<>> /\ Said(s) = t[Len(s)]
           /\ \A k \in 1..Len(s) : t[k] = (IF s[k].role = "agent" THEN t[k - 1] \o s[k].said ELSE t[k - 1])
<1>. DEFINE X == Seq(Sendable)
            N == Len(s)
            R == [p \in X \X Block |-> (IF p[2].role = "agent" THEN p[1] \o p[2].said ELSE p[1])]
            Fold(g) == [d \in SUBSET (1..N) |->
                          IF d = {} THEN <<>>
                          ELSE (IF s[Max(d)].role = "agent" THEN g[d \ {Max(d)}] \o s[Max(d)].said ELSE g[d \ {Max(d)}])]
            g == CHOOSE g : g = Fold(g)
            t == [k \in 0..N |-> g[1..k]]
<1>1. N \in Nat /\ s \in [1..N -> Block] /\ DOMAIN s = 1..N /\ <<>> \in X
  OBVIOUS
<1>2. R \in [X \X Block -> X]
  <2>1. ASSUME NEW x \in X, NEW f \in Block PROVE (IF f.role = "agent" THEN x \o f.said ELSE x) \in X
    BY DEF Block
  <2>. HIDE DEF X
  <2>. QED  BY <2>1
<1>3. Said(s) = g[1..N]
  BY <1>1 DEF Said, FoldLeft, MapThenFoldSet
<1>4. PICK h \in [SUBSET (1..N) -> X] : IsFold(h, R, <<>>, s, N)
  <2>. HIDE DEF R, N, X
  <2>. QED  BY <1>1, <1>2, FoldExists
<1>5. h = Fold(h)
  <2>. SUFFICES ASSUME NEW d \in SUBSET (1..N), d # {}
                PROVE  R[<<h[d \ {Max(d)}], s[Max(d)]>>]
                         = (IF s[Max(d)].role = "agent" THEN h[d \ {Max(d)}] \o s[Max(d)].said ELSE h[d \ {Max(d)}])
    BY <1>4 DEF IsFold
  <2>1. h[d \ {Max(d)}] \in X /\ s[Max(d)] \in Block
    BY <1>1, <1>4, Less
  <2>. QED  BY <2>1
<1>6. g = Fold(g)
  BY <1>5
<1>7. g[{}] = <<>> /\ \A k \in 1..N : g[1..k] = (IF s[k].role = "agent" THEN g[1..(k - 1)] \o s[k].said ELSE g[1..(k - 1)])
  <2>. HIDE DEF g, N
  <2>1. \A d \in SUBSET (1..N) :
          g[d] = IF d = {} THEN <<>> ELSE (IF s[Max(d)].role = "agent" THEN g[d \ {Max(d)}] \o s[Max(d)].said ELSE g[d \ {Max(d)}])
    BY <1>6
  <2>. HIDE DEF Fold
  <2>2. g[{}] = <<>>
    BY <2>1
  <2>3. ASSUME NEW k \in 1..N PROVE g[1..k] = (IF s[k].role = "agent" THEN g[1..(k - 1)] \o s[k].said ELSE g[1..(k - 1)])
    <3>1. 1..k \in SUBSET (1..N) /\ 1..k # {} /\ Max(1..k) = k /\ (1..k) \ {k} = 1..(k - 1)
      BY <1>1, FirstNumbers
    <3>2. g[1..k] = (IF s[Max(1..k)].role = "agent" THEN g[(1..k) \ {Max(1..k)}] \o s[Max(1..k)].said ELSE g[(1..k) \ {Max(1..k)}])
      BY <2>1, <3>1
    <3>. QED  BY <3>1, <3>2
  <2>. QED  BY <2>2, <2>3
<1>. HIDE DEF g, R, N
<1>8. t[0] = <<>> /\ Said(s) = t[N] /\ \A k \in 1..N : t[k] = (IF s[k].role = "agent" THEN t[k - 1] \o s[k].said ELSE t[k - 1])
  <2>1. 1..0 = {} /\ 0 \in 0..N /\ N \in 0..N /\ \A k \in 1..N : k - 1 \in 0..N /\ k \in 0..N
    BY <1>1
  <2>. QED  BY <1>3, <1>7, <2>1
<1>. DEFINE T == {k \in 0..N : t[k] \in X}
<1>9. \A k \in 0..N : k \in T
  <2>. HIDE DEF t
  <2>1. 0 \in T
    <3>1. t[0] \in X
      BY <1>1, <1>8
    <3>. QED  BY <1>1, <3>1
  <2>2. ASSUME NEW k \in 0..N, t[k] \in X, k < N PROVE k + 1 \in T
    <3>1. k + 1 \in 1..N /\ (k + 1) - 1 = k /\ k + 1 \in 0..N
      BY <1>1, <2>2
    <3>2. t[k + 1] = (IF s[k + 1].role = "agent" THEN t[k] \o s[k + 1].said ELSE t[k]) /\ s[k + 1] \in Block
      BY <1>1, <1>8, <3>1
    <3>3. R[<<t[k], s[k + 1]>>] \in X
      <4>. HIDE DEF X
      <4>. QED  BY <1>2, <2>2, <3>2
    <3>4. R[<<t[k], s[k + 1]>>] = t[k + 1]
      BY <2>2, <3>2 DEF R
    <3>. QED  BY <3>1, <3>3, <3>4
  <2>3. \A k \in 0..N : k \in T /\ k < N => k + 1 \in T
    BY <2>2
  <2>. HIDE DEF T, X
  <2>. QED  BY <1>1, <2>1, <2>3, UpTo
<1>10. t \in [0..N -> X]
  BY <1>9
<1>. QED  BY <1>8, <1>10 DEF N

(* The answers among the events.                                            *)
LEMMA AnswersSteps ==
  ASSUME NEW s \in Seq(Events)
  PROVE  \E t \in [0..Len(s) -> Seq(Sendable)] :
           /\ t[0] = <<>> /\ Answers(s) = t[Len(s)]
           /\ \A k \in 1..Len(s) : t[k] = (IF s[k].kind = "message" THEN Append(t[k - 1], s[k].msg) ELSE t[k - 1])
<1>. DEFINE X == Seq(Sendable)
            N == Len(s)
            R == [p \in X \X Events |-> (IF p[2].kind = "message" THEN Append(p[1], p[2].msg) ELSE p[1])]
            Fold(g) == [d \in SUBSET (1..N) |->
                          IF d = {} THEN <<>>
                          ELSE (IF s[Max(d)].kind = "message" THEN Append(g[d \ {Max(d)}], s[Max(d)].msg) ELSE g[d \ {Max(d)}])]
            g == CHOOSE g : g = Fold(g)
            t == [k \in 0..N |-> g[1..k]]
<1>1. N \in Nat /\ s \in [1..N -> Events] /\ DOMAIN s = 1..N /\ <<>> \in X
  OBVIOUS
<1>2. R \in [X \X Events -> X]
  <2>1. ASSUME NEW x \in X, NEW f \in Events PROVE (IF f.kind = "message" THEN Append(x, f.msg) ELSE x) \in X
    BY DEF Events
  <2>. HIDE DEF X
  <2>. QED  BY <2>1
<1>3. Answers(s) = g[1..N]
  BY <1>1 DEF Answers, FoldLeft, MapThenFoldSet
<1>4. PICK h \in [SUBSET (1..N) -> X] : IsFold(h, R, <<>>, s, N)
  <2>. HIDE DEF R, N, X
  <2>. QED  BY <1>1, <1>2, FoldExists
<1>5. h = Fold(h)
  <2>. SUFFICES ASSUME NEW d \in SUBSET (1..N), d # {}
                PROVE  R[<<h[d \ {Max(d)}], s[Max(d)]>>]
                         = (IF s[Max(d)].kind = "message" THEN Append(h[d \ {Max(d)}], s[Max(d)].msg) ELSE h[d \ {Max(d)}])
    BY <1>4 DEF IsFold
  <2>1. h[d \ {Max(d)}] \in X /\ s[Max(d)] \in Events
    BY <1>1, <1>4, Less
  <2>. QED  BY <2>1
<1>6. g = Fold(g)
  BY <1>5
<1>7. g[{}] = <<>> /\ \A k \in 1..N : g[1..k] = (IF s[k].kind = "message" THEN Append(g[1..(k - 1)], s[k].msg) ELSE g[1..(k - 1)])
  <2>. HIDE DEF g, N
  <2>1. \A d \in SUBSET (1..N) :
          g[d] = IF d = {} THEN <<>> ELSE (IF s[Max(d)].kind = "message" THEN Append(g[d \ {Max(d)}], s[Max(d)].msg) ELSE g[d \ {Max(d)}])
    BY <1>6
  <2>. HIDE DEF Fold
  <2>2. g[{}] = <<>>
    BY <2>1
  <2>3. ASSUME NEW k \in 1..N PROVE g[1..k] = (IF s[k].kind = "message" THEN Append(g[1..(k - 1)], s[k].msg) ELSE g[1..(k - 1)])
    <3>1. 1..k \in SUBSET (1..N) /\ 1..k # {} /\ Max(1..k) = k /\ (1..k) \ {k} = 1..(k - 1)
      BY <1>1, FirstNumbers
    <3>2. g[1..k] = (IF s[Max(1..k)].kind = "message" THEN Append(g[(1..k) \ {Max(1..k)}], s[Max(1..k)].msg) ELSE g[(1..k) \ {Max(1..k)}])
      BY <2>1, <3>1
    <3>. QED  BY <3>1, <3>2
  <2>. QED  BY <2>2, <2>3
<1>. HIDE DEF g, R, N
<1>8. t[0] = <<>> /\ Answers(s) = t[N] /\ \A k \in 1..N : t[k] = (IF s[k].kind = "message" THEN Append(t[k - 1], s[k].msg) ELSE t[k - 1])
  <2>1. 1..0 = {} /\ 0 \in 0..N /\ N \in 0..N /\ \A k \in 1..N : k - 1 \in 0..N /\ k \in 0..N
    BY <1>1
  <2>. QED  BY <1>3, <1>7, <2>1
<1>. DEFINE T == {k \in 0..N : t[k] \in X}
<1>9. \A k \in 0..N : k \in T
  <2>. HIDE DEF t
  <2>1. 0 \in T
    <3>1. t[0] \in X
      BY <1>1, <1>8
    <3>. QED  BY <1>1, <3>1
  <2>2. ASSUME NEW k \in 0..N, t[k] \in X, k < N PROVE k + 1 \in T
    <3>1. k + 1 \in 1..N /\ (k + 1) - 1 = k /\ k + 1 \in 0..N
      BY <1>1, <2>2
    <3>2. t[k + 1] = (IF s[k + 1].kind = "message" THEN Append(t[k], s[k + 1].msg) ELSE t[k]) /\ s[k + 1] \in Events
      BY <1>1, <1>8, <3>1
    <3>3. R[<<t[k], s[k + 1]>>] \in X
      <4>. HIDE DEF X
      <4>. QED  BY <1>2, <2>2, <3>2
    <3>4. R[<<t[k], s[k + 1]>>] = t[k + 1]
      BY <2>2, <3>2 DEF R
    <3>. QED  BY <3>1, <3>3, <3>4
  <2>3. \A k \in 0..N : k \in T /\ k < N => k + 1 \in T
    BY <2>2
  <2>. HIDE DEF T, X
  <2>. QED  BY <1>1, <2>1, <2>3, UpTo
<1>10. t \in [0..N -> X]
  BY <1>9
<1>. QED  BY <1>8, <1>10 DEF N

(* The members of a list that are in a set.                                 *)
LEMMA ChosenSteps ==
  ASSUME NEW F, NEW s \in Seq(F), NEW set
  PROVE  \E t \in [0..Len(s) -> Seq(F)] :
           /\ t[0] = <<>> /\ Chosen(s, set) = t[Len(s)]
           /\ \A k \in 1..Len(s) : t[k] = (IF s[k] \in set THEN Append(t[k - 1], s[k]) ELSE t[k - 1])
<1>. DEFINE X == Seq(F)
            N == Len(s)
            R == [p \in X \X F |-> (IF p[2] \in set THEN Append(p[1], p[2]) ELSE p[1])]
            Fold(g) == [d \in SUBSET (1..N) |->
                          IF d = {} THEN <<>>
                          ELSE (IF s[Max(d)] \in set THEN Append(g[d \ {Max(d)}], s[Max(d)]) ELSE g[d \ {Max(d)}])]
            g == CHOOSE g : g = Fold(g)
            t == [k \in 0..N |-> g[1..k]]
<1>1. N \in Nat /\ s \in [1..N -> F] /\ DOMAIN s = 1..N /\ <<>> \in X
  OBVIOUS
<1>2. R \in [X \X F -> X]
  <2>1. ASSUME NEW x \in X, NEW f \in F PROVE (IF f \in set THEN Append(x, f) ELSE x) \in X
    OBVIOUS
  <2>. HIDE DEF X
  <2>. QED  BY <2>1
<1>3. Chosen(s, set) = g[1..N]
  BY <1>1 DEF Chosen, FoldLeft, MapThenFoldSet
<1>4. PICK h \in [SUBSET (1..N) -> X] : IsFold(h, R, <<>>, s, N)
  <2>. HIDE DEF R, N, X
  <2>. QED  BY <1>1, <1>2, FoldExists
<1>5. h = Fold(h)
  <2>. SUFFICES ASSUME NEW d \in SUBSET (1..N), d # {}
                PROVE  R[<<h[d \ {Max(d)}], s[Max(d)]>>]
                         = (IF s[Max(d)] \in set THEN Append(h[d \ {Max(d)}], s[Max(d)]) ELSE h[d \ {Max(d)}])
    BY <1>4 DEF IsFold
  <2>1. h[d \ {Max(d)}] \in X /\ s[Max(d)] \in F
    BY <1>1, <1>4, Less
  <2>. QED  BY <2>1
<1>6. g = Fold(g)
  BY <1>5
<1>7. g[{}] = <<>> /\ \A k \in 1..N : g[1..k] = (IF s[k] \in set THEN Append(g[1..(k - 1)], s[k]) ELSE g[1..(k - 1)])
  <2>. HIDE DEF g, N
  <2>1. \A d \in SUBSET (1..N) :
          g[d] = IF d = {} THEN <<>> ELSE (IF s[Max(d)] \in set THEN Append(g[d \ {Max(d)}], s[Max(d)]) ELSE g[d \ {Max(d)}])
    BY <1>6
  <2>. HIDE DEF Fold
  <2>2. g[{}] = <<>>
    BY <2>1
  <2>3. ASSUME NEW k \in 1..N PROVE g[1..k] = (IF s[k] \in set THEN Append(g[1..(k - 1)], s[k]) ELSE g[1..(k - 1)])
    <3>1. 1..k \in SUBSET (1..N) /\ 1..k # {} /\ Max(1..k) = k /\ (1..k) \ {k} = 1..(k - 1)
      BY <1>1, FirstNumbers
    <3>2. g[1..k] = (IF s[Max(1..k)] \in set THEN Append(g[(1..k) \ {Max(1..k)}], s[Max(1..k)]) ELSE g[(1..k) \ {Max(1..k)}])
      BY <2>1, <3>1
    <3>. QED  BY <3>1, <3>2
  <2>. QED  BY <2>2, <2>3
<1>. HIDE DEF g, R, N
<1>8. t[0] = <<>> /\ Chosen(s, set) = t[N] /\ \A k \in 1..N : t[k] = (IF s[k] \in set THEN Append(t[k - 1], s[k]) ELSE t[k - 1])
  <2>1. 1..0 = {} /\ 0 \in 0..N /\ N \in 0..N /\ \A k \in 1..N : k - 1 \in 0..N /\ k \in 0..N
    BY <1>1
  <2>. QED  BY <1>3, <1>7, <2>1
<1>. DEFINE T == {k \in 0..N : t[k] \in X}
<1>9. \A k \in 0..N : k \in T
  <2>. HIDE DEF t
  <2>1. 0 \in T
    <3>1. t[0] \in X
      BY <1>1, <1>8
    <3>. QED  BY <1>1, <3>1
  <2>2. ASSUME NEW k \in 0..N, t[k] \in X, k < N PROVE k + 1 \in T
    <3>1. k + 1 \in 1..N /\ (k + 1) - 1 = k /\ k + 1 \in 0..N
      BY <1>1, <2>2
    <3>2. t[k + 1] = (IF s[k + 1] \in set THEN Append(t[k], s[k + 1]) ELSE t[k]) /\ s[k + 1] \in F
      BY <1>1, <1>8, <3>1
    <3>3. R[<<t[k], s[k + 1]>>] \in X
      <4>. HIDE DEF X
      <4>. QED  BY <1>2, <2>2, <3>2
    <3>4. R[<<t[k], s[k + 1]>>] = t[k + 1]
      BY <2>2, <3>2 DEF R
    <3>. QED  BY <3>1, <3>3, <3>4
  <2>3. \A k \in 0..N : k \in T /\ k < N => k + 1 \in T
    BY <2>2
  <2>. HIDE DEF T, X
  <2>. QED  BY <1>1, <2>1, <2>3, UpTo
<1>10. t \in [0..N -> X]
  BY <1>9
<1>. QED  BY <1>8, <1>10 DEF N

(* Frames without repetitions.                                              *)
LEMMA UniqueSteps ==
  ASSUME NEW F, NEW s \in Seq(F)
  PROVE  \E t \in [0..Len(s) -> Seq(F)] :
           /\ t[0] = <<>> /\ Unique(s) = t[Len(s)]
           /\ \A k \in 1..Len(s) : t[k] = (IF s[k] \in ToSet(t[k - 1]) THEN t[k - 1] ELSE Append(t[k - 1], s[k]))
<1>. DEFINE X == Seq(F)
            N == Len(s)
            R == [p \in X \X F |-> (IF p[2] \in ToSet(p[1]) THEN p[1] ELSE Append(p[1], p[2]))]
            Fold(g) == [d \in SUBSET (1..N) |->
                          IF d = {} THEN <<>>
                          ELSE (IF s[Max(d)] \in ToSet(g[d \ {Max(d)}]) THEN g[d \ {Max(d)}] ELSE Append(g[d \ {Max(d)}], s[Max(d)]))]
            g == CHOOSE g : g = Fold(g)
            t == [k \in 0..N |-> g[1..k]]
<1>1. N \in Nat /\ s \in [1..N -> F] /\ DOMAIN s = 1..N /\ <<>> \in X
  OBVIOUS
<1>2. R \in [X \X F -> X]
  <2>1. ASSUME NEW x \in X, NEW f \in F PROVE (IF f \in ToSet(x) THEN x ELSE Append(x, f)) \in X
    OBVIOUS
  <2>. HIDE DEF X
  <2>. QED  BY <2>1
<1>3. Unique(s) = g[1..N]
  BY <1>1 DEF Unique, FoldLeft, MapThenFoldSet
<1>4. PICK h \in [SUBSET (1..N) -> X] : IsFold(h, R, <<>>, s, N)
  <2>. HIDE DEF R, N, X
  <2>. QED  BY <1>1, <1>2, FoldExists
<1>5. h = Fold(h)
  <2>. SUFFICES ASSUME NEW d \in SUBSET (1..N), d # {}
                PROVE  R[<<h[d \ {Max(d)}], s[Max(d)]>>]
                         = (IF s[Max(d)] \in ToSet(h[d \ {Max(d)}]) THEN h[d \ {Max(d)}] ELSE Append(h[d \ {Max(d)}], s[Max(d)]))
    BY <1>4 DEF IsFold
  <2>1. h[d \ {Max(d)}] \in X /\ s[Max(d)] \in F
    BY <1>1, <1>4, Less
  <2>. QED  BY <2>1
<1>6. g = Fold(g)
  BY <1>5
<1>7. g[{}] = <<>> /\ \A k \in 1..N : g[1..k] = (IF s[k] \in ToSet(g[1..(k - 1)]) THEN g[1..(k - 1)] ELSE Append(g[1..(k - 1)], s[k]))
  <2>. HIDE DEF g, N
  <2>1. \A d \in SUBSET (1..N) :
          g[d] = IF d = {} THEN <<>> ELSE (IF s[Max(d)] \in ToSet(g[d \ {Max(d)}]) THEN g[d \ {Max(d)}] ELSE Append(g[d \ {Max(d)}], s[Max(d)]))
    BY <1>6
  <2>. HIDE DEF Fold
  <2>2. g[{}] = <<>>
    BY <2>1
  <2>3. ASSUME NEW k \in 1..N PROVE g[1..k] = (IF s[k] \in ToSet(g[1..(k - 1)]) THEN g[1..(k - 1)] ELSE Append(g[1..(k - 1)], s[k]))
    <3>1. 1..k \in SUBSET (1..N) /\ 1..k # {} /\ Max(1..k) = k /\ (1..k) \ {k} = 1..(k - 1)
      BY <1>1, FirstNumbers
    <3>2. g[1..k] = (IF s[Max(1..k)] \in ToSet(g[(1..k) \ {Max(1..k)}]) THEN g[(1..k) \ {Max(1..k)}] ELSE Append(g[(1..k) \ {Max(1..k)}], s[Max(1..k)]))
      BY <2>1, <3>1
    <3>. QED  BY <3>1, <3>2
  <2>. QED  BY <2>2, <2>3
<1>. HIDE DEF g, R, N
<1>8. t[0] = <<>> /\ Unique(s) = t[N] /\ \A k \in 1..N : t[k] = (IF s[k] \in ToSet(t[k - 1]) THEN t[k - 1] ELSE Append(t[k - 1], s[k]))
  <2>1. 1..0 = {} /\ 0 \in 0..N /\ N \in 0..N /\ \A k \in 1..N : k - 1 \in 0..N /\ k \in 0..N
    BY <1>1
  <2>. QED  BY <1>3, <1>7, <2>1
<1>. DEFINE T == {k \in 0..N : t[k] \in X}
<1>9. \A k \in 0..N : k \in T
  <2>. HIDE DEF t
  <2>1. 0 \in T
    <3>1. t[0] \in X
      BY <1>1, <1>8
    <3>. QED  BY <1>1, <3>1
  <2>2. ASSUME NEW k \in 0..N, t[k] \in X, k < N PROVE k + 1 \in T
    <3>1. k + 1 \in 1..N /\ (k + 1) - 1 = k /\ k + 1 \in 0..N
      BY <1>1, <2>2
    <3>2. t[k + 1] = (IF s[k + 1] \in ToSet(t[k]) THEN t[k] ELSE Append(t[k], s[k + 1])) /\ s[k + 1] \in F
      BY <1>1, <1>8, <3>1
    <3>3. R[<<t[k], s[k + 1]>>] \in X
      <4>. HIDE DEF X
      <4>. QED  BY <1>2, <2>2, <3>2
    <3>4. R[<<t[k], s[k + 1]>>] = t[k + 1]
      BY <2>2, <3>2 DEF R
    <3>. QED  BY <3>1, <3>3, <3>4
  <2>3. \A k \in 0..N : k \in T /\ k < N => k + 1 \in T
    BY <2>2
  <2>. HIDE DEF T, X
  <2>. QED  BY <1>1, <2>1, <2>3, UpTo
<1>10. t \in [0..N -> X]
  BY <1>9
<1>. QED  BY <1>8, <1>10 DEF N

(* What frames do to the dock.                                              *)
LEMMA DockedSteps ==
  ASSUME NEW X0, NEW b \in X0, NEW s \in Seq(Frames),
         Dockable(X0)
  PROVE  \E t \in [0..Len(s) -> X0] :
           /\ t[0] = b /\ Docked(b, s) = t[Len(s)]
           /\ \A k \in 1..Len(s) : t[k] = (CASE s[k].kind = "turn_queued" -> [t[k - 1] EXCEPT !.dock = Append(@, s[k].msg)]
              [] s[k].kind = "turn_start" -> Undock(t[k - 1])
              [] OTHER -> t[k - 1])
<1>. DEFINE X == X0
            N == Len(s)
            R == [p \in X \X Frames |-> (CASE p[2].kind = "turn_queued" -> [p[1] EXCEPT !.dock = Append(@, p[2].msg)]
              [] p[2].kind = "turn_start" -> Undock(p[1])
              [] OTHER -> p[1])]
            Fold(g) == [d \in SUBSET (1..N) |->
                          IF d = {} THEN b
                          ELSE (CASE s[Max(d)].kind = "turn_queued" -> [g[d \ {Max(d)}] EXCEPT !.dock = Append(@, s[Max(d)].msg)]
              [] s[Max(d)].kind = "turn_start" -> Undock(g[d \ {Max(d)}])
              [] OTHER -> g[d \ {Max(d)}])]
            g == CHOOSE g : g = Fold(g)
            t == [k \in 0..N |-> g[1..k]]
<1>1. N \in Nat /\ s \in [1..N -> Frames] /\ DOMAIN s = 1..N /\ b \in X
  OBVIOUS
<1>2. R \in [X \X Frames -> X]
  <2>1. ASSUME NEW x \in X, NEW f \in Frames PROVE (CASE f.kind = "turn_queued" -> [x EXCEPT !.dock = Append(@, f.msg)]
              [] f.kind = "turn_start" -> Undock(x)
              [] OTHER -> x) \in X
    BY DEF Frames, Dockable
  <2>. HIDE DEF X
  <2>. QED  BY <2>1
<1>3. Docked(b, s) = g[1..N]
  BY <1>1 DEF Docked, FoldLeft, MapThenFoldSet
<1>4. PICK h \in [SUBSET (1..N) -> X] : IsFold(h, R, b, s, N)
  <2>. HIDE DEF R, N, X
  <2>. QED  BY <1>1, <1>2, FoldExists
<1>5. h = Fold(h)
  <2>. SUFFICES ASSUME NEW d \in SUBSET (1..N), d # {}
                PROVE  R[<<h[d \ {Max(d)}], s[Max(d)]>>]
                         = (CASE s[Max(d)].kind = "turn_queued" -> [h[d \ {Max(d)}] EXCEPT !.dock = Append(@, s[Max(d)].msg)]
              [] s[Max(d)].kind = "turn_start" -> Undock(h[d \ {Max(d)}])
              [] OTHER -> h[d \ {Max(d)}])
    BY <1>4 DEF IsFold
  <2>1. h[d \ {Max(d)}] \in X /\ s[Max(d)] \in Frames
    BY <1>1, <1>4, Less
  <2>. QED  BY <2>1
<1>6. g = Fold(g)
  BY <1>5
<1>7. g[{}] = b /\ \A k \in 1..N : g[1..k] = (CASE s[k].kind = "turn_queued" -> [g[1..(k - 1)] EXCEPT !.dock = Append(@, s[k].msg)]
              [] s[k].kind = "turn_start" -> Undock(g[1..(k - 1)])
              [] OTHER -> g[1..(k - 1)])
  <2>. HIDE DEF g, N
  <2>1. \A d \in SUBSET (1..N) :
          g[d] = IF d = {} THEN b ELSE (CASE s[Max(d)].kind = "turn_queued" -> [g[d \ {Max(d)}] EXCEPT !.dock = Append(@, s[Max(d)].msg)]
              [] s[Max(d)].kind = "turn_start" -> Undock(g[d \ {Max(d)}])
              [] OTHER -> g[d \ {Max(d)}])
    BY <1>6
  <2>. HIDE DEF Fold
  <2>2. g[{}] = b
    BY <2>1
  <2>3. ASSUME NEW k \in 1..N PROVE g[1..k] = (CASE s[k].kind = "turn_queued" -> [g[1..(k - 1)] EXCEPT !.dock = Append(@, s[k].msg)]
              [] s[k].kind = "turn_start" -> Undock(g[1..(k - 1)])
              [] OTHER -> g[1..(k - 1)])
    <3>1. 1..k \in SUBSET (1..N) /\ 1..k # {} /\ Max(1..k) = k /\ (1..k) \ {k} = 1..(k - 1)
      BY <1>1, FirstNumbers
    <3>2. g[1..k] = (CASE s[Max(1..k)].kind = "turn_queued" -> [g[(1..k) \ {Max(1..k)}] EXCEPT !.dock = Append(@, s[Max(1..k)].msg)]
              [] s[Max(1..k)].kind = "turn_start" -> Undock(g[(1..k) \ {Max(1..k)}])
              [] OTHER -> g[(1..k) \ {Max(1..k)}])
      BY <2>1, <3>1
    <3>. QED  BY <3>1, <3>2
  <2>. QED  BY <2>2, <2>3
<1>. HIDE DEF g, R, N
<1>8. t[0] = b /\ Docked(b, s) = t[N] /\ \A k \in 1..N : t[k] = (CASE s[k].kind = "turn_queued" -> [t[k - 1] EXCEPT !.dock = Append(@, s[k].msg)]
              [] s[k].kind = "turn_start" -> Undock(t[k - 1])
              [] OTHER -> t[k - 1])
  <2>1. 1..0 = {} /\ 0 \in 0..N /\ N \in 0..N /\ \A k \in 1..N : k - 1 \in 0..N /\ k \in 0..N
    BY <1>1
  <2>. QED  BY <1>3, <1>7, <2>1
<1>. DEFINE T == {k \in 0..N : t[k] \in X}
<1>9. \A k \in 0..N : k \in T
  <2>. HIDE DEF t
  <2>1. 0 \in T
    <3>1. t[0] \in X
      BY <1>1, <1>8
    <3>. QED  BY <1>1, <3>1
  <2>2. ASSUME NEW k \in 0..N, t[k] \in X, k < N PROVE k + 1 \in T
    <3>1. k + 1 \in 1..N /\ (k + 1) - 1 = k /\ k + 1 \in 0..N
      BY <1>1, <2>2
    <3>2. t[k + 1] = (CASE s[k + 1].kind = "turn_queued" -> [t[k] EXCEPT !.dock = Append(@, s[k + 1].msg)]
              [] s[k + 1].kind = "turn_start" -> Undock(t[k])
              [] OTHER -> t[k]) /\ s[k + 1] \in Frames
      BY <1>1, <1>8, <3>1
    <3>3. R[<<t[k], s[k + 1]>>] \in X
      <4>. HIDE DEF X
      <4>. QED  BY <1>2, <2>2, <3>2
    <3>4. R[<<t[k], s[k + 1]>>] = t[k + 1]
      BY <2>2, <3>2 DEF R
    <3>. QED  BY <3>1, <3>3, <3>4
  <2>3. \A k \in 0..N : k \in T /\ k < N => k + 1 \in T
    BY <2>2
  <2>. HIDE DEF T, X
  <2>. QED  BY <1>1, <2>1, <2>3, UpTo
<1>10. t \in [0..N -> X]
  BY <1>9
<1>. QED  BY <1>8, <1>10 DEF N

-----------------------------------------------------------------------------
(* Steps on lists, each where its members need not be known.                *)
LEMMA AppendIn ==
  ASSUME NEW S, NEW a \in Seq(S), NEW x \in S
  PROVE  Append(a, x) \in Seq(S)
OBVIOUS

LEMMA Regrouped ==
  ASSUME NEW S, NEW a \in Seq(S), NEW b \in Seq(S), NEW c \in Seq(S)
  PROVE  a \o (b \o c) = (a \o b) \o c
OBVIOUS

(* What a transcript says: nothing when it is empty ...                     *)
LEMMA SaidEmpty == Said(<<>>) = <<>>
<1>1. <<>> \in Seq(Block) /\ Len(<<>>) = 0
  OBVIOUS
<1>. QED  BY <1>1, SaidSteps

(* ... messages, in any case ...                                            *)
LEMMA SaidTyped ==
  ASSUME NEW list \in Seq(Block)
  PROVE  Said(list) \in Seq(Sendable)
<1>1. PICK t \in [0..Len(list) -> Seq(Sendable)] : Said(list) = t[Len(list)]
  BY SaidSteps
<1>2. Len(list) \in 0..Len(list)
  OBVIOUS
<1>. QED  BY <1>1, <1>2

(* A block more: its answers more, if it is the agent's.                    *)
LEMMA SaidAppend ==
  ASSUME NEW list \in Seq(Block), NEW b \in Block
  PROVE  Said(Append(list, b)) = IF b.role = "agent" THEN Said(list) \o b.said ELSE Said(list)
<1>. DEFINE more == Append(list, b)
            N == Len(list)
<1>1. /\ more \in Seq(Block) /\ N \in Nat /\ Len(more) = N + 1 /\ more[N + 1] = b
      /\ \A k \in 1..N : more[k] = list[k]
  OBVIOUS
<1>. HIDE DEF more
<1>2. PICK t : /\ t[0] = <<>> /\ Said(list) = t[N]
               /\ \A k \in 1..N : t[k] = (IF list[k].role = "agent" THEN t[k - 1] \o list[k].said
                                          ELSE t[k - 1])
  BY SaidSteps
<1>. HIDE DEF N
<1>3. PICK u : /\ u[0] = <<>> /\ Said(more) = u[N + 1]
               /\ \A k \in 1..(N + 1) :
                    u[k] = (IF more[k].role = "agent" THEN u[k - 1] \o more[k].said ELSE u[k - 1])
  <2>1. \E u \in [0..Len(more) -> Seq(Sendable)] :
               /\ u[0] = <<>> /\ Said(more) = u[Len(more)]
               /\ \A k \in 1..Len(more) :
                    u[k] = (IF more[k].role = "agent" THEN u[k - 1] \o more[k].said ELSE u[k - 1])
    BY <1>1, SaidSteps
  <2>. QED  BY <1>1, <2>1
<1>. DEFINE T == {k \in 0..N : u[k] = t[k]}
<1>4. \A k \in 0..N : k \in T
  <2>1. 0 \in T
    BY <1>1, <1>2, <1>3
  <2>2. ASSUME NEW k \in 0..N, k \in T, k < N PROVE k + 1 \in T
    <3>1. k + 1 \in 1..N /\ k + 1 \in 1..(N + 1) /\ (k + 1) - 1 = k /\ u[k] = t[k] /\ k + 1 \in 0..N
      BY <1>1, <2>2
    <3>2. u[k + 1] = t[k + 1]
      BY <1>1, <1>2, <1>3, <3>1
    <3>. QED  BY <3>1, <3>2
  <2>. HIDE DEF T
  <2>. QED  BY <1>1, <2>1, <2>2, UpTo
<1>5. u[N] = t[N] /\ N + 1 \in 1..(N + 1) /\ (N + 1) - 1 = N
  BY <1>1, <1>4
<1>. QED  BY <1>1, <1>2, <1>3, <1>5 DEF more

(* What the agent says goes into its open block, or into one of its own;    *)
(* the transcript says it behind what it said before.                       *)
LEMMA AgentFacts ==
  ASSUME NEW list \in Seq(Block), NEW said \in Seq(Sendable), NEW open \in BOOLEAN
  PROVE  Agent(list, said, open) \in Seq(Block) /\ Said(Agent(list, said, open)) = Said(list) \o said
<1>1. CASE list # <<>> /\ Last(list).role = "agent" /\ Last(list).open
  <2>. DEFINE last == Last(list)
              new == [role |-> "agent", said |-> last.said \o said, open |-> open]
  <2>1. /\ last \in Block /\ Front(list) \in Seq(Block) /\ list = Append(Front(list), last)
    BY <1>1 DEF Last, Front
  <2>2. last.said \in Seq(Sendable) /\ last.said \o said \in Seq(Sendable)
    BY <2>1 DEF Block
  <2>3. new \in Block /\ new.role = "agent" /\ new.said = last.said \o said
    BY <2>2 DEF Block
  <2>4. Agent(list, said, open) = Append(Front(list), new)
    BY <1>1 DEF Agent
  <2>. HIDE DEF last, new
  <2>. DEFINE front == Said(Front(list))
              words == last.said
  <2>5. Said(list) = front \o words /\ words \in Seq(Sendable) /\ front \in Seq(Sendable)
    BY <1>1, <2>1, <2>2, SaidAppend, SaidTyped DEF last
  <2>6. Said(Append(Front(list), new)) = front \o (words \o said)
    BY <2>1, <2>3, SaidAppend
  <2>7. Append(Front(list), new) \in Seq(Block)
    BY <2>1, <2>3, AppendIn, ZenonT(60)
  <2>. HIDE DEF front, words
  <2>8. front \o (words \o said) = (front \o words) \o said
    BY <2>5, Regrouped
  <2>9. Said(Append(Front(list), new)) = Said(list) \o said
    BY <2>5, <2>6, <2>8, ZenonT(60)
  <2>10. Agent(list, said, open) \in Seq(Block)
    BY <2>4, <2>7, ZenonT(60)
  <2>11. Said(Agent(list, said, open)) = Said(list) \o said
    BY <2>4, <2>9, ZenonT(60)
  <2>. QED  BY <2>10, <2>11, ZenonT(60)
<1>2. CASE ~ (list # <<>> /\ Last(list).role = "agent" /\ Last(list).open)
  <2>. DEFINE new == [role |-> "agent", said |-> said, open |-> open]
  <2>1. new \in Block /\ new.role = "agent" /\ new.said = said
    BY DEF Block
  <2>2. Agent(list, said, open) = Append(list, new)
    BY <1>2 DEF Agent
  <2>. HIDE DEF new
  <2>3. Append(list, new) \in Seq(Block)
    BY <2>1, AppendIn, ZenonT(60)
  <2>4. Said(Append(list, new)) = Said(list) \o said
    BY <2>1, SaidAppend
  <2>. QED  BY <2>2, <2>3, <2>4, ZenonT(60)
<1>. QED  BY <1>1, <1>2

(* A frame that is played tells what it says, and nothing that was told     *)
(* before is lost.                                                          *)
LEMMA ReduceFacts ==
  ASSUME NEW list \in Seq(Block), NEW f, f.msg \in Sendable
  PROVE  /\ Reduce(list, f) \in Seq(Block)
         /\ Said(Reduce(list, f)) = IF f.kind = "message" THEN Append(Said(list), f.msg) ELSE Said(list)
<1>1. CASE f.kind = "user"
  <2>1. UserBlock(f.msg) \in Block /\ UserBlock(f.msg).role # "agent"
    BY DEF UserBlock, Block
  <2>2. Reduce(list, f) = Append(list, UserBlock(f.msg))
    BY <1>1 DEF Reduce
  <2>. QED  BY <1>1, <2>1, <2>2, SaidAppend
<1>2. CASE f.kind = "message"
  <2>1. <<f.msg>> \in Seq(Sendable)
    OBVIOUS
  <2>2. Reduce(list, f) = Agent(list, <<f.msg>>, TRUE)
    BY <1>2 DEF Reduce
  <2>3. Said(list) \o <<f.msg>> = Append(Said(list), f.msg)
    BY SaidTyped
  <2>4. TRUE \in BOOLEAN
    OBVIOUS
  <2>. QED  BY <1>2, <2>1, <2>2, <2>3, <2>4, AgentFacts
<1>3. CASE f.kind \in {"turn_end", "turn_done"}
  <2>1. <<>> \in Seq(Sendable)
    OBVIOUS
  <2>2. Reduce(list, f) = Agent(list, <<>>, FALSE)
    BY <1>3 DEF Reduce
  <2>3. Said(list) \o <<>> = Said(list)
    BY SaidTyped
  <2>4. FALSE \in BOOLEAN
    OBVIOUS
  <2>. QED  BY <1>3, <2>1, <2>2, <2>3, <2>4, AgentFacts
<1>4. CASE f.kind \notin {"user", "message", "turn_end", "turn_done"}
  <2>1. Reduce(list, f) = list
    BY <1>4 DEF Reduce
  <2>. QED  BY <1>4, <2>1
<1>. QED  BY <1>1, <1>2, <1>3, <1>4

(* What is pending is drawn below, and adds no answers.                     *)
LEMMA SaidPending ==
  ASSUME NEW list \in Seq(Block), NEW u \in Seq(Sendable)
  PROVE  LET all == list \o [i \in DOMAIN u |-> UserBlock(u[i])]
         IN all \in Seq(Block) /\ Said(all) = Said(list)
<1>. DEFINE N == Len(u)
            To(k) == list \o [i \in 1..k |-> UserBlock(u[i])]
            T == {k \in 0..N : To(k) \in Seq(Block) /\ Said(To(k)) = Said(list)}
<1>1. N \in Nat /\ DOMAIN u = 1..N /\ \A i \in 1..N : UserBlock(u[i]) \in Block
  BY DEF UserBlock, Block
<1>2. 0 \in T
  <2>1. [i \in 1..0 |-> UserBlock(u[i])] = <<>>
    OBVIOUS
  <2>2. To(0) = list
    BY <2>1
  <2>. HIDE DEF To
  <2>. QED  BY <1>1, <2>2
<1>3. ASSUME NEW k \in 0..N, k \in T, k < N PROVE k + 1 \in T
  <2>1. To(k + 1) = Append(To(k), UserBlock(u[k + 1]))
    <3>. DEFINE s == [i \in 1..k |-> UserBlock(u[i])]
                r == [i \in 1..(k + 1) |-> UserBlock(u[i])]
    <3>1. s \in Seq(Block) /\ r \in Seq(Block) /\ UserBlock(u[k + 1]) \in Block /\ Len(s) = k
      BY <1>1, <1>3
    <3>2. r = Append(s, UserBlock(u[k + 1]))
      BY <1>1, <1>3, <3>1
    <3>. HIDE DEF s, r
    <3>3. list \o r = Append(list \o s, UserBlock(u[k + 1]))
      BY <3>1, <3>2
    <3>. QED  BY <3>3 DEF s, r
  <2>. HIDE DEF To
  <2>2. UserBlock(u[k + 1]) \in Block /\ k + 1 \in 0..N
    BY <1>1, <1>3
  <2>3. UserBlock(u[k + 1]).role # "agent"
    BY DEF UserBlock
  <2>4. To(k) \in Seq(Block) /\ Said(To(k)) = Said(list)
    BY <1>3
  <2>5. Said(To(k + 1)) = Said(list)
    BY <2>1, <2>2, <2>3, <2>4, SaidAppend
  <2>6. To(k + 1) \in Seq(Block)
    BY <2>1, <2>2, <2>4, AppendIn, ZenonT(60)
  <2>. QED  BY <2>2, <2>5, <2>6
<1>4. N \in T
  <2>1. \A k \in 0..N : k \in T /\ k < N => k + 1 \in T
    BY <1>3
  <2>. HIDE DEF T
  <2>2. \A k \in 0..N : k \in T
    BY <1>1, <1>2, <2>1, UpTo
  <2>. QED  BY <1>1, <2>2
<1>5. To(N) = list \o [i \in DOMAIN u |-> UserBlock(u[i])]
  BY <1>1
<1>. HIDE DEF To, N
<1>. QED  BY <1>4, <1>5

-----------------------------------------------------------------------------
(* The first k members of a list.                                           *)
Prefix(s, k) == SubSeq(s, 1, k)

(* It grows by one member at a time, from none to all.                      *)
LEMMA PrefixFacts ==
  ASSUME NEW F, NEW s \in Seq(F)
  PROVE  /\ Prefix(s, 0) = <<>> /\ Prefix(s, Len(s)) = s
         /\ \A k \in 0..Len(s) : Prefix(s, k) \in Seq(F)
         /\ \A k \in 0..Len(s) : k < Len(s) =>
              /\ k + 1 \in 1..Len(s) /\ k + 1 \in 0..Len(s) /\ (k + 1) - 1 = k
              /\ s[k + 1] \in F /\ Prefix(s, k + 1) = Append(Prefix(s, k), s[k + 1])
BY DEF Prefix

(* Order in an empty list ...                                               *)
LEMMA EmptyFacts ==
  /\ ToSet(<<>>) = {}
  /\ \A x, y : ~ Follows(<<>>, x, y) /\ ~ Leads(<<>>, x, y)
BY DEF ToSet, Follows, Leads

(* ... in one with a member behind the others ...                           *)
LEMMA AppendFacts ==
  ASSUME NEW F, NEW a \in Seq(F), NEW f \in F
  PROVE  /\ ToSet(Append(a, f)) = ToSet(a) \cup {f}
         /\ \A x, y : Follows(Append(a, f), x, y) <=> Follows(a, x, y) \/ (x \in ToSet(a) /\ y = f)
         /\ \A x, y : Leads(Append(a, f), x, y)
                        <=> Leads(a, x, y) \/ (x = f /\ y \notin ToSet(a) /\ y # f)
<1>. DEFINE L == Len(a)
            b == Append(a, f)
<1>1. /\ L \in Nat /\ DOMAIN a = 1..L /\ DOMAIN b = 1..(L + 1) /\ b[L + 1] = f
      /\ \A i \in 1..L : b[i] = a[i]
  OBVIOUS
<1>2. /\ L + 1 \in 1..(L + 1)
      /\ \A i \in 1..(L + 1) : i \in 1..L \/ i = L + 1
      /\ \A i \in 1..L : i \in 1..(L + 1) /\ i < L + 1 /\ \A k \in 1..i : k \in 1..L
      /\ \A i \in 1..(L + 1) : ~ (L + 1 < i)
  BY <1>1
<1>. HIDE DEF L, b
<1>3. ToSet(b) = ToSet(a) \cup {f}
  BY <1>1, <1>2 DEF ToSet
<1>4. ASSUME NEW x, NEW y PROVE Follows(b, x, y) <=> Follows(a, x, y) \/ (x \in ToSet(a) /\ y = f)
  BY <1>1, <1>2 DEF ToSet, Follows
<1>5. ASSUME NEW x, NEW y
      PROVE  Leads(b, x, y) <=> Leads(a, x, y) \/ (x = f /\ y \notin ToSet(a) /\ y # f)
  <2>1. Leads(a, x, y) => Leads(b, x, y)
    BY <1>1, <1>2 DEF Leads
  <2>2. x = f /\ y \notin ToSet(a) /\ y # f => Leads(b, x, y)
    BY <1>1, <1>2 DEF Leads, ToSet
  <2>3. ASSUME Leads(b, x, y) PROVE Leads(a, x, y) \/ (x = f /\ y \notin ToSet(a) /\ y # f)
    <3>1. PICK i \in 1..(L + 1) : b[i] = x /\ \A k \in 1..i : b[k] # y
      BY <1>1, <2>3 DEF Leads
    <3>2. CASE i \in 1..L
      BY <1>1, <1>2, <3>1, <3>2 DEF Leads
    <3>3. CASE i = L + 1
      BY <1>1, <1>2, <3>1, <3>3 DEF ToSet
    <3>. QED  BY <1>2, <3>2, <3>3
  <2>. QED  BY <2>1, <2>2, <2>3
<1>. QED  BY <1>3, <1>4, <1>5 DEF b

(* The members of a sequence are chosen in their order.                     *)
LEMMA ChosenKeeps ==
  ASSUME NEW F, NEW s \in Seq(F), NEW set
  PROVE  /\ Chosen(s, set) \in Seq(F)
         /\ \A x : x \in ToSet(Chosen(s, set)) <=> x \in ToSet(s) /\ x \in set
         /\ \A x, y : Follows(Chosen(s, set), x, y) => Follows(s, x, y)
<1>. DEFINE N == Len(s)
            c == Chosen(s, set)
<1>1. PICK t \in [0..N -> Seq(F)] :
        /\ t[0] = <<>> /\ c = t[N]
        /\ \A k \in 1..N : t[k] = (IF s[k] \in set THEN Append(t[k - 1], s[k]) ELSE t[k - 1])
  BY ChosenSteps
<1>. DEFINE Has(k) == \A x : x \in ToSet(t[k]) <=> x \in ToSet(Prefix(s, k)) /\ x \in set
            Order(k) == \A x, y : Follows(t[k], x, y) => Follows(Prefix(s, k), x, y)
            T == {k \in 0..N : Has(k) /\ Order(k)}
<1>2. N \in Nat /\ N \in 0..N /\ 0 \in 0..N
  OBVIOUS
<1>3. 0 \in T
  BY <1>1, <1>2, PrefixFacts, EmptyFacts
<1>4. ASSUME NEW k \in 0..N, k \in T, k < N PROVE k + 1 \in T
  <2>. DEFINE a == t[k]
              p == Prefix(s, k)
              f == s[k + 1]
              n == t[k + 1]
              q == Prefix(s, k + 1)
  <2>1. /\ a \in Seq(F) /\ p \in Seq(F) /\ f \in F /\ k + 1 \in 0..N
        /\ q = Append(p, f) /\ n = (IF f \in set THEN Append(a, f) ELSE a)
    <3>1. k \in 0..N /\ k < N
      BY <1>4
    <3>2. p \in Seq(F) /\ f \in F /\ k + 1 \in 1..N /\ k + 1 \in 0..N /\ (k + 1) - 1 = k /\ q = Append(p, f)
      BY <3>1, PrefixFacts
    <3>3. n = (IF f \in set THEN Append(a, f) ELSE a)
      BY <1>1, <3>2
    <3>. QED  BY <1>1, <3>1, <3>2, <3>3
  <2>2. /\ \A x : x \in ToSet(a) <=> x \in ToSet(p) /\ x \in set
        /\ \A x, y : Follows(a, x, y) => Follows(p, x, y)
    BY <1>4
  <2>. HIDE DEF a, p, f, n, q
  <2>3. /\ ToSet(q) = ToSet(p) \cup {f}
        /\ \A x, y : Follows(q, x, y) <=> Follows(p, x, y) \/ (x \in ToSet(p) /\ y = f)
    BY <2>1, AppendFacts
  <2>4. /\ ToSet(n) = IF f \in set THEN ToSet(a) \cup {f} ELSE ToSet(a)
        /\ \A x, y : Follows(n, x, y) => Follows(a, x, y) \/ (f \in set /\ x \in ToSet(a) /\ y = f)
    BY <2>1, AppendFacts
  <2>5. \A x : x \in ToSet(n) <=> x \in ToSet(q) /\ x \in set
    BY <2>2, <2>3, <2>4
  <2>6. \A x, y : Follows(n, x, y) => Follows(q, x, y)
    BY <2>2, <2>3, <2>4
  <2>. QED  BY <2>1, <2>5, <2>6 DEF n, q
<1>5. N \in T
  <2>1. \A k \in 0..N : k \in T /\ k < N => k + 1 \in T
    BY <1>4
  <2>. HIDE DEF T
  <2>2. \A k \in 0..N : k \in T
    BY <1>2, <1>3, <2>1, UpTo
  <2>. QED  BY <1>2, <2>2
<1>6. t[N] = c /\ Prefix(s, N) = s /\ c \in Seq(F)
  BY <1>1, <1>2, PrefixFacts
<1>. HIDE DEF c, N
<1>7. Has(N) /\ Order(N)
  BY <1>5
<1>. QED  BY <1>6, <1>7 DEF c

(* Of frames that come twice the first is kept.                             *)
LEMMA UniqueKeeps ==
  ASSUME NEW F, NEW s \in Seq(F)
  PROVE  /\ Unique(s) \in Seq(F)
         /\ \A x : x \in ToSet(Unique(s)) <=> x \in ToSet(s)
         /\ \A x, y : Follows(Unique(s), x, y) => Leads(s, x, y)
<1>. DEFINE N == Len(s)
            c == Unique(s)
<1>1. PICK t \in [0..N -> Seq(F)] :
        /\ t[0] = <<>> /\ c = t[N]
        /\ \A k \in 1..N : t[k] = (IF s[k] \in ToSet(t[k - 1]) THEN t[k - 1] ELSE Append(t[k - 1], s[k]))
  BY UniqueSteps
<1>. DEFINE Has(k) == \A x : x \in ToSet(t[k]) <=> x \in ToSet(Prefix(s, k))
            Order(k) == \A x, y : Follows(t[k], x, y) => Leads(Prefix(s, k), x, y)
            T == {k \in 0..N : Has(k) /\ Order(k)}
<1>2. N \in Nat /\ N \in 0..N /\ 0 \in 0..N
  OBVIOUS
<1>3. 0 \in T
  BY <1>1, <1>2, PrefixFacts, EmptyFacts
<1>4. ASSUME NEW k \in 0..N, k \in T, k < N PROVE k + 1 \in T
  <2>. DEFINE a == t[k]
              p == Prefix(s, k)
              f == s[k + 1]
              n == t[k + 1]
              q == Prefix(s, k + 1)
  <2>a. /\ p \in Seq(F) /\ f \in F /\ k + 1 \in 0..N /\ q = Append(p, f)
        /\ k + 1 \in 1..N /\ (k + 1) - 1 = k
    BY <1>2, <1>4, PrefixFacts
  <2>b. a \in Seq(F)
    BY <1>1
  <2>c. n = (IF f \in ToSet(a) THEN a ELSE Append(a, f))
    <3>1. t[k + 1] = (IF s[k + 1] \in ToSet(t[(k + 1) - 1]) THEN t[(k + 1) - 1]
                      ELSE Append(t[(k + 1) - 1], s[k + 1]))
      BY <1>1, <2>a
    <3>. QED  BY <2>a, <3>1
  <2>1. /\ a \in Seq(F) /\ p \in Seq(F) /\ f \in F /\ k + 1 \in 0..N
        /\ q = Append(p, f) /\ n = (IF f \in ToSet(a) THEN a ELSE Append(a, f))
    BY <2>a, <2>b, <2>c
  <2>2. /\ \A x : x \in ToSet(a) <=> x \in ToSet(p)
        /\ \A x, y : Follows(a, x, y) => Leads(p, x, y)
    BY <1>4
  <2>. HIDE DEF a, p, f, n, q
  <2>3. /\ ToSet(q) = ToSet(p) \cup {f}
        /\ \A x, y : Leads(q, x, y) <=> Leads(p, x, y) \/ (x = f /\ y \notin ToSet(p) /\ y # f)
    BY <2>1, AppendFacts
  <2>4. /\ ToSet(n) = ToSet(a) \cup {f}
        /\ \A x, y : Follows(n, x, y) => Follows(a, x, y) \/ (f \notin ToSet(a) /\ x \in ToSet(a) /\ y = f)
    BY <2>1, AppendFacts
  <2>5. \A x : x \in ToSet(n) <=> x \in ToSet(q)
    BY <2>2, <2>3, <2>4
  <2>6. \A x, y : f \notin ToSet(a) /\ x \in ToSet(a) /\ y = f => Leads(q, x, y)
    <3>1. \A x : x \in ToSet(p) /\ f \notin ToSet(p) => Leads(p, x, f)
      BY <2>1 DEF Leads, ToSet
    <3>. QED  BY <2>2, <2>3, <3>1
  <2>7. \A x, y : Follows(n, x, y) => Leads(q, x, y)
    BY <2>2, <2>3, <2>4, <2>6
  <2>. QED  BY <2>1, <2>5, <2>7 DEF n, q
<1>5. N \in T
  <2>1. \A k \in 0..N : k \in T /\ k < N => k + 1 \in T
    BY <1>4
  <2>. HIDE DEF T
  <2>2. \A k \in 0..N : k \in T
    BY <1>2, <1>3, <2>1, UpTo
  <2>. QED  BY <1>2, <2>2
<1>6. t[N] = c /\ Prefix(s, N) = s /\ c \in Seq(F)
  BY <1>1, <1>2, PrefixFacts
<1>. HIDE DEF c, N
<1>7. Has(N) /\ Order(N)
  BY <1>5
<1>. QED  BY <1>6, <1>7 DEF c

(* A member behind the second of two lists.                                 *)
LEMMA ConcatAppend ==
  ASSUME NEW F, NEW a \in Seq(F), NEW b \in Seq(F), NEW f \in F
  PROVE  a \o Append(b, f) = Append(a \o b, f) /\ a \o b \in Seq(F)
OBVIOUS

(* ... and in two lists, one behind the other.                              *)
LEMMA ConcatFacts ==
  ASSUME NEW F, NEW a \in Seq(F), NEW b \in Seq(F)
  PROVE  /\ a \o b \in Seq(F)
         /\ ToSet(a \o b) = ToSet(a) \cup ToSet(b)
         /\ \A x, y : Follows(a \o b, x, y)
              <=> Follows(a, x, y) \/ Follows(b, x, y) \/ (x \in ToSet(a) /\ y \in ToSet(b))
         /\ \A x, y : Leads(a \o b, x, y)
              => Leads(a, x, y) \/ (y \notin ToSet(a) /\ Leads(b, x, y))
<1>. DEFINE N == Len(b)
            P(k) == Prefix(b, k)
            T == {k \in 0..N : /\ ToSet(a \o P(k)) = ToSet(a) \cup ToSet(P(k))
                               /\ \A x, y : Follows(a \o P(k), x, y)
                                    <=> \/ Follows(a, x, y) \/ Follows(P(k), x, y)
                                        \/ (x \in ToSet(a) /\ y \in ToSet(P(k)))
                               /\ \A x, y : Leads(a \o P(k), x, y)
                                    => Leads(a, x, y) \/ (y \notin ToSet(a) /\ Leads(P(k), x, y))}
<1>1. N \in Nat /\ N \in 0..N /\ 0 \in 0..N
  OBVIOUS
<1>2. 0 \in T
  <2>1. P(0) = <<>> /\ a \o <<>> = a
    BY PrefixFacts
  <2>. HIDE DEF P
  <2>. QED  BY <1>1, <2>1, EmptyFacts
<1>3. ASSUME NEW k \in 0..N, k \in T, k < N PROVE k + 1 \in T
  <2>. DEFINE p == P(k)
              f == b[k + 1]
              q == P(k + 1)
  <2>1. k + 1 \in 0..N /\ p \in Seq(F) /\ f \in F /\ q = Append(p, f)
    BY <1>3, PrefixFacts
  <2>2. a \o q = Append(a \o p, f) /\ a \o p \in Seq(F)
    <3>. HIDE DEF p, f, q
    <3>. QED  BY <2>1, ConcatAppend
  <2>3. /\ ToSet(a \o p) = ToSet(a) \cup ToSet(p)
        /\ \A x, y : Follows(a \o p, x, y)
                       <=> Follows(a, x, y) \/ Follows(p, x, y) \/ (x \in ToSet(a) /\ y \in ToSet(p))
        /\ \A x, y : Leads(a \o p, x, y) => Leads(a, x, y) \/ (y \notin ToSet(a) /\ Leads(p, x, y))
    BY <1>3
  <2>. DEFINE ap == a \o p
              aq == a \o q
  <2>. HIDE DEF p, f, q, ap, aq, P
  <2>4. /\ ToSet(q) = ToSet(p) \cup {f}
        /\ \A x, y : Follows(q, x, y) <=> Follows(p, x, y) \/ (x \in ToSet(p) /\ y = f)
        /\ \A x, y : Leads(q, x, y) <=> Leads(p, x, y) \/ (x = f /\ y \notin ToSet(p) /\ y # f)
    BY <2>1, AppendFacts
  <2>a. aq = Append(ap, f) /\ ap \in Seq(F)
    BY <2>2 DEF ap, aq
  <2>5. /\ ToSet(aq) = ToSet(ap) \cup {f}
        /\ \A x, y : Follows(aq, x, y) <=> Follows(ap, x, y) \/ (x \in ToSet(ap) /\ y = f)
        /\ \A x, y : Leads(aq, x, y) <=> Leads(ap, x, y) \/ (x = f /\ y \notin ToSet(ap) /\ y # f)
    BY <2>1, <2>a, AppendFacts
  <2>6. /\ ToSet(ap) = ToSet(a) \cup ToSet(p)
        /\ \A x, y : Follows(ap, x, y)
                       <=> Follows(a, x, y) \/ Follows(p, x, y) \/ (x \in ToSet(a) /\ y \in ToSet(p))
        /\ \A x, y : Leads(ap, x, y) => Leads(a, x, y) \/ (y \notin ToSet(a) /\ Leads(p, x, y))
    BY <2>3 DEF ap
  <2>7. ToSet(aq) = ToSet(a) \cup ToSet(q)
    BY <2>4, <2>5, <2>6
  <2>8. \A x, y : Follows(aq, x, y)
                    <=> Follows(a, x, y) \/ Follows(q, x, y) \/ (x \in ToSet(a) /\ y \in ToSet(q))
    BY <2>4, <2>5, <2>6
  <2>9. \A x, y : Leads(aq, x, y) => Leads(a, x, y) \/ (y \notin ToSet(a) /\ Leads(q, x, y))
    BY <2>4, <2>5, <2>6
  <2>. QED  BY <2>1, <2>7, <2>8, <2>9 DEF aq, q
<1>4. N \in T
  <2>1. \A k \in 0..N : k \in T /\ k < N => k + 1 \in T
    BY <1>3
  <2>. HIDE DEF T
  <2>2. \A k \in 0..N : k \in T
    BY <1>1, <1>2, <2>1, UpTo
  <2>. QED  BY <1>1, <2>2
<1>5. P(N) = b
  BY PrefixFacts
<1>6. a \o b \in Seq(F)
  OBVIOUS
<1>. HIDE DEF N, P
<1>. QED  BY <1>4, <1>5, <1>6

(* The head of a list, and the rest of it.                                  *)
LEMMA HeadFacts ==
  ASSUME NEW F, NEW s \in Seq(F), s # <<>>
  PROVE  /\ Head(s) \in F /\ Tail(s) \in Seq(F) /\ s = <<Head(s)>> \o Tail(s)
         /\ ToSet(s) = {Head(s)} \cup ToSet(Tail(s))
         /\ \A x, y : Follows(Tail(s), x, y) => Follows(s, x, y)
         /\ \A x, y : Follows(s, x, y) => Follows(Tail(s), x, y) \/ (x = Head(s) /\ y \in ToSet(Tail(s)))
         /\ \A a \in Seq(F) : Append(a, Head(s)) \o Tail(s) = a \o s
<1>. DEFINE h == Head(s)
            r == Tail(s)
            o == <<h>>
<1>1. h \in F /\ r \in Seq(F) /\ s = o \o r /\ o \in Seq(F) /\ o = Append(<<>>, h) /\ <<>> \in Seq(F)
  OBVIOUS
<1>2. ASSUME NEW a \in Seq(F) PROVE Append(a, h) \o r = a \o s
  <2>1. Append(a, h) = a \o o
    BY <1>1
  <2>. HIDE DEF h, r, o
  <2>2. (a \o o) \o r = a \o (o \o r)
    BY <1>1, Regrouped
  <2>. QED  BY <1>1, <2>1, <2>2
<1>. HIDE DEF h, r, o
<1>3. ToSet(o) = {h} /\ \A x, y : ~ Follows(o, x, y)
  BY DEF ToSet, Follows, o
<1>4. /\ ToSet(s) = ToSet(o) \cup ToSet(r)
      /\ \A x, y : Follows(s, x, y)
           <=> Follows(o, x, y) \/ Follows(r, x, y) \/ (x \in ToSet(o) /\ y \in ToSet(r))
  BY <1>1, ConcatFacts
<1>. QED  BY <1>1, <1>2, <1>3, <1>4 DEF h, r, o

-----------------------------------------------------------------------------
(* r holds the messages that b holds, in their order.                       *)
SameWords(r, b) ==
  /\ \A x : Word(x) => (x \in ToSet(r) <=> x \in ToSet(b))
  /\ \A x, y : Word(x) /\ Word(y) /\ Follows(r, x, y) => Follows(b, x, y)

(* Lists with the same messages are alike in what the invariant says of     *)
(* them.                                                                    *)
LEMMA SameWordsKeep ==
  ASSUME NEW r, NEW b, SameWords(r, b)
  PROVE  /\ Nums(r) = Nums(b)
         /\ InOrder(b) => InOrder(r)
         /\ Truthful(b, log) => Truthful(r, log)
<1>1. Nums(r) = Nums(b)
  BY DEF SameWords, Nums
<1>2. InOrder(b) => InOrder(r)
  BY DEF SameWords, InOrder
<1>3. Truthful(b, log) => Truthful(r, log)
  BY DEF SameWords, Truthful
<1>. QED  BY <1>1, <1>2, <1>3

(* To hold the same messages is reflexive ...                               *)
LEMMA SameWordsRefl ==
  \A b : SameWords(b, b)
BY DEF SameWords

(* ... and transitive.                                                      *)
LEMMA SameWordsTrans ==
  \A a, b, c : SameWords(a, b) /\ SameWords(b, c) => SameWords(a, c)
BY DEF SameWords

(* Remember (rememberLiveFrame): a message is put behind the others, the    *)
(* end of the turn empties the list, and no other frame changes the         *)
(* messages in it.                                                          *)
LEMMA RememberKeeps ==
  ASSUME NEW b \in Seq(Frames), NEW f \in Frames
  PROVE  /\ Remember(b, f) \in Seq(Frames)
         /\ ~Done(f) /\ ~Word(f) => SameWords(Remember(b, f), b)
         /\ Word(f) => Remember(b, f) = Append(b, f)
         /\ Done(f) => Remember(b, f) = <<>>
<1>1. CASE Done(f)
  BY <1>1 DEF Remember, Done, Word
<1>2. CASE f.kind = "question_resolved"
  <2>. DEFINE set == ToSet(b) \ {AskFrame(f.msg)}
              r == Chosen(b, set)
  <2>1. Remember(b, f) = r
    BY <1>2 DEF Remember
  <2>2. \A x : Word(x) => x # AskFrame(f.msg)
    BY DEF Word, AskFrame, Frame
  <2>3. \A x : Word(x) => (x \in set <=> x \in ToSet(b))
    BY <2>2
  <2>. HIDE DEF set
  <2>4. /\ r \in Seq(Frames)
        /\ \A x : x \in ToSet(r) <=> x \in ToSet(b) /\ x \in set
        /\ \A x, y : Follows(r, x, y) => Follows(b, x, y)
    BY ChosenKeeps
  <2>. HIDE DEF r
  <2>. QED  BY <1>2, <2>1, <2>3, <2>4 DEF SameWords, Word, Done
<1>3. CASE f.kind = "question_asked" /\ f \in ToSet(b)
  <2>1. Remember(b, f) = b
    BY <1>3 DEF Remember
  <2>. QED  BY <1>3, <2>1, SameWordsRefl DEF Done, Word
<1>4. CASE ~Done(f) /\ f.kind # "question_resolved" /\ ~(f.kind = "question_asked" /\ f \in ToSet(b))
  <2>1. Remember(b, f) = Append(b, f)
    BY <1>4 DEF Remember, Done
  <2>2. Append(b, f) \in Seq(Frames)
    BY AppendIn, ZenonT(60)
  <2>3. ~Word(f) => SameWords(Append(b, f), b)
    BY AppendFacts DEF SameWords
  <2>. QED  BY <1>4, <2>1, <2>2, <2>3
<1>. QED  BY <1>1, <1>2, <1>3, <1>4

(* Only asks are in the list.                                               *)
Asks(s) == \A f \in ToSet(s) : f.kind = "question_asked"

(* What the host has open is remembered without a change to the messages.   *)
LEMMA RecoveredKeeps ==
  ASSUME NEW b \in Seq(Frames), NEW s \in Seq(Frames), Asks(s)
  PROVE  Recovered(b, s) \in Seq(Frames) /\ SameWords(Recovered(b, s), b)
<1>. DEFINE N == Len(s)
<1>1. PICK t \in [0..N -> Seq(Frames)] :
        /\ t[0] = b /\ Recovered(b, s) = t[N]
        /\ \A k \in 1..N : t[k] = Remember(t[k - 1], s[k])
  <2>1. Remembers(Frames)
    BY RememberKeeps DEF Remembers
  <2>. QED  BY <2>1, RecoveredSteps
<1>. DEFINE T == {k \in 0..N : SameWords(t[k], b)}
<1>2. N \in Nat /\ N \in 0..N /\ 0 \in 0..N /\ s \in [1..N -> Frames]
  OBVIOUS
<1>3. 0 \in T
  BY <1>1, <1>2, SameWordsRefl
<1>4. ASSUME NEW k \in 0..N, k \in T, k < N PROVE k + 1 \in T
  <2>1. k + 1 \in 0..N /\ k + 1 \in 1..N /\ (k + 1) - 1 = k
    BY <1>2, <1>4
  <2>2. t[k] \in Seq(Frames) /\ s[k + 1] \in Frames /\ t[k + 1] = Remember(t[k], s[k + 1])
    BY <1>1, <1>2, <2>1
  <2>3. ~Done(s[k + 1]) /\ ~Word(s[k + 1])
    BY <1>2, <2>1 DEF Asks, ToSet, Done, Word
  <2>4. SameWords(t[k + 1], t[k])
    BY <2>2, <2>3, RememberKeeps
  <2>5. SameWords(t[k], b)
    BY <1>4
  <2>. QED  BY <2>1, <2>4, <2>5, SameWordsTrans
<1>5. N \in T
  <2>1. \A k \in 0..N : k \in T /\ k < N => k + 1 \in T
    BY <1>4
  <2>. HIDE DEF T
  <2>2. \A k \in 0..N : k \in T
    BY <1>2, <1>3, <2>1, UpTo
  <2>. QED  BY <1>2, <2>2
<1>. HIDE DEF N
<1>. QED  BY <1>1, <1>2, <1>5

(* The members of a set of asks, in some order.                             *)
LEMMA ListedAsks ==
  ASSUME NEW A \in SUBSET {AskFrame(a) : a \in Sendable}
  PROVE  SetToSeq(A) \in Seq(Frames) /\ Asks(SetToSeq(A))
<1>. DEFINE All == {AskFrame(a) : a \in Sendable}
            f == [a \in Sendable |-> AskFrame(a)]
<1>1. MaxMsgs \in Nat
  BY RelayAssumption
<1>2. IsFiniteSet(Sendable)
  BY <1>1, FS_Interval DEF Sendable
<1>3. f \in Surjection(Sendable, All)
  BY DEF Surjection
<1>4. IsFiniteSet(A)
  <2>. HIDE DEF f
  <2>1. IsFiniteSet(All)
    BY <1>2, <1>3, FS_Surjection
  <2>. QED  BY <2>1, FS_Subset
<1>. DEFINE n == Cardinality(A)
<1>5. n \in Nat /\ ExistsBijection(1..n, A)
  BY <1>4, FS_CardinalityType
<1>6. \E g \in [1..n -> A] : IsInjective(g)
  BY <1>5 DEF ExistsBijection, Bijection, Injection
<1>7. SetToSeq(A) \in [1..n -> A]
  BY <1>6 DEF SetToSeq
<1>8. \A x \in A : x \in Frames /\ x.kind = "question_asked"
  BY DEF AskFrame, Frame, Frames, Kinds
<1>. DEFINE s == SetToSeq(A)
<1>. HIDE DEF n, s
<1>9. s \in Seq(A) /\ s \in Seq(Frames) /\ DOMAIN s = 1..n
  BY <1>5, <1>7, <1>8 DEF s
<1>10. Asks(s)
  BY <1>7, <1>8, <1>9 DEF s, Asks, ToSet
<1>. QED  BY <1>9, <1>10 DEF s

(* Replay (replayFrames): the messages that are live, and asks behind them. *)
LEMMA ReplayKeeps ==
  ASSUME NEW b \in Seq(Frames), NEW set \in SUBSET Sendable
  PROVE  Replay(b, set) \in Seq(Frames) /\ SameWords(Replay(b, set), b)
<1>. DEFINE s == SetToSeq({AskFrame(a) : a \in set} \ ToSet(b))
<1>1. s \in Seq(Frames) /\ Asks(s)
  <2>1. {AskFrame(a) : a \in set} \ ToSet(b) \in SUBSET {AskFrame(a) : a \in Sendable}
    OBVIOUS
  <2>. QED  BY <2>1, ListedAsks
<1>2. Replay(b, set) = b \o s
  BY DEF Replay
<1>. HIDE DEF s
<1>3. /\ b \o s \in Seq(Frames)
      /\ ToSet(b \o s) = ToSet(b) \cup ToSet(s)
      /\ \A x, y : Follows(b \o s, x, y)
           <=> Follows(b, x, y) \/ Follows(s, x, y) \/ (x \in ToSet(b) /\ y \in ToSet(s))
  BY <1>1, ConcatFacts
<1>4. \A x, y : Follows(s, x, y) => y \in ToSet(s)
  BY DEF Follows, ToSet
<1>5. \A x : Word(x) => x \notin ToSet(s)
  BY <1>1 DEF Asks, Word
<1>. QED  BY <1>2, <1>3, <1>4, <1>5 DEF SameWords

-----------------------------------------------------------------------------
(* a[k] are the answers among the first k events of the log.                *)
IsAnswers(a) ==
  /\ a \in [0..Len(log) -> Seq(Sendable)]
  /\ a[0] = <<>> /\ Answers(log) = a[Len(log)]
  /\ \A k \in 1..Len(log) :
       a[k] = (IF log[k].kind = "message" THEN Append(a[k - 1], log[k].msg) ELSE a[k - 1])

(* Every log has its answers, one event after the other.                    *)
LEMMA HasAnswers ==
  ASSUME log \in Seq(Events)
  PROVE  \E a : IsAnswers(a)
BY AnswersSteps DEF IsAnswers

(* Frames and events can be played into a transcript.                       *)
LEMMA PlayableFacts == Playable(Frames) /\ Playable(Events)
<1>1. \A f \in Frames \cup Events : f.msg \in Sendable
  BY DEF Frames, Events
<1>. QED  BY <1>1, ReduceFacts DEF Playable

(* t[k] is the transcript b after the first k frames of s.                  *)
IsPlay(t, b, s) ==
  /\ t \in [0..Len(s) -> Seq(Block)]
  /\ t[0] = b /\ Played(b, s) = t[Len(s)]
  /\ \A k \in 1..Len(s) : t[k] = Reduce(t[k - 1], s[k])

(* Whatever can be played has such a course.                                *)
LEMMA PlayedTrace ==
  \A F : \A b \in Seq(Block), s \in Seq(F) : Playable(F) => \E t : IsPlay(t, b, s)
BY PlayedSteps DEF IsPlay

(* The transcript that is built from the first n events.                    *)
LEMMA BuildTells ==
  ASSUME log \in Seq(Events), NEW n \in 0..Len(log), NEW a, IsAnswers(a)
  PROVE  Build(n) \in Seq(Block) /\ Said(Build(n)) = a[n]
<1>. DEFINE s == SubSeq(log, 1, n)
            N == Len(log)
<1>1. /\ s \in Seq(Events) /\ Len(s) = n /\ N \in Nat /\ n \in 0..N /\ n \in Nat
      /\ \A k \in 1..n : s[k] = log[k] /\ k \in 1..N /\ log[k] \in Events
  OBVIOUS
<1>2. <<>> \in Seq(Block)
  OBVIOUS
<1>3. Build(n) = Played(<<>>, s)
  BY DEF Build
<1>. HIDE DEF s
<1>4. PICK t \in [0..n -> Seq(Block)] :
        /\ t[0] = <<>> /\ Played(<<>>, s) = t[n]
        /\ \A k \in 1..n : t[k] = Reduce(t[k - 1], s[k])
  <2>1. PICK t : IsPlay(t, <<>>, s)
    BY <1>1, <1>2, PlayableFacts, PlayedTrace
  <2>. QED  BY <1>1, <2>1 DEF IsPlay
<1>. DEFINE T == {k \in 0..n : Said(t[k]) = a[k]}
<1>. HIDE DEF N
<1>5. 0 \in T
  BY <1>1, <1>4, SaidEmpty DEF IsAnswers
<1>6. ASSUME NEW k \in 0..n, k \in T, k < n PROVE k + 1 \in T
  <2>1. k + 1 \in 1..n /\ k + 1 \in 0..n /\ (k + 1) - 1 = k /\ k + 1 \in 1..N
    BY <1>1, <1>6
  <2>2. t[k] \in Seq(Block) /\ t[k + 1] = Reduce(t[k], log[k + 1])
    BY <1>1, <1>4, <2>1
  <2>3. log[k + 1].msg \in Sendable
    BY <1>1, <2>1 DEF Events
  <2>4. Said(t[k + 1]) = IF log[k + 1].kind = "message" THEN Append(Said(t[k]), log[k + 1].msg)
                         ELSE Said(t[k])
    BY <2>2, <2>3, ReduceFacts
  <2>5. a[k + 1] = (IF log[k + 1].kind = "message" THEN Append(a[k], log[k + 1].msg) ELSE a[k])
    BY <2>1 DEF IsAnswers, N
  <2>6. Said(t[k]) = a[k]
    BY <1>6
  <2>. QED  BY <2>1, <2>4, <2>5, <2>6
<1>7. n \in T
  <2>1. \A k \in 0..n : k \in T /\ k < n => k + 1 \in T
    BY <1>6
  <2>. HIDE DEF T
  <2>2. \A k \in 0..n : k \in T
    BY <1>1, <1>5, <2>1, UpTo
  <2>. QED  BY <1>1, <2>2
<1>8. t[n] \in Seq(Block)
  BY <1>1, <1>4
<1>. QED  BY <1>3, <1>4, <1>7, <1>8

(* Where the log tells nothing the answers stay the same.                   *)
LEMMA NothingTold ==
  ASSUME log \in Seq(Events), NEW a, IsAnswers(a), NEW i \in 0..Len(log), NEW j \in 0..Len(log),
         i <= j, \A q \in Told(log) : ~ (i < q /\ q <= j)
  PROVE  a[j] = a[i]
<1>. DEFINE N == Len(log)
            T == {k \in 0..N : i <= k /\ k <= j => a[k] = a[i]}
<1>1. N \in Nat /\ i \in Nat /\ j \in Nat
  OBVIOUS
<1>2. 0 \in T
  BY <1>1
<1>3. ASSUME NEW k \in 0..N, k \in T, k < N PROVE k + 1 \in T
  <2>. SUFFICES ASSUME i <= k + 1, k + 1 <= j, i # k + 1 PROVE a[k + 1] = a[i]
    BY <1>1, <1>3
  <2>1. k + 1 \in 1..N /\ (k + 1) - 1 = k /\ i <= k /\ k <= j /\ i < k + 1
    BY <1>1, <1>3
  <2>2. k + 1 \notin Told(log)
    BY <2>1
  <2>3. log[k + 1].kind # "message"
    BY <2>1, <2>2 DEF Told
  <2>4. a[k + 1] = a[k]
    BY <2>1, <2>3 DEF IsAnswers
  <2>. QED  BY <1>3, <2>1, <2>4
<1>4. \A k \in 0..N : k \in T
  <2>1. \A k \in 0..N : k \in T /\ k < N => k + 1 \in T
    BY <1>3
  <2>. HIDE DEF T
  <2>. QED  BY <1>1, <1>2, <2>1, UpTo
<1>. QED  BY <1>1, <1>4

(* What comes before and after the k+1-st member.                           *)
LEMMA PlaceFacts ==
  ASSUME NEW F, NEW s \in Seq(F), NEW k \in 0..Len(s), k < Len(s)
  PROVE  /\ \A g \in ToSet(Prefix(s, k)) : g \in ToSet(s) /\ Follows(s, g, s[k + 1])
         /\ \A g \in ToSet(s) : g \in ToSet(Prefix(s, k)) \/ g = s[k + 1] \/ Follows(s, s[k + 1], g)
         /\ s[k + 1] \in ToSet(s)
<1>. DEFINE p == Prefix(s, k)
            N == Len(s)
<1>1. /\ DOMAIN p = 1..k /\ \A i \in 1..k : p[i] = s[i] /\ i \in 1..N /\ i < k + 1
      /\ DOMAIN s = 1..N /\ N \in Nat /\ k + 1 \in 1..N
      /\ \A i \in 1..N : i \in 1..k \/ i = k + 1 \/ k + 1 < i
  BY DEF Prefix
<1>. HIDE DEF p, N
<1>2. \A g \in ToSet(p) : g \in ToSet(s) /\ Follows(s, g, s[k + 1])
  BY <1>1 DEF ToSet, Follows
<1>3. \A g \in ToSet(s) : g \in ToSet(p) \/ g = s[k + 1] \/ Follows(s, s[k + 1], g)
  BY <1>1 DEF ToSet, Follows
<1>4. s[k + 1] \in ToSet(s)
  BY <1>1 DEF ToSet
<1>. QED  BY <1>2, <1>3, <1>4 DEF p

(* The frames tell, in order, all the log tells behind the n-th event.      *)
Tells(s, n) ==
  /\ Truthful(s, log) /\ InOrder(s)
  /\ \A f \in ToSet(s) : Word(f) => f.seq > n
  /\ \A q \in Told(log) : q > n => \E f \in ToSet(s) : Word(f) /\ f.seq = q

(* They make of a transcript of the first n events the whole.               *)
LEMMA PlayTells ==
  ASSUME log \in Seq(Events), NEW a, IsAnswers(a), NEW n \in 0..Len(log),
         NEW base \in Seq(Block), Said(base) = a[n],
         NEW s \in Seq(Frames), Tells(s, n)
  PROVE  Played(base, s) \in Seq(Block) /\ Said(Played(base, s)) = Answers(log)
<1>. DEFINE N == Len(s)
            L == Len(log)
<1>1. N \in Nat /\ N \in 0..N /\ 0 \in 0..N /\ L \in Nat /\ n \in 0..L /\ n \in Nat /\ L \in 0..L
  OBVIOUS
<1>2. PICK t \in [0..N -> Seq(Block)] :
        /\ t[0] = base /\ Played(base, s) = t[N]
        /\ \A k \in 1..N : t[k] = Reduce(t[k - 1], s[k])
  <2>1. PICK t : IsPlay(t, base, s)
    BY PlayableFacts, PlayedTrace
  <2>. QED  BY <2>1 DEF IsPlay
<1>. DEFINE Reaches(k, r) ==
              /\ r \in 0..L /\ n <= r /\ Said(t[k]) = a[r]
              /\ \A g \in ToSet(Prefix(s, k)) : Word(g) => g.seq <= r
              /\ \A q \in Told(log) : n < q /\ q <= r => \E g \in ToSet(Prefix(s, k)) : Word(g) /\ g.seq = q
            T == {k \in 0..N : \E r : Reaches(k, r)}
<1>3. 0 \in T
  <2>1. ToSet(Prefix(s, 0)) = {}
    BY PrefixFacts, EmptyFacts
  <2>2. \A q \in Told(log) : q \in Nat /\ ~ (n < q /\ q <= n)
    BY <1>1 DEF Told
  <2>3. Reaches(0, n)
    BY <1>1, <1>2, <2>1, <2>2
  <2>. HIDE DEF Reaches
  <2>. QED  BY <1>1, <2>3
<1>4. ASSUME NEW k \in 0..N, k \in T, k < N PROVE k + 1 \in T
  <2>. DEFINE p == ToSet(Prefix(s, k))
              f == s[k + 1]
              o == ToSet(Prefix(s, k + 1))
  <2>1. k + 1 \in 1..N /\ k + 1 \in 0..N /\ (k + 1) - 1 = k
    BY <1>1, <1>4
  <2>2. f \in Frames /\ o = p \cup {f}
    <3>1. f \in Frames /\ Prefix(s, k) \in Seq(Frames) /\ Prefix(s, k + 1) = Append(Prefix(s, k), f)
      BY <1>4, PrefixFacts
    <3>. HIDE DEF f
    <3>. QED  BY <3>1, AppendFacts
  <2>3. f.msg \in Sendable /\ t[k] \in Seq(Block) /\ t[k + 1] = Reduce(t[k], f)
    BY <1>2, <2>1, <2>2 DEF Frames
  <2>4. Said(t[k + 1]) = IF Word(f) THEN Append(Said(t[k]), f.msg) ELSE Said(t[k])
    <3>. HIDE DEF f
    <3>. QED  BY <2>3, ReduceFacts DEF Word
  <2>5. PICK r : Reaches(k, r)
    BY <1>4
  <2>6. /\ \A g \in p : g \in ToSet(s) /\ Follows(s, g, f)
        /\ \A g \in ToSet(s) : g \in p \/ g = f \/ Follows(s, f, g)
        /\ f \in ToSet(s)
    BY <1>4, PlaceFacts
  <2>7. /\ r \in 0..L /\ n <= r /\ Said(t[k]) = a[r]
        /\ \A g \in p : Word(g) => g.seq <= r
        /\ \A q \in Told(log) : n < q /\ q <= r => \E g \in p : Word(g) /\ g.seq = q
    BY <2>5
  <2>. HIDE DEF p, f, o, N, L
  <2>8. CASE ~ Word(f)
    <3>1. /\ Said(t[k + 1]) = a[r]
          /\ \A g \in o : Word(g) => g.seq <= r
          /\ \A q \in Told(log) : n < q /\ q <= r => \E g \in o : Word(g) /\ g.seq = q
      BY <2>2, <2>4, <2>7, <2>8
    <3>2. Reaches(k + 1, r)
      BY <2>7, <3>1 DEF o
    <3>. HIDE DEF Reaches
    <3>. QED  BY <2>1, <3>2
  <2>9. CASE Word(f)
    <3>. DEFINE q == f.seq
    <3>1. q \in Told(log) /\ f.msg = log[q].msg /\ q > n
      BY <2>6, <2>9 DEF Truthful, Tells
    <3>2. q \in 1..L /\ log[q].kind = "message" /\ q - 1 \in 0..L /\ r \in Nat
      <4>1. q \in 1..L /\ log[q].kind = "message"
        BY <3>1 DEF Told, L
      <4>. HIDE DEF q
      <4>. QED  BY <1>1, <2>7, <4>1
    <3>3. \A g \in p : Word(g) => g.seq < q /\ g.seq \in Nat
      BY <2>6, <2>9 DEF InOrder, Truthful, Told, Tells
    <3>. HIDE DEF q
    <3>4. r < q
      <4>1. SUFFICES ASSUME q <= r PROVE FALSE
        BY <3>2
      <4>2. PICK g \in p : Word(g) /\ g.seq = q
        BY <2>7, <3>1, <3>2, <1>1, <4>1
      <4>. QED  BY <3>2, <3>3, <4>2
    <3>5. \A w \in Told(log) : w <= r \/ w = q \/ w > q
      <4>. SUFFICES ASSUME NEW w \in Told(log), r < w PROVE ~ (w < q)
        BY <3>2 DEF Told
      <4>1. w > n /\ w \in Nat
        BY <1>1, <2>7, <3>2 DEF Told
      <4>2. PICK g \in ToSet(s) : Word(g) /\ g.seq = w
        BY <4>1 DEF Tells
      <4>3. g \notin p
        BY <2>7, <3>2, <4>1, <4>2
      <4>4. g = f \/ Follows(s, f, g)
        BY <2>6, <4>2, <4>3
      <4>5. CASE g = f
        BY <3>2, <4>2, <4>5 DEF q
      <4>6. CASE Follows(s, f, g)
        <5>1. q < w
          BY <2>6, <2>9, <4>2, <4>6 DEF InOrder, q, Tells
        <5>. QED  BY <3>2, <4>1, <5>1
      <4>. QED  BY <4>4, <4>5, <4>6
    <3>6. a[q - 1] = a[r]
      <4>1. r <= q - 1 /\ \A w \in Told(log) : ~ (r < w /\ w <= q - 1)
        BY <3>2, <3>4, <3>5 DEF Told
      <4>2. r \in 0..Len(log) /\ q - 1 \in 0..Len(log)
        BY <2>7, <3>2 DEF L
      <4>. QED  BY <4>1, <4>2, NothingTold
    <3>7. a[q] = Append(a[q - 1], log[q].msg)
      BY <3>2 DEF IsAnswers, L
    <3>8. Said(t[k + 1]) = a[q]
      BY <2>4, <2>7, <2>9, <3>1, <3>6, <3>7
    <3>9. \A g \in o : Word(g) => g.seq <= q
      BY <2>2, <2>9, <3>2, <3>3 DEF q
    <3>10. \A w \in Told(log) : n < w /\ w <= q => \E g \in o : Word(g) /\ g.seq = w
      BY <2>2, <2>7, <2>9, <3>2, <3>5 DEF q, Told
    <3>11. q \in 0..L /\ n <= q
      BY <1>1, <3>1, <3>2
    <3>12. Reaches(k + 1, q)
      BY <3>8, <3>9, <3>10, <3>11 DEF o
    <3>. HIDE DEF Reaches
    <3>. QED  BY <2>1, <3>12
  <2>. QED  BY <2>8, <2>9
<1>5. N \in T
  <2>1. \A k \in 0..N : k \in T /\ k < N => k + 1 \in T
    BY <1>4
  <2>. HIDE DEF T
  <2>2. \A k \in 0..N : k \in T
    BY <1>1, <1>3, <2>1, UpTo
  <2>. QED  BY <1>1, <2>2
<1>6. PICK r : Reaches(N, r)
  BY <1>5
<1>7. Prefix(s, N) = s
  BY PrefixFacts
<1>. HIDE DEF N, L
<1>8. \A q \in Told(log) : ~ (r < q /\ q <= L)
  <2>. SUFFICES ASSUME NEW q \in Told(log), r < q PROVE FALSE
    OBVIOUS
  <2>1. q > n
    BY <1>1, <1>6 DEF Told
  <2>2. PICK f \in ToSet(s) : Word(f) /\ f.seq = q
    BY <2>1 DEF Tells
  <2>3. q <= r
    BY <1>6, <1>7, <2>2
  <2>. QED  BY <1>1, <1>6, <2>3 DEF Told
<1>9. a[L] = a[r]
  <2>1. r \in 0..Len(log) /\ L \in 0..Len(log) /\ r <= L
    BY <1>1, <1>6 DEF L
  <2>. QED  BY <1>8, <2>1, NothingTold
<1>10. t[N] \in Seq(Block)
  BY <1>1, <1>2
<1>. QED  BY <1>2, <1>6, <1>9, <1>10 DEF IsAnswers, L

-----------------------------------------------------------------------------
(* A page but for what is pending.                                          *)
LEMMA PageWith ==
  ASSUME NEW p, PageLike(p), NEW u
  PROVE  [p EXCEPT !.pending = u]
              = [blocks |-> p.blocks, dock |-> p.dock, pending |-> u, shown |-> p.shown,
                 buffered |-> p.buffered, loading |-> p.loading, fatal |-> p.fatal]
<1>1. p = [blocks |-> p.blocks, dock |-> p.dock, pending |-> p.pending, shown |-> p.shown,
           buffered |-> p.buffered, loading |-> p.loading, fatal |-> p.fatal]
  BY DEF PageLike
<1>. QED  BY <1>1

(* The page that a load makes of p.                                         *)
Overlaid(p, b, s, w, l, f) ==
  [p EXCEPT !.blocks = b, !.shown = s, !.buffered = w, !.loading = l, !.fatal = f]

(* Its fields, where b and w are well typed.                                *)
LEMMA OverlaidFacts ==
  ASSUME NEW p, PageLike(p), NEW b \in Seq(Block), NEW s, NEW w \in Seq(Frames), NEW l, NEW f
  PROVE  LET r == Overlaid(p, b, s, w, l, f)
         IN PageLike(r) /\ r.blocks = b /\ r.buffered = w /\ r.loading = l /\ r.fatal = f
<1>. DEFINE r == Overlaid(p, b, s, w, l, f)
<1>1. p = [blocks |-> p.blocks, dock |-> p.dock, pending |-> p.pending, shown |-> p.shown,
           buffered |-> p.buffered, loading |-> p.loading, fatal |-> p.fatal]
  BY DEF PageLike
<1>2. r = [blocks |-> b, dock |-> p.dock, pending |-> p.pending, shown |-> s,
           buffered |-> w, loading |-> l, fatal |-> f]
  <2>. DEFINE q1 == [p EXCEPT !.blocks = b]
              q2 == [q1 EXCEPT !.shown = s]
              q3 == [q2 EXCEPT !.buffered = w]
              q4 == [q3 EXCEPT !.loading = l]
              q5 == [q4 EXCEPT !.fatal = f]
              e == [p EXCEPT !.blocks = b, !.shown = s, !.buffered = w, !.loading = l, !.fatal = f]
  <2>1. q1 = [blocks |-> b, dock |-> p.dock, pending |-> p.pending, shown |-> p.shown,
              buffered |-> p.buffered, loading |-> p.loading, fatal |-> p.fatal]
    BY <1>1
  <2>2. q2 = [blocks |-> b, dock |-> p.dock, pending |-> p.pending, shown |-> s,
              buffered |-> p.buffered, loading |-> p.loading, fatal |-> p.fatal]
    <3>. HIDE DEF q1
    <3>. QED  BY <2>1
  <2>3. q3 = [blocks |-> b, dock |-> p.dock, pending |-> p.pending, shown |-> s,
              buffered |-> w, loading |-> p.loading, fatal |-> p.fatal]
    <3>. HIDE DEF q2
    <3>. QED  BY <2>2
  <2>4. q4 = [blocks |-> b, dock |-> p.dock, pending |-> p.pending, shown |-> s,
              buffered |-> w, loading |-> l, fatal |-> p.fatal]
    <3>. HIDE DEF q3
    <3>. QED  BY <2>3
  <2>5. q5 = [blocks |-> b, dock |-> p.dock, pending |-> p.pending, shown |-> s,
              buffered |-> w, loading |-> l, fatal |-> f]
    <3>. HIDE DEF q4
    <3>. QED  BY <2>4
  <2>6. e = q5
    OBVIOUS
  <2>. HIDE DEF q5, e
  <2>7. e = [blocks |-> b, dock |-> p.dock, pending |-> p.pending, shown |-> s,
             buffered |-> w, loading |-> l, fatal |-> f]
    BY <2>5, <2>6
  <2>. QED  BY <2>7 DEF e, Overlaid
<1>. HIDE DEF r
<1>. QED  BY <1>2 DEF PageLike, r

(* What frames do to the dock leaves all but the dock and what is pending.  *)
LEMMA DockedKeeps ==
  ASSUME NEW p, PageLike(p), NEW s \in Seq(Frames)
  PROVE  PageLike(Docked(p, s))
<1>. DEFINE X == [blocks : {p.blocks}, dock : Seq(Sendable), pending : Seq(Sendable), shown : {p.shown},
                  buffered : {p.buffered}, loading : {p.loading}, fatal : {p.fatal}]
<1>1. p \in X
  BY DEF PageLike
<1>2. Dockable(X)
  <2>. SUFFICES ASSUME NEW q \in X, NEW m \in Sendable
                PROVE  [q EXCEPT !.dock = Append(@, m)] \in X /\ Undock(q) \in X
    BY DEF Dockable
  <2>1. q.dock \in Seq(Sendable) /\ q.pending \in Seq(Sendable)
    OBVIOUS
  <2>2. \A d \in Seq(Sendable) : [q EXCEPT !.dock = d] \in X
    OBVIOUS
  <2>3. \A d, e \in Seq(Sendable) : [q EXCEPT !.dock = d, !.pending = e] \in X
    OBVIOUS
  <2>4. Append(q.dock, m) \in Seq(Sendable)
    BY <2>1, AppendIn, ZenonT(60)
  <2>5. Undock(q) \in X
    <3>1. CASE q.dock = <<>>
      BY <3>1 DEF Undock
    <3>2. CASE q.dock # <<>>
      <4>1. Head(q.dock) \in Sendable /\ Tail(q.dock) \in Seq(Sendable)
        BY <2>1, <3>2
      <4>2. Append(q.pending, Head(q.dock)) \in Seq(Sendable)
        BY <2>1, <4>1, AppendIn, ZenonT(60)
      <4>3. Undock(q) = [q EXCEPT !.dock = Tail(q.dock), !.pending = Append(q.pending, Head(q.dock))]
        BY <3>2 DEF Undock
      <4>. HIDE DEF X
      <4>. QED  BY <2>3, <4>1, <4>2, <4>3
    <3>. QED  BY <3>1, <3>2
  <2>6. [q EXCEPT !.dock = Append(@, m)] = [q EXCEPT !.dock = Append(q.dock, m)]
    OBVIOUS
  <2>. HIDE DEF X
  <2>. QED  BY <2>2, <2>4, <2>5, <2>6
<1>3. Docked(p, s) \in X
  <2>. HIDE DEF X
  <2>1. PICK t \in [0..Len(s) -> X] : Docked(p, s) = t[Len(s)]
    BY <1>1, <1>2, DockedSteps
  <2>2. Len(s) \in 0..Len(s)
    OBVIOUS
  <2>. QED  BY <2>1, <2>2
<1>4. \A q \in X : PageLike(q)
  BY DEF PageLike
<1>. HIDE DEF X
<1>. QED  BY <1>3, <1>4

(* What a load makes of the page: the transcript of n events, and the       *)
(* frames on top that are not in there.                                     *)
Extends(r, n, frames) ==
  \E base, s :
    /\ base \in Seq(Block) /\ Said(base) = Said(Build(n)) /\ s \in Seq(Frames) /\ r.blocks = Played(base, s)
    /\ \A x : x \in ToSet(s) <=> x \in ToSet(frames) /\ ~AlreadyLoaded(x, n, base)
    /\ \A x, y : Follows(s, x, y) => Leads(frames, x, y)

(* The page that a load makes: its transcript is what the history says,     *)
(* then the frames that are new, each once and in the order they came in.   *)
LEMMA RebuiltFacts ==
  ASSUME log \in Seq(Events), PageLike(page), NEW n \in 0..Len(log), NEW given \in Seq(Frames)
  PROVE  LET r == Rebuilt(n, given)
         IN PageLike(r) /\ ~r.loading /\ r.buffered = <<>> /\ Extends(r, n, given \o page.buffered)
<1>. DEFINE u == Chosen(page.pending, Sendable \ UserTexts(Build(n)))
            base == Build(n) \o [i \in DOMAIN u |-> UserBlock(u[i])]
            all == given \o page.buffered
            new == Unique(all)
            set == {f \in ToSet(new) : ~AlreadyLoaded(f, n, base)}
            s == Chosen(new, set)
            d == Docked([page EXCEPT !.pending = u], s)
            show == FoldLeft(Track, {}, s)
            no == FALSE
            r == Overlaid(d, Played(base, s), show, <<>>, no, no)
<1>1. Rebuilt(n, given) = r
  BY DEF Rebuilt, Overlaid
<1>2. u \in Seq(Sendable)
  <2>1. page.pending \in Seq(Sendable)
    BY DEF PageLike
  <2>. QED  BY <2>1, ChosenKeeps
<1>. HIDE DEF u
<1>3. PICK a : IsAnswers(a)
  BY HasAnswers
<1>4. Build(n) \in Seq(Block)
  BY <1>3, BuildTells
<1>5. base \in Seq(Block) /\ Said(base) = Said(Build(n))
  <2>. DEFINE b == Build(n)
  <2>1. b \in Seq(Block)
    BY <1>4
  <2>. HIDE DEF b
  <2>2. LET l == b \o [i \in DOMAIN u |-> UserBlock(u[i])]
        IN l \in Seq(Block) /\ Said(l) = Said(b)
    BY <1>2, <2>1, SaidPending
  <2>. QED  BY <2>2 DEF b
<1>. HIDE DEF base
<1>6. page.buffered \in Seq(Frames)
  BY DEF PageLike
<1>7. all \in Seq(Frames)
  BY <1>6, ConcatProperties, ZenonT(60)
<1>. HIDE DEF all
<1>8. /\ new \in Seq(Frames) /\ \A x : x \in ToSet(new) <=> x \in ToSet(all)
      /\ \A x, y : Follows(new, x, y) => Leads(all, x, y)
  BY <1>7, UniqueKeeps
<1>. HIDE DEF new
<1>9. \A x : x \in set <=> x \in ToSet(new) /\ ~AlreadyLoaded(x, n, base)
  OBVIOUS
<1>. HIDE DEF set
<1>10. /\ s \in Seq(Frames) /\ \A x : x \in ToSet(s) <=> x \in ToSet(new) /\ x \in set
       /\ \A x, y : Follows(s, x, y) => Follows(new, x, y)
  BY <1>8, ChosenKeeps
<1>. HIDE DEF s
<1>11. PageLike([page EXCEPT !.pending = u])
  <2>. DEFINE q == [page EXCEPT !.pending = u]
  <2>1. q = [blocks |-> page.blocks, dock |-> page.dock, pending |-> u, shown |-> page.shown,
             buffered |-> page.buffered, loading |-> page.loading, fatal |-> page.fatal]
    BY PageWith
  <2>. HIDE DEF q
  <2>. QED  BY <1>2, <2>1 DEF PageLike, q
<1>12. PageLike(d)
  BY <1>10, <1>11, DockedKeeps
<1>. HIDE DEF d, show, no
<1>13. Played(base, s) \in Seq(Block)
  <2>1. PICK t : IsPlay(t, base, s)
    BY <1>5, <1>10, PlayableFacts, PlayedTrace
  <2>2. Len(s) \in 0..Len(s)
    BY <1>10
  <2>. QED  BY <2>1, <2>2 DEF IsPlay
<1>14. PageLike(r) /\ r.blocks = Played(base, s) /\ r.buffered = <<>> /\ r.loading = no
  <2>1. <<>> \in Seq(Frames)
    OBVIOUS
  <2>. DEFINE bl == Played(base, s)
              w == <<>>
  <2>2. bl \in Seq(Block) /\ w \in Seq(Frames) /\ r = Overlaid(d, bl, show, w, no, no)
    BY <1>13, <2>1
  <2>. HIDE DEF bl, w, r
  <2>3. PageLike(r)
    BY <1>12, <2>2, OverlaidFacts
  <2>4. r.blocks = bl /\ r.buffered = w /\ r.loading = no
    BY <1>12, <2>2, OverlaidFacts
  <2>. QED  BY <2>3, <2>4 DEF bl, w
<1>. HIDE DEF r
<1>16. Extends(r, n, all)
  BY <1>5, <1>8, <1>9, <1>10, <1>14 DEF Extends
<1>. QED  BY <1>1, <1>14, <1>16 DEF all, no

(* A load that was given all that was live when it took its snapshot, with  *)
(* what came over the stream since, makes a page that tells everything.     *)
LEMMA RebuiltTells ==
  ASSUME log \in Seq(Events), NEW n \in 0..Len(log), NEW given \in Seq(Frames), NEW b \in Seq(Frames),
         NEW r, Extends(r, n, given \o b),
         Truthful(given, log), InOrder(given), Truthful(b, log), InOrder(b),
         NEW c \in 0..Len(log), NEW m \in 0..Len(log), c <= n,
         Nums(given) = {k \in Told(log) : c < k /\ k <= m},
         \A k \in Told(log) : k > m => k \in Nums(b)
  PROVE  Said(r.blocks) = Answers(log)
<1>. DEFINE all == given \o b
<1>1. PICK base, s :
        /\ base \in Seq(Block) /\ Said(base) = Said(Build(n)) /\ s \in Seq(Frames)
        /\ r.blocks = Played(base, s)
        /\ \A x : x \in ToSet(s) <=> x \in ToSet(all) /\ ~AlreadyLoaded(x, n, base)
        /\ \A x, y : Follows(s, x, y) => Leads(all, x, y)
  BY DEF Extends
<1>2. PICK a : IsAnswers(a)
  BY HasAnswers
<1>3. Said(base) = a[n]
  BY <1>1, <1>2, BuildTells
<1>4. /\ ToSet(all) = ToSet(given) \cup ToSet(b)
      /\ \A x, y : Leads(all, x, y) => Leads(given, x, y) \/ (y \notin ToSet(given) /\ Leads(b, x, y))
                                       \/ (x \in ToSet(given) /\ y \notin ToSet(given))
  BY ConcatFacts
<1>5. Truthful(all, log)
  BY <1>4 DEF Truthful
<1>. HIDE DEF all
<1>6. \A q \in Told(log) : q \in Nat /\ q >= 1 /\ q <= Len(log)
  BY DEF Told
<1>7. n \in Nat /\ c \in Nat /\ m \in Nat
  OBVIOUS
<1>8. \A x \in ToSet(all) : Word(x) => (AlreadyLoaded(x, n, base) <=> x.seq <= n)
  <2>. SUFFICES ASSUME NEW x \in ToSet(all), Word(x) PROVE AlreadyLoaded(x, n, base) <=> x.seq <= n
    OBVIOUS
  <2>1. x.seq \in Nat /\ x.seq >= 1
    BY <1>5, <1>6 DEF Truthful
  <2>. QED  BY <1>7, <2>1 DEF AlreadyLoaded, Unnumbered
<1>9. Truthful(s, log)
  BY <1>1, <1>5 DEF Truthful
<1>10. \A f \in ToSet(s) : Word(f) => f.seq > n
  BY <1>1, <1>5, <1>6, <1>7, <1>8 DEF Truthful
<1>11. \A q \in Told(log) : q > n => \E f \in ToSet(s) : Word(f) /\ f.seq = q
  <2>. SUFFICES ASSUME NEW q \in Told(log), q > n PROVE \E f \in ToSet(s) : Word(f) /\ f.seq = q
    OBVIOUS
  <2>1. q \in Nums(given) \/ q \in Nums(b)
    BY <1>6, <1>7
  <2>2. PICK f \in ToSet(all) : Word(f) /\ f.seq = q
    BY <1>4, <2>1 DEF Nums
  <2>3. f \in ToSet(s)
    BY <1>1, <1>6, <1>7, <1>8, <2>2
  <2>. QED  BY <2>2, <2>3
<1>12. InOrder(s)
  <2>. SUFFICES ASSUME NEW x \in ToSet(s), NEW y \in ToSet(s), Word(x), Word(y), Follows(s, x, y)
                PROVE  x.seq < y.seq
    BY DEF InOrder
  <2>1. Leads(all, x, y) /\ x \in ToSet(all) /\ y \in ToSet(all)
    BY <1>1
  <2>2. /\ x.seq \in Told(log) /\ y.seq \in Told(log) /\ x.seq > n /\ y.seq > n
    BY <1>9, <1>10 DEF Truthful
  <2>3. ASSUME NEW q, q = given \/ q = b, Leads(q, x, y), y \in ToSet(q) PROVE x.seq < y.seq
    <3>1. x \in ToSet(q) /\ (Follows(q, x, y) \/ x = y)
      BY <2>3 DEF Leads, Follows, ToSet
    <3>2. ~ Leads(q, x, x)
      <4>1. q \in Seq(Frames)
        BY <2>3
      <4>. QED  BY <4>1 DEF Leads
    <3>. QED  BY <2>3, <3>1, <3>2 DEF InOrder
  <2>4. CASE Leads(given, x, y) /\ y \in ToSet(given)
    BY <2>3, <2>4
  <2>5. CASE y \notin ToSet(given) /\ Leads(b, x, y)
    BY <1>4, <2>1, <2>3, <2>5
  <2>6. CASE x \in ToSet(given) /\ y \notin ToSet(given)
    <3>1. x.seq \in Nums(given)
      BY <2>6 DEF Nums
    <3>2. x.seq <= m
      BY <3>1
    <3>3. y.seq \notin Nums(given)
      <4>. SUFFICES ASSUME NEW g \in ToSet(given), Word(g), g.seq = y.seq PROVE FALSE
        BY DEF Nums
      <4>1. g.msg = y.msg
        BY <1>5, <2>1 DEF Truthful
      <4>2. g \in Frames /\ y \in Frames
        BY <1>1 DEF ToSet
      <4>3. g = y
        BY <4>1, <4>2 DEF Frames, Word
      <4>. QED  BY <2>6, <4>3
    <3>4. y.seq > m
      BY <1>6, <1>7, <2>2, <3>3
    <3>. QED  BY <1>6, <1>7, <2>2, <3>2, <3>4
  <2>7. Leads(given, x, y) => x \in ToSet(given)
    BY DEF Leads, ToSet
  <2>. QED  BY <1>4, <2>1, <2>4, <2>5, <2>6, <2>7
<1>13. Tells(s, n)
  BY <1>9, <1>10, <1>11, <1>12 DEF Tells
<1>. QED  BY <1>1, <1>2, <1>3, <1>13, PlayTells

-----------------------------------------------------------------------------
(* No message of the agent is in the list.                                  *)
Wordless(q) == \A f \in ToSet(q) : ~Word(f)

(* Frames that tell nothing are sent behind others.                         *)
LEMMA SentBehind ==
  ASSUME NEW b \in Seq(Frames), NEW s \in Seq(Frames), NEW q \in Seq(Frames), Wordless(q)
  PROVE  /\ s \o q \in Seq(Frames) /\ SameWords(s \o q, s)
         /\ SameWords(b \o (s \o q), b \o s)
         /\ \A n : Owed(s, n) => Owed(s \o q, n)
         /\ Ends(q) => \A n : Owed(s \o q, n)
         /\ Ends(s \o q) <=> Ends(s) \/ Ends(q)
<1>. DEFINE r == s \o q
<1>1. /\ r \in Seq(Frames) /\ ToSet(r) = ToSet(s) \cup ToSet(q)
      /\ \A x, y : Follows(r, x, y)
           <=> Follows(s, x, y) \/ Follows(q, x, y) \/ (x \in ToSet(s) /\ y \in ToSet(q))
  BY ConcatFacts
<1>2. \A x, y : Follows(q, x, y) => x \in ToSet(q) /\ y \in ToSet(q)
  BY DEF Follows, ToSet
<1>. HIDE DEF r
<1>3. SameWords(r, s)
  BY <1>1, <1>2 DEF SameWords, Wordless
<1>4. /\ ToSet(b \o r) = ToSet(b) \cup ToSet(r)
      /\ \A x, y : Follows(b \o r, x, y)
           <=> Follows(b, x, y) \/ Follows(r, x, y) \/ (x \in ToSet(b) /\ y \in ToSet(r))
      /\ ToSet(b \o s) = ToSet(b) \cup ToSet(s)
      /\ \A x, y : Follows(b \o s, x, y)
           <=> Follows(b, x, y) \/ Follows(s, x, y) \/ (x \in ToSet(b) /\ y \in ToSet(s))
  BY <1>1, ConcatFacts
<1>5. SameWords(b \o r, b \o s)
  BY <1>3, <1>4 DEF SameWords
<1>6. ASSUME NEW n, Owed(s, n) PROVE Owed(r, n)
  BY <1>1, <1>6 DEF Owed, Wordless
<1>7. ASSUME NEW n, Ends(q) PROVE Owed(r, n)
  BY <1>1, <1>7 DEF Owed, Wordless, Ends
<1>8. Ends(r) <=> Ends(s) \/ Ends(q)
  BY <1>1 DEF Ends
<1>. QED  BY <1>1, <1>3, <1>5, <1>6, <1>7, <1>8 DEF r

(* A list of one frame.                                                     *)
LEMMA OneFrame ==
  ASSUME NEW f \in Frames
  PROVE  <<f>> \in Seq(Frames) /\ ToSet(<<f>>) = {f} /\ \A s : Append(s, f) = s \o <<f>> \/ s \notin Seq(Frames)
BY DEF ToSet

(* The log grows: what was true stays true.                                 *)
LEMMA LogGrows ==
  ASSUME NEW l \in Seq(Events), NEW more \in Seq(Events)
  PROVE  /\ l \o more \in Seq(Events) /\ Len(l \o more) = Len(l) + Len(more)
         /\ Told(l) = {k \in Told(l \o more) : k <= Len(l)}
         /\ \A s : Truthful(s, l) => Truthful(s, l \o more)
<1>. DEFINE m == l \o more
<1>1. /\ m \in Seq(Events) /\ Len(m) = Len(l) + Len(more) /\ Len(l) \in Nat /\ Len(more) \in Nat
      /\ \A k \in 1..Len(l) : m[k] = l[k]
  OBVIOUS
<1>. HIDE DEF m
<1>2. Told(l) = {k \in Told(m) : k <= Len(l)}
  BY <1>1 DEF Told
<1>3. ASSUME NEW s, Truthful(s, l) PROVE Truthful(s, m)
  BY <1>1, <1>2, <1>3 DEF Truthful, Told
<1>. QED  BY <1>1, <1>2, <1>3 DEF m

(* Publish puts the frames on the stream if there is one, and notes if      *)
(* there is none.                                                           *)
LEMMA WireMore ==
  ASSUME wire.frames \in Seq(Frames), wire = [up |-> wire.up, frames |-> wire.frames],
         NEW q \in Seq(Frames), Publish(q)
  PROVE  /\ wire' = [up |-> wire'.up, frames |-> wire'.frames] /\ wire'.frames \in Seq(Frames)
         /\ wire'.up <=> wire.up
         /\ wire.up => wire'.frames = wire.frames \o q
         /\ ~wire.up => wire' = wire
         /\ missed' <=> missed \/ ~wire.up
<1>1. CASE wire.up
  <2>1. wire' = [wire EXCEPT !.frames = @ \o q]
    BY <1>1 DEF Publish
  <2>2. wire' = [up |-> wire.up, frames |-> wire.frames \o q]
    BY <2>1
  <2>3. wire.frames \o q \in Seq(Frames)
    OBVIOUS
  <2>. QED  BY <1>1, <2>2, <2>3 DEF Publish
<1>2. CASE ~wire.up
  BY <1>2 DEF Publish
<1>. QED  BY <1>1, <1>2

(* What a frame without a message does, remembered and sent (with others    *)
(* like it): nothing to what is told.                                       *)
LEMMA QuietStep ==
  ASSUME PageInv, NEW f \in Frames, ~Word(f), ~Done(f), live' = Remember(live, f),
         NEW q \in Seq(Frames), Wordless(q), ~Ends(q), Publish(q),
         NEW more \in Seq(Events), log' = log \o more, Told(log') = Told(log),
         UNCHANGED <<closed, conn, get, page, outdated>>, turn' = 0 => turn = 0 /\ log' = log
  PROVE  /\ LiveInv' /\ WireInv' /\ LoadInv' /\ GetInv' /\ PageLike(page)' /\ Settled'
         /\ live' \in Seq(Frames) /\ wire'.frames \in Seq(Frames)
         /\ wire' = [up |-> wire'.up, frames |-> wire'.frames]
<1>1. /\ live \in Seq(Frames) /\ wire.frames \in Seq(Frames) /\ page.buffered \in Seq(Frames)
      /\ wire = [up |-> wire.up, frames |-> wire.frames]
  BY DEF PageInv, RelayTyped, PageLike
<1>a. /\ \A s : Truthful(s, log) => Truthful(s, log')
      /\ Len(log) \in Nat /\ Len(log') \in Nat /\ Len(log) <= Len(log')
      /\ log \in Seq(Events)
  BY LogGrows DEF PageInv, RelayTyped
<1>2. live' \in Seq(Frames) /\ SameWords(live', live)
  BY <1>1, RememberKeeps
<1>3. LiveInv'
  BY <1>2, <1>a, SameWordsKeep DEF PageInv, LiveInv
<1>4. /\ wire' = [up |-> wire'.up, frames |-> wire'.frames] /\ wire'.frames \in Seq(Frames)
      /\ wire'.up <=> wire.up
      /\ wire.up => wire'.frames = wire.frames \o q
      /\ ~wire.up => wire' = wire
      /\ missed' <=> missed \/ ~wire.up
  BY <1>1, WireMore
<1>5. /\ SameWords(wire'.frames, wire.frames) /\ SameWords(Stream', Stream)
      /\ \A n : Owed(wire.frames, n) => Owed(wire'.frames, n)
      /\ Ends(wire'.frames) <=> Ends(wire.frames)
  <2>1. CASE wire.up
    <3>. DEFINE b == page.buffered
                s == wire.frames
                r == wire'.frames
    <3>1. b \in Seq(Frames) /\ s \in Seq(Frames) /\ r = s \o q /\ Stream' = b \o r /\ Stream = b \o s
      BY <1>1, <1>4, <2>1 DEF Stream
    <3>. HIDE DEF b, s, r
    <3>2. SameWords(r, s) /\ SameWords(b \o r, b \o s)
      BY <3>1, SentBehind
    <3>3. \A n : Owed(s, n) => Owed(r, n)
      BY <3>1, SentBehind
    <3>4. Ends(r) <=> Ends(s)
      BY <3>1, SentBehind
    <3>. QED  BY <3>1, <3>2, <3>3, <3>4 DEF s, r
  <2>2. CASE ~wire.up
    BY <1>4, <2>2, SameWordsRefl DEF Stream
  <2>. QED  BY <2>1, <2>2
<1>6. WireInv'
  BY <1>4, <1>5, <1>a, SameWordsKeep DEF PageInv, WireInv
<1>7. LoadInv'
  BY <1>5, <1>a, SameWordsKeep DEF PageInv, LoadInv
<1>8. GetInv'
  <2>. SUFFICES ASSUME get.stage \in {"reading", "read"}
                PROVE  /\ get.live \in Seq(Frames) /\ Truthful(get.live, log') /\ InOrder(get.live)
                       /\ get.stage = "read" => get.n \in 0..Len(log')
                       /\ \E c, m \in 0..Len(log') : Covered(c, m)'
    BY DEF GetInv
  <2>1. PICK c \in 0..Len(log), m \in 0..Len(log) : Covered(c, m)
    BY DEF PageInv, GetInv
  <2>2. Nums(Stream') = Nums(Stream)
    BY <1>5, SameWordsKeep
  <2>3. Covered(c, m)'
    BY <1>4, <2>1, <2>2 DEF Covered
  <2>. QED  BY <1>a, <2>1, <2>3 DEF PageInv, GetInv
<1>9. Settled'
  BY <1>4, <1>5 DEF PageInv, Settled
<1>. QED  BY <1>2, <1>3, <1>4, <1>6, <1>7, <1>8, <1>9 DEF PageInv

(* A message is sent behind others that were sent before it.                *)
LEMMA WordBehind ==
  ASSUME NEW l \in Seq(Events), NEW s \in Seq(Frames), NEW f \in Frames, Word(f),
         f.seq \in Nat, f.seq > Len(l), Truthful(s, l), InOrder(s), NEW q, q = <<f>>
  PROVE  /\ s \o q \in Seq(Frames) /\ InOrder(s \o q)
         /\ Nums(s \o q) = Nums(s) \cup {f.seq}
         /\ \A n : Owed(s, n) /\ f.seq > n => Owed(s \o q, n)
         /\ \A m : Truthful(s, m) /\ f.seq \in Told(m) /\ f.msg = m[f.seq].msg => Truthful(s \o q, m)
<1>. DEFINE r == s \o q
<1>1. q \in Seq(Frames) /\ ToSet(q) = {f} /\ \A x, y : ~ Follows(q, x, y)
  BY OneFrame DEF Follows
<1>2. /\ r \in Seq(Frames) /\ ToSet(r) = ToSet(s) \cup {f}
      /\ \A x, y : Follows(r, x, y) <=> Follows(s, x, y) \/ (x \in ToSet(s) /\ y = f)
  BY <1>1, ConcatFacts
<1>. HIDE DEF r
<1>3. \A x \in ToSet(s) : Word(x) => x.seq \in Nat /\ x.seq < f.seq
  BY DEF Truthful, Told
<1>4. InOrder(r)
  <2>. SUFFICES ASSUME NEW x \in ToSet(r), NEW y \in ToSet(r), Word(x), Word(y), Follows(r, x, y)
                PROVE  x.seq < y.seq
    BY DEF InOrder
  <2>1. CASE Follows(s, x, y)
    <3>1. x \in ToSet(s) /\ y \in ToSet(s)
      BY <2>1 DEF Follows, ToSet
    <3>. QED  BY <2>1, <3>1 DEF InOrder
  <2>2. CASE x \in ToSet(s) /\ y = f
    BY <1>3, <2>2
  <2>. QED  BY <1>2, <2>1, <2>2
<1>5. Nums(r) = Nums(s) \cup {f.seq}
  BY <1>2 DEF Nums
<1>6. ASSUME NEW n, Owed(s, n), f.seq > n PROVE Owed(r, n)
  BY <1>2, <1>6 DEF Owed
<1>7. ASSUME NEW m, Truthful(s, m), f.seq \in Told(m), f.msg = m[f.seq].msg PROVE Truthful(r, m)
  BY <1>2, <1>7 DEF Truthful
<1>. QED  BY <1>2, <1>4, <1>5, <1>6, <1>7 DEF r

(* The host writes an answer, and the relay sends it.                       *)
LEMMA WordStep ==
  ASSUME PageInv, turn # 0, UNCHANGED <<turn, closed, conn, get, page, outdated>>,
         NEW e \in Events, e.kind = "message", log' = log \o <<e>>,
         live' = Remember(live, Frame("message", Len(log'), e.msg)),
         Publish(<<Frame("message", Len(log'), e.msg)>>)
  PROVE  /\ LiveInv' /\ WireInv' /\ LoadInv' /\ GetInv' /\ PageLike(page)' /\ Settled'
         /\ live' \in Seq(Frames) /\ wire'.frames \in Seq(Frames)
         /\ wire' = [up |-> wire'.up, frames |-> wire'.frames]
<1>. DEFINE f == Frame("message", Len(log'), e.msg)
            q == <<f>>
            N == Len(log)
<1>1. /\ live \in Seq(Frames) /\ wire.frames \in Seq(Frames) /\ page.buffered \in Seq(Frames)
      /\ wire = [up |-> wire.up, frames |-> wire.frames] /\ log \in Seq(Events)
  BY DEF PageInv, RelayTyped, PageLike
<1>2. /\ N \in Nat /\ Len(log') = N + 1 /\ log'[N + 1] = e /\ log' \in Seq(Events)
      /\ \A s : Truthful(s, log) => Truthful(s, log')
      /\ Told(log) = {k \in Told(log') : k <= N}
  <2>1. /\ log' \in Seq(Events) /\ Len(log') = N + Len(<<e>>)
        /\ \A s : Truthful(s, log) => Truthful(s, log')
        /\ Told(log) = {k \in Told(log') : k <= N}
    <3>1. <<e>> \in Seq(Events)
      OBVIOUS
    <3>. QED  BY <1>1, <3>1, LogGrows
  <2>2. N \in Nat /\ Len(<<e>>) = 1 /\ log'[N + 1] = e
    BY <1>1
  <2>. QED  BY <2>1, <2>2
<1>3. N + 1 \in Told(log') /\ \A k \in Told(log') : k \in Nat /\ k <= N + 1
  BY <1>2 DEF Told
<1>4. f \in Frames /\ Word(f) /\ ~Done(f) /\ f.seq = N + 1 /\ f.msg = e.msg /\ f.seq \in Nat
  BY <1>2 DEF Frame, Frames, Kinds, Word, Done, Events
<1>5. f.seq \in Told(log') /\ f.msg = log'[f.seq].msg /\ f.seq > N
  BY <1>2, <1>3, <1>4
<1>6. live' = Remember(live, f) /\ Publish(q)
  OBVIOUS
<1>. HIDE DEF f
<1>0. q = <<f>> /\ q \in Seq(Frames)
  BY <1>4, OneFrame
<1>7. live' = live \o q
  <2>1. live' = Append(live, f)
    BY <1>1, <1>4, <1>6, RememberKeeps
  <2>. QED  BY <1>1, <1>4, <2>1, OneFrame
<1>. HIDE DEF q
<1>8. closed \in Nat /\ closed <= N
  BY <1>2 DEF PageInv, RelayTyped
<1>8a. f.seq > Len(log)
  BY <1>5
<1>. HIDE DEF N
<1>9. live' \in Seq(Frames) /\ LiveInv'
  <2>1. /\ live' \in Seq(Frames) /\ InOrder(live') /\ Nums(live') = Nums(live) \cup {N + 1}
        /\ Truthful(live', log')
    <3>. DEFINE s == live
    <3>1. s \in Seq(Frames) /\ Truthful(s, log) /\ Truthful(s, log') /\ InOrder(s) /\ live' = s \o q
      BY <1>1, <1>2, <1>7 DEF PageInv, LiveInv
    <3>. HIDE DEF s
    <3>2. /\ s \o q \in Seq(Frames) /\ InOrder(s \o q) /\ Nums(s \o q) = Nums(s) \cup {f.seq}
          /\ Truthful(s \o q, log')
      BY <1>0, <1>1, <1>4, <1>5, <1>8a, <3>1, WordBehind
    <3>. QED  BY <1>4, <3>1, <3>2 DEF s
  <2>2. Nums(live') = {k \in Told(log') : k > closed}
    <3>1. Nums(live) = {k \in Told(log) : k > closed}
      BY DEF PageInv, LiveInv
    <3>2. Told(log') = Told(log) \cup {N + 1} /\ N + 1 > closed
      BY <1>2, <1>3, <1>8
    <3>. QED  BY <2>1, <3>1, <3>2
  <2>. QED  BY <2>1, <2>2 DEF LiveInv
<1>10. /\ wire' = [up |-> wire'.up, frames |-> wire'.frames] /\ wire'.frames \in Seq(Frames)
       /\ wire'.up <=> wire.up
       /\ wire.up => wire'.frames = wire.frames \o q
       /\ ~wire.up => wire' = wire
       /\ missed' <=> missed \/ ~wire.up
  BY <1>0, <1>1, <1>6, WireMore
<1>11. WireInv'
  <2>1. CASE wire.up
    <3>1. f.seq > closed
      BY <1>2, <1>4, <1>8
    <3>2. InOrder(wire'.frames) /\ Owed(wire'.frames, closed) /\ Truthful(wire'.frames, log')
      <4>. DEFINE s == wire.frames
      <4>1. /\ s \in Seq(Frames) /\ Truthful(s, log) /\ Truthful(s, log') /\ InOrder(s)
            /\ Owed(s, closed) /\ wire'.frames = s \o q
        BY <1>1, <1>2, <1>10, <2>1 DEF PageInv, WireInv
      <4>. HIDE DEF s
      <4>2. InOrder(s \o q) /\ Owed(s \o q, closed) /\ Truthful(s \o q, log')
        BY <1>0, <1>1, <1>4, <1>5, <1>8a, <3>1, <4>1, WordBehind
      <4>. QED  BY <4>1, <4>2
    <3>. QED  BY <1>10, <2>1, <3>2 DEF PageInv, WireInv
  <2>2. CASE ~wire.up
    BY <1>2, <1>10, <2>2 DEF PageInv, WireInv
  <2>. QED  BY <2>1, <2>2
<1>12. page.loading => InOrder(Stream') /\ (wire.up => Nums(Stream') = Nums(Stream) \cup {N + 1})
  <2>1. CASE ~wire.up
    BY <1>10, <2>1 DEF PageInv, LoadInv, Stream
  <2>2. CASE wire.up /\ page.loading
    <3>. DEFINE b == page.buffered
                s == wire.frames
    <3>1. /\ b \in Seq(Frames) /\ s \in Seq(Frames) /\ q \in Seq(Frames)
          /\ Stream' = b \o (s \o q) /\ Stream = b \o s
      BY <1>0, <1>1, <1>10, <2>2 DEF Stream
    <3>2. Truthful(b, log) /\ Truthful(s, log) /\ InOrder(b \o s)
      BY <2>2, <3>1 DEF PageInv, LoadInv, WireInv
    <3>. HIDE DEF b, s
    <3>3. Stream' = (b \o s) \o q /\ b \o s \in Seq(Frames)
      BY <3>1, Regrouped, ConcatFacts
    <3>4. Truthful(b \o s, log)
      BY <3>1, <3>2, ConcatFacts DEF Truthful
    <3>5. InOrder((b \o s) \o q) /\ Nums((b \o s) \o q) = Nums(b \o s) \cup {f.seq}
      BY <1>0, <1>1, <1>4, <1>8a, <3>2, <3>3, <3>4, WordBehind
    <3>. QED  BY <1>4, <3>1, <3>3, <3>5
  <2>. QED  BY <2>1, <2>2
<1>13. LoadInv'
  BY <1>2, <1>12 DEF PageInv, LoadInv
<1>14. GetInv'
  <2>. SUFFICES ASSUME get.stage \in {"reading", "read"}
                PROVE  /\ get.live \in Seq(Frames) /\ Truthful(get.live, log') /\ InOrder(get.live)
                       /\ get.stage = "read" => get.n \in 0..Len(log')
                       /\ \E c, m \in 0..Len(log') : Covered(c, m)'
    BY DEF GetInv
  <2>1. PICK c \in 0..N, m \in 0..N : Covered(c, m)
    BY DEF PageInv, GetInv, N
  <2>2. get # Idle /\ page.loading
    BY DEF PageInv, LoadInv, Idle
  <2>3. Nums(get.live) = {k \in Told(log') : c < k /\ k <= m}
    BY <1>2, <1>3, <2>1 DEF Covered
  <2>4. ~missed' => \A k \in Told(log') : k > m => k \in Nums(Stream')
    <3>. SUFFICES ASSUME ~missed', NEW k \in Told(log'), k > m PROVE k \in Nums(Stream')
      OBVIOUS
    <3>1. Nums(Stream') = Nums(Stream) \cup {N + 1}
      BY <1>10, <1>12, <2>2
    <3>2. CASE k = N + 1
      BY <3>1, <3>2
    <3>3. CASE k # N + 1
      <4>1. k \in Told(log)
        BY <1>2, <1>3, <3>3
      <4>. QED  BY <1>10, <2>1, <3>1, <4>1 DEF Covered
    <3>. QED  BY <3>2, <3>3
  <2>5. Covered(c, m)'
    BY <2>1, <2>3, <2>4 DEF Covered
  <2>6. /\ get.live \in Seq(Frames) /\ Truthful(get.live, log) /\ InOrder(get.live)
        /\ get.stage = "read" => get.n \in 0..N
    BY DEF PageInv, GetInv, N
  <2>. QED  BY <1>2, <2>1, <2>5, <2>6
<1>15. Settled'
  BY DEF Settled
<1>. QED  BY <1>9, <1>10, <1>11, <1>13, <1>14, <1>15 DEF PageInv

(* Two lists, one behind the other, are a list.                             *)
LEMMA ConcatIn ==
  ASSUME NEW S, NEW a \in Seq(S), NEW b \in Seq(S)
  PROVE  a \o b \in Seq(S) /\ Len(a \o b) \in Nat
OBVIOUS

-----------------------------------------------------------------------------
(* How far a turn has come is a number.                                     *)
LEMMA ProgressCounts ==
  ASSUME log \in Seq(Events)
  PROVE  Progress \in Nat
<1>. DEFINE T == {i \in DOMAIN log : log[i].msg = turn /\ log[i].kind # "user"}
<1>1. Len(log) \in Nat /\ DOMAIN log = 1..Len(log) /\ T \in SUBSET (1..Len(log))
  OBVIOUS
<1>. HIDE DEF T
<1>2. IsFiniteSet(1..Len(log))
  BY <1>1, FS_Interval
<1>3. IsFiniteSet(T)
  BY <1>1, <1>2, FS_Subset
<1>4. Cardinality(T) \in Nat
  BY <1>3, FS_CardinalityType
<1>. QED  BY <1>4 DEF Progress, T

(* Events that are no answers tell nothing.                                 *)
LEMMA NothingNew ==
  ASSUME NEW l \in Seq(Events), NEW more \in Seq(Events),
         \A i \in 1..Len(more) : more[i].kind # "message"
  PROVE  Told(l \o more) = Told(l)
<1>. DEFINE m == l \o more
<1>1. /\ Len(m) = Len(l) + Len(more) /\ Len(l) \in Nat /\ Len(more) \in Nat
      /\ \A k \in 1..Len(l) : m[k] = l[k]
      /\ \A k \in 1..Len(m) : k > Len(l) => m[k] = more[k - Len(l)]
  OBVIOUS
<1>. HIDE DEF m
<1>2. ASSUME NEW k \in 1..Len(m), m[k].kind = "message" PROVE k \in 1..Len(l) /\ l[k].kind = "message"
  <2>1. CASE k <= Len(l)
    BY <1>1, <1>2, <2>1
  <2>2. CASE k > Len(l)
    <3>1. k - Len(l) \in 1..Len(more)
      BY <1>1, <2>2
    <3>. QED  BY <1>1, <1>2, <2>2, <3>1
  <2>. QED  BY <1>1, <2>1, <2>2
<1>3. ASSUME NEW k \in 1..Len(l), l[k].kind = "message" PROVE k \in 1..Len(m) /\ m[k].kind = "message"
  BY <1>1, <1>3
<1>. QED  BY <1>2, <1>3 DEF Told, m

(* A step of the host's turn.                                               *)
LEMMA HostWorksKeeps ==
  ASSUME PageInv, HostWorks, UNCHANGED pageVars
  PROVE  PageInv'
<1>. DEFINE kind == Script[Progress + 1]
            e == [kind |-> kind, msg |-> turn]
            more == (IF kind = "turn_start" THEN <<[kind |-> "user", msg |-> turn]>> ELSE <<>>) \o <<e>>
            f == Frame(kind, Len(log'), turn)
            q == <<f>>
<1>1. log \in Seq(Events) /\ turn \in Sendable /\ turn # 0 /\ cache \in {Empty} \cup 0..Len(log)
  BY DEF PageInv, RelayTyped, HostWorks, Sendable
<1>2. Progress \in Nat /\ Progress < 3
  BY <1>1, ProgressCounts DEF HostWorks, Script
<1>3. kind \in {"turn_start", "message", "turn_end"} /\ Progress + 1 \in 1..3
  <2>1. Progress = 0 \/ Progress = 1 \/ Progress = 2
    BY <1>2
  <2>. QED  BY <2>1 DEF Script
<1>4. e \in Events /\ e.kind = kind /\ e.msg = turn /\ [kind |-> "user", msg |-> turn] \in Events
  BY <1>1, <1>3 DEF Events
<1>5. /\ Say(f)
      /\ UNCHANGED <<asks, asked, turn, waiting, sent, cache, closed>>
      /\ kind = "turn_start" => log' = log \o <<[kind |-> "user", msg |-> turn]>> \o <<e>>
      /\ kind # "turn_start" => log' = log \o <<>> \o <<e>>
  BY DEF HostWorks
<1>6. live' = Remember(live, f) /\ cards' = RememberCard(cards, f) /\ Publish(q)
  BY <1>5 DEF Say
<1>7. cards' = cards
  BY <1>3, <1>6 DEF RememberCard, Frame
<1>. HIDE DEF kind
<1>8. more \in Seq(Events) /\ log' = log \o more /\ Len(more) \in Nat
  <2>. DEFINE u == [kind |-> "user", msg |-> turn]
  <2>1. <<u>> \in Seq(Events) /\ <<e>> \in Seq(Events) /\ <<>> \in Seq(Events)
    BY <1>4
  <2>2. kind = "turn_start" => more = <<u>> \o <<e>> /\ log' = (log \o <<u>>) \o <<e>>
    BY <1>5
  <2>3. kind # "turn_start" => more = <<>> \o <<e>> /\ log' = (log \o <<>>) \o <<e>>
    BY <1>5
  <2>. HIDE DEF u, e, more
  <2>4. CASE kind = "turn_start"
    <3>1. (log \o <<u>>) \o <<e>> = log \o (<<u>> \o <<e>>)
      BY <1>1, <2>1, Regrouped
    <3>2. more \in Seq(Events) /\ Len(more) \in Nat
      BY <2>1, <2>2, <2>4, ConcatIn
    <3>. QED  BY <2>2, <2>4, <3>1, <3>2
  <2>5. CASE kind # "turn_start"
    <3>1. (log \o <<>>) \o <<e>> = log \o (<<>> \o <<e>>)
      BY <1>1, <2>1, Regrouped
    <3>2. more \in Seq(Events) /\ Len(more) \in Nat
      BY <2>1, <2>3, <2>5, ConcatIn
    <3>. QED  BY <2>3, <2>5, <3>1, <3>2
  <2>. QED  BY <2>4, <2>5
<1>9. /\ log' \in Seq(Events) /\ Len(log') = Len(log) + Len(more) /\ Len(log) \in Nat
      /\ Len(log') \in Nat /\ Len(log) <= Len(log')
  <2>. HIDE DEF more
  <2>1. log' \in Seq(Events) /\ Len(log') = Len(log) + Len(more)
    BY <1>1, <1>8, LogGrows
  <2>. QED  BY <1>1, <1>8, <2>1
<1>10. f \in Frames /\ f.kind = kind
  BY <1>1, <1>3, <1>9 DEF Frame, Frames, Kinds
<1>11. /\ LiveInv' /\ WireInv' /\ LoadInv' /\ GetInv' /\ PageLike(page)' /\ Settled'
       /\ live' \in Seq(Frames) /\ wire'.frames \in Seq(Frames)
       /\ wire' = [up |-> wire'.up, frames |-> wire'.frames]
  <2>1. CASE kind = "message"
    <3>1. log' = log \o <<e>>
      BY <1>1, <1>5, <2>1
    <3>2. live' = Remember(live, Frame("message", Len(log'), e.msg))
          /\ Publish(<<Frame("message", Len(log'), e.msg)>>)
      BY <1>4, <1>6, <2>1
    <3>. HIDE DEF e
    <3>. QED  BY <1>1, <1>4, <1>5, <2>1, <3>1, <3>2, WordStep DEF pageVars
  <2>2. CASE kind # "message"
    <3>1. \A i \in 1..Len(more) : more[i].kind # "message"
      BY <1>4, <2>2
    <3>. HIDE DEF more
    <3>2. Told(log') = Told(log)
      BY <1>1, <1>8, <3>1, NothingNew
    <3>3. ~Word(f) /\ ~Done(f)
      BY <1>3, <1>10, <2>2 DEF Word, Done
    <3>. HIDE DEF f
    <3>4. q \in Seq(Frames) /\ Wordless(q) /\ ~Ends(q)
      BY <1>10, <3>3, OneFrame DEF Wordless, Ends
    <3>. HIDE DEF q
    <3>. QED  BY <1>1, <1>5, <1>6, <1>8, <1>10, <3>2, <3>3, <3>4, QuietStep DEF pageVars
  <2>. QED  BY <2>1, <2>2
<1>12. RelayTyped'
  BY <1>1, <1>5, <1>7, <1>9, <1>11 DEF PageInv, RelayTyped
<1>. QED  BY <1>5, <1>11, <1>12 DEF PageInv, SendInv, pageVars

(* The same, and the host has written nothing.                              *)
LEMMA QuietStill ==
  ASSUME PageInv, NEW f \in Frames, ~Word(f), ~Done(f), live' = Remember(live, f),
         NEW q \in Seq(Frames), Wordless(q), ~Ends(q), Publish(q),
         UNCHANGED <<log, closed, conn, get, page, outdated>>, turn' = 0 => turn = 0
  PROVE  /\ LiveInv' /\ WireInv' /\ LoadInv' /\ GetInv' /\ PageLike(page)' /\ Settled'
         /\ live' \in Seq(Frames) /\ wire'.frames \in Seq(Frames)
         /\ wire' = [up |-> wire'.up, frames |-> wire'.frames]
<1>1. log \in Seq(Events)
  BY DEF PageInv, RelayTyped
<1>2. <<>> \in Seq(Events) /\ log' = log \o <<>>
  BY <1>1
<1>3. Told(log') = Told(log)
  OBVIOUS
<1>. QED  BY <1>2, <1>3, QuietStep

(* A frame of an ask, or one that closes it.                                *)
LEMMA AskStep ==
  ASSUME PageInv, NEW a \in Sendable, NEW n \in Nat \cup {Unnumbered},
         NEW k \in {"question_asked", "question_resolved"}, Say(Frame(k, n, a)),
         asks' \subseteq asks \cup {a},
         UNCHANGED <<log, turn, waiting, sent, cache, closed, pageVars>>
  PROVE  PageInv'
<1>. DEFINE f == Frame(k, n, a)
            q == <<f>>
<1>1. f \in Frames /\ f.kind = k /\ f.msg = a /\ ~Word(f) /\ ~Done(f)
  BY DEF Frame, Frames, Kinds, Word, Done
<1>2. live' = Remember(live, f) /\ cards' = RememberCard(cards, f) /\ Publish(q)
  BY DEF Say
<1>. HIDE DEF f
<1>3. q \in Seq(Frames) /\ Wordless(q) /\ ~Ends(q)
  BY <1>1, OneFrame DEF Wordless, Ends
<1>. HIDE DEF q
<1>4. /\ LiveInv' /\ WireInv' /\ LoadInv' /\ GetInv' /\ PageLike(page)' /\ Settled'
      /\ live' \in Seq(Frames) /\ wire'.frames \in Seq(Frames)
      /\ wire' = [up |-> wire'.up, frames |-> wire'.frames]
  BY <1>1, <1>2, <1>3, QuietStill DEF pageVars
<1>5. cards' \subseteq Sendable
  <2>1. cards' \subseteq cards \cup {a}
    BY <1>1, <1>2 DEF RememberCard
  <2>. QED  BY <2>1 DEF PageInv, RelayTyped
<1>6. RelayTyped'
  BY <1>4, <1>5 DEF PageInv, RelayTyped
<1>. QED  BY <1>4, <1>6 DEF PageInv, SendInv, pageVars

(* The agent asks.                                                          *)
LEMMA HostAsksKeeps ==
  ASSUME PageInv, HostAsks, UNCHANGED pageVars
  PROVE  PageInv'
<1>1. turn \in Sendable
  BY RelayAssumption DEF HostAsks, Sendable
<1>2. /\ Say(Frame("question_asked", 0, turn)) /\ asks' = asks \cup {turn}
      /\ UNCHANGED <<log, turn, waiting, sent, cache, closed>>
  BY DEF HostAsks, AskFrame
<1>. QED  BY <1>1, <1>2, AskStep

(* The host closes an ask ...                                               *)
LEMMA AskClosesKeeps ==
  ASSUME PageInv, NEW a \in Sendable, AskCloses(a), UNCHANGED pageVars
  PROVE  PageInv'
<1>1. asks' \subseteq asks \cup {a} /\ UNCHANGED <<log, turn, waiting, sent, cache, closed>>
  BY DEF AskCloses
<1>2. CASE turn # 0
  <2>1. Say(Frame("question_resolved", 0, a))
    BY <1>2 DEF AskCloses
  <2>. QED  BY <1>1, <2>1, AskStep
<1>3. CASE turn = 0
  <2>1. UNCHANGED <<live, cards, wire, missed, pageVars>> /\ asks' \subseteq asks
    BY <1>3 DEF AskCloses
  <2>2. RelayTyped'
    BY <1>1, <2>1 DEF PageInv, RelayTyped
  <2>. QED
    BY <1>1, <2>1, <2>2
    DEF PageInv, LiveInv, WireInv, LoadInv, GetInv, Settled, SendInv, Covered, Stream, pageVars
<1>. QED  BY <1>2, <1>3

(* ... or it is answered on the page.                                       *)
LEMMA AnswersKeep ==
  ASSUME PageInv, NEW a \in Sendable, AnswerHere(a)
  PROVE  PageInv'
<1>1. /\ asks' \subseteq asks \cup {a} /\ UNCHANGED <<log, turn, waiting, sent, cache, closed>>
      /\ Say(Frame("question_resolved", Unnumbered, a)) /\ UNCHANGED pageVars
  BY DEF AnswerHere, Answered
<1>. QED  BY <1>1, AskStep

(* A message is posted, from the page or elsewhere.                         *)
LEMMA PostKeeps ==
  ASSUME PageInv, PostMessage, UNCHANGED <<conn, get, page, outdated>>
  PROVE  PageInv' /\ sent' \in Sendable
<1>. DEFINE m == sent + 1
            f == Frame("user", Unnumbered, m)
            g == Frame("turn_queued", Unnumbered, m)
<1>1. /\ m \in Sendable /\ sent' = m /\ live' = Remember(live, f)
      /\ turn = 0 => turn' = m /\ Publish(<<f>>) /\ UNCHANGED waiting
      /\ turn # 0 => waiting' = Append(waiting, m) /\ Publish(<<f, g>>) /\ UNCHANGED turn
      /\ UNCHANGED <<log, asks, asked, cards, cache, closed>>
  BY DEF PostMessage
<1>2. f \in Frames /\ ~Word(f) /\ ~Done(f) /\ g \in Frames /\ ~Word(g) /\ ~Done(g)
  BY <1>1 DEF Frame, Frames, Kinds, Word, Done
<1>3. sent' \in 0..MaxMsgs /\ sent' \in Sendable /\ m # 0
  BY <1>1, RelayAssumption DEF Sendable
<1>. HIDE DEF m, f, g
<1>4. PICK q \in Seq(Frames) : Publish(q) /\ Wordless(q) /\ ~Ends(q)
  <2>1. CASE turn = 0
    <3>1. <<f>> \in Seq(Frames) /\ Wordless(<<f>>) /\ ~Ends(<<f>>)
      BY <1>2, OneFrame DEF Wordless, Ends
    <3>. QED  BY <1>1, <2>1, <3>1
  <2>2. CASE turn # 0
    <3>1. <<f, g>> \in Seq(Frames) /\ ToSet(<<f, g>>) = {f, g}
      BY <1>2 DEF ToSet
    <3>2. Wordless(<<f, g>>) /\ ~Ends(<<f, g>>)
      BY <1>2, <3>1 DEF Wordless, Ends
    <3>. QED  BY <1>1, <2>2, <3>1, <3>2
  <2>. QED  BY <2>1, <2>2
<1>5. turn' \in {0} \cup Sendable /\ waiting' \in Seq(Sendable) /\ (turn' = 0 => turn = 0)
  <2>1. CASE turn = 0
    BY <1>1, <1>3, <2>1 DEF PageInv, RelayTyped
  <2>2. CASE turn # 0
    <3>1. waiting \in Seq(Sendable) /\ turn \in {0} \cup Sendable
      BY DEF PageInv, RelayTyped
    <3>2. Append(waiting, m) \in Seq(Sendable)
      BY <1>1, <3>1, AppendIn
    <3>. QED  BY <1>1, <2>2, <3>1, <3>2
  <2>. QED  BY <2>1, <2>2
<1>6. /\ LiveInv' /\ WireInv' /\ LoadInv' /\ GetInv' /\ PageLike(page)' /\ Settled'
      /\ live' \in Seq(Frames) /\ wire'.frames \in Seq(Frames)
      /\ wire' = [up |-> wire'.up, frames |-> wire'.frames]
  BY <1>1, <1>2, <1>4, <1>5, QuietStill
<1>7. RelayTyped'
  BY <1>1, <1>3, <1>5, <1>6 DEF PageInv, RelayTyped
<1>. QED  BY <1>3, <1>6, <1>7 DEF PageInv, SendInv

(* A turn is over: what was live is not any more, and the page is told.     *)
LEMMA TurnOverKeeps ==
  ASSUME PageInv, TurnOver, UNCHANGED <<conn, get, page, outdated>>, SendInv'
  PROVE  PageInv'
<1>. DEFINE f == Frame("turn_done", Unnumbered, turn)
            q == <<f>>
<1>1. /\ live \in Seq(Frames) /\ wire.frames \in Seq(Frames) /\ page.buffered \in Seq(Frames)
      /\ wire = [up |-> wire.up, frames |-> wire.frames]
      /\ log \in Seq(Events) /\ Len(log) \in Nat /\ turn \in Sendable /\ waiting \in Seq(Sendable)
      /\ closed \in 0..Len(log) /\ cards \subseteq Sendable
  BY DEF PageInv, RelayTyped, PageLike, TurnOver
<1>2. /\ live' = Remember(live, f) /\ cards' = RememberCard(cards, f) /\ Publish(q)
      /\ cache' = Empty /\ closed' = Len(log) /\ UNCHANGED <<log, asks, asked, sent>>
      /\ turn' = IF waiting = <<>> THEN 0 ELSE Head(waiting)
      /\ waiting' = IF waiting = <<>> THEN waiting ELSE Tail(waiting)
  BY DEF TurnOver, Say
<1>3. f \in Frames /\ Done(f) /\ ~Word(f) /\ f.kind = "turn_done"
  BY <1>1 DEF Frame, Frames, Kinds, Word, Done
<1>. HIDE DEF f
<1>4. live' = <<>> /\ cards' = cards
  BY <1>1, <1>2, <1>3, RememberKeeps DEF RememberCard
<1>5. q \in Seq(Frames) /\ Wordless(q) /\ Ends(q)
  BY <1>3, OneFrame DEF Wordless, Ends
<1>. HIDE DEF q
<1>6. turn' \in {0} \cup Sendable /\ waiting' \in Seq(Sendable)
  BY <1>1, <1>2
<1>7. /\ wire' = [up |-> wire'.up, frames |-> wire'.frames] /\ wire'.frames \in Seq(Frames)
      /\ wire'.up <=> wire.up
      /\ wire.up => wire'.frames = wire.frames \o q
      /\ ~wire.up => wire' = wire
      /\ missed' <=> missed \/ ~wire.up
  BY <1>1, <1>2, <1>5, WireMore
<1>8. RelayTyped'
  BY <1>1, <1>2, <1>4, <1>6, <1>7 DEF PageInv, RelayTyped
<1>9. LiveInv'
  <2>1. ToSet(<<>>) = {}
    BY DEF ToSet
  <2>2. Truthful(live', log') /\ InOrder(live') /\ Nums(live') = {}
    BY <1>4, <2>1 DEF Truthful, InOrder, Nums
  <2>3. \A k \in Told(log) : k \in Nat /\ k <= Len(log)
    BY <1>1 DEF Told
  <2>. QED  BY <1>1, <1>2, <2>2, <2>3 DEF LiveInv
<1>10. SameWords(wire'.frames, wire.frames) /\ SameWords(Stream', Stream)
       /\ (wire.up => Ends(wire'.frames)) /\ Owed(wire'.frames, closed')
  <2>1. CASE wire.up
    <3>. DEFINE b == page.buffered
                s == wire.frames
                r == wire'.frames
                n == closed'
    <3>1. b \in Seq(Frames) /\ s \in Seq(Frames) /\ r = s \o q /\ Stream' = b \o r /\ Stream = b \o s
      BY <1>1, <1>7, <2>1 DEF Stream
    <3>. HIDE DEF b, s, r, n
    <3>2. SameWords(r, s) /\ SameWords(b \o r, b \o s)
      BY <1>5, <3>1, SentBehind
    <3>3. Owed(r, n)
      BY <1>5, <3>1, SentBehind
    <3>4. Ends(r)
      BY <1>5, <3>1, SentBehind
    <3>. QED  BY <3>1, <3>2, <3>3, <3>4 DEF s, r, n
  <2>2. CASE ~wire.up
    <3>1. wire.frames = <<>> /\ wire' = wire /\ Stream' = Stream
      BY <1>7, <2>2 DEF PageInv, WireInv, Stream
    <3>2. Owed(wire'.frames, closed')
      BY <3>1 DEF Owed, ToSet
    <3>. QED  BY <2>2, <3>1, <3>2, SameWordsRefl
  <2>. QED  BY <2>1, <2>2
<1>11. WireInv'
  BY <1>2, <1>7, <1>10, SameWordsKeep DEF PageInv, WireInv
<1>12. LoadInv'
  BY <1>2, <1>10, SameWordsKeep DEF PageInv, LoadInv
<1>13. GetInv'
  <2>. SUFFICES ASSUME get.stage \in {"reading", "read"}
                PROVE  /\ get.live \in Seq(Frames) /\ Truthful(get.live, log') /\ InOrder(get.live)
                       /\ get.stage = "read" => get.n \in 0..Len(log')
                       /\ \E c, m \in 0..Len(log') : Covered(c, m)'
    BY DEF GetInv
  <2>1. PICK c \in 0..Len(log), m \in 0..Len(log) : Covered(c, m)
    BY DEF PageInv, GetInv
  <2>2. Nums(Stream') = Nums(Stream)
    BY <1>10, SameWordsKeep
  <2>3. Covered(c, m)'
    BY <1>1, <1>2, <1>7, <2>1, <2>2 DEF Covered
  <2>. QED  BY <1>2, <2>1, <2>3 DEF PageInv, GetInv
<1>14. Settled'
  BY <1>7, <1>10 DEF Settled
<1>15. PageLike(page)'
  BY DEF PageInv
<1>. QED  BY <1>8, <1>9, <1>11, <1>12, <1>13, <1>14, <1>15 DEF PageInv

(* The cached history expires.                                              *)
LEMMA CacheExpiresKeeps ==
  ASSUME PageInv, CacheExpires, UNCHANGED pageVars
  PROVE  PageInv'
BY DEF PageInv, CacheExpires, pageVars, RelayTyped, LiveInv, WireInv, LoadInv, GetInv, Settled,
       SendInv, Covered, Stream

(* The page is what it was, and so is all the rest.                         *)
LEMMA StutterKeeps ==
  ASSUME PageInv, UNCHANGED chatPageVars
  PROVE  PageInv'
BY DEF PageInv, chatPageVars, relayVars, pageVars, RelayTyped, LiveInv, WireInv, LoadInv, GetInv,
       Settled, SendInv, Covered, Stream

-----------------------------------------------------------------------------
(* q is a page with these blocks, these frames set aside and so on.         *)
Alike(q, b, w, l, f) ==
  PageLike(q) /\ q.blocks = b /\ q.buffered = w /\ q.loading = l /\ q.fatal = f

(* A page with one field changed.                                           *)
LEMMA FieldFacts ==
  ASSUME NEW p, PageLike(p)
  PROVE  /\ \A b \in Seq(Block) : Alike([p EXCEPT !.blocks = b], b, p.buffered, p.loading, p.fatal)
         /\ \A d \in Seq(Sendable) : Alike([p EXCEPT !.dock = d], p.blocks, p.buffered, p.loading, p.fatal)
         /\ \A n \in Seq(Sendable) : Alike([p EXCEPT !.pending = n], p.blocks, p.buffered, p.loading, p.fatal)
         /\ \A s : Alike([p EXCEPT !.shown = s], p.blocks, p.buffered, p.loading, p.fatal)
         /\ \A w \in Seq(Frames) : Alike([p EXCEPT !.buffered = w], p.blocks, w, p.loading, p.fatal)
         /\ \A l : Alike([p EXCEPT !.loading = l], p.blocks, p.buffered, l, p.fatal)
         /\ \A l : Alike([p EXCEPT !.fatal = l], p.blocks, p.buffered, p.loading, l)
<1>0. p = [blocks |-> p.blocks, dock |-> p.dock, pending |-> p.pending, shown |-> p.shown,
           buffered |-> p.buffered, loading |-> p.loading, fatal |-> p.fatal]
  BY DEF PageLike
<1>8. /\ p.blocks \in Seq(Block) /\ p.dock \in Seq(Sendable) /\ p.pending \in Seq(Sendable)
     /\ p.buffered \in Seq(Frames)
  BY DEF PageLike
<1>1. ASSUME NEW b \in Seq(Block)
     PROVE  Alike([p EXCEPT !.blocks = b], b, p.buffered, p.loading, p.fatal)
  <2>. DEFINE q == [p EXCEPT !.blocks = b]
  <2>1. q = [blocks |-> b, dock |-> p.dock, pending |-> p.pending, shown |-> p.shown,
           buffered |-> p.buffered, loading |-> p.loading, fatal |-> p.fatal]
    BY <1>0
  <2>. HIDE DEF q
  <2>2. Alike(q, b, p.buffered, p.loading, p.fatal)
    BY <1>8, <2>1 DEF Alike, PageLike
  <2>. QED  BY <2>2 DEF q
<1>2. ASSUME NEW d \in Seq(Sendable)
     PROVE  Alike([p EXCEPT !.dock = d], p.blocks, p.buffered, p.loading, p.fatal)
  <2>. DEFINE q == [p EXCEPT !.dock = d]
  <2>1. q = [blocks |-> p.blocks, dock |-> d, pending |-> p.pending, shown |-> p.shown,
           buffered |-> p.buffered, loading |-> p.loading, fatal |-> p.fatal]
    BY <1>0
  <2>. HIDE DEF q
  <2>2. Alike(q, p.blocks, p.buffered, p.loading, p.fatal)
    BY <1>8, <2>1 DEF Alike, PageLike
  <2>. QED  BY <2>2 DEF q
<1>3. ASSUME NEW n \in Seq(Sendable)
     PROVE  Alike([p EXCEPT !.pending = n], p.blocks, p.buffered, p.loading, p.fatal)
  <2>. DEFINE q == [p EXCEPT !.pending = n]
  <2>1. q = [blocks |-> p.blocks, dock |-> p.dock, pending |-> n, shown |-> p.shown,
           buffered |-> p.buffered, loading |-> p.loading, fatal |-> p.fatal]
    BY <1>0
  <2>. HIDE DEF q
  <2>2. Alike(q, p.blocks, p.buffered, p.loading, p.fatal)
    BY <1>8, <2>1 DEF Alike, PageLike
  <2>. QED  BY <2>2 DEF q
<1>4. ASSUME NEW s
     PROVE  Alike([p EXCEPT !.shown = s], p.blocks, p.buffered, p.loading, p.fatal)
  <2>. DEFINE q == [p EXCEPT !.shown = s]
  <2>1. q = [blocks |-> p.blocks, dock |-> p.dock, pending |-> p.pending, shown |-> s,
           buffered |-> p.buffered, loading |-> p.loading, fatal |-> p.fatal]
    BY <1>0
  <2>. HIDE DEF q
  <2>2. Alike(q, p.blocks, p.buffered, p.loading, p.fatal)
    BY <1>8, <2>1 DEF Alike, PageLike
  <2>. QED  BY <2>2 DEF q
<1>5. ASSUME NEW w \in Seq(Frames)
     PROVE  Alike([p EXCEPT !.buffered = w], p.blocks, w, p.loading, p.fatal)
  <2>. DEFINE q == [p EXCEPT !.buffered = w]
  <2>1. q = [blocks |-> p.blocks, dock |-> p.dock, pending |-> p.pending, shown |-> p.shown,
           buffered |-> w, loading |-> p.loading, fatal |-> p.fatal]
    BY <1>0
  <2>. HIDE DEF q
  <2>2. Alike(q, p.blocks, w, p.loading, p.fatal)
    BY <1>8, <2>1 DEF Alike, PageLike
  <2>. QED  BY <2>2 DEF q
<1>6. ASSUME NEW l
     PROVE  Alike([p EXCEPT !.loading = l], p.blocks, p.buffered, l, p.fatal)
  <2>. DEFINE q == [p EXCEPT !.loading = l]
  <2>1. q = [blocks |-> p.blocks, dock |-> p.dock, pending |-> p.pending, shown |-> p.shown,
           buffered |-> p.buffered, loading |-> l, fatal |-> p.fatal]
    BY <1>0
  <2>. HIDE DEF q
  <2>2. Alike(q, p.blocks, p.buffered, l, p.fatal)
    BY <1>8, <2>1 DEF Alike, PageLike
  <2>. QED  BY <2>2 DEF q
<1>7. ASSUME NEW l
     PROVE  Alike([p EXCEPT !.fatal = l], p.blocks, p.buffered, p.loading, l)
  <2>. DEFINE q == [p EXCEPT !.fatal = l]
  <2>1. q = [blocks |-> p.blocks, dock |-> p.dock, pending |-> p.pending, shown |-> p.shown,
           buffered |-> p.buffered, loading |-> p.loading, fatal |-> l]
    BY <1>0
  <2>. HIDE DEF q
  <2>2. Alike(q, p.blocks, p.buffered, p.loading, l)
    BY <1>8, <2>1 DEF Alike, PageLike
  <2>. QED  BY <2>2 DEF q
<1>. QED  BY <1>1, <1>2, <1>3, <1>4, <1>5, <1>6, <1>7

(* A message that leaves the dock.                                          *)
LEMMA UndockKeeps ==
  ASSUME NEW p, PageLike(p)
  PROVE  Alike(Undock(p), p.blocks, p.buffered, p.loading, p.fatal)
<1>1. CASE p.dock = <<>>
  BY <1>1 DEF Undock, Alike
<1>2. CASE p.dock # <<>>
  <2>1. p.dock \in Seq(Sendable) /\ p.pending \in Seq(Sendable)
    BY DEF PageLike
  <2>. DEFINE d == Tail(p.dock)
              n == Append(p.pending, Head(p.dock))
              r == [p EXCEPT !.dock = d]
              s == [r EXCEPT !.pending = n]
  <2>2. d \in Seq(Sendable) /\ Head(p.dock) \in Sendable
    BY <1>2, <2>1
  <2>3. n \in Seq(Sendable)
    BY <2>1, <2>2, AppendIn
  <2>4. Undock(p) = s
    <3>1. Undock(p) = [p EXCEPT !.dock = Tail(@), !.pending = Append(@, Head(p.dock))]
      BY <1>2 DEF Undock
    <3>2. [p EXCEPT !.dock = Tail(@), !.pending = Append(@, Head(p.dock))] = [p EXCEPT !.dock = d, !.pending = n]
      OBVIOUS
    <3>3. [p EXCEPT !.dock = d, !.pending = n] = s
      OBVIOUS
    <3>. HIDE DEF d, n, r, s
    <3>. QED  BY <3>1, <3>2, <3>3
  <2>. HIDE DEF d, n
  <2>5. Alike(r, p.blocks, p.buffered, p.loading, p.fatal)
    BY <2>2, FieldFacts
  <2>. HIDE DEF r
  <2>6. PageLike(r)
    BY <2>5 DEF Alike
  <2>7. Alike(s, r.blocks, r.buffered, r.loading, r.fatal)
    BY <2>3, <2>6, FieldFacts
  <2>. QED  BY <2>4, <2>5, <2>7 DEF Alike
<1>. QED  BY <1>1, <1>2

(* A frame that is shown changes what the transcript says only if it is a   *)
(* message.                                                                 *)
LEMMA ShowKeeps ==
  ASSUME NEW p, PageLike(p), NEW f \in Frames
  PROVE  \E b \in Seq(Block) :
           /\ Alike(Show(p, f), b, p.buffered, p.loading, p.fatal)
           /\ ~Word(f) => Said(b) = Said(p.blocks)
<1>. DEFINE q == IF f.kind = "turn_start" THEN Undock(p) ELSE p
            b == Reduce(q.blocks, f)
            t == Track(q.shown, f)
            r == [q EXCEPT !.blocks = b]
            s == [r EXCEPT !.shown = t]
<1>1. Alike(q, p.blocks, p.buffered, p.loading, p.fatal)
  <2>1. f.kind = "turn_start" => q = Undock(p)
    OBVIOUS
  <2>2. f.kind # "turn_start" => q = p
    OBVIOUS
  <2>. HIDE DEF q
  <2>. QED  BY <2>1, <2>2, UndockKeeps DEF Alike
<1>2. Show(p, f) = s
  <2>1. Show(p, f) = [q EXCEPT !.blocks = Reduce(@, f), !.shown = Track(@, f)]
    BY DEF Show
  <2>. HIDE DEF q
  <2>2. [q EXCEPT !.blocks = Reduce(@, f), !.shown = Track(@, f)] = [q EXCEPT !.blocks = b, !.shown = t]
    OBVIOUS
  <2>3. [q EXCEPT !.blocks = b, !.shown = t] = s
    OBVIOUS
  <2>. HIDE DEF b, t, r, s
  <2>. QED  BY <2>1, <2>2, <2>3
<1>. HIDE DEF q
<1>3. PageLike(q) /\ q.blocks = p.blocks /\ q.blocks \in Seq(Block)
  BY <1>1 DEF Alike, PageLike
<1>4. f.msg \in Sendable
  BY DEF Frames
<1>5. b \in Seq(Block) /\ (~Word(f) => Said(b) = Said(p.blocks))
  BY <1>3, <1>4, ReduceFacts DEF Word
<1>. HIDE DEF b, t
<1>6. Alike(r, b, q.buffered, q.loading, q.fatal)
  BY <1>3, <1>5, FieldFacts
<1>. HIDE DEF r
<1>7. Alike(s, r.blocks, r.buffered, r.loading, r.fatal)
  <2>1. PageLike(r)
    BY <1>6 DEF Alike
  <2>. QED  BY <2>1, FieldFacts
<1>. HIDE DEF s
<1>8. Alike(s, b, p.buffered, p.loading, p.fatal)
  BY <1>1, <1>6, <1>7 DEF Alike
<1>. QED  BY <1>2, <1>5, <1>8

(* A frame that arrives while no load is under way.                         *)
LEMMA HandleKeeps ==
  ASSUME NEW p, PageLike(p), ~p.loading, NEW f \in Frames
  PROVE  \E b \in Seq(Block) :
           /\ Alike(Handle(p, f), b, p.buffered, p.loading, p.fatal)
           /\ ~Word(f) => Said(b) = Said(p.blocks)
<1>1. CASE f.kind = "turn_queued"
  <2>. DEFINE d == Append(p.dock, f.msg)
  <2>1. p.dock \in Seq(Sendable) /\ f.msg \in Sendable /\ p.blocks \in Seq(Block)
    BY DEF PageLike, Frames
  <2>2. d \in Seq(Sendable)
    BY <2>1, AppendIn
  <2>3. Handle(p, f) = [p EXCEPT !.dock = d]
    BY <1>1 DEF Handle
  <2>. HIDE DEF d
  <2>4. Alike(Handle(p, f), p.blocks, p.buffered, p.loading, p.fatal)
    BY <2>2, <2>3, FieldFacts
  <2>. QED  BY <2>1, <2>4
<1>2. CASE f.kind # "turn_queued"
  <2>1. Handle(p, f) = Show(p, f)
    BY <1>2 DEF Handle
  <2>. QED  BY <2>1, ShowKeeps
<1>. QED  BY <1>1, <1>2

(* A load begins: what follows is set aside.                                *)
LEMMA LoadStarts ==
  ASSUME NEW p, PageLike(p), LoadBegins(p),
         wire'.frames \in Seq(Frames), InOrder(wire'.frames)
  PROVE  /\ PageLike(page)' /\ LoadInv' /\ GetInv' /\ Settled'
<1>. DEFINE yes == TRUE
            none == <<>>
            q == [p EXCEPT !.loading = yes]
            r == [q EXCEPT !.buffered = none]
<1>1. get' = [stage |-> "asking"] /\ page' = [p EXCEPT !.loading = yes, !.buffered = none]
  BY DEF LoadBegins
<1>2. [p EXCEPT !.loading = yes, !.buffered = none] = r
  OBVIOUS
<1>3. none \in Seq(Frames) /\ ToSet(none) = {} /\ none \o wire'.frames = wire'.frames
  BY DEF ToSet
<1>. HIDE DEF yes, none
<1>4. Alike(q, p.blocks, p.buffered, yes, p.fatal)
  BY FieldFacts
<1>. HIDE DEF q
<1>5. Alike(r, q.blocks, none, q.loading, q.fatal)
  <2>1. PageLike(q)
    BY <1>4 DEF Alike
  <2>. QED  BY <1>3, <2>1, FieldFacts
<1>. HIDE DEF r
<1>6. page' = r
  BY <1>1, <1>2
<1>7. PageLike(page)' /\ page'.loading = yes /\ page'.buffered = none
  BY <1>4, <1>5, <1>6 DEF Alike
<1>8. page'.loading
  BY <1>7 DEF yes
<1>9. get' # Idle /\ get'.stage \notin {"reading", "read"}
  BY <1>1 DEF Idle
<1>10. LoadInv'
  <2>1. Stream' = wire'.frames
    BY <1>3, <1>7 DEF Stream
  <2>2. Truthful(page'.buffered, log')
    BY <1>3, <1>7 DEF Truthful
  <2>. QED  BY <1>8, <1>9, <2>1, <2>2 DEF LoadInv
<1>11. GetInv' /\ Settled'
  BY <1>9 DEF GetInv, Settled
<1>. QED  BY <1>7, <1>10, <1>11

(* A load is asked for, while nothing happens elsewhere.                    *)
LEMMA ReloadedKeeps ==
  ASSUME PageInv, NEW p, Alike(p, page.blocks, page.buffered, page.loading, page.fatal), Reloaded(p),
         UNCHANGED <<relayVars, outdated>>
  PROVE  RelayTyped' /\ LiveInv' /\ PageLike(page)' /\ LoadInv' /\ GetInv' /\ Settled'
<1>1. UNCHANGED <<log, asks, turn, waiting, sent, live, cards, cache, wire, closed, missed, outdated>>
  BY DEF relayVars
<1>2. RelayTyped' /\ LiveInv'
  BY <1>1 DEF PageInv, RelayTyped, LiveInv
<1>3. PageLike(p)
  BY DEF Alike
<1>4. CASE get = Idle
  <2>1. LoadBegins(p)
    BY <1>4 DEF Reloaded
  <2>2. wire'.frames \in Seq(Frames) /\ InOrder(wire'.frames)
    BY <1>1 DEF PageInv, RelayTyped, WireInv
  <2>. QED  BY <1>2, <1>3, <2>1, <2>2, LoadStarts
<1>5. CASE get # Idle
  <2>1. page' = p /\ get' = get
    BY <1>5 DEF Reloaded
  <2>2. page'.buffered = page.buffered /\ page'.loading = page.loading /\ Stream' = Stream
    BY <1>1, <2>1 DEF Alike, Stream
  <2>3. LoadInv'
    BY <1>1, <2>1, <2>2 DEF PageInv, LoadInv
  <2>4. GetInv'
    BY <1>1, <2>1, <2>2 DEF PageInv, GetInv, Covered
  <2>5. Settled'
    BY <1>5, <2>1 DEF Settled
  <2>. QED  BY <1>2, <1>3, <2>1, <2>3, <2>4, <2>5
<1>. QED  BY <1>4, <1>5

(* The reply to a message comes, and the page loads.                        *)
LEMMA PostReturnsKeeps ==
  ASSUME PageInv, PostReturns
  PROVE  PageInv'
<1>1. /\ post # "no" /\ post' = "no" /\ UNCHANGED <<relayVars, conn, outdated>>
      /\ Reloaded(IF post = "started" THEN [page EXCEPT !.pending = Append(@, sent)] ELSE page)
  BY DEF PostReturns
<1>2. PageLike(page) /\ sent \in Sendable
  BY <1>1 DEF PageInv, SendInv
<1>3. PICK p : Reloaded(p) /\ Alike(p, page.blocks, page.buffered, page.loading, page.fatal)
  <2>1. CASE post = "started"
    <3>. DEFINE n == Append(page.pending, sent)
    <3>1. page.pending \in Seq(Sendable)
      BY <1>2 DEF PageLike
    <3>2. n \in Seq(Sendable)
      BY <1>2, <3>1, AppendIn
    <3>3. Reloaded([page EXCEPT !.pending = n])
      BY <1>1, <2>1
    <3>. HIDE DEF n
    <3>4. Alike([page EXCEPT !.pending = n], page.blocks, page.buffered, page.loading, page.fatal)
      BY <1>2, <3>2, FieldFacts
    <3>. QED  BY <3>3, <3>4
  <2>2. CASE post # "started"
    BY <1>1, <1>2, <2>2 DEF Alike
  <2>. QED  BY <2>1, <2>2
<1>4. RelayTyped' /\ LiveInv' /\ PageLike(page)' /\ LoadInv' /\ GetInv' /\ Settled'
  BY <1>1, <1>3, ReloadedKeeps
<1>5. WireInv'
  BY <1>1 DEF PageInv, WireInv, relayVars
<1>. QED  BY <1>1, <1>4, <1>5 DEF PageInv, SendInv

(* The page comes back, and loads.                                          *)
LEMMA ShowsKeeps ==
  ASSUME PageInv, Shows
  PROVE  PageInv'
<1>1. /\ conn = "off" /\ conn' = "connecting" /\ Reloaded(page) /\ UNCHANGED <<relayVars, post, outdated>>
  BY DEF Shows
<1>2. Alike(page, page.blocks, page.buffered, page.loading, page.fatal)
  BY DEF PageInv, Alike
<1>3. RelayTyped' /\ LiveInv' /\ PageLike(page)' /\ LoadInv' /\ GetInv' /\ Settled'
  BY <1>1, <1>2, ReloadedKeeps
<1>4. UNCHANGED <<wire, log, closed, sent>>
  BY <1>1 DEF relayVars
<1>5. WireInv'
  BY <1>1, <1>4 DEF PageInv, WireInv
<1>6. SendInv'
  BY <1>1, <1>4 DEF PageInv, SendInv
<1>. QED  BY <1>3, <1>5, <1>6 DEF PageInv

(* A frame arrives.                                                         *)
LEMMA DeliverKeeps ==
  ASSUME PageInv, Deliver
  PROVE  PageInv'
<1>. DEFINE s == wire.frames
            f == Head(s)
            t == Tail(s)
            p == Handle(page, f)
<1>1. /\ s # <<>> /\ wire' = [wire EXCEPT !.frames = t]
      /\ Done(f) /\ ~page.loading => Reloaded(p)
      /\ ~ (Done(f) /\ ~page.loading) => page' = p /\ UNCHANGED <<get, again>>
      /\ UNCHANGED <<log, asks, asked, turn, waiting, sent, live, cards, cache, closed, missed,
                 conn, post, plan, upsets, outdated>>
  BY DEF Deliver, Done
<1>2. /\ s \in Seq(Frames) /\ wire = [up |-> wire.up, frames |-> s] /\ page.buffered \in Seq(Frames)
      /\ PageLike(page)
  BY DEF PageInv, RelayTyped, PageLike
<1>3. /\ f \in Frames /\ t \in Seq(Frames) /\ ToSet(s) = {f} \cup ToSet(t)
      /\ \A x, y : Follows(t, x, y) => Follows(s, x, y)
      /\ \A x, y : Follows(s, x, y) => Follows(t, x, y) \/ (x = f /\ y \in ToSet(t))
      /\ \A a \in Seq(Frames) : Append(a, f) \o t = a \o s
  BY <1>1, <1>2, HeadFacts
<1>4. wire' = [up |-> wire.up, frames |-> t] /\ wire'.frames = t /\ wire'.up = wire.up
  BY <1>1, <1>2
<1>5. Truthful(s, log) /\ InOrder(s) /\ Owed(s, closed)
  BY DEF PageInv, WireInv
<1>6. \A x \in ToSet(t) : Word(x) => ~ Follows(s, x, x)
  <2>1. \A k \in Told(log) : k \in Nat
    BY DEF Told
  <2>. HIDE DEF s, f, t, p
  <2>2. \A x \in ToSet(s) : Word(x) => x.seq \in Nat
    BY <1>5, <2>1 DEF Truthful
  <2>. QED  BY <1>3, <1>5, <2>2 DEF InOrder
<1>7. \A x, y : y \in ToSet(t) => Follows(s, f, y)
  <2>1. s = <<f>> \o t /\ <<f>> \in Seq(Frames) /\ ToSet(<<f>>) = {f}
    BY <1>1, <1>2, <1>3, HeadFacts, OneFrame
  <2>. DEFINE o == <<f>>
  <2>. HIDE DEF s, f, t, p, o
  <2>2. \A x, y : x \in ToSet(o) /\ y \in ToSet(t) => Follows(o \o t, x, y)
    BY <1>3, <2>1, ConcatFacts DEF o
  <2>. QED  BY <2>1, <2>2 DEF o
<1>8. Truthful(t, log) /\ InOrder(t) /\ Owed(t, closed)
  <2>. HIDE DEF s, f, t, p
  <2>1. Truthful(t, log) /\ InOrder(t)
    BY <1>3, <1>5 DEF Truthful, InOrder
  <2>2. ASSUME NEW x \in ToSet(t), Word(x), ~ (x.seq > closed)
        PROVE  \E d \in ToSet(t) : Done(d) /\ Follows(t, x, d)
    <3>1. PICK d \in ToSet(s) : Done(d) /\ Follows(s, x, d)
      BY <1>3, <1>5, <2>2 DEF Owed
    <3>2. x # f
      BY <1>6, <1>7, <2>2
    <3>3. Follows(t, x, d)
      BY <1>3, <3>1, <3>2
    <3>4. d \in ToSet(t)
      BY <3>3 DEF Follows, ToSet
    <3>. QED  BY <3>1, <3>3, <3>4
  <2>. QED  BY <2>1, <2>2 DEF Owed
<1>9. RelayTyped' /\ LiveInv' /\ SendInv'
  BY <1>1, <1>2, <1>3, <1>4 DEF PageInv, RelayTyped, LiveInv, SendInv
<1>10. WireInv'
  <2>1. wire.up
    BY <1>1 DEF PageInv, WireInv
  <2>. HIDE DEF t
  <2>. QED  BY <1>1, <1>4, <1>8, <2>1 DEF PageInv, WireInv
<1>11. CASE page.loading
  <2>. DEFINE b == page.buffered
              c == Append(b, f)
  <2>1. b \in Seq(Frames) /\ b \o s = Stream /\ Truthful(b, log) /\ InOrder(b \o s) /\ get # Idle
    BY <1>2, <1>11 DEF PageInv, LoadInv, Stream
  <2>2. c \in Seq(Frames) /\ ToSet(c) = ToSet(b) \cup {f} /\ c \o t = b \o s
    <3>. HIDE DEF s, f, t, p, b
    <3>. QED  BY <1>3, <2>1, AppendIn, AppendFacts
  <2>3. page' = [page EXCEPT !.buffered = c] /\ UNCHANGED get
    BY <1>1, <1>11 DEF Handle
  <2>. HIDE DEF c
  <2>4. Alike(page', page.blocks, c, page.loading, page.fatal)
    BY <1>2, <2>2, <2>3, FieldFacts
  <2>. HIDE DEF s, f, t, p, b
  <2>5. Stream' = Stream
    BY <1>4, <2>1, <2>2, <2>4 DEF Alike, Stream
  <2>6. Truthful(c, log)
    BY <1>3, <1>5, <2>1, <2>2 DEF Truthful
  <2>7. PageLike(page)' /\ page'.buffered = c /\ page'.loading = page.loading
    BY <2>4 DEF Alike
  <2>8. LoadInv'
    BY <1>1, <2>1, <2>3, <2>5, <2>6, <2>7 DEF PageInv, LoadInv
  <2>9. GetInv'
    BY <1>1, <2>3, <2>5 DEF PageInv, GetInv, Covered
  <2>10. Settled'
    BY <2>1, <2>3 DEF Settled
  <2>. QED  BY <1>9, <1>10, <2>7, <2>8, <2>9, <2>10 DEF PageInv
<1>12. CASE ~page.loading
  <2>1. get = Idle
    BY <1>12 DEF PageInv, LoadInv
  <2>2. PICK b \in Seq(Block) :
          /\ Alike(p, b, page.buffered, page.loading, page.fatal)
          /\ ~Word(f) => Said(b) = Said(page.blocks)
    BY <1>2, <1>3, <1>12, HandleKeeps
  <2>. HIDE DEF s, f, t, p
  <2>3. PageLike(p) /\ p.blocks = b /\ p.loading = page.loading /\ p.fatal = page.fatal
    BY <2>2 DEF Alike
  <2>4. CASE Done(f)
    <3>1. LoadBegins(p)
      BY <1>1, <1>12, <2>1, <2>4 DEF Reloaded
    <3>2. PageLike(page)' /\ LoadInv' /\ GetInv' /\ Settled'
      BY <1>3, <1>4, <1>8, <2>3, <3>1, LoadStarts
    <3>. QED  BY <1>9, <1>10, <3>2 DEF PageInv
  <2>5. CASE ~Done(f)
    <3>1. page' = p /\ get' = get
      BY <1>1, <2>5
    <3>2. LoadInv' /\ GetInv' /\ PageLike(page)'
      BY <1>12, <2>1, <2>3, <3>1 DEF LoadInv, GetInv, Idle
    <3>3. Settled'
      <4>. SUFFICES ASSUME turn = 0, ~missed, ~outdated, ~page.fatal, ~Ends(t)
                    PROVE  Said(b) = Answers(log)
        BY <1>1, <1>4, <2>3, <3>1 DEF Settled
      <4>1. ~Ends(s)
        BY <1>3, <2>5 DEF Ends
      <4>2. Said(page.blocks) = Answers(log)
        BY <2>1, <4>1 DEF PageInv, Settled, s
      <4>3. ~Word(f)
        <5>1. Word(f) => f.seq > closed
          BY <1>3, <1>5, <4>1 DEF Owed, Ends
        <5>2. closed = Len(log) /\ Len(log) \in Nat
          BY DEF PageInv, LiveInv, RelayTyped
        <5>3. Word(f) => f.seq \in Nat /\ f.seq <= Len(log)
          BY <1>3, <1>5 DEF Truthful, Told
        <5>. QED  BY <5>1, <5>2, <5>3
      <4>. QED  BY <2>2, <4>2, <4>3
    <3>. QED  BY <1>9, <1>10, <3>2, <3>3 DEF PageInv
  <2>. QED  BY <2>4, <2>5
<1>. QED  BY <1>11, <1>12

-----------------------------------------------------------------------------
(* A load has the host list its asks, and notes what is live.               *)
LEMMA BaseTakenKeeps ==
  ASSUME PageInv, BaseTaken
  PROVE  PageInv'
<1>. DEFINE A == {AskFrame(a) : a \in asks}
            given == Replay(live', cards')
<1>1. /\ get.stage = "asking" /\ live' = Recovered(live, SetToSeq(A)) /\ cards' = cards \cup asks
      /\ get' = [stage |-> "reading", live |-> given] /\ missed' = FALSE
      /\ UNCHANGED <<log, asks, asked, turn, waiting, sent, cache, wire, closed,
                 conn, again, post, page, plan, upsets, outdated>>
  BY DEF BaseTaken
<1>2. /\ live \in Seq(Frames) /\ cards \subseteq Sendable /\ asks \subseteq Sendable
      /\ log \in Seq(Events) /\ Len(log) \in Nat /\ closed \in 0..Len(log)
      /\ Truthful(live, log) /\ InOrder(live) /\ Nums(live) = {k \in Told(log) : k > closed}
  BY DEF PageInv, RelayTyped, LiveInv
<1>3. SetToSeq(A) \in Seq(Frames) /\ Asks(SetToSeq(A))
  <2>1. A \in SUBSET {AskFrame(a) : a \in Sendable}
    BY <1>2
  <2>. QED  BY <2>1, ListedAsks
<1>. HIDE DEF A
<1>4. live' \in Seq(Frames) /\ SameWords(live', live)
  BY <1>1, <1>2, <1>3, RecoveredKeeps
<1>5. given \in Seq(Frames) /\ SameWords(given, live')
  <2>1. cards' \in SUBSET Sendable
    BY <1>1, <1>2
  <2>. QED  BY <1>4, <2>1, ReplayKeeps
<1>. HIDE DEF given
<1>6. RelayTyped' /\ WireInv' /\ SendInv' /\ PageLike(page)'
  BY <1>1, <1>2, <1>4 DEF PageInv, RelayTyped, WireInv, SendInv
<1>7. Truthful(live', log) /\ InOrder(live') /\ Nums(live') = Nums(live)
  BY <1>2, <1>4, SameWordsKeep
<1>8. Truthful(given, log) /\ InOrder(given) /\ Nums(given) = Nums(live)
  BY <1>5, <1>7, SameWordsKeep
<1>9. LiveInv'
  BY <1>1, <1>7 DEF PageInv, LiveInv
<1>10. get # Idle /\ get' # Idle /\ get'.stage = "reading" /\ get'.live = given
  BY <1>1 DEF Idle
<1>11. LoadInv' /\ Settled'
  BY <1>1, <1>10 DEF PageInv, LoadInv, Settled, Stream
<1>12. GetInv'
  <2>. DEFINE c == closed
              m == Len(log)
  <2>1. \A k \in Told(log) : k \in Nat /\ k <= m
    BY <1>2 DEF Told
  <2>2. c \in 0..Len(log') /\ m \in 0..Len(log')
    BY <1>1, <1>2
  <2>3. Covered(c, m)'
    BY <1>1, <1>2, <1>8, <1>10, <2>1 DEF Covered
  <2>. HIDE DEF c, m
  <2>4. c' = c /\ m' = m
    BY <1>1 DEF c, m
  <2>5. \E x, y \in 0..Len(log') : Covered(x, y)'
    BY <2>2, <2>3, <2>4
  <2>. QED  BY <1>1, <1>5, <1>8, <1>10, <2>5 DEF GetInv
<1>. QED  BY <1>6, <1>9, <1>11, <1>12 DEF PageInv

(* ... and reads the history.                                               *)
LEMMA HistoryReadKeeps ==
  ASSUME PageInv, HistoryRead
  PROVE  PageInv'
<1>. DEFINE n == IF cache = Empty THEN Len(log) ELSE cache
<1>1. /\ get.stage = "reading" /\ get' = [stage |-> "read", live |-> get.live, n |-> n]
      /\ outdated' <=> (cache # Empty /\ cache < closed)
      /\ UNCHANGED <<log, asks, asked, turn, waiting, sent, live, cards, cache, wire, closed, missed>>
      /\ UNCHANGED <<conn, again, post, page, plan, upsets>>
  BY DEF HistoryRead, relayVars
<1>2. Len(log) \in Nat /\ closed \in 0..Len(log) /\ cache \in {Empty} \cup 0..Len(log)
  BY DEF PageInv, RelayTyped
<1>3. RelayTyped' /\ LiveInv' /\ WireInv' /\ SendInv' /\ PageLike(page)'
  BY <1>1 DEF PageInv, RelayTyped, LiveInv, WireInv, SendInv
<1>4. n \in 0..Len(log) /\ (~outdated' => closed <= n)
  BY <1>1, <1>2
<1>. HIDE DEF n
<1>5. get # Idle /\ get' # Idle /\ get'.stage = "read" /\ get'.live = get.live /\ get'.n = n
  BY <1>1 DEF Idle
<1>6. LoadInv' /\ Settled'
  BY <1>1, <1>5 DEF PageInv, LoadInv, Settled, Stream
<1>7. GetInv'
  <2>1. PICK c \in 0..Len(log), m \in 0..Len(log) : Covered(c, m)
    BY <1>1 DEF PageInv, GetInv
  <2>2. c <= closed /\ Stream' = Stream
    BY <1>1, <2>1 DEF Covered, Stream
  <2>3. ~outdated' => c <= n
    BY <1>2, <1>4, <2>2
  <2>4. Covered(c, m)'
    BY <1>1, <1>5, <2>1, <2>2, <2>3 DEF Covered
  <2>5. get.live \in Seq(Frames) /\ Truthful(get.live, log) /\ InOrder(get.live)
    BY <1>1 DEF PageInv, GetInv
  <2>. QED  BY <1>1, <1>4, <1>5, <2>1, <2>4, <2>5 DEF GetInv
<1>. QED  BY <1>3, <1>6, <1>7 DEF PageInv

(* A load is over and no other is chained behind it.                        *)
LEMMA LoadEnds ==
  ASSUME NEW p, PageLike(p), ~p.loading, get' = Idle, page' = p
  PROVE  PageLike(page)' /\ LoadInv' /\ GetInv'
BY DEF LoadInv, GetInv, Idle

(* A load is applied.  If nothing was missed, nothing is outdated and no    *)
(* turn runs, the history to n, what was live when the snapshot was taken   *)
(* and what was set aside since are together the whole log.                 *)
LEMMA LoadAppliesKeeps ==
  ASSUME PageInv, LoadApplies
  PROVE  PageInv'
<1>. DEFINE n == get.n
            given == get.live
            b == page.buffered
            s == wire.frames
            r == Rebuilt(n, given)
<1>1. /\ get.stage = "read" /\ cache' = n /\ LoadOver(r)
      /\ UNCHANGED <<log, asks, asked, turn, waiting, sent, live, cards, wire, closed, missed,
                 conn, post, plan, upsets, outdated>>
  BY DEF LoadApplies
<1>2. /\ log \in Seq(Events) /\ Len(log) \in Nat /\ s \in Seq(Frames) /\ PageLike(page) /\ b \in Seq(Frames)
      /\ n \in 0..Len(log) /\ given \in Seq(Frames) /\ Truthful(given, log) /\ InOrder(given)
      /\ get # Idle
  BY <1>1 DEF PageInv, RelayTyped, PageLike, GetInv, Idle
<1>3. PageLike(r) /\ ~r.loading /\ Extends(r, n, given \o b)
  BY <1>2, RebuiltFacts
<1>. HIDE DEF r
<1>4. RelayTyped' /\ LiveInv' /\ WireInv' /\ SendInv'
  BY <1>1, <1>2 DEF PageInv, RelayTyped, LiveInv, WireInv, SendInv
<1>5. CASE again
  <2>1. LoadBegins(r)
    BY <1>1, <1>5 DEF LoadOver
  <2>2. wire'.frames \in Seq(Frames) /\ InOrder(wire'.frames)
    BY <1>4 DEF RelayTyped, WireInv
  <2>. QED  BY <1>3, <1>4, <2>1, <2>2, LoadStarts DEF PageInv
<1>6. CASE ~again
  <2>1. get' = Idle /\ page' = r
    BY <1>1, <1>6 DEF LoadOver
  <2>2. PageLike(page)' /\ LoadInv' /\ GetInv'
    BY <1>3, <2>1, LoadEnds
  <2>3. Settled'
    <3>. SUFFICES ASSUME turn = 0, ~missed, ~outdated, ~Ends(s)
                  PROVE  Said(r.blocks) = Answers(log)
      BY <1>1, <2>1 DEF Settled
    <3>1. PICK c \in 0..Len(log), m \in 0..Len(log) : Covered(c, m)
      BY <1>1 DEF PageInv, GetInv
    <3>2. c <= n /\ Nums(given) = {k \in Told(log) : c < k /\ k <= m}
      BY <1>1, <3>1 DEF Covered
    <3>3. \A k \in Told(log) : k > m => k \in Nums(b \o s)
      BY <3>1 DEF Covered, Stream
    <3>4. Truthful(b, log) /\ InOrder(b \o s)
      BY <1>2 DEF PageInv, LoadInv, Stream
    <3>5. Truthful(s, log) /\ Owed(s, closed) /\ closed = Len(log)
      BY DEF PageInv, WireInv, LiveInv
    <3>. HIDE DEF b, s, n, given
    <3>6. /\ ToSet(b \o s) = ToSet(b) \cup ToSet(s)
          /\ \A x, y : Follows(b, x, y) => Follows(b \o s, x, y)
      BY <1>2, ConcatFacts
    <3>7. InOrder(b)
      BY <3>4, <3>6 DEF InOrder
    <3>8. \A x \in ToSet(s) : ~Word(x)
      <4>1. \A x \in ToSet(s) : Word(x) => x.seq > Len(log)
        BY <3>5 DEF Owed, Ends
      <4>2. \A x \in ToSet(s) : Word(x) => x.seq \in Nat /\ x.seq <= Len(log)
        BY <1>2, <3>5 DEF Truthful, Told
      <4>. QED  BY <1>2, <4>1, <4>2
    <3>9. Nums(b \o s) = Nums(b)
      BY <3>6, <3>8 DEF Nums
    <3>10. \A k \in Told(log) : k > m => k \in Nums(b)
      BY <3>3, <3>9
    <3>. QED  BY <1>2, <1>3, <3>1, <3>2, <3>4, <3>7, <3>10, RebuiltTells
  <2>. QED  BY <1>4, <2>2, <2>3 DEF PageInv
<1>. QED  BY <1>5, <1>6

(* A load fails, and says so.                                               *)
LEMMA LoadFailsKeeps ==
  ASSUME PageInv, LoadFails
  PROVE  PageInv'
<1>. DEFINE no == FALSE
            yes == TRUE
            q == [page EXCEPT !.loading = no]
            r == [q EXCEPT !.fatal = yes]
<1>1. /\ LoadOver([page EXCEPT !.loading = no, !.fatal = yes])
      /\ UNCHANGED <<relayVars, conn, post, plan, outdated>>
  BY DEF LoadFails
<1>2. [page EXCEPT !.loading = no, !.fatal = yes] = r
  OBVIOUS
<1>3. PageLike(page)
  BY DEF PageInv
<1>. HIDE DEF no, yes
<1>4. Alike(q, page.blocks, page.buffered, no, page.fatal)
  BY <1>3, FieldFacts
<1>. HIDE DEF q
<1>5. Alike(r, q.blocks, q.buffered, q.loading, yes)
  <2>1. PageLike(q)
    BY <1>4 DEF Alike
  <2>. QED  BY <2>1, FieldFacts
<1>. HIDE DEF r
<1>6. PageLike(r) /\ r.loading = no /\ r.fatal = yes /\ LoadOver(r)
  BY <1>1, <1>2, <1>4, <1>5 DEF Alike
<1>7. ~r.loading /\ r.fatal
  BY <1>6 DEF no, yes
<1>8. RelayTyped' /\ LiveInv' /\ WireInv' /\ SendInv'
  BY <1>1 DEF PageInv, RelayTyped, LiveInv, WireInv, SendInv, relayVars
<1>9. CASE again
  <2>1. LoadBegins(r)
    BY <1>6, <1>9 DEF LoadOver
  <2>2. wire'.frames \in Seq(Frames) /\ InOrder(wire'.frames)
    BY <1>8 DEF RelayTyped, WireInv
  <2>. QED  BY <1>6, <1>8, <2>1, <2>2, LoadStarts DEF PageInv
<1>10. CASE ~again
  <2>1. get' = Idle /\ page' = r
    BY <1>6, <1>10 DEF LoadOver
  <2>2. PageLike(page)' /\ LoadInv' /\ GetInv'
    BY <1>6, <1>7, <2>1, LoadEnds
  <2>3. Settled'
    BY <1>7, <2>1 DEF Settled
  <2>. QED  BY <1>8, <2>2, <2>3 DEF PageInv
<1>. QED  BY <1>9, <1>10

(* A message is sent, from the page or from another tab.                    *)
LEMMA SendsKeep ==
  ASSUME PageInv, Sends \/ OtherTabSends
  PROVE  PageInv'
<1>1. PostMessage /\ UNCHANGED <<conn, get, page, outdated>>
  BY DEF Sends, OtherTabSends
<1>. QED  BY <1>1, PostKeeps

(* A turn is cut short.                                                     *)
LEMMA CutShortKeeps ==
  ASSUME PageInv, CutShort
  PROVE  PageInv'
<1>1. TurnOver /\ UNCHANGED <<conn, get, post, page, outdated>> /\ sent' = sent
  BY DEF CutShort, TurnOver
<1>2. SendInv'
  BY <1>1 DEF PageInv, SendInv
<1>. QED  BY <1>1, <1>2, TurnOverKeeps

(* The stream is opened: the page is given the cards.                       *)
LEMMA StreamOpensKeeps ==
  ASSUME PageInv, StreamOpens
  PROVE  PageInv'
<1>. DEFINE A == {AskFrame(a) : a \in cards}
            q == SetToSeq(A)
            b == page.buffered
            s == wire.frames
<1>1. /\ conn = "connecting" /\ conn' = "open" /\ wire' = [up |-> TRUE, frames |-> q]
      /\ UNCHANGED <<log, asks, asked, turn, waiting, sent, live, cards, cache, closed, missed,
                 get, again, post, page, plan, upsets, outdated>>
  BY DEF StreamOpens, CardFrames
<1>2. s = <<>> /\ b \in Seq(Frames) /\ cards \subseteq Sendable /\ Stream = b \o s
  BY <1>1 DEF PageInv, WireInv, RelayTyped, PageLike, Stream
<1>3. q \in Seq(Frames) /\ Asks(q)
  <2>1. A \in SUBSET {AskFrame(a) : a \in Sendable}
    BY <1>2
  <2>. QED  BY <2>1, ListedAsks
<1>. HIDE DEF q
<1>4. wire'.up = TRUE /\ wire'.frames = q /\ wire' = [up |-> wire'.up, frames |-> wire'.frames]
  BY <1>1
<1>5. Wordless(q) /\ ~Ends(q)
  BY <1>3 DEF Asks, Wordless, Ends, Word, Done
<1>6. Truthful(q, log) /\ InOrder(q) /\ Owed(q, closed)
  BY <1>5 DEF Wordless, Truthful, InOrder, Owed
<1>7. RelayTyped' /\ LiveInv' /\ SendInv' /\ PageLike(page)'
  BY <1>1, <1>3, <1>4 DEF PageInv, RelayTyped, LiveInv, SendInv
<1>8. WireInv'
  BY <1>1, <1>4, <1>6 DEF WireInv
<1>9. SameWords(Stream', Stream)
  <2>1. <<>> \in Seq(Frames) /\ <<>> \o q = q
    BY <1>3
  <2>2. Stream' = b \o (s \o q)
    BY <1>1, <1>2, <1>4, <2>1 DEF Stream
  <2>. HIDE DEF b, s
  <2>3. SameWords(b \o (s \o q), b \o s)
    BY <1>2, <1>3, <1>5, <2>1, SentBehind
  <2>. QED  BY <1>2, <2>2, <2>3
<1>10. LoadInv'
  BY <1>1, <1>9, SameWordsKeep DEF PageInv, LoadInv
<1>11. GetInv'
  <2>1. Nums(Stream') = Nums(Stream)
    BY <1>9, SameWordsKeep
  <2>. QED  BY <1>1, <2>1 DEF PageInv, GetInv, Covered
<1>12. Settled'
  <2>1. ~Ends(s)
    BY <1>2 DEF Ends, ToSet
  <2>. QED  BY <1>1, <2>1 DEF PageInv, Settled
<1>. QED  BY <1>7, <1>8, <1>10, <1>11, <1>12 DEF PageInv

(* The stream is cut, and what was under way is lost.                       *)
LEMMA CutKeeps ==
  ASSUME PageInv, StreamBreaks \/ Hides
  PROVE  PageInv'
<1>. DEFINE b == page.buffered
            s == wire.frames
<1>1. /\ conn' # "open" /\ wire' = [up |-> FALSE, frames |-> <<>>]
      /\ missed' <=> missed \/ s # <<>>
      /\ UNCHANGED <<log, asks, asked, turn, waiting, sent, live, cards, cache, closed,
                 get, post, page, outdated>>
  BY DEF StreamBreaks, Hides, Cut
<1>2. b \in Seq(Frames) /\ s \in Seq(Frames) /\ Stream = b \o s /\ <<>> \in Seq(Frames)
  BY DEF PageInv, RelayTyped, PageLike, Stream
<1>3. ToSet(<<>>) = {}
  BY DEF ToSet
<1>4. wire'.up = FALSE /\ wire'.frames = <<>> /\ wire' = [up |-> wire'.up, frames |-> wire'.frames]
  BY <1>1
<1>5. RelayTyped' /\ LiveInv' /\ SendInv' /\ PageLike(page)'
  BY <1>1, <1>2, <1>4 DEF PageInv, RelayTyped, LiveInv, SendInv
<1>6. WireInv'
  BY <1>1, <1>3, <1>4 DEF WireInv, Truthful, InOrder, Owed
<1>7. Stream' = b
  BY <1>1, <1>2, <1>4 DEF Stream
<1>8. LoadInv'
  <2>1. InOrder(b \o s) => InOrder(b)
    <3>. HIDE DEF b, s
    <3>1. /\ ToSet(b \o s) = ToSet(b) \cup ToSet(s)
          /\ \A x, y : Follows(b, x, y) => Follows(b \o s, x, y)
      BY <1>2, ConcatFacts
    <3>. QED  BY <3>1 DEF InOrder
  <2>. QED  BY <1>1, <1>2, <1>7, <2>1 DEF PageInv, LoadInv
<1>9. ~missed' => ~missed /\ Stream' = Stream /\ s = <<>>
  <2>1. b \o <<>> = b
    BY <1>2
  <2>2. s = <<>> => Stream' = Stream
    BY <1>2, <1>7, <2>1
  <2>. QED  BY <1>1, <2>2
<1>10. GetInv'
  BY <1>1, <1>9 DEF PageInv, GetInv, Covered
<1>11. Settled'
  <2>1. s = <<>> => ~Ends(s)
    BY <1>3 DEF Ends
  <2>. QED  BY <1>1, <1>9, <2>1 DEF PageInv, Settled
<1>. QED  BY <1>5, <1>6, <1>8, <1>10, <1>11 DEF PageInv

-----------------------------------------------------------------------------
(* The invariant holds before anything has happened ...                     *)
LEMMA PageStarts == PageInit => PageInv
<1>. SUFFICES ASSUME PageInit PROVE PageInv
  OBVIOUS
<1>. /\ log = <<>> /\ asks = {} /\ turn = 0 /\ waiting = <<>> /\ sent = 0 /\ live = <<>>
     /\ cards = {} /\ cache = Empty /\ wire = [up |-> FALSE, frames |-> <<>>] /\ closed = 0
     /\ missed = TRUE /\ conn = "off" /\ get = Idle /\ post = "no" /\ page = Blank
  BY DEF PageInit, RelayInit
<1>1. ToSet(<<>>) = {} /\ Len(log) = 0
  BY DEF ToSet
<1>2. wire.up = FALSE /\ wire.frames = <<>> /\ wire = [up |-> wire.up, frames |-> wire.frames]
  OBVIOUS
<1>3. RelayTyped
  BY <1>1, <1>2, RelayAssumption DEF RelayTyped
<1>4. LiveInv
  BY <1>1 DEF LiveInv, Truthful, InOrder, Nums, Told
<1>5. WireInv
  BY <1>1, <1>2 DEF WireInv, Truthful, InOrder, Owed
<1>6. LoadInv /\ GetInv
  BY DEF LoadInv, GetInv, Blank, Idle
<1>7. PageLike(page)
  BY DEF PageLike, Blank
<1>8. Settled /\ SendInv
  BY DEF Settled, SendInv
<1>. QED  BY <1>3, <1>4, <1>5, <1>6, <1>7, <1>8 DEF PageInv

(* ... is kept by every step ...                                            *)
LEMMA PageGoesOn == PageInv /\ [PageNext]_chatPageVars => PageInv'
<1>. SUFFICES ASSUME PageInv, [PageNext]_chatPageVars PROVE PageInv'
  OBVIOUS
<1>1. CASE UNCHANGED chatPageVars
  BY <1>1, StutterKeeps
<1>2. CASE RelayNext /\ UNCHANGED pageVars
  <2>1. CASE HostWorks
    BY <1>2, <2>1, HostWorksKeeps
  <2>2. CASE HostAsks
    BY <1>2, <2>2, HostAsksKeeps
  <2>3. CASE TurnCloses
    <3>1. TurnOver /\ UNCHANGED <<conn, get, page, outdated>> /\ SendInv'
      BY <1>2, <2>3 DEF TurnCloses, TurnOver, pageVars, PageInv, SendInv
    <3>. QED  BY <3>1, TurnOverKeeps
  <2>4. CASE CacheExpires
    BY <1>2, <2>4, CacheExpiresKeeps
  <2>5. ASSUME NEW a \in Sendable, AskCloses(a) PROVE PageInv'
    BY <1>2, <2>5, AskClosesKeeps
  <2>. QED  BY <1>2, <2>1, <2>2, <2>3, <2>4, <2>5 DEF RelayNext
<1>3. CASE CutShort
  BY <1>3, CutShortKeeps
<1>4. CASE Deliver
  BY <1>4, DeliverKeeps
<1>5. CASE BaseTaken
  BY <1>5, BaseTakenKeeps
<1>6. CASE HistoryRead
  BY <1>6, HistoryReadKeeps
<1>7. CASE LoadApplies
  BY <1>7, LoadAppliesKeeps
<1>8. CASE LoadFails
  BY <1>8, LoadFailsKeeps
<1>9. CASE Sends \/ OtherTabSends
  BY <1>9, SendsKeep
<1>10. CASE PostReturns
  BY <1>10, PostReturnsKeeps
<1>11. ASSUME NEW a \in Sendable, AnswerHere(a) PROVE PageInv'
  BY <1>11, AnswersKeep
<1>12. CASE StreamOpens
  BY <1>12, StreamOpensKeeps
<1>13. CASE StreamBreaks \/ Hides
  BY <1>13, CutKeeps
<1>14. CASE Shows
  BY <1>14, ShowsKeeps
<1>. QED
  BY <1>1, <1>2, <1>3, <1>4, <1>5, <1>6, <1>7, <1>8, <1>9, <1>10, <1>11, <1>12, <1>13, <1>14
  DEF PageNext

(* ... and says of a settled page what is to be shown.                      *)
LEMMA SettledShows == PageInv => AnswersShownOnce
<1>1. wire.frames = <<>> => ~Ends(wire.frames)
  BY DEF Ends, ToSet
<1>. QED  BY <1>1 DEF PageInv, Settled, AnswersShownOnce, AtRest

(* Between two turns a settled page shows every answer once and in order.   *)
THEOREM AnswersAreShownOnce == PageSpec => []AnswersShownOnce
<1>1. PageSpec => []PageInv
  BY PageStarts, PageGoesOn, PTL DEF PageSpec
<1>. QED  BY <1>1, SettledShows, PTL
=============================================================================

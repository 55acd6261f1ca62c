------------------------------ MODULE Dispatch ------------------------------
(***************************************************************************)
(* The three decisions the manager takes about the agents of a service:    *)
(* which of them gets a new conversation (services/dispatch.ts), on which  *)
(* machines new ones are put (services/placement.ts), and what has to be   *)
(* kept, created, removed or drained to reach the number that was ordered  *)
(* (services/agents-plan.ts).  They are pure functions; a behaviour asks   *)
(* one question, and the properties compare the answer with what it is     *)
(* for.  Agents, machines and ordinals are numbers, in the order of their  *)
(* names.  Free memory and disk are counted in multiples of the threshold. *)
(***************************************************************************)
EXTENDS Integers, SequencesExt

CONSTANTS NoFact,       \* a fact a machine or an agent has not reported
          WorkerLists,  \* the agents of a service, with their facts
          MaxSeed,      \* the clock, as a rotation
          MachineFacts, \* what is known of a machine
          Machines,     \* numbers
          Existing,     \* the agents there are: ordinal to machine
          MaxCount      \* the largest number of agents ordered

\* What is known of the agents of a service.
Worker == [online : BOOLEAN, sessions : Nat, queue : Nat, latency : Nat \cup {NoFact}, ofKey : Nat]

\* What is known of a machine; the CPU that is free is a percentage.
Machine == [online : BOOLEAN, private : BOOLEAN, affinity : BOOLEAN, services : SUBSET Nat,
            agents : Nat, sessions : Nat, cpu : (0..100) \cup {NoFact},
            mem : Nat \cup {NoFact}, disk : Nat \cup {NoFact}]

ASSUME DispatchAssumption ==
    /\ NoFact \notin Nat /\ WorkerLists \subseteq Seq(Worker) /\ MaxSeed \in Nat
    /\ MachineFacts \subseteq Machine /\ Machines \subseteq Nat /\ IsFiniteSet(Machines)
    /\ \A e \in Existing : DOMAIN e \subseteq Nat /\ IsFiniteSet(DOMAIN e)
    /\ MaxCount \in Nat

VARIABLE question       \* what was asked, and of whom

NoQuestion == [of |-> "nobody"]

\* Where i stands in the order of the numbers of S, from zero.
Position(S, i) == Cardinality({j \in S : j < i})

----------------------------------------------------------------------------
(* A new conversation.                                                     *)

\* -1, 0 or 1: an agent nobody has timed yet comes last.
CompareLatency(a, b) ==
    IF a = b THEN 0
    ELSE IF a = NoFact THEN 1
    ELSE IF b = NoFact \/ a < b THEN -1
    ELSE 1

\* Mutation of DispatchCandidates: one session more than allowed.
DispatchCandidatesOver(req) ==
    {i \in DOMAIN req.workers : req.workers[i].online /\ req.workers[i].sessions <= req.max}

\* The indices of the workers that are up and have room.
DispatchCandidates(req) ==
    {i \in DOMAIN req.workers : req.workers[i].online /\ req.workers[i].sessions < req.max}

\* a comes before b: sessions, turns under way, speed, sessions of this key.
ComesBefore(a, b) ==
    \/ a.sessions < b.sessions
    \/ /\ a.sessions = b.sessions
       /\ \/ a.queue < b.queue
          \/ /\ a.queue = b.queue
             /\ \/ CompareLatency(a.latency, b.latency) < 0
                \/ /\ CompareLatency(a.latency, b.latency) = 0
                   /\ a.ofKey < b.ofKey

PickWorker(req) ==
    LET W == req.workers
        candidates == DispatchCandidates(req)
        n == Cardinality(candidates)
        Rotated(i) == (Position(candidates, i) - (req.seed % n) + n) % n
    IN IF candidates = {}
       THEN [ok |-> FALSE,
             reason |-> IF W # <<>> /\ \A i \in DOMAIN W : ~W[i].online
                        THEN "no_worker_online" ELSE "all_full"]
       ELSE [ok |-> TRUE,
             agent |-> CHOOSE i \in candidates : \A j \in candidates \ {i} :
                          \/ ComesBefore(W[i], W[j])
                          \/ ~ComesBefore(W[j], W[i]) /\ Rotated(i) < Rotated(j)]

----------------------------------------------------------------------------
(* Where to put new agents.                                                *)

MinFreeCpu == 20

MetricsKnown(m) == m.cpu # NoFact /\ m.mem # NoFact /\ m.disk # NoFact

BlockingReason(i, req, used) ==
    LET m == req.machines[i] IN
    CASE ~m.online -> "offline"
      [] m.private -> "private_agents_present"
      [] m.services \ {req.service} # {} -> "other_service_present"
      [] used >= req.perMachine -> "machine_full"
      [] req.strategy = "pin" /\ i \notin req.pins -> "not_in_pin_list"
      [] m.cpu # NoFact /\ m.cpu < MinFreeCpu -> "insufficient_cpu"
      [] m.mem # NoFact /\ m.mem < 1 -> "insufficient_memory"
      [] m.disk # NoFact /\ m.disk < 1 -> "insufficient_disk"
      [] OTHER -> "none"

ScoreMachine(m, req, used) ==
    IF ~MetricsKnown(m) THEN -1000
    ELSE m.cpu + 10 * Min({4, m.mem}) + 5 * Min({4, m.disk}) - m.sessions
         - (IF req.strategy = "pack" THEN 0
            ELSE 400 * Cardinality(m.services \cap {req.service}) + 400 * used)
         + (IF m.affinity THEN 50 ELSE 0)

\* The agents on machine i, with those that are placed; placed is the
\* sequence of the machines chosen so far.
AgentsOn(req, placed, i) ==
    req.machines[i].agents + Cardinality({k \in DOMAIN placed : placed[k] = i})

\* The machines that may have one more.
FitFor(req, placed) ==
    {i \in DOMAIN req.machines : BlockingReason(i, req, AgentsOn(req, placed, i)) = "none"}

\* The best of them; of two alike the first.
BestOf(req, placed) ==
    LET Score(i) == ScoreMachine(req.machines[i], req, AgentsOn(req, placed, i)) IN
    CHOOSE i \in FitFor(req, placed) : \A j \in FitFor(req, placed) \ {i} :
        Score(i) > Score(j) \/ (Score(i) = Score(j) /\ i < j)

PlaceOne(req, placed) ==
    IF FitFor(req, placed) = {} THEN placed ELSE Append(placed, BestOf(req, placed))

\* One agent after the other, each on the best machine left.
PlanPlacement(req, count) ==
    LET after[k \in 0..count] == IF k = 0 THEN <<>> ELSE PlaceOne(req, after[k-1])
    IN [placements |-> after[count],
        shortfall |-> count - Len(after[count]),
        rejections |-> IF count = 0 THEN {} ELSE DOMAIN req.machines \ FitFor(req, <<>>)]

----------------------------------------------------------------------------
(* What to do to reach the ordered number.  req.existing maps ordinals to  *)
(* machines, req.sessions the ordinals to the conversations they hold.     *)

\* Mutation of PlanAgents: the agents with the highest ordinals are kept.
PlanAgentsHighest(req) ==
    LET existing == DOMAIN req.existing
        keep == {o \in existing : Cardinality({p \in existing : p > o}) < req.count}
        slots == req.count - Cardinality(keep)
        plan == PlanPlacement(req, slots)
    IN [keep |-> keep,
        create |-> [k \in DOMAIN plan.placements |->
                        [ordinal |-> k, machine |-> plan.placements[k]]],
        remove |-> {o \in existing \ keep : req.sessions[o] = 0},
        draining |-> {o \in existing \ keep : req.sessions[o] > 0},
        shortfall |-> plan.shortfall, stranded |-> {}]

\* The lowest ordinals are kept, new agents get the lowest that are free.
PlanAgents(req) ==
    LET existing == DOMAIN req.existing
        keep == {o \in existing : Position(existing, o) < req.count}
        free == (1..req.count) \ keep
        Free(k) == CHOOSE o \in free : Position(free, o) = k - 1
        slots == Min({req.count - Cardinality(keep), Cardinality(free)})
        plan == PlanPlacement(req, slots)
        At(o) == req.machines[req.existing[o]]
    IN [keep |-> keep,
        create |-> [k \in DOMAIN plan.placements |->
                        [ordinal |-> Free(k), machine |-> plan.placements[k]]],
        remove |-> {o \in existing \ keep : req.sessions[o] = 0},
        draining |-> {o \in existing \ keep : req.sessions[o] > 0},
        shortfall |-> plan.shortfall,
        stranded |-> {o \in keep :
            IF req.existing[o] \notin DOMAIN req.machines THEN TRUE
            ELSE \/ ~At(o).online \/ At(o).private
                 \/ At(o).services \ {req.service} # {}
                 \/ req.strategy = "pin" /\ req.existing[o] \notin req.pins}]

----------------------------------------------------------------------------

DispatchInit == question = NoQuestion

AskPick == /\ question = NoQuestion
           /\ \E workers \in WorkerLists, seed \in 0..MaxSeed :
                question' = [of |-> "pickWorker",
                             req |-> [workers |-> workers, seed |-> seed, max |-> 1]]

AskPlan == /\ question = NoQuestion
           /\ \E count \in 0..MaxCount, strategy \in {"spread", "pack", "pin"},
                 machines \in [Machines -> MachineFacts], existing \in Existing :
              \E sessions \in [DOMAIN existing -> 0..1] :
                question' = [of |-> "planAgents",
                             req |-> [service |-> 1, count |-> count, strategy |-> strategy,
                                      pins |-> {1}, perMachine |-> 2, machines |-> machines,
                                      existing |-> existing, sessions |-> sessions]]

DispatchNext == AskPick \/ AskPlan

DispatchSpec == DispatchInit /\ [][DispatchNext]_question

----------------------------------------------------------------------------

\* pickWorker: a conversation goes to an agent that is up and has room, to
\* one with the fewest conversations and, among those, the fewest turns under
\* way; agents that are alike take turns with the clock; it is refused only
\* when there is none, and "no agent online" is said only when none is.
PickIsRight ==
    question.of = "pickWorker" =>
        LET req == question.req
            W == req.workers
            room == {i \in DOMAIN W : W[i].online /\ W[i].sessions < req.max}
            answer == PickWorker(req)
            alike == \A i, j \in room : [W[i] EXCEPT !.online = TRUE] = [W[j] EXCEPT !.online = TRUE]
        IN /\ answer.ok <=> room # {}
           /\ answer.ok => /\ answer.agent \in room
                           /\ \A i \in room :
                                \/ W[answer.agent].sessions < W[i].sessions
                                \/ /\ W[answer.agent].sessions = W[i].sessions
                                   /\ W[answer.agent].queue <= W[i].queue
           /\ ~answer.ok => ((answer.reason = "no_worker_online")
                                <=> (W # <<>> /\ \A i \in DOMAIN W : ~W[i].online))
           /\ alike /\ room # {} =>
                {PickWorker([req EXCEPT !.seed = s]).agent : s \in 0..(Cardinality(room) - 1)} = room

\* A conversation weighs little against an agent; so many of them keep an agent
\* away from a machine.
Crowd == 225

\* planAgents: the order is met or the shortfall told, nothing that exists is
\* forgotten, an agent that holds conversations is never removed, a new one is
\* never put under a name in use or on a machine that may not have it, and,
\* unless the plan packs, no machine gets one while another that may have it,
\* and whose load is known as well, is left with two fewer, unless
\* that one has a crowd of conversations more.
PlanIsRight ==
    question.of = "planAgents" =>
        LET req == question.req
            plan == PlanAgents(req)
            existing == DOMAIN req.existing
            M == req.machines
            New(i) == Cardinality({k \in DOMAIN plan.create : plan.create[k].machine = i})
            Full(i) == BlockingReason(i, req, M[i].agents + New(i)) # "none"
            Load(i) == M[i].agents + New(i) + Cardinality(M[i].services \cap {req.service})
        IN /\ plan.keep \cup plan.remove \cup plan.draining = existing
           /\ Cardinality(plan.keep) + Len(plan.create) + plan.shortfall = req.count
           /\ \A o \in plan.remove : req.sessions[o] = 0
           /\ \A o \in plan.keep, p \in existing \ plan.keep : o < p
           /\ \A k \in DOMAIN plan.create :
                 /\ plan.create[k].ordinal \notin existing
                 /\ \A l \in DOMAIN plan.create \ {k} : plan.create[l].ordinal # plan.create[k].ordinal
           /\ \A i \in DOMAIN M :
                 /\ New(i) > 0 => /\ M[i].online /\ ~M[i].private
                                  /\ M[i].services \subseteq {req.service}
                                  /\ M[i].agents + New(i) <= req.perMachine
                                  /\ req.strategy = "pin" => i \in req.pins
                 /\ plan.shortfall > 0 => Full(i)
           /\ req.strategy # "pack" =>
                 \A i, j \in {m \in DOMAIN M : MetricsKnown(M[m])} :
                    New(i) > 0 /\ ~Full(j) /\ M[j].sessions < M[i].sessions + Crowd =>
                        Load(i) <= Load(j) + 1

\* What dispatch.ts and agents-plan.ts choose is what their rules ask for.
ChoicesAreRight == PickIsRight /\ PlanIsRight
=============================================================================

---------------------------- MODULE Delegations ----------------------------
(***************************************************************************)
(* What the brain does through the manager: it goes on with a conversation *)
(* and hands tasks to other agents (routes/internal.ts), within a budget   *)
(* of the day; and the approvals of turns nobody watches, kept as rows and *)
(* decided by a person or the brain (approval.ts, runner.ts).  A person    *)
(* may talk in the same conversation; that turn goes through the registry  *)
(* of chat/turn-runner.ts, which knows nothing of the brain's.             *)
(***************************************************************************)
EXTENDS Integers, FiniteSets, Sequences

CONSTANTS Calls,       \* the requests of the brain
          Asks,        \* the approvals an agent asks for
          Deciders,    \* who decides approvals
          Cap,         \* brainDailyBudgetMicroUsd
          Cost,        \* what a turn costs
          NoSession, NoCall

VARIABLES session,    \* the conversation's session, as its row has it
          person,     \* the turn of a person in it: "none", "started", "bound"
          brain,      \* the calls of the brain, with the session they read
          spent,      \* the cost of the brain's turns today
          bell,       \* whether the used-up budget was told
          host,       \* the approvals at the host: "none", "open" or how they ended
          approvals,  \* the rows of approval_queue
          calls,      \* the decisions under way
          frames      \* the frames of the host that are still to be handled

ASSUME BudgetAssumption == IsFiniteSet(Calls) /\ Cap \in Nat \ {0} /\ Cost \in Nat

delegationVars == <<session, person, brain, spent, bell, host, approvals, calls, frames>>
chatVars == <<session, person, brain, spent, bell>>
askVars == <<host, approvals, calls, frames>>

DelegationInit ==
    /\ session = NoSession
    /\ person = "none"
    /\ brain = [c \in Calls |-> NoCall]
    /\ spent = 0
    /\ bell = FALSE
    /\ host = [a \in Asks |-> "none"]
    /\ approvals = [a \in Asks |-> "none"]
    /\ calls = [d \in Deciders |-> NoCall]
    /\ frames = {}

----------------------------------------------------------------------------
(* The brain.                                                              *)

InChat == {c \in Calls : brain[c] # NoCall /\ brain[c].chat}

\* The run rows of the conversation that are not final.
LiveRuns == Cardinality(InChat) + IF person = "none" THEN 0 ELSE 1

BudgetUsedUp == spent >= Cap

TellBudget == bell' = TRUE /\ UNCHANGED <<session, person, brain, spent>>

\* Mutation of Prompt: only a person's turn makes the conversation busy.
PromptBesidePrompts(c) ==
    /\ brain[c] = NoCall /\ ~BudgetUsedUp
    /\ person = "none"
    /\ brain' = [brain EXCEPT ![c] = [chat |-> TRUE, read |-> session, own |-> session]]
    /\ UNCHANGED <<session, person, spent, bell, askVars>>

\* The row of the turn is there before the first await.
Prompt(c) ==
    /\ brain[c] = NoCall /\ ~BudgetUsedUp
    /\ LiveRuns = 0
    /\ brain' = [brain EXCEPT ![c] = [chat |-> TRUE, read |-> session, own |-> session]]
    /\ UNCHANGED <<session, person, spent, bell, askVars>>

Refused(c) ==
    /\ brain[c] = NoCall /\ BudgetUsedUp
    /\ TellBudget
    /\ UNCHANGED askVars

\* A task in a session of its own.
DispatchTask(c) ==
    /\ brain[c] = NoCall /\ ~BudgetUsedUp
    /\ brain' = [brain EXCEPT ![c] = [chat |-> FALSE, read |-> NoSession, own |-> NoSession]]
    /\ UNCHANGED <<session, person, spent, bell, askVars>>

\* onSession: the turn made a session; the row takes it if it has none.
BrainSession(c) ==
    /\ brain[c] # NoCall /\ brain[c].own = NoSession
    /\ brain' = [brain EXCEPT ![c].own = c]
    /\ session' = IF brain[c].chat /\ session = NoSession THEN c ELSE session
    /\ UNCHANGED <<person, spent, bell, askVars>>

\* After the turn the row takes the session if it had none when the call began.
BrainEnds(c) ==
    /\ brain[c] # NoCall
    /\ session' = IF brain[c].chat /\ brain[c].own # NoSession /\ brain[c].read = NoSession
                  THEN brain[c].own ELSE session
    /\ \E cost \in {0, Cost} : spent' = spent + cost
    /\ brain' = [brain EXCEPT ![c] = NoCall]
    /\ UNCHANGED <<person, bell, askVars>>

PersonSends ==
    /\ person = "none"
    /\ person' = "started"
    /\ UNCHANGED <<session, brain, spent, bell, askVars>>

PersonSession ==
    /\ person = "started"
    /\ person' = "bound"
    /\ session' = IF session = NoSession THEN "of a person" ELSE session
    /\ UNCHANGED <<brain, spent, bell, askVars>>

PersonEnds ==
    /\ person # "none"
    /\ person' = "none"
    /\ UNCHANGED <<session, brain, spent, bell, askVars>>

NewDay ==
    /\ spent' = 0
    /\ bell' = FALSE
    /\ UNCHANGED <<session, person, brain, askVars>>

----------------------------------------------------------------------------
(* Approvals.                                                              *)

HostAsksApproval(a) ==
    /\ host[a] = "none"
    /\ host' = [host EXCEPT ![a] = "open"]
    /\ frames' = frames \cup {<<"approval_pending", a>>}
    /\ UNCHANGED <<approvals, calls, chatVars>>

RecordPendingApproval(a) ==
    /\ <<"approval_pending", a>> \in frames
    /\ approvals' = [approvals EXCEPT ![a] = IF @ = "none" THEN "pending" ELSE @]
    /\ frames' = frames \ {<<"approval_pending", a>>}
    /\ UNCHANGED <<host, calls, chatVars>>

\* After a break of the stream the turn asks for what is open (pendingAsks).
AsksAgain(a) ==
    /\ host[a] = "open"
    /\ frames' = frames \cup {<<"approval_pending", a>>}
    /\ UNCHANGED <<host, approvals, calls, chatVars>>

\* Only a row is resolved: one that was never recorded stays unknown.
ResolveApproval(a) ==
    /\ <<"approval_resolved", a>> \in frames
    /\ approvals' = [approvals EXCEPT ![a] = IF @ = "none" THEN @ ELSE host[a]]
    /\ frames' = frames \ {<<"approval_resolved", a>>}
    /\ UNCHANGED <<host, calls, chatVars>>

\* The state of the row is read before the host is asked.
Decide(d, a) ==
    /\ calls[d] = NoCall
    /\ approvals[a] = "pending"
    /\ \E outcome \in {"allowed-once", "rejected"} :
         calls' = [calls EXCEPT ![d] = [ask |-> a, outcome |-> outcome, sent |-> FALSE]]
    /\ UNCHANGED <<host, approvals, frames, chatVars>>

\* The host takes the first answer, and tells the others that nothing is open.
HostDecides(d) ==
    /\ calls[d] # NoCall /\ ~calls[d].sent
    /\ calls' = [calls EXCEPT ![d].sent = TRUE]
    /\ IF host[calls[d].ask] = "open"
       THEN /\ host' = [host EXCEPT ![calls[d].ask] = calls[d].outcome]
            /\ frames' = frames \cup {<<"approval_resolved", calls[d].ask>>}
       ELSE UNCHANGED <<host, frames>>
    /\ UNCHANGED <<approvals, chatVars>>

\* The receipt is not read: the row takes the outcome of this call.
Decided(d) ==
    /\ calls[d] # NoCall /\ calls[d].sent
    /\ approvals' = [approvals EXCEPT ![calls[d].ask] = calls[d].outcome]
    /\ calls' = [calls EXCEPT ![d] = NoCall]
    /\ UNCHANGED <<host, frames, chatVars>>

\* decide_failed: the host cannot be reached, or its answer is lost.
DecideFails(d) ==
    /\ calls[d] # NoCall
    /\ calls' = [calls EXCEPT ![d] = NoCall]
    /\ UNCHANGED <<host, approvals, frames, chatVars>>

\* The turn ends, by itself or by a timer: its asks go with it, and what the
\* host still says of them reaches nobody.
TurnGoes ==
    /\ host' = [a \in Asks |-> IF host[a] = "open" THEN "gone" ELSE host[a]]
    /\ frames' = {}
    /\ UNCHANGED <<approvals, calls, chatVars>>

----------------------------------------------------------------------------

BrainNext ==
    \/ \E c \in Calls : Prompt(c) \/ Refused(c) \/ DispatchTask(c) \/ BrainSession(c) \/ BrainEnds(c)
    \/ PersonSends \/ PersonSession \/ PersonEnds \/ NewDay

BrainSpec == DelegationInit /\ [][BrainNext]_delegationVars

ApprovalNext ==
    \/ \E a \in Asks : \/ HostAsksApproval(a) \/ RecordPendingApproval(a) \/ AsksAgain(a)
                       \/ ResolveApproval(a)
                       \/ \E d \in Deciders : Decide(d, a)
    \/ \E d \in Deciders : HostDecides(d) \/ Decided(d) \/ DecideFails(d)
    \/ TurnGoes

----------------------------------------------------------------------------

\* One conversation has one turn of the brain at a time, and the day's spending
\* passes the budget by no more than the turns that were under way when it was
\* reached.
BrainKeepsItsBounds ==
    /\ Cardinality(InChat) <= 1
    /\ spent < Cap + Cardinality(Calls) * Cost

\* The row ends with what the host did.  Refuted: of two deciders that both read
\* a pending row the later one writes its own outcome over the other's.
RowTellsOutcome ==
    (frames = {} /\ \A d \in Deciders : calls[d] = NoCall)
        => \A a \in Asks : approvals[a] \in {"allowed-once", "rejected"} => approvals[a] = host[a]

\* The session of a conversation is not exchanged.  Refuted: a call of the brain
\* that began before a person's first turn writes its own session over theirs.
SessionStays == [][session # NoSession => session' = session]_session
=============================================================================

----------------------------- MODULE PublicApi -----------------------------
(***************************************************************************)
(* The outward door: keys that are minted, edited and revoked              *)
(* (auth/api-key.ts, routes/keys.ts), the admission of their calls         *)
(* (public-api/quota.ts, conversations.ts), conversations that stick to    *)
(* one agent per user of the caller (public-api/routes.ts), and the sweep  *)
(* that archives the idle ones.  Every handler below runs without an await *)
(* from its first read to its last write, the row of a turn included; what *)
(* interleaves are the calls, the turns that end, the operator and the     *)
(* clock.  A call that is refused changes nothing and is left out; what it *)
(* would be told is in the guards.                                         *)
(***************************************************************************)
EXTENDS Dispatch

CONSTANTS Keys, Users, NoUser, NoService, NoKey, NoQuota,
          Services,     \* the services of the config
          WorkersOf,    \* the agents of a service, in the config's order
          MaxSessions,  \* conversations per agent
          Terms,        \* the terms a key may be given
          MaxChats,     \* bound of the conversations there are
          MaxTurns,     \* bound of the turns at once in one
          MaxUsed       \* more turns in a day than any quota

VARIABLES keys,    \* the rows of api_key
          used,    \* the turns a key has started since midnight
          chats    \* the rows of chat, each with its turns under way

ASSUME ApiAssumption ==
    /\ Terms \subseteq [services : SUBSET Services, write : BOOLEAN, cap : Nat,
                       quota : Nat \cup {NoQuota}]
    /\ {MaxSessions, MaxChats, MaxUsed} \subseteq Nat /\ MaxTurns \in Nat \ {0}
    /\ \A s \in Services : /\ Len(WorkersOf[s]) \in Nat
                           /\ DOMAIN WorkersOf[s] = 1..Len(WorkersOf[s])

apiVars == <<keys, used, chats>>

Agents == UNION {{WorkersOf[s][i] : i \in DOMAIN WorkersOf[s]} : s \in Services}

----------------------------------------------------------------------------
(* Keys.                                                                   *)

Minted(k) == keys[k] # NoKey

\* verifyApiKey
Verified(k) == Minted(k) /\ keys[k].state = "valid"

AllowsService(k, s) == s \in keys[k].terms.services

HasScope(k) == keys[k].terms.write

Mint(k) ==
    /\ ~Minted(k)
    /\ \E t \in Terms : keys' = [keys EXCEPT ![k] = [terms |-> t, state |-> "valid"]]
    /\ UNCHANGED <<used, chats>>

\* The terms that are not given are kept and checked again: an expired key is
\* edited only together with its end.
EditKey(k) ==
    /\ Minted(k)
    /\ \E t \in Terms :
         keys' = [keys EXCEPT ![k] =
                    [terms |-> t, state |-> IF @.state = "revoked" THEN "revoked" ELSE "valid"]]
    /\ UNCHANGED <<used, chats>>

Revoke(k) ==
    /\ Minted(k)
    /\ keys' = [keys EXCEPT ![k].state = "revoked"]
    /\ UNCHANGED <<used, chats>>

Expire(k) ==
    /\ Verified(k)
    /\ keys' = [keys EXCEPT ![k].state = "expired"]
    /\ UNCHANGED <<used, chats>>

----------------------------------------------------------------------------
(* What the rows say.                                                      *)

RunsUsedToday(k) == used[k]

\* The rows of the turns under way, each with its conversation.
OpenRuns == {r \in (DOMAIN chats) \X (1..MaxTurns) : r[2] <= chats[r[1]].turns}
ActiveRuns(k) == Cardinality({r \in OpenRuns : chats[r[1]].key = k})

\* Mutation of CheckAdmission: the turns under way are not counted.
CheckAdmissionByQuota(k) ==
    /\ HasScope(k)
    /\ keys[k].terms.quota # NoQuota => RunsUsedToday(k) < keys[k].terms.quota

CheckAdmission(k) ==
    /\ HasScope(k)
    /\ keys[k].terms.quota # NoQuota => RunsUsedToday(k) < keys[k].terms.quota
    /\ ActiveRuns(k) < keys[k].terms.cap

\* The service a call means, if any.
ResolveService(k, wanted) ==
    LET allowed == {s \in Services : AllowsService(k, s)}
    IN IF wanted = NoService
       THEN IF Cardinality(allowed) = 1 THEN allowed ELSE {}
       ELSE {wanted} \cap allowed

FindLiveConversation(k, u) ==
    {c \in DOMAIN chats : chats[c].live /\ chats[c].key = k /\ chats[c].user = u}

\* Mutation of Sessions: only the conversations with a turn under way count.
SessionsGoing(a) == Cardinality({c \in DOMAIN chats : chats[c].agent = a /\ chats[c].turns > 0})

Sessions(a) == Cardinality({c \in DOMAIN chats : chats[c].live /\ chats[c].agent = a})

KeySessionsByAgent(k, a) ==
    Cardinality({c \in DOMAIN chats : chats[c].live /\ chats[c].key = k /\ chats[c].agent = a})

\* Which agents are up and how long their last turns took is chosen by the call.
LoadServiceLoad(k, s, online, latency) ==
    LET Of(a) == [online |-> a \in online,
                  sessions |-> Sessions(a),
                  queue |-> Cardinality({r \in OpenRuns : chats[r[1]].agent = a}),
                  latency |-> latency[a],
                  ofKey |-> KeySessionsByAgent(k, a)]
    IN [i \in DOMAIN WorkersOf[s] |-> Of(WorkersOf[s][i])]

DispatchConversation(k, s, online, latency, seed) ==
    PickWorker([workers |-> LoadServiceLoad(k, s, online, latency),
                max |-> MaxSessions, seed |-> seed])

----------------------------------------------------------------------------
(* Calls.                                                                  *)

\* Counted as far as a quota can tell.
Uses(k, n) == used' = [used EXCEPT ![k] = IF @ + n > MaxUsed THEN MaxUsed ELSE @ + n]

\* A turn's row is there before the call waits for anything.
RunTurn(k, c) ==
    /\ chats[c].turns < MaxTurns
    /\ chats' = [chats EXCEPT ![c].turns = @ + 1]
    /\ Uses(k, 1)

CreateChat(a, k, u, s, turns) ==
    /\ Len(chats) < MaxChats
    /\ chats' = Append(chats, [agent |-> a, key |-> k, user |-> u, service |-> s,
                               live |-> TRUE, idle |-> FALSE, turns |-> turns])

Converse(k) ==
    \E wanted \in Services \cup {NoService}, u \in Users \cup {NoUser}, says \in BOOLEAN :
    \E s \in IF Verified(k) THEN ResolveService(k, wanted) ELSE {} :
       /\ CheckAdmission(k)
       /\ \/ /\ u # NoUser /\ says
             /\ \E c \in FindLiveConversation(k, u) : RunTurn(k, c)
          \/ /\ u = NoUser \/ FindLiveConversation(k, u) = {}
             /\ \E online \in SUBSET Agents, latency \in [Agents -> {NoFact, 1}], seed \in 0..1 :
                  LET picked == DispatchConversation(k, s, online, latency, seed)
                  IN /\ picked.ok
                     /\ CreateChat(WorkersOf[s][picked.agent], k, u, s, IF says THEN 1 ELSE 0)
             /\ Uses(k, IF says THEN 1 ELSE 0)
       /\ UNCHANGED keys

SendMessage(k) ==
    \E c \in DOMAIN chats :
       /\ Verified(k) /\ CheckAdmission(k)
       /\ chats[c].key = k /\ chats[c].live
       /\ RunTurn(k, c)
       /\ UNCHANGED keys

\* However it ends, the conversation was touched.
TurnOfCallEnds(c) ==
    /\ chats[c].turns > 0
    /\ chats' = [chats EXCEPT ![c].turns = @ - 1, ![c].idle = FALSE]
    /\ UNCHANGED <<keys, used>>

----------------------------------------------------------------------------
(* The operator and the clock.                                             *)

OperatorCreates(a) ==
    CreateChat(a, NoKey, NoUser, NoService, 0) /\ UNCHANGED <<keys, used>>

Archive(c) ==
    /\ chats[c].live
    /\ chats' = [chats EXCEPT ![c].live = FALSE]
    /\ UNCHANGED <<keys, used>>

\* The unique index: two live conversations of one user cannot be written.
ChatUserLive(c) ==
    \E d \in DOMAIN chats \ {c} : /\ chats[d].live /\ chats[c].user # NoUser
                                  /\ chats[d].key = chats[c].key /\ chats[d].user = chats[c].user

\* Mutation of Restore: as if there were no index.
RestoreAnyway(c) ==
    /\ ~chats[c].live
    /\ chats' = [chats EXCEPT ![c].live = TRUE]
    /\ UNCHANGED <<keys, used>>

\* The update fails if it would break the index.
Restore(c) ==
    /\ ~chats[c].live /\ ~ChatUserLive(c)
    /\ chats' = [chats EXCEPT ![c].live = TRUE]
    /\ UNCHANGED <<keys, used>>

\* By the rows alone: also those a turn is running in.
SweepIdleConversations ==
    /\ chats' = [c \in DOMAIN chats |->
                    IF chats[c].service # NoService /\ chats[c].idle
                    THEN [chats[c] EXCEPT !.live = FALSE] ELSE chats[c]]
    /\ UNCHANGED <<keys, used>>

GoesIdle(c) ==
    /\ chats[c].live
    /\ chats' = [chats EXCEPT ![c].idle = TRUE]
    /\ UNCHANGED <<keys, used>>

\* startOfLocalDay
Midnight ==
    /\ used' = [k \in Keys |-> 0]
    /\ UNCHANGED <<keys, chats>>

----------------------------------------------------------------------------

ApiInit ==
    /\ keys = [k \in Keys |-> NoKey]
    /\ used = [k \in Keys |-> 0]
    /\ chats = <<>>

ApiNext ==
    \/ \E k \in Keys : Mint(k) \/ EditKey(k) \/ Revoke(k) \/ Expire(k) \/ Converse(k) \/ SendMessage(k)
    \/ \E c \in DOMAIN chats : TurnOfCallEnds(c) \/ Archive(c) \/ Restore(c) \/ GoesIdle(c)
    \/ SweepIdleConversations \/ Midnight
    \/ \E a \in Agents : OperatorCreates(a)

ApiSpec == ApiInit /\ [][ApiNext]_apiVars

----------------------------------------------------------------------------

\* A user of a caller has one conversation at a time, whatever the callers
\* retry, the sweep archives and the operator restores.
OneConversationPerUser ==
    \A c, d \in DOMAIN chats :
        /\ chats[c].live /\ chats[d].live
        /\ chats[c].user # NoUser
        /\ chats[c].key = chats[d].key /\ chats[c].user = chats[d].user
        => c = d

\* A turn is started for a key only within its terms of that moment: valid, in
\* scope, within today's quota and the turns it may have under way; and a new
\* conversation of a caller is for a service its key may call, with an agent
\* that has, with it, no more conversations than it may have.
TermsAreKept ==
    [][/\ \A k \in Keys : ActiveRuns(k)' > ActiveRuns(k) =>
            /\ Verified(k)
            /\ ActiveRuns(k)' <= keys[k].terms.cap
            /\ keys[k].terms.quota # NoQuota => RunsUsedToday(k)' <= keys[k].terms.quota
       /\ \A c \in DOMAIN chats' \ DOMAIN chats, a \in Agents :
            chats'[c].key # NoKey /\ chats'[c].agent = a =>
               /\ AllowsService(chats'[c].key, chats'[c].service)
               /\ Cardinality({d \in DOMAIN chats' : chats'[d].live /\ chats'[d].agent = a}) <= MaxSessions]_apiVars
=============================================================================

------------------------------ MODULE MCOffice ------------------------------
(* The manager around the turns, one part at a time.                        *)
EXTENDS PublicApi, Schedules, Delegations, Provisioning, Composer, TLC

MCWorker == [online : BOOLEAN, sessions : 0..1, queue : 0..1, latency : {NoFact, 1}, ofKey : {0}]
            \cup [online : {TRUE}, sessions : {0}, queue : {0}, latency : {2}, ofKey : {0, 1}]
MCWorkerLists == {<<>>} \cup [1..2 -> MCWorker] \cup
                 {<<a, b, b>> : a \in MCWorker, b \in {w \in MCWorker : w.latency = NoFact}}

MCMachineFacts ==
    [online : {TRUE}, private : {FALSE}, services : {{}, {1}}, agents : 0..1, sessions : {0},
     cpu : {10, 90}, mem : {2}, disk : {5}, affinity : {FALSE}]
    \cup [online : {TRUE}, private : {FALSE}, services : {{}}, agents : 0..1, sessions : {3},
          cpu : {50, NoFact}, mem : {1}, disk : {1}, affinity : {TRUE}]
    \cup [online : {TRUE}, private : {FALSE}, services : {{}}, agents : {0}, sessions : {3},
          cpu : {50}, mem : {0, NoFact}, disk : {0, NoFact}, affinity : {FALSE}]
    \cup [online : {TRUE}, private : {FALSE}, services : {{}}, agents : {0}, sessions : {450},
          cpu : {50}, mem : {1}, disk : {1}, affinity : {FALSE}]
    \cup [online : BOOLEAN, private : BOOLEAN, services : {{1}, {2}}, agents : {0}, sessions : {0},
          cpu : {50}, mem : {9}, disk : {NoFact}, affinity : {FALSE}]
MCExisting == {<<>>, 2 :> 1, 2 :> 3, 1 :> 1 @@ 3 :> 2, 1 :> 2 @@ 2 :> 2 @@ 4 :> 1}

MCWorkersOf == 1 :> <<1, 2>> @@ 2 :> <<2>>
MCTerms == {[services |-> {1, 2}, write |-> TRUE, cap |-> 1, quota |-> NoQuota],
            [services |-> {1}, write |-> TRUE, cap |-> 2, quota |-> 1]}

MCFirst ==
    LET first == CHOOSE n \in Nodes : TRUE IN
    [endpoints |-> [n \in Nodes |-> IF n = first
                        THEN [runner |-> "process", host |-> Here, sandbox |-> TRUE, cap |-> "absent"]
                        ELSE NoEndpoint],
     agents |-> [n \in Nodes |-> IF n = first
                     THEN [endpoint |-> first, public |-> FALSE, model |-> "none", sandbox |-> TRUE]
                     ELSE NoAgent],
     services |-> [s \in ServiceIds |-> NoDeclaration]]
MCDrafts ==
    {[workers |-> Nodes \ AgentsOf(MCFirst), pin |-> pin, machines |-> Hosts, perMachine |-> 1,
      thresholds |-> ~pin] : pin \in BOOLEAN}

VARIABLE part

officeVars == <<part, question, apiVars, cronVars, delegationVars, configVars, composerVars>>

Inits ==
    DispatchInit /\ ApiInit /\ CronInit /\ DelegationInit /\ ProvisionInit /\ ComposerInit
MCInit ==
    /\ part \in {"dispatch", "api", "cron", "brain", "approvals", "config", "composer"}
    /\ Inits
    /\ part # "composer" => chatRow.session

ConfigInit == part = "config" /\ Inits /\ chatRow.session

MCNext ==
    /\ UNCHANGED part
    /\ part # "dispatch" => UNCHANGED question
    /\ part # "api" => UNCHANGED apiVars
    /\ part # "cron" => UNCHANGED cronVars
    /\ part \notin {"brain", "approvals"} => UNCHANGED delegationVars
    /\ part # "config" => UNCHANGED configVars
    /\ part # "composer" => UNCHANGED composerVars
    /\ \/ part = "dispatch" /\ DispatchNext
       \/ part = "api" /\ ApiNext
       \/ part = "cron" /\ CronNext
       \/ part = "brain" /\ BrainNext
       \/ part = "approvals" /\ ApprovalNext
       \/ part = "config" /\ ProvisionNext
       \/ part = "composer" /\ ComposerNext

MCSpec == MCInit /\ [][MCNext]_officeVars
ConfigSpec == ConfigInit /\ [][MCNext]_officeVars
=============================================================================

SPECIFICATION MCSpec
CONSTANTS
    NoFact = NoFact
    WorkerLists <- MCWorkerLists
    MaxSeed = 2
    MachineFacts <- MCMachineFacts
    Machines = {1, 2}
    Existing <- MCExisting
    MaxCount = 3
    Keys = {k1}
    Users = {u1}
    NoUser = NoUser
    NoService = NoService
    NoKey = NoKey
    NoQuota = NoQuota
    Services = {1, 2}
    WorkersOf <- MCWorkersOf
    MaxSessions = 1
    Terms <- MCTerms
    MaxChats = 2
    MaxTurns = 2
    MaxUsed = 2
    Crons = {c1}
    Attempts = {a1, a2}
    NoRow = NoRow
    NoAttempt = NoAttempt
    Never = Never
    Ceiling = 2
    MissedCap = 2
    MaxTime = 4
    Calls = {b1, b2}
    Asks = {q1}
    Deciders = {d1, d2}
    Cap = 2
    Cost = 2
    NoSession = NoSession
    NoCall = NoCall
    Nodes = {n1, n2}
    ServiceIds = {s1}
    Here = Here
    Hosts = {m1}
    NoEndpoint = NoEndpoint
    NoAgent = NoAgent
    NoDeclaration = NoDeclaration
    Posts = {p1, p2}
    NoPost = NoPost
    NoSupervisor = NoSupervisor
    Boot = Boot
    FirstFile <- MCFirst
    Drafts <- MCDrafts
    MaxEdits = 1
    Modes = {readOnly, workspaceWrite}
    AgentMode = readOnly
    Models = {modelA, modelB}
    HostModel = modelA
    Unset = Unset
    MaxPicks = 2
    MaxRuns = 2
    MaxLoads = 1
INVARIANT ChoicesAreRight
INVARIANT OneConversationPerUser
PROPERTY TermsAreKept
INVARIANT TimersFollowRows
PROPERTY MissedToldOnce
INVARIANT BrainKeepsItsBounds
INVARIANT NodesAreWhole
INVARIANT OffersAreTaken
INVARIANT ChoiceIsKept
CHECK_DEADLOCK FALSE

------------------------------ MODULE MCPages -------------------------------
(* The browser's pages, one at a time: the keys, services and nodes pages   *)
(* have two of their things to look after; the page of a conversation has   *)
(* its session's log to show, loaded at any moment (the plans are those of   *)
(* MCTranscript); the sidebar has one agent and two conversations, of which  *)
(* one begins empty.  The pages that are not looked at keep one state.      *)
EXTENDS AdminPages, MCTranscript, Sidebar, TLC

CONSTANTS c1, c2, brain

VARIABLE part

openVars == <<part, pagesVars, transcriptVars, sidebarVars>>

Interchangeable == Permutations(Ids)

MCRows ==
  { <<NewChatRow(c1, brain)>>,
    <<NewChatRow(c1, brain), [NewChatRow(c2, brain) EXCEPT !.written = TRUE]>> }

MCInit ==
    /\ part \in {"keys", "services", "nodes", "transcript", "sidebar"}
    /\ PagesInit /\ TranscriptInit /\ SidebarInit
    /\ part # "keys" => keyRows = [k \in Ids |-> "free"] /\ kp = KeysPage(NoId)
    /\ part # "services" => serviceRows = {} /\ sp.param = NoId
    /\ part # "nodes" => nodeRows = {} /\ np.view = "topo"
    /\ part # "transcript" => plan = CHOOSE p \in Plans : TRUE
    /\ part # "sidebar" => Len(table) = 1

MCNext ==
    /\ UNCHANGED part
    /\ \/ part = "keys" /\ KeysNext /\ UNCHANGED <<servicesVars, nodesVars, transcriptVars, sidebarVars>>
       \/ part = "services" /\ ServicesNext /\ UNCHANGED <<keysVars, nodesVars, transcriptVars, sidebarVars>>
       \/ part = "nodes" /\ NodesNext /\ UNCHANGED <<keysVars, servicesVars, transcriptVars, sidebarVars>>
       \/ part = "transcript" /\ TranscriptNext /\ UNCHANGED <<pagesVars, sidebarVars>>
       \/ part = "sidebar" /\ SidebarNext /\ UNCHANGED <<pagesVars, transcriptVars>>

MCSpec == MCInit /\ [][MCNext]_openVars
=============================================================================

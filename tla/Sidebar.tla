------------------------------- MODULE Sidebar -------------------------------
(***************************************************************************)
(* The sidebar of every page (public/assets/shell.js): the tree of agents   *)
(* and conversations that polls redraw, the actions on its rows, the brain's *)
(* block, and the conversation that is left empty; against the routes that   *)
(* list, open, name, archive and delete conversations (routes/chat.ts,       *)
(* chat/store.ts).  One browser tab; others change the same things.          *)
(***************************************************************************)
EXTENDS Integers, Sequences, SequencesExt, FiniteSets

CONSTANTS
  Chats,       \* the conversations there may ever be
  NoChat,
  Groups,      \* the agents
  Brain,       \* the agent that has a block of its own
  Cut,         \* CHATS_SHOWN, BRAIN_CHATS_SHOWN: rows before "show more"
  FirstRows,   \* the tables a behaviour may begin with
  MaxChanges,  \* bound on what others change
  MaxCalls,    \* bound on the requests of the tab under way
  MaxVisits    \* bound on the pages the tab opens

TableRow == [id : Chats, agent : Groups, written : BOOLEAN, archived : BOOLEAN]

(* The id is the key of the table.                                          *)
ASSUME SidebarAssumption ==
  /\ NoChat \notin Chats /\ Brain \in Groups
  /\ {Cut, MaxChanges, MaxCalls, MaxVisits} \subseteq Nat
  /\ \A t \in FirstRows :
       /\ t \in Seq(TableRow)
       /\ \A i, j \in DOMAIN t : t[i].id = t[j].id => i = j

VARIABLES
  table,     \* the table of conversations, most recently active first
  tab,       \* the page in the tab, see Page
  prevChat,  \* sessionStorage: the conversation the tab was last on
  opened,    \* localStorage: the agents whose group is open
  unfolded,  \* localStorage: those whose list is shown in full
  requests,  \* the tab's requests under way
  changes,   \* what others have changed, counted
  visits     \* the pages the tab has opened, counted

sidebarVars == <<table, tab, prevChat, opened, unfolded, requests, changes, visits>>

-----------------------------------------------------------------------------
(* The table.                                                               *)

(* written: it has a title or a turn.                                       *)
NewChatRow(c, g) == [id |-> c, agent |-> g, written |-> FALSE, archived |-> FALSE]
Known == {table[i].id : i \in DOMAIN table}
RowOf(c) == CHOOSE r \in ToSet(table) : r.id = c
Live(c) == c \in Known /\ ~RowOf(c).archived

Changed(c, r) == [i \in DOMAIN table |-> IF table[i].id = c THEN r ELSE table[i]]
Without(c) == RemoveAt(table, CHOOSE i \in DOMAIN table : table[i].id = c)

(* listChats: archived ones are hidden.                                     *)
Listing == SelectSeq(table, LAMBDA r : ~r.archived)

Created(c, g) == <<NewChatRow(c, g)>> \o table

(* What a first message does to its conversation at once.                   *)
Touched(c) ==
  <<[RowOf(c) EXCEPT !.written = TRUE]>> \o Without(c)

(* vacate, by what the page believed (a mutation), and by what there is.    *)
VacatedOnTrust(c) == IF Live(c) THEN Without(c) ELSE table

Vacated(c) == IF Live(c) /\ ~RowOf(c).written THEN Without(c) ELSE table

-----------------------------------------------------------------------------
(* The page.                                                                *)

Nothing == [known |-> FALSE, list |-> <<>>]

(* at is the conversation it shows, data what the last poll said, drawn the  *)
(* groups that are open on screen.                                          *)
Page(c) ==
  [at |-> c, data |-> Nothing, menu |-> NoChat, drawn |-> {}]

ChatsOf(g, list) == SelectSeq(list, LAMBDA r : r.agent = g)
Shown(g, list, all) ==
  IF all THEN ToSet(ChatsOf(g, list))
  ELSE ToSet(SubSeq(ChatsOf(g, list), 1, IF Len(ChatsOf(g, list)) < Cut THEN Len(ChatsOf(g, list)) ELSE Cut))

(* agentNav and renderBrain: the rows on screen.                             *)
OnScreen == {r.id : r \in UNION {Shown(g, tab.data.list, g \in unfolded) : g \in tab.drawn}}

Redrawn(p, open) == IF p.data.known THEN [p EXCEPT !.drawn = open] ELSE p

Call(kind, chat, agent) ==
  [kind |-> kind, chat |-> chat, agent |-> agent, mine |-> TRUE, stage |-> "sent", ok |-> FALSE, list |-> <<>>]
Refresh == Call("list", NoChat, Brain)

(* Leaving a page: what it asked goes on, but nobody waits for the answer.  *)
Abandoned(list) ==
  {[k EXCEPT !.mine = FALSE] : k \in {x \in list : x.kind # "list" /\ x.stage = "sent"}}

(* A page load; every page begins with a poll.                              *)
Goes(c, under) ==
  /\ visits < MaxVisits /\ visits' = visits + 1
  /\ tab' = Page(c)
  /\ requests' = Abandoned(under) \cup {Refresh}

Sends(call) == Cardinality(requests) < MaxCalls /\ requests' = requests \cup {call}

-----------------------------------------------------------------------------
(* The polls.                                                               *)

Polls ==
  /\ Sends(Refresh)
  /\ UNCHANGED <<table, tab, prevChat, opened, unfolded, changes, visits>>

(* revealOpenChat at every redraw (a mutation), and once on arrival.        *)
RevealAlways(p, list) ==
  IF p.at = NoChat THEN opened
  ELSE opened \cup {r.agent : r \in {x \in ToSet(list) : x.id = p.at}}

Reveal(p, list) ==
  IF p.data.known \/ p.at = NoChat THEN opened
  ELSE opened \cup {r.agent : r \in {x \in ToSet(list) : x.id = p.at}}

(* maybeVacatePrevious: once on a page, when its first list is there, the   *)
(* conversation the tab was on before is given back if it looks empty.      *)
Leaves(p, list) ==
  IF p.data.known \/ prevChat = p.at THEN {}
  ELSE {Call("vacate", r.id, r.agent) : r \in {x \in ToSet(list) : x.id = prevChat /\ ~x.written}}

LoadAnswered(k) ==
  LET open == Reveal(tab, k.list) IN
  /\ opened' = open
  /\ prevChat' = IF tab.data.known THEN prevChat ELSE tab.at
  /\ requests' = (requests \ {k}) \cup Leaves(tab, k.list)
  /\ tab' = [tab EXCEPT !.data = [known |-> TRUE, list |-> k.list], !.drawn = open]
  /\ UNCHANGED <<table, unfolded, changes, visits>>

-----------------------------------------------------------------------------
(* The server works off a request.                                          *)

(* The answer, for the page that asked if it is still there.               *)
Replies(k, ok, list) ==
  requests' = (requests \ {k}) \cup (IF k.mine THEN {[k EXCEPT !.stage = "answered", !.ok = ok, !.list = list]} ELSE {})

ServeList(k) ==
  /\ k.kind = "list" /\ Replies(k, TRUE, Listing)
  /\ UNCHANGED table

ServeVacate(k) ==
  /\ k.kind = "vacate"
  /\ table' = Vacated(k.chat) /\ Replies(k, table' # table, <<>>)

ServeRename(k) ==
  /\ k.kind = "rename" /\ Replies(k, Live(k.chat), <<>>)
  /\ table' = IF Live(k.chat) THEN Changed(k.chat, [RowOf(k.chat) EXCEPT !.written = TRUE]) ELSE table

(* Archiving what is archived archives it again.                            *)
ServeArchive(k) ==
  /\ k.kind = "archive" /\ Replies(k, k.chat \in Known, <<>>)
  /\ table' = IF k.chat \in Known THEN Changed(k.chat, [RowOf(k.chat) EXCEPT !.archived = TRUE]) ELSE table

ServeCreate(k) ==
  /\ k.kind = "create"
  /\ \E c \in Chats \ Known :
       /\ table' = Created(c, k.agent)
       /\ requests' = (requests \ {k}) \cup {[x EXCEPT !.stage = "answered", !.ok = TRUE, !.chat = c] : x \in {y \in {k} : y.mine}}

Serves(k) ==
  /\ k.stage = "sent"
  /\ \/ ServeList(k) \/ ServeVacate(k) \/ ServeRename(k) \/ ServeArchive(k) \/ ServeCreate(k)
  /\ UNCHANGED <<tab, prevChat, opened, unfolded, changes, visits>>

-----------------------------------------------------------------------------
(* The answer reaches the page that asked, if it is still there.            *)

(* archive: the page of an archived conversation goes on to the next of its  *)
(* agent, of the list as it is by now.                                      *)
Fallback(c) ==
  LET of == {r \in ToSet(tab.data.list) : r.id = c}
      rest == SelectSeq(tab.data.list, LAMBDA r : r.id # c /\ \E x \in of : x.agent = r.agent)
  IN IF rest = <<>> THEN NoChat ELSE Head(rest).id

Returns(k) ==
  LET rest == requests \ {k}
      moves == k.ok /\ (k.kind = "create" \/ (k.kind = "archive" /\ k.chat = tab.at))
  IN
  /\ k.kind # "list" /\ k.stage = "answered"
  /\ \/ moves /\ Goes(IF k.kind = "create" THEN k.chat ELSE Fallback(k.chat), rest)
     \/ /\ ~moves /\ UNCHANGED <<tab, visits>>
        /\ requests' = IF k.ok \/ k.kind = "vacate" THEN rest \cup {Refresh} ELSE rest
  /\ UNCHANGED <<table, prevChat, opened, unfolded, changes>>

Answers(k) == k.kind = "list" /\ k.stage = "answered" /\ LoadAnswered(k)

(* A request that never gets there, or whose answer does not: the frame goes *)
(* on without it.                                                           *)
Lost(k) ==
  /\ requests' = requests \ {k}
  /\ UNCHANGED <<table, tab, prevChat, opened, unfolded, changes, visits>>

-----------------------------------------------------------------------------
(* The person.                                                              *)

Opens(c) ==
  /\ c \in OnScreen \cup {NoChat} /\ Goes(c, requests)
  /\ UNCHANGED <<table, prevChat, opened, unfolded, changes>>

(* A toggle turns over what is on screen, and writes that down.             *)
Toggles(g) ==
  /\ tab.data.known
  /\ opened' = IF g \in tab.drawn THEN opened \ {g} ELSE opened \cup {g}
  /\ tab' = Redrawn(tab, opened')
  /\ UNCHANGED <<table, prevChat, unfolded, requests, changes, visits>>

ShowsMore(g) ==
  /\ g \in tab.drawn /\ Len(ChatsOf(g, tab.data.list)) > Cut
  /\ unfolded' = IF g \in unfolded THEN unfolded \ {g} ELSE unfolded \cup {g}
  /\ tab' = Redrawn(tab, opened)
  /\ UNCHANGED <<table, prevChat, opened, requests, changes, visits>>

(* The menu of a row stays when a redraw takes the row away.                *)
OpensMenu(c) ==
  /\ c \in OnScreen
  /\ tab' = [tab EXCEPT !.menu = IF @ = c THEN NoChat ELSE c]
  /\ UNCHANGED <<table, prevChat, opened, unfolded, requests, changes, visits>>

ClosesMenu ==
  /\ tab.menu # NoChat /\ tab' = [tab EXCEPT !.menu = NoChat]
  /\ UNCHANGED <<table, prevChat, opened, unfolded, requests, changes, visits>>

(* The prompt and the question block the page, so nothing comes between.    *)
PicksFromMenu(act) ==
  /\ tab.menu # NoChat /\ Sends(Call(act, tab.menu, Brain))
  /\ tab' = [tab EXCEPT !.menu = NoChat]
  /\ UNCHANGED <<table, prevChat, opened, unfolded, changes, visits>>

NewChat(g) ==
  /\ tab.data.known /\ Sends(Call("create", NoChat, g))
  /\ UNCHANGED <<table, tab, prevChat, opened, unfolded, changes, visits>>

(* The brain's button opens its latest conversation, and begins one only if *)
(* there is none.                                                           *)
OpenBrainChat ==
  /\ tab.data.known
  /\ IF ChatsOf(Brain, tab.data.list) = <<>>
     THEN Sends(Call("create", NoChat, Brain)) /\ UNCHANGED <<tab, visits>>
     ELSE Goes(Head(ChatsOf(Brain, tab.data.list)).id, requests)
  /\ UNCHANGED <<table, prevChat, opened, unfolded, changes>>

(* The first message of the conversation on screen (module ChatPage).       *)
Writes ==
  /\ tab.at # NoChat /\ Live(tab.at) /\ table' = Touched(tab.at)
  /\ UNCHANGED <<tab, prevChat, opened, unfolded, requests, changes, visits>>

-----------------------------------------------------------------------------
(* Other tabs and persons, and the boot, which archives the conversations of *)
(* an agent that is gone (archiveOrphanChats).                              *)

OthersTurn == changes < MaxChanges /\ changes' = changes + 1

(* selfHealStaleFrame: after a deployment the page loads itself again.      *)
Heals ==
  /\ OthersTurn /\ Goes(tab.at, requests)
  /\ UNCHANGED <<table, prevChat, opened, unfolded>>

OthersChange ==
  /\ OthersTurn
  /\ \/ \E c \in Known : Live(c) /\ table' = Touched(c)
     \/ \E c \in Known : Live(c) /\ table' = Changed(c, [RowOf(c) EXCEPT !.written = TRUE])
     \/ \E c \in Known : table' = Changed(c, [RowOf(c) EXCEPT !.archived = ~@])
     \/ \E c \in Chats \ Known, g \in Groups : table' = Created(c, g)
  /\ UNCHANGED <<tab, prevChat, opened, unfolded, requests, visits>>

OthersFold(g) ==
  /\ OthersTurn
  /\ opened' = IF g \in opened THEN opened \ {g} ELSE opened \cup {g}
  /\ UNCHANGED <<table, tab, prevChat, unfolded, requests, visits>>

-----------------------------------------------------------------------------
SidebarInit ==
  /\ table \in FirstRows
  /\ tab = Page(NoChat) /\ prevChat = NoChat /\ opened = {} /\ unfolded = {}
  /\ requests = {Refresh} /\ changes = 0 /\ visits = 0

SidebarNext ==
  \/ Polls
  \/ \E k \in requests : Serves(k) \/ Lost(k) \/ Answers(k) \/ Returns(k)
  \/ \E c \in Chats \cup {NoChat} : Opens(c)
  \/ \E g \in Groups : Toggles(g) \/ ShowsMore(g) \/ NewChat(g) \/ OthersFold(g)
  \/ \E c \in Chats : OpensMenu(c)
  \/ ClosesMenu \/ OpenBrainChat \/ Writes \/ Heals
  \/ \E act \in {"rename", "archive"} : PicksFromMenu(act)
  \/ OthersChange

SidebarSpec == SidebarInit /\ [][SidebarNext]_sidebarVars

-----------------------------------------------------------------------------
(* "a chat with content may only be archived, never physically deleted"      *)
(* (routes/chat.ts): whatever the page that gives an empty conversation back *)
(* has missed, none is deleted once it was written to or named.             *)
WrittenChatsAreKept ==
  \A r \in ToSet(table) : r.written => \E x \in ToSet(table') : x.id = r.id

(* "a later collapse is a decision the user is entitled to keep": after its  *)
(* arrival no redraw opens a group again, on this page or the next draw.     *)
FoldsAreTheReaders ==
  (tab'.data # tab.data /\ tab.data.known /\ visits' = visits) => opened' = opened

(* The sidebar takes nothing away on the strength of an old list.           *)
SidebarKeeps == [][WrittenChatsAreKept /\ FoldsAreTheReaders]_sidebarVars

(* The page of an archived conversation goes on to the agent's latest        *)
(* remaining one.  Refuted: a poll that is answered before the archiving is  *)
(* has taken the conversation off the list, and the page goes home.          *)
NextIsOpened ==
  [][\A k \in requests :
       (k.kind = "archive" /\ k.ok /\ k.chat = tab.at /\ Returns(k)
          /\ \E r \in ToSet(Listing) : r.agent = RowOf(k.chat).agent)
         => tab'.at # NoChat]_sidebarVars
=============================================================================

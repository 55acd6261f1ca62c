----------------------------- MODULE AdminPages -----------------------------
(***************************************************************************)
(* The three pages on which an operator looks after keys, services and     *)
(* nodes.  Each keeps its forms, drawers and menus in module variables,    *)
(* sends requests without waiting for the ones before, and acts on each    *)
(* answer when it comes, whatever has been opened or closed meanwhile.     *)
(* A page is a record with the requests on their way in .calls; the wording *)
(* of what it renders is left out, and a field of a form is known by whose *)
(* values it holds: those of a key, service or node, or Fresh ones.        *)
(***************************************************************************)
EXTENDS Naturals, FiniteSets

CONSTANTS Ids, NoId,    \* the keys, services or nodes of a page
          Fresh,
          MaxKeyCalls, MaxServiceCalls, MaxNodeCalls,   \* requests on their way
          MaxFile                                       \* changes of the config file

VARIABLES keyRows, kp, serviceRows, fileHash, sp, nodeRows, np

keysVars == <<keyRows, kp>>
servicesVars == <<serviceRows, fileHash, sp>>
nodesVars == <<nodeRows, np>>
pagesVars == <<keysVars, servicesVars, nodesVars>>

Asked(page, call) == [page EXCEPT !.calls = @ \cup {call}]
Over(page, call) == [page EXCEPT !.calls = @ \ {call}]
Room(page, max) == Cardinality(page.calls) < max
\* a click outside a menu closes it, whatever else it does
Clicked(page) == [page EXCEPT !.menu = NoId]
-----------------------------------------------------------------------------
\* Keys.  Two slots render the form under the same ids: the one of the edit view, first in the
\* document, and the one of the drawer.  A look-up by id finds the first that is there.
NoForm == [text |-> NoId, grants |-> NoId]
FreshForm == [text |-> Fresh, grants |-> Fresh]
FormOf(k) == [text |-> k, grants |-> k]

KeyCall(op, k, form, then) == [op |-> op, key |-> k, form |-> form, then |-> then]

\* param: the key the address of the page names, Fresh when it asks for the drawer of a new one
KeysPage(param) ==
            [listed |-> {}, menu |-> NoId, view |-> "list", subject |-> NoId,
             mode |-> "create", edit |-> NoForm, drawer |-> "closed", own |-> FreshForm,
             draft |-> NoForm, examples |-> NoId,
             calls |-> {KeyCall("list", param, NoForm, "open")}]

ReadForm == IF kp.edit # NoForm THEN kp.edit ELSE kp.own

\* fillForm: the text fields of the first form
FillForm(page, form) == IF page.edit # NoForm THEN [page EXCEPT !.edit.text = form.text]
                                              ELSE [page EXCEPT !.own.text = form.text]

RenderList(page) ==
    LET rows == {k \in Ids : keyRows[k] # "free"} IN
    [page EXCEPT !.listed = rows, !.menu = IF rows # page.listed THEN NoId ELSE @]

OpenKeyDetail(page, k, then) ==
    Asked([page EXCEPT !.subject = k, !.view = "detail", !.menu = NoId],
          KeyCall("detail", k, NoForm, then))

CloseCreateDrawer(page) == [page EXCEPT !.drawer = "closed"]
\* with the drawer goes the secret that was pasted into it
CloseKeyExamples(page) == [page EXCEPT !.examples = NoId]

\* a drawer covers the page: what lies behind it cannot be clicked.  And a bound: nobody clicks
\* before the first answer is there, which the address of the page may want to open a key with
Started == ~(\E c \in kp.calls : c.op = "list" /\ c.then = "open")
Uncovered == kp.drawer = "closed" /\ kp.examples = NoId /\ Started

KeyMenu(k) == Uncovered /\ kp.view = "list" /\ k \in kp.listed
              /\ kp' = [kp EXCEPT !.menu = IF @ = k THEN NoId ELSE k]
KeyDetail(k) == Uncovered /\ kp.view = "list" /\ kp.menu = k /\ Room(kp, MaxKeyCalls)
                /\ kp' = OpenKeyDetail(kp, k, "nothing")
OpenKeyEdit(k) ==
    /\ Uncovered /\ Room(kp, MaxKeyCalls)
    /\ \/ kp.view = "list" /\ kp.menu = k
       \/ kp.view = "detail" /\ kp.subject = k
    /\ kp' = Asked([kp EXCEPT !.menu = NoId], KeyCall("edit", k, NoForm, "nothing"))
RevokeKey(k) ==
    /\ Uncovered /\ Room(kp, MaxKeyCalls)
    /\ \/ kp.view = "list" /\ kp.menu = k
       \/ kp.view = "detail" /\ kp.subject = k
    /\ kp' = Asked([kp EXCEPT !.menu = NoId], KeyCall("revoke", k, NoForm, "nothing"))
KeyExamples(k) ==
    /\ Uncovered /\ k \in kp.listed
    /\ \/ kp.view = "list" /\ kp.menu = k
       \/ kp.view = "detail" /\ kp.subject = k
    /\ kp' = [kp EXCEPT !.menu = NoId, !.examples = k]
EscapeKeys == (kp.menu # NoId \/ kp.examples # NoId)
              /\ kp' = CloseKeyExamples([kp EXCEPT !.menu = NoId])
BackToKeys == Uncovered /\ kp.view = "detail" /\ kp' = [Clicked(kp) EXCEPT !.subject = NoId, !.view = "list"]
LeaveKeyForm == Uncovered /\ kp.view = "form" /\ kp' = [Clicked(kp) EXCEPT !.view = "detail"]
FilterKeys == Uncovered /\ kp.view = "list" /\ Room(kp, MaxKeyCalls)
              /\ kp' = Asked(Clicked(kp), KeyCall("list", NoId, NoForm, "nothing"))

DrawerOpened(page) ==
    LET opened == [page EXCEPT !.mode = "create", !.drawer = "form", !.own = FreshForm]
    IN  IF page.draft = NoForm THEN opened ELSE FillForm(opened, page.draft)
OpenCreateDrawer == Uncovered /\ kp.view = "list" /\ kp' = DrawerOpened(Clicked(kp))
TypeInDrawer == kp.drawer = "form" /\ kp.mode = "create" /\ kp' = [kp EXCEPT !.draft = ReadForm]
CloseDrawer == kp.drawer # "closed" /\ kp' = CloseCreateDrawer(kp)
\* a form that became an edit form under the drawer is cancelled like one
CancelForm == kp.drawer = "form"
              /\ kp' = IF kp.mode = "edit" THEN [kp EXCEPT !.view = "detail"] ELSE CloseCreateDrawer(kp)
KeyDone == kp.drawer = "issued" /\ Room(kp, MaxKeyCalls)
           /\ kp' = Asked(CloseCreateDrawer(kp), KeyCall("list", NoId, NoForm, "nothing"))

\* submitForm, from the form of the drawer or of the edit view: what mode says, not which form
SubmitForm ==
    /\ Room(kp, MaxKeyCalls)
    /\ kp.drawer = "form" \/ (kp.view = "form" /\ Uncovered)
    /\ \/ /\ kp.mode = "edit" /\ kp.subject # NoId
          /\ kp' = Asked(Clicked(kp), KeyCall("patch", kp.subject, ReadForm, "nothing"))
       \/ /\ kp.mode = "create"
          /\ kp' = Asked(Clicked(kp), KeyCall("create", NoId, ReadForm, "nothing"))

ListAnswered(c, ok) ==
    /\ c.op = "list"
    /\ LET page == IF ok THEN RenderList(Over(kp, c)) ELSE Over(kp, c) IN
       kp' = IF c.then = "leave" /\ page.subject = c.key
             THEN [page EXCEPT !.subject = NoId, !.view = "list"]
             ELSE IF c.then = "refresh" /\ page.subject # NoId /\ page.view = "detail"
             THEN Asked(page, KeyCall("refresh", page.subject, NoForm, "nothing"))
             ELSE IF c.then = "open" /\ c.key \in Ids /\ page.subject # c.key
             THEN OpenKeyDetail(page, c.key, "open")
             ELSE IF c.then = "open" /\ c.key = Fresh
             THEN DrawerOpened(page)
             ELSE page
    /\ UNCHANGED keyRows

DetailAnswered(c, ok) ==
    /\ c.op \in {"detail", "refresh"}
    /\ LET page == Over(kp, c)
           shown == IF ~ok /\ c.op = "detail" THEN [page EXCEPT !.view = "list"] ELSE page
       IN  kp' = IF c.then = "list" THEN Asked(shown, KeyCall("list", NoId, NoForm, "nothing")) ELSE shown
    /\ UNCHANGED keyRows

\* mutant: the subject stays the key whose detail was open
FilledForDetail(page, k) == [page EXCEPT !.mode = "edit", !.edit = FormOf(k), !.view = "form"]
KeyFormFilled(page, k) == [page EXCEPT !.mode = "edit", !.edit = FormOf(k), !.subject = k, !.view = "form"]
EditAnswered(c, ok) ==
    /\ c.op = "edit"
    /\ kp' = IF ok THEN KeyFormFilled(Over(kp, c), c.key) ELSE Over(kp, c)
    /\ UNCHANGED keyRows

PatchAnswered(c, ok) ==
    /\ c.op = "patch"
    /\ UNCHANGED keyRows
    /\ kp' = IF ok THEN OpenKeyDetail(Over(kp, c), kp.subject, "list") ELSE Over(kp, c)

\* an answer can be lost after the manager has done what was asked
CreateAnswered(c, ok) ==
    /\ c.op = "create"
    /\ \E k \in {n \in Ids : keyRows[n] = "free"}, done \in {ok, TRUE} :
         /\ keyRows' = IF done THEN [keyRows EXCEPT ![k] = "live"] ELSE keyRows
         /\ kp' = IF ~ok THEN Over(kp, c)
                  ELSE Asked([Over(kp, c) EXCEPT !.draft = NoForm,
                                  !.drawer = IF @ = "closed" THEN @ ELSE "issued"],
                             KeyCall("list", NoId, NoForm, "nothing"))

RevokeAnswered(c, ok) ==
    /\ c.op = "revoke"
    /\ \E done \in {ok, TRUE} :
         keyRows' = IF done THEN [keyRows EXCEPT ![c.key] = "revoked"] ELSE keyRows
    /\ kp' = IF ok THEN Asked(Over(kp, c), KeyCall("list", c.key, NoForm, "leave")) ELSE Over(kp, c)

\* one tick of the poll at a time: the list, then the detail that is open
PollKeys == Room(kp, MaxKeyCalls)
            /\ ~(\E c \in kp.calls : c.then \in {"open", "refresh"} \/ c.op = "refresh")
            /\ kp' = Asked(kp, KeyCall("list", NoId, NoForm, "refresh"))
ReloadKeys == \E k \in Ids \cup {NoId, Fresh} : kp' = [KeysPage(k) EXCEPT !.draft = kp.draft]

KeysNext ==
    \/ /\ UNCHANGED keyRows
       /\ \/ \E k \in Ids : KeyMenu(k) \/ KeyDetail(k) \/ OpenKeyEdit(k) \/ RevokeKey(k) \/ KeyExamples(k)
          \/ EscapeKeys \/ BackToKeys \/ LeaveKeyForm \/ FilterKeys
          \/ OpenCreateDrawer \/ TypeInDrawer \/ CloseDrawer \/ CancelForm \/ KeyDone \/ SubmitForm
          \/ PollKeys \/ ReloadKeys
    \/ \E c \in kp.calls, ok \in BOOLEAN :
         \/ ListAnswered(c, ok) \/ DetailAnswered(c, ok) \/ EditAnswered(c, ok)
         \/ PatchAnswered(c, ok) \/ CreateAnswered(c, ok) \/ RevokeAnswered(c, ok)
-----------------------------------------------------------------------------
\* Services.  One draft for the page, whichever slot renders it.
NoDraft == [id |-> NoId, shown |-> NoId, kept |-> NoId]
ServiceCall(op, draft, hash, from) == [op |-> op, draft |-> draft, hash |-> hash, from |-> from]
LoadCall == ServiceCall("services", NoDraft, 0, "page")

\* param: the service the address of the page names, Fresh when it asks for the drawer of a new one
ServicesPage(param) ==
                [param |-> param, snapshot |-> {}, listed |-> {}, known |-> {}, hash |-> 0, menu |-> NoId, view |-> "list",
                 detail |-> NoId, editing |-> NoId, locked |-> FALSE, drawer |-> FALSE,
                 draft |-> [id |-> NoId, shown |-> Fresh, kept |-> Fresh],
                 timer |-> FALSE, calls |-> {LoadCall}]

\* mutant: the fields without an input keep what the last service left in them
ResetShown(page) == [page EXCEPT !.draft.id = NoId, !.draft.shown = Fresh]
\* kept: the thresholds, which the form carries without showing them
ResetDraft(page) == [page EXCEPT !.draft = [id |-> NoId, shown |-> Fresh, kept |-> Fresh]]
LoadDraft(page, s) ==
    IF s \in page.known THEN [page EXCEPT !.draft = [id |-> s, shown |-> s, kept |-> s]] ELSE page
SchedulePreview(page) == [page EXCEPT !.timer = TRUE]
RenderForm(page) == [page EXCEPT !.locked = page.editing # NoId]
CloseEditor(page) == [page EXCEPT !.drawer = FALSE, !.editing = NoId]

ServiceMenu(s) == ~sp.drawer /\ sp.view = "list" /\ s \in sp.listed \cap sp.snapshot
                  /\ sp' = [sp EXCEPT !.menu = IF @ = s THEN NoId ELSE s]
EscapeServices == sp.menu # NoId /\ sp' = [sp EXCEPT !.menu = NoId]
OpenDetail(s) == ~sp.drawer /\ sp.view = "list" /\ sp.menu = s /\ s \in sp.snapshot
                 /\ sp' = [sp EXCEPT !.menu = NoId, !.detail = s, !.view = "detail"]
EditorOpened(page) == [SchedulePreview(RenderForm(ResetDraft([page EXCEPT !.editing = NoId])))
                            EXCEPT !.drawer = TRUE]
OpenEditor == ~sp.drawer /\ sp.view = "list" /\ sp' = EditorOpened(Clicked(sp))
OpenEdit(s) ==
    /\ ~sp.drawer
    /\ (sp.view = "list" /\ sp.menu = s) \/ (sp.view = "detail" /\ sp.detail = s)
    /\ sp' = [SchedulePreview(RenderForm(LoadDraft([sp EXCEPT !.editing = s, !.menu = NoId], s)))
                  EXCEPT !.view = "form"]
BackToServices == ~sp.drawer /\ sp.view = "detail" /\ sp' = [Clicked(sp) EXCEPT !.detail = NoId, !.view = "list"]
LeaveServiceForm == ~sp.drawer /\ sp.view = "form" /\ sp' = [Clicked(sp) EXCEPT !.view = "detail"]
CancelDrawer == sp.drawer /\ sp' = CloseEditor(sp)

Editable == sp.drawer \/ sp.view = "form"
TypeField == Editable /\ sp' = SchedulePreview(sp)
TypeId(s) == (sp.drawer \/ (sp.view = "form" /\ ~sp.locked))
             /\ sp' = SchedulePreview([sp EXCEPT !.draft.id = s])
ChoosePlacement == Editable /\ sp' = SchedulePreview(RenderForm(sp))

RunPreview ==
    /\ sp.timer /\ Room(sp, MaxServiceCalls)
    /\ sp' = IF sp.draft.id = NoId THEN [sp EXCEPT !.timer = FALSE]
             ELSE Asked([sp EXCEPT !.timer = FALSE], ServiceCall("preview", sp.draft, 0, "page"))
PreviewAnswered(c) == c.op = "preview" /\ sp' = Over(sp, c)

\* a form that is opened has a button of its own, which an answer still awaited does not disable
Apply ==
    /\ Editable /\ Room(sp, MaxServiceCalls)
    /\ sp' = Asked(Clicked(sp), ServiceCall("apply", sp.draft, sp.hash, IF sp.drawer THEN "drawer" ELSE "form"))
\* the manager refuses a draft that was sent with the hash of an older file
ApplyAnswered(c, ok) ==
    /\ c.op = "apply"
    /\ ok => c.hash = fileHash /\ c.draft.id # NoId
    /\ \/ ok /\ fileHash < MaxFile /\ fileHash' = fileHash + 1 /\ serviceRows' = serviceRows \cup {c.draft.id}
       \/ ~ok /\ UNCHANGED <<serviceRows, fileHash>>
    /\ sp' = IF ok THEN Asked(CloseEditor(Over(sp, c)), LoadCall) ELSE Over(sp, c)
DeleteClicked(s) ==
    /\ ~sp.drawer /\ Room(sp, MaxServiceCalls)
    /\ (sp.view = "list" /\ sp.menu = s) \/ (sp.view = "detail" /\ sp.detail = s)
    /\ sp' = Asked([sp EXCEPT !.menu = NoId], ServiceCall("delete", [NoDraft EXCEPT !.id = s], 0, "page"))
DeleteAnswered(c, ok) ==
    /\ c.op = "delete"
    /\ \/ ok /\ fileHash < MaxFile /\ fileHash' = fileHash + 1 /\ serviceRows' = serviceRows \ {c.draft.id}
       \/ ~ok /\ UNCHANGED <<serviceRows, fileHash>>
    /\ sp' = IF ok THEN Asked([Over(sp, c) EXCEPT !.detail = NoId, !.view = "list"], LoadCall)
             ELSE Over(sp, c)

\* renderList: the same rows are not drawn again, so that an open menu stays
Drawn(page) == IF page.view = "list" /\ page.snapshot # page.listed
               THEN [Clicked(page) EXCEPT !.listed = page.snapshot] ELSE page
\* load: the snapshot, then what the editor needs; the draft being edited stays
PollServices == Room(sp, MaxServiceCalls) /\ ~(\E c \in sp.calls : c.op \in {"services", "context"}) /\ sp' = Asked(sp, LoadCall)
SnapshotAnswered(c, ok) ==
    /\ c.op = "services"
    /\ sp' = Asked(IF ok THEN [Over(sp, c) EXCEPT !.snapshot = serviceRows] ELSE Over(sp, c),
                   ServiceCall("context", NoDraft, 0, "page"))
ContextAnswered(c, ok) ==
    /\ c.op = "context"
    /\ LET page == IF ok THEN [Over(sp, c) EXCEPT !.known = serviceRows, !.hash = fileHash] ELSE Over(sp, c)
       IN  sp' = IF page.param = Fresh THEN [EditorOpened(Drawn(page)) EXCEPT !.param = NoId]
                 ELSE IF page.view = "list" /\ page.param \in page.snapshot
                 THEN [Drawn(page) EXCEPT !.detail = page.param, !.view = "detail"]
                 ELSE Drawn(page)
ReloadServices == \E s \in Ids \cup {NoId, Fresh} : sp' = ServicesPage(s)

ServicesNext ==
    \/ /\ UNCHANGED <<serviceRows, fileHash>>
       /\ \/ \E s \in Ids : ServiceMenu(s) \/ OpenDetail(s) \/ OpenEdit(s) \/ TypeId(s) \/ DeleteClicked(s)
          \/ EscapeServices \/ OpenEditor \/ BackToServices \/ LeaveServiceForm \/ CancelDrawer
          \/ TypeField \/ ChoosePlacement \/ RunPreview \/ Apply \/ PollServices \/ ReloadServices
          \/ \E c \in sp.calls : PreviewAnswered(c)
          \/ \E c \in sp.calls, ok \in BOOLEAN : SnapshotAnswered(c, ok) \/ ContextAnswered(c, ok)
    \/ \E c \in sp.calls, ok \in BOOLEAN : ApplyAnswered(c, ok) \/ DeleteAnswered(c, ok)
-----------------------------------------------------------------------------
\* Nodes and machines.
NodeCall(op, n, form) == [op |-> op, node |-> n, form |-> form]
NodesLoad == NodeCall("load", NoId, NoId)

NodesPage(view) ==
    [listed |-> {}, menu |-> NoId, sub |-> FALSE, logs |-> NoId,
     editor |-> FALSE, host |-> "here", access |-> NoId, filled |-> NoId, accessShown |-> FALSE,
     join |-> FALSE, fold |-> FALSE, view |-> view, calls |-> {NodesLoad}]

PageFree == ~np.editor /\ ~np.accessShown
CloseNodeMenu(page) == [page EXCEPT !.menu = NoId, !.sub = FALSE]
CloseAccessEditor(page) == [page EXCEPT !.access = NoId, !.accessShown = FALSE]

OpenNodeMenu(n) == PageFree /\ np.view = "nodes" /\ n \in np.listed
                   /\ np' = [np EXCEPT !.menu = IF @ = n THEN NoId ELSE n, !.sub = FALSE]
OpenSubmenu == np.menu # NoId /\ np' = [np EXCEPT !.sub = TRUE]
\* Escape closes the menu and whichever drawer is open; a drawer is only hidden by it
EscapeNodes == (np.menu # NoId \/ ~PageFree)
               /\ np' = [CloseNodeMenu(np) EXCEPT !.editor = FALSE, !.accessShown = FALSE]
\* start, stop, restart, align, remove; and the version, out of the submenu
NodeAction(n, op) == np.menu = n /\ Room(np, MaxNodeCalls) /\ (op = "version" => np.sub)
                     /\ np' = Asked(CloseNodeMenu(np), NodeCall(op, n, NoId))
\* every action loads the page again, a removal only when it was done
ActionAnswered(c, ok) ==
    /\ c.op \in {"action", "version", "remove"}
    /\ nodeRows' = IF c.op = "remove" /\ ok THEN nodeRows \ {c.node} ELSE nodeRows
    /\ np' = IF c.op = "remove" /\ ~ok THEN Over(np, c) ELSE Asked(Over(np, c), NodesLoad)

OpenLogs(n) == np.menu = n /\ Room(np, MaxNodeCalls)
               /\ np' = Asked([CloseNodeMenu(np) EXCEPT !.logs = n], NodeCall("logs", n, NoId))
\* by the button or every five seconds
RefreshLogs == np.logs # NoId /\ Room(np, MaxNodeCalls)
               /\ \E page \in {np, CloseNodeMenu(np)} : np' = Asked(page, NodeCall("logs", np.logs, NoId))
LogsAnswered(c) == c.op = "logs" /\ np' = Over(np, c) /\ UNCHANGED nodeRows
CloseLogs == PageFree /\ np.logs # NoId /\ np' = [CloseNodeMenu(np) EXCEPT !.logs = NoId]

NewNode == PageFree /\ np.view = "nodes" /\ np' = [CloseNodeMenu(np) EXCEPT !.editor = TRUE]
CancelNode == np.editor /\ np' = [np EXCEPT !.editor = FALSE]
ChooseHost == np.editor /\ np' = [np EXCEPT !.host = "remote"]
\* the button is disabled until the answer is there
SubmitNode == np.editor /\ Room(np, MaxNodeCalls) /\ ~(\E c \in np.calls : c.op = "create")
              /\ np' = Asked(np, NodeCall("create", NoId, NoId))
NodeFormAnswered(c, ok) ==
    /\ c.op = "create"
    /\ \/ /\ ok
          /\ \E n \in Ids \ nodeRows : nodeRows' = nodeRows \cup {n}
          /\ np' = Asked([Over(np, c) EXCEPT !.editor = FALSE, !.host = "here"], NodesLoad)
       \/ ~ok /\ np' = Over(np, c) /\ UNCHANGED nodeRows

OpenAccessEditor(n) ==
    np.menu = n /\ np' = [CloseNodeMenu(np) EXCEPT !.access = n, !.filled = n, !.accessShown = TRUE]
AccessCancel == np.accessShown /\ np' = CloseAccessEditor(np)
AccessSave(op) == np.accessShown /\ np.access # NoId /\ Room(np, MaxNodeCalls)
                  /\ np' = Asked(np, NodeCall(op, np.access, np.filled))
AccessAnswered(c, ok) ==
    /\ c.op \in {"access", "clear"}
    /\ np' = IF ok THEN Asked(CloseAccessEditor(Over(np, c)), NodesLoad) ELSE Over(np, c)
    /\ UNCHANGED nodeRows

AddMachine == PageFree /\ np.view = "machines" /\ Room(np, MaxNodeCalls)
              /\ np' = Asked(CloseNodeMenu(np), NodeCall("join", NoId, NoId))
JoinAnswered(c, ok) == c.op = "join" /\ np' = [Over(np, c) EXCEPT !.join = @ \/ ok] /\ UNCHANGED nodeRows
CloseJoin == PageFree /\ np.join /\ np' = [CloseNodeMenu(np) EXCEPT !.join = FALSE]
\* delete, rotate and revoke a machine
MachineAction == PageFree /\ np.view = "machines" /\ Room(np, MaxNodeCalls)
                 /\ np' = Asked(CloseNodeMenu(np), NodeCall("machine", NoId, NoId))
MachineAnswered(c) == c.op = "machine" /\ np' = Asked(Over(np, c), NodesLoad) /\ UNCHANGED nodeRows
FoldRevoked == PageFree /\ np.view = "machines" /\ np' = [CloseNodeMenu(np) EXCEPT !.fold = ~@]
SetView(v) == PageFree /\ np.view # v /\ np' = [CloseNodeMenu(np) EXCEPT !.view = v]
\* a node or machine of the drawing leads to its row, and opens the fold it is in
JumpTo(v) == PageFree /\ np.view = "topo" /\ \E fold \in {np.fold, TRUE} : np' = [CloseNodeMenu(np) EXCEPT !.view = v, !.fold = fold]

\* load draws the lists again: menus close, and the list of machines of the form starts from its first
NodesLoaded(c, nodesOk, agentsOk) ==
    /\ c.op = "load"
    /\ \E changed \in BOOLEAN :   \* the html of the machines: the same html is not drawn again
         np' = IF ~nodesOk THEN Over(np, c)
               ELSE [CloseNodeMenu(Over(np, c)) EXCEPT
                        !.listed = nodeRows,
                        !.host = IF agentsOk THEN "here" ELSE @,
                        !.fold = IF agentsOk /\ changed THEN FALSE ELSE @]
    /\ UNCHANGED nodeRows
PollNodes == Room(np, MaxNodeCalls) /\ np' = Asked(np, NodesLoad)

NodesNext ==
    \/ /\ UNCHANGED nodeRows
       /\ \/ \E n \in Ids : \/ OpenNodeMenu(n) \/ OpenLogs(n) \/ OpenAccessEditor(n)
                              \/ \E op \in {"action", "version", "remove"} : NodeAction(n, op)
          \/ OpenSubmenu \/ EscapeNodes \/ RefreshLogs \/ CloseLogs \/ NewNode \/ CancelNode \/ ChooseHost
          \/ SubmitNode \/ AccessCancel \/ AddMachine \/ CloseJoin \/ MachineAction \/ FoldRevoked \/ PollNodes
          \/ \E op \in {"access", "clear"} : AccessSave(op)
          \/ \E v \in {"topo", "nodes", "machines"} : SetView(v)
          \/ \E v \in {"nodes", "machines"} : JumpTo(v)
    \/ \E c \in np.calls : LogsAnswered(c) \/ MachineAnswered(c)
    \/ \E c \in np.calls, ok \in BOOLEAN :
         ActionAnswered(c, ok) \/ NodeFormAnswered(c, ok) \/ AccessAnswered(c, ok) \/ JoinAnswered(c, ok)
    \/ \E c \in np.calls, nodesOk, agentsOk \in BOOLEAN : NodesLoaded(c, nodesOk, agentsOk)
-----------------------------------------------------------------------------
PagesInit ==
    /\ keyRows \in [Ids -> {"free", "live"}]
    /\ \E k \in Ids \cup {NoId, Fresh} : kp = KeysPage(k)
    /\ serviceRows \in SUBSET Ids
    /\ fileHash = 0
    /\ \E s \in Ids \cup {NoId, Fresh} : sp = ServicesPage(s)
    /\ nodeRows \in SUBSET Ids
    /\ \E v \in {"topo", "nodes", "machines"} : np = NodesPage(v)

PagesNext ==
    \/ KeysNext /\ UNCHANGED <<servicesVars, nodesVars>>
    \/ ServicesNext /\ UNCHANGED <<keysVars, nodesVars>>
    \/ NodesNext /\ UNCHANGED <<keysVars, servicesVars>>

PagesSpec == PagesInit /\ [][PagesNext]_pagesVars

\* Whatever was opened, left and answered late in between, a request that changes a key or the
\* access of a node carries the values read for that one, and a service declared in the drawer
\* carries nothing of a service edited before: what the one-form-at-a-time comment of keys.js and
\* the draft of services.js, shared by all their forms, are trusted with.
OwnTermsOnly ==
    /\ \A c \in kp.calls : c.op = "patch" => c.form = FormOf(c.key)
    /\ \A c \in sp.calls : c.op = "apply" /\ c.from = "drawer" => c.draft.shown = Fresh /\ c.draft.kept = Fresh
    /\ \A c \in np.calls : c.op \in {"access", "clear"} => c.form = c.node
=============================================================================

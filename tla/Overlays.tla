------------------------------ MODULE Overlays -------------------------------
(***************************************************************************)
(* What lies over a conversation's page and how it goes away again: the      *)
(* drawer, the menus and panels of the frame (public/assets/shell.js), the   *)
(* composer's dropdowns and popovers (chat.js, chat-composer.js), and the    *)
(* Escape key, which every one of them listens for and which also stops the  *)
(* turn that is running behind them.                                        *)
(***************************************************************************)
EXTENDS Integers, FiniteSets

CONSTANTS
  Agents,      \* the agents whose details can be looked at
  NoAgent,     \* none of them
  MaxNotices,  \* bound on the notifications that arrive
  MaxCalls,    \* bound on the requests of the page under way at once
  MaxTurns     \* bound on the turns

VARIABLES
  shown,    \* the layers that are open
  wide,     \* docked(): the window is at least 1024px wide
  rail,     \* on this page (nav-rail) and in localStorage (RAIL_KEY)
  focus,    \* the keyboard: "page", "input" (the text field) or a layer
  before,   \* focusBeforeDrawer
  panelOf,  \* the agent the panel was opened for, and the one it shows
  notices,  \* unread on the server, in the badge, in the opened panel
  calls,    \* requests of the page under way
  turn,     \* of the conversation: "idle", "sending", "running"
  turns     \* history: how many there were

overlayVars == <<shown, wide, rail, focus, before, panelOf, notices, calls, turn, turns>>

Flyouts == {"languages", "about"}
Frame == {"row", "more", "notify"} \cup Flyouts   \* closed by a click elsewhere
Popovers == {"options", "settings", "context"}    \* by a press of the pointer

Asked(kind, agent) ==
  /\ Cardinality(calls) < MaxCalls /\ [kind |-> kind, agent |-> agent] \notin calls
  /\ calls' = calls \cup {[kind |-> kind, agent |-> agent]}
Answered(kind, agent) ==
  [kind |-> kind, agent |-> agent] \in calls /\ calls' = calls \ {[kind |-> kind, agent |-> agent]}

(* What stays open when the pointer is pressed, and when the click is then   *)
(* seen by the document, inside of the layers in.                           *)
Pressed(in) == shown \ (Popovers \ in)
Clicked(in) == Pressed(in) \ (Frame \ in)

InSidebar == wide \/ "drawer" \in shown
OnPage == "drawer" \notin shown   \* not behind the drawer's backdrop

-----------------------------------------------------------------------------
(* The sidebar: a rail where it is docked, else a drawer.                   *)

CloseDrawer(s) == /\ shown' = s \ {"drawer"}
                  /\ focus' = IF "drawer" \in s THEN before ELSE focus
                  /\ before' = IF "drawer" \in s THEN "page" ELSE before

ToggleNav(s) ==
  \/ wide /\ rail' = [page |-> ~rail.page, stored |-> ~rail.page] /\ shown' = s /\ UNCHANGED <<focus, before>>
  \/ ~wide /\ "drawer" \in s /\ CloseDrawer(s) /\ UNCHANGED rail
  \/ ~wide /\ "drawer" \notin s /\ shown' = s \cup {"drawer"} /\ before' = focus /\ focus' = "drawer"
     /\ UNCHANGED rail

ClicksNav ==
  /\ ToggleNav(Clicked({}))
  /\ UNCHANGED <<wide, panelOf, notices, calls, turn, turns>>

(* The key [, where it is not being typed.                                  *)
PressesBracket ==
  /\ focus # "input"
  /\ ToggleNav(shown)
  /\ UNCHANGED <<wide, panelOf, notices, calls, turn, turns>>

ClicksBackdrop ==
  /\ "drawer" \in shown
  /\ CloseDrawer(Clicked({}))
  /\ UNCHANGED <<wide, rail, panelOf, notices, calls, turn, turns>>

Resized ==
  /\ wide' = ~wide
  /\ IF wide' THEN CloseDrawer(shown) ELSE UNCHANGED <<shown, focus, before>>
  /\ UNCHANGED <<rail, panelOf, notices, calls, turn, turns>>

(* Tab goes from layer to page and on, but not out of the drawer.           *)
PressesTab ==
  /\ OnPage
  /\ focus' \in {"page", "input"} /\ focus' # focus
  /\ UNCHANGED <<shown, wide, rail, before, panelOf, notices, calls, turn, turns>>

-----------------------------------------------------------------------------
(* Menus and panels of the frame.                                           *)

(* The button of a row opens its menu; again, or a pick, closes it.         *)
RowMenu ==
  /\ InSidebar
  /\ shown' = IF "row" \in shown THEN Clicked({}) ELSE Clicked({}) \cup {"row"}
  /\ focus' = IF "row" \in shown THEN "page" ELSE "row"
  /\ UNCHANGED <<wide, rail, before, panelOf, notices, calls, turn, turns>>

OpenPanel(a) ==
  /\ InSidebar
  /\ Asked("agent", a)
  /\ shown' = Clicked({}) \cup {"panel"} /\ focus' = "panel"
  /\ panelOf' = [asked |-> a, shows |-> NoAgent]
  /\ UNCHANGED <<wide, rail, before, notices, turn, turns>>

PanelAnswered(a) ==
  /\ Answered("agent", a)
  /\ panelOf' = [panelOf EXCEPT !.shows = a]
  /\ UNCHANGED <<shown, wide, rail, focus, before, notices, turn, turns>>

ClosePanel ==
  /\ "panel" \in shown
  /\ shown' = Clicked({}) \ {"panel"} /\ focus' = "page"
  /\ UNCHANGED <<wide, rail, before, panelOf, notices, calls, turn, turns>>

(* Neither this click nor that of the bell reaches the document.            *)
MoreMenu ==
  /\ InSidebar
  /\ shown' = IF "more" \in shown
               THEN Pressed({}) \ ({"more"} \cup Flyouts)
               ELSE (Pressed({}) \ {"notify"}) \cup {"more"}
  /\ focus' = IF "more" \in shown THEN "page" ELSE "more"
  /\ UNCHANGED <<wide, rail, before, panelOf, notices, calls, turn, turns>>

Flyout(f) ==
  /\ "more" \in shown
  /\ shown' = (Clicked({"more"}) \ Flyouts) \cup ({f} \ shown)
  /\ focus' = "more"
  /\ UNCHANGED <<wide, rail, before, panelOf, notices, calls, turn, turns>>

(* An item of a menu, or a notification, is a link to another page.         *)
Navigates ==
  /\ shown \cap {"more", "notify"} # {}
  /\ shown' = {} /\ focus' = "page" /\ before' = "page" /\ calls' = {}
  /\ rail' = [rail EXCEPT !.page = rail.stored]
  /\ panelOf' = [asked |-> NoAgent, shows |-> NoAgent]
  /\ notices' = [notices EXCEPT !.badge = 0, !.listed = 0]
  /\ turn' = IF turn = "sending" THEN "running" ELSE turn
  /\ UNCHANGED <<wide, turns>>

ClicksBell ==
  /\ InSidebar
  /\ \/ "notify" \in shown /\ shown' = Pressed({}) \ {"notify"} /\ UNCHANGED calls
     \/ "notify" \notin shown /\ shown' = Pressed({}) \ ({"more"} \cup Flyouts) /\ Asked("bell", NoAgent)
  /\ focus' = "page"
  /\ UNCHANGED <<wide, rail, before, panelOf, notices, turn, turns>>

BellAnswered ==
  /\ Answered("bell", NoAgent)
  /\ shown' = shown \cup {"notify"}
  /\ notices' = [notices EXCEPT !.listed = notices.unread]
  /\ UNCHANGED <<wide, rail, focus, before, panelOf, turn, turns>>

ReadsAll ==
  /\ "notify" \in shown
  /\ Asked("readAll", NoAgent)
  /\ shown' = Clicked({"notify"}) /\ notices' = [notices EXCEPT !.unread = 0]
  /\ UNCHANGED <<wide, rail, focus, before, panelOf, turn, turns>>

AllRead ==
  /\ Answered("readAll", NoAgent)
  /\ shown' = shown \ {"notify"} /\ notices' = [notices EXCEPT !.badge = 0]
  /\ UNCHANGED <<wide, rail, focus, before, panelOf, turn, turns>>

(* A notification without a link: read, and the panel stays.                *)
ReadsOne ==
  /\ "notify" \in shown /\ notices.listed > 0
  /\ shown' = Clicked({"notify"})
  /\ notices' = [notices EXCEPT !.unread = IF @ = 0 THEN 0 ELSE @ - 1]
  /\ UNCHANGED <<wide, rail, focus, before, panelOf, calls, turn, turns>>

Notified ==
  /\ notices.unread < MaxNotices
  /\ notices' = [notices EXCEPT !.unread = @ + 1]
  /\ UNCHANGED <<shown, wide, rail, focus, before, panelOf, calls, turn, turns>>

(* A poll of the frame draws the badge and a panel that is open anew.       *)
Polled ==
  /\ notices' = [notices EXCEPT !.badge = notices.unread,
                                !.listed = IF "notify" \in shown THEN notices.unread ELSE @]
  /\ UNCHANGED <<shown, wide, rail, focus, before, panelOf, calls, turn, turns>>

-----------------------------------------------------------------------------
(* The conversation.                                                        *)

ClicksPage(into) ==
  /\ OnPage /\ into \in {"page", "input"}
  /\ shown' = Clicked({}) /\ focus' = into
  /\ UNCHANGED <<wide, rail, before, panelOf, notices, calls, turn, turns>>

(* The button of a dropdown, with the focus on its first option; and a pick. *)
Dropdown ==
  /\ OnPage
  /\ IF "options" \in shown
     THEN shown' = Clicked({}) /\ focus' = "page"
     ELSE shown' = Clicked({}) \cup {"options"} /\ focus' = "options"
  /\ UNCHANGED <<wide, rail, before, panelOf, notices, calls, turn, turns>>

(* On a phone the settings fold away.  The dropdowns are among them.        *)
Settings ==
  /\ OnPage
  /\ shown' = IF "settings" \in shown THEN Clicked({}) ELSE Clicked({}) \cup {"settings"}
  /\ focus' = "page"
  /\ UNCHANGED <<wide, rail, before, panelOf, notices, calls, turn, turns>>

ContextPopover ==
  /\ OnPage
  /\ shown' = IF "context" \in shown THEN Clicked({}) ELSE Clicked({}) \cup {"context"}
  /\ focus' = "page"
  /\ UNCHANGED <<wide, rail, before, panelOf, notices, calls, turn, turns>>

Sends ==
  /\ turn = "idle" /\ turns < MaxTurns /\ focus = "input"
  /\ turn' = "sending" /\ turns' = turns + 1
  /\ UNCHANGED <<shown, wide, rail, focus, before, panelOf, notices, calls>>

Sent ==
  /\ turn = "sending"
  /\ turn' = "running"
  /\ UNCHANGED <<shown, wide, rail, focus, before, panelOf, notices, calls, turns>>

TurnEnds ==
  /\ turn = "running"
  /\ turn' = "idle"
  /\ UNCHANGED <<shown, wide, rail, focus, before, panelOf, notices, calls, turns>>

Cancel == Asked("cancel", NoAgent)

ClicksStop ==
  /\ OnPage /\ turn # "idle"
  /\ Cancel
  /\ shown' = Clicked({}) /\ focus' = "page"
  /\ UNCHANGED <<wide, rail, before, panelOf, notices, turn, turns>>

(* It stops whatever turn runs by then.                                     *)
Cancelled ==
  /\ Answered("cancel", NoAgent)
  /\ turn' = IF turn = "running" THEN "idle" ELSE turn
  /\ UNCHANGED <<shown, wide, rail, focus, before, panelOf, notices, turns>>

-----------------------------------------------------------------------------
(* The Escape key, from the element with the focus to the document and there *)
(* through the listeners in the order in which the scripts added them.      *)

(* What the composer's options leave to the document.                       *)
AfterOptions == IF focus = "options" THEN shown \ {"options"} ELSE shown

(* The drawer, the menu of a row and the panel keep the key to themselves.  *)
StopsAt(s, layer) ==
  layer \in s /\ CASE layer = "drawer" -> TRUE
                   [] layer = "row" -> "drawer" \notin s
                   [] layer = "panel" -> s \cap {"drawer", "row"} = {}

EscapeStopped(layer) ==
  /\ StopsAt(AfterOptions, layer)
  /\ IF layer = "drawer" THEN CloseDrawer(AfterOptions)
     ELSE shown' = AfterOptions \ {layer} /\ focus' = "page" /\ UNCHANGED before
  /\ UNCHANGED <<wide, rail, panelOf, notices, calls, turn, turns>>

(* The menu behind the dots and the notifications close and let it pass; of  *)
(* the conversation's own, the settings come before the popover, and both    *)
(* before the turn.                                                         *)
EscapePasses ==
  LET s == AfterOptions \ ({"more", "notify"} \cup Flyouts)
  IN /\ AfterOptions \cap {"drawer", "row", "panel"} = {}
     /\ shown' = IF "settings" \in s THEN s \ {"settings"} ELSE s \ {"context"}
     /\ IF s \cap {"settings", "context"} = {} /\ turn # "idle" THEN Cancel ELSE UNCHANGED calls
     /\ focus' = IF "more" \in AfterOptions \/ focus = "options" THEN "page" ELSE focus
     /\ UNCHANGED <<wide, rail, before, panelOf, notices, turn, turns>>

Escape == EscapePasses \/ \E layer \in {"drawer", "row", "panel"} : EscapeStopped(layer)

-----------------------------------------------------------------------------
OverlaysInit ==
  /\ shown = {} /\ wide \in BOOLEAN /\ rail = [page |-> FALSE, stored |-> FALSE]
  /\ focus = "page" /\ before = "page"
  /\ panelOf = [asked |-> NoAgent, shows |-> NoAgent]
  /\ notices = [unread |-> 0, badge |-> 0, listed |-> 0]
  /\ calls = {} /\ turn = "idle" /\ turns = 0

OverlaysNext ==
  \/ Escape
  \/ ClicksNav \/ PressesBracket \/ ClicksBackdrop \/ Resized \/ PressesTab
  \/ RowMenu \/ ClosePanel \/ MoreMenu \/ Navigates
  \/ \E a \in Agents : OpenPanel(a) \/ PanelAnswered(a)
  \/ \E f \in Flyouts : Flyout(f)
  \/ ClicksBell \/ BellAnswered \/ ReadsAll \/ AllRead \/ ReadsOne \/ Notified \/ Polled
  \/ \E into \in {"page", "input"} : ClicksPage(into)
  \/ Dropdown \/ Settings \/ ContextPopover
  \/ Sends \/ Sent \/ TurnEnds \/ ClicksStop \/ Cancelled

OverlaysSpec == OverlaysInit /\ [][OverlaysNext]_overlayVars

(* A press of Escape that puts away what lies over the conversation does not *)
(* also ask to stop the turn behind it (the comments of the drawer's and the *)
(* panel's listeners in shell.js).                                          *)
DismissingIsNotCancelling ==
  [][Escape /\ shown' # shown => calls' = calls]_overlayVars
=============================================================================

------------------------------ MODULE Composer -------------------------------
(***************************************************************************)
(* The settings of one conversation, its access mode and its model: kept by *)
(* the session host, recorded by the manager, shown and picked in a page's   *)
(* composer (public/assets/chat-composer.js, chat-wire.js, chat.js).  A mode *)
(* picked while the host has put the session to sleep is recorded and given  *)
(* to it by the next run that wakes it (routes/chat.ts, runner.ts).          *)
(***************************************************************************)
EXTENDS Integers, Sequences, SequencesExt, FiniteSets

CONSTANTS
  Modes, AgentMode,   \* the access modes, and the one of the agent's config
  Models, HostModel,  \* the models, and the host's default
  Unset,
  MaxPicks,    \* bound on the choices made, in this page or elsewhere
  MaxRuns,     \* bound on the runs of the conversation
  MaxLoads     \* bound on the loads of the page

ASSUME ComposerAssumption ==
  /\ AgentMode \in Modes /\ HostModel \in Models /\ Unset \notin Modes \cup Models
  /\ {MaxPicks, MaxRuns, MaxLoads} \subseteq Nat

VARIABLES
  atHost,   \* the session at the host: whether it is awake, its mode and model
  chatRow,  \* the conversation's row: bound to the session, accessMode and
            \* accessModeOverride
  runsOf,   \* the run of a person and the run of the brain in it, see Idle
  picks,    \* the choices under way, see Pick
  kept,     \* historyCache: the model it holds, or Unset
  desk,     \* the page
  stream,   \* the composer_state frames on their way to it
  crossed,  \* history: two settings of the mode were under way at once, or
            \* the host took one and its answer was lost
  made      \* how many picks, runs and loads there were

composerVars == <<atHost, chatRow, runsOf, picks, kept, desk, stream, crossed, made>>

Kinds == {"chat", "brain"}
Idle == [phase |-> "off", over |-> Unset]

(* here: picked in this page.                                               *)
Pick(here, setting, value) ==
  [here |-> here, setting |-> setting, value |-> value, stage |-> "sent", ok |-> FALSE]

(* mode, model and running are what it shows; held: its selects are disabled *)
(* for a choice; load: where its request for the conversation is.           *)
Desk ==
  [mode |-> Unset, model |-> Unset, running |-> FALSE, fresh |-> TRUE, held |-> {}, load |-> "none",
   answer |-> [mode |-> Unset, model |-> Unset, running |-> FALSE, fresh |-> TRUE]]

Once(counter, max) == made[counter] < max /\ made' = [made EXCEPT ![counter] = @ + 1]
Moved(p, q) == picks' = (picks \ {p}) \cup {q}

Setting(p) == p.setting = "mode" /\ p.stage \in {"asking", "pinned", "asleep"}
Pinning(k) == runsOf[k].phase \in {"pinning", "clearing"}

-----------------------------------------------------------------------------
(* Runs.  A person's waits for nothing here; the brain's for the person's,   *)
(* and here for a session (that it may bind a second one is another matter). *)

RunStarts(k) ==
  /\ runsOf[k].phase = "off" /\ (k = "brain" => chatRow.session /\ runsOf["chat"].phase = "off")
  /\ Once("runs", MaxRuns)
  /\ runsOf' = [runsOf EXCEPT ![k].phase = IF chatRow.session THEN "prompt" ELSE "create"]
  /\ UNCHANGED <<atHost, chatRow, picks, kept, desk, stream, crossed>>

(* The new session is pinned to the agent's mode, then bound; no choice can  *)
(* be made before.                                                          *)
CreateSession(k) ==
  /\ runsOf[k].phase = "create"
  /\ atHost' = [live |-> TRUE, mode |-> AgentMode, model |-> HostModel]
  /\ chatRow' = [chatRow EXCEPT !.session = TRUE]
  /\ runsOf' = [runsOf EXCEPT ![k].phase = "prompt"]
  /\ UNCHANGED <<picks, kept, desk, stream, crossed, made>>

(* The prompt wakes the session.                                            *)
Prompted(k) ==
  /\ runsOf[k].phase = "prompt"
  /\ atHost' = [atHost EXCEPT !.live = TRUE]
  /\ runsOf' = [runsOf EXCEPT ![k].phase = "override"]
  /\ UNCHANGED <<chatRow, picks, kept, desk, stream, crossed, made>>

(* applyAccessOverride: reads the recorded choice, pins it, and clears what  *)
(* is recorded by then.                                                     *)
ReadOverride(k) ==
  /\ runsOf[k].phase = "override"
  /\ IF chatRow.override = Unset
     THEN runsOf' = [runsOf EXCEPT ![k].phase = "running"] /\ UNCHANGED crossed
     ELSE /\ runsOf' = [runsOf EXCEPT ![k] = [phase |-> "pinning", over |-> chatRow.override]]
          /\ crossed' = (crossed \/ \E p \in picks : Setting(p))
  /\ UNCHANGED <<atHost, chatRow, picks, kept, desk, stream, made>>

PinOverride(k) ==
  /\ runsOf[k].phase = "pinning" /\ atHost.live
  /\ atHost' = [atHost EXCEPT !.mode = runsOf[k].over]
  /\ runsOf' = [runsOf EXCEPT ![k].phase = "clearing"]
  /\ UNCHANGED <<chatRow, picks, kept, desk, stream, crossed, made>>

(* A pin that failed leaves the choice for the next run; a pin that fails    *)
(* and clears it all the same (a mutation).                                 *)
ClearedAnyway(row, pinned) == [row EXCEPT !.override = Unset]

Cleared(row, pinned) == IF pinned THEN [row EXCEPT !.override = Unset] ELSE row

OverrideSettled(k) ==
  /\ Pinning(k)
  /\ chatRow' = Cleared(chatRow, runsOf[k].phase = "clearing")
  /\ runsOf' = [runsOf EXCEPT ![k] = [Idle EXCEPT !.phase = "running"]]
  /\ UNCHANGED <<atHost, picks, kept, desk, stream, crossed, made>>

(* A run ends, also one whose prompt was refused.  Only a person's drops the *)
(* cached history.                                                          *)
RunEnds(k) ==
  /\ runsOf[k].phase \in {"create", "prompt", "running"}
  /\ runsOf' = [runsOf EXCEPT ![k] = Idle]
  /\ kept' = IF k = "chat" THEN Unset ELSE kept
  /\ UNCHANGED <<atHost, chatRow, picks, desk, stream, crossed, made>>

(* The host sleeps: the session went idle, or it was started anew.          *)
HostCools ==
  /\ atHost.live /\ atHost' = [atHost EXCEPT !.live = FALSE]
  /\ UNCHANGED <<chatRow, runsOf, picks, kept, desk, stream, crossed, made>>

-----------------------------------------------------------------------------
(* A choice at the server.                                                  *)

(* POST sandbox-mode and POST model: not before the first turn, nor while a  *)
(* person's turn runs.                                                      *)
Accepted == chatRow.session /\ runsOf["chat"].phase = "off"

ServePick(p) ==
  /\ p.stage = "sent"
  /\ Moved(p, [p EXCEPT !.stage = IF Accepted THEN "asking" ELSE "answered"])
  /\ crossed' = (crossed \/ (Accepted /\ p.setting = "mode"
                              /\ ((\E q \in picks : Setting(q)) \/ \E k \in Kinds : Pinning(k))))
  /\ UNCHANGED <<atHost, chatRow, runsOf, kept, desk, stream, made>>

(* The host takes the mode of a session that is awake, and any model.       *)
HostTakesPick(p) ==
  /\ p.stage = "asking" /\ (p.setting = "mode" => atHost.live)
  /\ atHost' = [atHost EXCEPT ![p.setting] = p.value]
  /\ \/ Moved(p, [p EXCEPT !.stage = "pinned"]) /\ UNCHANGED crossed
     \/ Moved(p, [p EXCEPT !.stage = "failed"]) /\ crossed' = TRUE
  /\ UNCHANGED <<chatRow, runsOf, kept, desk, stream, made>>

HostRefusesPick(p) ==
  /\ p.stage = "asking"
  /\ Moved(p, [p EXCEPT !.stage = IF p.setting = "mode" /\ ~atHost.live THEN "asleep" ELSE "failed"])
  /\ UNCHANGED <<atHost, chatRow, runsOf, kept, desk, stream, crossed, made>>

Publishes(p) == stream' = Append(stream, [setting |-> p.setting, value |-> p.value])

(* A mode that is pinned takes back what waited; the form that forgets that  *)
(* (a mutation).                                                            *)
PinnedOverOverride(p) == [chatRow EXCEPT !.mode = p.value]

PinnedRow(p) == [chatRow EXCEPT !.mode = p.value, !.override = Unset]

ModePinned(p) ==
  /\ p.stage = "pinned" /\ p.setting = "mode"
  /\ chatRow' = PinnedRow(p) /\ kept' = Unset
  /\ Publishes(p) /\ Moved(p, [p EXCEPT !.stage = "answered", !.ok = TRUE])
  /\ UNCHANGED <<atHost, runsOf, desk, crossed, made>>

ModeDeferred(p) ==
  /\ p.stage = "asleep"
  /\ chatRow' = [chatRow EXCEPT !.mode = p.value, !.override = p.value]
  /\ Publishes(p) /\ Moved(p, [p EXCEPT !.stage = "answered", !.ok = TRUE])
  /\ UNCHANGED <<atHost, runsOf, kept, desk, crossed, made>>

ModelSelected(p) ==
  /\ p.stage = "pinned" /\ p.setting = "model"
  /\ kept' = Unset
  /\ Publishes(p) /\ Moved(p, [p EXCEPT !.stage = "answered", !.ok = TRUE])
  /\ UNCHANGED <<atHost, chatRow, runsOf, desk, crossed, made>>

PickFailed(p) ==
  /\ p.stage = "failed" /\ Moved(p, [p EXCEPT !.stage = "answered"])
  /\ UNCHANGED <<atHost, chatRow, runsOf, kept, desk, stream, crossed, made>>

-----------------------------------------------------------------------------
(* The page.                                                                *)

(* renderComposer: what the state says, whatever is under way.              *)
Rendered(d) == [d EXCEPT !.held = {}]

(* The selects of a page are there after its first load, and not before the  *)
(* first message or beside a turn it knows of; picking disables the select.  *)
PickHere(setting, value) ==
  /\ desk.mode # Unset /\ ~desk.fresh /\ ~desk.running /\ setting \notin desk.held
  /\ value # desk[setting] /\ Once("picks", MaxPicks)
  /\ picks' = picks \cup {Pick(TRUE, setting, value)}
  /\ desk' = [desk EXCEPT !.held = @ \cup {setting}]
  /\ UNCHANGED <<atHost, chatRow, runsOf, kept, stream, crossed>>

PickElsewhere(setting, value) ==
  /\ chatRow.session /\ Once("picks", MaxPicks)
  /\ picks' = picks \cup {Pick(FALSE, setting, value)}
  /\ UNCHANGED <<atHost, chatRow, runsOf, kept, desk, stream, crossed>>

(* A model that was refused does not even draw the composer anew.           *)
PickReturns(p) ==
  /\ p.stage = "answered" /\ picks' = picks \ {p}
  /\ desk' = IF ~p.here \/ (p.setting = "model" /\ ~p.ok) THEN desk
             ELSE Rendered(IF p.ok THEN [desk EXCEPT ![p.setting] = p.value] ELSE desk)
  /\ UNCHANGED <<atHost, chatRow, runsOf, kept, stream, crossed, made>>

(* A composer_state frame goes into the state at once, also during a load.   *)
FrameArrives ==
  /\ stream # <<>> /\ stream' = Tail(stream)
  /\ desk' = IF desk.mode = Unset THEN desk
             ELSE Rendered([desk EXCEPT ![Head(stream).setting] = Head(stream).value])
  /\ UNCHANGED <<atHost, chatRow, runsOf, picks, kept, crossed, made>>

LoadBegins ==
  /\ desk.load = "none" /\ Once("loads", MaxLoads)
  /\ desk' = [desk EXCEPT !.load = "asked"]
  /\ UNCHANGED <<atHost, chatRow, runsOf, picks, kept, stream, crossed>>

(* GET /api/chats/:id: the runs, the history, from the cache unless that is  *)
(* too old ...                                                              *)
LoadReads ==
  /\ desk.load = "asked"
  /\ \E model \in {atHost.model} \cup ({kept} \ {Unset}) :
       /\ desk' = [desk EXCEPT !.load = "read",
                     !.answer = [mode |-> atHost.mode, model |-> model, fresh |-> ~chatRow.session,
                                 running |-> \E k \in Kinds : runsOf[k].phase # "off"]]
       /\ kept' = IF chatRow.session THEN model ELSE kept
  /\ UNCHANGED <<atHost, chatRow, runsOf, picks, stream, crossed, made>>

(* ... and withEffectiveAccess, by what is recorded when it answers.         *)
EffectiveAccess(mode) ==
  IF chatRow.mode # Unset THEN chatRow.mode ELSE IF mode # Unset THEN mode ELSE AgentMode

LoadReplies ==
  /\ desk.load = "read"
  /\ desk' = [desk EXCEPT !.load = "sent", !.answer.mode = EffectiveAccess(@)]
  /\ UNCHANGED <<atHost, chatRow, runsOf, picks, kept, stream, crossed, made>>

LoadArrives ==
  /\ desk.load = "sent"
  /\ desk' = Rendered([desk EXCEPT !.load = "none", !.answer = Desk.answer,
                         !.mode = desk.answer.mode, !.model = desk.answer.model,
                         !.running = desk.answer.running, !.fresh = desk.answer.fresh])
  /\ UNCHANGED <<atHost, chatRow, runsOf, picks, kept, stream, crossed, made>>

-----------------------------------------------------------------------------
(* A conversation that was never sent to, or one with a session.            *)
ComposerInit ==
  /\ \E bound \in BOOLEAN :
       /\ chatRow = [session |-> bound, mode |-> Unset, override |-> Unset]
       /\ atHost = [live |-> FALSE, mode |-> IF bound THEN AgentMode ELSE Unset,
                    model |-> IF bound THEN HostModel ELSE Unset]
  /\ runsOf = [k \in Kinds |-> Idle]
  /\ picks = {} /\ kept = Unset /\ desk = Desk /\ stream = <<>> /\ crossed = FALSE
  /\ made = [picks |-> 0, runs |-> 0, loads |-> 0]

ComposerNext ==
  \/ \E k \in Kinds :
       \/ RunStarts(k) \/ CreateSession(k) \/ Prompted(k) \/ ReadOverride(k)
       \/ PinOverride(k) \/ OverrideSettled(k) \/ RunEnds(k)
  \/ HostCools
  \/ \E p \in picks :
       \/ ServePick(p) \/ HostTakesPick(p) \/ HostRefusesPick(p)
       \/ ModePinned(p) \/ ModeDeferred(p) \/ ModelSelected(p) \/ PickFailed(p)
       \/ PickReturns(p)
  \/ \E mode \in Modes : PickHere("mode", mode) \/ PickElsewhere("mode", mode)
  \/ \E model \in Models : PickHere("model", model) \/ PickElsewhere("model", model)
  \/ FrameArrives \/ LoadBegins \/ LoadReads \/ LoadReplies \/ LoadArrives

ComposerSpec == ComposerInit /\ [][ComposerNext]_composerVars

-----------------------------------------------------------------------------
AtEase == (\A p \in picks : ~Setting(p)) /\ \A k \in Kinds : ~Pinning(k)

(* "The last sandbox mode pinned through the manager (source of truth for    *)
(* the permission display)" (db/schema.ts): what is recorded is what the     *)
(* host runs the session with, or what the next run will give it, through    *)
(* sleeps, failed pins and refused choices; as long as the choices come one  *)
(* at a time and the host's answers arrive.                                 *)
ChoiceIsKept ==
  (AtEase /\ ~crossed /\ chatRow.mode # Unset) =>
    chatRow.mode = IF chatRow.override # Unset THEN chatRow.override ELSE atHost.mode

(* The same without that condition.  Refuted: applyAccessOverride clears     *)
(* whatever is recorded once its own pin is there.                          *)
ChoiceIsKeptInAnyOrder ==
  (AtEase /\ chatRow.mode # Unset) =>
    chatRow.mode = IF chatRow.override # Unset THEN chatRow.override ELSE atHost.mode

(* A page at rest shows what is recorded.  Refuted: a frame that comes while *)
(* the page loads is overwritten by the answer, which was read before it.    *)
PageShowsMode ==
  (AtEase /\ desk.load = "none" /\ stream = <<>> /\ picks = {} /\ desk.mode # Unset /\ chatRow.mode # Unset)
    => desk.mode = chatRow.mode
=============================================================================

-------------------------- MODULE TemplateEditor --------------------------
(* One card of the message editor: the text the user is editing, the value  *)
(* of the query it was filled from, the save and reset requests, and the    *)
(* change stream.  A behaviour follows one card, of one of the three kinds: *)
(* a message template, a slot of the send schedule, the coordinator's id.   *)
(*                                                                          *)
(* The content of a card (title, body, colour and reactions; day and time;  *)
(* an id) is one value.  Blank stands for any content that may not be saved: *)
(* an empty title, body or reaction list, an incomplete time, no id.        *)
EXTENDS Panel

CONSTANT Contents     \* what a card may hold

Default == "default"
Blank == "blank"
Kinds == {"template", "slot", "coordinator"}

Stages == {"idle", "sent", "applied"}
Fetching == {"idle", "asked"}        \* what is not yet an answer of the query
Streams == {"connecting", "up", "broken"}

ASSUME EditorAssumption ==
    Default \in Contents /\ Blank \notin Contents /\ Fetching \cap Contents = {}

VARIABLES
    ed,     \* the card: its local state, its query and its mutations
    stored  \* what the server has stored for it

editorVars == <<ed, stored>>

CardType == [
    kind : Kinds,
    fields : Contents \cup {Blank},  \* what the inputs show
    dirty : BOOLEAN,                 \* the unsaved-changes badge
    conflict : BOOLEAN,              \* remoteConflict
    baseline : Contents,             \* baseline.current
    template : Contents,             \* the query's data
    resetOpen : BOOLEAN,             \* showResetConfirm
    save : Stages,                   \* saveMutation, and the body it sent
    body : Contents,
    reset : Stages,                  \* resetMutation
    mySave : BOOLEAN,                \* the card now on screen sent the save,
    myReset : BOOLEAN,               \* and the reset
    fetch : Fetching \cup Contents,   \* the query: the answer, once read
    failed : BOOLEAN,                \* the query's last fetch failed
    away : BOOLEAN,                  \* the user is on another page
    hidden : BOOLEAN,                \* away, or the messages' last fetch failed: no card shows
    stream : Streams,                \* the EventSource; broken is streamError
    note : BOOLEAN,                  \* a change message is on the stream
    missed : BOOLEAN]   \* history: a change the page was not told of, or did not ask for

-----------------------------------------------------------------------------
(* What each kind of card renders: the controls the user can reach.  The    *)
(* dialog covers the card.                                                  *)

\* Variant: an empty message may be saved.
TemplateControlsUnchecked ==
    {"edit"} \cup If(ed.reset = "idle", "reset") \cup If(ed.dirty, "undo")
      \cup If(ed.dirty /\ ed.save = "idle", "save")

TemplateControls ==
    {"edit"} \cup If(ed.reset = "idle", "reset") \cup If(ed.dirty, "undo")
      \cup If(ed.dirty /\ ed.fields # Blank /\ ed.save = "idle", "save")

SlotControls ==
    {"edit"} \cup If(ed.reset = "idle", "reset") \cup If(ed.dirty, "undo")
      \cup If(ed.dirty /\ ed.fields # Blank /\ ed.save = "idle", "save")

CoordinatorControls ==
    {"edit"} \cup If(ed.dirty, "undo")
      \cup If(ed.dirty /\ ed.fields # Blank /\ ed.save = "idle", "save")

\* The buttons of the dialog are not disabled while the request runs.  A bound:
\* one reset at a time is followed.
ResetDialog == {"cancel"} \cup If(ed.reset = "idle", "confirm")

Controls ==
    IF ed.hidden THEN {}
    ELSE IF ed.resetOpen THEN ResetDialog
    ELSE CASE ed.kind = "template" -> TemplateControls
           [] ed.kind = "slot" -> SlotControls
           [] ed.kind = "coordinator" -> CoordinatorControls

-----------------------------------------------------------------------------
(* What a card does with a newer value of its query, with Undo, and when    *)
(* its requests succeed.                                                    *)

Fill(e, t) == [e EXCEPT !.fields = t, !.baseline = t, !.dirty = FALSE, !.conflict = FALSE]

\* The effect on [template]: fill the inputs, or flag the conflict and leave what
\* the user typed.
SyncTemplate(e, t) ==
    IF ~e.dirty THEN Fill(e, t) ELSE [e EXCEPT !.conflict = @ \/ t # e.baseline]

SyncSlot(e, t) == IF ~e.dirty THEN Fill(e, t) ELSE e
SyncCoordinator(e, t) == IF ~e.dirty THEN [e EXCEPT !.fields = t] ELSE e

\* Variant: the effect fills the inputs whatever the user is doing.
SyncFromServerAlways(e, t) == IF t = ed.template THEN e ELSE Fill(e, t)

\* The effect runs only when the data changed.
SyncFromServer(e, t) ==
    IF t = ed.template THEN e
    ELSE CASE e.kind = "template" -> SyncTemplate(e, t)
           [] e.kind = "slot" -> SyncSlot(e, t)
           [] e.kind = "coordinator" -> SyncCoordinator(e, t)

\* handleUndo: back to the latest server value.
UndoTemplate(e) == Fill(e, e.template)
UndoSlot(e) == [e EXCEPT !.fields = e.template, !.baseline = e.template, !.dirty = FALSE]
UndoCoordinator(e) == [e EXCEPT !.fields = e.template, !.dirty = FALSE]

\* saveMutation.onSuccess: whatever was typed since, the card is clean.
TemplateSaved(e) == [e EXCEPT !.dirty = FALSE, !.conflict = FALSE]
SlotSaved(e) == [e EXCEPT !.dirty = FALSE]
CoordinatorSaved(e) == [e EXCEPT !.dirty = FALSE]

\* resetMutation.onSuccess.
TemplateWasReset(e) == [e EXCEPT !.dirty = FALSE, !.conflict = FALSE, !.resetOpen = FALSE]
SlotWasReset(e) == [e EXCEPT !.dirty = FALSE, !.resetOpen = FALSE]

-----------------------------------------------------------------------------
(* The user.                                                                *)

\* handleTitleChange, handleBodyChange, handleColorChange, handleAddReaction,
\* handleRemoveReaction, and their like on the other cards.
EditCard(c) ==
    /\ "edit" \in Controls
    /\ ed' = [ed EXCEPT !.fields = c, !.dirty = TRUE]
    /\ UNCHANGED stored

SaveCard ==
    /\ "save" \in Controls
    /\ ed' = [ed EXCEPT !.save = "sent", !.body = ed.fields, !.mySave = TRUE]
    /\ UNCHANGED stored

UndoCard ==
    /\ "undo" \in Controls
    /\ ed' = CASE ed.kind = "template" -> UndoTemplate(ed)
               [] ed.kind = "slot" -> UndoSlot(ed)
               [] ed.kind = "coordinator" -> UndoCoordinator(ed)
    /\ UNCHANGED stored

OpenReset ==
    /\ "reset" \in Controls
    /\ ed' = [ed EXCEPT !.resetOpen = TRUE]
    /\ UNCHANGED stored

CancelReset ==
    /\ "cancel" \in Controls
    /\ ed' = [ed EXCEPT !.resetOpen = FALSE]
    /\ UNCHANGED stored

ConfirmReset ==
    /\ "confirm" \in Controls
    /\ ed' = [ed EXCEPT !.reset = "sent", !.myReset = TRUE]
    /\ UNCHANGED stored

-----------------------------------------------------------------------------
(* The server, and its answers.                                             *)

\* Every write of a template or a slot is published to the stream; a new
\* coordinator is not, though the page asks for it again on any message.
Published(e) == e.kind # "coordinator" /\ e.stream = "up"

\* A fetch that the server has not read yet will find the change.
Missed(e) == [e EXCEPT !.missed = @ \/ e.fetch # "asked"]

Written(e) == IF Published(e) THEN [e EXCEPT !.note = TRUE] ELSE Missed(e)

ApplySave ==
    /\ ed.save = "sent"
    /\ stored' = ed.body
    /\ ed' = Written([ed EXCEPT !.save = "applied"])

ApplyReset ==
    /\ ed.reset = "sent"
    /\ stored' = Default
    /\ ed' = Written([ed EXCEPT !.reset = "applied"])

OthersWrite(c) ==
    /\ c # stored
    /\ stored' = c
    /\ ed' = Written(ed)

\* The component that uses the query is on the screen: the page itself uses the
\* messages, the cards the schedule and the coordinator.
Observed(e) == IF e.kind = "template" THEN ~e.away ELSE ~e.hidden

\* Variant: a request on its way answers for what comes after it.
AskMessagesJoins(e) ==
    IF Observed(e) /\ e.fetch = "idle" THEN [e EXCEPT !.fetch = "asked", !.missed = FALSE] ELSE e

\* invalidateQueries: a query is asked anew only while it is used, and otherwise
\* when it is used again.
AskMessages(e) ==
    IF Observed(e) THEN [e EXCEPT !.fetch = "asked", !.missed = FALSE] ELSE Missed(e)

\* A query that is used again is asked anew, unless a fetch is still on its way:
\* its answer will do, whatever it has read.
UseAgain(e) == IF e.fetch = "idle" THEN [e EXCEPT !.fetch = "asked", !.missed = FALSE] ELSE e

\* Only the card that sent it is told: a card mounted since keeps its badge.
SaveAnswers ==
    /\ ed.save = "applied"
    /\ LET e == AskMessages([ed EXCEPT !.save = "idle"])
       IN ed' = IF ~ed.mySave THEN e
                ELSE CASE ed.kind = "template" -> TemplateSaved(e)
                       [] ed.kind = "slot" -> SlotSaved(e)
                       [] ed.kind = "coordinator" -> CoordinatorSaved(e)
    /\ UNCHANGED stored

\* The request or its answer is lost; the card says so and stays dirty.
SaveFails ==
    /\ ed.save # "idle"
    /\ ed' = [ed EXCEPT !.save = "idle"]
    /\ UNCHANGED stored

ResetAnswers ==
    /\ ed.reset = "applied"
    /\ LET e == AskMessages([ed EXCEPT !.reset = "idle"])
       IN ed' = IF ~ed.myReset THEN e
                ELSE IF ed.kind = "template" THEN TemplateWasReset(e) ELSE SlotWasReset(e)
    /\ UNCHANGED stored

ResetFails ==
    /\ ed.reset # "idle"
    /\ ed' = [ed EXCEPT !.reset = "idle"]
    /\ UNCHANGED stored

\* Nothing tells what was written while the stream was connecting.
StreamOpens ==
    /\ ~ed.away /\ ed.stream = "connecting"
    /\ ed' = [ed EXCEPT !.stream = "up"]
    /\ UNCHANGED stored

\* The stream's onmessage invalidates the query; its onerror closes it for good.
StreamMessage ==
    /\ ed.note
    /\ ed' = AskMessages([ed EXCEPT !.note = FALSE])
    /\ UNCHANGED stored

\* A message that does not arrive.
NoteLost(e) == IF e.note THEN [Missed(e) EXCEPT !.note = FALSE] ELSE e

StreamBreaks ==
    /\ ~ed.away /\ ed.stream # "broken"
    /\ ed' = [NoteLost(ed) EXCEPT !.stream = "broken"]
    /\ UNCHANGED stored

\* A change of a template or a slot that this card does not show.
OtherMessage ==
    /\ ~ed.note /\ ed.stream = "up"
    /\ ed' = [ed EXCEPT !.note = TRUE]
    /\ UNCHANGED stored

\* The query library asks again when the window gets the focus.
WindowFocus ==
    /\ ed.fetch = "idle" /\ Observed(ed)
    /\ ed' = AskMessages(ed)
    /\ UNCHANGED stored

QueryRead ==
    /\ ed.fetch = "asked"
    /\ ed' = [ed EXCEPT !.fetch = stored]
    /\ UNCHANGED stored

\* A message card that was hidden is a new card.
QueryAnswers ==
    /\ ed.fetch \in Contents
    /\ LET e == [ed EXCEPT !.fetch = "idle", !.failed = FALSE, !.template = ed.fetch]
       IN ed' = IF ~ed.hidden THEN SyncFromServer(e, ed.fetch)
                ELSE [Fill(e, ed.fetch) EXCEPT !.hidden = ~Observed(ed)]
    /\ UNCHANGED stored

\* The messages could not be fetched, or the page is left: every card is unmounted,
\* and what was typed into it is gone; a request on its way no longer belongs to a
\* card.
Unmounted(e) ==
    [Fill(e, e.template) EXCEPT !.hidden = TRUE, !.resetOpen = FALSE,
                                !.mySave = FALSE, !.myReset = FALSE]

\* A fetch and its retries fail.
QueryFails ==
    /\ ed.fetch # "idle"
    /\ LET e == [ed EXCEPT !.fetch = "idle", !.failed = TRUE]
       IN ed' = IF ed.kind = "template" THEN Unmounted(e) ELSE e
    /\ UNCHANGED stored

\* The schedule and the coordinator disappear with the messages.
MessagesFail ==
    /\ ed.kind # "template" /\ ~ed.hidden
    /\ ed' = Unmounted(ed)
    /\ UNCHANGED stored

MessagesReturn ==
    /\ ed.kind # "template" /\ ed.hidden /\ ~ed.away
    /\ ed' = [UseAgain(ed) EXCEPT !.hidden = FALSE]
    /\ UNCHANGED stored

\* The page closes its stream when it is left, and opens another on its return.
LeavePage ==
    /\ ~ed.away
    /\ ed' = [NoteLost(Unmounted(ed)) EXCEPT !.away = TRUE, !.stream = "connecting"]
    /\ UNCHANGED stored

\* The messages are there at once, unless their last fetch failed.
ReturnToPage ==
    /\ ed.away
    /\ ed' = IF ed.kind = "template"
              THEN [UseAgain(ed) EXCEPT !.away = FALSE, !.hidden = ed.failed]
              ELSE [ed EXCEPT !.away = FALSE]
    /\ UNCHANGED stored

-----------------------------------------------------------------------------
EditorInit ==
    /\ stored = Default
    /\ ed \in [kind : Kinds, fields : {Default}, dirty : {FALSE}, conflict : {FALSE},
               baseline : {Default}, template : {Default}, resetOpen : {FALSE},
               save : {"idle"}, body : {Default}, reset : {"idle"},
               mySave : {FALSE}, myReset : {FALSE},
               fetch : {"idle"}, failed : {FALSE}, away : {FALSE}, hidden : {FALSE},
               stream : {"connecting"}, note : {FALSE}, missed : {FALSE}]

EditorNext ==
    \/ \E c \in Contents \cup {Blank} : EditCard(c)
    \/ SaveCard \/ UndoCard \/ OpenReset \/ CancelReset \/ ConfirmReset
    \/ ApplySave \/ ApplyReset \/ \E c \in Contents : OthersWrite(c)
    \/ SaveAnswers \/ SaveFails \/ ResetAnswers \/ ResetFails
    \/ OtherMessage \/ StreamOpens \/ StreamMessage \/ StreamBreaks \/ WindowFocus
    \/ QueryRead \/ QueryAnswers \/ QueryFails \/ MessagesFail \/ MessagesReturn
    \/ LeavePage \/ ReturnToPage

EditorSpec == EditorInit /\ [][EditorNext]_editorVars

-----------------------------------------------------------------------------
EditorTypeOK == ed \in CardType /\ stored \in Contents

\* While the badge shows, only the user replaces the text, by typing or by Undo,
\* or the page that loses its messages: "in that case just flag the conflict so
\* we don't silently clobber what they're typing" (the effect on [template]).
TypedTextStands ==
    [][ed.dirty /\ ed'.fields # ed.fields =>
          \/ ed'.dirty
          \/ "undo" \in Controls /\ ed'.fields = ed.template
          \/ ed'.hidden]_editorVars

\* When no fetch is running and none failed, and no message is on the stream, the
\* query holds what is stored: a save, a reset and other people's changes all get
\* to it, in whatever order their answers and messages come.  The exceptions are
\* changes the page was not told of (the stream was not up, or the coordinator's id
\* changed elsewhere), or was told of while it did not show the card, until it asks
\* anew: a card that comes back while a fetch is on its way does not.
QueryIsCurrent ==
    ed.fetch = "idle" /\ ~ed.failed /\ ~ed.note /\ ~ed.missed => ed.template = stored
=============================================================================

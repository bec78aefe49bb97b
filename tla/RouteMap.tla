------------------------------ MODULE RouteMap ------------------------------
(* The maps of the route builder: the line and the durations a routing       *)
(* service gives for the stops, the label preference of the user, and the    *)
(* fullscreen map, which is mounted, shown, hidden and unmounted in turn.    *)
EXTENDS Naturals, Panel

CONSTANTS
    Trips,        \* lists of two or more stops
    MaxPatches    \* bound: preference requests of one value on their way

NoTrip == "few"   \* fewer than two stops, or none of them has coordinates

ASSUME MapAssumption == NoTrip \notin Trips /\ MaxPatches \in Nat

VARIABLES
    line,     \* useRouteGeometry
    label,    \* the label preference
    full      \* the fullscreen map

mapVars == <<line, label, full>>

LineType == [
    trip : Trips \cup {NoTrip},      \* the stops selected
    shown : Trips \cup {NoTrip},     \* the stops the line and the durations are for
    asked : SUBSET Trips,            \* requests on their way; that for trip is heard
    error : BOOLEAN]

LabelType == [
    shown : BOOLEAN,                         \* showLocationLabels
    data : BOOLEAN,                          \* the query's data
    stored : BOOLEAN,                        \* the server's
    sent : [BOOLEAN -> 0..MaxPatches],       \* requests the server has not seen
    answered : [BOOLEAN -> 0..MaxPatches],   \* answers on their way
    failed : BOOLEAN]                        \* one of the requests failed

FullType == [
    mounted : BOOLEAN, visible : BOOLEAN,
    frames : 0..2,          \* animation frames until the map becomes visible
    painted : BOOLEAN,      \* the opacity the browser computed last
    moving : BOOLEAN,       \* a transition of the opacity runs
    sheet : BOOLEAN,        \* isSheetExpanded
    panel : BOOLEAN]        \* isPanelExpanded

-----------------------------------------------------------------------------
(* What is rendered.                                                        *)

PanelToggles == If(full.mounted, "labels") \cup If(full.mounted, "panel")
SheetToggles == If(full.mounted, "labels") \cup If(full.mounted, "sheet")
Overlay == If(full.mounted, "back") \cup If(full.mounted, "escape")
Widget == {"expand"}
MapControls == PanelToggles \cup SheetToggles \cup Overlay \cup Widget

-----------------------------------------------------------------------------
(* The line.  Other stops unmount the effect of the last request; what it    *)
(* answers is dropped, while the line it drew stays until there is another.  *)

SelectTrip(t) ==
    /\ t # line.trip
    /\ line' = [line EXCEPT !.trip = t, !.asked = @ \cup ({t} \ {NoTrip}),
                            !.shown = IF t = NoTrip THEN NoTrip ELSE @]
    /\ UNCHANGED <<label, full>>

\* Variant: an answer is taken even if its effect was unmounted.
LineArrivesLate(t) ==
    /\ t \in line.asked
    /\ line' = [line EXCEPT !.asked = @ \ {t}, !.shown = t]
    /\ UNCHANGED <<label, full>>

LineArrives(t) ==
    /\ t \in line.asked
    /\ line' = [line EXCEPT !.asked = @ \ {t}, !.shown = IF t = line.trip THEN t ELSE @]
    /\ UNCHANGED <<label, full>>

\* The service has no route or refuses: the line before is kept, in silence.
NoLine(t) ==
    /\ t \in line.asked
    /\ line' = [line EXCEPT !.asked = @ \ {t}]
    /\ UNCHANGED <<label, full>>

\* The network fails: an error is shown, and never cleared.
LineFails(t) ==
    /\ t \in line.asked
    /\ line' = [line EXCEPT !.asked = @ \ {t}, !.error = @ \/ t = line.trip]
    /\ UNCHANGED <<label, full>>

-----------------------------------------------------------------------------
(* The preference: shown at once, sent, and taken over from the answer.      *)

ToggleLabels ==
    /\ "labels" \in MapControls
    /\ label.sent[~label.shown] + label.answered[~label.shown] < MaxPatches
    /\ label' = [label EXCEPT !.shown = ~@, !.sent[~label.shown] = @ + 1]
    /\ UNCHANGED <<line, full>>

ApplyLabels(b) ==
    /\ label.sent[b] > 0
    /\ label' = [label EXCEPT !.sent[b] = @ - 1, !.answered[b] = @ + 1, !.stored = b]
    /\ UNCHANGED <<line, full>>

\* Variant: the answer is written to the cache, which the effect does not watch.
LabelsAnswerUnseen(b) ==
    /\ label.answered[b] > 0
    /\ label' = [label EXCEPT !.answered[b] = @ - 1, !.data = b]
    /\ UNCHANGED <<line, full>>

\* setQueryData; the effect follows data that changed.
LabelsAnswer(b) ==
    /\ label.answered[b] > 0
    /\ label' = [label EXCEPT !.answered[b] = @ - 1, !.data = b,
                              !.shown = IF b # label.data THEN b ELSE @]
    /\ UNCHANGED <<line, full>>

LabelsFail(b) ==
    /\ \/ label.sent[b] > 0 /\ label' = [label EXCEPT !.sent[b] = @ - 1, !.failed = TRUE]
       \/ label.answered[b] > 0 /\ label' = [label EXCEPT !.answered[b] = @ - 1, !.failed = TRUE]
    /\ UNCHANGED <<line, full>>

-----------------------------------------------------------------------------
(* The fullscreen map.                                                      *)

OpenFullscreen ==
    /\ "expand" \in MapControls
    /\ full' = [full EXCEPT !.mounted = TRUE, !.frames = 2]
    /\ UNCHANGED <<line, label>>

Frame ==
    /\ full.frames > 0
    /\ full' = [full EXCEPT !.frames = @ - 1, !.visible = @ \/ full.frames = 1]
    /\ UNCHANGED <<line, label>>

\* The back button, or Escape.
CloseFullscreen ==
    /\ {"back", "escape"} \cap MapControls # {}
    /\ full' = [full EXCEPT !.visible = FALSE]
    /\ UNCHANGED <<line, label>>

\* The browser computes the styles; another opacity starts a transition.
Paint ==
    /\ full.mounted /\ full.painted # full.visible
    /\ full' = [full EXCEPT !.painted = full.visible, !.moving = TRUE]
    /\ UNCHANGED <<line, label>>

\* onTransitionEnd; a transition outlasts the two frames.
TransitionEnds ==
    /\ full.moving /\ full.frames = 0
    /\ full' = IF full.visible THEN [full EXCEPT !.moving = FALSE]
               ELSE [full EXCEPT !.moving = FALSE, !.mounted = FALSE, !.sheet = FALSE,
                                 !.painted = FALSE]
    /\ UNCHANGED <<line, label>>

ToggleSheet ==
    /\ "sheet" \in MapControls
    /\ full' = [full EXCEPT !.sheet = ~@]
    /\ UNCHANGED <<line, label>>

TogglePanel ==
    /\ "panel" \in MapControls
    /\ full' = [full EXCEPT !.panel = ~@]
    /\ UNCHANGED <<line, label>>

-----------------------------------------------------------------------------
MapInit ==
    /\ line = [trip |-> NoTrip, shown |-> NoTrip, asked |-> {}, error |-> FALSE]
    /\ \E b \in BOOLEAN :
          label = [shown |-> b, data |-> b, stored |-> b, sent |-> [c \in BOOLEAN |-> 0],
                   answered |-> [c \in BOOLEAN |-> 0], failed |-> FALSE]
    /\ full = [mounted |-> FALSE, visible |-> FALSE, frames |-> 0, painted |-> FALSE,
               moving |-> FALSE, sheet |-> FALSE, panel |-> TRUE]

MapNext ==
    \/ \E t \in Trips \cup {NoTrip} : SelectTrip(t)
    \/ \E t \in Trips : LineArrives(t) \/ NoLine(t) \/ LineFails(t)
    \/ ToggleLabels
    \/ \E b \in BOOLEAN : ApplyLabels(b) \/ LabelsAnswer(b) \/ LabelsFail(b)
    \/ OpenFullscreen \/ Frame \/ CloseFullscreen \/ Paint \/ TransitionEnds
    \/ ToggleSheet \/ TogglePanel

MapSpec == MapInit /\ [][MapNext]_mapVars

-----------------------------------------------------------------------------
MapTypeOK == line \in LineType /\ label \in LabelType /\ full \in FullType

\* A line that appears is the line of the stops selected now: a late answer for
\* other stops never replaces it, in whatever order the answers come.
NewestLine == [][line'.shown # line.shown => line'.shown = line'.trip]_mapVars

\* Once every change of the preference is answered, and none failed, the labels
\* are shown as the answers left it, however fast the user changed their mind.
LabelsAgree ==
    ~label.failed /\ (\A b \in BOOLEAN : label.sent[b] + label.answered[b] = 0)
        => label.shown = label.data
=============================================================================

---------------------------- MODULE LocationsPage ----------------------------
(* The page that manages the pickup locations: the map with its modes and    *)
(* dialogs, the table of locations, the list of travel times and the         *)
(* settings.  Its data is one query, which other coordinators' changes reach *)
(* at any refetch: what is being done on the page may be about locations     *)
(* that are gone.                                                            *)
EXTENDS FiniteSets, Panel

CONSTANT Spots            \* ids of locations

Nobody == "no location"
NewSpot == "new"
ASSUME SpotAssumption == Nobody \notin Spots /\ NewSpot \notin Spots

\* A travel time is kept for a pair of locations in either order (normalizedPair).
Pair(a, b) == {a, b}
Pairs == {Pair(a, b) : a \in Spots, b \in Spots}
Joins == {p \in Pairs : Cardinality(p) = 2}
NoPair == {}

Minutes == {"none", "wrong", "right"}      \* a field that takes minutes
Adjustments == {"short", "long"}          \* minutes added per stop
Draft == Adjustments \cup {"wrong"}

\* One mutation each; what its success closes, while it is the latest request.
Mutations == {"create", "update", "remove", "upsert edge", "delete edge", "adjust", "map"}

VARIABLES
    seen,      \* the query's data
    map,       \* the map and the dialogs
    times,     \* the list of travel times
    setting,   \* the settings
    busy       \* per mutation, whether its latest request is pending, and what it closes

pageVars == <<seen, map, times, setting, busy>>

SeenType == [
    ok : BOOLEAN,                       \* FALSE: the last fetch failed
    known : SUBSET Spots,
    active : SUBSET Spots,
    edges : SUBSET Joins,
    adjust : Adjustments,
    mapped : Spots]                     \* where one living location is picked up

MapType == [
    mode : {"view", "add-location", "add-edge"},
    pending : Spots \cup {Nobody},      \* pendingEdgeStartId
    inactive : BOOLEAN,                 \* showInactive
    form : Spots \cup {NewSpot, Nobody},
    fields : {"wrong", "right"},        \* the fields of the form
    edge : Joins \cup {NoPair},         \* the pair of the edge dialog
    saved : BOOLEAN,                    \* edgeId # null
    minutes : Minutes,
    target : Spots \cup {Nobody}]       \* deleteTarget

TimesType == [
    editing : Joins \cup {NoPair}, editMinutes : Minutes,
    newA : Spots \cup {Nobody}, newB : Spots \cup {Nobody}, newMinutes : Minutes]

NoTimes == [editing |-> NoPair, editMinutes |-> "none",
            newA |-> Nobody, newB |-> Nobody, newMinutes |-> "none"]
NoMap == [mode |-> "view", pending |-> Nobody, inactive |-> FALSE, form |-> Nobody,
          fields |-> "wrong", edge |-> NoPair, saved |-> FALSE, minutes |-> "none",
          target |-> Nobody]

PendingOf(ms) == \E m \in ms : busy[m] # "idle"
Ask(m, closes) == [busy EXCEPT ![m] = IF closes THEN "closes" ELSE "quiet"]

-----------------------------------------------------------------------------
(* What is rendered.  An open dialog covers the page.                       *)

DialogOpen == map.form # Nobody \/ map.edge # NoPair \/ map.target # Nobody
PageUsable == seen.ok /\ ~DialogOpen

ModeControls == If(PageUsable, "mode") \cup If(PageUsable, "inactive")

\* The markers that are shown, and what a marker offers in each mode.
MarkerControls(s) ==
    IF ~PageUsable \/ s \notin seen.known \/ (s \notin seen.active /\ ~map.inactive) THEN {}
    ELSE If(map.mode = "add-edge", "join")
         \cup (IF map.mode = "view" THEN {"edit", "toggle", "delete"} ELSE {})

LineControls(p) ==
    If(PageUsable /\ p \in seen.edges /\ p \subseteq seen.known
       /\ (map.inactive \/ p \subseteq seen.active) /\ map.mode = "view", "open")

\* The inactive ones are listed too, in a section of their own.
RowControls(s) == IF PageUsable /\ s \in seen.known THEN {"edit", "toggle", "delete"} ELSE {}

TableControls == If(PageUsable, "add")

LocationFormControls ==
    IF ~seen.ok \/ map.form = Nobody THEN {}
    ELSE {"type", "cancel"} \cup If(~PendingOf({"create", "update"}), "submit")

\* Enter saves while the buttons are disabled.
EdgeDialogControls ==
    IF ~seen.ok \/ map.edge = NoPair THEN {}
    ELSE {"type", "cancel", "save"}
           \cup If(map.saved /\ ~PendingOf({"upsert edge", "delete edge"}), "delete")

DeleteDialogControls == IF seen.ok /\ map.target # Nobody THEN {"delete", "cancel"} ELSE {}

CanAdd == times.newA # Nobody /\ times.newB # Nobody /\ times.newA # times.newB
             /\ times.newMinutes = "right"

\* Enter saves and adds while the buttons are disabled.
TimesControls ==
    IF ~PageUsable THEN {}
    ELSE {"from", "to", "minutes"} \cup If(times.editing \in seen.edges, "edit minutes")
           \cup If(times.editMinutes = "right" /\ times.editing \in seen.edges, "save")
           \cup If(~PendingOf({"upsert edge", "delete edge"}), "delete")
           \cup If(CanAdd, "add")

SettingControls ==
    IF ~PageUsable THEN {}
    ELSE {"adjustment"}
           \cup If(setting \in Adjustments /\ setting # seen.adjust /\ ~PendingOf({"adjust"}), "save")
           \cup If(~PendingOf({"map"}), "choose")

-----------------------------------------------------------------------------
(* The map.                                                                 *)

OnMap(field) == map' = field /\ UNCHANGED <<seen, times, setting>>

\* Variant: the marker chosen first is kept.
SwitchModeKeeps(next) ==
    /\ "mode" \in ModeControls
    /\ OnMap([map EXCEPT !.mode = IF @ = next THEN "view" ELSE next]) /\ UNCHANGED busy

SwitchMode(next) ==
    /\ "mode" \in ModeControls
    /\ OnMap([map EXCEPT !.mode = IF @ = next THEN "view" ELSE next, !.pending = Nobody])
    /\ UNCHANGED busy

ShowInactive ==
    /\ "inactive" \in ModeControls
    /\ OnMap([map EXCEPT !.inactive = ~@]) /\ UNCHANGED busy

MapClick ==
    /\ PageUsable /\ map.mode = "add-location"
    /\ OnMap([map EXCEPT !.form = NewSpot, !.fields = "wrong", !.mode = "view"]) /\ UNCHANGED busy

OpenEdge(m, p, saved) ==
    [m EXCEPT !.edge = p, !.saved = saved, !.minutes = IF saved THEN "right" ELSE "none"]

\* Variant: a start that is no longer known is joined all the same.
MarkerClickUnknown(s) ==
    /\ "join" \in MarkerControls(s)
    /\ OnMap(CASE map.pending = Nobody -> [map EXCEPT !.pending = s]
             []   map.pending = s -> [map EXCEPT !.pending = Nobody]
             []   OTHER ->
                    [OpenEdge(map, Pair(map.pending, s), Pair(map.pending, s) \in seen.edges)
                       EXCEPT !.pending = Nobody, !.mode = "view"])
    /\ UNCHANGED busy

\* The first marker is remembered, the second opens the dialog of their pair;
\* the first may have been deleted in between.
MarkerClick(s) ==
    /\ "join" \in MarkerControls(s)
    /\ OnMap(CASE map.pending = Nobody -> [map EXCEPT !.pending = s]
             []   map.pending = s \/ map.pending \notin {Nobody} \cup seen.known ->
                    [map EXCEPT !.pending = Nobody]
             []   OTHER ->
                    [OpenEdge(map, Pair(map.pending, s), Pair(map.pending, s) \in seen.edges)
                       EXCEPT !.pending = Nobody, !.mode = "view"])
    /\ UNCHANGED busy

EdgeClick(p) ==
    /\ "open" \in LineControls(p)
    /\ OnMap(OpenEdge(map, p, TRUE)) /\ UNCHANGED busy

-----------------------------------------------------------------------------
(* The locations, from their markers and from the table.                    *)

OpenLocation(s) ==
    /\ IF s = NewSpot THEN "add" \in TableControls
                      ELSE "edit" \in MarkerControls(s) \cup RowControls(s)
    /\ OnMap([map EXCEPT !.form = s, !.fields = IF s = NewSpot THEN "wrong" ELSE "right"])
    /\ UNCHANGED busy

TypeLocation(fields) ==
    /\ "type" \in LocationFormControls
    /\ OnMap([map EXCEPT !.fields = fields]) /\ UNCHANGED busy

CloseLocation ==
    /\ "cancel" \in LocationFormControls
    /\ OnMap([map EXCEPT !.form = Nobody]) /\ UNCHANGED busy

\* handleSubmit: fields that are not right are shown as errors.
SubmitLocation ==
    /\ "submit" \in LocationFormControls
    /\ map.fields = "right"
    /\ busy' = Ask(IF map.form = NewSpot THEN "create" ELSE "update", TRUE)
    /\ UNCHANGED <<seen, map, times, setting>>

ToggleActive(s) ==
    /\ "toggle" \in MarkerControls(s) \cup RowControls(s)
    /\ busy' = Ask("update", FALSE)
    /\ UNCHANGED <<seen, map, times, setting>>

TargetLocation(s) ==
    /\ "delete" \in MarkerControls(s) \cup RowControls(s)
    /\ OnMap([map EXCEPT !.target = s]) /\ UNCHANGED busy

DeleteLocation(yes) ==
    /\ DeleteDialogControls # {}
    /\ OnMap([map EXCEPT !.target = Nobody])
    /\ busy' = IF yes THEN Ask("remove", FALSE) ELSE busy

-----------------------------------------------------------------------------
(* The edge dialog.                                                         *)

TypeEdge(minutes) ==
    /\ "type" \in EdgeDialogControls
    /\ OnMap([map EXCEPT !.minutes = minutes]) /\ UNCHANGED busy

CloseEdge ==
    /\ "cancel" \in EdgeDialogControls
    /\ OnMap([map EXCEPT !.edge = NoPair]) /\ UNCHANGED busy

SaveEdge ==
    /\ "save" \in EdgeDialogControls /\ map.minutes = "right"
    /\ busy' = Ask("upsert edge", TRUE)
    /\ UNCHANGED <<seen, map, times, setting>>

DeleteEdge ==
    /\ "delete" \in EdgeDialogControls
    /\ busy' = Ask("delete edge", TRUE)
    /\ UNCHANGED <<seen, map, times, setting>>

-----------------------------------------------------------------------------
(* The list of travel times.                                                *)

OnTimes(field) == times' = field /\ UNCHANGED <<seen, map, setting>>

StartEditing(p) ==
    /\ TimesControls # {} /\ p \in seen.edges
    /\ OnTimes([times EXCEPT !.editing = p, !.editMinutes = "right"]) /\ UNCHANGED busy

EditMinutes(minutes) ==
    /\ "edit minutes" \in TimesControls
    /\ OnTimes([times EXCEPT !.editMinutes = minutes]) /\ UNCHANGED busy

StopEditing ==
    /\ "edit minutes" \in TimesControls
    /\ OnTimes([times EXCEPT !.editing = NoPair]) /\ UNCHANGED busy

SaveMinutes ==
    /\ "save" \in TimesControls
    /\ OnTimes([times EXCEPT !.editing = NoPair])
    /\ busy' = Ask("upsert edge", FALSE)

DropTime(p) ==
    /\ "delete" \in TimesControls /\ p \in seen.edges \ {times.editing}
    /\ busy' = Ask("delete edge", FALSE)
    /\ UNCHANGED <<seen, map, times, setting>>

\* The second list leaves the first choice out; the first one offers all.
ChooseStops(s) ==
    /\ TimesControls # {} /\ s \in seen.known \cap seen.active
    /\ \/ OnTimes([times EXCEPT !.newA = s])
       \/ s # times.newA /\ OnTimes([times EXCEPT !.newB = s])
    /\ UNCHANGED busy

TypeMinutes(minutes) ==
    /\ "minutes" \in TimesControls
    /\ OnTimes([times EXCEPT !.newMinutes = minutes]) /\ UNCHANGED busy

AddTime ==
    /\ "add" \in TimesControls
    /\ OnTimes([times EXCEPT !.newA = Nobody, !.newB = Nobody, !.newMinutes = "none"])
    /\ busy' = Ask("upsert edge", FALSE)

-----------------------------------------------------------------------------
(* The settings.                                                            *)

TypeAdjustment(d) ==
    /\ "adjustment" \in SettingControls
    /\ setting' = d
    /\ UNCHANGED <<seen, map, times, busy>>

SaveAdjustment ==
    /\ "save" \in SettingControls
    /\ busy' = Ask("adjust", FALSE)
    /\ UNCHANGED <<seen, map, times, setting>>

\* The list of a living location offers the active spots and its own.
SetMapping(s) ==
    /\ "choose" \in SettingControls
    /\ s # seen.mapped /\ s \in seen.known \cap seen.active
    /\ busy' = Ask("map", FALSE)
    /\ UNCHANGED <<seen, map, times, setting>>

-----------------------------------------------------------------------------
(* Answers.                                                                 *)

\* Closed by the answer to the latest request of the mutation, whatever is open.
Closed(m) ==
    CASE m \in {"create", "update"} -> [map EXCEPT !.form = Nobody]
    []   m \in {"upsert edge", "delete edge"} -> [map EXCEPT !.edge = NoPair]
    []   OTHER -> map

Succeeds(m) ==
    /\ busy[m] # "idle"
    /\ busy' = [busy EXCEPT ![m] = "idle"]
    /\ map' = IF busy[m] = "closes" THEN Closed(m) ELSE map
    /\ UNCHANGED <<seen, times, setting>>

Refused(m) ==
    /\ busy[m] # "idle"
    /\ busy' = [busy EXCEPT ![m] = "idle"]
    /\ UNCHANGED <<seen, map, times, setting>>

\* The query answers: after a mutation, on focus, at any time with anything that
\* the coordinators made of the locations.  After a failure the sections were
\* unmounted, and start anew; what the page itself keeps is still open.
DataArrives(new) ==
    /\ new.ok
    /\ seen' = new
    /\ setting' = IF ~seen.ok \/ new.adjust # seen.adjust THEN new.adjust ELSE setting
    /\ times' = IF seen.ok THEN times ELSE NoTimes
    /\ map' = IF seen.ok THEN map
              ELSE [map EXCEPT !.fields = IF map.form \in {NewSpot, Nobody} THEN "wrong" ELSE "right",
                               !.minutes = IF map.saved THEN "right" ELSE "none"]
    /\ UNCHANGED busy

FetchFails ==
    /\ seen' = [seen EXCEPT !.ok = FALSE]
    /\ UNCHANGED <<map, times, setting, busy>>

\* Only a role that may manage locations is shown the page.
PageInit ==
    /\ seen \in {d \in SeenType : d.ok /\ d.active \subseteq d.known}
    /\ map = NoMap
    /\ times = NoTimes
    /\ setting = seen.adjust
    /\ busy = [m \in Mutations |-> "idle"]

PageNext ==
    \/ \E mode \in {"add-location", "add-edge"} : SwitchMode(mode)
    \/ ShowInactive \/ MapClick
    \/ \E s \in Spots : \/ MarkerClick(s) \/ ToggleActive(s) \/ TargetLocation(s)
                        \/ ChooseStops(s) \/ SetMapping(s)
    \/ \E p \in Joins : EdgeClick(p) \/ StartEditing(p) \/ DropTime(p)
    \/ \E s \in Spots \cup {NewSpot} : OpenLocation(s)
    \/ \E fields \in {"wrong", "right"} : TypeLocation(fields)
    \/ CloseLocation \/ SubmitLocation \/ \E yes \in BOOLEAN : DeleteLocation(yes)
    \/ \E m \in Minutes : TypeEdge(m) \/ EditMinutes(m) \/ TypeMinutes(m)
    \/ CloseEdge \/ SaveEdge \/ DeleteEdge
    \/ StopEditing \/ SaveMinutes \/ AddTime
    \/ \E d \in Draft : TypeAdjustment(d)
    \/ SaveAdjustment
    \/ \E m \in Mutations : Succeeds(m) \/ Refused(m)
    \/ \E d \in SeenType : d.active \subseteq d.known /\ DataArrives(d)
    \/ FetchFails

PageSpec == PageInit /\ [][PageNext]_pageVars

-----------------------------------------------------------------------------
PageTypeOK ==
    /\ seen \in SeenType
    /\ map \in MapType
    /\ times \in TimesType
    /\ setting \in Draft
    /\ busy \in [Mutations -> {"idle", "quiet", "closes"}]

\* The first marker of a new travel time is remembered only in the mode that asks for
\* the second, and no longer once the dialog of a pair is open: no step, of the map or
\* of the table, takes it to another mode.  The dialogs of the table may open over the
\* hint, and the marker is remembered meanwhile.
PendingOnlyWhileAdding ==
    /\ map.pending # Nobody => map.mode = "add-edge"
    /\ map.edge # NoPair => map.pending = Nobody

\* The dialog of a travel time opens for two locations that are known at that
\* moment, and says "new" exactly when they are not connected yet, although the
\* first of them was chosen from other data.
DialogKnowsItsPair ==
    [][map.edge # map'.edge /\ map'.edge # NoPair =>
         map'.edge \subseteq seen.known /\ map'.saved = (map'.edge \in seen.edges)]_pageVars
=============================================================================

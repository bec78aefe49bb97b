---------------------------- MODULE RouteBuilder ----------------------------
(* The route builder: the stops, the arrival time and the driver a           *)
(* coordinator selects, the route the server writes for them, and the copy   *)
(* of the selection in the browser's storage and in the page's address.      *)
(* The effects that follow a change belong to the step that changes.         *)
EXTENDS SequencesExt, Lists, Panel

CONSTANTS
    Stops,      \* pickup locations, whose names hold no comma
    Drivers,    \* drivers who reacted for the day
    Shared,     \* selections of other tabs and of other people's links
    MaxAsked    \* bound: routes being generated at once

Days == {"friday", "sunday"}
TimeMode == Days \cup {"custom"}
Times == Days \cup {"typed", ""}     \* a preset's time has the preset's name
Preset(mode) == IF mode = "custom" THEN "" ELSE mode
DriverDay(mode) == IF mode = "sunday" THEN "sunday" ELSE "friday"

\* No location is a stop twice.
StopLists == {s \in SeqOf(Stops, Cardinality(Stops)) : IsInjective(s)}

Selection == [
    stops : StopLists,
    mode : TimeMode \cup {""},
    time : Times,
    driver : Drivers \cup {""}]

Nothing == [stops |-> <<>>, mode |-> "", time |-> "", driver |-> ""]

ASSUME RouteAssumption == IsFiniteSet(Stops) /\ Shared \subseteq Selection /\ MaxAsked > 0

VARIABLES
    rb,        \* the builder, while its page is shown
    storage    \* localStorage, which the tabs of the browser share

routeVars == <<rb, storage>>

Input(sel) == [stops |-> sel.stops, time |-> sel.time]
Inputs == {Input(sel) : sel \in Selection}
Wanted(sel) == sel.stops # <<>> /\ sel.time # ""

NoRoute == [of |-> Input(Nothing), text |-> "empty"]

RouteType == [
    sel : Selection,
    loaded : BOOLEAN,                    \* the locations are there and reconciled
    timer : BOOLEAN,                     \* the debounce runs
    asked : SUBSET Inputs,               \* requests to /api/make-route on their way
    loading : BOOLEAN, error : BOOLEAN,
    \* routeOutput, and in "of" the original of the last answer
    route : [of : Inputs, text : {"generated", "edited", "empty"}]]

-----------------------------------------------------------------------------
(* What is rendered.                                                        *)

ComboboxControls == If(rb.loaded, "toggle")

ListControls ==
    If(rb.sel.stops # <<>>, "remove") \cup If(Len(rb.sel.stops) > 1, "reorder")

PanelControls == If(rb.sel.stops # <<>>, "clear all")

TimeControls == {"mode"} \cup If(rb.sel.mode = "custom", "type time")

DriverControls == If(Drivers # {}, "driver")

OutputControls ==
    IF rb.route.text = "empty" THEN {}
    ELSE {"edit"} \cup If(rb.route.text = "edited", "revert")

RouteControls ==
    ComboboxControls \cup ListControls \cup PanelControls \cup TimeControls
        \cup DriverControls \cup OutputControls

-----------------------------------------------------------------------------
(* Another selection: a driver of another day is dropped, the debounce       *)
(* starts again or, with nothing to generate, everything shown is cleared.   *)

\* Variant: another arrival time clears the route, and only other stops start
\* the debounce.
ReselectMissesTime(r, sel) ==
    [r EXCEPT !.sel = sel, !.timer = Wanted(sel) /\ (@ \/ sel.stops # r.sel.stops),
              !.route = IF Input(sel) = Input(r.sel) THEN @ ELSE NoRoute]

Reselect(r, sel) ==
    LET kept == IF DriverDay(sel.mode) = DriverDay(r.sel.mode)
                THEN sel ELSE [sel EXCEPT !.driver = ""]
    IN CASE Input(sel) = Input(r.sel) -> [r EXCEPT !.sel = kept]
         [] Input(sel) # Input(r.sel) /\ Wanted(sel) -> [r EXCEPT !.sel = kept, !.timer = TRUE]
         [] OTHER -> [r EXCEPT !.sel = [kept EXCEPT !.driver = ""], !.timer = FALSE,
                               !.route = NoRoute, !.error = FALSE]

\* The selection is saved in the storage; the address is a function of it.
Select(sel) == rb' = Reselect(rb, sel) /\ storage' = rb'.sel

\* Variant: a stop that is picked again is added again.
ToggleStopAppends(s) ==
    /\ "toggle" \in RouteControls
    /\ Select([rb.sel EXCEPT !.stops = Append(@, s)])

ToggleStop(s) ==
    /\ "toggle" \in RouteControls
    /\ Select([rb.sel EXCEPT !.stops = IF s \in ToSet(@) THEN Only(@, Stops \ {s})
                                       ELSE Append(@, s)])

RemoveStop(i) ==
    /\ "remove" \in RouteControls /\ i \in DOMAIN rb.sel.stops
    /\ Select([rb.sel EXCEPT !.stops = RemoveAt(@, i)])

\* arrayMove
ReorderStops(i, j) ==
    /\ "reorder" \in RouteControls /\ {i, j} \subseteq DOMAIN rb.sel.stops /\ i # j
    /\ Select([rb.sel EXCEPT !.stops = InsertAt(RemoveAt(@, i), j, @[i])])

ClearAll ==
    /\ "clear all" \in RouteControls
    /\ Select([rb.sel EXCEPT !.stops = <<>>])

PickMode(mode) ==
    /\ "mode" \in RouteControls
    /\ Select([rb.sel EXCEPT !.mode = mode, !.time = Preset(mode)])

TypeTime(time) ==
    /\ "type time" \in RouteControls
    /\ Select([rb.sel EXCEPT !.time = time])

PickDriver(d) ==
    /\ "driver" \in RouteControls
    /\ Select([rb.sel EXCEPT !.driver = d])

\* The locations arrive; the first time, stops that no longer exist are dropped.
LocationsArrive(listed) ==
    /\ ~rb.loaded
    /\ rb' = [Reselect(rb, [rb.sel EXCEPT !.stops = Only(@, listed)])
                EXCEPT !.loaded = TRUE]
    /\ storage' = rb'.sel

-----------------------------------------------------------------------------
(* The route.  A request is never cancelled, and its answer is taken         *)
(* whatever is selected by then.                                             *)

GenerateRoute ==
    /\ rb.timer /\ Cardinality(rb.asked) < MaxAsked
    /\ rb' = [rb EXCEPT !.timer = FALSE, !.asked = @ \cup {Input(rb.sel)},
                        !.loading = TRUE, !.error = FALSE, !.route = NoRoute]
    /\ UNCHANGED storage

RouteArrives(in) ==
    /\ in \in rb.asked
    /\ rb' = [rb EXCEPT !.asked = @ \ {in}, !.loading = FALSE,
                        !.route = [of |-> in, text |-> "generated"]]
    /\ UNCHANGED storage

RouteFails(in) ==
    /\ in \in rb.asked
    /\ rb' = [rb EXCEPT !.asked = @ \ {in}, !.loading = FALSE, !.error = TRUE]
    /\ UNCHANGED storage

EditRoute ==
    /\ "edit" \in RouteControls
    /\ \E text \in {"edited", "empty"} : rb' = [rb EXCEPT !.route.text = text]
    /\ UNCHANGED storage

RevertRoute ==
    /\ "revert" \in RouteControls
    /\ rb' = [rb EXCEPT !.route.text = "generated"]
    /\ UNCHANGED storage

-----------------------------------------------------------------------------
(* Leaving and coming back.                                                 *)

\* Variant: what this browser stored goes before what the address names.
HydrateFromStorage(link, local, auto) ==
    LET mode == IF local.mode # "" THEN local.mode
                ELSE IF link.mode # "" THEN link.mode ELSE auto
    IN [stops |-> IF local.stops # <<>> THEN local.stops ELSE link.stops,
        mode |-> mode,
        time |-> IF local # Nothing THEN local.time
                 ELSE IF link.time # "" THEN link.time ELSE Preset(mode),
        driver |-> IF local # Nothing THEN local.driver ELSE link.driver]

\* loadInitialPersistedState: key by key, what the address names, else what the
\* storage has, else the default, which is the day that comes next.
Hydrate(link, local, auto) ==
    LET mode == IF link.mode # "" THEN link.mode
                ELSE IF local.mode # "" THEN local.mode ELSE auto
    IN [stops |-> IF link.stops # <<>> THEN link.stops ELSE local.stops,
        mode |-> mode,
        time |-> IF link.time # "" THEN link.time
                 ELSE IF local # Nothing THEN local.time ELSE Preset(mode),
        driver |-> IF link.driver # "" THEN link.driver ELSE local.driver]

Fresh(sel) == [sel |-> sel, loaded |-> FALSE, timer |-> Wanted(sel), asked |-> {},
               loading |-> FALSE, error |-> FALSE, route |-> NoRoute]

\* The page is mounted, and its effects run for the first time.
Mount(link, local) ==
    /\ \E auto \in Days : LET sel == Hydrate(link, local, auto)
                          IN rb' = Fresh(IF Wanted(sel) THEN sel ELSE [sel EXCEPT !.driver = ""])
    /\ storage' = rb'.sel

Reload == Mount(rb.sel, storage)
OpenLink(link) == Mount(link, storage)
\* Another page and back: the address no longer names the selection.
ComeBack == Mount(Nothing, storage)
\* Another tab, or the user who clears the browser's data.
OtherTab(sel) == storage' = sel /\ UNCHANGED rb

RouteInit ==
    /\ \E auto \in Days : rb = Fresh(Hydrate(Nothing, Nothing, auto))
    /\ storage = rb.sel

RouteNext ==
    \/ \E s \in Stops : ToggleStop(s)
    \/ \E i, j \in 1..Cardinality(Stops) : RemoveStop(i) \/ ReorderStops(i, j)
    \/ ClearAll
    \/ \E mode \in TimeMode : PickMode(mode)
    \/ \E time \in {"typed", ""} : TypeTime(time)
    \/ \E d \in Drivers \cup {""} : PickDriver(d)
    \/ \E listed \in SUBSET Stops : LocationsArrive(listed)
    \/ GenerateRoute
    \/ \E in \in rb.asked : RouteArrives(in) \/ RouteFails(in)
    \/ EditRoute \/ RevertRoute
    \/ Reload \/ ComeBack
    \/ \E sel \in Shared : OpenLink(sel)
    \/ \E sel \in Shared \cup {Nothing} : OtherTab(sel)

RouteSpec == RouteInit /\ [][RouteNext]_routeVars

-----------------------------------------------------------------------------
\* In particular no location is a stop twice, whichever way the stops came.
RouteTypeOK == rb \in RouteType /\ storage \in Selection

\* A selection a route can be written for is never left with nothing: there is
\* a route, an error, a request on its way or the debounce that will send it,
\* however requests overtook each other.
NoSilentEnd ==
    Wanted(rb.sel) => rb.timer \/ rb.asked # {} \/ rb.error \/ rb.route # NoRoute

\* A refresh or a link keeps every part of the selection that the address
\* names, whatever other tabs wrote to the storage they share.
Names(link, sel) ==
    /\ link.stops # <<>> => sel.stops = link.stops
    /\ link.mode # "" => sel.mode = link.mode
    /\ link.time # "" => sel.time = link.time
    /\ link.driver # "" /\ Wanted(link) => sel.driver = link.driver

LinkWins ==
    [][routeVars' # routeVars /\ rb' = Fresh(rb'.sel) =>     \* only such a step mounts the page
         /\ Reload => Names(rb.sel, rb'.sel)
         /\ \A link \in Shared : OpenLink(link) => Names(link, rb'.sel)]_routeVars

\* "Auto-generate route whenever locations or leave time change": with the
\* debounce over and every request answered, and no error shown, the route is the
\* one for the stops and the time that are shown.  The code does not keep to it:
\* a request is not given up when a newer one is sent, and the answer that comes
\* last is shown.
QuietRouteIsCurrent ==
    Wanted(rb.sel) /\ rb.asked = {} /\ ~rb.timer /\ ~rb.error => rb.route.of = Input(rb.sel)
=============================================================================

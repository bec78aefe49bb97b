-------------------------- MODULE RidePagesProofs ---------------------------
(* Theorems about the pages with the tools for rides and the demo, and that *)
(* the pages side by side implement each of them: what holds of a page alone *)
(* holds of the front end.                                                  *)
EXTENDS WebPages, AdminPagesProofs, ListProofs

-----------------------------------------------------------------------------
(* The route builder: its types, and what it awaits.                        *)

\* Only selections a route can be written for are asked for, and answered; and
\* such a selection has the debounce, a request, an error or a route.
NoInput == Input(Nothing)

Awaits(r) ==
    /\ r.timer => Wanted(r.sel)
    /\ \A in \in r.asked : in # NoInput
    /\ r.route # NoRoute => r.route.of # NoInput
    /\ Wanted(r.sel) => r.timer \/ r.asked # {} \/ r.error \/ r.route # NoRoute

RouteInv == RouteTypeOK /\ Awaits(rb)

-----------------------------------------------------------------------------
\* A list of stops is a list without repetition: the number of stops bounds it.
LEMMA StopListIs ==
    ASSUME NEW s PROVE s \in StopLists <=> s \in Seq(Stops) /\ IsInjective(s)
<1>1. ASSUME s \in StopLists PROVE s \in Seq(Stops)
  BY <1>1 DEF StopLists, SeqOf
<1>2. ASSUME s \in Seq(Stops), IsInjective(s) PROVE s \in StopLists
  <2>1. Len(s) \in Nat /\ s \in [1..Len(s) -> Stops]
    BY <1>2
  <2>2. s \in Injection(1..Len(s), Stops)
    BY <1>2, <2>1 DEF Injection
  <2>3. Cardinality(1..Len(s)) <= Cardinality(Stops)
    BY <2>2, FS_Injection, RouteAssumption
  <2>4. Cardinality(1..Len(s)) = Len(s)
    BY <2>1, FS_Interval
  <2>5. Cardinality(Stops) \in Nat
    BY FS_CardinalityType, RouteAssumption
  <2>6. Len(s) \in 0..Cardinality(Stops)
    BY <2>1, <2>3, <2>4, <2>5
  <2> QED
    BY <1>2, <2>1, <2>6 DEF StopLists, SeqOf
<1> QED
  BY <1>1, <1>2 DEF StopLists

\* A selection a route can be written for is not the empty one.
LEMMA WantedIsSome == ASSUME NEW sel, Wanted(sel) PROVE Input(sel) # NoInput
<1>1. Input(sel).stops # NoInput.stops
  BY DEF Wanted, Input, NoInput, Nothing
<1> QED
  BY <1>1

\* Whether a route can be written depends on the stops and the time alone.
LEMMA WantedOfInput ==
    ASSUME NEW a, NEW b, Input(a) = Input(b) PROVE Wanted(a) <=> Wanted(b)
<1>1. Input(a).stops = a.stops /\ Input(a).time = a.time
      /\ Input(b).stops = b.stops /\ Input(b).time = b.time
  BY DEF Input
<1> QED
  BY <1>1 DEF Wanted

\* Having nothing selected is a selection; so is one with another part.
LEMMA Changed ==
    /\ Nothing \in Selection
    /\ \A sel \in Selection : Input(sel) \in Inputs
    /\ \A sel \in Selection, x \in StopLists : [sel EXCEPT !.stops = x] \in Selection
    /\ \A sel \in Selection, x \in Times : [sel EXCEPT !.time = x] \in Selection
    /\ \A sel \in Selection, x \in TimeMode, y \in Times :
          [sel EXCEPT !.mode = x, !.time = y] \in Selection
    /\ \A sel \in Selection, x \in Drivers \cup {""} :
          /\ [sel EXCEPT !.driver = x] \in Selection
          /\ Wanted([sel EXCEPT !.driver = x]) <=> Wanted(sel)
<1>1. <<>> \in StopLists
  <2>1. <<>> \in Seq(Stops) /\ IsInjective(<<>>)
    BY DEF IsInjective
  <2> QED
    BY <2>1, StopListIs
<1>2. Nothing \in Selection
  BY <1>1 DEF Nothing, Selection, Times
<1> QED
  BY <1>2 DEF Inputs, Selection, Wanted

\* What the address, the storage and the default make is a selection.
LEMMA HydrateIsSelection ==
    ASSUME NEW link \in Selection, NEW local \in Selection, NEW auto \in Days
    PROVE  Hydrate(link, local, auto) \in Selection
<1>1. Preset(auto) \in Times /\ \A m \in TimeMode : Preset(m) \in Times
  BY DEF Preset, Times, TimeMode, Days
<1> QED
  BY <1>1 DEF Hydrate, Selection, TimeMode

\* There is nothing at first, and then no route.
LEMMA NoRouteTyped == NoRoute \in [of : Inputs, text : {"generated", "edited", "empty"}]
  BY Changed DEF NoRoute

\* The builder of a page just mounted awaits the route, if there is one to write.
LEMMA FreshAwaits ==
    ASSUME NEW sel \in Selection PROVE Fresh(sel) \in RouteType /\ Awaits(Fresh(sel))
<1> DEFINE r == Fresh(sel)
<1>1. r.sel = sel /\ (r.timer <=> Wanted(sel)) /\ r.asked = {} /\ r.route = NoRoute
  BY DEF Fresh
<1>2. r \in RouteType
  BY NoRouteTyped DEF Fresh, RouteType, Wanted
<1> HIDE DEF r
<1>3. Awaits(r)
  BY <1>1 DEF Awaits
<1> QED
  BY <1>2, <1>3 DEF r

\* Another selection: the debounce runs, or nothing is wanted, or what is shown
\* or awaited is for the same stops and time as before.
LEMMA ReselectAwaits ==
    ASSUME NEW r \in RouteType, Awaits(r), NEW sel \in Selection
    PROVE  Reselect(r, sel) \in RouteType /\ Awaits(Reselect(r, sel))
<1> DEFINE chosen == IF DriverDay(sel.mode) = DriverDay(r.sel.mode)
                   THEN sel ELSE [sel EXCEPT !.driver = ""]
<1>1. chosen \in Selection /\ (Wanted(chosen) <=> Wanted(sel))
  BY Changed
<1>2. CASE Input(sel) = Input(r.sel)
  <2> DEFINE new == [r EXCEPT !.sel = chosen]
  <2>1. Reselect(r, sel) = new
    BY <1>2 DEF Reselect
  <2> HIDE DEF chosen
  <2>2. /\ new \in RouteType
        /\ new.sel = chosen /\ new.timer = r.timer /\ new.asked = r.asked
        /\ new.error = r.error /\ new.route = r.route
    BY <1>1 DEF RouteType
  <2> HIDE DEF new
  <2>3. Wanted(sel) <=> Wanted(r.sel)
    BY <1>2, WantedOfInput
  <2> QED
    BY <1>1, <2>1, <2>2, <2>3 DEF Awaits
<1>3. CASE Input(sel) # Input(r.sel) /\ Wanted(sel)
  <2> DEFINE new == [r EXCEPT !.sel = chosen, !.timer = TRUE]
  <2>1. Reselect(r, sel) = new
    BY <1>3 DEF Reselect
  <2> HIDE DEF chosen
  <2>2. /\ new \in RouteType
        /\ new.sel = chosen /\ new.timer = TRUE /\ new.asked = r.asked
        /\ new.error = r.error /\ new.route = r.route
    BY <1>1 DEF RouteType
  <2> HIDE DEF new
  <2> QED
    BY <1>1, <1>3, <2>1, <2>2 DEF Awaits
<1>4. CASE Input(sel) # Input(r.sel) /\ ~Wanted(sel)
  <2> DEFINE bare == [chosen EXCEPT !.driver = ""]
             new == [r EXCEPT !.sel = bare, !.timer = FALSE, !.route = NoRoute, !.error = FALSE]
  <2>1. Reselect(r, sel) = new
    BY <1>4 DEF Reselect
  <2> HIDE DEF chosen
  <2>2. bare \in Selection /\ ~Wanted(bare)
    BY <1>1, <1>4, Changed
  <2> HIDE DEF bare
  <2>3. /\ new \in RouteType
        /\ new.sel = bare /\ new.timer = FALSE /\ new.asked = r.asked /\ new.route = NoRoute
    BY <2>2, NoRouteTyped DEF RouteType
  <2> HIDE DEF new
  <2> QED
    BY <2>1, <2>2, <2>3 DEF Awaits
<1> QED
  BY <1>2, <1>3, <1>4

-----------------------------------------------------------------------------
\* What holds when the page is opened for the first time.
LEMMA RouteStarts == ASSUME RouteInit PROVE RouteInv
<1>1. PICK auto \in Days : rb = Fresh(Hydrate(Nothing, Nothing, auto))
  BY DEF RouteInit
<1>2. Hydrate(Nothing, Nothing, auto) \in Selection
  BY Changed, HydrateIsSelection
<1>3. rb \in RouteType /\ Awaits(rb)
  BY <1>1, <1>2, FreshAwaits
<1> QED
  BY <1>3 DEF RouteInit, RouteInv, RouteTypeOK, RouteType

\* Whatever is selected, the builder awaits its route.
LEMMA Selected ==
    ASSUME RouteInv, NEW sel \in Selection, Select(sel) PROVE RouteInv'
<1>1. PICK r : r = rb' /\ storage' = r.sel
  BY DEF Select
<1>2. r \in RouteType /\ Awaits(r)
  BY <1>1, ReselectAwaits DEF Select, RouteInv, RouteTypeOK
<1>3. r.sel \in Selection
  BY <1>2 DEF RouteType
<1> QED
  BY <1>1, <1>2, <1>3 DEF RouteInv, RouteTypeOK

\* The stops are a list without repetition.
LEMMA StopsNow ==
    ASSUME RouteInv
    PROVE  /\ rb.sel \in Selection /\ rb.sel.stops \in StopLists
           /\ rb.sel.stops \in Seq(Stops) /\ IsInjective(rb.sel.stops)
<1>1. rb.sel \in Selection /\ rb.sel.stops \in StopLists
  BY DEF RouteInv, RouteTypeOK, RouteType, Selection
<1> QED
  BY <1>1, StopListIs

\* Another list of stops.
LEMMA Restopped ==
    ASSUME RouteInv, NEW x, x \in Seq(Stops), IsInjective(x),
           Select([rb.sel EXCEPT !.stops = x])
    PROVE  RouteInv'
<1>1. [rb.sel EXCEPT !.stops = x] \in Selection
  BY Changed, StopListIs, StopsNow
<1> QED
  BY <1>1, Selected

\* A stop is added or taken away,
LEMMA ToggleKeeps == ASSUME RouteInv, NEW s \in Stops, ToggleStop(s) PROVE RouteInv'
<1> DEFINE old == rb.sel.stops
<1>1. old \in Seq(Stops) /\ IsInjective(old)
  BY StopsNow
<1>2. Select([rb.sel EXCEPT !.stops = IF s \in ToSet(old) THEN Only(old, Stops \ {s})
                                      ELSE Append(old, s)])
  BY DEF ToggleStop
<1> HIDE DEF old
<1>3. CASE s \in ToSet(old)
  <2>1. Only(old, Stops \ {s}) \in Seq(Stops) /\ IsInjective(Only(old, Stops \ {s}))
    BY <1>1, OnlyFacts
  <2> QED
    BY <1>2, <1>3, <2>1, Restopped
<1>4. CASE s \notin ToSet(old)
  <2>1. Append(old, s) \in Seq(Stops) /\ IsInjective(Append(old, s))
    BY <1>1, <1>4, AddInjective DEF ToSet
  <2> QED
    BY <1>2, <1>4, <2>1, Restopped
<1> QED
  BY <1>3, <1>4

\* removed in the list,
LEMMA RemoveKeeps == ASSUME RouteInv, NEW i, RemoveStop(i) PROVE RouteInv'
<1> DEFINE old == rb.sel.stops
<1>1. old \in Seq(Stops) /\ IsInjective(old)
  BY StopsNow
<1>2. i \in DOMAIN old /\ Select([rb.sel EXCEPT !.stops = RemoveAt(old, i)])
  BY DEF RemoveStop
<1> HIDE DEF old
<1>3. i \in 1..Len(old)
  BY <1>1, <1>2
<1>4. RemoveAt(old, i) \in Seq(Stops)
  BY <1>1, <1>3, RemoveIs
<1>5. IsInjective(RemoveAt(old, i))
  BY <1>1, <1>2, RemoveInjective
<1> QED
  BY <1>2, <1>4, <1>5, Restopped

\* moved,
LEMMA ReorderKeeps == ASSUME RouteInv, NEW i, NEW j, ReorderStops(i, j) PROVE RouteInv'
<1> DEFINE old == rb.sel.stops
           without == RemoveAt(old, i)
<1>1. old \in Seq(Stops) /\ IsInjective(old)
  BY StopsNow
<1>2. /\ i \in DOMAIN old /\ j \in DOMAIN old
      /\ Select([rb.sel EXCEPT !.stops = InsertAt(without, j, old[i])])
  BY DEF ReorderStops
<1> HIDE DEF old, without
<1>3. i \in 1..Len(old) /\ j \in 1..Len(old) /\ old[i] \in Stops /\ Len(old) \in Nat
  BY <1>1, <1>2
<1>4. without \in Seq(Stops) /\ Len(without) = Len(old) - 1
  BY <1>1, <1>3, RemoveIs DEF without
<1>5. IsInjective(without) /\ \A k \in DOMAIN without : without[k] # old[i]
  BY <1>1, <1>2, RemoveInjective DEF without
<1>6. j \in 1..(Len(without) + 1)
  BY <1>3, <1>4
<1>7. InsertAt(without, j, old[i]) \in Seq(Stops)
  BY <1>3, <1>4, <1>6, InsertIs
<1>8. IsInjective(InsertAt(without, j, old[i]))
  BY <1>3, <1>4, <1>5, <1>6, InsertInjective
<1> QED
  BY <1>2, <1>7, <1>8, Restopped

\* or they all are cleared;
LEMMA ClearKeeps == ASSUME RouteInv, ClearAll PROVE RouteInv'
<1>1. <<>> \in Seq(Stops) /\ IsInjective(<<>>)
  BY DEF IsInjective
<1> QED
  BY <1>1, Restopped DEF ClearAll

\* a day, a time or a driver is picked;
LEMMA ChoiceKeeps ==
    ASSUME RouteInv,
           \/ \E mode \in TimeMode : PickMode(mode)
           \/ \E time \in {"typed", ""} : TypeTime(time)
           \/ \E d \in Drivers \cup {""} : PickDriver(d)
    PROVE  RouteInv'
<1>1. rb.sel \in Selection
  BY StopsNow
<1>2. ASSUME NEW mode \in TimeMode, PickMode(mode) PROVE RouteInv'
  <2>1. Preset(mode) \in Times
    BY DEF Preset, TimeMode, Times, Days
  <2>2. [rb.sel EXCEPT !.mode = mode, !.time = Preset(mode)] \in Selection
    BY <1>1, <2>1, Changed
  <2> QED
    BY <1>2, <2>2, Selected DEF PickMode
<1>3. ASSUME NEW time \in {"typed", ""}, TypeTime(time) PROVE RouteInv'
  <2>1. [rb.sel EXCEPT !.time = time] \in Selection
    BY <1>1, Changed DEF Times
  <2> QED
    BY <1>3, <2>1, Selected DEF TypeTime
<1>4. ASSUME NEW d \in Drivers \cup {""}, PickDriver(d) PROVE RouteInv'
  <2>1. [rb.sel EXCEPT !.driver = d] \in Selection
    BY <1>1, Changed
  <2> QED
    BY <1>4, <2>1, Selected DEF PickDriver
<1> QED
  BY <1>2, <1>3, <1>4

\* the locations arrive, and stops that are gone are dropped.
LEMMA LocationsKeep == ASSUME RouteInv, NEW listed, LocationsArrive(listed) PROVE RouteInv'
<1> DEFINE x == Only(rb.sel.stops, listed)
<1>1. /\ rb' = [Reselect(rb, [rb.sel EXCEPT !.stops = x]) EXCEPT !.loaded = TRUE]
      /\ storage' = rb'.sel
  BY DEF LocationsArrive
<1>2. x \in Seq(Stops) /\ IsInjective(x)
  BY StopsNow, OnlyFacts
<1> HIDE DEF x
<1>3. [rb.sel EXCEPT !.stops = x] \in Selection
  BY <1>2, Changed, StopListIs, StopsNow
<1>4. PICK r : r = Reselect(rb, [rb.sel EXCEPT !.stops = x])
  OBVIOUS
<1>5. r \in RouteType /\ Awaits(r)
  BY <1>3, <1>4, ReselectAwaits DEF RouteInv, RouteTypeOK
<1>6. PICK new : new = [r EXCEPT !.loaded = TRUE]
  OBVIOUS
<1>7. /\ new \in RouteType
      /\ new.sel = r.sel /\ new.timer = r.timer /\ new.asked = r.asked /\ new.error = r.error
      /\ new.route = r.route
  BY <1>5, <1>6 DEF RouteType
<1>8. Awaits(new)
  BY <1>5, <1>7 DEF Awaits
<1>9. rb' = new /\ storage' = new.sel /\ new.sel \in Selection
  BY <1>1, <1>4, <1>6, <1>7 DEF RouteType
<1> QED
  BY <1>7, <1>8, <1>9 DEF RouteInv, RouteTypeOK

\* A request is sent, or answered.
LEMMA RequestsKeep ==
    ASSUME RouteInv, GenerateRoute \/ \E in \in rb.asked : RouteArrives(in) \/ RouteFails(in)
    PROVE  RouteInv'
<1>1. rb \in RouteType /\ Awaits(rb) /\ storage \in Selection
  BY DEF RouteInv, RouteTypeOK
<1>2. CASE GenerateRoute
  <2>1. PICK in : in = Input(rb.sel)
    OBVIOUS
  <2>2. in # NoInput /\ in \in Inputs
    BY <1>1, <1>2, <2>1, WantedIsSome, StopsNow, Changed DEF GenerateRoute, Awaits
  <2>3. PICK none : none = NoRoute
    OBVIOUS
  <2>4. PICK new : new = [rb EXCEPT !.timer = FALSE, !.asked = @ \cup {in},
                                    !.loading = TRUE, !.error = FALSE, !.route = none]
    OBVIOUS
  <2>5. rb' = new /\ storage' = storage
    BY <1>2, <2>1, <2>3, <2>4 DEF GenerateRoute
  <2>6. /\ new \in RouteType
        /\ new.sel = rb.sel /\ ~new.timer /\ new.asked = rb.asked \cup {in} /\ new.route = none
    BY <1>1, <2>2, <2>3, <2>4, NoRouteTyped DEF RouteType
  <2>7. Awaits(new)
    BY <1>1, <2>2, <2>3, <2>6 DEF Awaits
  <2> QED
    BY <1>1, <2>5, <2>6, <2>7 DEF RouteInv, RouteTypeOK
<1>3. ASSUME NEW in \in rb.asked, RouteArrives(in) PROVE RouteInv'
  <2>1. PICK it : it = [of |-> in, text |-> "generated"]
    OBVIOUS
  <2>2. in \in Inputs
    BY <1>1 DEF RouteType
  <2>3. it \in [of : Inputs, text : {"generated", "edited", "empty"}] /\ it.of = in
    BY <2>1, <2>2
  <2>4. in # NoInput /\ it # NoRoute
    BY <1>1, <2>1, <2>3 DEF Awaits, NoRoute
  <2>5. PICK new : new = [rb EXCEPT !.asked = @ \ {in}, !.loading = FALSE, !.route = it]
    OBVIOUS
  <2>6. rb' = new /\ storage' = storage
    BY <1>3, <2>1, <2>5 DEF RouteArrives
  <2>7. /\ new \in RouteType
        /\ new.sel = rb.sel /\ new.timer = rb.timer /\ new.asked \subseteq rb.asked
        /\ new.route = it
    BY <1>1, <2>3, <2>5 DEF RouteType
  <2>8. Awaits(new)
    BY <1>1, <2>3, <2>4, <2>7 DEF Awaits
  <2> QED
    BY <1>1, <2>6, <2>7, <2>8 DEF RouteInv, RouteTypeOK
<1>4. ASSUME NEW in \in rb.asked, RouteFails(in) PROVE RouteInv'
  <2>1. PICK new : new = [rb EXCEPT !.asked = @ \ {in}, !.loading = FALSE, !.error = TRUE]
    OBVIOUS
  <2>2. rb' = new /\ storage' = storage
    BY <1>4, <2>1 DEF RouteFails
  <2>3. /\ new \in RouteType
        /\ new.sel = rb.sel /\ new.timer = rb.timer /\ new.asked \subseteq rb.asked
        /\ new.route = rb.route /\ new.error
    BY <1>1, <2>1 DEF RouteType
  <2>4. Awaits(new)
    BY <1>1, <2>3 DEF Awaits
  <2> QED
    BY <1>1, <2>2, <2>3, <2>4 DEF RouteInv, RouteTypeOK
<1> QED
  BY <1>2, <1>3, <1>4

\* A route that is edited stays the route of its stops, or gives way to none.
LEMMA EditsKeep == ASSUME RouteInv, EditRoute \/ RevertRoute PROVE RouteInv'
<1>1. rb \in RouteType /\ Awaits(rb) /\ storage \in Selection
  BY DEF RouteInv, RouteTypeOK
<1>2. rb.route.text # "empty"
  BY DEF EditRoute, RevertRoute, RouteControls, ComboboxControls, ListControls, PanelControls,
         TimeControls, DriverControls, OutputControls, If
<1>3. rb.route.of # NoInput
  BY <1>1, <1>2 DEF Awaits, NoRoute
<1>4. PICK text \in {"generated", "edited", "empty"} :
         rb' = [rb EXCEPT !.route.text = text] /\ storage' = storage
  BY DEF EditRoute, RevertRoute
<1>5. PICK new : new = [rb EXCEPT !.route.text = text]
  OBVIOUS
<1>6. /\ new \in RouteType
      /\ new.sel = rb.sel /\ new.timer = rb.timer /\ new.asked = rb.asked
      /\ new.route.of = rb.route.of
  BY <1>1, <1>5 DEF RouteType
<1>7. new.route # NoRoute
  BY <1>3, <1>6 DEF NoRoute, NoInput
<1>8. Awaits(new)
  BY <1>1, <1>3, <1>6, <1>7 DEF Awaits
<1> QED
  BY <1>1, <1>4, <1>5, <1>6, <1>8 DEF RouteInv, RouteTypeOK

\* A page that is mounted, from the address and the storage.
LEMMA MountKeeps ==
    ASSUME NEW link \in Selection, NEW local \in Selection, Mount(link, local) PROVE RouteInv'
<1>1. PICK auto \in Days :
         LET sel == Hydrate(link, local, auto)
         IN rb' = Fresh(IF Wanted(sel) THEN sel ELSE [sel EXCEPT !.driver = ""])
  BY DEF Mount
<1>2. PICK sel : sel = Hydrate(link, local, auto)
  OBVIOUS
<1>3. sel \in Selection /\ [sel EXCEPT !.driver = ""] \in Selection
  BY <1>2, HydrateIsSelection, Changed
<1>4. PICK on \in Selection : on = IF Wanted(sel) THEN sel ELSE [sel EXCEPT !.driver = ""]
  BY <1>3
<1>5. PICK r : r = Fresh(on)
  OBVIOUS
<1>6. r \in RouteType /\ Awaits(r) /\ rb' = r /\ storage' = r.sel
  BY <1>1, <1>2, <1>4, <1>5, FreshAwaits DEF Mount
<1>7. r.sel \in Selection
  BY <1>6 DEF RouteType
<1> QED
  BY <1>6, <1>7 DEF RouteInv, RouteTypeOK

\* The invariant, step by step.
LEMMA RouteKeeps == RouteInv /\ [RouteNext]_routeVars => RouteInv'
<1> SUFFICES ASSUME RouteInv, [RouteNext]_routeVars PROVE RouteInv'
  OBVIOUS
<1>1. rb.sel \in Selection /\ storage \in Selection /\ Shared \subseteq Selection
      /\ Nothing \in Selection
  BY StopsNow, Changed, RouteAssumption DEF RouteInv, RouteTypeOK
<1>2. CASE \E s \in Stops : ToggleStop(s)
  BY <1>2, ToggleKeeps
<1>3. CASE \E i, j \in 1..Cardinality(Stops) : RemoveStop(i) \/ ReorderStops(i, j)
  BY <1>3, RemoveKeeps, ReorderKeeps, Zenon
<1>4. CASE ClearAll
  BY <1>4, ClearKeeps
<1>5. CASE \/ \E mode \in TimeMode : PickMode(mode)
           \/ \E time \in {"typed", ""} : TypeTime(time)
           \/ \E d \in Drivers \cup {""} : PickDriver(d)
  BY <1>5, ChoiceKeeps, Zenon
<1>6. CASE \E listed \in SUBSET Stops : LocationsArrive(listed)
  BY <1>6, LocationsKeep, Zenon
<1>7. CASE GenerateRoute \/ \E in \in rb.asked : RouteArrives(in) \/ RouteFails(in)
  BY <1>7, RequestsKeep, Zenon
<1>8. CASE EditRoute \/ RevertRoute
  BY <1>8, EditsKeep
<1>9. CASE Reload \/ ComeBack \/ \E sel \in Shared : OpenLink(sel)
  BY <1>1, <1>9, MountKeeps DEF Reload, ComeBack, OpenLink
<1>10. CASE \E sel \in Shared \cup {Nothing} : OtherTab(sel)
  BY <1>1, <1>10 DEF OtherTab, RouteInv, RouteTypeOK
<1>11. CASE UNCHANGED routeVars
  BY <1>11 DEF RouteInv, RouteTypeOK, routeVars
<1> QED
  BY <1>2, <1>3, <1>4, <1>5, <1>6, <1>7, <1>8, <1>9, <1>10, <1>11, Zenon DEF RouteNext

\* For any locations, drivers and links: no location is a stop twice, however
\* the stops are chosen, moved, restored and dropped.
THEOREM BuilderTyped == RouteSpec => []RouteTypeOK
<1>1. RouteInv => RouteTypeOK
  BY DEF RouteInv
<1> QED
  BY <1>1, RouteStarts, RouteKeeps, PTL DEF RouteSpec

\* A selection a route can be written for is never left with nothing, however
\* the requests overtake each other and whatever the other tabs store.
THEOREM BuilderAnswers == RouteSpec => []NoSilentEnd
<1>1. RouteInv => NoSilentEnd
  BY DEF RouteInv, Awaits, NoSilentEnd
<1> QED
  BY <1>1, RouteStarts, RouteKeeps, PTL DEF RouteSpec

\* What is mounted has every part that the address names.
LEMMA MountNames ==
    ASSUME NEW link \in Selection, NEW local \in Selection, Mount(link, local)
    PROVE  Names(link, rb'.sel)
<1>1. PICK auto \in Days :
         LET sel == Hydrate(link, local, auto)
         IN rb' = Fresh(IF Wanted(sel) THEN sel ELSE [sel EXCEPT !.driver = ""])
  BY DEF Mount
<1>2. PICK sel : sel = Hydrate(link, local, auto)
  OBVIOUS
<1>3. /\ link.stops # <<>> => sel.stops = link.stops
      /\ link.mode # "" => sel.mode = link.mode
      /\ link.time # "" => sel.time = link.time
      /\ link.driver # "" => sel.driver = link.driver
  BY <1>2 DEF Hydrate
<1>4. Wanted(link) => Wanted(sel)
  BY <1>3 DEF Wanted
<1>5. sel \in Selection
  BY <1>2, HydrateIsSelection
<1>6. PICK bare : bare = [sel EXCEPT !.driver = ""]
  OBVIOUS
<1>7. bare.stops = sel.stops /\ bare.mode = sel.mode /\ bare.time = sel.time
  BY <1>5, <1>6 DEF Selection
<1>8. CASE Wanted(sel)
  <2>1. rb'.sel = sel
    BY <1>1, <1>2, <1>8 DEF Fresh
  <2> QED
    BY <1>3, <2>1 DEF Names
<1>9. CASE ~Wanted(sel)
  <2>1. rb'.sel = bare
    BY <1>1, <1>2, <1>6, <1>9 DEF Fresh
  <2> QED
    BY <1>3, <1>4, <1>7, <1>9, <2>1 DEF Names
<1> QED
  BY <1>8, <1>9

\* A refresh or a link keeps every part of the selection the address names.
THEOREM AddressWins == RouteSpec => LinkWins
<1>1. RouteInv /\ [RouteNext]_routeVars
        => [routeVars' # routeVars /\ rb' = Fresh(rb'.sel) =>
              /\ Reload => Names(rb.sel, rb'.sel)
              /\ \A link \in Shared : OpenLink(link) => Names(link, rb'.sel)]_routeVars
  <2> SUFFICES ASSUME RouteInv
               PROVE  /\ Reload => Names(rb.sel, rb'.sel)
                      /\ \A link \in Shared : OpenLink(link) => Names(link, rb'.sel)
    OBVIOUS
  <2>1. rb.sel \in Selection /\ storage \in Selection /\ Shared \subseteq Selection
    BY StopsNow, RouteAssumption DEF RouteInv, RouteTypeOK
  <2> QED
    BY <2>1, MountNames DEF Reload, OpenLink
<1> QED
  BY <1>1, RouteStarts, RouteKeeps, PTL DEF RouteSpec, LinkWins

-----------------------------------------------------------------------------
(* The map of a route.                                                      *)

\* A preference that is shown but not confirmed is on its way.
LabelFollowed ==
    ~label.failed /\ label.shown # label.data
        => label.sent[label.shown] + label.answered[label.shown] > 0

PatchesBounded == \A b \in BOOLEAN : label.sent[b] + label.answered[b] <= MaxPatches

MapInv == MapTypeOK /\ LabelFollowed /\ PatchesBounded

\* The two values of the preference.
LEMMA Two == \A b \in BOOLEAN : b = TRUE \/ b = FALSE
  OBVIOUS

\* What holds when the map is opened.
LEMMA MapInits == MapInit => MapInv
<1> SUFFICES ASSUME MapInit PROVE MapInv
  OBVIOUS
<1>a. MaxPatches \in Nat
  BY MapAssumption
<1>1. line \in LineType /\ full \in FullType
  BY DEF MapInit, LineType, FullType
<1>2. PICK b \in BOOLEAN :
        label = [shown |-> b, data |-> b, stored |-> b, sent |-> [c \in BOOLEAN |-> 0],
                 answered |-> [c \in BOOLEAN |-> 0], failed |-> FALSE]
  BY DEF MapInit
<1>3. [c \in BOOLEAN |-> 0] \in [BOOLEAN -> 0..MaxPatches]
  BY <1>a
<1>4. label \in LabelType
  BY <1>2, <1>3 DEF LabelType
<1>5. LabelFollowed /\ PatchesBounded
  BY <1>2, <1>a DEF LabelFollowed, PatchesBounded
<1> QED
  BY <1>1, <1>4, <1>5 DEF MapInv, MapTypeOK

\* The line of the stops: a line that appears is of the stops selected now.
LEMMA LineUsed ==
    ASSUME MapInv,
           \/ \E t \in Trips \cup {NoTrip} : SelectTrip(t)
           \/ \E t \in Trips : LineArrives(t) \/ NoLine(t) \/ LineFails(t)
    PROVE  MapInv' /\ (line'.shown # line.shown => line'.shown = line'.trip)
<1> USE DEF MapInv, MapTypeOK, LabelFollowed, PatchesBounded
<1>0. line \in LineType
  OBVIOUS
<1>1. ASSUME line' \in LineType, UNCHANGED <<label, full>> PROVE MapInv'
  BY <1>1
<1>2. ASSUME NEW t \in Trips \cup {NoTrip}, SelectTrip(t)
      PROVE  /\ line' \in LineType /\ UNCHANGED <<label, full>>
             /\ line'.shown # line.shown => line'.shown = line'.trip
  BY <1>0, <1>2 DEF SelectTrip, LineType
<1>3. ASSUME NEW t \in Trips, LineArrives(t)
      PROVE  /\ line' \in LineType /\ UNCHANGED <<label, full>>
             /\ line'.shown # line.shown => line'.shown = line'.trip
  BY <1>0, <1>3 DEF LineArrives, LineType
<1>4. ASSUME NEW t \in Trips, NoLine(t)
      PROVE  line' \in LineType /\ UNCHANGED <<label, full>> /\ line'.shown = line.shown
  BY <1>0, <1>4 DEF NoLine, LineType
<1>5. ASSUME NEW t \in Trips, LineFails(t)
      PROVE  line' \in LineType /\ UNCHANGED <<label, full>> /\ line'.shown = line.shown
  <2>1. CASE t = line.trip
    <3>1. line' = [line EXCEPT !.asked = @ \ {t}, !.error = TRUE]
      BY <1>0, <1>5, <2>1 DEF LineFails, LineType
    <3> QED
      BY <1>0, <1>5, <3>1 DEF LineFails, LineType
  <2>2. CASE t # line.trip
    <3>1. line' = [line EXCEPT !.asked = @ \ {t}]
      BY <1>0, <1>5, <2>2 DEF LineFails, LineType
    <3> QED
      BY <1>0, <1>5, <3>1 DEF LineFails, LineType
  <2> QED
    BY <2>1, <2>2
<1> QED
  BY <1>1, <1>2, <1>3, <1>4, <1>5

\* The preference for labels, its requests and their answers.
LEMMA LabelsUsed ==
    ASSUME MapInv,
           ToggleLabels \/ \E b \in BOOLEAN : ApplyLabels(b) \/ LabelsAnswer(b) \/ LabelsFail(b)
    PROVE  MapInv' /\ line' = line
<1> USE DEF MapInv, MapTypeOK, LabelFollowed, PatchesBounded
<1>a. MaxPatches \in Nat
  BY MapAssumption
<1>0. /\ label \in LabelType /\ line' = line /\ full' = full
      /\ \A b \in BOOLEAN : label.sent[b] \in Nat /\ label.answered[b] \in Nat
  <2>1. \A b \in BOOLEAN : label.sent[b] \in 0..MaxPatches /\ label.answered[b] \in 0..MaxPatches
    BY DEF LabelType
  <2>2. \A b \in BOOLEAN : label.sent[b] \in Nat /\ label.answered[b] \in Nat
    BY <2>1, <1>a
  <2>3. line' = line /\ full' = full
    BY DEF ToggleLabels, ApplyLabels, LabelsAnswer, LabelsFail
  <2> QED
    BY <2>2, <2>3
<1>1. CASE ToggleLabels
  <2>1. PICK c : c \in BOOLEAN /\ c = ~label.shown
    <3>1. CASE label.shown
      <4>1. FALSE \in BOOLEAN /\ FALSE = ~label.shown
        BY <3>1
      <4> QED
        BY <4>1, Zenon
    <3>2. CASE ~label.shown
      <4>1. TRUE \in BOOLEAN /\ TRUE = ~label.shown
        BY <3>2
      <4> QED
        BY <4>1, Zenon
    <3> QED
      BY <3>1, <3>2
  <2>3. label.sent[c] + label.answered[c] < MaxPatches
    BY <1>1, <2>1, Zenon DEF ToggleLabels
  <2>n. PICK n \in 0..MaxPatches : n = label.sent[c] + 1
    <3>1. label.sent[c] \in Nat /\ label.answered[c] \in Nat
      BY <1>0, <2>1, Zenon
    <3>2. label.sent[c] + 1 \in 0..MaxPatches
      BY <1>a, <2>3, <3>1
    <3> QED
      BY <3>2, Zenon
  <2>2. label' = [label EXCEPT !.shown = c, !.sent[c] = n]
    BY <1>1, <2>1, <2>n, Zenon DEF ToggleLabels
  <2>4. label'.sent \in [BOOLEAN -> 0..MaxPatches] /\ label'.answered = label.answered
        /\ label'.shown = c /\ label'.data = label.data /\ label'.sent[c] = n
        /\ \A b \in BOOLEAN \ {c} : label'.sent[b] = label.sent[b]
    BY <1>0, <2>1, <2>2 DEF LabelType
  <2>5. label' \in LabelType
    BY <1>0, <2>1, <2>2, <2>4 DEF LabelType
  <2>6. LabelFollowed' /\ PatchesBounded'
    <3>1. n + label.answered[c] <= MaxPatches /\ n + label.answered[c] > 0
      <4>1. label.sent[c] \in Nat /\ label.answered[c] \in Nat
        BY <1>0, <2>1, Zenon
      <4> QED
        BY <1>a, <2>3, <2>n, <4>1
    <3>2. LabelFollowed'
      <4>1. label'.sent[label'.shown] = n /\ label'.answered[label'.shown] = label.answered[c]
        BY <2>4, Zenon
      <4> QED
        BY <3>1, <4>1
    <3>3. ASSUME NEW b \in BOOLEAN PROVE label'.sent[b] + label'.answered[b] <= MaxPatches
      <4>1. CASE b = c
        BY <2>4, <3>1, <4>1
      <4>2. CASE b # c
        BY <2>4, <4>2
      <4> QED
        BY <4>1, <4>2
    <3> QED
      BY <3>2, <3>3
  <2> QED
    BY <1>0, <2>5, <2>6
<1>2. ASSUME NEW b \in BOOLEAN, ApplyLabels(b) PROVE MapInv'
  <2>1. label' = [label EXCEPT !.sent[b] = @ - 1, !.answered[b] = @ + 1, !.stored = b]
        /\ label.sent[b] > 0
    BY <1>2 DEF ApplyLabels
  <2>2. label.sent[b] + label.answered[b] <= MaxPatches
    OBVIOUS
  <2>3. /\ label'.sent \in [BOOLEAN -> 0..MaxPatches] /\ label'.answered \in [BOOLEAN -> 0..MaxPatches]
        /\ label'.shown = label.shown /\ label'.data = label.data /\ label'.failed = label.failed
        /\ label'.sent[b] = label.sent[b] - 1 /\ label'.answered[b] = label.answered[b] + 1
        /\ \A c \in BOOLEAN \ {b} : label'.sent[c] = label.sent[c]
                                    /\ label'.answered[c] = label.answered[c]
    BY <1>0, <1>a, <2>1, <2>2 DEF LabelType
  <2>4. label' \in LabelType
    BY <1>0, <2>1, <2>3 DEF LabelType
  <2>5. \A c \in BOOLEAN : label'.sent[c] + label'.answered[c] = label.sent[c] + label.answered[c]
    <3> TAKE c \in BOOLEAN
    <3>0. label.sent[b] \in Nat /\ label.answered[b] \in Nat
      BY <1>0
    <3>1. CASE c = b
      BY <2>3, <3>0, <3>1
    <3>2. CASE c # b
      BY <2>3, <3>2
    <3> QED
      BY <3>1, <3>2
  <2>6. label.shown \in BOOLEAN
    BY <1>0 DEF LabelType
  <2> QED
    BY <1>0, <2>3, <2>4, <2>5, <2>6
<1>3. ASSUME NEW b \in BOOLEAN, LabelsAnswer(b) PROVE MapInv'
  <2>1. PICK s \in BOOLEAN : s = IF b # label.data THEN b ELSE label.shown
    BY <1>0 DEF LabelType
  <2>2. label' = [label EXCEPT !.answered[b] = @ - 1, !.data = b, !.shown = s]
        /\ label.answered[b] > 0
    BY <1>3, <2>1 DEF LabelsAnswer
  <2>3. /\ label'.answered \in [BOOLEAN -> 0..MaxPatches] /\ label'.sent = label.sent
        /\ label'.shown = s /\ label'.data = b /\ label'.failed = label.failed
        /\ label'.answered[b] = label.answered[b] - 1
        /\ \A c \in BOOLEAN \ {b} : label'.answered[c] = label.answered[c]
    BY <1>0, <1>a, <2>2 DEF LabelType
  <2>4. label' \in LabelType
    BY <1>0, <2>2, <2>3 DEF LabelType
  <2>5. PatchesBounded'
    BY <1>0, <1>a, <2>3
  <2>6. LabelFollowed'
    BY <1>0, <2>1, <2>3
  <2> QED
    BY <1>0, <2>4, <2>5, <2>6
<1>4. ASSUME NEW b \in BOOLEAN, LabelsFail(b) PROVE MapInv'
  <2>1. CASE label.sent[b] > 0 /\ label' = [label EXCEPT !.sent[b] = @ - 1, !.failed = TRUE]
    <3>1. /\ label'.sent \in [BOOLEAN -> 0..MaxPatches] /\ label'.answered = label.answered
          /\ label'.failed = TRUE /\ label'.sent[b] = label.sent[b] - 1
          /\ \A c \in BOOLEAN \ {b} : label'.sent[c] = label.sent[c]
      BY <1>0, <1>a, <2>1 DEF LabelType
    <3>2. label' \in LabelType
      BY <1>0, <2>1, <3>1 DEF LabelType
    <3> QED
      BY <1>0, <1>a, <3>1, <3>2
  <2>2. CASE label.answered[b] > 0 /\ label' = [label EXCEPT !.answered[b] = @ - 1, !.failed = TRUE]
    <3>1. /\ label'.answered \in [BOOLEAN -> 0..MaxPatches] /\ label'.sent = label.sent
          /\ label'.failed = TRUE /\ label'.answered[b] = label.answered[b] - 1
          /\ \A c \in BOOLEAN \ {b} : label'.answered[c] = label.answered[c]
      BY <1>0, <1>a, <2>2 DEF LabelType
    <3>2. label' \in LabelType
      BY <1>0, <2>2, <3>1 DEF LabelType
    <3> QED
      BY <1>0, <1>a, <3>1, <3>2
  <2> QED
    BY <1>4, <2>1, <2>2 DEF LabelsFail
<1> QED
  BY <1>0, <1>1, <1>2, <1>3, <1>4

\* The map in full size shares nothing with the rest.
LEMMA FullUsed ==
    ASSUME MapInv,
           \/ OpenFullscreen \/ Frame \/ CloseFullscreen \/ Paint \/ TransitionEnds
           \/ ToggleSheet \/ TogglePanel
    PROVE  MapInv' /\ line' = line
<1>0. full \in FullType
  BY DEF MapInv, MapTypeOK
<1>1. full' \in FullType
  <2>1. CASE OpenFullscreen
    <3>1. PICK n \in 0..2 : n = 2
      OBVIOUS
    <3>2. full' = [full EXCEPT !.mounted = TRUE, !.frames = n]
      BY <2>1, <3>1 DEF OpenFullscreen
    <3> QED
      BY <1>0, <3>2 DEF FullType
  <2>2. CASE Frame
    <3>1. PICK n \in 0..2 : n = full.frames - 1
      BY <1>0, <2>2 DEF Frame, FullType
    <3>2. CASE full.frames = 1
      <4>1. full' = [full EXCEPT !.frames = n, !.visible = TRUE]
        BY <1>0, <2>2, <3>1, <3>2 DEF Frame, FullType
      <4> QED
        BY <1>0, <4>1 DEF FullType
    <3>3. CASE full.frames # 1
      <4>1. full' = [full EXCEPT !.frames = n]
        BY <1>0, <2>2, <3>1, <3>3 DEF Frame, FullType
      <4> QED
        BY <1>0, <4>1 DEF FullType
    <3> QED
      BY <3>2, <3>3
  <2>3. CASE CloseFullscreen
    BY <1>0, <2>3 DEF CloseFullscreen, FullType
  <2>4. CASE Paint
    BY <1>0, <2>4 DEF Paint, FullType
  <2>5. CASE TransitionEnds
    BY <1>0, <2>5 DEF TransitionEnds, FullType
  <2>6. CASE ToggleSheet
    BY <1>0, <2>6 DEF ToggleSheet, FullType
  <2>7. CASE TogglePanel
    BY <1>0, <2>7 DEF TogglePanel, FullType
  <2> QED
    BY <2>1, <2>2, <2>3, <2>4, <2>5, <2>6, <2>7
<1>2. line' = line /\ label' = label
  BY DEF OpenFullscreen, Frame, CloseFullscreen, Paint, TransitionEnds, ToggleSheet, TogglePanel
<1> QED
  BY <1>1, <1>2 DEF MapInv, MapTypeOK, LabelFollowed, PatchesBounded

\* Every step of the map keeps it.
LEMMA MapNexts ==
    MapInv /\ [MapNext]_mapVars =>
        MapInv' /\ (line'.shown # line.shown => line'.shown = line'.trip)
<1> SUFFICES ASSUME MapInv, [MapNext]_mapVars
             PROVE  MapInv' /\ (line'.shown # line.shown => line'.shown = line'.trip)
  OBVIOUS
<1>1. CASE UNCHANGED mapVars
  BY <1>1 DEF mapVars, MapInv, MapTypeOK, LabelFollowed, PatchesBounded
<1> QED
  BY <1>1, LineUsed, LabelsUsed, FullUsed DEF MapNext

\* The line, the labels and the map in full size keep their types.
THEOREM MapTyped == MapSpec => []MapTypeOK
<1>1. MapInv => MapTypeOK
  BY DEF MapInv
<1> QED
  BY <1>1, MapInits, MapNexts, PTL DEF MapSpec

\* Once every change of the preference is answered, and none failed, the labels
\* are shown as the answers left it, for any number of changes on their way.
THEOREM LabelsInAgreement == MapSpec => []LabelsAgree
<1>1. MapInv => LabelsAgree
  <2> SUFFICES ASSUME MapInv, ~label.failed,
                      \A b \in BOOLEAN : label.sent[b] + label.answered[b] = 0
               PROVE  label.shown = label.data
    BY DEF LabelsAgree
  <2>1. label.shown \in BOOLEAN
    BY DEF MapInv, MapTypeOK, LabelType
  <2> QED
    BY <2>1 DEF MapInv, LabelFollowed
<1> QED
  BY <1>1, MapInits, MapNexts, PTL DEF MapSpec

\* A line that appears is the line of the stops selected now: a late answer for
\* other stops never replaces it.
THEOREM LineIsNewest == MapSpec => NewestLine
<1>1. MapInv /\ [MapNext]_mapVars =>
        [line'.shown # line.shown => line'.shown = line'.trip]_mapVars
  BY MapNexts
<1> QED
  BY <1>1, MapInits, MapNexts, PTL DEF MapSpec, NewestLine

-----------------------------------------------------------------------------
(* The forms and the directions: a form sends one request at a time.        *)

\* While a request is on its way there is nothing to be mistaken for its result.
OneRequest(t) ==
    tool[t].asked # {} => /\ tool[t].asked = {tool[t].last}
                          /\ tool[t].data = NoForm /\ tool[t].edited = {} /\ ~tool[t].error

ResultShown(t) ==
    /\ tool[t].data # NoForm => tool[t].data = tool[t].last /\ ~tool[t].error
    /\ tool[t].edited # {} => t = "group" /\ tool[t].data # NoForm

ToolInv(t) == OneRequest(t) /\ ResultShown(t)
ToolsInv == ToolsTypeOK /\ \A t \in Tools : ToolInv(t)

-----------------------------------------------------------------------------
\* A form that was just opened.
LEMMA EmptyTyped ==
    Empty \in ToolType /\ Empty.asked = {} /\ Empty.data = NoForm /\ Empty.edited = {}
  BY DEF Empty, ToolType, Form, RideType

\* Pages just opened have nothing on their way.
LEMMA ToolsStart ==
    ASSUME tool' = [t \in Tools |-> Empty],
           dir' = [loading |-> TRUE, list |-> {}, choice |-> Nowhere]
    PROVE  ToolsInv'
<1>1. \A t \in Tools : tool'[t] = Empty
  OBVIOUS
<1>2. tool' \in [Tools -> ToolType]
  BY EmptyTyped
<1>3. dir' \in DirType
  BY DEF DirType
<1> QED
  BY <1>1, <1>2, <1>3, EmptyTyped DEF ToolsInv, ToolsTypeOK, ToolInv, OneRequest, ResultShown

\* A change of one tool leaves the other alone.
LEMMA ToolChanges ==
    ASSUME ToolsInv, NEW t \in Tools, NEW new \in ToolType, Change(t, new),
           /\ new.asked # {} => /\ new.asked = {new.last}
                                /\ new.data = NoForm /\ new.edited = {} /\ ~new.error
           /\ new.data # NoForm => new.data = new.last /\ ~new.error
           /\ new.edited # {} => t = "group" /\ new.data # NoForm
    PROVE  ToolsInv'
<1>1. tool' \in [Tools -> ToolType] /\ dir' = dir
  BY DEF Change, ToolsInv, ToolsTypeOK
<1>2. tool'[t] = new /\ \A u \in Tools \ {t} : tool'[u] = tool[u]
  BY DEF Change, ToolsInv, ToolsTypeOK
<1>3. ToolInv(t)'
  BY <1>2 DEF ToolInv, OneRequest, ResultShown
<1>4. ASSUME NEW u \in Tools \ {t} PROVE ToolInv(u)'
  BY <1>2 DEF ToolsInv, ToolInv, OneRequest, ResultShown
<1> QED
  BY <1>1, <1>3, <1>4 DEF ToolsInv, ToolsTypeOK

\* What is sent is a form.
LEMMA BodyTyped == \A form \in Form : Body(form) \in Form /\ Body(form) # NoForm
  BY DEF Body, Form, RideType, NoForm

\* Filling the form changes neither the request nor its result.
LEMMA ToolFills ==
    ASSUME ToolsInv, NEW t \in Tools,
           \/ \E type \in RideType : SetType(t, type)
           \/ \E filled \in BOOLEAN : SetMessage(t, filled) \/ SetChannel(t, filled)
           \/ ToggleSettings(t)
    PROVE  ToolsInv'
<1> DEFINE old == tool[t]
<1>1. old \in ToolType /\ ToolInv(t)
  BY DEF ToolsInv, ToolsTypeOK
<1>2. ASSUME NEW new \in ToolType, Change(t, new), new.asked = old.asked, new.last = old.last,
             new.data = old.data, new.edited = old.edited, new.error = old.error
      PROVE  ToolsInv'
  BY <1>1, <1>2, ToolChanges DEF ToolInv, OneRequest, ResultShown
<1>3. ASSUME NEW type \in RideType, SetType(t, type) PROVE ToolsInv'
  BY <1>1, <1>2, <1>3 DEF SetType, ToolType, Form
<1>4. ASSUME NEW filled \in BOOLEAN, SetMessage(t, filled) PROVE ToolsInv'
  BY <1>1, <1>2, <1>4 DEF SetMessage, ToolType, Form
<1>5. ASSUME NEW filled \in BOOLEAN, SetChannel(t, filled) PROVE ToolsInv'
  BY <1>1, <1>2, <1>5 DEF SetChannel, ToolType, Form
<1>6. CASE ToggleSettings(t)
  BY <1>1, <1>2, <1>6 DEF ToggleSettings, ToolType
<1> QED
  BY <1>3, <1>4, <1>5, <1>6

\* A request is sent only while none is on its way, and clears the old result.
LEMMA ToolSubmits == ASSUME ToolsInv, NEW t \in Tools, Submit(t) PROVE ToolsInv'
<1> DEFINE form == Body(tool[t].form)
           new == [tool[t] EXCEPT !.asked = @ \cup {form}, !.last = form,
                                  !.data = NoForm, !.edited = {}, !.error = FALSE]
<1>1. tool[t] \in ToolType
  BY DEF ToolsInv, ToolsTypeOK
<1>2. tool[t].asked = {}
  BY DEF Submit, ToolControls, FormControls, If
<1>3. form \in Form
  BY <1>1, BodyTyped DEF ToolType
<1>4. new \in ToolType /\ new.asked = {form} /\ new.last = form
      /\ new.data = NoForm /\ new.edited = {} /\ ~new.error
  BY <1>1, <1>2, <1>3 DEF ToolType
<1>5. Change(t, new)
  BY DEF Submit
<1> HIDE DEF new, form
<1> QED
  BY <1>4, <1>5, ToolChanges

\* An answer is that of the last request, and so is a failure.
LEMMA ToolAnswered ==
    ASSUME ToolsInv, NEW t \in Tools, NEW form \in tool[t].asked,
           ToolAnswers(t, form) \/ ToolFails(t, form)
    PROVE  ToolsInv'
<1>1. tool[t] \in ToolType /\ ToolInv(t)
  BY DEF ToolsInv, ToolsTypeOK
<1>2. /\ tool[t].asked = {form} /\ tool[t].last = form /\ form \in Form
      /\ tool[t].data = NoForm /\ tool[t].edited = {} /\ ~tool[t].error
  BY <1>1 DEF ToolInv, OneRequest, ToolType
<1>3. CASE ToolAnswers(t, form)
  <2> DEFINE new == [tool[t] EXCEPT !.asked = @ \ {form}, !.data = form]
  <2>1. new \in ToolType /\ new.asked = {} /\ new.data = new.last /\ new.edited = {} /\ ~new.error
    BY <1>1, <1>2 DEF ToolType
  <2>2. Change(t, new)
    BY <1>3 DEF ToolAnswers
  <2> HIDE DEF new
  <2> QED
    BY <2>1, <2>2, ToolChanges
<1>4. CASE ToolFails(t, form)
  <2> DEFINE new == [tool[t] EXCEPT !.asked = @ \ {form}, !.error = TRUE]
  <2>1. new \in ToolType /\ new.asked = {} /\ new.data = NoForm /\ new.edited = {}
    BY <1>1, <1>2 DEF ToolType
  <2>2. Change(t, new)
    BY <1>4 DEF ToolFails
  <2> HIDE DEF new
  <2> QED
    BY <2>1, <2>2, ToolChanges
<1> QED
  BY <1>3, <1>4

\* A grouping is changed, or put back, only in a result that is there.
LEMMA ToolEdits ==
    ASSUME ToolsInv, NEW car \in Cars, EditGrouping(car) \/ RevertGrouping(car) PROVE ToolsInv'
<1> DEFINE old == tool["group"]
<1>1. "group" \in Tools /\ old \in ToolType /\ ToolInv("group")
  BY DEF ToolsInv, ToolsTypeOK, Tools
<1>2. old.data # NoForm /\ old.asked = {}
  <2>1. old.data # NoForm
    BY <1>1 DEF EditGrouping, RevertGrouping, ToolControls, FormControls, If, ToolInv, ResultShown
  <2> QED
    BY <1>1, <2>1 DEF ToolInv, OneRequest
<1>3. CASE EditGrouping(car)
  <2> DEFINE new == [old EXCEPT !.edited = @ \cup {car}]
  <2>1. /\ new \in ToolType /\ new.asked = {} /\ new.data = old.data
        /\ new.last = old.last /\ new.error = old.error
    BY <1>1, <1>2 DEF ToolType
  <2>2. Change("group", new)
    BY <1>3 DEF EditGrouping
  <2> HIDE DEF new
  <2> QED
    BY <1>1, <1>2, <2>1, <2>2, ToolChanges DEF ToolInv, ResultShown
<1>4. CASE RevertGrouping(car)
  <2> DEFINE new == [old EXCEPT !.edited = @ \ {car}]
  <2>1. /\ new \in ToolType /\ new.asked = {} /\ new.data = old.data
        /\ new.last = old.last /\ new.error = old.error
    BY <1>1, <1>2 DEF ToolType
  <2>2. Change("group", new)
    BY <1>4 DEF RevertGrouping
  <2> HIDE DEF new
  <2> QED
    BY <1>1, <1>2, <2>1, <2>2, ToolChanges DEF ToolInv, ResultShown
<1> QED
  BY <1>3, <1>4

\* The directions share nothing with the forms.
LEMMA DirKeeps ==
    ASSUME ToolsInv,
           (\E list \in SUBSET Places : DirArrives(list)) \/ (\E p \in Places : Choose(p))
    PROVE  ToolsInv'
<1>1. tool' = tool
  BY DEF DirArrives, Choose
<1>2. dir' \in DirType
  BY DEF DirArrives, Choose, DirType, ToolsInv, ToolsTypeOK
<1> QED
  BY <1>1, <1>2 DEF ToolsInv, ToolsTypeOK, ToolInv, OneRequest, ResultShown

\* Every step of the tools keeps it.
LEMMA ToolsNexts == ToolsInv /\ [ToolsNext]_toolsVars => ToolsInv'
<1> SUFFICES ASSUME ToolsInv, [ToolsNext]_toolsVars PROVE ToolsInv'
  OBVIOUS
<1>1. CASE UNCHANGED toolsVars
  BY <1>1 DEF toolsVars, ToolsInv, ToolsTypeOK, ToolInv, OneRequest, ResultShown
<1>2. CASE LeaveTools
  BY <1>2, ToolsStart DEF LeaveTools
<1> QED
  BY <1>1, <1>2, ToolFills, ToolSubmits, ToolAnswered, ToolEdits, DirKeeps DEF ToolsNext

\* What holds when the pages are opened.
LEMMA ToolsInits == ToolsInit => ToolsInv
<1> SUFFICES ASSUME ToolsInit PROVE ToolsInv
  OBVIOUS
<1>1. tool \in [Tools -> ToolType] /\ \A t \in Tools : tool[t] = Empty
  BY EmptyTyped DEF ToolsInit
<1>2. dir \in DirType
  BY DEF ToolsInit, DirType
<1> QED
  BY <1>1, <1>2, EmptyTyped DEF ToolsInv, ToolsTypeOK, ToolInv, OneRequest, ResultShown

-----------------------------------------------------------------------------
\* Both forms and the directions keep their types.
THEOREM ToolsTyped == ToolsSpec => []ToolsTypeOK
<1>1. ToolsInv => ToolsTypeOK
  BY DEF ToolsInv
<1> QED
  BY <1>1, ToolsInits, ToolsNexts, PTL DEF ToolsSpec

\* A result is that of the request sent last, for all groupings and locations.
THEOREM ResultsOfLast == ToolsSpec => []ResultOfLastAsked
<1>1. ToolsInv => ResultOfLastAsked
  BY DEF ToolsInv, ToolInv, ResultShown, ResultOfLastAsked
<1> QED
  BY <1>1, ToolsInits, ToolsNexts, PTL DEF ToolsSpec

-----------------------------------------------------------------------------
(* The demo: nothing on its way is about an account that is protected.      *)

\* No request and no dialog is about an account in the list of admins.
SafeStore(s) == s \in StoreType /\ \A i \in Admins : s.users[i].role = "admin"
SafeAsked(a) == a \in AskedType /\ a.delete \notin Admins /\ \A r \in a.role : r.id \notin Admins
SafeUi(p) == p \in UiType /\ p.target \notin Admins

DemoInv ==
    /\ SafeStore(store) /\ SafeAsked(asked) /\ SafeUi(ui)
    /\ shown \in ShownType
    /\ DemoAgrees

-----------------------------------------------------------------------------
\* A value that is there,
LEMMA OneOf == ASSUME NEW S, NEW v \in S PROVE {v} \in Some(S)
  BY DEF Some

\* and one that is missing.
LEMMA NoneOf == ASSUME NEW S PROVE Missing \in Some(S)
  BY DEF Some

\* The accounts in the list of admins have ids.
LEMMA AdminsAreIds == Admins \subseteq Ids /\ NoId \notin Ids /\ NoId \notin Admins
  BY DemoAssumption DEF Admins, Ids, NoId

\* A flag is set: the accounts stay.
LEMMA FlagIsSet ==
    ASSUME NEW s, SafeStore(s), NEW r \in [name : Flags, enabled : BOOLEAN]
    PROVE  SafeStore(SetFlag(s, r)) /\ SetFlag(s, r).users = s.users
<1>1. r.name \in Flags /\ r.enabled \in BOOLEAN
  OBVIOUS
<1>2. [s.flags EXCEPT ![r.name] = r.enabled] \in [Flags -> BOOLEAN]
  BY <1>1 DEF SafeStore, StoreType
<1>3. PICK new : new = [s EXCEPT !.flags[r.name] = r.enabled]
  OBVIOUS
<1>4. new \in StoreType /\ new.users = s.users
  BY <1>2, <1>3 DEF SafeStore, StoreType
<1> QED
  BY <1>3, <1>4 DEF SafeStore, SetFlag

\* The role of another account than the admins' is set: the flags stay.
LEMMA RoleIsSet ==
    ASSUME NEW s, SafeStore(s), NEW r \in [id : Ids, role : AccountRole], r.id \notin Admins
    PROVE  SafeStore(SetRole(s, r)) /\ SetRole(s, r).flags = s.flags
<1>1. r.id \in Ids /\ r.role \in AccountRole
  OBVIOUS
<1>2. PICK id \in Ids : id = r.id
  BY <1>1
<1>3. PICK old \in Account \cup {Absent} : old = s.users[id]
  BY DEF SafeStore, StoreType, UserTable
<1>4. PICK role : role = IF old.email THEN r.role ELSE old.role
  OBVIOUS
<1>5. PICK one : one = [old EXCEPT !.role = role]
  OBVIOUS
<1>6. one \in Account \cup {Absent}
  <2>1. CASE old \in Account
    BY <1>1, <1>4, <1>5, <2>1 DEF Account
  <2>2. CASE old = Absent
    BY <1>4, <1>5, <2>2 DEF Absent
  <2> QED
    BY <2>1, <2>2
<1>7. PICK table : table = [s.users EXCEPT ![id] = one]
  OBVIOUS
<1>8. table \in UserTable /\ \A i \in Admins : table[i] = s.users[i]
  BY <1>2, <1>6, <1>7, AdminsAreIds DEF SafeStore, StoreType, UserTable
<1>9. PICK new : new = [s EXCEPT !.users = table]
  OBVIOUS
<1>10. new \in StoreType /\ new.flags = s.flags /\ new.users = table
  BY <1>8, <1>9 DEF SafeStore, StoreType
<1>11. SetRole(s, r) = new
  BY <1>2, <1>3, <1>4, <1>5, <1>7, <1>9 DEF SetRole
<1>12. SafeStore(new)
  BY <1>8, <1>10 DEF SafeStore
<1> QED
  BY <1>10, <1>11, <1>12

\* Another account than the admins' is written: the flags stay.
LEMMA OneIsSet ==
    ASSUME NEW s, SafeStore(s), NEW id \in Ids \ Admins, NEW one \in Account \cup {Absent}
    PROVE  /\ SafeStore([s EXCEPT !.users[id] = one])
           /\ [s EXCEPT !.users[id] = one].flags = s.flags
<1>1. PICK table : table = [s.users EXCEPT ![id] = one]
  OBVIOUS
<1>2. table \in UserTable /\ \A i \in Admins : table[i] = s.users[i]
  BY <1>1, AdminsAreIds DEF SafeStore, StoreType, UserTable
<1>3. PICK new : new = [s EXCEPT !.users = table]
  OBVIOUS
<1>4. new \in StoreType /\ new.flags = s.flags /\ new.users = table
  BY <1>2, <1>3 DEF SafeStore, StoreType
<1>5. SafeStore(new)
  BY <1>2, <1>4 DEF SafeStore
<1>6. [s EXCEPT !.users[id] = one] = new
  BY <1>1, <1>3
<1> QED
  BY <1>4, <1>5, <1>6

\* A set of natural numbers that is not empty has a least,
LEMMA LeastOf ==
    ASSUME NEW T \in SUBSET Nat, T # {}
    PROVE  \E x \in T : \A y \in T : x <= y
<1>1. PICK x \in T : \A y \in T : ~(<<y, x>> \in OpToRel(<, Nat))
  BY WFMin, NatLessThanWellFounded
<1>2. \A y \in T : ~(y < x)
  BY <1>1 DEF OpToRel
<1> QED
  BY <1>2

\* and with a bound a greatest.
LEMMA GreatestOf ==
    ASSUME NEW n \in Nat, NEW T \in SUBSET (0..n), T # {}
    PROVE  \E x \in T : \A y \in T : y <= x
<1> DEFINE above == {i \in Nat : \A y \in T : y <= i}
<1>1. n \in above
  OBVIOUS
<1>2. PICK x \in above : \A i \in above : x <= i
  BY <1>1, LeastOf
<1>3. CASE x \in T
  BY <1>3, <1>2
<1>4. CASE x \notin T
  <2>1. \A y \in T : y < x /\ 0 <= y
    BY <1>2, <1>4
  <2>2. PICK z \in T : TRUE
    OBVIOUS
  <2>3. x - 1 \in above
    BY <1>2, <2>1, <2>2
  <2> QED
    BY <1>2, <2>3
<1> QED
  BY <1>3, <1>4

\* The new id is above every id in use, so it is nobody's in the list of admins.
LEMMA NewIdIsNew == ASSUME NEW s, SafeStore(s) PROVE NewId(s) \notin Admins
<1> DEFINE E == Existing(s)
<1>1. 1 \in E /\ 2 \in E /\ E \subseteq Ids
  BY DemoAssumption DEF SafeStore, StoreType, Existing, Admins, Ids, Absent
<1> HIDE DEF E
<1>2. PICK top \in E : \A j \in E : j <= top
  <2>1. E \in SUBSET (0..MaxAccounts) /\ E # {}
    BY <1>1, DemoAssumption DEF Ids
  <2> QED
    BY <2>1, GreatestOf, DemoAssumption
<1>3. PICK max : max = CHOOSE i \in E : \A j \in E : j <= i
  OBVIOUS
<1>4. max \in E /\ \A j \in E : j <= max
  BY <1>2, <1>3
<1>5. max \in Nat /\ 2 <= max /\ NewId(s) = max + 1
  BY <1>1, <1>3, <1>4, DemoAssumption DEF NewId, Ids, E
<1> QED
  BY <1>5 DEF Admins

-----------------------------------------------------------------------------
\* What holds when the demo is opened.
LEMMA DemoStarts == DemoInit => DemoInv
<1> SUFFICES ASSUME DemoInit PROVE DemoInv
  OBVIOUS
<1>1. SafeStore(store)
  <2> DEFINE users == [i \in Ids |-> CASE i \in Admins -> [role |-> "admin", email |-> TRUE]
                                       []   i = 3 -> [role |-> "viewer", email |-> TRUE]
                                       []   OTHER -> Absent]
  <2>1. [role |-> "admin", email |-> TRUE] \in Account /\ [role |-> "viewer", email |-> TRUE] \in Account
    BY DEF Account, AccountRole
  <2>2. users \in UserTable
    BY <2>1 DEF UserTable
  <2>3. ASSUME NEW i \in Admins PROVE users[i].role = "admin"
    <3>1. i # 3 /\ i \in Ids
      BY AdminsAreIds DEF Admins
    <3>2. users[i] = [role |-> "admin", email |-> TRUE]
      BY <3>1
    <3> QED
      BY <3>2
  <2> HIDE DEF users
  <2>4. PICK f : f = [x \in Flags |-> x = FridayFlag]
    OBVIOUS
  <2>5. f \in [Flags -> BOOLEAN]
    BY <2>4
  <2>6. store = [flags |-> f, users |-> users]
    BY <2>4 DEF DemoInit, users
  <2> QED
    BY <2>2, <2>3, <2>5, <2>6 DEF SafeStore, StoreType
<1>2. SafeAsked(asked)
  <2>1. asked \in AskedType
    BY NoneOf DEF DemoInit, AskedType
  <2> QED
    BY <2>1, AdminsAreIds DEF DemoInit, SafeAsked, Missing
<1>3. SafeUi(ui)
  BY AdminsAreIds DEF DemoInit, SafeUi, UiType, AccountRole
<1>4. shown \in ShownType
  <2>1. shown = [flags |-> Missing, users |-> Missing, status |-> Missing]
    BY DEF DemoInit, Queries
  <2> QED
    BY <2>1, NoneOf DEF ShownType
<1>5. DemoAgrees
  BY DEF DemoInit, DemoAgrees
<1> QED
  BY <1>1, <1>2, <1>3, <1>4, <1>5 DEF DemoInv

\* What a page does: its own state and the requests it sends.
LEMMA PageKeeps ==
    ASSUME DemoInv, NEW p, SafeUi(p), NEW a, SafeAsked(a), a.get = asked.get, Page(p, a)
    PROVE  DemoInv'
  BY DEF DemoInv, Page, DemoAgrees

\* What the end of a request does.
LEMMA AppliedKeeps ==
    ASSUME DemoInv, NEW s, SafeStore(s), NEW a, SafeAsked(a), a.get = asked.get,
           NEW q \in SUBSET Queries, NEW p, SafeUi(p), Applied(s, a, q, p),
           \A query \in Queries \ q : MockData(s, query) = MockData(store, query)
    PROVE  DemoInv'
<1>1. PICK new : new = [a EXCEPT !.get = @ \cup q]
  OBVIOUS
<1>2. new \in AskedType /\ new.get = asked.get \cup q /\ new.delete = a.delete /\ new.role = a.role
  BY <1>1 DEF SafeAsked, AskedType
<1>3. SafeAsked(new)
  BY <1>2 DEF SafeAsked
<1>4. asked' = new /\ store' = s /\ ui' = p /\ shown' = shown
  BY <1>1 DEF Applied
<1>5. DemoAgrees'
  BY <1>2, <1>4 DEF DemoAgrees, DemoInv
<1> QED
  BY <1>3, <1>4, <1>5 DEF DemoInv

\* The ends of the requests: a flag,
LEMMA FlagKeeps == ASSUME DemoInv, FlagApplied PROVE DemoInv'
<1>1. SafeAsked(asked) /\ SafeStore(store) /\ SafeUi(ui)
  BY DEF DemoInv
<1>2. PICK r \in asked.flag :
         Applied(SetFlag(store, r), [asked EXCEPT !.flag = Missing], {"flags", "status"}, ui)
  BY DEF FlagApplied
<1>3. r \in [name : Flags, enabled : BOOLEAN]
  BY <1>1 DEF SafeAsked, AskedType, Some, Missing
<1>4. SafeStore(SetFlag(store, r)) /\ SetFlag(store, r).users = store.users
  BY <1>1, <1>3, FlagIsSet
<1>5. PICK a : a = [asked EXCEPT !.flag = Missing]
  OBVIOUS
<1>6. a \in AskedType /\ a.get = asked.get /\ a.delete = asked.delete /\ a.role = asked.role
  BY <1>1, <1>5, NoneOf DEF SafeAsked, AskedType
<1>7. SafeAsked(a)
  BY <1>1, <1>6 DEF SafeAsked
<1>8. \A query \in Queries \ {"flags", "status"} :
         MockData(SetFlag(store, r), query) = MockData(store, query)
  BY <1>4 DEF MockData, Queries
<1>9. {"flags", "status"} \in SUBSET Queries
  BY DEF Queries
<1> QED
  BY <1>1, <1>2, <1>4, <1>5, <1>6, <1>7, <1>8, <1>9, AppliedKeeps

\* a role,
LEMMA RoleKeeps == ASSUME DemoInv, RoleApplied PROVE DemoInv'
<1>1. SafeAsked(asked) /\ SafeStore(store) /\ SafeUi(ui)
  BY DEF DemoInv
<1>2. PICK r \in asked.role :
         Applied(SetRole(store, r), [asked EXCEPT !.role = Missing], {"users"}, ui)
  BY DEF RoleApplied
<1>3. r \in [id : Ids, role : AccountRole] /\ r.id \notin Admins
  BY <1>1 DEF SafeAsked, AskedType, Some, Missing
<1>4. SafeStore(SetRole(store, r)) /\ SetRole(store, r).flags = store.flags
  BY <1>1, <1>3, RoleIsSet
<1>5. PICK a : a = [asked EXCEPT !.role = Missing]
  OBVIOUS
<1>6. a \in AskedType /\ a.get = asked.get /\ a.delete = asked.delete /\ a.role = Missing
  BY <1>1, <1>5, NoneOf DEF SafeAsked, AskedType
<1>7. SafeAsked(a)
  BY <1>1, <1>6 DEF SafeAsked, Missing
<1>8. \A query \in Queries \ {"users"} :
         MockData(SetRole(store, r), query) = MockData(store, query)
  BY <1>4 DEF MockData, Queries, Status
<1>9. {"users"} \in SUBSET Queries
  BY DEF Queries
<1> QED
  BY <1>1, <1>2, <1>4, <1>5, <1>6, <1>7, <1>8, <1>9, AppliedKeeps

\* an invitation,
LEMMA InviteKeeps == ASSUME DemoInv, InviteApplied PROVE DemoInv'
<1>1. SafeAsked(asked) /\ SafeStore(store) /\ SafeUi(ui)
  BY DEF DemoInv
<1>2. PICK role \in asked.invite :
        /\ NewId(store) \in Ids
        /\ Applied(AddUser(store, role), [asked EXCEPT !.invite = Missing], {"users"},
                   [ui EXCEPT !.invite = "", !.inviteRole = "viewer"])
  BY DEF InviteApplied
<1>3. role \in AccountRole
  BY <1>1 DEF SafeAsked, AskedType, Some, Missing
<1>4. PICK one : one = [role |-> role, email |-> FALSE]
  OBVIOUS
<1>5. one \in Account
  BY <1>3, <1>4 DEF Account
<1>6. NewId(store) \in Ids \ Admins
  BY <1>1, <1>2, NewIdIsNew
<1>7. SafeStore(AddUser(store, role)) /\ AddUser(store, role).flags = store.flags
  BY <1>1, <1>4, <1>5, <1>6, OneIsSet DEF AddUser
<1>8. PICK a : a = [asked EXCEPT !.invite = Missing]
  OBVIOUS
<1>9. a \in AskedType /\ a.get = asked.get /\ a.delete = asked.delete /\ a.role = asked.role
  BY <1>1, <1>8, NoneOf DEF SafeAsked, AskedType
<1>10. SafeAsked(a)
  BY <1>1, <1>9 DEF SafeAsked
<1>11. PICK p : p = [ui EXCEPT !.invite = "", !.inviteRole = "viewer"]
  OBVIOUS
<1>12. SafeUi(p)
  BY <1>1, <1>11 DEF SafeUi, UiType, AccountRole
<1>13. \A query \in Queries \ {"users"} :
         MockData(AddUser(store, role), query) = MockData(store, query)
  BY <1>7 DEF MockData, Queries, Status
<1>14. {"users"} \in SUBSET Queries
  BY DEF Queries
<1> QED
  BY <1>1, <1>2, <1>7, <1>8, <1>9, <1>10, <1>11, <1>12, <1>13, <1>14, AppliedKeeps

\* a deletion,
LEMMA DeleteKeeps == ASSUME DemoInv, DeleteApplied PROVE DemoInv'
<1>1. SafeAsked(asked) /\ SafeStore(store) /\ SafeUi(ui)
  BY DEF DemoInv
<1>2. PICK id : id = asked.delete
  OBVIOUS
<1>3. id \in Ids \ Admins
  BY <1>1, <1>2 DEF DeleteApplied, SafeAsked, AskedType
<1>4. SafeStore(DropUser(store, id)) /\ DropUser(store, id).flags = store.flags
  BY <1>1, <1>3, OneIsSet DEF DropUser
<1>5. PICK a : a = [asked EXCEPT !.delete = NoId]
  OBVIOUS
<1>6. a \in AskedType /\ a.get = asked.get /\ a.delete = NoId /\ a.role = asked.role
  BY <1>1, <1>5 DEF SafeAsked, AskedType
<1>7. SafeAsked(a)
  BY <1>1, <1>6, AdminsAreIds DEF SafeAsked
<1>8. \A query \in Queries \ {"users"} :
         MockData(DropUser(store, id), query) = MockData(store, query)
  BY <1>4 DEF MockData, Queries, Status
<1>9. Applied(DropUser(store, id), a, {"users"}, ui)
  BY <1>2, <1>5 DEF DeleteApplied
<1>10. {"users"} \in SUBSET Queries
  BY DEF Queries
<1> QED
  BY <1>1, <1>4, <1>6, <1>7, <1>8, <1>9, <1>10, AppliedKeeps

\* and those that change nothing.
LEMMA AnsweredAloneKeeps ==
    ASSUME DemoInv, PauseApplied \/ SendApplied \/ WipeApplied PROVE DemoInv'
<1>1. SafeAsked(asked) /\ SafeStore(store) /\ SafeUi(ui)
  BY DEF DemoInv
<1>2. PICK f : f = FALSE
  OBVIOUS
<1>3. PICK a, b, c, p : /\ a = [asked EXCEPT !.pause = f] /\ b = [asked EXCEPT !.send = f]
                        /\ c = [asked EXCEPT !.wipe = f] /\ p = [ui EXCEPT !.modal = f]
  OBVIOUS
<1>4. /\ a \in AskedType /\ a.get = asked.get /\ a.delete = asked.delete /\ a.role = asked.role
      /\ b \in AskedType /\ b.get = asked.get /\ b.delete = asked.delete /\ b.role = asked.role
      /\ c \in AskedType /\ c.get = asked.get /\ c.delete = asked.delete /\ c.role = asked.role
  BY <1>1, <1>2, <1>3 DEF SafeAsked, AskedType
<1>5. SafeAsked(a) /\ SafeAsked(b) /\ SafeAsked(c)
  BY <1>1, <1>4 DEF SafeAsked
<1>6. SafeUi(p)
  BY <1>1, <1>2, <1>3 DEF SafeUi, UiType
<1>7. {"status"} \in SUBSET Queries /\ {} \in SUBSET Queries
  BY DEF Queries
<1>8. Applied(store, a, {"status"}, p) \/ Applied(store, b, {"status"}, ui)
      \/ Applied(store, c, {}, ui)
  BY <1>2, <1>3 DEF PauseApplied, SendApplied, WipeApplied
<1> QED
  BY <1>1, <1>4, <1>5, <1>6, <1>7, <1>8, AppliedKeeps

\* The queries are asked again, and answered from the store.
LEMMA QueriesKeep == ASSUME DemoInv, FocusDemo \/ \E query \in Queries : Answered(query) PROVE DemoInv'
<1>1. SafeAsked(asked) /\ SafeStore(store) /\ SafeUi(ui) /\ shown \in ShownType /\ DemoAgrees
  BY DEF DemoInv
<1>2. CASE FocusDemo
  <2>1. PICK a : a = [asked EXCEPT !.get = Queries]
    OBVIOUS
  <2>2. a \in AskedType /\ a.get = Queries /\ a.delete = asked.delete /\ a.role = asked.role
    BY <1>1, <2>1 DEF SafeAsked, AskedType
  <2>3. SafeAsked(a)
    BY <1>1, <2>2 DEF SafeAsked
  <2>4. asked' = a /\ store' = store /\ shown' = shown /\ ui' = ui
    BY <1>2, <2>1 DEF FocusDemo
  <2> QED
    BY <1>1, <2>2, <2>3, <2>4 DEF DemoInv, DemoAgrees
<1>3. ASSUME NEW query \in Queries, Answered(query) PROVE DemoInv'
  <2>1. PICK a : a = [asked EXCEPT !.get = @ \ {query}]
    OBVIOUS
  <2>2. a \in AskedType /\ a.get = asked.get \ {query} /\ a.delete = asked.delete /\ a.role = asked.role
    BY <1>1, <2>1 DEF SafeAsked, AskedType
  <2>3. SafeAsked(a)
    BY <1>1, <2>2 DEF SafeAsked
  <2>4. PICK data : data = MockData(store, query)
    OBVIOUS
  <2>5. PICK new : new = [shown EXCEPT ![query] = {data}]
    OBVIOUS
  <2>6. asked' = a /\ store' = store /\ shown' = new /\ ui' = ui
    BY <1>3, <2>1, <2>4, <2>5 DEF Answered
  <2>7. new \in ShownType
    <3>1. CASE query = "flags"
      <4>1. {data} \in Some([Flags -> BOOLEAN])
        BY <1>1, <2>4, <3>1, OneOf DEF MockData, SafeStore, StoreType
      <4> QED
        BY <1>1, <2>5, <3>1, <4>1 DEF ShownType
    <3>2. CASE query = "users"
      <4>1. {data} \in Some(UserTable)
        BY <1>1, <2>4, <3>2, OneOf DEF MockData, SafeStore, StoreType
      <4> QED
        BY <1>1, <2>5, <3>2, <4>1 DEF ShownType
    <3>3. CASE query = "status"
      <4>1. data \in [friday : BOOLEAN]
        BY <1>1, <2>4, <3>3 DEF MockData, SafeStore, StoreType, Status, Flags, FridayFlag
      <4>2. {data} \in Some([friday : BOOLEAN])
        BY <4>1, OneOf
      <4> QED
        BY <1>1, <2>5, <3>3, <4>2 DEF ShownType
    <3> QED
      BY <3>1, <3>2, <3>3 DEF Queries
  <2>8. new[query] = {data} /\ \A q \in Queries \ {query} : new[q] = shown[q]
    BY <1>1, <2>5 DEF ShownType, Queries
  <2>9. DemoAgrees'
    BY <1>1, <2>2, <2>4, <2>6, <2>8 DEF DemoAgrees
  <2> QED
    BY <1>1, <2>3, <2>6, <2>7, <2>9 DEF DemoInv
<1> QED
  BY <1>2, <1>3

\* What a panel shows of an account that is protected has no button.
LEMMA PanelsKeep ==
    ASSUME DemoInv,
           \/ DemoEditMode \/ \E f \in Flags : DemoToggle(f)
           \/ DemoInvite \/ \E text \in {"", "filled"}, role \in AccountRole : DemoTypeInvite(text, role)
           \/ \E yes \in BOOLEAN : DemoConfirm(yes)
           \/ DemoPause \/ \E button \in {"send", "wipe"} : DemoPress(button)
    PROVE  DemoInv'
<1>1. SafeAsked(asked) /\ SafeUi(ui) /\ shown \in ShownType
  BY DEF DemoInv
<1>2. ASSUME NEW a \in AskedType, a.get = asked.get, a.delete = asked.delete, a.role = asked.role,
             NEW p \in UiType, p.target = ui.target, Page(p, a)
      PROVE  DemoInv'
  <2>1. SafeAsked(a) /\ SafeUi(p)
    BY <1>1, <1>2 DEF SafeAsked, SafeUi
  <2> QED
    BY <1>2, <2>1, PageKeeps
<1>3. asked \in AskedType /\ ui \in UiType
  BY <1>1 DEF SafeAsked, SafeUi
<1>4. CASE DemoEditMode
  <2>1. PICK p : p = [ui EXCEPT !.edit = ~@]
    OBVIOUS
  <2>2. p \in UiType /\ p.target = ui.target
    BY <1>3, <2>1 DEF UiType
  <2>3. Page(p, asked)
    BY <1>4, <2>1 DEF DemoEditMode
  <2> QED
    BY <1>2, <1>3, <2>2, <2>3
<1>5. ASSUME NEW f \in Flags, DemoToggle(f) PROVE DemoInv'
  <2>1. PICK m : m = {[name |-> f, enabled |-> ~flags[f]] : flags \in shown.flags}
    OBVIOUS
  <2>2. m \in Some([name : Flags, enabled : BOOLEAN])
    <3>1. shown.flags \in Some([Flags -> BOOLEAN])
      BY <1>1 DEF ShownType
    <3>2. CASE shown.flags = {}
      <4>1. m = {}
        BY <2>1, <3>2
      <4> QED
        BY <4>1 DEF Some, Missing
    <3>3. ASSUME NEW flags \in [Flags -> BOOLEAN], shown.flags = {flags}
          PROVE  m \in Some([name : Flags, enabled : BOOLEAN])
      <4>1. PICK b \in BOOLEAN : b = ~flags[f]
        OBVIOUS
      <4>2. PICK r : r = [name |-> f, enabled |-> b]
        OBVIOUS
      <4>3. r \in [name : Flags, enabled : BOOLEAN]
        BY <4>1, <4>2
      <4>4. m = {r}
        BY <2>1, <3>3, <4>1, <4>2, Zenon
      <4> QED
        BY <4>3, <4>4, OneOf
    <3> QED
      BY <3>1, <3>2, <3>3 DEF Some, Missing
  <2>3. PICK a : a = [asked EXCEPT !.flag = m]
    OBVIOUS
  <2>4. a \in AskedType /\ a.get = asked.get /\ a.delete = asked.delete /\ a.role = asked.role
    BY <1>3, <2>2, <2>3 DEF AskedType
  <2>5. Page(ui, a)
    BY <1>5, <2>1, <2>3 DEF DemoToggle
  <2> QED
    BY <1>2, <1>3, <2>4, <2>5
<1>6. CASE DemoInvite
  <2>1. {ui.inviteRole} \in Some(AccountRole)
    BY <1>3, OneOf DEF UiType
  <2>2. PICK a : a = [asked EXCEPT !.invite = {ui.inviteRole}]
    OBVIOUS
  <2>3. a \in AskedType /\ a.get = asked.get /\ a.delete = asked.delete /\ a.role = asked.role
    BY <1>3, <2>1, <2>2 DEF AskedType
  <2>4. Page(ui, a)
    BY <1>6, <2>2 DEF DemoInvite
  <2> QED
    BY <1>2, <1>3, <2>3, <2>4
<1>7. ASSUME NEW text \in {"", "filled"}, NEW role \in AccountRole, DemoTypeInvite(text, role)
      PROVE  DemoInv'
  <2>1. PICK p : p = [ui EXCEPT !.invite = text, !.inviteRole = role]
    OBVIOUS
  <2>2. p \in UiType /\ p.target = ui.target
    BY <1>3, <2>1 DEF UiType
  <2>3. Page(p, asked)
    BY <1>7, <2>1 DEF DemoTypeInvite
  <2> QED
    BY <1>2, <1>3, <2>2, <2>3
<1>8. PICK t : t = TRUE
  OBVIOUS
<1>9. PICK a, b, c, p : /\ a = [asked EXCEPT !.send = t] /\ b = [asked EXCEPT !.wipe = t]
                        /\ c = [asked EXCEPT !.pause = t] /\ p = [ui EXCEPT !.confirm = ""]
  OBVIOUS
<1>10. /\ a \in AskedType /\ a.get = asked.get /\ a.delete = asked.delete /\ a.role = asked.role
       /\ b \in AskedType /\ b.get = asked.get /\ b.delete = asked.delete /\ b.role = asked.role
       /\ c \in AskedType /\ c.get = asked.get /\ c.delete = asked.delete /\ c.role = asked.role
  BY <1>3, <1>8, <1>9 DEF AskedType
<1>11. p \in UiType /\ p.target = ui.target
  BY <1>3, <1>9 DEF UiType
<1>12. ASSUME NEW yes \in BOOLEAN, DemoConfirm(yes) PROVE DemoInv'
  <2>1. ui.confirm \in {"send", "wipe"}
    BY <1>3, <1>12 DEF DemoConfirm, UiType
  <2>2. Page(p, asked) \/ Page(p, a) \/ Page(p, b)
    <3>1. CASE ~yes
      BY <1>9, <1>12, <3>1 DEF DemoConfirm
    <3>2. CASE yes /\ ui.confirm = "send"
      BY <1>8, <1>9, <1>12, <3>2 DEF DemoConfirm
    <3>3. CASE yes /\ ui.confirm = "wipe"
      BY <1>8, <1>9, <1>12, <3>3 DEF DemoConfirm
    <3> QED
      BY <2>1, <3>1, <3>2, <3>3
  <2> QED
    BY <1>2, <1>3, <1>10, <1>11, <2>2
<1>13. CASE DemoPause
  <2>1. CASE Page(ui, c)
    BY <1>2, <1>3, <1>10, <2>1
  <2>2. ASSUME NEW v \in BOOLEAN, Page([ui EXCEPT !.modal = v], asked) PROVE DemoInv'
    <3>1. PICK q : q = [ui EXCEPT !.modal = v]
      OBVIOUS
    <3>2. q \in UiType /\ q.target = ui.target
      BY <1>3, <3>1 DEF UiType
    <3> QED
      BY <1>2, <1>3, <2>2, <3>1, <3>2
  <2>3. Page(ui, c) \/ \E v \in BOOLEAN : Page([ui EXCEPT !.modal = v], asked)
    BY <1>8, <1>9, <1>13, Zenon DEF DemoPause
  <2> QED
    BY <2>1, <2>2, <2>3
<1>14. ASSUME NEW button \in {"send", "wipe"}, DemoPress(button) PROVE DemoInv'
  <2>1. PICK q : q = [ui EXCEPT !.confirm = button]
    OBVIOUS
  <2>2. q \in UiType /\ q.target = ui.target
    BY <1>3, <2>1 DEF UiType
  <2>3. Page(q, asked)
    BY <1>14, <2>1 DEF DemoPress
  <2> QED
    BY <1>2, <1>3, <2>2, <2>3
<1> QED
  BY <1>4, <1>5, <1>6, <1>7, <1>12, <1>13, <1>14, Zenon

\* The controls of an account: none of an admin's changes it.
LEMMA AccountsKeep ==
    ASSUME DemoInv,
           \/ \E i \in Ids : DemoAskRevoke(i) \/ \E role \in AccountRole : DemoChangeRole(i, role)
           \/ \E yes \in BOOLEAN : DemoConfirmRevoke(yes)
    PROVE  DemoInv'
<1>1. SafeAsked(asked) /\ SafeUi(ui)
  BY DEF DemoInv
<1>2. ASSUME NEW i \in Ids, DemoAskRevoke(i) PROVE DemoInv'
  <2>1. i \notin Admins
    BY <1>2 DEF DemoAskRevoke, DemoUserControls, If
  <2>2. PICK p : p = [ui EXCEPT !.target = i]
    OBVIOUS
  <2>3. SafeUi(p)
    BY <1>1, <2>1, <2>2 DEF SafeUi, UiType
  <2>4. Page(p, asked)
    BY <1>2, <2>2 DEF DemoAskRevoke
  <2> QED
    BY <1>1, <2>3, <2>4, PageKeeps
<1>3. ASSUME NEW i \in Ids, NEW role \in AccountRole, DemoChangeRole(i, role) PROVE DemoInv'
  <2>1. i \notin Admins
    BY <1>3 DEF DemoChangeRole, DemoUserControls, RoleOpen, If
  <2>2. PICK r : r = [id |-> i, role |-> role]
    OBVIOUS
  <2>3. r \in [id : Ids, role : AccountRole] /\ r.id \notin Admins
    BY <2>1, <2>2
  <2>4. {r} \in Some([id : Ids, role : AccountRole])
    BY <2>3, OneOf
  <2>5. PICK a : a = [asked EXCEPT !.role = {r}]
    OBVIOUS
  <2>6. a \in AskedType /\ a.get = asked.get /\ a.delete = asked.delete /\ a.role = {r}
    BY <1>1, <2>4, <2>5 DEF SafeAsked, AskedType
  <2>7. SafeAsked(a)
    BY <1>1, <2>3, <2>6 DEF SafeAsked
  <2>8. Page(ui, a)
    BY <1>3, <2>2, <2>5 DEF DemoChangeRole
  <2> QED
    BY <1>1, <2>6, <2>7, <2>8, PageKeeps
<1>4. ASSUME NEW yes \in BOOLEAN, DemoConfirmRevoke(yes) PROVE DemoInv'
  <2>1. PICK p : p = [ui EXCEPT !.target = NoId]
    OBVIOUS
  <2>2. SafeUi(p)
    BY <1>1, <2>1, AdminsAreIds DEF SafeUi, UiType
  <2>3. PICK id : id = ui.target
    OBVIOUS
  <2>4. PICK a : a = [asked EXCEPT !.delete = id]
    OBVIOUS
  <2>5. id \in Ids \cup {NoId} /\ id \notin Admins
    BY <1>1, <2>3 DEF SafeUi, UiType
  <2>6. a \in AskedType /\ a.get = asked.get /\ a.delete = id /\ a.role = asked.role
    BY <1>1, <2>4, <2>5 DEF SafeAsked, AskedType
  <2>7. SafeAsked(a)
    BY <1>1, <2>5, <2>6 DEF SafeAsked
  <2>8. Page(p, a) \/ Page(p, asked)
    BY <1>4, <2>1, <2>3, <2>4 DEF DemoConfirmRevoke
  <2> QED
    BY <1>1, <2>2, <2>6, <2>7, <2>8, PageKeeps
<1> QED
  BY <1>2, <1>3, <1>4

\* Every step of the demo keeps it.
LEMMA DemoStays == DemoInv /\ [DemoNext]_demoVars => DemoInv'
<1> SUFFICES ASSUME DemoInv, [DemoNext]_demoVars PROVE DemoInv'
  OBVIOUS
<1>1. CASE FlagApplied
  BY <1>1, FlagKeeps
<1>2. CASE RoleApplied
  BY <1>2, RoleKeeps
<1>3. CASE InviteApplied
  BY <1>3, InviteKeeps
<1>4. CASE DeleteApplied
  BY <1>4, DeleteKeeps
<1>5. CASE PauseApplied \/ SendApplied \/ WipeApplied
  BY <1>5, AnsweredAloneKeeps
<1>6. CASE FocusDemo \/ \E query \in Queries : Answered(query)
  BY <1>6, QueriesKeep
<1>7. CASE \/ DemoEditMode \/ \E f \in Flags : DemoToggle(f)
           \/ DemoInvite
           \/ \E text \in {"", "filled"}, role \in AccountRole : DemoTypeInvite(text, role)
           \/ \E yes \in BOOLEAN : DemoConfirm(yes)
           \/ DemoPause \/ \E button \in {"send", "wipe"} : DemoPress(button)
  BY <1>7, PanelsKeep
<1>8. CASE \/ \E i \in Ids : DemoAskRevoke(i) \/ \E role \in AccountRole : DemoChangeRole(i, role)
           \/ \E yes \in BOOLEAN : DemoConfirmRevoke(yes)
  BY <1>8, AccountsKeep
<1>9. CASE UNCHANGED demoVars
  BY <1>9 DEF DemoInv, DemoAgrees, demoVars
<1> QED
  BY <1>1, <1>2, <1>3, <1>4, <1>5, <1>6, <1>7, <1>8, <1>9, Zenon DEF DemoNext

\* The demo's store, requests and panels keep their types.
THEOREM DemoTyped == DemoSpec => []DemoTypeOK
<1>1. DemoInv => DemoTypeOK
  BY DEF DemoInv, SafeStore, SafeAsked, SafeUi, DemoTypeOK
<1> QED
  BY <1>1, DemoStarts, DemoStays, PTL DEF DemoSpec

\* What a panel of the demo shows is what the store holds, or is being asked for.
THEOREM DemoPanelsAgree == DemoSpec => []DemoAgrees
<1>1. DemoInv => DemoAgrees
  BY DEF DemoInv
<1> QED
  BY <1>1, DemoStarts, DemoStays, PTL DEF DemoSpec

\* The accounts in the list of admins stay admins, for any number of accounts.
THEOREM DemoAdminsStay == DemoSpec => []AdminsStay
<1>1. DemoInv => AdminsStay
  BY DEF DemoInv, SafeStore, AdminsStay
<1> QED
  BY <1>1, DemoStarts, DemoStays, PTL DEF DemoSpec

-----------------------------------------------------------------------------
(* The toast of the demo: the newest timer is the one a cleanup must spare. *)

\* Before any event there is no timer; a toast that is visible has the newest.
ToastInv == ToastTypeOK /\ ToastHasTimer

\* No timer is not a timer.
LEMMA ToastFresh == NoTimer \notin ToastTimers
  BY TimerAssumption DEF NoTimer, ToastTimers

\* Before any event there is no timer.
LEMMA ToastInits == ToastInit => ToastInv
  BY ToastFresh DEF ToastInit, ToastInv, ToastTypeOK, ToastType, ToastHasTimer

\* Of the steps only the effect's cleanup and the end of a timer take a timer
\* away: the first takes an older one, the second hides the toast.
LEMMA ToastNexts == ToastInv /\ [ToastNext]_toast => ToastInv'
<1> SUFFICES ASSUME ToastInv, [ToastNext]_toast PROVE ToastInv'
  OBVIOUS
<1> USE DEF ToastInv, ToastTypeOK, ToastHasTimer
<1>1. ASSUME NEW i \in ToastTimers, HandleDemoAction(i) PROVE ToastInv'
  BY <1>1 DEF HandleDemoAction, ToastType
<1>2. ASSUME NEW i \in ToastTimers, TimerFires(i) PROVE ToastInv'
  BY <1>2 DEF TimerFires, ToastType
<1>3. CASE RunEffect
  BY <1>3 DEF RunEffect, ToastType
<1>4. CASE UNCHANGED toast
  BY <1>4
<1> QED
  BY <1>1, <1>2, <1>3, <1>4 DEF ToastNext

\* The toast, its timers and what the effect knows of them keep their types.
THEOREM ToastTyped == ToastSpec => []ToastTypeOK
<1>1. ToastInv => ToastTypeOK
  BY DEF ToastInv
<1> QED
  BY <1>1, ToastInits, ToastNexts, PTL DEF ToastSpec

\* A visible toast has a timer that will hide it, for any number of timers and
\* events between two renders.
THEOREM ToastKeepsTimer == ToastSpec => []ToastHasTimer
<1>1. ToastInv => ToastHasTimer
  BY DEF ToastInv
<1> QED
  BY <1>1, ToastInits, ToastNexts, PTL DEF ToastSpec

-----------------------------------------------------------------------------
(* The box in which a message is edited: types, and what is mentioned.       *)

\* A text is a list of characters of bounded length.
LEMMA TextIs == \A t : t \in Text <=> t \in Seq(Chars) /\ Len(t) <= MaxText
<1>1. ASSUME NEW t \in Text PROVE t \in Seq(Chars) /\ Len(t) <= MaxText
  <2>1. PICK m \in 0..MaxText : t \in [1..m -> Chars]
    BY DEF Text, SeqOf
  <2>2. m \in Nat /\ t \in Seq(Chars) /\ Len(t) = m
    BY <2>1, MentionAssumption
  <2> QED
    BY <2>1, <2>2, MentionAssumption
<1>2. ASSUME NEW t \in Seq(Chars), Len(t) <= MaxText PROVE t \in Text
  <2>1. Len(t) \in 0..MaxText /\ t \in [1..Len(t) -> Chars]
    BY <1>2, MentionAssumption
  <2> QED
    BY <2>1 DEF Text, SeqOf
<1> QED
  BY <1>1, <1>2

\* A part of a text, wherever it is cut.
LEMMA CutIs ==
    ASSUME NEW t \in Seq(Chars), NEW m \in Nat, m >= 1, NEW n \in Nat, n <= Len(t)
    PROVE  /\ SubSeq(t, m, n) \in Seq(Chars)
           /\ Len(SubSeq(t, m, n)) = IF m <= n THEN n - m + 1 ELSE 0
           /\ \A k \in 1..Len(SubSeq(t, m, n)) : SubSeq(t, m, n)[k] = t[m + k - 1]
  OBVIOUS

\* The "@" before the cursor.
LEMMA AtBeforeIs ==
    ASSUME NEW t \in Seq(Chars), NEW c \in Nat
    PROVE  /\ AtBefore(t, c) \in 0..Len(t) /\ AtBefore(t, c) <= c
           /\ AtBefore(t, c) > 0 => t[AtBefore(t, c)] = At
<1> DEFINE S == {i \in 1..Len(t) : i <= c /\ t[i] \in {At, Space}}
<1>1. S \in SUBSET (1..Len(t)) /\ Len(t) \in Nat
  OBVIOUS
<1>2. AtBefore(t, c) = IF S = {} \/ t[Max(S)] = Space THEN 0 ELSE Max(S)
  BY DEF AtBefore
<1>3. CASE S = {} \/ t[Max(S)] = Space
  BY <1>1, <1>2, <1>3
<1>4. CASE S # {} /\ t[Max(S)] # Space
  <2>1. Max(S) \in S
    <3> HIDE DEF S
    <3> QED BY <1>1, <1>4, MaxIs
  <2>2. Max(S) \in 1..Len(t) /\ Max(S) <= c /\ t[Max(S)] \in {At, Space}
    BY <2>1
  <2>3. AtBefore(t, c) = Max(S)
    BY <1>2, <1>4
  <2> HIDE DEF S
  <2> QED
    BY <1>1, <1>4, <2>2, <2>3
<1> QED
  BY <1>3, <1>4

\* The entries that are suggested are among the users.
LEMMA SuggestedAreUsers ==
    ASSUME NEW b, b.users \in Users
    PROVE  /\ Suggestions(b) \in Seq(Entries)
           /\ ToSet(Suggestions(b)) \subseteq ToSet(b.users)
<1> DEFINE us == b.users
<1>1. us \in Seq(Entries)
  BY MentionAssumption
<1>2. PICK A, B, C : Suggestions(b) = Only(us, A) \o Only(us, B) \o Only(us, C)
  BY Zenon DEF Suggestions
<1> HIDE DEF us
<1>3. ASSUME NEW K
      PROVE  /\ Only(us, K) \in Seq(Entries)
             /\ \A j \in 1..Len(Only(us, K)) : Only(us, K)[j] \in ToSet(us)
  <2>1. Only(us, K) \in Seq(Entries)
    BY <1>1, OnlyFacts
  <2>2. ASSUME NEW j \in 1..Len(Only(us, K)) PROVE Only(us, K)[j] \in ToSet(us)
    <3>1. PICK i \in 1..Len(us) : Only(us, K)[j] = us[i]
      BY <1>1, OnlyFacts
    <3>2. i \in DOMAIN us
      BY <1>1
    <3> QED
      BY <3>1, <3>2 DEF ToSet
  <2> QED
    BY <2>1, <2>2
<1>4. PICK x, y, z : x = Only(us, A) /\ y = Only(us, B) /\ z = Only(us, C)
  OBVIOUS
<1>5. x \in Seq(Entries) /\ y \in Seq(Entries) /\ z \in Seq(Entries)
  BY <1>3, <1>4
<1>6. x \o y \o z \in Seq(Entries)
  BY <1>5
<1>7. ASSUME NEW k \in 1..Len(x \o y \o z) PROVE (x \o y \o z)[k] \in ToSet(us)
  <2>1. \/ k \in 1..Len(x) /\ (x \o y \o z)[k] = x[k]
        \/ k - Len(x) \in 1..Len(y) /\ (x \o y \o z)[k] = y[k - Len(x)]
        \/ k - Len(x) - Len(y) \in 1..Len(z) /\ (x \o y \o z)[k] = z[k - Len(x) - Len(y)]
    BY <1>5
  <2> QED
    BY <1>3, <1>4, <2>1
<1>8. DOMAIN (x \o y \o z) = 1..Len(x \o y \o z)
  BY <1>6
<1>9. ToSet(x \o y \o z) \subseteq ToSet(us)
  BY <1>7, <1>8 DEF ToSet
<1> QED
  BY <1>2, <1>4, <1>6, <1>9 DEF us

-----------------------------------------------------------------------------
\* The name takes the place of the "@" and the query.
LEMMA AppliedIsText ==
    ASSUME NEW t \in Seq(Chars), NEW c \in Nat, AtBefore(t, c) > 0, NEW name \in Seq(Chars)
    PROVE  LET done == ApplyMention(t, c, Query(t, c), name)
           IN done.text \in Seq(Chars) /\ done.caret \in Nat
<1> DEFINE at0 == AtBefore(t, c)
           q == Query(t, c)
           at == c - Len(q) - 1
           done == ApplyMention(t, c, q, name)
<1>1. at0 \in Nat /\ at0 >= 1 /\ at0 <= Len(t) /\ at0 <= c /\ Len(t) \in Nat
  BY AtBeforeIs
<1>2. Len(q) \in Nat /\ Len(q) <= c - at0
  <2>1. Min({c, Len(t)}) = IF c <= Len(t) THEN c ELSE Len(t)
    BY <1>1, MinTwo
  <2>2. PICK m : m = Min({c, Len(t)})
    OBVIOUS
  <2>3. m \in Nat /\ m <= c /\ m <= Len(t) /\ at0 <= m
    BY <1>1, <2>1, <2>2
  <2>4. q = SubSeq(t, at0 + 1, m)
    BY <2>2 DEF Query
  <2> HIDE DEF q, at0
  <2>5. at0 + 1 \in Nat /\ at0 + 1 >= 1
    BY <1>1
  <2>6. Len(q) = IF at0 + 1 <= m THEN m - (at0 + 1) + 1 ELSE 0
    BY <2>3, <2>4, <2>5, CutIs
  <2> QED
    BY <1>1, <2>3, <2>6
<1> HIDE DEF q, at0
<1>3. at \in Nat
  BY <1>1, <1>2
<1>4. PICK space \in {<<>>, <<Space>>} :
         /\ done.text = SubSeq(t, 1, Min({at, Len(t)})) \o (<<At>> \o name \o space)
                          \o SubSeq(t, c + 1, Len(t))
         /\ done.caret = at + Len(<<At>> \o name \o space)
  BY DEF ApplyMention
<1> HIDE DEF done
<1>5. PICK m : m = Min({at, Len(t)})
  OBVIOUS
<1>6. m \in Nat /\ m <= Len(t)
  BY <1>1, <1>3, <1>5, MinTwo
<1> HIDE DEF at
<1>7. SubSeq(t, 1, m) \in Seq(Chars) /\ SubSeq(t, c + 1, Len(t)) \in Seq(Chars)
  <2>1. c + 1 \in Nat /\ c + 1 >= 1 /\ 1 \in Nat /\ 1 >= 1 /\ Len(t) <= Len(t)
    BY <1>1
  <2> QED
    BY <1>1, <1>6, <2>1, CutIs
<1>8. /\ <<At>> \o name \o space \in Seq(Chars) /\ Len(<<At>> \o name \o space) \in Nat
  <2>1. name \in Seq(Chars)
    OBVIOUS
  <2>2. <<At>> \in Seq(Chars)
    BY DEF Chars
  <2>3. space \in Seq(Chars)
    <3>1. <<>> \in Seq(Chars) /\ <<Space>> \in Seq(Chars)
      BY DEF Chars
    <3> QED
      BY <3>1
  <2>4. <<At>> \o name \in Seq(Chars)
    BY <2>1, <2>2, JoinIs
  <2>5. (<<At>> \o name) \o space \in Seq(Chars)
    BY <2>3, <2>4, JoinIs
  <2>6. PICK w : w = <<At>> \o name \o space
    OBVIOUS
  <2>7. w \in Seq(Chars) /\ Len(w) \in Nat
    BY <2>5, <2>6
  <2> QED
    BY <2>6, <2>7
<1>9. done.caret \in Nat
  BY <1>3, <1>4, <1>8
<1>10. done.text \in Seq(Chars)
  <2>1. PICK x, y, z : x = SubSeq(t, 1, m) /\ y = <<At>> \o name \o space
                       /\ z = SubSeq(t, c + 1, Len(t))
    OBVIOUS
  <2>2. x \in Seq(Chars) /\ y \in Seq(Chars) /\ z \in Seq(Chars)
    BY <1>7, <1>8, <2>1
  <2>3. (x \o y) \o z \in Seq(Chars)
    BY <2>2, JoinIs
  <2>4. done.text = (x \o y) \o z
    BY <1>4, <1>5, <2>1
  <2> QED
    BY <2>3, <2>4
<1> QED
  BY <1>9, <1>10 DEF done, q

\* A step that takes a suggestion.
LEMMA CommitKeeps ==
    ASSUME BoxTypeOK, NEW name \in Seq(Chars), InMention(box.text, box.cursor), Commit(name)
    PROVE  BoxTypeOK'
<1>1. /\ box \in BoxType /\ box.text \in Seq(Chars) /\ box.cursor \in Nat
      /\ AtBefore(box.text, box.cursor) > 0
  BY TextIs, MentionAssumption DEF BoxTypeOK, BoxType, InMention
<1>2. PICK done : done = ApplyMention(box.text, box.cursor, Query(box.text, box.cursor), name)
  OBVIOUS
<1>3. done.text \in Seq(Chars) /\ done.caret \in Nat
  BY <1>1, <1>2, AppliedIsText
<1>4. PICK caret : caret = Min({done.caret, MaxText})
  OBVIOUS
<1>5. /\ Len(done.text) <= MaxText
      /\ box' = [box EXCEPT !.text = done.text, !.open = FALSE, !.caret = caret]
  BY <1>2, <1>4 DEF Commit
<1>6. caret \in 0..NoCaret
  <2>1. MaxText \in Nat
    BY MentionAssumption
  <2>2. caret = IF done.caret <= MaxText THEN done.caret ELSE MaxText
    BY <1>3, <1>4, <2>1, MinTwo
  <2> QED
    BY <1>3, <2>1, <2>2 DEF NoCaret
<1>7. done.text \in Text
  BY <1>3, <1>5, TextIs
<1> QED
  BY <1>1, <1>5, <1>6, <1>7 DEF BoxTypeOK, BoxType

\* The keyboard and the mouse take suggestions of a cursor behind an "@".
LEMMA SuggestionTaken ==
    ASSUME BoxTypeOK, Enter \/ Click
    PROVE  /\ InMention(box.text, box.cursor)
           /\ \E e \in Entries \cap ToSet(box.users) : Commit(e.username)
<1>1. InMention(box.text, box.cursor)
  BY DEF Enter, Click, BoxControls, ShowDropdown, If
<1>2. /\ Suggestions(box) \in Seq(Entries)
      /\ ToSet(Suggestions(box)) \subseteq ToSet(box.users)
  BY SuggestedAreUsers DEF BoxTypeOK, BoxType
<1> DEFINE ss == Suggestions(box)
<1>3. ToSet(ss) \subseteq Entries
  BY <1>2 DEF ToSet
<1>4. \E e \in ToSet(ss) : Commit(e.username)
  <2>1. CASE Enter
    <3>1. /\ box.active < Len(ss) /\ box.active \in Nat /\ Commit(ss[box.active + 1].username)
      BY <2>1 DEF Enter, BoxTypeOK, BoxType
    <3> HIDE DEF ss
    <3>2. box.active + 1 \in DOMAIN ss
      BY <1>2, <3>1 DEF ss
    <3> QED
      BY <3>1, <3>2 DEF ToSet
  <2>2. CASE Click
    BY <2>2 DEF Click
  <2> QED
    BY <2>1, <2>2
<1> QED
  BY <1>1, <1>2, <1>3, <1>4

\* The text changes by a character.
LEMMA TypingKeeps ==
    ASSUME BoxTypeOK, NEW i \in 0..MaxText, (\E c \in Chars : TypeChar(c, i)) \/ DeleteChar(i)
    PROVE  BoxTypeOK'
<1>1. /\ box \in BoxType /\ box.text \in Seq(Chars) /\ Len(box.text) <= MaxText
      /\ MaxText \in Nat /\ Len(box.text) \in Nat
  BY TextIs, MentionAssumption DEF BoxTypeOK, BoxType
<1>2. ASSUME NEW c \in Chars, TypeChar(c, i) PROVE BoxTypeOK'
  <2>1. i \in 0..Len(box.text) /\ Len(box.text) < MaxText
    BY <1>2 DEF TypeChar
  <2>2. PICK new : new = InsertAt(box.text, i + 1, c)
    OBVIOUS
  <2>3. i + 1 \in 1..(Len(box.text) + 1)
    BY <1>1, <2>1
  <2>4. new \in Seq(Chars) /\ Len(new) = Len(box.text) + 1
    BY <1>1, <2>2, <2>3, InsertIs
  <2>5. new \in Text
    BY <1>1, <2>1, <2>4, TextIs
  <2>6. box' = [[box EXCEPT !.text = new] EXCEPT !.cursor = i + 1, !.active = 0, !.open = TRUE]
    BY <1>2, <2>2 DEF TypeChar, CursorAt
  <2>7. i + 1 \in 0..MaxText
    BY <1>1, <2>1
  <2> QED
    BY <1>1, <2>5, <2>6, <2>7 DEF BoxTypeOK, BoxType
<1>3. CASE DeleteChar(i)
  <2>1. i \in 1..Len(box.text)
    BY <1>3 DEF DeleteChar
  <2>2. PICK new : new = RemoveAt(box.text, i)
    OBVIOUS
  <2>3. new \in Seq(Chars) /\ Len(new) = Len(box.text) - 1
    BY <1>1, <2>1, <2>2, RemoveIs
  <2>4. new \in Text
    BY <1>1, <2>3, TextIs
  <2>5. box' = [[box EXCEPT !.text = new] EXCEPT !.cursor = i - 1, !.active = 0, !.open = TRUE]
    BY <1>3, <2>2 DEF DeleteChar, CursorAt
  <2>6. i - 1 \in 0..MaxText
    BY <1>1, <2>1
  <2> QED
    BY <1>1, <2>4, <2>5, <2>6 DEF BoxTypeOK, BoxType
<1> QED
  BY <1>2, <1>3

\* The cursor, the highlight and the list move.
LEMMA MovesKeep ==
    ASSUME BoxTypeOK,
           \/ \E i \in 0..MaxText : SelectAt(i)
           \/ ArrowDown \/ ArrowUp \/ CaretFrame \/ Escape \/ Blur \/ Revert
           \/ \E c \in Letters : Replace(<<At, c>>)
           \/ \E list \in Users : UsersArrive(list)
    PROVE  BoxTypeOK'
<1>1. /\ box \in BoxType /\ box.text \in Seq(Chars) /\ Len(box.text) <= MaxText
      /\ MaxText \in Nat /\ Len(box.text) \in Nat /\ MaxText >= 2
  BY TextIs, MentionAssumption DEF BoxTypeOK, BoxType
<1>2. CASE \E i \in 0..MaxText : SelectAt(i)
  <2>1. PICK i \in 0..MaxText : box' = [box EXCEPT !.cursor = i, !.active = 0, !.open = TRUE]
    BY <1>2 DEF SelectAt, CursorAt
  <2> QED
    BY <1>1, <2>1 DEF BoxTypeOK, BoxType
<1>3. CASE ArrowDown \/ ArrowUp
  <2>1. Suggestions(box) \in Seq(Entries) /\ Suggestions(box) # <<>>
    BY <1>3, SuggestedAreUsers DEF ArrowDown, ArrowUp, BoxControls, If, BoxTypeOK, BoxType
  <2>2. PICK n : n = Len(Suggestions(box))
    OBVIOUS
  <2>3. n \in Nat /\ n > 0 /\ box.active \in Nat
    BY <1>1, <2>1, <2>2 DEF BoxType
  <2>4. PICK a : a \in {(box.active + 1) % n, (box.active - 1 + n) % n}
                 /\ box' = [box EXCEPT !.active = a]
    BY <1>3, <2>2 DEF ArrowDown, ArrowUp
  <2>5. a \in Nat
    BY <2>3, <2>4
  <2> QED
    BY <1>1, <2>4, <2>5 DEF BoxTypeOK, BoxType
<1>4. CASE CaretFrame
  <2>1. PICK c : c = Min({box.caret, Len(box.text)})
    OBVIOUS
  <2>2. box.caret \in Nat
    BY <1>1 DEF BoxType, NoCaret
  <2>3. c \in 0..MaxText
    BY <1>1, <2>1, <2>2, MinTwo
  <2>4. box' = [[box EXCEPT !.cursor = c, !.active = 0, !.open = TRUE] EXCEPT !.caret = NoCaret]
    BY <1>4, <2>1 DEF CaretFrame, CursorAt
  <2>5. NoCaret \in 0..NoCaret
    BY <1>1 DEF NoCaret
  <2> QED
    BY <1>1, <2>3, <2>4, <2>5 DEF BoxTypeOK, BoxType
<1>5. CASE Escape \/ Blur \/ Revert
  BY <1>1, <1>5 DEF Escape, Blur, Revert, BoxTypeOK, BoxType
<1>6. ASSUME NEW c \in Letters, Replace(<<At, c>>) PROVE BoxTypeOK'
  <2>1. PICK new : new = <<At, c>>
    OBVIOUS
  <2>2. new \in Seq(Chars) /\ Len(new) = 2
    BY <2>1 DEF Chars
  <2>3. new \in Text
    BY <1>1, <2>2, TextIs
  <2>4. box' = [box EXCEPT !.text = new, !.original = new]
    BY <1>6, <2>1 DEF Replace
  <2> QED
    BY <1>1, <2>3, <2>4 DEF BoxTypeOK, BoxType
<1>7. CASE \E list \in Users : UsersArrive(list)
  BY <1>1, <1>7 DEF UsersArrive, BoxTypeOK, BoxType
<1> QED
  BY <1>2, <1>3, <1>4, <1>5, <1>6, <1>7

\* What holds when the message is opened,
LEMMA BoxStarts == BoxInit => BoxTypeOK
<1> SUFFICES ASSUME BoxInit PROVE BoxTypeOK
  OBVIOUS
<1>1. MaxText \in Nat
  BY MentionAssumption
<1>2. <<>> \in Text
  <2>1. PICK e : e = <<>>
    OBVIOUS
  <2>2. e \in Seq(Chars) /\ Len(e) = 0
    BY <2>1
  <2>3. e \in Text
    <3>1. Len(e) <= MaxText
      BY <1>1, <2>2
    <3> QED
      BY <2>2, <3>1, TextIs
  <2> QED
    BY <2>1, <2>3
<1>3. 0 \in 0..MaxText /\ NoCaret \in 0..NoCaret
  BY <1>1 DEF NoCaret
<1>4. PICK us \in Users :
         box = [text |-> <<>>, original |-> <<>>, cursor |-> 0, open |-> TRUE, active |-> 0,
                caret |-> NoCaret, users |-> us]
  <2>1. PICK e : e = <<>>
    OBVIOUS
  <2>2. box \in [text : {e}, original : {e}, cursor : {0}, open : {TRUE}, active : {0},
                 caret : {NoCaret}, users : Users]
    BY <2>1 DEF BoxInit
  <2> QED
    BY <2>1, <2>2
<1>5. PICK e \in Text : e = <<>>
  BY <1>2
<1> QED
  BY <1>3, <1>4, <1>5 DEF BoxTypeOK, BoxType

\* and is kept by every step.
LEMMA BoxKeeps == BoxTypeOK /\ [BoxNext]_box => BoxTypeOK'
<1> SUFFICES ASSUME BoxTypeOK, [BoxNext]_box PROVE BoxTypeOK'
  OBVIOUS
<1>1. CASE Enter \/ Click
  <2>1. \A e \in Entries : e.username \in Seq(Chars)
    BY DEF Entries, Usernames
  <2> QED
    BY <1>1, <2>1, SuggestionTaken, CommitKeeps
<1>2. CASE UNCHANGED box
  BY <1>2 DEF BoxTypeOK
<1> QED
  BY <1>1, <1>2, TypingKeeps, MovesKeep DEF BoxNext

\* For any letters, lists of users and length: what is typed keeps to its type.
THEOREM BoxTyped == BoxSpec => []BoxTypeOK
  BY BoxStarts, BoxKeeps, PTL DEF BoxSpec

-----------------------------------------------------------------------------
\* A cursor right behind a name, with an "@" that starts a word before it and a
\* space after it, is in a mention of that name.
LEMMA BehindName ==
    ASSUME NEW t \in Seq(Chars), NEW a \in 1..Len(t), t[a] = At, StartsToken(t, a),
           NEW name \in Usernames, Mentionable(name), NEW users, name \in UserNames(users),
           NEW e, e = a + Len(name), e + 1 <= Len(t), t[e + 1] = Space,
           \A k \in 1..Len(name) : t[a + k] = name[k]
    PROVE  InsideValid(t, e, users)
<1>1. name \in Seq(Chars) /\ Len(name) \in Nat /\ name # <<>>
  BY DEF Usernames
<1>2. a \in Nat /\ a >= 1 /\ e \in Nat /\ e >= a /\ Len(t) \in Nat
  BY <1>1
<1>3. ASSUME NEW i \in (a + 1)..e PROVE t[i] \notin {At, Space}
  <2>1. i - a \in 1..Len(name) /\ a + (i - a) = i
    BY <1>1, <1>2
  <2>2. t[a + (i - a)] = name[i - a]
    BY <2>1
  <2>3. i - a \in DOMAIN name
    BY <1>1, <2>1
  <2>4. name[i - a] \notin {At, Space}
    BY <2>3, Zenon DEF Mentionable, ToSet
  <2> QED
    BY <2>1, <2>2, <2>4
<1>4. AtBefore(t, e) = a
  <2> DEFINE S == {i \in 1..Len(t) : i <= e /\ t[i] \in {At, Space}}
  <2>1. S \in SUBSET Int /\ a \in S
    BY <1>2
  <2>2. ASSUME NEW i \in S PROVE i <= a
    <3>1. i \in Nat /\ i <= e /\ t[i] \in {At, Space}
      BY <2>2
    <3>2. i \notin (a + 1)..e
      BY <1>3, <3>1
    <3> QED
      BY <1>2, <3>1, <3>2
  <2>3. AtBefore(t, e) = IF S = {} \/ t[Max(S)] = Space THEN 0 ELSE Max(S)
    BY DEF AtBefore
  <2> HIDE DEF S
  <2>4. Max(S) = a
    BY <2>1, <2>2, MaxMet
  <2> QED
    BY <2>1, <2>3, <2>4 DEF At, Space
<1>5. InMention(t, e)
  BY <1>2, <1>4 DEF InMention
<1>6. PICK ends : ends = {i \in (e + 1)..Len(t) : t[i] = Space}
  OBVIOUS
<1>7. ends # {} /\ Min(ends) = e + 1
  <2>1. ends \in SUBSET Int /\ e + 1 \in ends /\ \A i \in ends : e + 1 <= i
    BY <1>2, <1>6
  <2> QED
    BY <2>1, MinMet
<1>8. SubSeq(t, a + 1, e) = name
  <2>1. a + 1 \in Nat /\ a + 1 <= e + 1 /\ e <= Len(t) /\ e - (a + 1) + 1 = Len(name)
    BY <1>1, <1>2
  <2>2. PICK part : part = SubSeq(t, a + 1, e)
    OBVIOUS
  <2>3. part \in Seq(Chars) /\ Len(part) = Len(name)
        /\ \A k \in 1..Len(name) : part[k] = t[(a + 1) + k - 1]
    BY <1>2, <2>1, <2>2, PartIs
  <2>4. ASSUME NEW k \in 1..Len(name) PROVE part[k] = name[k]
    <3>1. (a + 1) + k - 1 = a + k
      BY <1>2
    <3> QED
      BY <2>3, <3>1
  <2>5. part = name
    <3>1. name \in Seq(Chars) /\ part \in Seq(Chars)
      BY <1>1, <2>3
    <3> QED
      BY <2>3, <2>4, <3>1, SeqEqual
  <2> QED
    BY <2>2, <2>5
<1>9. (e + 1) - 1 = e
  BY <1>2
<1>10. SubSeq(t, AtBefore(t, e) + 1, IF ends = {} THEN Len(t) ELSE Min(ends) - 1) = name
  BY <1>4, <1>7, <1>8, <1>9
<1> QED
  BY <1>5, <1>6, <1>10 DEF InsideValid

\* What stands where after a name took the place of the query.
LEMMA AppliedText ==
    ASSUME NEW t \in Seq(Chars), NEW c \in Nat, c <= Len(t), InMention(t, c),
           NEW name \in Usernames,
           NEW done, done = ApplyMention(t, c, Query(t, c), name),
           NEW a, a = AtBefore(t, c), NEW e, e = a + Len(name)
    PROVE  /\ done.text \in Seq(Chars) /\ a \in 1..Len(done.text) /\ done.text[a] = At
           /\ StartsToken(done.text, a)
           /\ \A k \in 1..Len(name) : done.text[a + k] = name[k]
           /\ e \in Nat /\ e + 1 <= Len(done.text) /\ done.text[e + 1] = Space
           /\ done.caret \in {e, e + 1}
<1>1. a \in Nat /\ a >= 1 /\ a <= c /\ a <= Len(t) /\ Len(t) \in Nat /\ StartsToken(t, a)
  BY AtBeforeIs DEF InMention
<1>2. name \in Seq(Chars) /\ Len(name) \in Nat
  BY DEF Usernames
<1>3. PICK q : q = Query(t, c)
  OBVIOUS
<1>4. Len(q) = c - a
  <2>1. Min({c, Len(t)}) = c
    BY <1>1, MinTwo
  <2>2. q = SubSeq(t, a + 1, c)
    BY <1>3, <2>1 DEF Query
  <2>3. a + 1 \in Nat /\ 1 <= a + 1 /\ a + 1 <= c + 1 /\ c - (a + 1) + 1 = c - a
    BY <1>1
  <2> QED
    BY <2>2, <2>3, PartIs
<1>5. c - Len(q) - 1 = a - 1 /\ a - 1 \in Nat /\ a - 1 <= Len(t)
  BY <1>1, <1>4
<1>6. Min({a - 1, Len(t)}) = a - 1
  BY <1>1, <1>5, MinTwo
<1>7. PICK space : space = IF c < Len(t) /\ t[c + 1] = Space THEN <<>> ELSE <<Space>>
  OBVIOUS
<1>8. PICK x, y, z : /\ x = SubSeq(t, 1, a - 1) /\ y = (<<At>> \o name) \o space
                     /\ z = SubSeq(t, c + 1, Len(t))
  OBVIOUS
<1>9. done.text = (x \o y) \o z /\ done.caret = (a - 1) + Len(y)
  BY <1>3, <1>5, <1>6, <1>7, <1>8 DEF ApplyMention
<1>10. x \in Seq(Chars) /\ Len(x) = a - 1 /\ \A k \in 1..(a - 1) : x[k] = t[k]
  <2>1. 1 \in Nat /\ 1 <= 1 /\ 1 <= (a - 1) + 1 /\ (a - 1) - 1 + 1 = a - 1
    BY <1>1
  <2>2. /\ x \in Seq(Chars) /\ Len(x) = (a - 1) - 1 + 1
        /\ \A k \in 1..((a - 1) - 1 + 1) : x[k] = t[1 + k - 1]
    BY <1>5, <1>8, <2>1, PartIs
  <2> QED
    BY <2>1, <2>2
<1>11. name \in Seq(Chars)
  BY <1>2
<1>12. PICK h : h = <<At>> \o name
  OBVIOUS
<1>13. /\ h \in Seq(Chars) /\ Len(h) = Len(name) + 1 /\ h[1] = At
       /\ \A k \in 1..Len(name) : h[1 + k] = name[k]
  <2>1. <<At>> \in Seq(Chars) /\ Len(<<At>>) = 1 /\ <<At>>[1] = At
    BY DEF Chars
  <2>2. /\ h \in Seq(Chars) /\ Len(h) = Len(<<At>>) + Len(name)
        /\ \A k \in 1..Len(<<At>>) : h[k] = <<At>>[k]
        /\ \A k \in 1..Len(name) : h[Len(<<At>>) + k] = name[k]
    BY <1>11, <1>12, <2>1, JoinIs
  <2> QED
    BY <1>2, <2>1, <2>2
<1>14. z \in Seq(Chars) /\ (c < Len(t) => Len(z) = Len(t) - c /\ z[1] = t[c + 1])
  <2>1. c + 1 \in Nat /\ 1 <= c + 1 /\ c + 1 <= Len(t) + 1 /\ Len(t) - (c + 1) + 1 = Len(t) - c
    BY <1>1
  <2>2. /\ z \in Seq(Chars) /\ Len(z) = Len(t) - c
        /\ \A k \in 1..(Len(t) - c) : z[k] = t[(c + 1) + k - 1]
    <3>1. PICK m, n : m = c + 1 /\ n = Len(t)
      OBVIOUS
    <3>2. /\ m \in Nat /\ n \in Nat /\ 1 <= m /\ m <= n + 1 /\ n <= Len(t)
          /\ n - m + 1 = Len(t) - c
      BY <1>1, <2>1, <3>1
    <3>3. z = SubSeq(t, m, n)
      BY <1>8, <3>1
    <3>4. /\ z \in Seq(Chars) /\ Len(z) = n - m + 1
          /\ \A k \in 1..(n - m + 1) : z[k] = t[m + k - 1]
      BY <3>2, <3>3, PartIs
    <3> QED
      BY <3>1, <3>2, <3>4
  <2>3. c < Len(t) => 1 \in 1..(Len(t) - c) /\ (c + 1) + 1 - 1 = c + 1
    BY <1>1
  <2> QED
    BY <2>2, <2>3
<1>15. /\ y \in Seq(Chars) /\ Len(y) = Len(name) + 1 + Len(space)
       /\ y[1] = At /\ \A k \in 1..Len(name) : y[1 + k] = name[k]
       /\ space = <<Space>> => y[Len(name) + 2] = Space
       /\ Len(space) \in {0, 1} /\ (Len(space) = 1 <=> space = <<Space>>)
  <2>1. space \in Seq(Chars) /\ Len(space) \in {0, 1} /\ (Len(space) = 1 <=> space = <<Space>>)
    <3>1. <<>> \in Seq(Chars) /\ <<Space>> \in Seq(Chars) /\ Len(<<>>) = 0 /\ Len(<<Space>>) = 1
      BY DEF Chars
    <3> QED
      BY <1>7, <3>1
  <2>2. /\ y \in Seq(Chars) /\ Len(y) = Len(h) + Len(space)
        /\ \A k \in 1..Len(h) : y[k] = h[k]
        /\ \A k \in 1..Len(space) : y[Len(h) + k] = space[k]
    BY <1>8, <1>12, <1>13, <2>1, JoinIs
  <2>3. 1 \in 1..Len(h) /\ \A k \in 1..Len(name) : 1 + k \in 1..Len(h)
    BY <1>2, <1>13
  <2>4. y[1] = At /\ \A k \in 1..Len(name) : y[1 + k] = name[k]
    BY <1>13, <2>2, <2>3
  <2>5. ASSUME space = <<Space>> PROVE y[Len(name) + 2] = Space
    <3>1. Len(space) = 1 /\ space[1] = Space
      BY <2>5
    <3>2. y[Len(h) + 1] = Space
      BY <2>2, <3>1
    <3>3. Len(h) + 1 = Len(name) + 2
      BY <1>2, <1>13
    <3> QED
      BY <3>2, <3>3
  <2> QED
    BY <1>13, <2>1, <2>2, <2>4, <2>5
<1>16. PICK w : w = x \o y
  OBVIOUS
<1>17. /\ w \in Seq(Chars) /\ Len(w) = a + Len(name) + Len(space)
       /\ \A k \in 1..(a - 1) : w[k] = t[k]
       /\ w[a] = At /\ \A k \in 1..Len(name) : w[a + k] = name[k]
       /\ space = <<Space>> => w[e + 1] = Space
  <2>0. x \in Seq(Chars) /\ y \in Seq(Chars)
    BY <1>10, <1>15
  <2>1. /\ w \in Seq(Chars) /\ Len(w) = Len(x) + Len(y)
        /\ \A k \in 1..Len(x) : w[k] = x[k]
        /\ \A k \in 1..Len(y) : w[Len(x) + k] = y[k]
    BY <1>16, <2>0, JoinIs
  <2>2. /\ Len(w) = (a - 1) + (Len(name) + 1 + Len(space))
        /\ \A k \in 1..(a - 1) : w[k] = t[k]
        /\ \A k \in 1..(Len(name) + 1 + Len(space)) : w[(a - 1) + k] = y[k]
    BY <1>10, <1>15, <2>1
  <2>3. Len(w) = a + Len(name) + Len(space)
    BY <1>1, <1>2, <1>15, <2>2
  <2>4. w[a] = At
    <3>1. 1 \in 1..(Len(name) + 1 + Len(space)) /\ (a - 1) + 1 = a
      BY <1>1, <1>2, <1>15
    <3> QED
      BY <1>15, <2>2, <3>1
  <2>5. ASSUME NEW k \in 1..Len(name) PROVE w[a + k] = name[k]
    <3>1. 1 + k \in 1..(Len(name) + 1 + Len(space)) /\ (a - 1) + (1 + k) = a + k
      BY <1>1, <1>2, <1>15
    <3> QED
      BY <1>15, <2>2, <3>1
  <2>6. ASSUME space = <<Space>> PROVE w[e + 1] = Space
    <3>1. /\ Len(name) + 2 \in 1..(Len(name) + 1 + Len(space))
          /\ (a - 1) + (Len(name) + 2) = e + 1
      BY <1>1, <1>2, <1>15, <2>6
    <3> QED
      BY <1>15, <2>2, <2>6, <3>1
  <2> QED
    BY <2>1, <2>2, <2>3, <2>4, <2>5, <2>6
<1>18. PICK d : d = w \o z
  OBVIOUS
<1>19. d = done.text
  BY <1>9, <1>16, <1>18
<1>20. /\ d \in Seq(Chars) /\ Len(d) = Len(w) + Len(z)
       /\ \A k \in 1..Len(w) : d[k] = w[k]
       /\ \A k \in 1..Len(z) : d[Len(w) + k] = z[k]
  <2>0. w \in Seq(Chars) /\ z \in Seq(Chars)
    BY <1>14, <1>17
  <2> QED
    BY <1>18, <2>0, JoinIs
<1>21. Len(w) \in Nat /\ Len(z) \in Nat /\ e \in Nat /\ e >= a /\ Len(w) = e + Len(space)
  BY <1>1, <1>2, <1>14, <1>15, <1>17
<1>22. a \in 1..Len(d) /\ d[a] = At
  <2>1. a \in 1..Len(w)
    BY <1>1, <1>15, <1>21
  <2> QED
    BY <1>17, <1>20, <1>21, <2>1
<1>23. StartsToken(d, a)
  <2>1. CASE a = 1
    BY <2>1 DEF StartsToken
  <2>2. CASE a # 1
    <3>1. a - 1 \in 1..(a - 1) /\ a - 1 \in 1..Len(w)
      BY <1>1, <1>15, <1>21, <2>2
    <3>2. d[a - 1] = t[a - 1]
      BY <1>17, <1>20, <3>1
    <3> QED
      BY <1>1, <3>2 DEF StartsToken
  <2> QED
    BY <2>1, <2>2
<1>24. ASSUME NEW k \in 1..Len(name) PROVE d[a + k] = name[k]
  <2>1. a + k \in 1..Len(w)
    BY <1>1, <1>2, <1>15, <1>21
  <2> QED
    BY <1>17, <1>20, <2>1
<1>25. e + 1 <= Len(d) /\ d[e + 1] = Space
  <2>1. CASE space = <<Space>>
    <3>1. e + 1 \in 1..Len(w)
      BY <1>15, <1>21, <2>1
    <3>2. d[e + 1] = Space
      BY <1>17, <1>20, <2>1, <3>1
    <3> QED
      BY <1>20, <1>21, <3>1, <3>2
  <2>2. CASE space # <<Space>>
    <3>1. c < Len(t) /\ t[c + 1] = Space
      BY <1>7, <2>2
    <3>2. Len(z) = Len(t) - c /\ z[1] = Space
      BY <1>14, <3>1
    <3>3. Len(w) = e /\ 1 \in 1..Len(z)
      BY <1>1, <1>15, <1>21, <2>2, <3>1, <3>2
    <3>4. d[e + 1] = Space
      BY <1>20, <3>2, <3>3
    <3> QED
      BY <1>20, <1>21, <3>3, <3>4
  <2> QED
    BY <2>1, <2>2
<1>26. done.caret \in {e, e + 1}
  <2>1. done.caret = (a - 1) + (Len(name) + 1 + Len(space))
    BY <1>9, <1>15
  <2>2. Len(space) = 0 \/ Len(space) = 1
    BY <1>15
  <2>3. CASE Len(space) = 0
    BY <1>1, <1>2, <2>1, <2>3
  <2>4. CASE Len(space) = 1
    BY <1>1, <1>2, <2>1, <2>4
  <2> QED
    BY <2>2, <2>3, <2>4
<1> QED
  BY <1>19, <1>20, <1>21, <1>22, <1>23, <1>24, <1>25, <1>26

\* The step that takes a suggestion makes a mention of it.
LEMMA CommitMentions ==
    ASSUME BoxTypeOK, box.cursor <= Len(box.text), InMention(box.text, box.cursor),
           NEW name \in Usernames \cap UserNames(box.users), Mentionable(name), Commit(name)
    PROVE  MadeMention
<1>1. /\ box \in BoxType /\ box.text \in Seq(Chars) /\ box.cursor \in Nat /\ MaxText \in Nat
  BY TextIs, MentionAssumption DEF BoxTypeOK, BoxType
<1>2. PICK done, a, e :
         /\ done = ApplyMention(box.text, box.cursor, Query(box.text, box.cursor), name)
         /\ a = AtBefore(box.text, box.cursor) /\ e = a + Len(name)
  OBVIOUS
<1>3. /\ done.text \in Seq(Chars) /\ a \in 1..Len(done.text) /\ done.text[a] = At
      /\ StartsToken(done.text, a)
      /\ \A k \in 1..Len(name) : done.text[a + k] = name[k]
      /\ e \in Nat /\ e + 1 <= Len(done.text) /\ done.text[e + 1] = Space
      /\ done.caret \in {e, e + 1}
  BY <1>1, <1>2, AppliedText
<1>4. InsideValid(done.text, e, box.users)
  BY <1>2, <1>3, BehindName
<1>5. PICK caret : caret = Min({done.caret, MaxText})
  OBVIOUS
<1>6. /\ Len(done.text) <= MaxText
      /\ box' = [box EXCEPT !.text = done.text, !.open = FALSE, !.caret = caret]
  BY <1>2, <1>5 DEF Commit
<1>7. caret = done.caret
  <2>1. Len(done.text) \in Nat
    BY <1>3
  <2>2. done.caret <= MaxText /\ done.caret \in Int
    BY <1>1, <1>3, <1>6, <2>1
  <2> QED
    BY <1>1, <1>5, <2>2, MinTwo
<1>8. box'.text = done.text /\ box'.caret = caret /\ box'.users = box.users
  BY <1>1, <1>6 DEF BoxType
<1>9. (e + 1) - 1 = e
  BY <1>3
<1> QED
  BY <1>3, <1>4, <1>7, <1>8, <1>9 DEF MadeMention

\* For any names, whatever characters they have, and any texts: an entry that is
\* taken leaves a mention of a user where the caret will be, or just before it,
\* whatever followed the cursor, if its user name has no space and no "@".
THEOREM MentionsMade == BoxSpec => CommitMakesMention
<1>1. ASSUME BoxTypeOK, NEW e \in ToSet(Suggestions(box)),
             Takes(e), Mentionable(e.username), box.cursor <= Len(box.text)
      PROVE  MadeMention
  <2>1. Suggestions(box) \in Seq(Entries) /\ e \in ToSet(box.users)
    BY <1>1, SuggestedAreUsers DEF BoxTypeOK, BoxType
  <2>2. e \in Entries
    BY <2>1 DEF ToSet
  <2>3. e.username \in Usernames \cap UserNames(box.users)
    BY <2>1, <2>2 DEF Entries, UserNames
  <2>4. InMention(box.text, box.cursor) /\ Commit(e.username)
    BY <1>1, SuggestionTaken DEF Takes
  <2> QED
    BY <1>1, <2>3, <2>4, CommitMentions
<1>2. BoxTypeOK /\ [BoxNext]_box =>
        [\A e \in ToSet(Suggestions(box)) :
           Takes(e) /\ Mentionable(e.username) /\ box.cursor <= Len(box.text) => MadeMention]_box
  BY <1>1
<1> QED
  BY <1>2, BoxStarts, BoxKeeps, PTL DEF BoxSpec, CommitMakesMention

-----------------------------------------------------------------------------
(* The front end: the pages side by side.                                   *)

\* The pages start as each of them does.
LEMMA AdminPagesStart ==
    WebInit => /\ EditorInit /\ DashInit /\ AdminInit /\ PageInit /\ PeopleInit
               /\ RouteInit /\ MapInit /\ ToolsInit /\ BoxInit /\ DemoInit /\ ToastInit
  BY DEF WebInit, AdminPagesInit, EditorStart, PanelStart, LocationStart, PeopleStart, RidePagesInit

\* A step on a page that manages the bot is a step of one of its modules,
LEMMA AdminPagesStep ==
    ASSUME AdminPagesNext, UNCHANGED ridePagesVars
    PROVE  /\ [EditorNext]_editorVars /\ [DashNext]_dashVars /\ [AdminNext]_adminVars
           /\ [PageNext]_pageVars /\ [PeopleNext]_peopleVars
           /\ UNCHANGED <<routeVars, mapVars, toolsVars, box, demoVars, toast>>
<1>1. UNCHANGED <<routeVars, mapVars, toolsVars, box, demoVars, toast>>
  BY Zenon DEF ridePagesVars, routeVars, mapVars, toolsVars, demoVars
<1>2. DashPart => DashNext
  BY Zenon DEF DashPart
<1>3. LocationPart => PageNext
  BY Zenon DEF LocationPart
<1>4. PeoplePart => PeopleNext
  BY Zenon DEF PeoplePart, PeopleNext
<1> QED
  BY <1>1, <1>2, <1>3, <1>4, Zenon DEF AdminPagesNext

\* and so is one on the other pages; it leaves the other modules alone.
LEMMA RidePagesStep ==
    ASSUME RidePagesNext, UNCHANGED adminPagesVars
    PROVE  /\ [RouteNext]_routeVars /\ [MapNext]_mapVars /\ [ToolsNext]_toolsVars
           /\ [BoxNext]_box /\ [DemoNext]_demoVars /\ [ToastNext]_toast
           /\ UNCHANGED <<editorVars, dashVars, adminVars, pageVars, peopleVars>>
<1>1. UNCHANGED <<editorVars, dashVars, adminVars, pageVars, peopleVars>>
  BY Zenon DEF adminPagesVars, editorVars, dashVars, adminVars, pageVars, peopleVars
<1>2. MapPart => MapNext
  BY Zenon DEF MapPart
<1>3. ToolPart => ToolsNext
  BY Zenon DEF ToolPart
<1>4. DemoPart => DemoNext
  BY Zenon DEF DemoPart
<1> QED
  BY <1>1, <1>2, <1>3, <1>4, Zenon DEF RidePagesNext

\* The front end implements the specification of every page: a behaviour that
\* stays on one page is one of that page, and the other pages stand still.
THEOREM PagesImplemented ==
    WebSpec => /\ EditorSpec /\ DashSpec /\ AdminSpec /\ PageSpec /\ PeopleSpec
               /\ RouteSpec /\ MapSpec /\ ToolsSpec /\ BoxSpec /\ DemoSpec /\ ToastSpec
<1>1. [WebNext]_<<page, adminPagesVars, ridePagesVars>> =>
        /\ [EditorNext]_editorVars /\ [DashNext]_dashVars /\ [AdminNext]_adminVars
        /\ [PageNext]_pageVars /\ [PeopleNext]_peopleVars
        /\ [RouteNext]_routeVars /\ [MapNext]_mapVars /\ [ToolsNext]_toolsVars
        /\ [BoxNext]_box /\ [DemoNext]_demoVars /\ [ToastNext]_toast
  <2> SUFFICES ASSUME [WebNext]_<<page, adminPagesVars, ridePagesVars>>
               PROVE  /\ [EditorNext]_editorVars /\ [DashNext]_dashVars /\ [AdminNext]_adminVars
                      /\ [PageNext]_pageVars /\ [PeopleNext]_peopleVars
                      /\ [RouteNext]_routeVars /\ [MapNext]_mapVars /\ [ToolsNext]_toolsVars
                      /\ [BoxNext]_box /\ [DemoNext]_demoVars /\ [ToastNext]_toast
    OBVIOUS
  <2>1. CASE AdminPagesNext /\ UNCHANGED ridePagesVars
    BY <2>1, AdminPagesStep, Zenon
  <2>2. CASE RidePagesNext /\ UNCHANGED adminPagesVars
    BY <2>2, RidePagesStep, Zenon
  <2>3. CASE UNCHANGED <<page, adminPagesVars, ridePagesVars>>
    BY <2>3, Zenon DEF ridePagesVars, routeVars, mapVars, toolsVars, demoVars,
                       adminPagesVars, editorVars, dashVars, adminVars, pageVars, peopleVars
  <2> QED
    BY <2>1, <2>2, <2>3, Zenon DEF WebNext
<1> QED
  BY <1>1, AdminPagesStart, PTL
  DEF WebSpec, EditorSpec, DashSpec, AdminSpec, PageSpec, PeopleSpec,
      RouteSpec, MapSpec, ToolsSpec, BoxSpec, DemoSpec, ToastSpec

\* Every part of the front end keeps to its types, whichever page is shown.
THEOREM WebTyped == WebSpec => []WebTypeOK
<1>1. /\ EditorTypeOK /\ DashTypeOK /\ AdminTypeOK /\ PageTypeOK /\ PeopleTypeOK
      /\ RouteTypeOK /\ MapTypeOK /\ ToolsTypeOK /\ BoxTypeOK /\ DemoTypeOK /\ ToastTypeOK
      => WebTypeOK
  BY Zenon DEF WebTypeOK, AdminPagesTypeOK, RidePagesTypeOK
<1> QED
  BY <1>1, PagesImplemented, EditorTyped, DashTyped, PanelsTyped, LocationsTyped, PeopleTyped,
     BuilderTyped, MapTyped, ToolsTyped, BoxTyped, DemoTyped, ToastTyped, PTL

\* So what is proved of a page holds of the front end, whichever page is shown.
THEOREM FrontEndKeepsItsWord ==
    WebSpec =>
      /\ [](QueryIsCurrent /\ BadgeTellsPause /\ OneSendAtATime)
      /\ [](PendingOnlyWhileAdding /\ RoleShownIsStored /\ ShownListIsStored)
      /\ [](NoSilentEnd /\ LabelsAgree /\ ResultOfLastAsked)
      /\ [](DemoAgrees /\ AdminsStay /\ ToastHasTimer)
      /\ TypedTextStands /\ PanelsAreSettings /\ DialogKnowsItsPair /\ ConfirmationStands
      /\ LinkWins /\ NewestLine /\ CommitMakesMention
  BY PagesImplemented, CardIsCurrent, BadgesTell, SendsOnce, MarkerRemembered, RoleIsStored,
     ListIsStored, BuilderAnswers, LabelsInAgreement, ResultsOfLast,
     DemoPanelsAgree, DemoAdminsStay, ToastKeepsTimer, TextStands, PanelsImplement, PairsKnown,
     ConfirmationsStand, AddressWins, LineIsNewest, MentionsMade, PTL
=============================================================================

----------------------------- MODULE AdminPages ------------------------------
(* The pages that manage the bot, side by side.  A page whose panels share   *)
(* nothing is followed in parts, of which the other panels are left alone:   *)
(* its invariants are about one part each.                                   *)
EXTENDS Router, TemplateEditor, AskDashboard, AdminPanels, LocationsPage, People

\* The dashboard is followed in three parts: the pauses and the status while it
\* stays open, one job's pause while it is left and opened again, and Send now
\* with the season switch.  The rides are followed in two: both days while the
\* list stays open and nobody else changes it, and one day while it is left,
\* opened again and changed by others.
EditorPages == {"editor"}
DashPages == {"pausing", "visits", "sending"}
PanelPages == {"panels"}
LocationPages == {"edges", "rows", "times", "settings"}
PeoplePages == {"session", "search", "members", "accounts", "rides", "ride visits"}
AdminRoutes ==
    EditorPages \cup DashPages \cup PanelPages \cup LocationPages \cup PeoplePages

adminPagesVars ==
    <<ed, stored, dash, srv, win, flg, wipe, kept, seen, map, times, setting, busy,
      session, roles, accounts, rides>>

\* One initial state of what the page does not follow is enough.
EditorStart == EditorInit /\ (page \notin EditorPages => ed.kind = "template")
PanelStart == AdminInit /\ (page \notin PanelPages =>
    ~win.canManage /\ ~kept.flag /\ kept.windows = CHOOSE w \in Windows : TRUE)
LocationStart ==
    /\ PageInit
    /\ page # "settings" => seen.adjust = "long" /\ seen.mapped = CHOOSE s \in Spots : TRUE
    /\ page = "times" => seen.known = {}
    /\ page \in {"times", "settings"} => seen.edges = {}
    /\ page \notin LocationPages => seen.known = {} /\ seen.edges = {}
PeopleStart ==
    /\ PeopleInit
    /\ page \notin {"search", "members"} => ~roles.manage
    /\ page \notin {"session", "accounts"} => session.stored = "viewer" /\ session.page = "app"
    /\ page # "rides" => rides.stored = [d \in Day |-> "no"]

AdminPagesInit ==
    /\ EditorStart /\ DashInit /\ PanelStart /\ LocationStart /\ PeopleStart

DashPart ==
    /\ DashNext
    /\ page = "pausing" =>
          dash'.home /\ dash'.left.stage = "idle" /\ ~dash'.confirm /\ dash'.switch = "idle"
    /\ page = "sending" => ~dash'.modal /\ srv'.paused = AllClear
    /\ page = "visits" =>
          dash'.switch = "idle" /\ srv'.season = "friday" /\ srv'.paused["wednesday"] = "no"

LocationPart ==
    /\ PageNext
    /\ page \in {"times", "settings"} => map' = map
    /\ page = "rows" => map'.edge = NoPair /\ map'.pending = Nobody /\ seen'.edges = {}
    /\ page = "edges" => map'.form = Nobody /\ map'.target = Nobody
    /\ page # "rows" => \A m \in {"create", "update", "remove"} : busy'[m] = "idle"
    /\ page # "times" => times' = times
    /\ page # "settings" =>
          /\ seen'.adjust = seen.adjust /\ seen'.mapped = seen.mapped
          /\ setting' = setting /\ \A m \in {"adjust", "map"} : busy'[m] = "idle"
    /\ page = "settings" => seen'.edges = seen.edges

PeoplePart ==
    \/ page = "session" /\ SessionNext
    \/ page = "search" /\ RolesNext /\ UNCHANGED roles.listed
    \/ page = "members" /\ RolesNext /\ UNCHANGED <<roles.text, roles.hits>>
    \/ page = "accounts" /\ AccountsNext
    \/ page = "rides" /\ RidesNext
       /\ rides'.here /\ ~rides'.error["Sunday"]
       /\ (rides'.stored # rides.stored => rides'.asks # rides.asks)
    \/ page = "ride visits" /\ RidesNext
       /\ rides'.stored["Sunday"] = "no" /\ ~rides'.error["Sunday"]
       /\ \A q \in rides'.asks : q.day = "Friday"

AdminPagesNext ==
    \/ page \in EditorPages /\ EditorNext
       /\ UNCHANGED <<dashVars, adminVars, pageVars, peopleVars>>
    \/ page \in DashPages /\ DashPart
       /\ UNCHANGED <<editorVars, adminVars, pageVars, peopleVars>>
    \/ page \in PanelPages /\ AdminNext
       /\ UNCHANGED <<editorVars, dashVars, pageVars, peopleVars>>
    \/ page \in LocationPages /\ LocationPart
       /\ UNCHANGED <<editorVars, dashVars, adminVars, peopleVars>>
    \/ page \in PeoplePages /\ PeoplePart
       /\ UNCHANGED <<editorVars, dashVars, adminVars, pageVars>>

\* Every part of every page keeps to its types: those that are not followed are
\* as they started.
AdminPagesTypeOK ==
    /\ page \in EditorPages => EditorTypeOK
    /\ page \in DashPages => DashTypeOK
    /\ page \in PanelPages => AdminTypeOK
    /\ page \in LocationPages => PageTypeOK
    /\ page \in PeoplePages => PeopleTypeOK
=============================================================================

----------------------------- MODULE RidePages -------------------------------
(* The pages with the tools for rides, and the demo of the portfolio, side   *)
(* by side; a page whose panels share nothing is followed in parts.          *)
EXTENDS Router, RouteBuilder, RouteMap, RideTools, Mentions, DemoSite, DemoToast

MapParts == {"line", "labels"}
ToolParts == {"group", "list", "directions"}
DemoParts == {"demo users", "demo panels"}
RideRoutes == {"builder", "message", "toast"} \cup MapParts \cup ToolParts \cup DemoParts

ridePagesVars == <<rb, storage, line, label, full, tool, dir, box,
                   store, asked, shown, ui, toast>>

RidePagesInit ==
    /\ RouteInit /\ (page # "builder" => rb.sel.mode = CHOOSE d \in Days : TRUE)
    /\ MapInit /\ (page \notin MapParts => label.data)
    /\ BoxInit /\ (page # "message" => box.users = CHOOSE names \in Users : TRUE)
    /\ ToolsInit /\ DemoInit /\ ToastInit

MapPart ==
    /\ MapNext
    /\ IF page = "line" THEN UNCHANGED <<label, full>> ELSE UNCHANGED line

ToolPart ==
    /\ ToolsNext
    /\ page # "directions" => UNCHANGED dir
    /\ page # "group" => UNCHANGED tool["group"]
    /\ page # "list" => UNCHANGED tool["list"]

DemoPart ==
    /\ DemoNext
    /\ IF page = "demo users"
       THEN UNCHANGED <<ui.edit, ui.confirm, ui.modal>> /\ asked'.get \ asked.get \subseteq {"users"}
       ELSE UNCHANGED <<ui.invite, ui.inviteRole, ui.target, store.users>>

RidePagesNext ==
    \/ page = "builder" /\ RouteNext
       /\ UNCHANGED <<mapVars, toolsVars, box, demoVars, toast>>
    \/ page \in MapParts /\ MapPart
       /\ UNCHANGED <<routeVars, toolsVars, box, demoVars, toast>>
    \/ page \in ToolParts /\ ToolPart
       /\ UNCHANGED <<routeVars, mapVars, box, demoVars, toast>>
    \/ page = "message" /\ BoxNext
       /\ UNCHANGED <<routeVars, mapVars, toolsVars, demoVars, toast>>
    \/ page \in DemoParts /\ DemoPart
       /\ UNCHANGED <<routeVars, mapVars, toolsVars, box, toast>>
    \/ page = "toast" /\ ToastNext
       /\ UNCHANGED <<routeVars, mapVars, toolsVars, box, demoVars>>

\* Every part of every page keeps to its types: those that are not followed are
\* as they started.
RidePagesTypeOK ==
    /\ page = "builder" => RouteTypeOK
    /\ page \in MapParts => MapTypeOK
    /\ page \in ToolParts => ToolsTypeOK
    /\ page = "message" => BoxTypeOK
    /\ page \in DemoParts => DemoTypeOK
    /\ page = "toast" => ToastTypeOK
=============================================================================

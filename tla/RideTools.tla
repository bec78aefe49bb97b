----------------------------- MODULE RideTools ------------------------------
(* The ride tools: the forms that group rides and list pickups, each with    *)
(* the result of its last request, and the directions to a location.         *)
EXTENDS FiniteSets, Panel

CONSTANTS
    Cars,        \* the groupings of a result
    Places       \* the locations with directions

Tools == {"group", "list"}
RideType == {"friday", "sunday", "message_id"}
Form == [type : RideType, message : BOOLEAN, channel : BOOLEAN]
NoForm == [type |-> "none", message |-> FALSE, channel |-> FALSE]
Nowhere == "nowhere"

\* The body of a request: the message counts for one type only.
Body(form) == [form EXCEPT !.message = @ /\ form.type = "message_id"]

VARIABLES
    tool,      \* per tool, its form and its result
    dir        \* the directions

toolsVars == <<tool, dir>>

ToolType == [
    form : Form,
    settings : BOOLEAN,                            \* showSettings
    asked : SUBSET Form,                           \* requests on their way
    last : Form \cup {NoForm},                     \* the request sent last
    data : Form \cup {NoForm},                     \* the request the result is for
    edited : SUBSET Cars,                          \* groupings that were changed
    error : BOOLEAN]

DirType == [loading : BOOLEAN, list : SUBSET Places, choice : Places \cup {Nowhere}]

Empty == [form |-> [type |-> "friday", message |-> FALSE, channel |-> FALSE],
          settings |-> FALSE, asked |-> {}, last |-> NoForm, data |-> NoForm,
          edited |-> {}, error |-> FALSE]

-----------------------------------------------------------------------------
(* What is rendered.                                                        *)

FormControls(t) ==
    {"type", "settings"}
        \cup If(tool[t].form.type = "message_id", "message")
        \cup If(tool[t].settings, "channel")

\* Variant: the button stays enabled while a request is on its way.
ToolControlsHasty(t) ==
    FormControls(t)
        \cup If(tool[t].form.type = "message_id" => tool[t].form.message, "submit")
        \cup If(t = "group" /\ tool[t].data # NoForm, "edit")
        \cup If(tool[t].edited # {}, "revert")

\* A required field that is empty, like a request on its way, holds the form back.
ToolControls(t) ==
    FormControls(t)
        \cup If(tool[t].asked = {}
                /\ (tool[t].form.type = "message_id" => tool[t].form.message), "submit")
        \cup If(t = "group" /\ tool[t].data # NoForm, "edit")
        \cup If(tool[t].edited # {}, "revert")

DirControls == If(~dir.loading, "choose") \cup If(dir.choice \in dir.list, "copy link")

-----------------------------------------------------------------------------
Change(t, field) == tool' = [tool EXCEPT ![t] = field] /\ UNCHANGED dir

SetType(t, type) ==
    /\ "type" \in ToolControls(t)
    /\ Change(t, [tool[t] EXCEPT !.form.type = type])

SetMessage(t, filled) ==
    /\ "message" \in ToolControls(t)
    /\ Change(t, [tool[t] EXCEPT !.form.message = filled])

SetChannel(t, filled) ==
    /\ "channel" \in ToolControls(t)
    /\ Change(t, [tool[t] EXCEPT !.form.channel = filled])

\* A channel that is hidden again still counts.
ToggleSettings(t) ==
    /\ "settings" \in ToolControls(t)
    /\ Change(t, [tool[t] EXCEPT !.settings = ~@])

\* groupRides, fetchPickups
Submit(t) ==
    /\ "submit" \in ToolControls(t)
    /\ Change(t, [tool[t] EXCEPT !.asked = @ \cup {Body(tool[t].form)}, !.last = Body(tool[t].form),
                                 !.data = NoForm, !.edited = {}, !.error = FALSE])

ToolAnswers(t, form) ==
    /\ form \in tool[t].asked
    /\ Change(t, [tool[t] EXCEPT !.asked = @ \ {form}, !.data = form])

ToolFails(t, form) ==
    /\ form \in tool[t].asked
    /\ Change(t, [tool[t] EXCEPT !.asked = @ \ {form}, !.error = TRUE])

EditGrouping(car) ==
    /\ "edit" \in ToolControls("group")
    /\ Change("group", [tool["group"] EXCEPT !.edited = @ \cup {car}])

RevertGrouping(car) ==
    /\ "revert" \in ToolControls("group")
    /\ Change("group", [tool["group"] EXCEPT !.edited = @ \ {car}])

\* The locations are asked for once, when the page is shown.
DirArrives(list) ==
    /\ dir.loading
    /\ dir' = [dir EXCEPT !.loading = FALSE, !.list = list]
    /\ UNCHANGED tool

Choose(p) ==
    /\ "choose" \in DirControls /\ p \in dir.list
    /\ dir' = [dir EXCEPT !.choice = p]
    /\ UNCHANGED tool

\* Another page and back: what was typed and shown is gone, and so is the
\* answer to a request that was on its way.
LeaveTools ==
    /\ tool' = [t \in Tools |-> Empty]
    /\ dir' = [loading |-> TRUE, list |-> {}, choice |-> Nowhere]

ToolsInit ==
    /\ tool = [t \in Tools |-> Empty]
    /\ dir = [loading |-> TRUE, list |-> {}, choice |-> Nowhere]

ToolsNext ==
    \/ \E t \in Tools :
          \/ \E type \in RideType : SetType(t, type)
          \/ \E filled \in BOOLEAN : SetMessage(t, filled) \/ SetChannel(t, filled)
          \/ ToggleSettings(t) \/ Submit(t)
          \/ \E form \in tool[t].asked : ToolAnswers(t, form) \/ ToolFails(t, form)
    \/ \E car \in Cars : EditGrouping(car) \/ RevertGrouping(car)
    \/ \E list \in SUBSET Places : DirArrives(list)
    \/ \E p \in Places : Choose(p)
    \/ LeaveTools

ToolsSpec == ToolsInit /\ [][ToolsNext]_toolsVars

-----------------------------------------------------------------------------
ToolsTypeOK == tool \in [Tools -> ToolType] /\ dir \in DirType

\* A result is that of the request sent last, with the changes made to it and
\* no others, although the form may be changed while the request is on its way:
\* two requests of one form never race.
ResultOfLastAsked ==
    \A t \in Tools :
        /\ tool[t].data # NoForm => tool[t].data = tool[t].last /\ ~tool[t].error
        /\ tool[t].edited # {} => t = "group" /\ tool[t].data # NoForm
=============================================================================

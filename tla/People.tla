------------------------------- MODULE People --------------------------------
(* Who may do what: the signed-in user and their role, the members of the    *)
(* Discord roles, the accounts, and the riders who are not on Discord.       *)
EXTENDS Naturals, FiniteSets, Panel

CONSTANTS
    Members,     \* members of the role that is shown
    Accounts,    \* ids of accounts
    MaxHits      \* the most members a search finds

None == "none"
ASSUME PeopleAssumption == None \notin Members \cup Accounts /\ MaxHits \in Nat

VARIABLES
    session,     \* the "me" query, the role switcher and the login page
    roles,       \* the panel of a role
    accounts,    \* the account management
    rides        \* the non-Discord riders, and what the server keeps of them

peopleVars == <<session, roles, accounts, rides>>

Role == {"viewer", "ride_coordinator", "admin"}
SearchText == {"", "j", "jo", "john"}          \* "john" is a member that was found
Long == {"jo", "john"}                   \* at least two letters: searched for
Day == {"Friday", "Sunday"}

MaxSwitches == 2                         \* bound on the requests on their way
RoleRequest == [to : Role, applied : BOOLEAN,
                mine : BOOLEAN]          \* asked by the switcher that is there

SessionType == [
    page : {"app", "login"},
    me : {"loading", "broken", "broken later"} \cup Role,   \* the last has data, of before
    fetch : {"idle", "asked"} \cup Role,        \* a role: the server has read it
    stored : Role,                              \* what the server keeps
    switches : SUBSET RoleRequest,              \* on their way; those alike are one
    doubt : BOOLEAN,   \* history: the role may have changed since it was read, without
                       \* an answer that has it read again
    bypass : BOOLEAN,                           \* bypassEnabled
    password : BOOLEAN, loading : BOOLEAN, error : BOOLEAN]

RolesType == [
    manage : BOOLEAN,
    text : SearchText, debounced : SearchText, timer : BOOLEAN,
    shown : BOOLEAN,                            \* showDropdown
    hits : 0..MaxHits,                          \* results for the debounced text
    highlight : 0..MaxHits,                     \* 0 for none
    listed : SUBSET Members,
    confirm : Members \cup {None},              \* confirmRemoveId
    removing : Members \cup {None},
    adding : BOOLEAN]

AccountsType == [
    kind : [Accounts -> {"absent", "no email", "protected", "email"}],
    emails : SUBSET Accounts,                   \* showEmailFor
    name : BOOLEAN, role : {"viewer", "other"}, \* the invitation
    inviting : BOOLEAN, changing : BOOLEAN,
    target : Accounts \cup {None}, revoking : BOOLEAN]

Listed == {"yes", "no"}                         \* whether the rider is on the list
RiderForm == {"wanting", "filled"}              \* name and place are required
MaxAsks == 2                                   \* bound on the requests on their way
RideRequest == [what : {"add", "remove"}, day : Day, applied : BOOLEAN,
                mine : BOOLEAN]                \* asked by the widget that is there

RidesType == [
    here : BOOLEAN,                             \* the user is on the page
    day : Day,
    form : RiderForm,                           \* name, place and reaction
    target : Day \cup {None},                   \* pendingDelete, by the day of its ride
    asks : SUBSET RideRequest,                  \* on their way; those alike are one
    stored : [Day -> Listed],
    data : [Day -> Listed \cup {"unknown"}],
    fetch : [Day -> {"idle", "asked"} \cup Listed],
    error : [Day -> BOOLEAN],
    doubt : SUBSET Day]   \* history: days whose list may have changed since it was
                          \* read, without an answer that has it read again

-----------------------------------------------------------------------------
(* What is rendered.                                                        *)

\* The buttons wait for the switcher's own request.
SwitcherControls(r) ==
    If(session.page = "app" /\ session.me \in Role /\ r # session.me
       /\ (\A q \in session.switches : ~q.mine), "switch")

LoginControls ==
    IF session.page # "login" THEN {}
    ELSE {"discord"} \cup If(session.bypass, "type")
           \cup If(session.bypass /\ session.password /\ ~session.loading, "sign in")

Dropdown == roles.shown /\ roles.hits > 0

SearchControls ==
    IF ~roles.manage THEN {}
    ELSE {"type", "focus"} \cup If(Dropdown, "pick")
           \cup If(roles.text # "" /\ ~roles.adding, "add")

\* Variant: another member may be chosen for removal while one is being removed.
RemoveControlsHasty(m) ==
    IF ~roles.manage \/ m \notin roles.listed THEN {}
    ELSE IF roles.confirm = m THEN {"cancel"} \cup If(roles.removing = None, "remove")
    ELSE {"ask"}

RemoveControls(m) ==
    IF ~roles.manage \/ m \notin roles.listed THEN {}
    ELSE IF roles.confirm = m THEN {"cancel"} \cup If(roles.removing = None, "remove")
    ELSE If(roles.removing = None, "ask")

InviteControls == {"name", "role"} \cup If(accounts.name /\ ~accounts.inviting, "invite")

AccountControls(a) ==
    IF accounts.kind[a] = "absent" \/ accounts.target # None THEN {}
    ELSE If(accounts.kind[a] # "no email", "email")
         \cup If(accounts.kind[a] = "email" /\ ~accounts.changing, "role")
         \cup If(accounts.kind[a] # "protected" /\ ~accounts.revoking, "revoke")

\* addMutation.isPending, of the widget that is there.
Adding == \E q \in rides.asks : q.what = "add" /\ q.mine

RideFormControls ==
    IF ~rides.here \/ rides.target # None THEN {}
    ELSE {"day", "fill", "refresh"} \cup If(~Adding /\ rides.form = "filled", "add")

RideListControls ==
    If(rides.here /\ rides.target = None
       /\ rides.data[rides.day] = "yes" /\ ~rides.error[rides.day], "remove")

-----------------------------------------------------------------------------
(* The session.                                                             *)

InSession(s) == session' = s /\ UNCHANGED <<roles, accounts, rides>>

\* A role that the server is still to read will show the change.
Unasked(s) == [s EXCEPT !.doubt = @ \/ s.fetch # "asked"]

\* A query that is asked while a fetch is on its way: it is asked anew if it has
\* data to show meanwhile, and joins the fetch if not.
\* Variant: it always joins.
AskMeJoins(s) ==
    IF s.fetch = "idle" THEN [s EXCEPT !.fetch = "asked", !.doubt = FALSE] ELSE s

AskMe(s) ==
    IF s.fetch = "idle" \/ s.me \in Role \cup {"broken later"}
    THEN [s EXCEPT !.fetch = "asked", !.doubt = FALSE]
    ELSE Unasked(s)

MeRead ==
    /\ session.fetch = "asked"
    /\ InSession([session EXCEPT !.fetch = session.stored])

MeAnswers ==
    /\ session.fetch \in Role
    /\ InSession([session EXCEPT !.me = session.fetch, !.fetch = "idle"])

\* The switcher is gone; its requests go on.
NoSwitcher(s) == [s EXCEPT !.switches = {[q EXCEPT !.mine = FALSE] : q \in @}]

\* 401 leads to the login page, any other failure to a page with a reload button.
MeFails(unauthorized) ==
    /\ session.fetch # "idle" /\ session.page = "app"
    /\ InSession([NoSwitcher(session) EXCEPT
                     !.fetch = "idle",
                     !.me = CASE unauthorized -> "loading"
                            []   ~unauthorized /\ @ \in {"loading", "broken"} -> "broken"
                            []   OTHER -> "broken later",
                     !.page = IF unauthorized THEN "login" ELSE "app",
                     !.password = FALSE, !.error = FALSE])

FocusMe ==
    /\ session.page = "app" /\ session.fetch = "idle"
    /\ InSession(AskMe(session))

\* The user goes to another page and comes back to a new switcher; "me" is asked
\* for by every page, and a fetch on its way is joined.
Revisit ==
    /\ session.page = "app" /\ session.me \in Role
    /\ LET s == NoSwitcher(session)
       IN InSession(IF s.fetch = "idle" THEN AskMe(s) ELSE s)

SwitchRole(r) ==
    /\ "switch" \in SwitcherControls(r) /\ Cardinality(session.switches) < MaxSwitches
    /\ InSession([session EXCEPT !.switches =
                     @ \cup {[to |-> r, applied |-> FALSE, mine |-> TRUE]}])

SwitchApplied(q) ==
    /\ ~q.applied
    /\ InSession([session EXCEPT !.switches = (@ \ {q}) \cup {[q EXCEPT !.applied = TRUE]},
                                 !.stored = q.to])

\* The answer has "me" asked for again, also when the switcher is gone.
RoleSwitched(q) ==
    /\ q.applied
    /\ LET s == [session EXCEPT !.switches = @ \ {q}]
       IN InSession(IF session.page = "app" THEN AskMe(s) ELSE s)

\* Refused, or the request or its answer is lost: nothing is asked for.
RoleNotSwitched(q) == InSession(Unasked([session EXCEPT !.switches = @ \ {q}]))

\* An admin changes the user's role, or the server carries out a switch that was
\* given up.
OthersChangeRole(r) ==
    /\ r # session.stored
    /\ InSession(Unasked([session EXCEPT !.stored = r]))

\* The pages are loaded anew: reload, login, and logout whatever its answer.
Loaded(page) == [session EXCEPT !.page = page, !.me = "loading", !.switches = {},
                                !.fetch = IF page = "app" THEN "asked" ELSE "idle",
                                !.doubt = FALSE,
                                !.bypass = FALSE, !.password = FALSE, !.loading = FALSE,
                                !.error = FALSE]

ReloadApp ==
    session.page = "app" /\ session.me \in {"broken", "broken later"} /\ InSession(Loaded("app"))
Logout == session.page = "app" /\ session.me \in Role /\ InSession(Loaded("login"))

BypassConfig ==
    /\ session.page = "login" /\ InSession([session EXCEPT !.bypass = TRUE])

TypePassword(filled) ==
    /\ "type" \in LoginControls /\ InSession([session EXCEPT !.password = filled])

SignIn ==
    /\ "sign in" \in LoginControls
    /\ InSession([session EXCEPT !.loading = TRUE, !.error = FALSE])

SignInAnswers(ok) ==
    /\ session.loading
    /\ InSession(IF ok THEN Loaded("app") ELSE [session EXCEPT !.loading = FALSE, !.error = TRUE])

LogInWithDiscord == "discord" \in LoginControls /\ InSession(Loaded("app"))

-----------------------------------------------------------------------------
(* The panel of a role.                                                     *)

InRoles(r) == roles' = r /\ UNCHANGED <<session, accounts, rides>>

TypeSearch(t) ==
    /\ "type" \in SearchControls /\ t # roles.text
    /\ InRoles([roles EXCEPT !.text = t, !.timer = TRUE, !.shown = TRUE, !.highlight = 0])

\* The search has a query per text: its results may be kept from before.
Debounce(hits) ==
    /\ roles.timer
    /\ roles.debounced \notin Long \/ roles.text = roles.debounced => hits \in {0, roles.hits}
    /\ InRoles([roles EXCEPT !.timer = FALSE, !.debounced = roles.text,
                             !.hits = CASE roles.text = roles.debounced -> roles.hits
                                      []   roles.text \in Long -> hits
                                      []   OTHER -> 0])

HitsArrive(hits) ==
    /\ roles.manage /\ roles.debounced \in Long
    /\ InRoles([roles EXCEPT !.hits = hits])

SelectMember(r) ==
    [r EXCEPT !.text = "john", !.debounced = "john", !.timer = @ \/ r.text # "john",
              !.hits = IF r.debounced = "john" THEN @ ELSE 0, !.shown = FALSE, !.highlight = 0]

PickMember == "pick" \in SearchControls /\ InRoles(SelectMember(roles))

PointAt(i) ==
    /\ "pick" \in SearchControls /\ i \in 1..roles.hits
    /\ InRoles([roles EXCEPT !.highlight = i])

\* The arrows go around; a highlight may lie beyond the results since a refetch,
\* and Enter then does nothing.
SearchKey(key) ==
    /\ roles.manage /\ Dropdown
    /\ InRoles(CASE key = "down" -> [roles EXCEPT !.highlight = (@ % roles.hits) + 1]
               []   key = "up" -> [roles EXCEPT !.highlight = IF @ <= 1 THEN roles.hits ELSE @ - 1]
               []   key = "enter" /\ roles.highlight \in 1..roles.hits -> SelectMember(roles)
               []   key = "escape" -> [roles EXCEPT !.shown = FALSE, !.highlight = 0]
               []   OTHER -> roles)

FocusSearch ==
    /\ "focus" \in SearchControls /\ roles.text \in Long
    /\ InRoles([roles EXCEPT !.shown = TRUE])

ClickOutside == InRoles([roles EXCEPT !.shown = FALSE])

AddMember ==
    /\ "add" \in SearchControls /\ InRoles([roles EXCEPT !.adding = TRUE])

\* What is in the field is cleared, also what was typed since.
MemberAdded ==
    /\ roles.adding
    /\ InRoles([roles EXCEPT !.adding = FALSE, !.text = "", !.debounced = "", !.shown = FALSE,
                             !.timer = @ \/ roles.text # "", !.hits = 0])

MemberNotAdded == roles.adding /\ InRoles([roles EXCEPT !.adding = FALSE])

AskRemove(m) ==
    /\ "ask" \in RemoveControls(m) /\ InRoles([roles EXCEPT !.confirm = m])

CancelRemove(m) ==
    /\ "cancel" \in RemoveControls(m) /\ InRoles([roles EXCEPT !.confirm = None])

RemoveMember(m) ==
    /\ "remove" \in RemoveControls(m) /\ InRoles([roles EXCEPT !.removing = m])

MemberRemoved(ok) ==
    /\ roles.removing # None
    /\ InRoles([roles EXCEPT !.removing = None, !.confirm = IF ok THEN None ELSE @])

MembersArrive(listed) == InRoles([roles EXCEPT !.listed = listed])

\* Another tab is another panel, which starts anew.
NewPanel(manage) ==
    [manage |-> manage, text |-> "", debounced |-> "", timer |-> FALSE, shown |-> FALSE,
     hits |-> 0, highlight |-> 0, listed |-> {}, confirm |-> None, removing |-> None,
     adding |-> FALSE]

ChangeTab == InRoles(NewPanel(roles.manage))

-----------------------------------------------------------------------------
(* The accounts.                                                            *)

InAccounts(a) == accounts' = a /\ UNCHANGED <<session, roles, rides>>

ToggleEmail(a) ==
    /\ "email" \in AccountControls(a)
    /\ InAccounts([accounts EXCEPT !.emails = IF a \in @ THEN @ \ {a} ELSE @ \cup {a}])

TypeInvitation(filled, role) ==
    /\ accounts.target = None
    /\ InAccounts([accounts EXCEPT !.name = filled, !.role = role])

Invite ==
    /\ accounts.target = None /\ "invite" \in InviteControls
    /\ InAccounts([accounts EXCEPT !.inviting = TRUE])

Invited(ok) ==
    /\ accounts.inviting
    /\ InAccounts([accounts EXCEPT !.inviting = FALSE, !.name = @ /\ ~ok,
                                   !.role = IF ok THEN "viewer" ELSE @])

ChangeRole(a) ==
    /\ "role" \in AccountControls(a) /\ InAccounts([accounts EXCEPT !.changing = TRUE])

\* The caller's own role may be what was changed: "me" is asked again; if the answer
\* is lost it is not.
RoleChanged(ok) ==
    /\ accounts.changing
    /\ accounts' = [accounts EXCEPT !.changing = FALSE]
    /\ \E r \in Role :
         LET s == [session EXCEPT !.stored = r]
         IN session' = IF ok /\ session.page = "app" THEN AskMe(s) ELSE Unasked(s)
    /\ UNCHANGED <<roles, rides>>

AskRevoke(a) ==
    /\ "revoke" \in AccountControls(a) /\ InAccounts([accounts EXCEPT !.target = a])

ConfirmRevoke(yes) ==
    /\ accounts.target # None
    /\ InAccounts([accounts EXCEPT !.target = None, !.revoking = @ \/ yes])

Revoked == accounts.revoking /\ InAccounts([accounts EXCEPT !.revoking = FALSE])

AccountsArrive(kind) == InAccounts([accounts EXCEPT !.kind = kind])

-----------------------------------------------------------------------------
(* The non-Discord riders.                                                  *)

InRides(r) == rides' = r /\ UNCHANGED <<session, roles, accounts>>

AskAnew(r, d) == [r EXCEPT !.fetch[d] = "asked", !.doubt = @ \ {d}]

\* A list that the server is still to read will show the change.
Unheard(r, d) == IF r.fetch[d] = "asked" THEN r ELSE [r EXCEPT !.doubt = @ \cup {d}]

\* A day that is shown again is asked for again; a fetch on its way is joined.
AskOnMount(r, d) == IF r.fetch[d] = "idle" THEN AskAnew(r, d) ELSE Unheard(r, d)

\* Invalidation of the day that is shown; a list that never came is joined too.
InvalidateDay(r) ==
    IF ~r.here THEN r
    ELSE IF r.fetch[r.day] = "idle" \/ r.data[r.day] # "unknown" THEN AskAnew(r, r.day)
    ELSE Unheard(r, r.day)

\* Variant: a day that was loaded before is shown as it was.
ChangeDayCached(d) ==
    /\ "day" \in RideFormControls
    /\ InRides(LET r == [rides EXCEPT !.day = d]
               IN IF d = rides.day \/ r.data[d] # "unknown" THEN r ELSE AskOnMount(r, d))

ChangeDay(d) ==
    /\ "day" \in RideFormControls
    /\ InRides(LET r == [rides EXCEPT !.day = d]
               IN IF d = rides.day THEN r ELSE AskOnMount(r, d))

FillRide(form) ==
    /\ "fill" \in RideFormControls
    /\ InRides([rides EXCEPT !.form = form])

Refresh == "refresh" \in RideFormControls /\ InRides(InvalidateDay(rides))

SendRide(what, d) ==
    /\ Cardinality(rides.asks) < MaxAsks
    /\ InRides([rides EXCEPT !.asks =
                   @ \cup {[what |-> what, day |-> d, applied |-> FALSE, mine |-> TRUE]}])

AddRide == "add" \in RideFormControls /\ SendRide("add", rides.day)

AskRemoveRide ==
    /\ "remove" \in RideListControls /\ InRides([rides EXCEPT !.target = rides.day])

\* The dialog stays until the answer, and may be confirmed or cancelled meanwhile.
ConfirmRemoveRide == rides.target # None /\ SendRide("remove", rides.target)

CancelRemoveRide ==
    /\ rides.target # None /\ InRides([rides EXCEPT !.target = None])

RideApplied(q) ==
    /\ ~q.applied
    /\ InRides([rides EXCEPT !.asks = (@ \ {q}) \cup {[q EXCEPT !.applied = TRUE]},
                             !.stored[q.day] = IF q.what = "add" THEN "yes" ELSE "no"])

\* The form is cleared or the dialog closed, and the day that is shown by then is
\* asked for; the first answer to a dialog confirmed twice asks for its own day.
RideAnswers(q) ==
    /\ q.applied /\ q.mine
    /\ LET r == [rides EXCEPT !.asks = @ \ {q},
                              !.form = IF q.what = "add" THEN "wanting" ELSE @,
                              !.target = IF q.what = "remove" THEN None ELSE @]
       IN \/ InRides(InvalidateDay(r))
          \/ q.what = "remove" /\ q.day # rides.day /\ InRides(r)

\* The answer to a widget that is gone asks for the day it showed at last, which may
\* not be the one that is shown now.
LateRideAnswers(q) ==
    /\ q.applied /\ ~q.mine
    /\ LET r == Unheard([rides EXCEPT !.asks = @ \ {q}], q.day)
       IN InRides(r) \/ InRides(InvalidateDay(r))

\* Refused, or the request or its answer is lost; the list is not asked for again.
RideFails(q) == InRides(Unheard([rides EXCEPT !.asks = @ \ {q}], q.day))

\* Another coordinator adds or removes a rider, or the server clears the riders of
\* a day that has passed, or carries out a request that was given up.
OthersChangeRides(d) ==
    \E l \in Listed \ {rides.stored[d]} :
        InRides(Unheard([rides EXCEPT !.stored[d] = l], d))

\* The user goes to another page, and comes back to a new widget.
LeaveRides ==
    /\ rides.here
    /\ InRides([rides EXCEPT !.here = FALSE, !.day = "Friday", !.form = "wanting",
                             !.target = None, !.asks = {[q EXCEPT !.mine = FALSE] : q \in @}])

ReturnToRides ==
    /\ ~rides.here
    /\ InRides(AskOnMount([rides EXCEPT !.here = TRUE], rides.day))

RidesRead(d) ==
    /\ rides.fetch[d] = "asked" /\ InRides([rides EXCEPT !.fetch[d] = rides.stored[d]])

RidesArrive(d) ==
    /\ rides.fetch[d] \in Listed
    /\ InRides([rides EXCEPT !.fetch[d] = "idle", !.data[d] = rides.fetch[d], !.error[d] = FALSE])

RidesFail(d) ==
    /\ rides.fetch[d] # "idle"
    /\ InRides([rides EXCEPT !.fetch[d] = "idle", !.error[d] = TRUE])

-----------------------------------------------------------------------------
PeopleInit ==
    /\ \E r \in Role, page \in {"app", "login"} :
          session = [page |-> page, me |-> "loading", fetch |-> IF page = "app" THEN "asked" ELSE "idle",
                     stored |-> r, switches |-> {}, doubt |-> FALSE, bypass |-> FALSE,
                     password |-> FALSE, loading |-> FALSE, error |-> FALSE]
    /\ \E manage \in BOOLEAN : roles = NewPanel(manage)
    /\ accounts = [kind |-> [a \in Accounts |-> "absent"], emails |-> {}, name |-> FALSE,
                   role |-> "viewer", inviting |-> FALSE, changing |-> FALSE, target |-> None,
                   revoking |-> FALSE]
    /\ \E stored \in [Day -> Listed] :
          rides = [here |-> TRUE, day |-> "Friday", form |-> "wanting", target |-> None,
                   asks |-> {}, stored |-> stored, data |-> [d \in Day |-> "unknown"], error |-> [d \in Day |-> FALSE],
                   fetch |-> [d \in Day |-> IF d = "Friday" THEN "asked" ELSE "idle"], doubt |-> {}]

SessionNext ==
    \/ MeRead \/ MeAnswers \/ FocusMe \/ \E b \in BOOLEAN : MeFails(b) \/ TypePassword(b) \/ SignInAnswers(b)
    \/ \E r \in Role : SwitchRole(r) \/ OthersChangeRole(r)
    \/ \E q \in session.switches : SwitchApplied(q) \/ RoleSwitched(q) \/ RoleNotSwitched(q)
    \/ Revisit \/ ReloadApp \/ Logout
    \/ BypassConfig \/ SignIn \/ LogInWithDiscord

RolesNext ==
    \/ \E t \in SearchText : TypeSearch(t)
    \/ \E n \in 0..MaxHits : Debounce(n) \/ HitsArrive(n) \/ PointAt(n)
    \/ \E key \in {"down", "up", "enter", "escape"} : SearchKey(key)
    \/ PickMember \/ FocusSearch \/ ClickOutside \/ AddMember \/ MemberAdded \/ MemberNotAdded
    \/ \E m \in Members : AskRemove(m) \/ CancelRemove(m) \/ RemoveMember(m)
    \/ \E ok \in BOOLEAN : MemberRemoved(ok)
    \/ \E listed \in SUBSET Members : MembersArrive(listed)
    \/ ChangeTab

AccountsNext ==
    \/ \E a \in Accounts : ToggleEmail(a) \/ ChangeRole(a) \/ AskRevoke(a)
    \/ \E filled \in BOOLEAN, role \in {"viewer", "other"} : TypeInvitation(filled, role)
    \/ Invite \/ Revoked \/ \E b \in BOOLEAN : Invited(b) \/ RoleChanged(b) \/ ConfirmRevoke(b)
    \/ \E kind \in [Accounts -> {"absent", "no email", "protected", "email"}] : AccountsArrive(kind)

RidesNext ==
    \/ \E d \in Day : \/ ChangeDay(d) \/ OthersChangeRides(d)
                      \/ RidesRead(d) \/ RidesArrive(d) \/ RidesFail(d)
    \/ \E q \in rides.asks : RideApplied(q) \/ RideAnswers(q) \/ LateRideAnswers(q) \/ RideFails(q)
    \/ \E form \in RiderForm : FillRide(form)
    \/ Refresh \/ AddRide \/ AskRemoveRide \/ ConfirmRemoveRide \/ CancelRemoveRide
    \/ LeaveRides \/ ReturnToRides

PeopleNext == SessionNext \/ RolesNext \/ AccountsNext \/ RidesNext

PeopleSpec == PeopleInit /\ [][PeopleNext]_peopleVars

-----------------------------------------------------------------------------
PeopleTypeOK ==
    /\ session \in SessionType
    /\ roles \in RolesType
    /\ accounts \in AccountsType
    /\ rides \in RidesType

\* The role that is shown is the one the server keeps, once no switch is on its way
\* and nothing is asked: an earlier read of the role never outlives the answer to a
\* switch, also when the switcher was left and another switch sent meanwhile.  The
\* exceptions, until "me" is asked for anew: a change by an admin, and a switch that
\* failed although it may have been stored.
RoleShownIsStored ==
    session.me \in Role /\ session.fetch = "idle" /\ session.switches = {} /\ ~session.doubt
        => session.me = session.stored

\* A confirmation that is open is never closed by the removal of someone else.
ConfirmationStands ==
    [][roles.removing # None /\ roles'.removing = None /\ roles'.confirm # roles.confirm =>
         roles.confirm = roles.removing]_peopleVars

\* The riders that are shown are the server's, once no request for that day is on
\* its way, whatever day was shown when a request was answered, however often the
\* user left the page and whatever was lost.  The exceptions, until the day is asked
\* for anew: a change by others, a request that failed although it may have been
\* carried out, the late answer to a widget that is gone, and a fetch that was on its
\* way when the day was shown again, which may have read the list before the change.
ShownListIsStored ==
    LET d == rides.day
    IN  rides.here /\ rides.fetch[d] = "idle" /\ ~rides.error[d] /\ d \notin rides.doubt
        /\ (\A q \in rides.asks : q.day # d)
            => rides.data[d] = rides.stored[d]
=============================================================================

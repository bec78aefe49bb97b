------------------------------ MODULE DemoSite -------------------------------
(* The demo of the portfolio: the same pages over an API that keeps its data *)
(* in the browser.  A request waits 120 to 300 ms, and is applied and        *)
(* answered in one step after its delay: two requests may swap.              *)
EXTENDS Naturals, Panel

CONSTANT MaxAccounts      \* bound on the ids of accounts

Flags == {"ask_rides_friday_enabled", "ask_rides_sunday_class_enabled"}
FridayFlag == "ask_rides_friday_enabled"
Ids == 1..MaxAccounts
NoId == 0
Admins == {1, 2}                     \* admin_emails; 1 is the current user
ASSUME DemoAssumption == MaxAccounts \in Nat /\ MaxAccounts > 3

AccountRole == {"admin", "viewer"}
Account == [role : AccountRole, email : BOOLEAN]
Absent == [role |-> "absent", email |-> FALSE]
UserTable == [Ids -> Account \cup {Absent}]
Queries == {"flags", "users", "status"}
Missing == {}                        \* a value that may be missing is a set of at most one
Some(S) == {Missing} \cup {{v} : v \in S}

VARIABLES
    store,       \* the in-memory store
    asked,       \* requests in their delay; one of a kind, as the controls wait
    shown,       \* what the queries have
    ui           \* the state of the panels

demoVars == <<store, asked, shown, ui>>

StoreType == [flags : [Flags -> BOOLEAN], users : UserTable]

AskedType == [
    flag : Some([name : Flags, enabled : BOOLEAN]),
    role : Some([id : Ids, role : AccountRole]),
    invite : Some(AccountRole),
    delete : Ids \cup {NoId},
    pause : BOOLEAN, send : BOOLEAN, wipe : BOOLEAN,
    get : SUBSET Queries]

ShownType == [
    flags : Some([Flags -> BOOLEAN]),
    users : Some(UserTable),
    status : Some([friday : BOOLEAN])]            \* job.enabled

UiType == [
    edit : BOOLEAN,                               \* isEditMode
    invite : {"", "filled"}, inviteRole : AccountRole,
    target : Ids \cup {NoId},                    \* revokeTarget
    confirm : {"", "send", "wipe"},               \* an open dialog
    modal : BOOLEAN]                              \* the pause dialog

-----------------------------------------------------------------------------
(* The mock API.                                                            *)

Status(s) == [friday |-> s.flags[FridayFlag]]

MockData(s, query) ==
    CASE query = "flags" -> s.flags [] query = "users" -> s.users [] query = "status" -> Status(s)

SetFlag(s, r) == [s EXCEPT !.flags[r.name] = r.enabled]
\* The account is found by its email.
SetRole(s, r) == [s EXCEPT !.users[r.id].role = IF s.users[r.id].email THEN r.role ELSE @]
Existing(s) == {i \in Ids : s.users[i] # Absent}
NewId(s) == (CHOOSE i \in Existing(s) : \A j \in Existing(s) : j <= i) + 1
AddUser(s, role) == [s EXCEPT !.users[NewId(s)] = [role |-> role, email |-> FALSE]]
DropUser(s, id) == [s EXCEPT !.users[id] = Absent]

\* The delay of a request that changes something ends: the change, the answer
\* and the queries it invalidates.  The toast is told too (DemoToast).
Applied(s, request, queries, page) ==
    /\ store' = s
    /\ asked' = [request EXCEPT !.get = @ \cup queries]
    /\ ui' = page
    /\ UNCHANGED shown

\* Variant: the status is not asked again.
FlagAppliedAlone ==
    \E r \in asked.flag :
        Applied(SetFlag(store, r), [asked EXCEPT !.flag = Missing], {"flags"}, ui)

FlagApplied ==
    \E r \in asked.flag :
        Applied(SetFlag(store, r), [asked EXCEPT !.flag = Missing], {"flags", "status"}, ui)

RoleApplied ==
    \E r \in asked.role :
        Applied(SetRole(store, r), [asked EXCEPT !.role = Missing], {"users"}, ui)

InviteApplied ==
    \E role \in asked.invite :
        /\ NewId(store) \in Ids
        /\ Applied(AddUser(store, role), [asked EXCEPT !.invite = Missing], {"users"},
                   [ui EXCEPT !.invite = "", !.inviteRole = "viewer"])

DeleteApplied ==
    /\ asked.delete # NoId
    /\ Applied(DropUser(store, asked.delete), [asked EXCEPT !.delete = NoId], {"users"}, ui)

\* A pause, a sending and a cache wipe are answered, and change nothing.
PauseApplied ==
    /\ asked.pause
    /\ Applied(store, [asked EXCEPT !.pause = FALSE], {"status"}, [ui EXCEPT !.modal = FALSE])

SendApplied == asked.send /\ Applied(store, [asked EXCEPT !.send = FALSE], {"status"}, ui)

WipeApplied == asked.wipe /\ Applied(store, [asked EXCEPT !.wipe = FALSE], {}, ui)

Answered(query) ==
    /\ query \in asked.get
    /\ shown' = [shown EXCEPT ![query] = {MockData(store, query)}]
    /\ asked' = [asked EXCEPT !.get = @ \ {query}]
    /\ UNCHANGED <<store, ui>>

FocusDemo ==
    /\ asked' = [asked EXCEPT !.get = Queries]
    /\ UNCHANGED <<store, shown, ui>>

-----------------------------------------------------------------------------
(* The panels.                                                              *)

ShownUsers == {i \in Ids : \E users \in shown.users : users[i] # Absent}
RoleOpen(i) == i \notin Admins /\ \E users \in shown.users : users[i].email
CardIsOn == \E status \in shown.status : status.friday    \* else PauseControls is null
Uncovered == ui.target = NoId /\ ui.confirm = "" /\ ~(ui.modal /\ CardIsOn)

DemoFlagControls ==
    IF ~Uncovered \/ shown.flags = Missing THEN {}
    ELSE {"edit mode"} \cup If(ui.edit /\ asked.flag = Missing, "switch")

DemoInviteControls ==
    IF ~Uncovered THEN {}
    ELSE {"name", "role"} \cup If(ui.invite = "filled" /\ asked.invite = Missing, "invite")

\* Variant: an account that is protected may be revoked too.
DemoUserControlsUnchecked(i) ==
    IF ~Uncovered \/ i \notin ShownUsers THEN {}
    ELSE If(asked.role = Missing /\ RoleOpen(i), "role")
         \cup If(asked.delete = NoId, "revoke")

\* The role follows the email, which an invited account has not got yet.
DemoUserControls(i) ==
    IF ~Uncovered \/ i \notin ShownUsers THEN {}
    ELSE If(asked.role = Missing /\ RoleOpen(i), "role")
         \cup If(asked.delete = NoId /\ i \notin Admins, "revoke")

DemoCardControls ==
    IF ui.target # NoId \/ ui.confirm # "" \/ ~CardIsOn THEN {}
    ELSE IF ui.modal THEN {"close"} \cup If(~asked.pause, "pause")
    ELSE {"open"}

DemoButtons ==
    IF ~Uncovered THEN {} ELSE If(~asked.send, "send") \cup If(~asked.wipe, "wipe")

Page(p, request) == ui' = p /\ asked' = request /\ UNCHANGED <<store, shown>>

DemoEditMode ==
    "edit mode" \in DemoFlagControls /\ Page([ui EXCEPT !.edit = ~@], asked)

DemoToggle(f) ==
    /\ "switch" \in DemoFlagControls
    /\ Page(ui, [asked EXCEPT !.flag = {[name |-> f, enabled |-> ~flags[f]] : flags \in shown.flags}])

DemoInvite ==
    /\ "invite" \in DemoInviteControls
    /\ Page(ui, [asked EXCEPT !.invite = {ui.inviteRole}])

DemoTypeInvite(text, role) ==
    /\ "name" \in DemoInviteControls
    /\ Page([ui EXCEPT !.invite = text, !.inviteRole = role], asked)

DemoChangeRole(i, role) ==
    /\ "role" \in DemoUserControls(i) /\ \E users \in shown.users : role # users[i].role
    /\ Page(ui, [asked EXCEPT !.role = {[id |-> i, role |-> role]}])

DemoAskRevoke(i) ==
    /\ "revoke" \in DemoUserControls(i) /\ Page([ui EXCEPT !.target = i], asked)

DemoConfirmRevoke(yes) ==
    /\ ui.target # NoId
    /\ Page([ui EXCEPT !.target = NoId],
            IF yes THEN [asked EXCEPT !.delete = ui.target] ELSE asked)

DemoPause ==
    \/ "open" \in DemoCardControls /\ Page([ui EXCEPT !.modal = TRUE], asked)
    \/ "close" \in DemoCardControls /\ Page([ui EXCEPT !.modal = FALSE], asked)
    \/ "pause" \in DemoCardControls /\ Page(ui, [asked EXCEPT !.pause = TRUE])

DemoPress(button) ==
    /\ button \in DemoButtons /\ Page([ui EXCEPT !.confirm = button], asked)

DemoConfirm(yes) ==
    /\ ui.confirm # ""
    /\ Page([ui EXCEPT !.confirm = ""],
            CASE ~yes -> asked
            []   yes /\ ui.confirm = "send" -> [asked EXCEPT !.send = TRUE]
            []   yes /\ ui.confirm = "wipe" -> [asked EXCEPT !.wipe = TRUE])

-----------------------------------------------------------------------------
DemoInit ==
    /\ store = [flags |-> [f \in Flags |-> f = FridayFlag],
                users |-> [i \in Ids |-> CASE i \in Admins -> [role |-> "admin", email |-> TRUE]
                                         []   i = 3 -> [role |-> "viewer", email |-> TRUE]
                                         []   OTHER -> Absent]]
    /\ asked = [flag |-> Missing, role |-> Missing, invite |-> Missing, delete |-> NoId,
                pause |-> FALSE, send |-> FALSE, wipe |-> FALSE, get |-> Queries]
    /\ shown = [query \in Queries |-> Missing]
    /\ ui = [edit |-> FALSE, invite |-> "", inviteRole |-> "viewer", target |-> NoId,
             confirm |-> "", modal |-> FALSE]

DemoNext ==
    \/ FlagApplied \/ RoleApplied \/ InviteApplied \/ DeleteApplied
    \/ PauseApplied \/ SendApplied \/ WipeApplied
    \/ \E query \in Queries : Answered(query)
    \/ FocusDemo
    \/ DemoEditMode \/ \E f \in Flags : DemoToggle(f)
    \/ DemoInvite \/ \E text \in {"", "filled"}, role \in AccountRole : DemoTypeInvite(text, role)
    \/ \E i \in Ids : DemoAskRevoke(i) \/ \E role \in AccountRole : DemoChangeRole(i, role)
    \/ \E yes \in BOOLEAN : DemoConfirmRevoke(yes) \/ DemoConfirm(yes)
    \/ DemoPause \/ \E button \in {"send", "wipe"} : DemoPress(button)

DemoSpec == DemoInit /\ [][DemoNext]_demoVars

-----------------------------------------------------------------------------
DemoTypeOK ==
    /\ store \in StoreType
    /\ asked \in AskedType
    /\ shown \in ShownType
    /\ ui \in UiType

\* What a panel shows is what the store holds, or is being asked for: a change
\* made in one panel reaches the others.
DemoAgrees ==
    \A query \in Queries \ asked.get : shown[query] = {MockData(store, query)}

\* The accounts in the list of admins stay admins, although ids are given again
\* after the account with the highest one is gone.
AdminsStay == \A i \in Admins : store.users[i].role = "admin"
=============================================================================

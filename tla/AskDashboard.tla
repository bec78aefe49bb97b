---------------------------- MODULE AskDashboard ----------------------------
(* The ask-rides dashboard: the card of the fellowship job with its pause    *)
(* modal, the send-now dialog, and the fellowship-night switch of the site   *)
(* settings.  Which job the fellowship card shows follows the season; the    *)
(* card keeps its state when the season changes, for it has no key.          *)
EXTENDS Naturals, Panel

CONSTANT Followed      \* the pauses followed, of those below

Seasons == {"friday", "wednesday"}   \* also the names of the two jobs
\* No pause, a pause without end, one until a date of the job named.
Pauses == {"no", "indefinite"} \cup Seasons
Scopes == {"fellowship", "sunday", "both"}
Requests == {"idle", "sent", "applied"}
MaxSends == 2                        \* bound on the sends on their way

ASSUME DashboardAssumption ==
    "no" \in Followed /\ Followed \subseteq Pauses

VARIABLES
    dash,   \* the dashboard, its queries and its mutations
    srv     \* what the server holds

dashVars == <<dash, srv>>

\* The season's job has its flag on and the other off.
StatusType == [paused : [Seasons -> Followed], enabled : Seasons]

PauseRequest == [stage : Requests, job : Seasons, to : Followed]

DashType == [
    home : BOOLEAN,                        \* the user is on the page
    season : Seasons,                      \* the query's season
    seasonFetch : {"idle", "asked"} \cup Seasons,
    status : StatusType,                   \* the query's status of the jobs
    statusFetch : {"idle", "asked", "read"},
    answer : StatusType,                   \* what the request read, once it did
    error : BOOLEAN,                       \* its last fetch failed
    modal : BOOLEAN,                       \* showModal of the fellowship card
    dates : {"none"} \cup Seasons,         \* whose dates the open modal lists
    pause : Requests,                      \* pauseMutation, and what it asks
    pauseJob : Seasons,
    pauseTo : Followed,
    left : PauseRequest,                   \* a pause asked by a card that is gone
    confirm : BOOLEAN,                     \* showConfirm
    scope : Scopes,                        \* sendScope
    sends : 0..MaxSends,                   \* this visit's requests to send, on their way
    earlier : Nat,                         \* those of earlier visits
    switch : Requests,                     \* seasonMutation, and what it asks
    switchTo : Seasons,
    doubt : BOOLEAN]   \* history: a pause may have changed without the page being told,
                       \* or while it did not ask

-----------------------------------------------------------------------------
(* What is rendered.                                                        *)

\* getStatusBadge.
Badge(job) ==
    IF dash.status.enabled # job THEN "disabled"
    ELSE IF dash.status.paused[job] = "indefinite" THEN "paused indefinitely"
    ELSE IF dash.status.paused[job] # "no" THEN "paused until"
    ELSE "not paused"

\* PauseControls renders nothing for a disabled job, but keeps its state.
CardShown == dash.home /\ ~dash.error
PauseShown == CardShown /\ dash.status.enabled = dash.season

CardControls ==
    IF ~PauseShown THEN {}
    ELSE IF dash.status.paused[dash.season] = "no" THEN {"pause"}
    ELSE If(dash.pause = "idle", "resume")

ModalControls ==
    {"close"}
      \cup If(dash.pause = "idle", "pause indefinitely")
      \cup If(dash.pause = "idle" /\ dash.dates # "none", "pause until")

\* The scope picker is for the Wednesday season only.
SendDialogControls == {"send", "cancel"} \cup If(dash.season = "wednesday", "pick scope")

SettingsControls == If(dash.switch = "idle", "switch season")

DashboardControls ==
    IF ~dash.home THEN {}
    ELSE IF dash.confirm THEN SendDialogControls
    ELSE IF dash.modal /\ PauseShown THEN ModalControls
    ELSE SettingsControls \cup If(dash.sends = 0, "send now") \cup CardControls

-----------------------------------------------------------------------------
(* The pause modal.                                                         *)

\* The dates of the open modal are asked for by job, and in pages, which are left
\* out; until they come, those of the previous job stay in the list.
OpenModal ==
    /\ "pause" \in DashboardControls
    /\ dash' = [dash EXCEPT !.modal = TRUE]
    /\ UNCHANGED srv

CloseModal ==
    /\ "close" \in DashboardControls
    /\ dash' = [dash EXCEPT !.modal = FALSE, !.dates = "none"]
    /\ UNCHANGED srv

DatesAnswer ==
    /\ dash.modal /\ PauseShown /\ dash.dates # dash.season
    /\ dash' = [dash EXCEPT !.dates = dash.season]
    /\ UNCHANGED srv

\* What a request asked is forgotten with it.
NoRequest(d) == [d EXCEPT !.pause = "idle", !.pauseJob = "friday", !.pauseTo = "no"]

\* pauseMutation.mutate: the job is the one the card shows now.
Offered ==
    Followed \cap (If("resume" \in DashboardControls, "no")
        \cup If("pause indefinitely" \in DashboardControls, "indefinite")
        \cup If("pause until" \in DashboardControls, dash.dates))

RequestPause(to) ==
    /\ to \in Offered
    /\ dash' = [dash EXCEPT !.pause = "sent", !.pauseJob = dash.season, !.pauseTo = to]
    /\ UNCHANGED srv

ApplyPause ==
    /\ dash.pause = "sent"
    /\ srv' = [srv EXCEPT !.paused[dash.pauseJob] = dash.pauseTo]
    /\ dash' = [dash EXCEPT !.pause = "applied"]

\* A status that the server is still to read will show the change.
Unseen(d) == [d EXCEPT !.doubt = @ \/ d.statusFetch # "asked"]

\* Variant: the answer of a request on its way stands for a later one.
AskStatusJoins(d) ==
    IF ~d.home \/ d.statusFetch # "idle" THEN d
    ELSE [d EXCEPT !.statusFetch = "asked", !.answer = d.status, !.doubt = FALSE]

\* invalidateQueries(['askRidesStatus']): asked anew while the dashboard is there.
AskStatus(d) ==
    IF d.home
    THEN [d EXCEPT !.statusFetch = "asked", !.answer = d.status, !.doubt = FALSE]
    ELSE Unseen(d)

PauseAnswers ==
    /\ dash.pause = "applied"
    /\ dash' = AskStatus([NoRequest(dash) EXCEPT !.modal = FALSE, !.dates = "none"])
    /\ UNCHANGED srv

\* The request or its answer is lost: the modal stays, and says so.
PauseFails ==
    /\ dash.pause # "idle"
    /\ dash' = Unseen(NoRequest(dash))
    /\ UNCHANGED srv

\* A card that is unmounted forgets its request; the request goes on.  A bound: one
\* such request is followed at a time.
NoLeft == [stage |-> "idle", job |-> "friday", to |-> "no"]
MayUnmount == dash.pause = "idle" \/ dash.left.stage = "idle"
Unmount(d) ==
    [NoRequest(d) EXCEPT
        !.modal = FALSE, !.dates = "none",
        !.left = IF d.pause = "idle" THEN @
                 ELSE [stage |-> d.pause, job |-> d.pauseJob, to |-> d.pauseTo]]

ApplyLeft ==
    /\ dash.left.stage = "sent"
    /\ srv' = [srv EXCEPT !.paused[dash.left.job] = dash.left.to]
    /\ dash' = [dash EXCEPT !.left = [NoLeft EXCEPT !.stage = "applied"]]

LeftAnswers ==
    /\ dash.left.stage = "applied"
    /\ dash' = AskStatus([dash EXCEPT !.left = NoLeft])
    /\ UNCHANGED srv

LeftFails ==
    /\ dash.left.stage # "idle"
    /\ dash' = Unseen([dash EXCEPT !.left = NoLeft])
    /\ UNCHANGED srv

-----------------------------------------------------------------------------
(* Sending now.                                                             *)

OpenSend ==
    /\ "send now" \in DashboardControls
    /\ dash' = [dash EXCEPT !.confirm = TRUE, !.scope = "both"]
    /\ UNCHANGED srv

PickScope(s) ==
    /\ "pick scope" \in DashboardControls
    /\ dash' = [dash EXCEPT !.scope = s]
    /\ UNCHANGED srv

CancelSend ==
    /\ "cancel" \in DashboardControls
    /\ dash' = [dash EXCEPT !.confirm = FALSE, !.scope = "both"]
    /\ UNCHANGED srv

\* Variant: the dialog stays open until the answer.
SendNowKeepsOpen ==
    /\ "send" \in DashboardControls /\ dash.sends + dash.earlier < MaxSends
    /\ dash' = [dash EXCEPT !.sends = @ + 1]
    /\ UNCHANGED srv

\* handleSendNow.
SendNow ==
    /\ "send" \in DashboardControls /\ dash.sends + dash.earlier < MaxSends
    /\ dash' = [dash EXCEPT !.confirm = FALSE, !.scope = "both", !.sends = @ + 1]
    /\ UNCHANGED srv

\* The jobs that a request runs end the pauses that are over; what stands by then
\* is cleared, whatever it is.
SendClears(job) ==
    /\ dash.sends + dash.earlier > 0 /\ srv.paused[job] # "no"
    /\ srv' = [srv EXCEPT !.paused[job] = "no"]
    /\ UNCHANGED dash

\* One request of those on their way.
SendOver == {[dash EXCEPT !.sends = @ - 1] : n \in 1..dash.sends}
              \cup {[dash EXCEPT !.earlier = @ - 1] : n \in 1..dash.earlier}

SendAnswers ==
    /\ \E d \in SendOver : dash' = AskStatus(d)
    /\ UNCHANGED srv

\* Whether the messages went out, and whether pauses ended, is not known.
SendFails ==
    /\ \E d \in SendOver : dash' = Unseen(d)
    /\ UNCHANGED srv

-----------------------------------------------------------------------------
(* The season, set in the site settings (their dialog is in AdminPanels).    *)

SwitchSeason(s) ==
    /\ "switch season" \in DashboardControls
    /\ dash' = [dash EXCEPT !.switch = "sent", !.switchTo = s]
    /\ UNCHANGED srv

ApplySwitch ==
    /\ dash.switch = "sent"
    /\ srv' = [srv EXCEPT !.season = dash.switchTo]
    /\ dash' = [dash EXCEPT !.switch = "applied"]

SwitchAnswers ==
    /\ dash.switch = "applied"
    /\ dash' = AskStatus([dash EXCEPT !.switch = "idle", !.switchTo = "friday", !.seasonFetch = "asked"])
    /\ UNCHANGED srv

SwitchFails ==
    /\ dash.switch # "idle"
    /\ dash' = [dash EXCEPT !.switch = "idle", !.switchTo = "friday"]
    /\ UNCHANGED srv

-----------------------------------------------------------------------------
(* The queries.                                                             *)

\* The window gets the focus: the query library asks for both again.
FocusDashboard ==
    /\ dash.home /\ dash.statusFetch = "idle" /\ dash.seasonFetch = "idle"
    /\ dash' = AskStatus([dash EXCEPT !.seasonFetch = "asked"])
    /\ UNCHANGED srv

SeasonRead ==
    /\ dash.seasonFetch = "asked"
    /\ dash' = [dash EXCEPT !.seasonFetch = srv.season]
    /\ UNCHANGED srv

SeasonAnswers ==
    /\ dash.seasonFetch \in Seasons
    /\ dash' = [dash EXCEPT !.seasonFetch = "idle", !.season = dash.seasonFetch]
    /\ UNCHANGED srv

StatusRead ==
    /\ dash.statusFetch = "asked"
    /\ dash' = [dash EXCEPT !.statusFetch = "read",
                            !.answer = [paused |-> srv.paused, enabled |-> srv.season]]
    /\ UNCHANGED srv

StatusAnswers ==
    /\ dash.statusFetch = "read"
    /\ dash' = [dash EXCEPT !.statusFetch = "idle", !.status = dash.answer, !.error = FALSE]
    /\ UNCHANGED srv

\* The fetch and its retries fail: the cards are gone, and their state with them.
StatusFails ==
    /\ dash.statusFetch # "idle" /\ MayUnmount
    /\ dash' = [Unmount(dash) EXCEPT !.statusFetch = "idle", !.answer = dash.status,
                                     !.error = TRUE, !.doubt = TRUE]
    /\ UNCHANGED srv

\* The user goes to another page; requests go on.  A bound: the season is not being
\* switched then.
LeaveHome ==
    /\ dash.home /\ MayUnmount /\ dash.switch = "idle"
    /\ dash' = [Unmount(dash) EXCEPT !.home = FALSE, !.confirm = FALSE, !.scope = "both",
                                     !.sends = 0, !.earlier = @ + dash.sends]
    /\ UNCHANGED srv

\* A fetch that is still on its way is joined.
ComeHome ==
    /\ ~dash.home
    /\ LET d == [dash EXCEPT !.home = TRUE,
                             !.seasonFetch = IF @ = "idle" THEN "asked" ELSE @]
       IN dash' = IF dash.statusFetch = "idle" THEN AskStatus(d) ELSE d
    /\ UNCHANGED srv

-----------------------------------------------------------------------------
(* What others do.                                                          *)

\* Another coordinator pauses or resumes a job; or a request of this page that was
\* given up is carried out after all.
OthersPause(job, to) ==
    /\ to # srv.paused[job]
    /\ srv' = [srv EXCEPT !.paused[job] = to]
    /\ dash' = Unseen(dash)

\* A scheduled job, or messages sent by another, end a pause that is over; a run
\* whose answer this page lost is among them.
JobClears(job) ==
    /\ srv.paused[job] # "no"
    /\ srv' = [srv EXCEPT !.paused[job] = "no"]
    /\ dash' = Unseen(dash)

\* Another admin switches the season.
OthersSwitch ==
    /\ srv' = [srv EXCEPT !.season = CHOOSE s \in Seasons : s # @]
    /\ UNCHANGED dash

-----------------------------------------------------------------------------
AllClear == [s \in Seasons |-> "no"]

DashInit ==
    /\ srv = [season |-> "friday", paused |-> AllClear]
    /\ LET status == [paused |-> AllClear, enabled |-> "friday"]
       IN dash = [home |-> TRUE, season |-> "friday", seasonFetch |-> "idle", status |-> status,
                  statusFetch |-> "idle", answer |-> status, error |-> FALSE,
                  modal |-> FALSE, dates |-> "none", pause |-> "idle",
                  pauseJob |-> "friday", pauseTo |-> "no", left |-> NoLeft,
                  confirm |-> FALSE, scope |-> "both", sends |-> 0, earlier |-> 0, switch |-> "idle",
                  switchTo |-> "friday", doubt |-> FALSE]

DashNext ==
    \/ OpenModal \/ CloseModal \/ DatesAnswer
    \/ \E to \in Followed : RequestPause(to)
    \/ ApplyPause \/ PauseAnswers \/ PauseFails
    \/ ApplyLeft \/ LeftAnswers \/ LeftFails
    \/ OpenSend \/ \E s \in Scopes : PickScope(s)
    \/ CancelSend \/ SendNow \/ SendAnswers \/ SendFails
    \/ \E job \in Seasons : SendClears(job) \/ JobClears(job)
    \/ \E job \in Seasons, to \in Followed : OthersPause(job, to)
    \/ \E s \in Seasons : SwitchSeason(s)
    \/ ApplySwitch \/ SwitchAnswers \/ SwitchFails
    \/ FocusDashboard \/ SeasonRead \/ SeasonAnswers
    \/ StatusRead \/ StatusAnswers \/ StatusFails \/ OthersSwitch
    \/ LeaveHome \/ ComeHome

DashSpec == DashInit /\ [][DashNext]_dashVars

-----------------------------------------------------------------------------
DashTypeOK ==
    /\ dash \in DashType
    /\ srv \in [season : Seasons, paused : [Seasons -> Followed]]

DashQuiet ==
    /\ dash.pause = "idle" /\ dash.left.stage = "idle"
    /\ dash.sends = 0 /\ dash.earlier = 0
    /\ dash.statusFetch = "idle" /\ ~dash.doubt

\* When nothing of this page is on its way, the badge of a job tells the pause the
\* server has: the page's own pauses and sends, which may end a pause, always get to
\* it, whatever order the answers came in.  The exceptions, until the status is asked
\* for anew, are a request that failed, a change made by others or by a scheduled
\* job, which nothing tells the page, and an answer that came while the user was on
\* another page, when they come back to a fetch that is on its way.
BadgeTellsPause ==
    DashQuiet => \A job \in Seasons :
        /\ Badge(job) = "paused indefinitely" => srv.paused[job] = "indefinite"
        /\ Badge(job) = "paused until" => srv.paused[job] \in Seasons
        /\ Badge(job) = "not paused" => srv.paused[job] = "no"

\* While the user stays on the page, messages once confirmed are never confirmed
\* again before the answer: one visit never has two requests to send on their way.
\* It is no more than that: the button is enabled again after leaving the page and
\* coming back, although the request of the earlier visit still runs.
OneSendAtATime == dash.sends < 2
=============================================================================

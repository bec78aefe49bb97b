------------------------------ MODULE AskRides ------------------------------
(***************************************************************************)
(* The weekly ride announcements of the bot: the two scheduled jobs        *)
(* (run_ask_rides_all and run_ask_rides_wed), the dashboard's "Send now"   *)
(* (run_ask_rides_manual), the driver requests that follow them, and the   *)
(* settings they read while a coordinator edits them: feature flags, the   *)
(* fellowship season, pauses, the send schedule and the message templates. *)
(*                                                                         *)
(* Every run is a list of stages (todo); a stage stops at each await that  *)
(* lets another task in (at).  Days are numbered from a Monday, day 0.     *)
(***************************************************************************)
EXTENDS Integers, Sequences

CONSTANTS
    MaxDay,           \* bound: the last day explored
    MaxRuns,          \* bound: job runs started, scheduled and manual
    MaxChanges,       \* bound: edits made by coordinators
    MaxFaults,        \* bound: failed calls, aborted runs and restarts
    Edits,            \* the kinds of edit explored
    Scopes,           \* the "Send now" scopes explored
    HostOffsets,      \* how far date.today() of the host may be ahead of LA
    UpcomingWeeks,    \* how many event dates the pause dialog offers
    WildcardSundays,  \* Sundays with a "wildcard" event on the calendar
    SchoolSundays     \* Sundays with a "sunday school" event

ASSUME BoundsAssumption == 
    /\ MaxDay \in Nat /\ MaxRuns \in Nat /\ MaxChanges \in Nat
    /\ MaxFaults \in Nat /\ UpcomingWeeks \in Nat
ASSUME HostAssumption == HostOffsets \subseteq {0, 1}
ASSUME ScopeAssumption == Scopes \subseteq {"fellowship", "sunday", "both"}

VARIABLES
    day,       \* today in Los Angeles
    season,    \* the fellowship_season setting
    seasonOp,  \* how far a set_season call has come
    flags,     \* enabled job flags, named by the stage they gate
    pause,     \* message_schedule_pauses
    wanted,    \* history: the pause a coordinator last asked for
    raced,     \* history: jobs last edited while a run was to clear their row
    sched,     \* effective send day of each schedule slot
    trigger,   \* day of the live APScheduler trigger of each slot
    armed,     \* slots whose trigger is still to fire today
    worded,    \* announcement kinds whose body holds the keyword of its kind
    posts,     \* messages posted to Discord
    runs,      \* job runs
    changes,   \* edits made so far
    faults     \* faults so far

vars == <<day, season, seasonOp, flags, pause, wanted, raced, sched, trigger, armed,
          worded, posts, runs, changes, faults>>
settings == <<season, seasonOp, flags, wanted, raced, sched, trigger, armed, worded,
              changes>>

RunId == 1..MaxRuns
Job == {"wednesday", "friday", "sunday", "sunday_class"}
Slot == {"reminder", "group"}
Season == {"friday", "wednesday"}
Announcement == {"wed", "fri", "sun", "class"}
DriverAsk == {"drvWed", "drvFri", "drvSun"}
JobStage == Announcement \cup DriverAsk
Header == {"headerWeek", "headerSunday"}
PostKind == JobStage \cup Header \cup {"ping", "notice"}
Stage == JobStage \cup {"scan", "header", "felly", "warm"}

(***************************************************************************)
(* Dates.                                                                  *)
(***************************************************************************)
Week(d) == d \div 7

\* The next date that falls on weekday w, never today.
NextEvent(w, d) ==
    LET ahead == (w - (d % 7) + 7) % 7
    IN  d + (IF ahead = 0 THEN 7 ELSE ahead)

\* Variant: the two operands of the subtraction swapped.
SendDayBeforeSwapped(event, s) == event - ((s - (event % 7)) % 7)

\* The last date on weekday s that is not after the event.
SendDayBefore(event, s) == event - (((event % 7) - s) % 7)

Weekday(j) == CASE j = "wednesday" -> 2 [] j = "friday" -> 4 [] OTHER -> 6

PauseJob(s) ==
    CASE s \in {"wed", "drvWed"} -> "wednesday"
      [] s \in {"fri", "drvFri"} -> "friday"
      [] s = "class" -> "sunday_class"
      [] OTHER -> "sunday"

JobSlot(j) == IF j = "wednesday" THEN "reminder" ELSE "group"

EventOf(s, d) == NextEvent(Weekday(PauseJob(s)), d)

DefaultSchedule == [reminder |-> 0, group |-> 2]
AllowedDays == [reminder |-> 0..1, group |-> 0..3]

(***************************************************************************)
(* Pauses.  resume = 0 stands for a NULL resume_after_date.                *)
(***************************************************************************)
Pause == [paused : BOOLEAN, resume : Nat]
NotPaused == [paused |-> FALSE, resume |-> 0]

\* Variant: the pause gives way a week before its send day.
IsJobPausedWeekShort(p, s, today) ==
    p.paused /\ (p.resume = 0 \/ today < SendDayBefore(p.resume, s) - 7)

\* is_job_paused ...
IsJobPaused(p, s, today) ==
    p.paused /\ (p.resume = 0 \/ today < SendDayBefore(p.resume, s))

\* ... and the dated pause that it takes to be over, and goes on to clear.
IsOver(p, s, today) == p.paused /\ ~IsJobPaused(p, s, today)

\* The dates the pause dialog offers for a job.
UpcomingDates(j) ==
    LET next == NextEvent(Weekday(j), day)
        first == IF j = "wednesday" /\ next - 2 < day THEN next + 7 ELSE next
    IN  {first + 7 * k : k \in 0..(UpcomingWeeks - 1)}

\* What a coordinator who set pause p expects: no announcement of event e.
Covers(p, e) == p.paused /\ (p.resume = 0 \/ e < p.resume)

(***************************************************************************)
(* Runs.  clearing holds the rows that is_job_paused has read as over and  *)
(* is still to clear: the SELECT and the UPDATE are two awaits, and what a *)
(* coordinator saves in between is overwritten.  The fields calm, touched  *)
(* and due are history: nothing but the properties reads them.             *)
(*   calm     no edit, fault or midnight has fallen into the run so far    *)
(*   touched  jobs whose pause was edited during the run                   *)
(*   due      what the run ought to post, by the settings it started under *)
(***************************************************************************)
RunJob == {"all", "wed", "fellowship", "sunday", "both"}
Scheduled == {"all", "wed"}

Plan(job) ==
    CASE job = "all" -> <<"scan", "header", "fri", "class", "sun", "warm",
                          "drvFri", "drvSun", "warm">>
      [] job = "wed" -> <<"wed">>
      [] job = "fellowship" -> <<"header", "felly", "warm">>
      [] job = "sunday" -> <<"header", "class", "sun", "drvSun", "warm">>
      [] job = "both" -> <<"header", "felly", "class", "sun", "drvSun", "warm">>

Run == [job : RunJob \cup {"none"},
        st : {"idle", "active", "done", "skipped", "aborted"},
        todo : Seq(Stage),
        at : {"gate", "pause", "ping", "post"},
        sendDay : 0..6,
        passed : SUBSET Announcement,
        scanFailed : BOOLEAN,
        clearing : SUBSET Job,
        calm : BOOLEAN,
        touched : SUBSET Job,
        due : SUBSET JobStage]

NoRun == [job |-> "none", st |-> "idle", todo |-> <<>>, at |-> "gate", sendDay |-> 0,
          passed |-> {}, scanFailed |-> FALSE, clearing |-> {}, calm |-> FALSE,
          touched |-> {}, due |-> {}]

Post == [run : RunId, kind : PostKind, day : Nat, event : Nat, worded : BOOLEAN]

Active(r) == runs[r].st = "active"
Ready(r) == Active(r) /\ runs[r].todo # <<>> /\ runs[r].clearing = {}
AtStage(r, s) == Ready(r) /\ Head(runs[r].todo) = s

\* The row is cleared though a coordinator saved it while it was being cleared.
Lost(j) == j \in raced /\ ~pause[j].paused

TypeOK ==
    /\ day \in Nat
    /\ season \in Season
    /\ seasonOp \in {"idle", "enable", "disable"}
    /\ flags \subseteq JobStage
    /\ pause \in [Job -> Pause]
    /\ wanted \in [Job -> Pause]
    /\ raced \subseteq Job
    /\ \A slot \in Slot : /\ sched[slot] \in AllowedDays[slot]
                           /\ trigger[slot] \in AllowedDays[slot]
    /\ sched \in [Slot -> 0..6]
    /\ trigger \in [Slot -> 0..6]
    /\ armed \subseteq Slot
    /\ worded \subseteq Announcement
    /\ posts \subseteq Post
    /\ runs \in [RunId -> Run]
    /\ changes \in 0..MaxChanges
    /\ faults \in 0..MaxFaults

(***************************************************************************)
(* What the settings ask for, told from the coordinator's side: wanted     *)
(* instead of the pause rows, event dates instead of send days.            *)
(***************************************************************************)
InSeason(s) ==
    /\ s \in {"wed", "drvWed"} => season = "wednesday"
    /\ s \in {"fri", "drvFri"} => season = "friday"

CalendarAllows(s, event) ==
    /\ s = "sun" => event \notin WildcardSundays
    /\ s = "class" => event \in SchoolSundays

Held(s, d) == Covers(wanted[PauseJob(s)], EventOf(s, d))

Ought(s) ==
    /\ s \in flags
    /\ InSeason(s)
    /\ ~Held(s, day)
    /\ CalendarAllows(s, EventOf(s, day))

Reach(job) ==
    CASE job = "all" -> JobStage \ {"wed", "drvWed"}
      [] job = "wed" -> {"wed", "drvWed"}
      [] job = "fellowship" -> {"wed", "drvWed", "fri", "drvFri"}
      [] job = "sunday" -> {"sun", "class", "drvSun"}
      [] job = "both" -> JobStage

Due(job) == {s \in Reach(job) : Ought(s) /\ (s = "drvWed" => Ought("wed"))}

\* No dated pause stands between its send day's eve and its event.
Settled(j) ==
    \/ ~wanted[j].paused \/ wanted[j].resume = 0
    \/ NextEvent(Weekday(j), day) < wanted[j].resume
    \/ day >= SendDayBefore(wanted[j].resume, sched[JobSlot(j)])

ScheduledSlot(job) == IF job = "wed" THEN "reminder" ELSE "group"

\* What an undisturbed run will do is known: no pause is, or may be, lost.
Predictable(job) ==
    /\ raced = {}
    /\ \/ job \in Scheduled /\ day % 7 = sched[ScheduledSlot(job)]
       \/ \A j \in Job : Settled(j)

-----------------------------------------------------------------------------
Init ==
    /\ day = 0
    /\ season \in Season
    /\ seasonOp = "idle"
    /\ flags = IF season = "friday" THEN JobStage \ {"wed"} ELSE JobStage \ {"fri"}
    /\ pause = [j \in Job |-> NotPaused]
    /\ wanted = pause
    /\ raced = {}
    /\ sched = DefaultSchedule
    /\ trigger = sched
    /\ armed = {s \in Slot : trigger[s] = day % 7}
    /\ worded = Announcement
    /\ posts = {}
    /\ runs = [r \in RunId |-> NoRun]
    /\ changes = 0
    /\ faults = 0

(***************************************************************************)
(* Starting runs, and time.                                                *)
(***************************************************************************)
StartRun(job) ==
    \E r \in RunId :
        /\ runs[r].st = "idle"
        /\ \A q \in RunId : q < r => runs[q].st # "idle"
        /\ runs' = [runs EXCEPT ![r] = [NoRun EXCEPT
                        !.job = job, !.st = "active", !.todo = Plan(job),
                        !.calm = Predictable(job), !.due = Due(job)]]

\* APScheduler fires the slot's job; with max_instances = 1 a firing that
\* finds the same job still running is dropped.
Fire(slot) ==
    LET job == IF slot = "group" THEN "all" ELSE "wed"
        busy == \E r \in RunId : Active(r) /\ runs[r].job = job
    IN  /\ slot \in armed
        /\ armed' = armed \ {slot}
        /\ IF busy THEN UNCHANGED runs ELSE StartRun(job)
        /\ UNCHANGED <<day, season, seasonOp, flags, pause, wanted, raced, sched, trigger,
                       worded, posts, changes, faults>>

\* POST /api/ask-rides/send-now
SendNow(scope) ==
    /\ StartRun(scope)
    /\ UNCHANGED <<day, pause, posts, faults, settings>>

Fault == faults < MaxFaults /\ faults' = faults + 1

\* The edits that reach into running runs, for the history fields.
Disturb(jobs) ==
    runs' = [r \in RunId |-> IF Active(r)
                THEN [runs[r] EXCEPT !.calm = FALSE, !.touched = @ \cup jobs]
                ELSE runs[r]]

\* Midnight.  A trigger that had not fired by then was missed (bot down).  A
\* midnight that falls into a run is rare, and counted as a fault.
NextDay ==
    /\ day < MaxDay
    /\ IF \E r \in RunId : Active(r) THEN Fault ELSE UNCHANGED faults
    /\ day' = day + 1
    /\ armed' = {s \in Slot : trigger[s] = (day + 1) % 7}
    /\ Disturb({})
    /\ UNCHANGED <<season, seasonOp, flags, pause, wanted, raced, sched, trigger, worded,
                   posts, changes>>

(***************************************************************************)
(* The stages of a run.                                                    *)
(***************************************************************************)
Continue(r, rest) ==
    [runs[r] EXCEPT !.todo = rest, !.at = "gate",
                    !.st = IF rest = <<>> THEN "done" ELSE "active"]

Rest(r) == Tail(runs[r].todo)
Stop(r, st) == [runs[r] EXCEPT !.todo = <<>>, !.st = st, !.clearing = {}]
Set(r, run) == runs' = [runs EXCEPT ![r] = run]
Faulty(run) == [run EXCEPT !.calm = FALSE]

PostMessage(r, kind, event) ==
    posts' = posts \cup {[run |-> r, kind |-> kind, day |-> day, event |-> event,
                          worded |-> kind \in worded]}

\* Variant: the scan looks at today's messages only.
SentEarlyToday ==
    \E p \in posts : p.kind \in {"fri", "sun", "class"} /\ p.worded /\ p.day >= day

\* _was_ask_rides_sent_early_this_week: its keywords are those of three kinds.
SentEarly ==
    \E p \in posts : /\ p.kind \in {"fri", "sun", "class"}
                     /\ p.worded
                     /\ Week(p.day) >= Week(day)

Scan(r) ==
    /\ AtStage(r, "scan")
    /\ \/ SentEarly /\ Set(r, Stop(r, "skipped")) /\ UNCHANGED faults
       \/ ~SentEarly /\ Set(r, Continue(r, Rest(r))) /\ UNCHANGED faults
       \/ Fault /\ Set(r, [Faulty(Continue(r, Rest(r))) EXCEPT !.scanFailed = TRUE])
    /\ UNCHANGED <<day, pause, posts, settings>>

\* run_ask_rides_header reads flags and pauses in one session, row by row.  The
\* reads are one step here: an edit between two of them touches one row only.
HeaderGate(r) ==
    /\ AtStage(r, "header") /\ runs[r].at = "gate"
    /\ \E off \in HostOffsets :
         LET today == day + off
             s == sched["group"]
             read == {"sunday", "sunday_class", "friday"}
             open == {k \in Announcement : PauseJob(k) \in read =>
                                              ~IsJobPaused(pause[PauseJob(k)], s, today)}
         IN  Set(r, [runs[r] EXCEPT !.at = "post", !.passed = open \cap flags,
                                    !.clearing = {j \in read : IsOver(pause[j], s, today)}])
    /\ UNCHANGED <<day, pause, posts, faults, settings>>

\* An unreachable calendar reads as a day without events.
CalendarSays(s, event, up) == IF up THEN CalendarAllows(s, event) ELSE s # "class"

CalendarRead(up) == IF up THEN UNCHANGED faults ELSE Fault

MaybeFaulty(run, up) == IF up THEN run ELSE Faulty(run)

\* Variant: the header asks for season and calendar only.
HeaderHoldsUnchecked(r, up) ==
    {k \in Announcement : InSeason(k) /\ CalendarSays(k, EventOf(k, day), up)}

\* The announcements the header believes will follow (the Wednesday one is
\* taken to follow even while it is paused).
HeaderHolds(r, up) ==
    {k \in runs[r].passed : InSeason(k) /\ CalendarSays(k, EventOf(k, day), up)}

HeaderPost(r) ==
    /\ AtStage(r, "header") /\ runs[r].at = "post"
    /\ \E up \in BOOLEAN :
         LET holds == HeaderHolds(r, up)
         IN  /\ CalendarRead(up)
             /\ Set(r, MaybeFaulty(Continue(r, Rest(r)), up))
             /\ \/ holds = {} /\ UNCHANGED posts
                \/ holds # {} /\ PostMessage(r, IF "fri" \in holds THEN "headerWeek"
                                                                   ELSE "headerSunday", 0)
    /\ UNCHANGED <<day, pause, settings>>

AtJob(r, at) == Ready(r) /\ Head(runs[r].todo) \in JobStage /\ runs[r].at = at

\* feature_flag_enabled, the configured send day, and the season check.
Gate(r) ==
    /\ AtJob(r, "gate")
    /\ LET s == Head(runs[r].todo)
       IN  \/ /\ s \in flags /\ InSeason(s)
              /\ Set(r, [runs[r] EXCEPT !.at = "pause",
                                        !.sendDay = sched[JobSlot(PauseJob(s))]])
           \/ /\ ~(s \in flags /\ InSeason(s))
              /\ Set(r, Continue(r, Rest(r)))
    /\ UNCHANGED <<day, pause, posts, faults, settings>>

CheckPause(r) ==
    /\ AtJob(r, "pause")
    /\ \E off \in HostOffsets :
         LET s == Head(runs[r].todo)
             j == PauseJob(s)
             today == day + off
             over == IsOver(pause[j], runs[r].sendDay, today)
         IN  \/ /\ IsJobPaused(pause[j], runs[r].sendDay, today)
                /\ Set(r, Continue(r, Rest(r)))
             \/ /\ ~IsJobPaused(pause[j], runs[r].sendDay, today)
                /\ Set(r, [runs[r] EXCEPT !.at = IF s = "wed" THEN "ping" ELSE "post",
                                          !.clearing = IF over THEN {j} ELSE {}])
    /\ UNCHANGED <<day, pause, posts, faults, settings>>

\* The clearing write of is_job_paused: an UPDATE of the row whatever it holds
\* by now, committed at once.
ClearOver(r) ==
    /\ Active(r)
    /\ \E j \in runs[r].clearing :
         /\ pause' = [pause EXCEPT ![j] = NotPaused]
         /\ Set(r, [runs[r] EXCEPT !.clearing = @ \ {j}])
    /\ UNCHANGED <<day, posts, faults, settings>>

\* run_ask_rides_wed pings the role before the embed.
Ping(r) ==
    /\ AtJob(r, "ping")
    /\ PostMessage(r, "ping", 0)
    /\ Set(r, [runs[r] EXCEPT !.at = "post"])
    /\ UNCHANGED <<day, pause, faults, settings>>

\* Fellowship announcements and driver requests post as they are; the Sunday
\* driver request does too, its calendar check being a coroutine never awaited.
\* Only a posted Wednesday announcement is followed by its driver request.
PostPlain(r) ==
    /\ AtJob(r, "post") /\ Head(runs[r].todo) \notin {"sun", "class"}
    /\ LET s == Head(runs[r].todo)
       IN  /\ PostMessage(r, s, EventOf(s, day))
           /\ Set(r, Continue(r, IF s = "wed" THEN <<"drvWed">> \o Rest(r) ELSE Rest(r)))
    /\ UNCHANGED <<day, pause, faults, settings>>

\* Sunday announcements ask the calendar first; a wildcard Sunday is reported
\* to the ride coordinators instead.
PostSunday(r) ==
    /\ AtJob(r, "post") /\ Head(runs[r].todo) \in {"sun", "class"}
    /\ \E up \in BOOLEAN :
         LET s == Head(runs[r].todo)
             says == CalendarSays(s, EventOf(s, day), up)
         IN  /\ CalendarRead(up)
             /\ Set(r, MaybeFaulty(Continue(r, Rest(r)), up))
             /\ \/ says /\ PostMessage(r, s, EventOf(s, day))
                \/ ~says /\ s = "sun" /\ PostMessage(r, "notice", EventOf(s, day))
                \/ ~says /\ s = "class" /\ UNCHANGED posts
    /\ UNCHANGED <<day, pause, settings>>

Warm(r) ==
    /\ AtStage(r, "warm")
    /\ Set(r, Continue(r, Rest(r)))
    /\ UNCHANGED <<day, pause, posts, faults, settings>>

\* _run_ask_rides_fellowship_group picks the fellowship of the season.
PickFellowship(r) ==
    /\ AtStage(r, "felly")
    /\ Set(r, Continue(r, (IF season = "wednesday" THEN <<"wed">> ELSE <<"fri", "drvFri">>)
                            \o Rest(r)))
    /\ UNCHANGED <<day, pause, posts, faults, settings>>

\* A send Discord refuses: caught for embeds and driver requests, not for the
\* header, the Wednesday ping and the wildcard notice.
Sends(r, s) ==
    /\ s = "header" => HeaderHolds(r, TRUE) # {}
    /\ s = "class" => CalendarAllows(s, EventOf(s, day))

SendFails(r) ==
    /\ Ready(r) /\ runs[r].at \in {"ping", "post"}
    /\ Sends(r, Head(runs[r].todo))
    /\ Fault
    /\ LET s == Head(runs[r].todo)
           caught == /\ s \in JobStage /\ runs[r].at = "post"
                     /\ s = "sun" => CalendarAllows(s, EventOf(s, day))
       IN  \/ caught /\ Set(r, Faulty(Continue(r, Rest(r))))
           \/ ~caught /\ Set(r, Faulty(Stop(r, "aborted")))
    /\ UNCHANGED <<day, pause, posts, settings>>

\* A database or cache error at an await that nothing catches ends the run.
Abort(r) ==
    /\ Active(r) /\ Head(runs[r].todo) # "scan"
    /\ \/ runs[r].at \in {"gate", "pause"} \/ runs[r].clearing # {}
       \/ Head(runs[r].todo) = "header"
    /\ Fault
    /\ Set(r, Faulty(Stop(r, "aborted")))
    /\ UNCHANGED <<day, pause, posts, settings>>

RunStep(r) ==
    \/ Scan(r) \/ HeaderGate(r) \/ HeaderPost(r) \/ Gate(r) \/ CheckPause(r)
    \/ ClearOver(r) \/ Ping(r) \/ PostPlain(r) \/ PostSunday(r) \/ Warm(r) \/ PickFellowship(r)
    \/ SendFails(r) \/ Abort(r)

(***************************************************************************)
(* Edits made on the dashboard while runs are in flight.                   *)
(***************************************************************************)
Edit(kind) == kind \in Edits /\ changes < MaxChanges /\ changes' = changes + 1

SetPauseTo(j, p) ==
    /\ Edit("pause")
    /\ pause' = [pause EXCEPT ![j] = p]
    /\ wanted' = [wanted EXCEPT ![j] = p]
    /\ raced' = IF \E r \in RunId : j \in runs[r].clearing THEN raced \cup {j}
                                                           ELSE raced \ {j}
    /\ Disturb({j})
    /\ UNCHANGED <<day, season, seasonOp, flags, sched, trigger, armed, worded, posts, faults>>

SetPause(j) ==
    \E d \in {0} \cup UpcomingDates(j) : SetPauseTo(j, [paused |-> TRUE, resume |-> d])

ClearPause(j) == SetPauseTo(j, NotPaused)

ToggleFlag(s) ==
    /\ Edit("flag")
    /\ flags' = IF s \in flags THEN flags \ {s} ELSE flags \cup {s}
    /\ Disturb({})
    /\ UNCHANGED <<day, season, seasonOp, pause, wanted, raced, sched, trigger, armed,
                   worded, posts, faults>>

\* set_season commits the season, then the flag it enables, then the flag it
\* disables; a second call while one is under way is not explored here.
SetSeason(new) ==
    /\ Edit("season")
    /\ seasonOp = "idle"
    /\ season' = new
    /\ seasonOp' = "enable"
    /\ Disturb({})
    /\ UNCHANGED <<day, flags, pause, wanted, raced, sched, trigger, armed, worded, posts, faults>>

SeasonFlag(s) == IF s = "friday" THEN "fri" ELSE "wed"

SyncSeasonFlags ==
    /\ \/ /\ seasonOp = "enable"
          /\ flags' = flags \cup {SeasonFlag(season)}
          /\ seasonOp' = "disable"
       \/ /\ seasonOp = "disable"
          /\ flags' = flags \ ({"fri", "wed"} \ {SeasonFlag(season)})
          /\ seasonOp' = "idle"
    /\ Disturb({})
    /\ UNCHANGED <<day, season, pause, wanted, raced, sched, trigger, armed, worded, posts,
                   changes, faults>>

\* Variant: update_schedule saves without validating the day.
SetScheduleUnvalidated(slot, d) ==
    /\ Edit("schedule")
    /\ sched' = [sched EXCEPT ![slot] = d]
    /\ trigger' = [trigger EXCEPT ![slot] = d]
    /\ armed' \in {armed \ {slot}} \cup (IF d = day % 7 THEN {armed \cup {slot}} ELSE {})
    /\ Disturb({})
    /\ UNCHANGED <<day, season, seasonOp, flags, pause, wanted, raced, worded, posts, faults>>

\* update_schedule, or reset_schedule when d is the default.  If d is today the
\* new time may be still to come or already past.
SetSchedule(slot, d) ==
    /\ Edit("schedule")
    /\ d \in AllowedDays[slot]
    /\ sched' = [sched EXCEPT ![slot] = d]
    /\ trigger' = [trigger EXCEPT ![slot] = d]
    /\ armed' \in {armed \ {slot}} \cup (IF d = day % 7 THEN {armed \cup {slot}} ELSE {})
    /\ Disturb({})
    /\ UNCHANGED <<day, season, seasonOp, flags, pause, wanted, raced, worded, posts, faults>>

\* A customised template may drop the keyword of its kind, or bring it back.
SaveTemplate(k) ==
    /\ Edit("template")
    /\ worded' = IF k \in worded THEN worded \ {k} ELSE worded \cup {k}
    /\ Disturb({})
    /\ UNCHANGED <<day, season, seasonOp, flags, pause, wanted, raced, sched, trigger, armed,
                   posts, faults>>

\* The process restarts: runs and a half-done set_season are lost.  The triggers
\* are rebuilt from the saved schedule, or from the default if that read fails;
\* a trigger of today fires only if its time is still ahead.
Restart ==
    /\ Fault
    /\ \E readable \in BOOLEAN :
         /\ trigger' = IF readable THEN sched ELSE DefaultSchedule
         /\ armed' \in SUBSET {s \in Slot : trigger'[s] = day % 7 /\
                                    (s \in armed \/ trigger'[s] # trigger[s] \/ ~readable)}
    /\ seasonOp' = "idle"
    /\ runs' = [r \in RunId |-> IF Active(r) THEN Faulty(Stop(r, "aborted")) ELSE runs[r]]
    /\ UNCHANGED <<day, season, flags, pause, wanted, raced, sched, worded, posts, changes>>

Next ==
    \/ NextDay
    \/ \E slot \in Slot : Fire(slot)
    \/ \E scope \in Scopes : SendNow(scope)
    \/ \E r \in RunId : RunStep(r)
    \/ \E j \in Job : SetPause(j) \/ ClearPause(j)
    \/ \E s \in JobStage : ToggleFlag(s)
    \/ \E s \in Season : SetSeason(s)
    \/ SyncSeasonFlags
    \/ \E slot \in Slot, d \in 0..6 : SetSchedule(slot, d)
    \/ \E k \in Announcement : SaveTemplate(k)
    \/ Restart

Spec == Init /\ [][Next]_vars
-----------------------------------------------------------------------------
(***************************************************************************)
(* Properties.                                                             *)
(***************************************************************************)
KindsOf(r) == {p.kind : p \in {q \in posts : q.run = r}}

\* No announcement and no driver request is posted for an event that a pause
\* covers, if no coordinator has edited that pause since the run started: the
\* auto-clear in is_job_paused, read in one transaction and written in the next by
\* any number of runs on any day, never lifts a pause before its time.  Left out
\* is the pause saved between that read and that write, and wiped by the write:
\* see IndefiniteStays.
PauseHonoured ==
    [][\A p \in posts' \ posts :
         p.kind \in JobStage =>
            \/ PauseJob(p.kind) \in runs[p.run].touched
            \/ Lost(PauseJob(p.kind))
            \/ ~Covers(wanted[PauseJob(p.kind)], p.event)]_vars

\* Two scheduled runs of one week (the schedule was moved, or the process
\* restarted) never both announce, once the first has posted an announcement
\* the history scan can recognise, unless that scan failed.
NoWeeklyDuplicate ==
    \A p, q \in posts :
        /\ runs[p.run].job = "all" /\ runs[q.run].job = "all" /\ p.run < q.run
        /\ p.kind \in Announcement /\ p.worded
        /\ Week(p.day) = Week(q.day)
        => runs[q.run].scanFailed

\* A run that nothing disturbed posts the announcements and driver requests
\* that were due when it started, no fewer and no more.
PromiseKept ==
    \A r \in RunId :
        runs[r].st = "done" /\ runs[r].calm => KindsOf(r) \cap JobStage = runs[r].due

\* In the Friday season an undisturbed run over both groups pings the role
\* exactly when an announcement follows, and says "for this week" exactly when
\* the Friday one does.
HeaderHasBody ==
    [][\A r \in RunId :
         /\ Active(r) /\ runs'[r].st = "done" /\ runs'[r].calm
         /\ season = "friday" /\ runs[r].job \in {"all", "both"}
         => /\ (KindsOf(r)' \cap Header # {}) <=> (KindsOf(r)' \cap Announcement # {})
            /\ "headerWeek" \in KindsOf(r)' <=> "fri" \in KindsOf(r)']_vars

(***************************************************************************)
(* What the documents say, and the code does not do.                       *)
(***************************************************************************)
\* docs/scheduler.md, "Pausing Jobs": a job is paused indefinitely or until an
\* event; the dialog says of the former "manually resume when ready".  A row that
\* says so changes by an edit only, and by no run.
IndefiniteStays ==
    [][\A j \in Job : pause[j].paused /\ pause[j].resume = 0 /\ pause'[j] # pause[j]
          => changes' # changes]_vars
=============================================================================

--------------------------- MODULE AskRidesProofs ---------------------------
(***************************************************************************)
(* Theorems about AskRides: type correctness, that the auto-clear of dated *)
(* pauses never lets a message out that a pause covers, and that two       *)
(* scheduled runs of a week never both announce.                           *)
(***************************************************************************)
EXTENDS AskRides, TLAPS

(***************************************************************************)
(* The inductive invariant.                                                *)
(***************************************************************************)
\* An active run has a stage to run.
Busy == \A r \in RunId : Active(r) => runs[r].todo # <<>>

\* A resume date falls on the weekday of its job.
ResumeOnWeekday ==
    \A j \in Job : wanted[j].resume # 0 => wanted[j].resume % 7 = Weekday(j)

\* The dated pause asked for covers no event that is still to come.
PastPause(j) == wanted[j].resume # 0 /\ wanted[j].resume <= NextEvent(Weekday(j), day)

\* A row that differs from what the coordinator asked for was cleared by
\* is_job_paused, after its time or by a write the coordinator's edit ran into.
ClearedInTime ==
    \A j \in Job :
        \/ pause[j] = wanted[j]
        \/ pause[j] = NotPaused /\ (j \in raced \/ PastPause(j))

\* So will be the rows a run is still to clear.
ClearsAreDue ==
    \A r \in RunId :
        Active(r) => \A j \in runs[r].clearing : j \in raced \/ PastPause(j)

\* A run about to post has passed the pause check, and the answer still holds.
CheckedFirst ==
    \A r \in RunId :
        Active(r) /\ runs[r].at \in {"ping", "post"} /\ Head(runs[r].todo) \in JobStage =>
            LET s == Head(runs[r].todo)
            IN  \/ PauseJob(s) \in runs[r].touched
                \/ Lost(PauseJob(s))
                \/ ~Covers(wanted[PauseJob(s)], EventOf(s, day))

IInv == TypeOK /\ Busy /\ ResumeOnWeekday /\ ClearedInTime /\ ClearsAreDue /\ CheckedFirst

-----------------------------------------------------------------------------
(***************************************************************************)
(* Dates.                                                                  *)
(***************************************************************************)
\* get_next_date_obj: the next date on a weekday is one to seven days ahead.
LEMMA NextEventWithin ==
    ASSUME NEW w \in 0..6, NEW d \in Nat
    PROVE  /\ NextEvent(w, d) \in Nat
           /\ d < NextEvent(w, d) /\ NextEvent(w, d) <= d + 7
           /\ NextEvent(w, d) % 7 = w
  BY SMTT(30) DEF NextEvent

\* The next date on a weekday never moves back as the days pass.
LEMMA NextEventMonotone ==
    ASSUME NEW w \in 0..6, NEW d \in Nat
    PROVE  NextEvent(w, d) <= NextEvent(w, d + 1)
  BY SMTT(30) DEF NextEvent

\* Two dates on one weekday are a week apart.
LEMMA SameWeekday ==
    ASSUME NEW x \in Nat, NEW y \in Nat, x % 7 = y % 7, x > y
    PROVE  x >= y + 7
  BY SMTT(30)

\* get_send_day_before never goes back more than six days, so a pause gives
\* way only when its event is the next one, even on a host a day ahead.
LEMMA ReleasedOnTime ==
    ASSUME NEW w \in 0..6, NEW d \in Nat, NEW today \in Nat, today <= d + 1,
           NEW event \in Nat, event % 7 = w, NEW s \in 0..6,
           today >= SendDayBefore(event, s)
    PROVE  event <= NextEvent(w, d)
<1>1. event <= today + 6
  BY SMTT(30) DEF SendDayBefore
<1>2. /\ NextEvent(w, d) \in Nat /\ d < NextEvent(w, d)
      /\ NextEvent(w, d) % 7 = event % 7
  BY NextEventWithin
<1>3. event > NextEvent(w, d) => event >= NextEvent(w, d) + 7
  BY <1>2, SameWeekday
<1> QED
  BY <1>1, <1>2, <1>3

LEMMA JobFacts ==
    /\ \A j \in Job : Weekday(j) \in 0..6 /\ JobSlot(j) \in Slot
    /\ \A s \in JobStage : PauseJob(s) \in Job
  BY DEF Job, Weekday, JobSlot, Slot, JobStage, Announcement, DriverAsk, PauseJob

\* The event a message of a kind is about is a day.
LEMMA EventType ==
    ASSUME NEW s \in JobStage, NEW d \in Nat
    PROVE  EventOf(s, d) \in Nat
  BY JobFacts, NextEventWithin DEF EventOf

-----------------------------------------------------------------------------
(***************************************************************************)
(* Types.                                                                  *)
(***************************************************************************)
\* A run that goes on to its next stages is a run, with work left if active.
LEMMA ContinueType ==
    ASSUME TypeOK, NEW r \in RunId, NEW rest \in Seq(Stage)
    PROVE  /\ Continue(r, rest) \in Run
           /\ Continue(r, rest).st = "active" => Continue(r, rest).todo # <<>>
  BY DEF TypeOK, Continue, Run

LEMMA StopType ==
    ASSUME TypeOK, NEW r \in RunId, NEW st \in {"skipped", "aborted"}
    PROVE  Stop(r, st) \in Run /\ Stop(r, st).st # "active"
<1>1. <<>> \in Seq(Stage)
  OBVIOUS
<1> QED
  BY <1>1 DEF TypeOK, Stop, Run

LEMMA FaultyType ==
    ASSUME NEW run \in Run
    PROVE  /\ Faulty(run) \in Run
           /\ Faulty(run).st = run.st /\ Faulty(run).todo = run.todo
  BY DEF Faulty, Run

\* The stages left after the current one.
LEMMA RestType ==
    ASSUME TypeOK, Busy, NEW r \in RunId, Active(r)
    PROVE  /\ Rest(r) \in Seq(Stage)
           /\ runs[r].todo # <<>> /\ runs[r].todo \in Seq(Stage)
           /\ Head(runs[r].todo) \in Stage
<1>1. runs[r].todo \in Seq(Stage) /\ runs[r].todo # <<>>
  BY DEF TypeOK, Busy, Run
<1> QED
  BY <1>1 DEF Rest

\* Replacing one run by a well-typed run keeps the table of runs well typed.
LEMMA SetType ==
    ASSUME TypeOK, Busy, NEW r \in RunId, NEW run \in Run,
           run.st = "active" => run.todo # <<>>, Set(r, run)
    PROVE  runs' \in [RunId -> Run] /\ Busy'
  BY DEF TypeOK, Busy, Set, Active

\* An edit or a midnight marks the active runs and stops none.
LEMMA DisturbType ==
    ASSUME TypeOK, Busy, NEW jobs \in SUBSET Job, Disturb(jobs)
    PROVE  runs' \in [RunId -> Run] /\ Busy'
<1>1. \A r \in RunId :
         [runs[r] EXCEPT !.calm = FALSE, !.touched = @ \cup jobs] \in Run
  BY DEF TypeOK, Run
<1>2. runs' \in [RunId -> Run]
  BY <1>1 DEF TypeOK, Disturb
<1>3. \A r \in RunId : runs'[r].st = runs[r].st /\ runs'[r].todo = runs[r].todo
  BY DEF TypeOK, Disturb, Run
<1> QED
  BY <1>2, <1>3 DEF Busy, Active

\* A posted message is a post.
LEMMA PostType ==
    ASSUME TypeOK, NEW r \in RunId, NEW kind \in PostKind, NEW event \in Nat,
           PostMessage(r, kind, event)
    PROVE  posts' \subseteq Post
<1> DEFINE new == [run |-> r, kind |-> kind, day |-> day, event |-> event,
                   worded |-> kind \in worded]
<1>1. (kind \in worded) \in BOOLEAN
  BY SMT
<1>2. new \in Post
  BY <1>1, Zenon DEF TypeOK, Post
<1>3. posts' = posts \cup {new}
  BY DEF PostMessage
<1> QED
  BY <1>2, <1>3 DEF TypeOK

\* The dates of the pause dialog are days on the weekday of their job.
LEMMA UpcomingType ==
    ASSUME TypeOK, NEW j \in Job, NEW d \in UpcomingDates(j)
    PROVE  d \in Nat /\ d % 7 = Weekday(j)
<1> DEFINE next == NextEvent(Weekday(j), day)
<1>1. next \in Nat /\ next % 7 = Weekday(j)
  BY JobFacts, NextEventWithin DEF TypeOK
<1>2. PICK k \in 0..(UpcomingWeeks - 1) : d = next + 7 * k \/ d = next + 7 + 7 * k
  BY DEF UpcomingDates
<1> HIDE DEF next
<1>3. d \in Nat /\ d % 7 = next % 7
  BY <1>1, <1>2, BoundsAssumption, SMTT(30)
<1> QED
  BY <1>1, <1>3

\* The initial states are well typed, and no run is active.
LEMMA InitTyped == Init => TypeOK /\ Busy
<1> SUFFICES ASSUME Init PROVE TypeOK /\ Busy
  OBVIOUS
<1>1. NoRun \in Run
  BY DEF NoRun, Run
<1>2. runs \in [RunId -> Run] /\ Busy
  BY <1>1 DEF Init, Busy, Active, NoRun
<1>3. sched \in [Slot -> 0..6] /\ \A slot \in Slot : sched[slot] \in AllowedDays[slot]
  BY DEF Init, DefaultSchedule, AllowedDays, Slot
<1>4. pause \in [Job -> Pause] /\ wanted \in [Job -> Pause]
  BY DEF Init, NotPaused, Pause
<1>5. /\ day \in Nat /\ season \in Season /\ seasonOp \in {"idle", "enable", "disable"}
      /\ flags \subseteq JobStage /\ armed \subseteq Slot /\ worded \subseteq Announcement
      /\ posts \subseteq Post /\ trigger = sched
  BY DEF Init, JobStage
<1>6. changes \in 0..MaxChanges /\ faults \in 0..MaxFaults /\ raced \subseteq Job
  BY BoundsAssumption DEF Init
<1> QED
  BY <1>2, <1>3, <1>4, <1>5, <1>6 DEF TypeOK

\* The plans of the five kinds of run.
LEMMA PlanType ==
    ASSUME NEW job \in RunJob
    PROVE  Plan(job) \in Seq(Stage) /\ Plan(job) # <<>>
<1>1. {"scan", "header", "fri", "class", "sun", "warm", "drvFri", "drvSun", "wed", "felly"}
        \subseteq Stage
  BY DEF Stage, JobStage, Announcement, DriverAsk
<1> QED
  BY <1>1 DEF RunJob, Plan

LEMMA StartType ==
    ASSUME TypeOK, Busy, NEW job \in RunJob, StartRun(job)
    PROVE  runs' \in [RunId -> Run] /\ Busy'
<1>1. PICK r \in RunId :
        runs' = [runs EXCEPT ![r] = [NoRun EXCEPT
                    !.job = job, !.st = "active", !.todo = Plan(job),
                    !.calm = Predictable(job), !.due = Due(job)]]
  BY DEF StartRun
<1> DEFINE run == [NoRun EXCEPT !.job = job, !.st = "active", !.todo = Plan(job),
                                !.calm = Predictable(job), !.due = Due(job)]
<1>2. Due(job) \subseteq JobStage
  <2>1. Reach(job) \subseteq JobStage
    BY DEF Reach, RunJob, JobStage, Announcement, DriverAsk
  <2> QED
    BY <2>1, Zenon DEF Due
<1>3. Predictable(job) \in BOOLEAN
  BY Zenon DEF Predictable
<1>4. run \in Run /\ run.todo # <<>>
  <2>1. NoRun \in Run
    BY DEF NoRun, Run
  <2>2. Plan(job) \in Seq(Stage) /\ Plan(job) # <<>>
    BY PlanType
  <2> QED
    BY <1>2, <1>3, <2>1, <2>2 DEF Run, NoRun
<1> QED
  BY <1>1, <1>4 DEF TypeOK, Busy, Active

-----------------------------------------------------------------------------
(***************************************************************************)
(* Every step keeps the types.                                             *)
(***************************************************************************)
LEMMA FireTyped ==
    ASSUME TypeOK, Busy, NEW slot \in Slot, Fire(slot)
    PROVE  TypeOK' /\ Busy'
<1>1. runs' \in [RunId -> Run] /\ Busy'
  <2>1. CASE UNCHANGED runs
    BY <2>1 DEF TypeOK, Busy, Active
  <2>2. CASE StartRun("all") \/ StartRun("wed")
    BY <2>2, StartType DEF RunJob
  <2> QED
    BY <2>1, <2>2 DEF Fire
<1> QED
  BY <1>1 DEF TypeOK, Fire

LEMMA SendNowTyped ==
    ASSUME TypeOK, Busy, NEW scope \in Scopes, SendNow(scope)
    PROVE  TypeOK' /\ Busy'
<1>1. runs' \in [RunId -> Run] /\ Busy'
  BY ScopeAssumption, StartType DEF RunJob, SendNow
<1> QED
  BY <1>1 DEF TypeOK, SendNow, settings

LEMMA NextDayTyped ==
    ASSUME TypeOK, Busy, NextDay
    PROVE  TypeOK' /\ Busy'
<1>1. runs' \in [RunId -> Run] /\ Busy'
  BY DisturbType DEF NextDay
<1>2. day' \in Nat /\ faults' \in 0..MaxFaults /\ armed' \subseteq Slot
  BY BoundsAssumption DEF TypeOK, NextDay, Fault
<1> QED
  BY <1>1, <1>2 DEF TypeOK, NextDay

LEMMA FaultType ==
    ASSUME TypeOK, Fault
    PROVE  faults' \in 0..MaxFaults
  BY BoundsAssumption DEF TypeOK, Fault

LEMMA EditType ==
    ASSUME TypeOK, NEW kind, Edit(kind)
    PROVE  changes' \in 0..MaxChanges
  BY BoundsAssumption DEF TypeOK, Edit

\* The stages that end a run, go on to the next stage, or post nothing.
LEMMA QuietStepTyped ==
    ASSUME TypeOK, Busy, NEW r \in RunId,
           Scan(r) \/ Warm(r) \/ Abort(r) \/ Gate(r) \/ PickFellowship(r)
    PROVE  TypeOK' /\ Busy'
<1>0. Active(r)
  BY DEF Scan, Warm, Abort, Gate, PickFellowship, AtStage, AtJob, Ready
<1>1. Rest(r) \in Seq(Stage) /\ Head(runs[r].todo) \in Stage /\ runs[r] \in Run
  BY <1>0, RestType DEF TypeOK
<1>2. runs' \in [RunId -> Run] /\ Busy'
  <2>1. CASE Scan(r)
    <3>1. CASE Set(r, Stop(r, "skipped"))
      BY <3>1, StopType, SetType
    <3>2. CASE Set(r, Continue(r, Rest(r)))
      BY <3>2, <1>1, ContinueType, SetType
    <3>3. CASE Set(r, [Faulty(Continue(r, Rest(r))) EXCEPT !.scanFailed = TRUE])
      <4> DEFINE run == [Faulty(Continue(r, Rest(r))) EXCEPT !.scanFailed = TRUE]
      <4>1. PICK c \in Run : /\ c = Faulty(Continue(r, Rest(r)))
                             /\ c.st = "active" => c.todo # <<>>
        BY <1>1, ContinueType, FaultyType
      <4>2. run \in Run /\ (run.st = "active" => run.todo # <<>>)
        BY <4>1 DEF Run
      <4> QED
        BY <4>2, <3>3, SetType
    <3> QED
      BY <2>1, <3>1, <3>2, <3>3 DEF Scan
  <2>2. CASE Warm(r)
    BY <2>2, <1>1, ContinueType, SetType DEF Warm
  <2>3. CASE Abort(r)
    BY <2>3, StopType, FaultyType, SetType DEF Abort
  <2>4. CASE Gate(r)
    <3> DEFINE run == [runs[r] EXCEPT !.at = "pause",
                         !.sendDay = sched[JobSlot(PauseJob(Head(runs[r].todo)))]]
    <3>1. CASE Set(r, Continue(r, Rest(r)))
      BY <3>1, <1>1, ContinueType, SetType
    <3>2. CASE Set(r, run)
      <4>1. Head(runs[r].todo) \in JobStage
        BY <2>4 DEF Gate, AtJob
      <4>2. sched[JobSlot(PauseJob(Head(runs[r].todo)))] \in 0..6
        BY <4>1, JobFacts DEF TypeOK
      <4>3. run \in Run /\ run.st = runs[r].st /\ run.todo = runs[r].todo
        BY <1>1, <4>2 DEF Run
      <4> QED
        BY <4>3, <3>2, <1>0, RestType, SetType
    <3> QED
      BY <2>4, <3>1, <3>2 DEF Gate
  <2>5. CASE PickFellowship(r)
    <3>1. (IF season = "wednesday" THEN <<"wed">> ELSE <<"fri", "drvFri">>) \o Rest(r)
            \in Seq(Stage)
      <4>1. {"wed", "fri", "drvFri"} \subseteq Stage
        BY DEF Stage, JobStage, Announcement, DriverAsk
      <4>2. (IF season = "wednesday" THEN <<"wed">> ELSE <<"fri", "drvFri">>) \in Seq(Stage)
        BY <4>1
      <4> QED
        BY <4>2, <1>1
    <3> QED
      BY <2>5, <3>1, ContinueType, SetType DEF PickFellowship
  <2> QED
    BY <2>1, <2>2, <2>3, <2>4, <2>5
<1>3. faults' \in 0..MaxFaults
  BY FaultType DEF TypeOK, Scan, Warm, Abort, Gate, PickFellowship
<1>4. UNCHANGED <<day, pause, posts, settings>>
  BY DEF Scan, Warm, Abort, Gate, PickFellowship
<1> QED
  BY <1>2, <1>3, <1>4 DEF TypeOK, settings

LEMMA HeaderGateTyped ==
    ASSUME TypeOK, Busy, NEW r \in RunId, HeaderGate(r)
    PROVE  TypeOK' /\ Busy'
<1>0. runs[r] \in Run /\ runs[r].todo # <<>>
  BY RestType DEF TypeOK, HeaderGate, AtStage, Ready
<1>1. PICK off \in HostOffsets :
        LET today == day + off
            s == sched["group"]
            read == {"sunday", "sunday_class", "friday"}
            open == {k \in Announcement : PauseJob(k) \in read =>
                                             ~IsJobPaused(pause[PauseJob(k)], s, today)}
        IN  Set(r, [runs[r] EXCEPT !.at = "post", !.passed = open \cap flags,
                                   !.clearing = {j \in read : IsOver(pause[j], s, today)}])
  BY Zenon DEF HeaderGate
<1>2. PICK p \in SUBSET Announcement, c \in SUBSET Job :
        Set(r, [runs[r] EXCEPT !.at = "post", !.passed = p, !.clearing = c])
  <2>1. {"sunday", "sunday_class", "friday"} \subseteq Job
    BY DEF Job
  <2> QED
    BY <1>1, <2>1
<1>3. runs' \in [RunId -> Run] /\ Busy'
  <2> DEFINE run == [runs[r] EXCEPT !.at = "post", !.passed = p, !.clearing = c]
  <2>1. run \in Run /\ run.todo = runs[r].todo
    BY <1>0 DEF Run
  <2> QED
    BY <1>0, <1>2, <2>1, SetType
<1> QED
  BY <1>3 DEF TypeOK, HeaderGate, settings

LEMMA CheckPauseTyped ==
    ASSUME TypeOK, Busy, NEW r \in RunId, CheckPause(r)
    PROVE  TypeOK' /\ Busy'
<1>0. runs[r] \in Run /\ runs[r].todo # <<>> /\ Rest(r) \in Seq(Stage)
      /\ PauseJob(Head(runs[r].todo)) \in Job
  BY RestType, JobFacts DEF TypeOK, CheckPause, AtJob, Ready
<1>1. \/ Set(r, Continue(r, Rest(r)))
      \/ \E at \in {"ping", "post"}, c \in SUBSET Job :
            Set(r, [runs[r] EXCEPT !.at = at, !.clearing = c])
  BY <1>0, Zenon DEF CheckPause
<1>2. runs' \in [RunId -> Run] /\ Busy'
  <2>1. CASE Set(r, Continue(r, Rest(r)))
    BY <2>1, <1>0, ContinueType, SetType
  <2>2. ASSUME NEW at \in {"ping", "post"}, NEW c \in SUBSET Job,
               Set(r, [runs[r] EXCEPT !.at = at, !.clearing = c])
        PROVE  runs' \in [RunId -> Run] /\ Busy'
    <3> DEFINE run == [runs[r] EXCEPT !.at = at, !.clearing = c]
    <3>1. run \in Run /\ run.todo # <<>>
      BY <1>0 DEF Run
    <3> QED
      BY <2>2, <3>1, SetType
  <2> QED
    BY <1>1, <2>1, <2>2
<1> QED
  BY <1>2 DEF TypeOK, CheckPause, settings

LEMMA ClearOverTyped ==
    ASSUME TypeOK, Busy, NEW r \in RunId, ClearOver(r)
    PROVE  TypeOK' /\ Busy'
<1>1. PICK j \in runs[r].clearing :
        /\ pause' = [pause EXCEPT ![j] = NotPaused]
        /\ Set(r, [runs[r] EXCEPT !.clearing = @ \ {j}])
  BY DEF ClearOver
<1>2. NotPaused \in Pause /\ pause' \in [Job -> Pause]
  BY <1>1 DEF TypeOK, NotPaused, Pause
<1>3. runs[r] \in Run /\ runs[r].todo # <<>>
  BY RestType DEF TypeOK, ClearOver
<1>4. runs' \in [RunId -> Run] /\ Busy'
  <2> DEFINE run == [runs[r] EXCEPT !.clearing = @ \ {j}]
  <2>1. run \in Run /\ run.todo # <<>>
    BY <1>3 DEF Run
  <2> QED
    BY <1>1, <2>1, SetType
<1> QED
  BY <1>2, <1>4 DEF TypeOK, ClearOver, settings

LEMMA MaybeFaultyType ==
    ASSUME NEW run \in Run, NEW up \in BOOLEAN
    PROVE  /\ MaybeFaulty(run, up) \in Run
           /\ MaybeFaulty(run, up).st = run.st /\ MaybeFaulty(run, up).todo = run.todo
  BY FaultyType DEF MaybeFaulty

\* The stages that post a message.
LEMMA PostingStepTyped ==
    ASSUME TypeOK, Busy, NEW r \in RunId,
           HeaderPost(r) \/ Ping(r) \/ PostPlain(r) \/ PostSunday(r) \/ SendFails(r)
    PROVE  TypeOK' /\ Busy'
<1>0. Active(r)
  BY DEF HeaderPost, Ping, PostPlain, PostSunday, SendFails, AtStage, AtJob, Ready
<1>1. /\ Rest(r) \in Seq(Stage) /\ runs[r] \in Run /\ runs[r].todo # <<>>
      /\ Head(runs[r].todo) \in Stage
  BY <1>0, RestType DEF TypeOK
<1>2. runs' \in [RunId -> Run] /\ Busy'
  <2>1. CASE HeaderPost(r) \/ PostSunday(r)
    <3>1. PICK up \in BOOLEAN : Set(r, MaybeFaulty(Continue(r, Rest(r)), up))
      BY <2>1 DEF HeaderPost, PostSunday
    <3> QED
      BY <3>1, <1>1, ContinueType, MaybeFaultyType, SetType
  <2>2. CASE Ping(r)
    <3>1. [runs[r] EXCEPT !.at = "post"] \in Run /\ [runs[r] EXCEPT !.at = "post"].todo # <<>>
      BY <1>1 DEF Run
    <3> QED
      BY <2>2, <3>1, SetType DEF Ping
  <2>3. CASE PostPlain(r)
    <3>1. <<"drvWed">> \o Rest(r) \in Seq(Stage)
      BY <1>1 DEF Stage, JobStage, DriverAsk
    <3>2. PICK rest \in Seq(Stage) : Set(r, Continue(r, rest))
      BY <2>3, <3>1, <1>1 DEF PostPlain
    <3> QED
      BY <3>2, ContinueType, SetType
  <2>4. CASE SendFails(r)
    <3>1. \/ Set(r, Faulty(Continue(r, Rest(r))))
          \/ Set(r, Faulty(Stop(r, "aborted")))
      BY <2>4 DEF SendFails
    <3> QED
      BY <3>1, <1>1, ContinueType, StopType, FaultyType, SetType
  <2> QED
    BY <2>1, <2>2, <2>3, <2>4
<1>3. faults' \in 0..MaxFaults
  BY FaultType DEF TypeOK, HeaderPost, Ping, PostPlain, PostSunday, SendFails, CalendarRead
<1>4. posts' \subseteq Post
  <2>1. CASE UNCHANGED posts
    BY <2>1 DEF TypeOK
  <2>2. CASE \E kind \in PostKind, event \in Nat : PostMessage(r, kind, event)
    BY <2>2, PostType
  <2>3. \/ UNCHANGED posts
        \/ \E kind \in PostKind, event \in Nat : PostMessage(r, kind, event)
    <3>1. CASE HeaderPost(r)
      BY <3>1 DEF HeaderPost, PostKind, Header
    <3>2. CASE Ping(r)
      BY <3>2 DEF Ping, PostKind
    <3>3. CASE PostPlain(r)
      <4>1. Head(runs[r].todo) \in JobStage
        BY <3>3 DEF PostPlain, AtJob
      <4>2. EventOf(Head(runs[r].todo), day) \in Nat
        BY <4>1, EventType DEF TypeOK
      <4> QED
        BY <3>3, <4>1, <4>2 DEF PostPlain, PostKind
    <3>4. CASE PostSunday(r)
      <4>1. Head(runs[r].todo) \in JobStage
        BY <3>4 DEF PostSunday, AtJob
      <4>2. EventOf(Head(runs[r].todo), day) \in Nat
        BY <4>1, EventType DEF TypeOK
      <4> QED
        BY <3>4, <4>1, <4>2 DEF PostSunday, PostKind
    <3>5. CASE SendFails(r)
      BY <3>5 DEF SendFails
    <3> QED
      BY <3>1, <3>2, <3>3, <3>4, <3>5
  <2> QED
    BY <2>1, <2>2, <2>3
<1>5. UNCHANGED <<day, pause, settings>>
  BY DEF HeaderPost, Ping, PostPlain, PostSunday, SendFails
<1> QED
  BY <1>2, <1>3, <1>4, <1>5 DEF TypeOK, settings

\* The edits of a coordinator.
LEMMA EditTyped ==
    ASSUME TypeOK, Busy,
           \/ \E j \in Job : SetPause(j) \/ ClearPause(j)
           \/ \E s \in JobStage : ToggleFlag(s)
           \/ \E s \in Season : SetSeason(s)
           \/ SyncSeasonFlags
           \/ \E slot \in Slot, d \in 0..6 : SetSchedule(slot, d)
           \/ \E k \in Announcement : SaveTemplate(k)
    PROVE  TypeOK' /\ Busy'
<1>1. CASE \E j \in Job : SetPause(j) \/ ClearPause(j)
  <2>1. PICK j \in Job, p \in Pause : SetPauseTo(j, p)
    <3>1. \A i \in Job : \A d \in {0} \cup UpcomingDates(i) :
             [paused |-> TRUE, resume |-> d] \in Pause
      BY UpcomingType DEF Pause
    <3>2. NotPaused \in Pause
      BY DEF NotPaused, Pause
    <3> QED
      BY <1>1, <3>1, <3>2 DEF SetPause, ClearPause
  <2>2. runs' \in [RunId -> Run] /\ Busy'
    BY <2>1, DisturbType DEF SetPauseTo
  <2>3. raced' \subseteq Job
    BY <2>1 DEF TypeOK, SetPauseTo
  <2> QED
    BY <2>1, <2>2, <2>3, EditType DEF TypeOK, SetPauseTo
<1>2. CASE \E s \in JobStage : ToggleFlag(s)
  <2>1. runs' \in [RunId -> Run] /\ Busy'
    BY <1>2, DisturbType DEF ToggleFlag
  <2> QED
    BY <1>2, <2>1, EditType DEF TypeOK, ToggleFlag
<1>3. CASE \E s \in Season : SetSeason(s)
  <2>1. runs' \in [RunId -> Run] /\ Busy'
    BY <1>3, DisturbType DEF SetSeason
  <2> QED
    BY <1>3, <2>1, EditType DEF TypeOK, SetSeason
<1>4. CASE SyncSeasonFlags
  <2>1. runs' \in [RunId -> Run] /\ Busy'
    BY <1>4, DisturbType DEF SyncSeasonFlags
  <2>2. flags' \subseteq JobStage /\ seasonOp' \in {"idle", "enable", "disable"}
    BY <1>4 DEF TypeOK, SyncSeasonFlags, SeasonFlag, JobStage, Announcement
  <2> QED
    BY <1>4, <2>1, <2>2 DEF TypeOK, SyncSeasonFlags
<1>5. CASE \E slot \in Slot, d \in 0..6 : SetSchedule(slot, d)
  <2>1. runs' \in [RunId -> Run] /\ Busy'
    BY <1>5, DisturbType DEF SetSchedule
  <2>2. PICK slot \in Slot, d \in 0..6 : SetSchedule(slot, d)
    BY <1>5
  <2>3. /\ sched' \in [Slot -> 0..6] /\ trigger' \in [Slot -> 0..6]
        /\ \A x \in Slot : sched'[x] \in AllowedDays[x] /\ trigger'[x] \in AllowedDays[x]
    BY <2>2 DEF TypeOK, SetSchedule
  <2>4. armed' \subseteq Slot /\ changes' \in 0..MaxChanges
    BY <2>2, EditType DEF TypeOK, SetSchedule
  <2> QED
    BY <2>2, <2>1, <2>3, <2>4 DEF TypeOK, SetSchedule
<1>6. CASE \E k \in Announcement : SaveTemplate(k)
  <2>1. runs' \in [RunId -> Run] /\ Busy'
    BY <1>6, DisturbType DEF SaveTemplate
  <2> QED
    BY <1>6, <2>1, EditType DEF TypeOK, SaveTemplate
<1> QED
  BY <1>1, <1>2, <1>3, <1>4, <1>5, <1>6

LEMMA RestartTyped ==
    ASSUME TypeOK, Busy, Restart
    PROVE  TypeOK' /\ Busy'
<1>1. \A r \in RunId : Faulty(Stop(r, "aborted")) \in Run
                       /\ Faulty(Stop(r, "aborted")).st # "active"
  BY StopType, FaultyType
<1>2. runs' \in [RunId -> Run] /\ Busy'
  BY <1>1 DEF TypeOK, Restart, Busy, Active
<1>3. /\ DefaultSchedule \in [Slot -> 0..6]
      /\ \A slot \in Slot : DefaultSchedule[slot] \in AllowedDays[slot]
  BY DEF DefaultSchedule, AllowedDays, Slot
<1>4. /\ trigger' \in [Slot -> 0..6] /\ armed' \subseteq Slot
      /\ \A slot \in Slot : trigger'[slot] \in AllowedDays[slot]
  BY <1>3 DEF TypeOK, Restart
<1> QED
  BY <1>2, <1>4, FaultType DEF TypeOK, Restart

LEMMA StepTyped == TypeOK /\ Busy /\ [Next]_vars => TypeOK' /\ Busy'
<1> SUFFICES ASSUME TypeOK, Busy, [Next]_vars
             PROVE  TypeOK' /\ Busy'
  OBVIOUS
<1>1. CASE UNCHANGED vars
  BY <1>1 DEF vars, TypeOK, Busy, Active
<1>2. ASSUME NEW r \in RunId, RunStep(r)
      PROVE  TypeOK' /\ Busy'
  BY <1>2, QuietStepTyped, HeaderGateTyped, CheckPauseTyped, ClearOverTyped, PostingStepTyped
    DEF RunStep
<1> QED
  BY <1>1, <1>2, NextDayTyped, FireTyped, SendNowTyped, EditTyped, RestartTyped DEF Next

\* Every variable keeps its type, and the configured send days and the live
\* triggers stay among the days their slot allows.
THEOREM TypeCorrect == Spec => []TypeOK
<1>1. TypeOK /\ Busy /\ [Next]_vars => (TypeOK /\ Busy)'
  BY StepTyped
<1> QED
  BY InitTyped, <1>1, PTL DEF Spec

-----------------------------------------------------------------------------
(***************************************************************************)
(* Pauses: what the check reads and writes agrees with what was asked for. *)
(***************************************************************************)
\* The host's date, in one of its two time zones, is today or tomorrow.
LEMMA HostDay ==
    ASSUME TypeOK, NEW off \in HostOffsets
    PROVE  day + off \in Nat /\ day + off <= day + 1
  BY HostAssumption DEF TypeOK

\* is_job_paused takes a row to be over only when the next event is not covered
\* any more.
LEMMA OverIsPast ==
    ASSUME IInv, NEW j \in Job, NEW s \in 0..6, NEW today \in Nat, today <= day + 1,
           IsOver(pause[j], s, today)
    PROVE  PastPause(j)
<1>1. /\ pause[j] \in Pause /\ wanted[j] \in Pause /\ day \in Nat
      /\ Weekday(j) \in 0..6
  BY JobFacts DEF IInv, TypeOK
<1>2. pause[j] = wanted[j]
  BY DEF IInv, ClearedInTime, IsOver, NotPaused
<1>3. wanted[j].resume # 0 /\ today >= SendDayBefore(wanted[j].resume, s)
  <2>1. SendDayBefore(wanted[j].resume, s) \in Int
    BY <1>1 DEF Pause, SendDayBefore
  <2> QED
    BY <1>1, <1>2, <2>1 DEF IsOver, IsJobPaused, Pause
<1>4. wanted[j].resume \in Nat /\ wanted[j].resume % 7 = Weekday(j)
  BY <1>1, <1>3 DEF IInv, ResumeOnWeekday, Pause
<1>5. wanted[j].resume <= NextEvent(Weekday(j), day)
  BY <1>1, <1>3, <1>4, ReleasedOnTime
<1> QED
  BY <1>3, <1>5 DEF PastPause

\* A job that the check lets through is not covered by what was asked for, if
\* that was not lost.
LEMMA PassedCheck ==
    ASSUME IInv, NEW j \in Job, NEW s \in 0..6, NEW today \in Nat, today <= day + 1,
           ~IsJobPaused(pause[j], s, today)
    PROVE  Lost(j) \/ ~Covers(wanted[j], NextEvent(Weekday(j), day))
<1>1. /\ pause[j] \in Pause /\ wanted[j] \in Pause /\ day \in Nat
      /\ NextEvent(Weekday(j), day) \in Nat
  BY JobFacts, NextEventWithin DEF IInv, TypeOK
<1>2. PastPause(j) => ~Covers(wanted[j], NextEvent(Weekday(j), day))
  BY <1>1 DEF PastPause, Covers, Pause
<1>3. CASE pause[j].paused
  BY <1>2, <1>3, OverIsPast DEF IsOver
<1>4. CASE ~pause[j].paused /\ pause[j] = wanted[j]
  BY <1>4 DEF Covers
<1>5. CASE ~pause[j].paused /\ pause[j] # wanted[j]
  BY <1>2, <1>5 DEF IInv, ClearedInTime, Lost
<1> QED
  BY <1>3, <1>4, <1>5

\* A dated pause that is past stays past.
LEMMA StaysPast ==
    ASSUME TypeOK, NEW j \in Job, PastPause(j), wanted'[j] = wanted[j],
           day' \in {day, day + 1}
    PROVE  PastPause(j)'
<1>1. day \in Nat /\ day + 1 \in Nat /\ Weekday(j) \in 0..6
  BY JobFacts DEF TypeOK
<1>2. /\ NextEvent(Weekday(j), day) <= NextEvent(Weekday(j), day + 1)
      /\ NextEvent(Weekday(j), day) \in Nat /\ NextEvent(Weekday(j), day + 1) \in Nat
  BY <1>1, NextEventMonotone, NextEventWithin
<1>3. wanted[j].resume \in Nat
  BY DEF TypeOK, Pause
<1>4. NextEvent(Weekday(j), day') \in Nat
      /\ NextEvent(Weekday(j), day) <= NextEvent(Weekday(j), day')
  BY <1>2
<1>5. wanted[j].resume <= NextEvent(Weekday(j), day')
  BY <1>2, <1>3, <1>4 DEF PastPause
<1> QED
  BY <1>5 DEF PastPause

\* Pauses change by an edit or by the clearing write of a run.
LEMMA PauseChanges ==
    ASSUME TypeOK, [Next]_vars
    PROVE  \/ UNCHANGED <<pause, wanted, raced>> /\ day' \in {day, day + 1}
           \/ \E r \in RunId : ClearOver(r)
           \/ \E i \in Job : SetPause(i) \/ ClearPause(i)
<1>1. ASSUME NEW r \in RunId, RunStep(r), ~ClearOver(r)
      PROVE  UNCHANGED <<day, pause, wanted, raced>>
  BY <1>1 DEF RunStep, settings, Scan, HeaderGate, HeaderPost, Gate, CheckPause, Ping,
              PostPlain, PostSunday, Warm, PickFellowship, SendFails, Abort
<1>2. ASSUME NEW slot \in Slot, Fire(slot)
      PROVE  UNCHANGED <<day, pause, wanted, raced>>
  BY <1>2 DEF Fire
<1>3. ASSUME NEW scope \in Scopes, SendNow(scope)
      PROVE  UNCHANGED <<day, pause, wanted, raced>>
  BY <1>3 DEF SendNow, settings
<1>4. ASSUME \/ \E s \in JobStage : ToggleFlag(s)
             \/ \E s \in Season : SetSeason(s)
             \/ SyncSeasonFlags
             \/ \E slot \in Slot, d \in 0..6 : SetSchedule(slot, d)
             \/ \E k \in Announcement : SaveTemplate(k)
             \/ Restart
      PROVE  UNCHANGED <<day, pause, wanted, raced>>
  BY <1>4 DEF ToggleFlag, SetSeason, SyncSeasonFlags, SetSchedule, SaveTemplate, Restart
<1>5. CASE NextDay
  BY <1>5 DEF NextDay
<1>6. CASE UNCHANGED vars
  BY <1>6 DEF vars
<1> QED
  BY <1>1, <1>2, <1>3, <1>4, <1>5, <1>6 DEF Next

LEMMA PauseStep ==
    ASSUME IInv, [Next]_vars
    PROVE  ResumeOnWeekday' /\ ClearedInTime'
<1>0. TypeOK /\ day \in Nat
  BY DEF IInv, TypeOK
<1>1. CASE UNCHANGED <<pause, wanted, raced>> /\ day' \in {day, day + 1}
  BY <1>0, <1>1, StaysPast DEF IInv, ResumeOnWeekday, ClearedInTime
<1>2. ASSUME NEW r \in RunId, ClearOver(r)
      PROVE  ResumeOnWeekday' /\ ClearedInTime'
  <2>1. Active(r) /\ UNCHANGED <<day, wanted, raced>>
    BY <1>2 DEF ClearOver, settings
  <2>2. PICK i \in runs[r].clearing : pause' = [pause EXCEPT ![i] = NotPaused]
    BY <1>2 DEF ClearOver
  <2>3. i \in raced \/ PastPause(i)
    BY <2>1 DEF IInv, ClearsAreDue
  <2>4. \A j \in Job : /\ j = i => pause'[j] = NotPaused
                       /\ j # i => pause'[j] = pause[j]
    BY <1>0, <2>2 DEF TypeOK
  <2>5. \A j \in Job : PastPause(j)' <=> PastPause(j)
    BY <2>1 DEF PastPause
  <2> QED
    BY <2>1, <2>3, <2>4, <2>5 DEF IInv, ResumeOnWeekday, ClearedInTime
<1>3. ASSUME NEW i \in Job, SetPause(i) \/ ClearPause(i)
      PROVE  ResumeOnWeekday' /\ ClearedInTime'
  <2>1. PICK p \in Pause : SetPauseTo(i, p) /\ (p.resume # 0 => p.resume % 7 = Weekday(i))
    <3>1. \A d \in {0} \cup UpcomingDates(i) :
             /\ [paused |-> TRUE, resume |-> d] \in Pause
             /\ d # 0 => d % 7 = Weekday(i)
      BY <1>0, UpcomingType DEF Pause
    <3>2. NotPaused \in Pause /\ NotPaused.resume = 0
      BY DEF NotPaused, Pause
    <3> QED
      BY <1>3, <3>1, <3>2 DEF SetPause, ClearPause
  <2>2. \A j \in Job : /\ j = i => pause'[j] = p /\ wanted'[j] = p
                       /\ j # i => pause'[j] = pause[j] /\ wanted'[j] = wanted[j]
                                  /\ (j \in raced' <=> j \in raced)
    BY <1>0, <2>1 DEF TypeOK, SetPauseTo
  <2>3. day' = day
    BY <2>1 DEF SetPauseTo
  <2>4. \A j \in Job : j # i => (PastPause(j)' <=> PastPause(j))
    BY <2>2, <2>3 DEF PastPause
  <2> QED
    BY <2>1, <2>2, <2>4 DEF IInv, ResumeOnWeekday, ClearedInTime
<1> QED
  BY <1>0, <1>1, <1>2, <1>3, PauseChanges

-----------------------------------------------------------------------------
(***************************************************************************)
(* Runs post only what the check has let through.                          *)
(***************************************************************************)
\* A pause is lost until it is edited again.
LEMMA StaysLost ==
    ASSUME TypeOK, [Next]_vars, NEW j \in Job, Lost(j)
    PROVE  Lost(j)' \/ SetPause(j) \/ ClearPause(j)
<1>1. CASE UNCHANGED <<pause, wanted, raced>>
  BY <1>1 DEF Lost
<1>2. ASSUME NEW r \in RunId, ClearOver(r)
      PROVE  Lost(j)'
  <2>1. UNCHANGED raced /\ \E i \in runs[r].clearing : pause' = [pause EXCEPT ![i] = NotPaused]
    BY <1>2 DEF ClearOver, settings
  <2> QED
    BY <2>1 DEF TypeOK, Lost, NotPaused
<1>3. ASSUME NEW i \in Job, i # j, SetPause(i) \/ ClearPause(i)
      PROVE  Lost(j)'
  <2>1. PICK p : SetPauseTo(i, p)
    BY <1>3 DEF SetPause, ClearPause
  <2> QED
    BY <1>3, <2>1 DEF SetPauseTo, TypeOK, Lost
<1> QED
  BY <1>1, <1>2, <1>3, PauseChanges

\* The run is about to post a message of a kind.
AboutToPost(r, s) ==
    /\ Active(r) /\ runs[r].at \in {"ping", "post"}
    /\ Head(runs[r].todo) = s /\ s \in JobStage

LetThrough(r, s) ==
    \/ PauseJob(s) \in runs[r].touched
    \/ Lost(PauseJob(s))
    \/ ~Covers(wanted[PauseJob(s)], EventOf(s, day))

LEMMA CheckedFirstDef ==
    CheckedFirst <=> \A r \in RunId, s \in JobStage : AboutToPost(r, s) => LetThrough(r, s)
  BY DEF CheckedFirst, AboutToPost, LetThrough

LEMMA CheckedFirstPrime ==
    (\A r \in RunId, s \in JobStage : AboutToPost(r, s)' => LetThrough(r, s)') => CheckedFirst'
  BY DEF CheckedFirst, AboutToPost, LetThrough

\* A run that was already about to post and was not disturbed keeps its answer.
LEMMA KeepsAnswer ==
    ASSUME IInv, NEW r \in RunId, NEW s \in JobStage, UNCHANGED <<day, wanted>>,
           Lost(PauseJob(s)) => Lost(PauseJob(s))',
           AboutToPost(r, s), runs'[r].touched = runs[r].touched
    PROVE  LetThrough(r, s)'
  BY CheckedFirstDef DEF IInv, LetThrough

\* An edit or a midnight leaves what a run is about to post, and adds to touched.
LEMMA DisturbKeeps ==
    ASSUME TypeOK, NEW jobs, Disturb(jobs), NEW r \in RunId, NEW s, AboutToPost(r, s)'
    PROVE  AboutToPost(r, s) /\ runs[r].touched \cup jobs \subseteq runs'[r].touched
<1>1. runs[r] \in Run
  BY DEF TypeOK
<1>2. runs'[r] = IF Active(r) THEN [runs[r] EXCEPT !.calm = FALSE, !.touched = @ \cup jobs]
                 ELSE runs[r]
  BY DEF Disturb
<1>3. /\ runs'[r].st = runs[r].st /\ runs'[r].at = runs[r].at
      /\ runs'[r].todo = runs[r].todo
      /\ Active(r) => runs'[r].touched = runs[r].touched \cup jobs
  BY <1>1, <1>2 DEF Run
<1> QED
  BY <1>3 DEF AboutToPost, Active

\* What a run step leaves of its own run, told apart by at, st and todo.
LEMMA Reset ==
    ASSUME TypeOK, NEW r \in RunId, NEW rest \in Seq(Stage), NEW up \in BOOLEAN
    PROVE  /\ Continue(r, rest).at = "gate"
           /\ Faulty(Continue(r, rest)).at = "gate"
           /\ [Faulty(Continue(r, rest)) EXCEPT !.scanFailed = TRUE].at = "gate"
           /\ MaybeFaulty(Continue(r, rest), up).at = "gate"
<1>1. PICK c \in Run : c = Continue(r, rest) /\ c.at = "gate"
  <2>1. Continue(r, rest) \in Run /\ Continue(r, rest).at = "gate"
    BY ContinueType DEF TypeOK, Continue, Run
  <2> QED
    BY <2>1
<1>2. PICK f \in Run : f = Faulty(c) /\ f.at = "gate"
  <2>1. Faulty(c) \in Run /\ Faulty(c).at = "gate"
    BY <1>1, FaultyType DEF Faulty, Run
  <2> QED
    BY <2>1
<1>3. [f EXCEPT !.scanFailed = TRUE].at = "gate"
  BY <1>2 DEF Run
<1> QED
  BY <1>1, <1>2, <1>3 DEF MaybeFaulty

\* Except for the pause check, its write and the ping, a run step leaves its run before a
\* gate, before the pause check, over, or at the header.
LEMMA OtherStepsReset ==
    ASSUME TypeOK, Busy, NEW r \in RunId, RunStep(r), ~CheckPause(r), ~Ping(r),
           ~ClearOver(r), NEW s \in JobStage
    PROVE  ~AboutToPost(r, s)'
<1>0. /\ Active(r) /\ runs[r] \in Run /\ runs \in [RunId -> Run]
      /\ Rest(r) \in Seq(Stage) /\ runs[r].todo # <<>>
  <2>1. Active(r)
    BY DEF RunStep, HeaderGate, Scan, HeaderPost, Gate, PostPlain, PostSunday, Warm,
           PickFellowship, SendFails, Abort, AtStage, AtJob, Ready
  <2> QED
    BY <2>1, RestType DEF TypeOK
<1>1. ASSUME NEW run, Set(r, run), run.at = "gate" \/ run.at = "pause" \/ run.st # "active"
      PROVE  ~AboutToPost(r, s)'
  BY <1>0, <1>1 DEF Set, AboutToPost, Active
<1>2. CASE Scan(r)
  BY <1>0, <1>1, <1>2, StopType, Reset DEF Scan
<1>3. CASE HeaderPost(r) \/ PostSunday(r)
  BY <1>0, <1>1, <1>3, Reset DEF HeaderPost, PostSunday
<1>4. CASE Gate(r)
  <2> DEFINE run == [runs[r] EXCEPT !.at = "pause",
                       !.sendDay = sched[JobSlot(PauseJob(Head(runs[r].todo)))]]
  <2>1. run.at = "pause"
    BY <1>0 DEF Run
  <2>2. Set(r, run) \/ Set(r, Continue(r, Rest(r)))
    BY <1>4 DEF Gate
  <2> HIDE DEF run
  <2> QED
    BY <1>0, <1>1, <2>1, <2>2, Reset
<1>5. CASE PostPlain(r)
  <2>1. <<"drvWed">> \o Rest(r) \in Seq(Stage)
    BY <1>0 DEF Stage, JobStage, DriverAsk
  <2>2. PICK rest \in Seq(Stage) : Set(r, Continue(r, rest))
    BY <1>0, <1>5, <2>1 DEF PostPlain
  <2> QED
    BY <1>1, <2>2, Reset
<1>6. CASE Warm(r)
  BY <1>0, <1>1, <1>6, Reset DEF Warm
<1>7. CASE PickFellowship(r)
  <2>1. {"wed", "fri", "drvFri"} \subseteq Stage
    BY DEF Stage, JobStage, Announcement, DriverAsk
  <2> DEFINE picked == IF season = "wednesday" THEN <<"wed">> ELSE <<"fri", "drvFri">>
  <2>2. picked \in Seq(Stage)
    BY <2>1
  <2>3. Set(r, Continue(r, picked \o Rest(r)))
    BY <1>7 DEF PickFellowship
  <2> HIDE DEF picked
  <2>4. picked \o Rest(r) \in Seq(Stage)
    BY <1>0, <2>2
  <2> QED
    BY <1>1, <2>3, <2>4, Reset
<1>8. CASE SendFails(r) \/ Abort(r)
  <2>1. Faulty(Stop(r, "aborted")).st # "active"
    BY StopType, FaultyType
  <2>2. Set(r, Faulty(Continue(r, Rest(r)))) \/ Set(r, Faulty(Stop(r, "aborted")))
    BY <1>8 DEF SendFails, Abort
  <2> QED
    BY <1>0, <1>1, <2>1, <2>2, Reset
<1>9. CASE HeaderGate(r)
  <2>1. PICK p, c : runs' = [runs EXCEPT ![r] = [runs[r] EXCEPT !.at = "post", !.passed = p,
                                                              !.clearing = c]]
    BY <1>9 DEF HeaderGate, Set
  <2>2. runs'[r].todo = runs[r].todo
    BY <1>0, <2>1 DEF Run
  <2>3. Head(runs[r].todo) = "header"
    BY <1>9 DEF HeaderGate, AtStage
  <2> QED
    BY <2>2, <2>3 DEF AboutToPost, JobStage, Announcement, DriverAsk
<1> QED
  BY <1>2, <1>3, <1>4, <1>5, <1>6, <1>7, <1>8, <1>9 DEF RunStep

\* A run is about to post only when its own pause check passed, or when it has
\* cleared a row or pinged for a message it was already about to post.
LEMMA RunStepChecks ==
    ASSUME IInv, NEW q \in RunId, RunStep(q)
    PROVE  CheckedFirst'
<1>0. TypeOK /\ Busy /\ day \in Nat /\ runs[q] \in Run /\ runs \in [RunId -> Run]
  BY DEF IInv, TypeOK
<1>1. UNCHANGED <<day, wanted, raced>>
  BY DEF RunStep, settings, HeaderGate, CheckPause, ClearOver, Scan, HeaderPost, Gate, Ping,
         PostPlain, PostSunday, Warm, PickFellowship, SendFails, Abort
<1>2. \E run : Set(q, run)
  BY DEF RunStep, HeaderGate, CheckPause, ClearOver, Scan, HeaderPost, Gate, Ping, PostPlain,
         PostSunday, Warm, PickFellowship, SendFails, Abort
<1> SUFFICES ASSUME NEW r \in RunId, NEW s \in JobStage, AboutToPost(r, s)'
             PROVE  LetThrough(r, s)'
  BY CheckedFirstPrime
<1>a. Lost(PauseJob(s)) => Lost(PauseJob(s))'
  <2>1. CASE ClearOver(q)
    <3>1. PICK i : pause' = [pause EXCEPT ![i] = NotPaused]
      BY <2>1 DEF ClearOver
    <3> QED
      BY <1>0, <1>1, <3>1, JobFacts DEF TypeOK, Lost, NotPaused
  <2>2. CASE ~ClearOver(q)
    <3>1. UNCHANGED pause
      BY <2>2 DEF RunStep, HeaderGate, CheckPause, Scan, HeaderPost, Gate, Ping, PostPlain,
                  PostSunday, Warm, PickFellowship, SendFails, Abort
    <3> QED
      BY <1>1, <3>1 DEF Lost
  <2> QED
    BY <2>1, <2>2
<1>3. CASE r # q
  <2>1. runs'[r] = runs[r]
    BY <1>0, <1>2, <1>3 DEF Set
  <2>2. AboutToPost(r, s)
    BY <2>1 DEF AboutToPost, Active
  <2> QED
    BY <1>1, <1>a, <2>1, <2>2, KeepsAnswer
<1>4. CASE r = q /\ Ping(q)
  <2>1. runs'[q] = [runs[q] EXCEPT !.at = "post"]
    BY <1>0, <1>4 DEF Ping, Set
  <2>2. runs'[q].touched = runs[q].touched /\ runs'[q].todo = runs[q].todo
    BY <1>0, <2>1 DEF Run
  <2>3. AboutToPost(q, s)
    BY <1>4, <2>2 DEF AboutToPost, Ping, AtJob, Ready
  <2> QED
    BY <1>1, <1>4, <1>a, <2>2, <2>3, KeepsAnswer
<1>b. CASE r = q /\ ClearOver(q)
  <2>1. PICK i : runs'[q] = [runs[q] EXCEPT !.clearing = @ \ {i}]
    BY <1>0, <1>b DEF ClearOver, Set
  <2>2. /\ runs'[q].touched = runs[q].touched /\ runs'[q].todo = runs[q].todo
        /\ runs'[q].at = runs[q].at /\ runs'[q].st = runs[q].st
    BY <1>0, <2>1 DEF Run
  <2>3. AboutToPost(q, s)
    BY <1>b, <2>2 DEF AboutToPost, Active
  <2> QED
    BY <1>1, <1>b, <1>a, <2>2, <2>3, KeepsAnswer
<1>5. CASE r = q /\ CheckPause(q)
  <2> DEFINE j == PauseJob(s)
  <2>1. Rest(q) \in Seq(Stage)
    BY <1>0, <1>5, RestType DEF CheckPause, AtJob, Ready
  <2>2. ~Set(q, Continue(q, Rest(q)))
    BY <1>0, <1>5, <2>1, Reset DEF Set, AboutToPost
  <2>3. PICK off \in HostOffsets : \E c :
          LET h == Head(runs[q].todo)
          IN  /\ ~IsJobPaused(pause[PauseJob(h)], runs[q].sendDay, day + off)
              /\ Set(q, [runs[q] EXCEPT !.at = IF h = "wed" THEN "ping" ELSE "post",
                                        !.clearing = c])
    BY <1>5, <2>2, Zenon DEF CheckPause
  <2>4. runs'[q].todo = runs[q].todo /\ runs'[q].touched = runs[q].touched
    BY <1>0, <2>3 DEF Set, Run
  <2>5. Head(runs[q].todo) = s
    BY <1>5, <2>4 DEF AboutToPost
  <2>6. ~IsJobPaused(pause[j], runs[q].sendDay, day + off) /\ j \in Job
        /\ runs[q].sendDay \in 0..6
    BY <1>0, <2>3, <2>5, JobFacts DEF Run
  <2>7. Lost(j) \/ ~Covers(wanted[j], NextEvent(Weekday(j), day))
    BY <1>0, <2>6, HostDay, PassedCheck
  <2> QED
    BY <1>1, <1>a, <1>5, <2>7 DEF LetThrough, EventOf
<1>6. CASE r = q /\ ~Ping(q) /\ ~CheckPause(q) /\ ~ClearOver(q)
  BY <1>0, <1>6, OtherStepsReset
<1> QED
  BY <1>3, <1>4, <1>b, <1>5, <1>6

LEMMA CheckStep ==
    ASSUME IInv, [Next]_vars
    PROVE  CheckedFirst'
<1>0. TypeOK /\ day \in Nat /\ runs \in [RunId -> Run] /\ wanted \in [Job -> Pause]
  BY DEF IInv, TypeOK
<1>1. CASE UNCHANGED <<day, pause, wanted, raced, runs>>
  BY <1>1, CheckedFirstDef DEF IInv, CheckedFirst, Active, Lost
<1>2. CASE NextDay
  <2> SUFFICES ASSUME NEW r \in RunId, NEW s \in JobStage, AboutToPost(r, s)'
               PROVE  LetThrough(r, s)'
    BY CheckedFirstPrime
  <2> DEFINE w == Weekday(PauseJob(s))
  <2>1. Disturb({}) /\ day' = day + 1 /\ wanted' = wanted /\ UNCHANGED <<pause, raced>>
    BY <1>2 DEF NextDay
  <2>2. AboutToPost(r, s) /\ runs[r].touched \subseteq runs'[r].touched
    BY <1>0, <2>1, DisturbKeeps
  <2>3. LetThrough(r, s)
    BY <2>2, CheckedFirstDef DEF IInv
  <2>4. /\ PauseJob(s) \in Job /\ w \in 0..6 /\ day + 1 \in Nat
    BY <1>0, JobFacts
  <2>5. /\ NextEvent(w, day) <= NextEvent(w, day + 1)
        /\ NextEvent(w, day) \in Nat /\ NextEvent(w, day + 1) \in Nat
    BY <1>0, <2>4, NextEventMonotone, NextEventWithin
  <2>6. wanted[PauseJob(s)] \in Pause
    BY <1>0, <2>4
  <2> HIDE DEF w
  <2>7. ~Covers(wanted[PauseJob(s)], NextEvent(w, day)) =>
           ~Covers(wanted[PauseJob(s)], NextEvent(w, day + 1))
    BY <2>5, <2>6 DEF Covers, Pause
  <2> QED
    BY <2>1, <2>2, <2>3, <2>7 DEF LetThrough, EventOf, w, Lost
<1>3. ASSUME NEW job, StartRun(job), UNCHANGED <<day, pause, wanted, raced>>
      PROVE  CheckedFirst'
  <2> SUFFICES ASSUME NEW r \in RunId, NEW s \in JobStage, AboutToPost(r, s)'
               PROVE  LetThrough(r, s)'
    BY CheckedFirstPrime
  <2>1. runs'[r] = runs[r]
    BY <1>0, <1>3 DEF StartRun, AboutToPost, NoRun
  <2>2. AboutToPost(r, s)
    BY <2>1 DEF AboutToPost, Active
  <2> QED
    BY <1>3, <2>1, <2>2, KeepsAnswer DEF Lost
<1>4. ASSUME NEW j \in Job, SetPause(j) \/ ClearPause(j)
      PROVE  CheckedFirst'
  <2> SUFFICES ASSUME NEW r \in RunId, NEW s \in JobStage, AboutToPost(r, s)'
               PROVE  LetThrough(r, s)'
    BY CheckedFirstPrime
  <2>1. PICK p : SetPauseTo(j, p)
    BY <1>4 DEF SetPause, ClearPause
  <2>2. /\ Disturb({j}) /\ day' = day
        /\ PauseJob(s) # j => /\ wanted'[PauseJob(s)] = wanted[PauseJob(s)]
                              /\ Lost(PauseJob(s)) => Lost(PauseJob(s))'
    BY <1>0, <2>1, JobFacts DEF SetPauseTo, TypeOK, Lost
  <2>3. AboutToPost(r, s) /\ runs[r].touched \cup {j} \subseteq runs'[r].touched
    BY <1>0, <2>2, DisturbKeeps
  <2>4. LetThrough(r, s)
    BY <2>3, CheckedFirstDef DEF IInv
  <2> QED
    BY <2>2, <2>3, <2>4 DEF LetThrough
<1>5. ASSUME Disturb({}), UNCHANGED <<day, pause, wanted, raced>>
      PROVE  CheckedFirst'
  <2> SUFFICES ASSUME NEW r \in RunId, NEW s \in JobStage, AboutToPost(r, s)'
               PROVE  LetThrough(r, s)'
    BY CheckedFirstPrime
  <2>1. AboutToPost(r, s) /\ runs[r].touched \subseteq runs'[r].touched
    BY <1>0, <1>5, DisturbKeeps
  <2>2. LetThrough(r, s)
    BY <2>1, CheckedFirstDef DEF IInv
  <2> QED
    BY <1>5, <2>1, <2>2 DEF LetThrough, Lost
<1>6. CASE Restart
  <2> SUFFICES ASSUME NEW r \in RunId, NEW s \in JobStage, AboutToPost(r, s)'
               PROVE  LetThrough(r, s)'
    BY CheckedFirstPrime
  <2>1. Faulty(Stop(r, "aborted")).st # "active"
    BY <1>0, StopType, FaultyType
  <2>2. runs'[r] = runs[r] /\ UNCHANGED <<day, pause, wanted, raced>>
    BY <1>6, <2>1 DEF Restart, AboutToPost, Active
  <2>3. AboutToPost(r, s)
    BY <2>2 DEF AboutToPost, Active
  <2> QED
    BY <2>2, <2>3, KeepsAnswer DEF Lost
<1>7. ASSUME NEW slot \in Slot, Fire(slot)
      PROVE  CheckedFirst'
  <2>1. UNCHANGED <<day, pause, wanted, raced>> /\ (UNCHANGED runs \/ \E job : StartRun(job))
    BY <1>7 DEF Fire
  <2> QED
    BY <2>1, <1>1, <1>3
<1>8. ASSUME NEW scope \in Scopes, SendNow(scope)
      PROVE  CheckedFirst'
  BY <1>8, <1>3 DEF SendNow, settings
<1>9. ASSUME \/ \E s \in JobStage : ToggleFlag(s)
             \/ \E s \in Season : SetSeason(s)
             \/ SyncSeasonFlags
             \/ \E slot \in Slot, d \in 0..6 : SetSchedule(slot, d)
             \/ \E k \in Announcement : SaveTemplate(k)
      PROVE  CheckedFirst'
  <2>1. Disturb({}) /\ UNCHANGED <<day, pause, wanted, raced>>
    BY <1>9 DEF ToggleFlag, SetSeason, SyncSeasonFlags, SetSchedule, SaveTemplate
  <2> QED
    BY <2>1, <1>5
<1>10. CASE UNCHANGED vars
  BY <1>10, <1>1 DEF vars
<1> QED
  BY <1>2, <1>4, <1>6, <1>7, <1>8, <1>9, <1>10, RunStepChecks DEF Next

-----------------------------------------------------------------------------
(***************************************************************************)
(* Runs clear only rows they have read as over.                            *)
(***************************************************************************)
\* What a run is still to clear, it was to clear before, or has just read.
JustRead(j) ==
    /\ \E s \in 0..6, off \in HostOffsets : IsOver(pause[j], s, day + off)
    /\ UNCHANGED <<day, pause, wanted, raced>>

LEMMA KeptClearing ==
    ASSUME TypeOK, NEW r \in RunId, NEW rest \in Seq(Stage), NEW up \in BOOLEAN
    PROVE  /\ Continue(r, rest).clearing = runs[r].clearing
           /\ Faulty(Continue(r, rest)).clearing = runs[r].clearing
           /\ [Faulty(Continue(r, rest)) EXCEPT !.scanFailed = TRUE].clearing = runs[r].clearing
           /\ MaybeFaulty(Continue(r, rest), up).clearing = runs[r].clearing
<1>1. PICK c \in Run : c = Continue(r, rest) /\ c.clearing = runs[r].clearing
  <2>1. runs[r] \in Run
    BY DEF TypeOK
  <2>2. Continue(r, rest).clearing = runs[r].clearing
    BY <2>1 DEF Continue, Run
  <2> QED
    BY <2>2, ContinueType
<1>2. PICK f \in Run : f = Faulty(c) /\ f.clearing = c.clearing
  <2>1. Faulty(c) \in Run /\ Faulty(c).clearing = c.clearing
    BY <1>1, FaultyType DEF Faulty, Run
  <2> QED
    BY <2>1
<1>3. [f EXCEPT !.scanFailed = TRUE].clearing = f.clearing
  BY <1>2 DEF Run
<1> QED
  BY <1>1, <1>2, <1>3 DEF MaybeFaulty

LEMMA RunClears ==
    ASSUME TypeOK, Busy, NEW q \in RunId, RunStep(q), NEW r \in RunId,
           NEW j \in runs'[r].clearing, Active(r)'
    PROVE  (Active(r) /\ j \in runs[r].clearing) \/ JustRead(j)
<1>0. /\ Active(q) /\ runs[q] \in Run /\ runs \in [RunId -> Run]
      /\ Rest(q) \in Seq(Stage) /\ runs[q].todo # <<>>
  <2>1. Active(q)
    BY DEF RunStep, HeaderGate, Scan, HeaderPost, Gate, CheckPause, ClearOver, Ping, PostPlain,
           PostSunday, Warm, PickFellowship, SendFails, Abort, AtStage, AtJob, Ready
  <2> QED
    BY <2>1, RestType DEF TypeOK
<1>1. ASSUME NEW run, Set(q, run), run.st # "active" \/ run.clearing \subseteq runs[q].clearing
      PROVE  Active(r) /\ j \in runs[r].clearing
  BY <1>0, <1>1 DEF Set, Active
<1>2. CASE Scan(q)
  BY <1>0, <1>1, <1>2, StopType, KeptClearing DEF Scan
<1>3. CASE HeaderPost(q) \/ PostSunday(q)
  BY <1>0, <1>1, <1>3, KeptClearing DEF HeaderPost, PostSunday
<1>4. CASE Gate(q)
  <2> DEFINE run == [runs[q] EXCEPT !.at = "pause",
                       !.sendDay = sched[JobSlot(PauseJob(Head(runs[q].todo)))]]
  <2>1. run.clearing = runs[q].clearing
    BY <1>0 DEF Run
  <2>2. Set(q, run) \/ Set(q, Continue(q, Rest(q)))
    BY <1>4 DEF Gate
  <2> HIDE DEF run
  <2> QED
    BY <1>0, <1>1, <2>1, <2>2, KeptClearing
<1>5. CASE PostPlain(q)
  <2>1. <<"drvWed">> \o Rest(q) \in Seq(Stage)
    BY <1>0 DEF Stage, JobStage, DriverAsk
  <2>2. PICK rest \in Seq(Stage) : Set(q, Continue(q, rest))
    BY <1>0, <1>5, <2>1 DEF PostPlain
  <2> QED
    BY <1>1, <2>2, KeptClearing
<1>6. CASE Warm(q)
  BY <1>0, <1>1, <1>6, KeptClearing DEF Warm
<1>7. CASE PickFellowship(q)
  <2>1. {"wed", "fri", "drvFri"} \subseteq Stage
    BY DEF Stage, JobStage, Announcement, DriverAsk
  <2> DEFINE picked == IF season = "wednesday" THEN <<"wed">> ELSE <<"fri", "drvFri">>
  <2>2. picked \in Seq(Stage)
    BY <2>1
  <2>3. Set(q, Continue(q, picked \o Rest(q)))
    BY <1>7 DEF PickFellowship
  <2> HIDE DEF picked
  <2>4. picked \o Rest(q) \in Seq(Stage)
    BY <1>0, <2>2
  <2> QED
    BY <1>1, <2>3, <2>4, KeptClearing
<1>8. CASE SendFails(q) \/ Abort(q)
  <2>1. Faulty(Stop(q, "aborted")).st # "active"
    BY StopType, FaultyType
  <2>2. Set(q, Faulty(Continue(q, Rest(q)))) \/ Set(q, Faulty(Stop(q, "aborted")))
    BY <1>8 DEF SendFails, Abort
  <2> QED
    BY <1>0, <1>1, <2>1, <2>2, KeptClearing
<1>9. CASE Ping(q) \/ ClearOver(q)
  <2>1. PICK run : Set(q, run) /\ run.clearing \subseteq runs[q].clearing
    <3>1. [runs[q] EXCEPT !.at = "post"].clearing = runs[q].clearing
      BY <1>0 DEF Run
    <3>2. \A i : [runs[q] EXCEPT !.clearing = @ \ {i}].clearing \subseteq runs[q].clearing
      BY <1>0 DEF Run
    <3> QED
      BY <1>9, <3>1, <3>2 DEF Ping, ClearOver
  <2> QED
    BY <1>1, <2>1
<1>10. CASE HeaderGate(q)
  <2>1. PICK off \in HostOffsets : \E p :
           Set(q, [runs[q] EXCEPT !.at = "post", !.passed = p,
                     !.clearing = {i \in {"sunday", "sunday_class", "friday"} :
                                      IsOver(pause[i], sched["group"], day + off)}])
    BY <1>10, Zenon DEF HeaderGate
  <2>2. /\ r # q => runs'[r] = runs[r]
        /\ runs'[q].clearing = {i \in {"sunday", "sunday_class", "friday"} :
                                   IsOver(pause[i], sched["group"], day + off)}
    BY <1>0, <2>1 DEF Set, Run
  <2>3. r = q => IsOver(pause[j], sched["group"], day + off)
    BY <2>2
  <2>4. sched["group"] \in 0..6 /\ UNCHANGED <<day, pause, wanted, raced>>
    BY <1>10 DEF TypeOK, Slot, HeaderGate, settings
  <2> QED
    BY <2>2, <2>3, <2>4 DEF JustRead, Active
<1>11. CASE CheckPause(q)
  <2>1. UNCHANGED <<day, pause, wanted, raced>> /\ runs[q].sendDay \in 0..6
    BY <1>0, <1>11 DEF CheckPause, settings, Run
  <2>2. CASE Set(q, Continue(q, Rest(q)))
    BY <1>0, <1>1, <2>2, KeptClearing
  <2>3. CASE ~Set(q, Continue(q, Rest(q)))
    <3> DEFINE i == PauseJob(Head(runs[q].todo))
    <3>1. PICK off \in HostOffsets : \E at :
            Set(q, [runs[q] EXCEPT !.at = at, !.clearing =
                       IF IsOver(pause[i], runs[q].sendDay, day + off) THEN {i} ELSE {}])
      BY <1>11, <2>3, Zenon DEF CheckPause
    <3> HIDE DEF i
    <3>2. /\ r # q => runs'[r] = runs[r]
          /\ runs'[q].clearing = IF IsOver(pause[i], runs[q].sendDay, day + off) THEN {i} ELSE {}
      BY <1>0, <3>1 DEF Set, Run
    <3>3. r = q => IsOver(pause[j], runs[q].sendDay, day + off)
      BY <3>2
    <3> QED
      BY <2>1, <3>2, <3>3 DEF JustRead, Active
  <2> QED
    BY <2>2, <2>3
<1> QED
  BY <1>2, <1>3, <1>4, <1>5, <1>6, <1>7, <1>8, <1>9, <1>10, <1>11 DEF RunStep

LEMMA StepClears ==
    ASSUME TypeOK, Busy, [Next]_vars, NEW r \in RunId, NEW j \in runs'[r].clearing, Active(r)'
    PROVE  (Active(r) /\ j \in runs[r].clearing) \/ JustRead(j)
<1>0. runs \in [RunId -> Run]
  BY DEF TypeOK
<1>1. CASE UNCHANGED runs
  BY <1>1 DEF Active
<1>2. ASSUME NEW job, StartRun(job)
      PROVE  Active(r) /\ j \in runs[r].clearing
  <2>1. PICK q \in RunId : runs' = [runs EXCEPT ![q] = [NoRun EXCEPT
                        !.job = job, !.st = "active", !.todo = Plan(job),
                        !.calm = Predictable(job), !.due = Due(job)]]
    BY <1>2 DEF StartRun
  <2>2. runs'[q].clearing = {}
    BY <1>0, <2>1 DEF NoRun
  <2> QED
    BY <1>0, <2>1, <2>2 DEF Active
<1>3. ASSUME NEW jobs, Disturb(jobs)
      PROVE  Active(r) /\ j \in runs[r].clearing
  <2>1. runs[r] \in Run
    BY <1>0
  <2>2. runs'[r] = IF Active(r) THEN [runs[r] EXCEPT !.calm = FALSE, !.touched = @ \cup jobs]
                   ELSE runs[r]
    BY <1>3 DEF Disturb
  <2> QED
    BY <2>1, <2>2 DEF Active, Run
<1>4. CASE Restart
  <2>1. Faulty(Stop(r, "aborted")).st # "active"
    BY StopType, FaultyType
  <2> QED
    BY <1>4, <2>1 DEF Restart, Active
<1>5. CASE \E q \in RunId : RunStep(q)
  BY <1>5, RunClears
<1>6. ASSUME NEW slot \in Slot, Fire(slot)
      PROVE  UNCHANGED runs \/ \E job : StartRun(job)
  BY <1>6 DEF Fire
<1>7. ASSUME NEW scope \in Scopes, SendNow(scope)
      PROVE  \E job : StartRun(job)
  BY <1>7 DEF SendNow
<1>8. ASSUME \/ NextDay
             \/ \E i \in Job : SetPause(i) \/ ClearPause(i)
             \/ \E s \in JobStage : ToggleFlag(s)
             \/ \E s \in Season : SetSeason(s)
             \/ SyncSeasonFlags
             \/ \E slot \in Slot, d \in 0..6 : SetSchedule(slot, d)
             \/ \E k \in Announcement : SaveTemplate(k)
      PROVE  \E jobs : Disturb(jobs)
  BY <1>8 DEF NextDay, SetPause, ClearPause, SetPauseTo, ToggleFlag, SetSeason,
              SyncSeasonFlags, SetSchedule, SaveTemplate
<1>9. CASE UNCHANGED vars
  BY <1>1, <1>9 DEF vars
<1> QED
  BY <1>1, <1>2, <1>3, <1>4, <1>5, <1>6, <1>7, <1>8, <1>9 DEF Next

LEMMA ClearStep ==
    ASSUME IInv, [Next]_vars
    PROVE  ClearsAreDue'
<1>0. TypeOK /\ Busy
  BY DEF IInv
<1> SUFFICES ASSUME NEW r \in RunId, Active(r)', NEW j \in runs'[r].clearing
             PROVE  j \in raced' \/ PastPause(j)'
  BY DEF ClearsAreDue
<1>1. j \in Job
  <2>1. TypeOK'
    BY <1>0, StepTyped
  <2> QED
    BY <2>1 DEF TypeOK, Run
<1>2. CASE JustRead(j)
  <2>1. UNCHANGED <<day, pause, wanted, raced>>
    BY <1>2 DEF JustRead
  <2>2. PastPause(j)
    BY <1>0, <1>1, <1>2, HostDay, OverIsPast DEF JustRead
  <2> QED
    BY <2>1, <2>2 DEF PastPause
<1>3. CASE Active(r) /\ j \in runs[r].clearing
  <2>0. j \in raced \/ PastPause(j)
    BY <1>3 DEF IInv, ClearsAreDue
  <2>1. CASE UNCHANGED <<pause, wanted, raced>> /\ day' \in {day, day + 1}
    BY <1>0, <1>1, <2>0, <2>1, StaysPast
  <2>2. ASSUME NEW q \in RunId, ClearOver(q)
        PROVE  j \in raced' \/ PastPause(j)'
    BY <2>0, <2>2 DEF ClearOver, settings, PastPause
  <2>3. ASSUME NEW i \in Job, SetPause(i) \/ ClearPause(i)
        PROVE  j \in raced' \/ PastPause(j)'
    <3>1. PICK p : SetPauseTo(i, p)
      BY <2>3 DEF SetPause, ClearPause
    <3>2. CASE i = j
      BY <1>3, <3>1, <3>2 DEF SetPauseTo
    <3>3. CASE i # j
      <4>1. wanted'[j] = wanted[j] /\ day' = day /\ (j \in raced <=> j \in raced')
        BY <1>0, <1>1, <3>1, <3>3 DEF TypeOK, SetPauseTo
      <4> QED
        BY <2>0, <4>1 DEF PastPause
    <3> QED
      BY <3>2, <3>3
  <2> QED
    BY <1>0, <2>1, <2>2, <2>3, PauseChanges
<1> QED
  BY <1>0, <1>2, <1>3, StepClears

\* The inductive invariant, and the two facts that make it one.
LEMMA Inductive == IInv /\ [Next]_vars => IInv'
<1> SUFFICES ASSUME IInv, [Next]_vars PROVE IInv'
  OBVIOUS
<1> QED
  BY StepTyped, PauseStep, CheckStep, ClearStep DEF IInv

LEMMA InitInductive == Init => IInv
<1> SUFFICES ASSUME Init PROVE IInv
  OBVIOUS
<1>1. TypeOK /\ Busy
  BY InitTyped
<1>2. ResumeOnWeekday /\ ClearedInTime
  BY DEF Init, ResumeOnWeekday, ClearedInTime, NotPaused
<1>3. CheckedFirst /\ ClearsAreDue
  BY DEF Init, CheckedFirst, ClearsAreDue, Active, NoRun
<1> QED
  BY <1>1, <1>2, <1>3 DEF IInv

\* What a step posts about an event, a run was about to post, for that event.
LEMMA PostedByRun ==
    ASSUME IInv, Next, NEW p \in posts' \ posts, p.kind \in JobStage
    PROVE  AboutToPost(p.run, p.kind) /\ p.run \in RunId /\ p.event = EventOf(p.kind, day)
<1>1. PICK r \in RunId : HeaderPost(r) \/ Ping(r) \/ PostPlain(r) \/ PostSunday(r)
  BY DEF Next, RunStep, NextDay, Fire, SendNow, SetPause, ClearPause, SetPauseTo, ToggleFlag,
         SetSeason, SyncSeasonFlags, SetSchedule, SaveTemplate, Restart, Scan, HeaderGate,
         Gate, CheckPause, ClearOver, Warm, PickFellowship, SendFails, Abort
<1>2. PICK kind, event : PostMessage(r, kind, event)
        /\ (kind \in JobStage => AtJob(r, "post") /\ Head(runs[r].todo) = kind
                                 /\ event = EventOf(kind, day))
  <2>1. CASE HeaderPost(r)
    <3>1. \E kind \in Header : PostMessage(r, kind, 0)
      BY <2>1 DEF HeaderPost, Header
    <3> QED
      BY <3>1 DEF Header, JobStage, Announcement, DriverAsk
  <2>2. CASE Ping(r)
    BY <2>2 DEF Ping, JobStage, Announcement, DriverAsk
  <2>3. CASE PostPlain(r)
    BY <2>3 DEF PostPlain
  <2>4. CASE PostSunday(r)
    BY <2>4 DEF PostSunday, JobStage, Announcement, DriverAsk
  <2> QED
    BY <1>1, <2>1, <2>2, <2>3, <2>4
<1>3. p.run = r /\ p.kind = kind /\ p.event = event
  BY <1>2 DEF PostMessage
<1> QED
  BY <1>2, <1>3 DEF AboutToPost, AtJob, Ready

\* For any days, runs and edits: a pause row that is_job_paused has cleared on
\* its own never lets out a message about an event the pause covers, unless the
\* pause was saved while a run was to clear its row, and the row is cleared.
THEOREM PausesHonoured == Spec => PauseHonoured
<1> DEFINE Honoured == \A p \in posts' \ posts :
                          p.kind \in JobStage =>
                             \/ PauseJob(p.kind) \in runs[p.run].touched
                             \/ Lost(PauseJob(p.kind))
                             \/ ~Covers(wanted[PauseJob(p.kind)], p.event)
<1>1. IInv /\ [Next]_vars => IInv'
  BY Inductive
<1>2. IInv /\ [Next]_vars => [Honoured]_vars
  <2> SUFFICES ASSUME IInv, Next, NEW p \in posts' \ posts, p.kind \in JobStage
               PROVE  \/ PauseJob(p.kind) \in runs[p.run].touched
                      \/ Lost(PauseJob(p.kind))
                      \/ ~Covers(wanted[PauseJob(p.kind)], p.event)
    OBVIOUS
  <2>1. LetThrough(p.run, p.kind)
    BY PostedByRun, CheckedFirstDef DEF IInv
  <2> QED
    BY <2>1, PostedByRun DEF LetThrough
<1> QED
  BY InitInductive, <1>1, <1>2, PTL DEF Spec, PauseHonoured

(***************************************************************************)
(* What a step does to a run.                                              *)
(***************************************************************************)
\* A run keeps its job and what was due; it is never calm again, and a failed
\* scan is not forgotten.
Keeps(old, new) ==
    /\ new \in Run
    /\ new.job = old.job /\ new.due = old.due
    /\ old.scanFailed => new.scanFailed
    /\ new.calm => old.calm
    /\ old.touched \subseteq new.touched
    /\ new.st # "idle"
    /\ new.st = "done" => new.todo = <<>>

\* A run that goes on to the stages rest.
LEMMA ContinueKeeps ==
    ASSUME TypeOK, NEW r \in RunId, NEW rest \in Seq(Stage)
    PROVE  LET new == Continue(r, rest)
           IN  /\ Keeps(runs[r], new)
               /\ new.todo = rest /\ new.at = "gate"
               /\ new.calm = runs[r].calm /\ new.touched = runs[r].touched
               /\ new.scanFailed = runs[r].scanFailed
               /\ new.st = IF rest = <<>> THEN "done" ELSE "active"
<1>1. runs[r] \in Run
  BY DEF TypeOK
<1> QED
  BY <1>1 DEF Continue, Keeps, Run

\* A run that a fault has touched is not calm any more.
LEMMA FaultyKeeps ==
    ASSUME NEW old \in Run, NEW new \in Run, Keeps(old, new)
    PROVE  /\ Keeps(old, Faulty(new)) /\ ~Faulty(new).calm
           /\ Faulty(new).st = new.st /\ Faulty(new).todo = new.todo
           /\ Faulty(new).scanFailed = new.scanFailed
  BY DEF Faulty, Keeps, Run

\* A run that stops has nothing left to do.
LEMMA StopKeeps ==
    ASSUME TypeOK, NEW r \in RunId, NEW st \in {"skipped", "aborted"}
    PROVE  Keeps(runs[r], Stop(r, st)) /\ Stop(r, st).st = st
<1>1. runs[r] \in Run /\ <<>> \in Seq(Stage)
  BY DEF TypeOK
<1> QED
  BY <1>1 DEF Stop, Keeps, Run

\* A stage that does not go on leaves the work of its run as it is.
LEMMA StayKeeps ==
    ASSUME TypeOK, NEW r \in RunId, Active(r),
           NEW at \in {"gate", "pause", "ping", "post"}, NEW day7 \in 0..6,
           NEW passed \in SUBSET Announcement, NEW c \in SUBSET Job
    PROVE  /\ Keeps(runs[r], [runs[r] EXCEPT !.at = at])
           /\ Keeps(runs[r], [runs[r] EXCEPT !.clearing = c])
           /\ Keeps(runs[r], [runs[r] EXCEPT !.at = at, !.sendDay = day7])
           /\ Keeps(runs[r], [runs[r] EXCEPT !.at = at, !.clearing = c])
           /\ Keeps(runs[r], [runs[r] EXCEPT !.at = at, !.passed = passed, !.clearing = c])
<1>1. runs[r] \in Run
  BY DEF TypeOK
<1> QED
  BY <1>1 DEF Keeps, Run, Active

\* What a step may leave of the stages of its run.
NextTodo(r) ==
    LET s == Head(runs[r].todo)
    IN  {runs[r].todo, Rest(r), <<>>}
          \cup (IF s = "wed" THEN {<<"drvWed">> \o Rest(r)} ELSE {})
          \cup (IF s = "felly" THEN {<<"wed">> \o Rest(r), <<"fri", "drvFri">> \o Rest(r)}
                               ELSE {})

\* Only a scan that finds no early announcement, or fails, leads past a scan.
PassesScan(r, new) ==
    Head(runs[r].todo) = "scan" /\ new.st = "active" =>
        \/ new.todo = runs[r].todo
        \/ new.todo = Rest(r) /\ ~SentEarly
        \/ new.scanFailed

\* A step of a run changes that run only.
LEMMA RunStepKeeps ==
    ASSUME TypeOK, Busy, NEW r \in RunId, RunStep(r)
    PROVE  \E new \in Run : /\ Set(r, new) /\ Keeps(runs[r], new)
                            /\ new.todo \in NextTodo(r)
                            /\ PassesScan(r, new)
                            /\ new.touched = runs[r].touched
<1>0. /\ Active(r) /\ runs[r] \in Run
      /\ Rest(r) \in Seq(Stage) /\ runs[r].todo # <<>> /\ runs[r].todo \in Seq(Stage)
  <2>1. Active(r)
    BY DEF RunStep, HeaderGate, Scan, HeaderPost, Gate, CheckPause, ClearOver, Ping, PostPlain,
           PostSunday, Warm, PickFellowship, SendFails, Abort, AtStage, AtJob, Ready
  <2> QED
    BY <2>1, RestType DEF TypeOK
<1>1. ASSUME NEW rest \in Seq(Stage), rest \in NextTodo(r), NEW up \in BOOLEAN,
             Set(r, MaybeFaulty(Continue(r, rest), up)),
             ~up \/ Head(runs[r].todo) # "scan" \/ (rest = Rest(r) /\ ~SentEarly),
             ~up => Head(runs[r].todo) # "scan"
      PROVE  \E new \in Run : /\ Set(r, new) /\ Keeps(runs[r], new)
                              /\ new.todo \in NextTodo(r)
                              /\ PassesScan(r, new)
                              /\ new.touched = runs[r].touched
  <2>1. PICK c : /\ c = Continue(r, rest) /\ c \in Run /\ Keeps(runs[r], c) /\ c.todo = rest
                 /\ c.touched = runs[r].touched
    BY ContinueKeeps DEF Keeps
  <2>2. PICK f : /\ f = Faulty(c) /\ f \in Run /\ Keeps(runs[r], f) /\ f.todo = rest
                 /\ f.touched = runs[r].touched
    <3>1. Faulty(c).touched = c.touched
      BY <2>1 DEF Faulty, Run
    <3> QED
      BY <1>0, <2>1, <3>1, FaultyKeeps DEF Keeps
  <2>3. CASE up
    BY <1>1, <2>1, <2>3 DEF MaybeFaulty, PassesScan
  <2>4. CASE ~up
    BY <1>1, <2>1, <2>2, <2>4 DEF MaybeFaulty, PassesScan
  <2> QED
    BY <2>3, <2>4
<1>2. ASSUME NEW st \in {"skipped", "aborted"}, Set(r, Stop(r, st)) \/ Set(r, Faulty(Stop(r, st)))
      PROVE  \E new \in Run : /\ Set(r, new) /\ Keeps(runs[r], new)
                              /\ new.todo \in NextTodo(r)
                              /\ PassesScan(r, new)
                              /\ new.touched = runs[r].touched
  <2>1. PICK c : /\ c = Stop(r, st) /\ c \in Run /\ Keeps(runs[r], c) /\ c.todo = <<>>
                 /\ c.touched = runs[r].touched /\ c.st = st
    <3>1. Stop(r, st).todo = <<>> /\ Stop(r, st).touched = runs[r].touched
      BY <1>0 DEF Stop, Run
    <3> QED
      BY <3>1, StopKeeps DEF Keeps
  <2>2. PICK f : /\ f = Faulty(c) /\ f \in Run /\ Keeps(runs[r], f) /\ f.todo = <<>>
                 /\ f.touched = runs[r].touched /\ f.st = st
    <3>1. Faulty(c).touched = c.touched
      BY <2>1 DEF Faulty, Run
    <3> QED
      BY <1>0, <2>1, <3>1, FaultyKeeps DEF Keeps
  <2> QED
    BY <1>2, <2>1, <2>2 DEF NextTodo, PassesScan
<1>3. ASSUME NEW new \in Run, Set(r, new), Keeps(runs[r], new), new.todo = runs[r].todo,
             new.touched = runs[r].touched
      PROVE  \E c \in Run : /\ Set(r, c) /\ Keeps(runs[r], c)
                            /\ c.todo \in NextTodo(r)
                            /\ PassesScan(r, c)
                            /\ c.touched = runs[r].touched
  BY <1>3 DEF NextTodo, PassesScan
<1>4. CASE Scan(r)
  <2>1. CASE Set(r, Stop(r, "skipped"))
    BY <2>1, <1>2
  <2>2. CASE ~SentEarly /\ Set(r, Continue(r, Rest(r)))
    <3>1. Set(r, MaybeFaulty(Continue(r, Rest(r)), TRUE))
      BY <2>2 DEF MaybeFaulty
    <3> QED
      BY <1>0, <1>1, <2>2, <3>1 DEF NextTodo
  <2>3. CASE Set(r, [Faulty(Continue(r, Rest(r))) EXCEPT !.scanFailed = TRUE])
    <3>1. PICK c : /\ c = Faulty(Continue(r, Rest(r))) /\ c \in Run /\ Keeps(runs[r], c)
                   /\ c.todo = Rest(r) /\ c.touched = runs[r].touched
      <4>1. PICK b : /\ b = Continue(r, Rest(r)) /\ b \in Run /\ Keeps(runs[r], b)
                     /\ b.todo = Rest(r) /\ b.touched = runs[r].touched
        BY <1>0, ContinueKeeps DEF Keeps
      <4>2. Faulty(b).touched = b.touched
        BY <4>1 DEF Faulty, Run
      <4> QED
        BY <1>0, <4>1, <4>2, FaultyKeeps DEF Keeps
    <3>2. PICK f : f = [c EXCEPT !.scanFailed = TRUE]
      OBVIOUS
    <3>3. /\ f \in Run /\ Keeps(runs[r], f)
          /\ f.todo = Rest(r) /\ f.touched = runs[r].touched /\ f.scanFailed
      BY <3>1, <3>2 DEF Keeps, Run
    <3> QED
      BY <2>3, <3>1, <3>2, <3>3 DEF NextTodo, PassesScan
  <2> QED
    BY <1>4, <2>1, <2>2, <2>3 DEF Scan
<1>5. CASE HeaderPost(r) \/ PostSunday(r)
  <2>1. PICK up \in BOOLEAN : Set(r, MaybeFaulty(Continue(r, Rest(r)), up))
    BY <1>5 DEF HeaderPost, PostSunday
  <2>2. Head(runs[r].todo) # "scan"
    BY <1>5 DEF HeaderPost, PostSunday, AtStage
  <2> QED
    BY <1>0, <1>1, <2>1, <2>2 DEF NextTodo
<1>6. CASE Warm(r) \/ (Gate(r) /\ Set(r, Continue(r, Rest(r))))
           \/ (CheckPause(r) /\ Set(r, Continue(r, Rest(r))))
  <2>1. Set(r, MaybeFaulty(Continue(r, Rest(r)), TRUE))
    BY <1>6 DEF Warm, MaybeFaulty
  <2>2. Head(runs[r].todo) # "scan"
    BY <1>6 DEF Warm, Gate, CheckPause, AtStage, AtJob, JobStage, Announcement, DriverAsk
  <2> QED
    BY <1>0, <1>1, <2>1, <2>2 DEF NextTodo
<1>7. CASE PostPlain(r) \/ PickFellowship(r)
  <2>1. PICK rest : Set(r, Continue(r, rest)) /\ rest \in NextTodo(r)
    BY <1>7 DEF PostPlain, PickFellowship, NextTodo, AtStage
  <2>2. rest \in Seq(Stage)
    <3>1. {"drvWed", "wed", "fri", "drvFri"} \subseteq Stage
      BY DEF Stage, JobStage, Announcement, DriverAsk
    <3>2. /\ <<"drvWed">> \in Seq(Stage) /\ <<"wed">> \in Seq(Stage)
          /\ <<"fri", "drvFri">> \in Seq(Stage) /\ <<>> \in Seq(Stage)
      BY <3>1
    <3>3. /\ <<"drvWed">> \o Rest(r) \in Seq(Stage) /\ <<"wed">> \o Rest(r) \in Seq(Stage)
          /\ <<"fri", "drvFri">> \o Rest(r) \in Seq(Stage)
      BY <1>0, <3>2
    <3> QED
      BY <1>0, <2>1, <3>2, <3>3, Zenon DEF NextTodo
  <2>3. Set(r, MaybeFaulty(Continue(r, rest), TRUE))
    BY <2>1 DEF MaybeFaulty
  <2>4. Head(runs[r].todo) # "scan"
    BY <1>7 DEF PostPlain, PickFellowship, AtStage, AtJob, JobStage, Announcement, DriverAsk
  <2> QED
    BY <1>1, <2>1, <2>2, <2>3, <2>4
<1>8. CASE SendFails(r) \/ Abort(r)
  <2>1. CASE Set(r, Faulty(Stop(r, "aborted")))
    BY <2>1, <1>2
  <2>2. CASE SendFails(r) /\ Head(runs[r].todo) \in JobStage
             /\ Set(r, Faulty(Continue(r, Rest(r))))
    <3>1. Head(runs[r].todo) # "scan"
      BY <2>2 DEF JobStage, Announcement, DriverAsk
    <3>2. Set(r, MaybeFaulty(Continue(r, Rest(r)), FALSE))
      BY <2>2 DEF MaybeFaulty
    <3> QED
      BY <1>0, <1>1, <3>1, <3>2 DEF NextTodo
  <2> QED
    BY <1>8, <2>1, <2>2 DEF SendFails, Abort
<1>9. CASE \/ HeaderGate(r) \/ Ping(r) \/ ClearOver(r)
           \/ Gate(r) /\ ~Set(r, Continue(r, Rest(r)))
           \/ CheckPause(r) /\ ~Set(r, Continue(r, Rest(r)))
  <2>2. ASSUME NEW at \in {"gate", "pause", "ping", "post"}, NEW day7 \in 0..6,
               NEW passed \in SUBSET Announcement, NEW c \in SUBSET Job,
               \/ Set(r, [runs[r] EXCEPT !.at = at])
               \/ Set(r, [runs[r] EXCEPT !.clearing = c])
               \/ Set(r, [runs[r] EXCEPT !.at = at, !.sendDay = day7])
               \/ Set(r, [runs[r] EXCEPT !.at = at, !.clearing = c])
               \/ Set(r, [runs[r] EXCEPT !.at = at, !.passed = passed, !.clearing = c])
        PROVE  \E new : /\ Set(r, new) /\ Keeps(runs[r], new)
                        /\ new.todo = runs[r].todo /\ new.touched = runs[r].touched
    <3>1. LET new == [runs[r] EXCEPT !.at = at]
          IN  Keeps(runs[r], new) /\ new.todo = runs[r].todo /\ new.touched = runs[r].touched
      BY <1>0, StayKeeps DEF Run
    <3>2. LET new == [runs[r] EXCEPT !.at = at, !.sendDay = day7]
          IN  Keeps(runs[r], new) /\ new.todo = runs[r].todo /\ new.touched = runs[r].touched
      BY <1>0, StayKeeps DEF Run
    <3>3. LET new == [runs[r] EXCEPT !.at = at, !.passed = passed, !.clearing = c]
          IN  Keeps(runs[r], new) /\ new.todo = runs[r].todo /\ new.touched = runs[r].touched
      BY <1>0, StayKeeps DEF Run
    <3>4. LET new == [runs[r] EXCEPT !.clearing = c]
          IN  Keeps(runs[r], new) /\ new.todo = runs[r].todo /\ new.touched = runs[r].touched
      BY <1>0, StayKeeps DEF Run
    <3>5. LET new == [runs[r] EXCEPT !.at = at, !.clearing = c]
          IN  Keeps(runs[r], new) /\ new.todo = runs[r].todo /\ new.touched = runs[r].touched
      BY <1>0, StayKeeps DEF Run
    <3> QED
      BY <2>2, <3>1, <3>2, <3>3, <3>4, <3>5
  <2>3. PICK new : /\ Set(r, new) /\ Keeps(runs[r], new)
                   /\ new.todo = runs[r].todo /\ new.touched = runs[r].touched
    <3>0. 0 \in 0..6 /\ {} \in SUBSET Announcement /\ {} \in SUBSET Job
      OBVIOUS
    <3>1. CASE HeaderGate(r)
      <4>0. {"sunday", "sunday_class", "friday"} \subseteq Job
        BY DEF Job
      <4>1. PICK p \in SUBSET Announcement, c \in SUBSET Job :
               Set(r, [runs[r] EXCEPT !.at = "post", !.passed = p, !.clearing = c])
        BY <3>1, <4>0 DEF HeaderGate
      <4> QED
        BY <3>0, <4>1, <2>2
    <3>2. CASE Ping(r)
      <4>1. Set(r, [runs[r] EXCEPT !.at = "post"])
        BY <3>2 DEF Ping
      <4> QED
        BY <3>0, <4>1, <2>2
    <3>3. CASE Gate(r) /\ ~Set(r, Continue(r, Rest(r)))
      <4>1. sched[JobSlot(PauseJob(Head(runs[r].todo)))] \in 0..6
        BY <3>3, JobFacts DEF Gate, AtJob, TypeOK
      <4>2. Set(r, [runs[r] EXCEPT !.at = "pause",
                       !.sendDay = sched[JobSlot(PauseJob(Head(runs[r].todo)))]])
        BY <3>3 DEF Gate
      <4> QED
        BY <3>0, <4>1, <4>2, <2>2
    <3>4. CASE CheckPause(r) /\ ~Set(r, Continue(r, Rest(r)))
      <4>0. PauseJob(Head(runs[r].todo)) \in Job
        BY <3>4, JobFacts DEF CheckPause, AtJob
      <4>1. PICK at \in {"ping", "post"}, c \in SUBSET Job :
               Set(r, [runs[r] EXCEPT !.at = at, !.clearing = c])
        BY <3>4, <4>0, Zenon DEF CheckPause
      <4> QED
        BY <3>0, <4>1, <2>2
    <3>5. CASE ClearOver(r)
      <4>1. PICK j : Set(r, [runs[r] EXCEPT !.clearing = runs[r].clearing \ {j}])
        BY <3>5 DEF ClearOver
      <4>2. runs[r].clearing \ {j} \in SUBSET Job
        BY <1>0 DEF Run
      <4> QED
        BY <3>0, <4>1, <4>2, <2>2
    <3> QED
      BY <1>9, <3>1, <3>2, <3>3, <3>4, <3>5
  <2> QED
    BY <1>3, <2>3 DEF Keeps
<1> QED
  BY <1>4, <1>5, <1>6, <1>7, <1>8, <1>9 DEF RunStep

\* A posted message is the run's own, of today; one about an event is the message
\* of the stage the run has come to.
LEMMA RunStepPosts ==
    ASSUME TypeOK, NEW r \in RunId, RunStep(r)
    PROVE  /\ posts \subseteq posts'
           /\ \A p \in posts' \ posts :
                 /\ p.run = r /\ p.day = day
                 /\ p.kind \in JobStage => Head(runs[r].todo) = p.kind
                 /\ Head(runs[r].todo) # "scan" /\ Active(r)
<1>1. CASE posts' = posts
  BY <1>1
<1>2. ASSUME NEW kind, NEW event, PostMessage(r, kind, event),
             kind \in JobStage => Head(runs[r].todo) = kind,
             Head(runs[r].todo) # "scan", Active(r)
      PROVE  /\ posts \subseteq posts'
             /\ \A p \in posts' \ posts :
                   /\ p.run = r /\ p.day = day
                   /\ p.kind \in JobStage => Head(runs[r].todo) = p.kind
                   /\ Head(runs[r].todo) # "scan" /\ Active(r)
  BY <1>2 DEF PostMessage
<1>3. CASE HeaderPost(r)
  <2>1. Head(runs[r].todo) # "scan" /\ Active(r)
    BY <1>3 DEF HeaderPost, AtStage, Ready
  <2>2. \A kind \in Header : kind \notin JobStage
    BY DEF Header, JobStage, Announcement, DriverAsk
  <2>3. posts' = posts \/ \E kind \in Header : PostMessage(r, kind, 0)
    BY <1>3 DEF HeaderPost, Header
  <2> QED
    BY <1>1, <1>2, <2>1, <2>2, <2>3
<1>4. CASE Ping(r) \/ PostPlain(r) \/ PostSunday(r)
  <2>1. Head(runs[r].todo) # "scan" /\ Active(r)
    BY <1>4 DEF Ping, PostPlain, PostSunday, AtJob, Ready, JobStage, Announcement, DriverAsk
  <2>2. "ping" \notin JobStage /\ "notice" \notin JobStage
    BY DEF JobStage, Announcement, DriverAsk
  <2>3. \/ posts' = posts
        \/ \E kind \in {"ping", "notice", Head(runs[r].todo)} : \E event : PostMessage(r, kind, event)
    BY <1>4 DEF Ping, PostPlain, PostSunday
  <2> QED
    BY <1>1, <1>2, <2>1, <2>2, <2>3
<1>5. CASE Scan(r) \/ HeaderGate(r) \/ Gate(r) \/ CheckPause(r) \/ Warm(r)
           \/ ClearOver(r) \/ PickFellowship(r) \/ SendFails(r) \/ Abort(r)
  BY <1>1, <1>5 DEF Scan, HeaderGate, Gate, CheckPause, ClearOver, Warm, PickFellowship, SendFails, Abort
<1> QED
  BY <1>3, <1>4, <1>5 DEF RunStep

\* Edits, midnights and restarts: an active run is calm no more, and keeps its
\* work or loses it; no other run changes.
LEMMA Interrupted ==
    ASSUME TypeOK, NEW jobs \in SUBSET Job, Disturb(jobs) \/ Restart, NEW r \in RunId
    PROVE  /\ ~Active(r) => runs'[r] = runs[r]
           /\ Active(r) => /\ Keeps(runs[r], runs'[r]) /\ ~runs'[r].calm
                           /\ runs'[r].st \in {"active", "aborted"}
                           /\ runs'[r].scanFailed = runs[r].scanFailed
           /\ Active(r)' => Active(r) /\ runs'[r].todo = runs[r].todo
<1>0. runs[r] \in Run
  BY DEF TypeOK
<1>1. CASE ~Active(r)
  BY <1>1 DEF Disturb, Restart, Active
<1>2. CASE Active(r) /\ Disturb(jobs)
  <2>1. runs'[r] = [runs[r] EXCEPT !.calm = FALSE, !.touched = @ \cup jobs]
    BY <1>2 DEF Disturb
  <2> QED
    BY <1>0, <1>2, <2>1 DEF Keeps, Run, Active
<1>3. CASE Active(r) /\ Restart
  <2>1. runs'[r] = Faulty(Stop(r, "aborted"))
    BY <1>3 DEF Restart
  <2>2. PICK c : /\ c = Stop(r, "aborted") /\ Keeps(runs[r], c) /\ c.st = "aborted"
                 /\ c.scanFailed = runs[r].scanFailed
    <3>1. Stop(r, "aborted").scanFailed = runs[r].scanFailed
      BY <1>0 DEF Stop, Run
    <3> QED
      BY <3>1, StopKeeps
  <2>3. /\ Keeps(runs[r], Faulty(c)) /\ ~Faulty(c).calm
        /\ Faulty(c).st = "aborted" /\ Faulty(c).scanFailed = runs[r].scanFailed
    <3>1. c \in Run
      BY <2>2 DEF Keeps
    <3> QED
      BY <1>0, <2>2, <3>1, FaultyKeeps
  <2> QED
    BY <1>3, <2>1, <2>2, <2>3 DEF Active
<1> QED
  BY <1>1, <1>2, <1>3

\* A run that starts is the first idle one.
Starts(r, job) ==
    /\ runs[r].st = "idle" /\ \A q \in RunId : q < r => runs[q].st # "idle"
    /\ \A q \in RunId \ {r} : runs'[q] = runs[q]
    /\ runs'[r] \in Run
    /\ runs'[r].job = job /\ runs'[r].st = "active" /\ runs'[r].todo = Plan(job)
    /\ runs'[r].at = "gate" /\ runs'[r].touched = {}
    /\ runs'[r].due = Due(job)
    /\ runs'[r].calm = Predictable(job)

LEMMA StartIs ==
    ASSUME TypeOK, Busy, NEW job \in RunJob, StartRun(job)
    PROVE  \E r \in RunId : Starts(r, job)
<1>1. PICK r \in RunId :
        /\ runs[r].st = "idle"
        /\ \A q \in RunId : q < r => runs[q].st # "idle"
        /\ runs' = [runs EXCEPT ![r] = [NoRun EXCEPT
                        !.job = job, !.st = "active", !.todo = Plan(job),
                        !.calm = Predictable(job), !.due = Due(job)]]
  BY DEF StartRun
<1>2. runs' \in [RunId -> Run]
  BY StartType
<1>3. runs'[r] = [NoRun EXCEPT !.job = job, !.st = "active", !.todo = Plan(job),
                              !.calm = Predictable(job), !.due = Due(job)]
  BY <1>1 DEF TypeOK
<1>4. /\ runs'[r].job = job /\ runs'[r].st = "active" /\ runs'[r].todo = Plan(job)
      /\ runs'[r].at = "gate" /\ runs'[r].touched = {}
      /\ runs'[r].due = Due(job) /\ runs'[r].calm = Predictable(job)
  BY <1>3 DEF NoRun
<1>5. \A q \in RunId \ {r} : runs'[q] = runs[q]
  BY <1>1 DEF TypeOK
<1> QED
  BY <1>1, <1>2, <1>4, <1>5 DEF Starts

\* A step is a step of a run, a start, an interruption, or nothing to the runs.
LEMMA StepCases ==
    ASSUME IInv, [Next]_vars
    PROVE  \/ \E r \in RunId : RunStep(r)
           \/ \E job \in RunJob, r \in RunId :
                 /\ Starts(r, job) /\ UNCHANGED <<day, season, flags, wanted, raced, sched, posts>>
                 /\ job = "all" => ~\E q \in RunId : Active(q) /\ runs[q].job = "all"
           \/ \E jobs \in SUBSET Job :
                 /\ Disturb(jobs) \/ Restart
                 /\ UNCHANGED posts /\ day' \in {day, day + 1}
           \/ UNCHANGED <<day, season, flags, wanted, raced, sched, posts, runs>>
<1>0. TypeOK /\ Busy
  BY DEF IInv
<1>1. ASSUME NEW slot \in Slot, Fire(slot)
      PROVE  \/ \E job \in RunJob, r \in RunId :
                  /\ Starts(r, job) /\ UNCHANGED <<day, season, flags, wanted, raced, sched, posts>>
                  /\ job = "all" => ~\E q \in RunId : Active(q) /\ runs[q].job = "all"
             \/ UNCHANGED <<day, season, flags, wanted, raced, sched, posts, runs>>
  <2>1. CASE UNCHANGED runs
    BY <1>1, <2>1 DEF Fire
  <2>2. PICK job \in {"all", "wed"} :
            UNCHANGED runs \/
            (StartRun(job) /\ ~\E q \in RunId : Active(q) /\ runs[q].job = job)
    BY <1>1 DEF Fire
  <2>3. CASE ~UNCHANGED runs
    <3>1. job \in RunJob /\ StartRun(job)
      BY <2>2, <2>3 DEF RunJob
    <3>2. PICK r \in RunId : Starts(r, job)
      BY <1>0, <3>1, StartIs
    <3>3. UNCHANGED <<day, season, flags, wanted, raced, sched, posts>>
      BY <1>1 DEF Fire
    <3> QED
      BY <2>2, <2>3, <3>1, <3>2, <3>3
  <2> QED
    BY <2>1, <2>3
<1>2. ASSUME NEW scope \in Scopes, SendNow(scope)
      PROVE  \E job \in RunJob, r \in RunId :
                  /\ Starts(r, job) /\ UNCHANGED <<day, season, flags, wanted, raced, sched, posts>>
                  /\ job = "all" => ~\E q \in RunId : Active(q) /\ runs[q].job = "all"
  <2>1. scope \in RunJob /\ scope # "all" /\ StartRun(scope)
    BY <1>2, ScopeAssumption DEF RunJob, SendNow
  <2>2. PICK r \in RunId : Starts(r, scope)
    BY <1>0, <2>1, StartIs
  <2>3. UNCHANGED <<day, season, flags, wanted, raced, sched, posts>>
    BY <1>2 DEF SendNow, settings
  <2> QED
    BY <2>1, <2>2, <2>3
<1>3. ASSUME \/ NextDay \/ SyncSeasonFlags \/ Restart
             \/ \E j \in Job : SetPause(j) \/ ClearPause(j)
             \/ \E s \in JobStage : ToggleFlag(s)
             \/ \E s \in Season : SetSeason(s)
             \/ \E slot \in Slot, d \in 0..6 : SetSchedule(slot, d)
             \/ \E k \in Announcement : SaveTemplate(k)
      PROVE  \E jobs \in SUBSET Job :
                 /\ Disturb(jobs) \/ Restart
                 /\ UNCHANGED posts /\ day' \in {day, day + 1}
  <2>1. \A j \in Job : {j} \in SUBSET Job
    OBVIOUS
  <2>2. CASE \E j \in Job : SetPause(j) \/ ClearPause(j)
    BY <2>1, <2>2 DEF SetPause, ClearPause, SetPauseTo
  <2>3. {} \in SUBSET Job
    OBVIOUS
  <2>4. CASE NextDay \/ SyncSeasonFlags \/ Restart
    BY <2>3, <2>4 DEF NextDay, SyncSeasonFlags, Restart
  <2>5. CASE \/ \E s \in JobStage : ToggleFlag(s)
             \/ \E s \in Season : SetSeason(s)
             \/ \E slot \in Slot, d \in 0..6 : SetSchedule(slot, d)
             \/ \E k \in Announcement : SaveTemplate(k)
    BY <2>3, <2>5 DEF ToggleFlag, SetSeason, SetSchedule, SaveTemplate
  <2> QED
    BY <1>3, <2>2, <2>4, <2>5
<1>4. CASE UNCHANGED vars
  BY <1>4 DEF vars
<1> QED
  BY <1>1, <1>2, <1>3, <1>4 DEF Next

-----------------------------------------------------------------------------
(***************************************************************************)
(* The duplicate check.                                                    *)
(***************************************************************************)
Scanned(r) == Active(r) /\ runs[r].todo # Plan("all")

\* Stages of the scheduled Wednesday-to-Sunday run after its scan.
AfterScan == {"header", "fri", "class", "sun", "warm", "drvFri", "drvSun"}

\* Runs are numbered in the order they start.
RunsInOrder ==
    \A r \in RunId : /\ runs[r].st = "idle" => runs[r].job = "none"
                     /\ runs[r].st # "idle" =>
                           \A q \in RunId : q < r => runs[q].st # "idle"

\* max_instances = 1: no such run starts while one is active.
OneAtATime ==
    \A r, q \in RunId : Active(r) /\ runs[r].job = "all" /\ q > r => runs[q].job # "all"

\* What is left of the run is its whole plan, or stages behind the scan.
StagesOfAll ==
    \A r \in RunId : Scanned(r) /\ runs[r].job = "all" =>
        \A i \in 1..Len(runs[r].todo) : runs[r].todo[i] \in AfterScan

\* A message was posted on a day that has come, by a run that has started.
PostsOfRuns ==
    \A p \in posts : /\ p.day <= day
                     /\ runs[p.run].st # "idle"
                     /\ runs[p.run].job = "all" => p.kind # "wed"

\* Behind a scan that worked, what the earlier runs announced was another week's.
WeekIsClear ==
    \A r \in RunId : Scanned(r) /\ runs[r].job = "all" /\ ~runs[r].scanFailed =>
        \A p \in posts :
            runs[p.run].job = "all" /\ p.run < r /\ p.kind \in Announcement /\ p.worded =>
                Week(p.day) < Week(day)

DInv == /\ IInv /\ RunsInOrder /\ OneAtATime /\ StagesOfAll /\ PostsOfRuns
        /\ WeekIsClear /\ NoWeeklyDuplicate

LEMMA RunIdNat == RunId \subseteq Nat
  BY DEF RunId

\* What an active scheduled run is at: its scan, or a stage behind it.
LEMMA AllHead ==
    ASSUME TypeOK, Busy, StagesOfAll, NEW r \in RunId, Active(r), runs[r].job = "all"
    PROVE  /\ runs[r].todo = Plan("all") => Head(runs[r].todo) = "scan"
           /\ Scanned(r) => /\ Head(runs[r].todo) \in AfterScan
                            /\ \A i \in 1..Len(Rest(r)) : Rest(r)[i] \in AfterScan
           /\ \A i \in 1..Len(Tail(Plan("all"))) : Tail(Plan("all"))[i] \in AfterScan
<1>1. Plan("all") = <<"scan", "header", "fri", "class", "sun", "warm",
                          "drvFri", "drvSun", "warm">>
  BY DEF Plan
<1>2. runs[r].todo = Plan("all") => Head(runs[r].todo) = "scan"
  BY <1>1
<1>3. /\ Plan("all") \in Seq(Stage) /\ Len(Plan("all")) = 9
      /\ \A i \in 2..9 : Plan("all")[i] \in AfterScan
  BY <1>1, PlanType DEF RunJob, AfterScan
<1>4. \A i \in 1..Len(Tail(Plan("all"))) : Tail(Plan("all"))[i] \in AfterScan
  <2>1. Len(Tail(Plan("all"))) = 8
    BY <1>3
  <2>2. \A i \in 1..8 : Tail(Plan("all"))[i] = Plan("all")[i + 1]
    BY <1>3
  <2> QED
    BY <1>3, <2>1, <2>2
<1>5. Scanned(r) => /\ Head(runs[r].todo) \in AfterScan
                    /\ \A i \in 1..Len(Rest(r)) : Rest(r)[i] \in AfterScan
  <2> SUFFICES ASSUME Scanned(r)
               PROVE  /\ Head(runs[r].todo) \in AfterScan
                      /\ \A i \in 1..Len(Rest(r)) : Rest(r)[i] \in AfterScan
    OBVIOUS
  <2>1. \A i \in 1..Len(runs[r].todo) : runs[r].todo[i] \in AfterScan
    BY DEF StagesOfAll
  <2>2. runs[r].todo \in Seq(Stage) /\ runs[r].todo # <<>>
    BY RestType
  <2> QED
    BY <2>1, <2>2 DEF Rest
<1> QED
  BY <1>2, <1>4, <1>5

\* The scan finds the week's announcements of every run that could post them.
LEMMA ScanFinds ==
    ASSUME TypeOK, PostsOfRuns, ~SentEarly, NEW p \in posts,
           runs[p.run].job = "all", p.kind \in Announcement, p.worded
    PROVE  Week(p.day) < Week(day)
<1>1. p.kind \in {"fri", "sun", "class"}
  BY DEF PostsOfRuns, Announcement
<1>2. p.day \in Nat /\ day \in Nat
  BY DEF TypeOK, Post
<1>3. Week(p.day) \in Int /\ Week(day) \in Int
  BY <1>2 DEF Week
<1> QED
  BY <1>1, <1>3 DEF SentEarly

LEMMA WeekGrows ==
    ASSUME NEW d \in Nat, NEW e \in Nat, d <= e
    PROVE  Week(d) \in Int /\ Week(e) \in Int /\ Week(d) <= Week(e)
  BY SMT DEF Week

LEMMA DuplicateRunStep ==
    ASSUME DInv, NEW r \in RunId, RunStep(r)
    PROVE  /\ RunsInOrder' /\ OneAtATime' /\ StagesOfAll' /\ PostsOfRuns'
           /\ WeekIsClear' /\ NoWeeklyDuplicate'
<1>0. /\ TypeOK /\ Busy /\ day' = day /\ day \in Nat /\ runs \in [RunId -> Run]
      /\ runs[r] \in Run /\ posts \subseteq Post
  <2>1. day' = day
    BY DEF RunStep, HeaderGate, Scan, HeaderPost, Gate, CheckPause, ClearOver, Ping, PostPlain,
           PostSunday, Warm, PickFellowship, SendFails, Abort
  <2> QED
    BY <2>1 DEF DInv, IInv, TypeOK
<1>1. Active(r)
  BY DEF RunStep, HeaderGate, Scan, HeaderPost, Gate, CheckPause, ClearOver, Ping, PostPlain,
         PostSunday, Warm, PickFellowship, SendFails, Abort, AtStage, AtJob, Ready
<1>2. PICK new \in Run : /\ Set(r, new) /\ Keeps(runs[r], new)
                         /\ new.todo \in NextTodo(r) /\ PassesScan(r, new)
  BY <1>0, RunStepKeeps
<1>3. /\ runs'[r] = new /\ \A q \in RunId \ {r} : runs'[q] = runs[q]
      /\ \A q \in RunId : runs'[q].job = runs[q].job
      /\ \A q \in RunId : Active(q)' => Active(q)
      /\ \A q \in RunId : runs[q].st = "idle" <=> runs'[q].st = "idle"
      /\ \A q \in RunId : runs[q].scanFailed => runs'[q].scanFailed
  BY <1>0, <1>1, <1>2 DEF Set, Keeps, Active
<1>4. /\ posts \subseteq posts'
      /\ \A p \in posts' \ posts :
            /\ p.run = r /\ p.day = day
            /\ p.kind \in JobStage => Head(runs[r].todo) = p.kind
            /\ Head(runs[r].todo) # "scan" /\ Active(r)
  BY <1>0, RunStepPosts
<1>5. \A p \in posts : p.run \in RunId /\ p.day \in Nat /\ p.day <= day
                       /\ runs[p.run].st # "idle"
  BY <1>0 DEF Post, DInv, PostsOfRuns
<1>6. runs[r].job = "all" => Head(runs[r].todo) = "scan" \/ Head(runs[r].todo) \in AfterScan
  BY <1>0, <1>1, AllHead DEF DInv, Scanned
<1>7. RunsInOrder' /\ OneAtATime'
  BY <1>3 DEF DInv, RunsInOrder, OneAtATime
<1>8. StagesOfAll'
  <2> SUFFICES ASSUME NEW q \in RunId, Scanned(q)', runs'[q].job = "all"
               PROVE  \A i \in 1..Len(runs'[q].todo) : runs'[q].todo[i] \in AfterScan
    BY DEF StagesOfAll
  <2>1. CASE q # r
    BY <1>3, <2>1 DEF DInv, StagesOfAll, Scanned, Active
  <2>2. CASE q = r
    <3>1. Head(runs[r].todo) \notin {"wed", "felly"}
      BY <1>3, <1>6, <2>2 DEF AfterScan
    <3>2. new.todo \in {runs[r].todo, Rest(r), <<>>}
      BY <1>2, <3>1 DEF NextTodo
    <3>3. CASE new.todo = runs[r].todo
      BY <1>1, <1>3, <2>2, <3>3 DEF DInv, StagesOfAll, Scanned
    <3>4. CASE new.todo = Rest(r)
      BY <1>0, <1>1, <1>3, <2>2, <3>4, AllHead DEF DInv, Scanned, Rest
    <3>5. CASE new.todo = <<>>
      BY <1>3, <2>2, <3>5
    <3> QED
      BY <3>2, <3>3, <3>4, <3>5
  <2> QED
    BY <2>1, <2>2
<1>9. PostsOfRuns'
  <2> SUFFICES ASSUME NEW p \in posts'
               PROVE  /\ p.day <= day' /\ runs'[p.run].st # "idle"
                      /\ runs'[p.run].job = "all" => p.kind # "wed"
    BY DEF PostsOfRuns
  <2>1. CASE p \in posts
    BY <1>0, <1>3, <1>5, <2>1 DEF DInv, PostsOfRuns
  <2>2. CASE p \notin posts
    <3>1. p.run = r /\ p.day = day /\ runs'[p.run].st # "idle"
      BY <1>2, <1>3, <1>4, <2>2 DEF Keeps
    <3>2. runs'[p.run].job = "all" => p.kind # "wed"
      <4>1. "wed" \in JobStage /\ "wed" \notin AfterScan
        BY DEF JobStage, Announcement, AfterScan
      <4> QED
        BY <1>3, <1>4, <1>6, <2>2, <3>1, <4>1
    <3> QED
      BY <1>0, <3>1, <3>2
  <2> QED
    BY <2>1, <2>2
<1>10. WeekIsClear'
  <2> SUFFICES ASSUME NEW q \in RunId, Scanned(q)', runs'[q].job = "all", ~runs'[q].scanFailed,
                      NEW p \in posts', runs'[p.run].job = "all", p.run < q,
                      p.kind \in Announcement, p.worded
               PROVE  Week(p.day) < Week(day)
    BY <1>0 DEF WeekIsClear
  <2>1. Active(q) /\ runs[q].job = "all" /\ ~runs[q].scanFailed
    BY <1>3 DEF Scanned
  <2>2. p \in posts
    <3> SUFFICES ASSUME p \notin posts PROVE FALSE
      OBVIOUS
    <3>1. p.run = r /\ runs[r].job = "all"
      BY <1>3, <1>4
    <3> QED
      BY <1>1, <2>1, <3>1, RunIdNat DEF DInv, OneAtATime
  <2>3. runs[p.run].job = "all"
    BY <1>3, <1>5, <2>2
  <2>4. CASE Scanned(q)
    BY <2>1, <2>2, <2>3, <2>4 DEF DInv, WeekIsClear
  <2>5. CASE ~Scanned(q)
    <3>1. q = r /\ runs[r].todo = Plan("all") /\ Head(runs[r].todo) = "scan"
      <4>1. runs[q].todo = Plan("all") /\ Head(runs[q].todo) = "scan"
        BY <1>0, <2>1, <2>5, AllHead DEF DInv, Scanned
      <4>2. q = r
        BY <1>3, <2>5 DEF Scanned, Active
      <4> QED
        BY <4>1, <4>2
    <3>2. ~SentEarly
      BY <1>2, <1>3, <3>1 DEF PassesScan, Scanned, Active
    <3> QED
      BY <1>0, <2>2, <2>3, <3>2, ScanFinds DEF DInv
  <2> QED
    BY <2>4, <2>5
<1>11. NoWeeklyDuplicate'
  <2> SUFFICES ASSUME NEW p \in posts', NEW q \in posts',
                      runs'[p.run].job = "all", runs'[q.run].job = "all", p.run < q.run,
                      p.kind \in Announcement, p.worded, Week(p.day) = Week(q.day)
               PROVE  runs'[q.run].scanFailed
    BY DEF NoWeeklyDuplicate
  <2>1. /\ p.run \in RunId /\ q.run \in RunId
        /\ runs[p.run].job = "all" /\ runs[q.run].job = "all"
    BY <1>3, <1>4, <1>5
  <2>2. CASE p \notin posts
    <3>1. p.run = r
      BY <1>4, <2>2
    <3> QED
      BY <1>1, <2>1, <3>1 DEF DInv, OneAtATime
  <2>3. CASE p \in posts /\ q \in posts
    BY <1>3, <2>1, <2>3 DEF DInv, NoWeeklyDuplicate
  <2>4. CASE p \in posts /\ q \notin posts
    <3>1. q.run = r /\ q.day = day /\ Head(runs[r].todo) # "scan"
      BY <1>4, <2>4
    <3>2. Scanned(r)
      BY <1>0, <1>1, <2>1, <3>1, AllHead DEF DInv, Scanned
    <3>3. runs[r].scanFailed \/ Week(p.day) < Week(day)
      BY <2>1, <2>4, <3>1, <3>2 DEF DInv, WeekIsClear
    <3>4. Week(p.day) \in Int /\ Week(day) \in Int
      BY <1>0, <1>5, <2>4, WeekGrows
    <3> QED
      BY <1>3, <3>1, <3>3, <3>4
  <2> QED
    BY <2>2, <2>3, <2>4
<1> QED
  BY <1>7, <1>8, <1>9, <1>10, <1>11

LEMMA DuplicateStart ==
    ASSUME DInv, NEW job \in RunJob, NEW r \in RunId, Starts(r, job), UNCHANGED <<day, posts>>,
           job = "all" => ~\E q \in RunId : Active(q) /\ runs[q].job = "all"
    PROVE  /\ RunsInOrder' /\ OneAtATime' /\ StagesOfAll' /\ PostsOfRuns'
           /\ WeekIsClear' /\ NoWeeklyDuplicate'
<1>0. /\ posts \subseteq Post /\ runs \in [RunId -> Run] /\ RunId \subseteq Nat
  BY RunIdNat DEF DInv, IInv, TypeOK
<1>1. \A p \in posts : p.run \in RunId \ {r} /\ runs'[p.run] = runs[p.run]
  BY <1>0 DEF DInv, PostsOfRuns, Post, Starts
<1>2. RunsInOrder'
  BY DEF DInv, RunsInOrder, Starts, RunJob
<1>3. OneAtATime'
  <2> SUFFICES ASSUME NEW p \in RunId, NEW q \in RunId, Active(p)', runs'[p].job = "all", q > p
               PROVE  runs'[q].job # "all"
    BY DEF OneAtATime
  <2>1. CASE p = r
    <3>1. q # r /\ runs'[q] = runs[q]
      BY <1>0, <2>1 DEF Starts
    <3>2. runs[q].st = "idle"
      BY <1>0, <2>1 DEF DInv, RunsInOrder, Starts
    <3> QED
      BY <3>1, <3>2 DEF DInv, RunsInOrder
  <2>2. CASE p # r /\ q = r
    BY <2>2 DEF Starts, Active
  <2>3. CASE p # r /\ q # r
    BY <2>3 DEF Starts, Active, DInv, OneAtATime
  <2> QED
    BY <2>1, <2>2, <2>3
<1>4. StagesOfAll'
  BY DEF DInv, StagesOfAll, Scanned, Active, Starts
<1>5. PostsOfRuns'
  BY <1>1 DEF DInv, PostsOfRuns
<1>6. WeekIsClear'
  BY <1>1 DEF DInv, WeekIsClear, Scanned, Active, Starts
<1>7. NoWeeklyDuplicate'
  BY <1>1 DEF DInv, NoWeeklyDuplicate
<1> QED
  BY <1>2, <1>3, <1>4, <1>5, <1>6, <1>7

LEMMA DuplicateInterrupted ==
    ASSUME DInv, NEW jobs \in SUBSET Job, Disturb(jobs) \/ Restart,
           UNCHANGED posts, day' \in {day, day + 1}
    PROVE  /\ RunsInOrder' /\ OneAtATime' /\ StagesOfAll' /\ PostsOfRuns'
           /\ WeekIsClear' /\ NoWeeklyDuplicate'
<1>0. /\ TypeOK /\ posts \subseteq Post /\ day \in Nat /\ runs \in [RunId -> Run]
      /\ day' \in Nat /\ day <= day'
  BY DEF DInv, IInv, TypeOK
<1>1. \A q \in RunId : /\ runs'[q].job = runs[q].job
                       /\ runs'[q].scanFailed = runs[q].scanFailed
                       /\ runs[q].st = "idle" <=> runs'[q].st = "idle"
                       /\ Active(q)' => Active(q) /\ runs'[q].todo = runs[q].todo
  BY <1>0, Interrupted DEF Keeps, Active
<1>2. \A p \in posts : p.run \in RunId /\ p.day \in Nat /\ p.day <= day
  BY <1>0 DEF Post, DInv, PostsOfRuns
<1>3. RunsInOrder' /\ OneAtATime'
  BY <1>1 DEF DInv, RunsInOrder, OneAtATime
<1>4. StagesOfAll'
  BY <1>1 DEF DInv, StagesOfAll, Scanned
<1>5. PostsOfRuns'
  BY <1>0, <1>1, <1>2 DEF DInv, PostsOfRuns
<1>6. WeekIsClear'
  <2> SUFFICES ASSUME NEW q \in RunId, Scanned(q)', runs'[q].job = "all", ~runs'[q].scanFailed,
                      NEW p \in posts, runs'[p.run].job = "all", p.run < q,
                      p.kind \in Announcement, p.worded
               PROVE  Week(p.day) < Week(day')
    BY DEF WeekIsClear
  <2>1. Week(p.day) < Week(day)
    BY <1>1, <1>2 DEF DInv, WeekIsClear, Scanned
  <2>2. Week(p.day) \in Int /\ Week(day) \in Int /\ Week(day') \in Int /\ Week(day) <= Week(day')
    BY <1>0, <1>2, WeekGrows
  <2> QED
    BY <2>1, <2>2
<1>7. NoWeeklyDuplicate'
  BY <1>1, <1>2 DEF DInv, NoWeeklyDuplicate
<1> QED
  BY <1>3, <1>4, <1>5, <1>6, <1>7

LEMMA DuplicateInductive == DInv /\ [Next]_vars => DInv'
<1> SUFFICES ASSUME DInv, [Next]_vars PROVE DInv'
  OBVIOUS
<1>1. IInv /\ IInv'
  BY Inductive DEF DInv
<1>2. CASE UNCHANGED <<day, posts, runs>>
  <2>1. /\ RunsInOrder' /\ OneAtATime' /\ StagesOfAll' /\ PostsOfRuns'
        /\ WeekIsClear' /\ NoWeeklyDuplicate'
    BY <1>2 DEF DInv, RunsInOrder, OneAtATime, StagesOfAll, PostsOfRuns, WeekIsClear,
                NoWeeklyDuplicate, Scanned, Active
  <2> QED
    BY <1>1, <2>1 DEF DInv
<1>3. CASE \E r \in RunId : RunStep(r)
  BY <1>1, <1>3, DuplicateRunStep DEF DInv
<1>4. CASE \E job \in RunJob, r \in RunId :
              /\ Starts(r, job) /\ UNCHANGED <<day, season, flags, wanted, raced, sched, posts>>
              /\ job = "all" => ~\E q \in RunId : Active(q) /\ runs[q].job = "all"
  BY <1>1, <1>4, DuplicateStart DEF DInv
<1>5. CASE \E jobs \in SUBSET Job : /\ Disturb(jobs) \/ Restart
                                    /\ UNCHANGED posts /\ day' \in {day, day + 1}
  BY <1>1, <1>5, DuplicateInterrupted DEF DInv
<1> QED
  BY <1>1, <1>2, <1>3, <1>4, <1>5, StepCases

LEMMA DuplicateInit == Init => DInv
<1> SUFFICES ASSUME Init PROVE DInv
  OBVIOUS
<1>1. IInv
  BY InitInductive
<1>2. \A r \in RunId : runs[r].st = "idle" /\ runs[r].job = "none"
  BY DEF Init, NoRun
<1>3. posts = {}
  BY DEF Init
<1> QED
  BY <1>1, <1>2, <1>3 DEF DInv, RunsInOrder, OneAtATime, StagesOfAll, PostsOfRuns, WeekIsClear,
                          NoWeeklyDuplicate, Scanned, Active

\* For any number of runs, days, edits and faults: a scheduled run whose scan
\* worked posts nothing in a week in which an earlier one has announced.
THEOREM WeekAnnouncedOnce == Spec => []NoWeeklyDuplicate
<1>1. DInv /\ [Next]_vars => DInv'
  BY DuplicateInductive
<1>2. DInv => NoWeeklyDuplicate
  BY DEF DInv
<1> QED
  BY DuplicateInit, <1>1, <1>2, PTL DEF Spec
=============================================================================

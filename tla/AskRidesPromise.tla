-------------------------- MODULE AskRidesPromise ---------------------------
(***************************************************************************)
(* Theorems about what an undisturbed run of AskRides posts: exactly what  *)
(* was due when it started, with a header that promises what follows.      *)
(***************************************************************************)
EXTENDS AskRidesProofs

(***************************************************************************)
(* The promise.                                                            *)
(***************************************************************************)
\* What a stage may post, by itself or by the stages it brings in.
Brings(s) ==
    CASE s = "felly" -> {"wed", "drvWed", "fri", "drvFri"}
      [] s = "wed" -> {"wed", "drvWed"}
      [] s \in {"scan", "warm"} -> {}
      [] OTHER -> {s}

Ahead(todo) == UNION {Brings(todo[i]) : i \in 1..Len(todo)}

\* No message is ahead of a run twice.
Apart(todo) ==
    \A i, k \in 1..Len(todo) : i # k => Brings(todo[i]) \cap Brings(todo[k]) = {}

Calm(r) == Active(r) /\ runs[r].calm

\* The settings are still those the run started under.
AsStarted(r) ==
    /\ runs[r].job \in RunJob
    /\ runs[r].touched = {}
    /\ runs[r].due = Due(runs[r].job)
    /\ Predictable(runs[r].job)

\* The stages left lead to messages of the run's own kind, each of them once; a
\* Wednesday driver request follows a Wednesday announcement.
InReach(r) ==
    /\ Ahead(runs[r].todo) \subseteq Reach(runs[r].job) \cup {"header"}
    /\ Apart(runs[r].todo)
    /\ (\E i \in 1..Len(runs[r].todo) : runs[r].todo[i] = "drvWed") => Ought("wed")

\* Where a run stands within a stage, the checks it has passed still hold.
GatesHold(r) ==
    LET s == Head(runs[r].todo)
    IN  s \in JobStage =>
            /\ runs[r].at # "gate" => s \in flags /\ InSeason(s)
            /\ runs[r].at = "pause" => runs[r].sendDay = sched[JobSlot(PauseJob(s))]

\* What was due, and is not ahead any more, has been posted: no fewer and no more.
PostedSoFar(r) == KindsOf(r) \cap JobStage = runs[r].due \ Ahead(runs[r].todo)

\* The header speaks of what was due.
HeaderFits(r) ==
    /\ ("headerWeek" \in KindsOf(r)) <=> ("fri" \in runs[r].due)
    /\ (KindsOf(r) \cap Header # {}) <=> (runs[r].due \cap Announcement # {})

FridayRun(r) == season = "friday" /\ runs[r].job \in {"all", "both"}

HeaderOnce(r) == "header" \in Ahead(runs[r].todo) => KindsOf(r) \cap Header = {}

HeaderSaid(r) == FridayRun(r) /\ "header" \notin Ahead(runs[r].todo) => HeaderFits(r)

\* Between its gate and its post the header has read what is not paused.
HeaderRead(r) ==
    FridayRun(r) /\ Head(runs[r].todo) = "header" /\ runs[r].at = "post" =>
        runs[r].passed \cap {"fri", "sun", "class"} =
            {k \in {"fri", "sun", "class"} \cap flags : ~Held(k, day)}

Promised(r) ==
    /\ runs[r].st = "done" => runs[r].todo = <<>>
    /\ runs[r].calm /\ runs[r].st \in {"active", "done"} => PostedSoFar(r)
    /\ Calm(r) => /\ AsStarted(r) /\ InReach(r) /\ GatesHold(r)
                  /\ HeaderOnce(r) /\ HeaderSaid(r) /\ HeaderRead(r)

PInv == DInv /\ \A r \in RunId : Promised(r)

(***************************************************************************)
(* What lies ahead of a run.                                               *)
(***************************************************************************)
LEMMA BringsIs ==
    /\ Brings("scan") = {} /\ Brings("warm") = {} /\ Brings("header") = {"header"}
    /\ Brings("felly") = {"wed", "drvWed", "fri", "drvFri"}
    /\ Brings("wed") = {"wed", "drvWed"}
    /\ \A s \in JobStage : s # "wed" => Brings(s) = {s}
    /\ \A s \in JobStage : s \in Brings(s)
  BY DEF Brings, JobStage, Announcement, DriverAsk

LEMMA InAhead ==
    ASSUME NEW todo, NEW x
    PROVE  x \in Ahead(todo) <=> \E i \in 1..Len(todo) : x \in Brings(todo[i])
  BY DEF Ahead

LEMMA AheadEmpty == Ahead(<<>>) = {} /\ Apart(<<>>)
<1>1. Len(<<>>) = 0
  OBVIOUS
<1> QED
  BY <1>1, InAhead DEF Apart

\* The current stage, and what is ahead after it.
LEMMA AheadTail ==
    ASSUME NEW todo \in Seq(Stage), todo # <<>>
    PROVE  /\ Ahead(todo) = Brings(Head(todo)) \cup Ahead(Tail(todo))
           /\ Apart(todo) => /\ Apart(Tail(todo))
                             /\ Brings(Head(todo)) \cap Ahead(Tail(todo)) = {}
           /\ \A s : (\E i \in 1..Len(Tail(todo)) : Tail(todo)[i] = s)
                        => \E i \in 1..Len(todo) : todo[i] = s
<1> DEFINE n == Len(todo)
<1>1. /\ n \in Nat /\ n >= 1 /\ Len(Tail(todo)) = n - 1 /\ Head(todo) = todo[1]
      /\ \A i \in 1..(n - 1) : Tail(todo)[i] = todo[i + 1]
  OBVIOUS
<1> HIDE DEF n
<1>2. \A i \in 2..n : i - 1 \in 1..(n - 1) /\ Tail(todo)[i - 1] = todo[i]
  BY <1>1
<1>3. ASSUME NEW x
      PROVE  x \in Ahead(todo) <=> x \in Brings(Head(todo)) \/ x \in Ahead(Tail(todo))
  <2>1. x \in Ahead(todo) <=> \E i \in 1..n : x \in Brings(todo[i])
    BY InAhead DEF n
  <2>2. x \in Ahead(Tail(todo)) <=> \E i \in 1..(n - 1) : x \in Brings(Tail(todo)[i])
    BY <1>1, InAhead
  <2>3. (\E i \in 1..n : x \in Brings(todo[i]))
           <=> x \in Brings(todo[1]) \/ \E i \in 2..n : x \in Brings(todo[i])
    BY <1>1
  <2>4. (\E i \in 2..n : x \in Brings(todo[i]))
           <=> \E i \in 1..(n - 1) : x \in Brings(Tail(todo)[i])
    <3>1. ASSUME NEW i \in 2..n, x \in Brings(todo[i])
          PROVE  \E k \in 1..(n - 1) : x \in Brings(Tail(todo)[k])
      BY <3>1, <1>2
    <3>2. ASSUME NEW i \in 1..(n - 1), x \in Brings(Tail(todo)[i])
          PROVE  \E k \in 2..n : x \in Brings(todo[k])
      <4>1. i + 1 \in 2..n
        BY <1>1
      <4> QED
        BY <3>2, <4>1, <1>1
    <3> QED
      BY <3>1, <3>2
  <2> QED
    BY <1>1, <2>1, <2>2, <2>3, <2>4
<1>4. ASSUME Apart(todo)
      PROVE  Apart(Tail(todo)) /\ Brings(Head(todo)) \cap Ahead(Tail(todo)) = {}
  <2>1. \A i, k \in 1..n : i # k => Brings(todo[i]) \cap Brings(todo[k]) = {}
    BY <1>4 DEF Apart, n
  <2>2. Apart(Tail(todo))
    <3> SUFFICES ASSUME NEW i \in 1..(n - 1), NEW k \in 1..(n - 1), i # k
                 PROVE  Brings(Tail(todo)[i]) \cap Brings(Tail(todo)[k]) = {}
      BY <1>1 DEF Apart
    <3>1. i + 1 \in 1..n /\ k + 1 \in 1..n /\ i + 1 # k + 1
      BY <1>1
    <3> QED
      BY <1>1, <2>1, <3>1
  <2>3. ASSUME NEW x \in Brings(Head(todo)), x \in Ahead(Tail(todo))
        PROVE  FALSE
    <3>1. PICK i \in 1..(n - 1) : x \in Brings(Tail(todo)[i])
      BY <1>1, <2>3, InAhead
    <3>2. i + 1 \in 1..n /\ i + 1 # 1 /\ 1 \in 1..n /\ x \in Brings(todo[i + 1])
      BY <1>1, <3>1
    <3> QED
      BY <1>1, <2>1, <2>3, <3>2
  <2> QED
    BY <2>2, <2>3
<1>5. ASSUME NEW s, NEW i \in 1..(n - 1), Tail(todo)[i] = s
      PROVE  \E k \in 1..n : todo[k] = s
  <2>1. i + 1 \in 1..n
    BY <1>1
  <2> QED
    BY <1>1, <1>5, <2>1
<1> QED
  BY <1>1, <1>3, <1>4, <1>5 DEF n

\* Stages put in front of others.
LEMMA AheadConcat ==
    ASSUME NEW a \in Seq(Stage), NEW b \in Seq(Stage)
    PROVE  /\ Ahead(a \o b) = Ahead(a) \cup Ahead(b)
           /\ Apart(a) /\ Apart(b) /\ Ahead(a) \cap Ahead(b) = {} => Apart(a \o b)
           /\ \A s : (\E i \in 1..Len(a \o b) : (a \o b)[i] = s)
                        => \/ \E i \in 1..Len(a) : a[i] = s
                           \/ \E i \in 1..Len(b) : b[i] = s
<1> DEFINE m == Len(a)
           n == Len(b)
           c == a \o b
<1>1. /\ m \in Nat /\ n \in Nat /\ Len(c) = m + n
      /\ \A i \in 1..m : c[i] = a[i]
      /\ \A i \in 1..(m + n) : i > m => c[i] = b[i - m]
  OBVIOUS
<1> HIDE DEF c, m, n
<1>2. \A i \in 1..(m + n) : (i \in 1..m /\ c[i] = a[i]) \/ (i - m \in 1..n /\ c[i] = b[i - m])
  BY <1>1
<1>3. \A i \in 1..m : i \in 1..(m + n)
  BY <1>1
<1>4. \A i \in 1..n : i + m \in 1..(m + n) /\ c[i + m] = b[i]
  <2> SUFFICES ASSUME NEW i \in 1..n
               PROVE  i + m \in 1..(m + n) /\ c[i + m] = b[i]
    OBVIOUS
  <2>1. i + m \in 1..(m + n) /\ i + m > m /\ (i + m) - m = i
    BY <1>1
  <2> QED
    BY <1>1, <2>1
<1>5. ASSUME NEW x
      PROVE  x \in Ahead(c) <=> x \in Ahead(a) \/ x \in Ahead(b)
  <2>1. x \in Ahead(c) <=> \E i \in 1..(m + n) : x \in Brings(c[i])
    BY <1>1, InAhead
  <2>2. x \in Ahead(a) <=> \E i \in 1..m : x \in Brings(a[i])
    BY InAhead DEF m
  <2>3. x \in Ahead(b) <=> \E i \in 1..n : x \in Brings(b[i])
    BY InAhead DEF n
  <2>4. x \in Ahead(c) => x \in Ahead(a) \/ x \in Ahead(b)
    BY <1>2, <2>1, <2>2, <2>3
  <2>5. x \in Ahead(a) => x \in Ahead(c)
    BY <1>1, <1>3, <2>1, <2>2
  <2>6. x \in Ahead(b) => x \in Ahead(c)
    BY <1>4, <2>1, <2>3
  <2> QED
    BY <2>4, <2>5, <2>6
<1>6. ASSUME Apart(a), Apart(b), Ahead(a) \cap Ahead(b) = {}
      PROVE  Apart(c)
  <2> SUFFICES ASSUME NEW i \in 1..(m + n), NEW k \in 1..(m + n), i # k,
                      NEW x \in Brings(c[i]), x \in Brings(c[k])
               PROVE  FALSE
    BY <1>1 DEF Apart
  <2>1. \A j \in 1..m : x \in Brings(a[j]) => x \in Ahead(a)
    BY InAhead DEF m
  <2>2. \A j \in 1..n : x \in Brings(b[j]) => x \in Ahead(b)
    BY InAhead DEF n
  <2>3. CASE i \in 1..m /\ c[i] = a[i] /\ k \in 1..m /\ c[k] = a[k]
    BY <1>6, <2>3 DEF Apart, m
  <2>4. CASE i - m \in 1..n /\ c[i] = b[i - m] /\ k - m \in 1..n /\ c[k] = b[k - m]
    <3>1. i - m # k - m
      BY <1>1
    <3> QED
      BY <1>6, <2>4, <3>1 DEF Apart, n
  <2>5. CASE i \in 1..m /\ c[i] = a[i] /\ k - m \in 1..n /\ c[k] = b[k - m]
    BY <1>6, <2>1, <2>2, <2>5
  <2>6. CASE i - m \in 1..n /\ c[i] = b[i - m] /\ k \in 1..m /\ c[k] = a[k]
    BY <1>6, <2>1, <2>2, <2>6
  <2> QED
    BY <1>2, <2>3, <2>4, <2>5, <2>6
<1>7. ASSUME NEW s, NEW i \in 1..(m + n), c[i] = s
      PROVE  (\E k \in 1..m : a[k] = s) \/ (\E k \in 1..n : b[k] = s)
  BY <1>2, <1>7
<1>8. Ahead(c) = Ahead(a) \cup Ahead(b)
  BY <1>5
<1> QED
  BY <1>1, <1>6, <1>7, <1>8 DEF c, m, n

\* One or two stages by themselves.
LEMMA AheadFew ==
    /\ \A s \in Stage : Ahead(<<s>>) = Brings(s) /\ Apart(<<s>>)
    /\ Ahead(<<"fri", "drvFri">>) = {"fri", "drvFri"} /\ Apart(<<"fri", "drvFri">>)
<1>1. ASSUME NEW s \in Stage
      PROVE  Ahead(<<s>>) = Brings(s) /\ Apart(<<s>>)
  <2>1. Len(<<s>>) = 1 /\ <<s>>[1] = s /\ \A i \in 1..1 : i = 1
    OBVIOUS
  <2> QED
    BY <2>1, InAhead DEF Apart
<1>2. Brings("fri") = {"fri"} /\ Brings("drvFri") = {"drvFri"}
  BY DEF Brings
<1>3. LET pair == <<"fri", "drvFri">>
      IN  /\ Len(pair) = 2 /\ pair[1] = "fri" /\ pair[2] = "drvFri"
          /\ \A i \in 1..2 : i = 1 \/ i = 2
          /\ 1 \in 1..2 /\ 2 \in 1..2
  OBVIOUS
<1>4. Ahead(<<"fri", "drvFri">>) = {"fri", "drvFri"}
  BY <1>2, <1>3, InAhead
<1>5. Apart(<<"fri", "drvFri">>)
  BY <1>2, <1>3 DEF Apart
<1> QED
  BY <1>1, <1>4, <1>5

\* The plan of a run leads to all the run may reach, and to no message twice.
LEMMA PlanReaches ==
    ASSUME NEW job \in RunJob
    PROVE  /\ Ahead(Plan(job)) \subseteq Reach(job) \cup {"header"}
           /\ Reach(job) \subseteq Ahead(Plan(job))
           /\ Apart(Plan(job))
           /\ ~\E i \in 1..Len(Plan(job)) : Plan(job)[i] = "drvWed"
           /\ Head(Plan(job)) \in JobStage => job = "wed"
           /\ job \in {"all", "both"} => "header" \in Ahead(Plan(job))
<1>0. /\ Brings("scan") = {} /\ Brings("warm") = {} /\ Brings("header") = {"header"}
      /\ Brings("felly") = {"wed", "drvWed", "fri", "drvFri"} /\ Brings("wed") = {"wed", "drvWed"}
      /\ Brings("fri") = {"fri"} /\ Brings("class") = {"class"} /\ Brings("sun") = {"sun"}
      /\ Brings("drvFri") = {"drvFri"} /\ Brings("drvSun") = {"drvSun"}
  BY DEF Brings
<1>1. CASE job = "all"
  <2>1. LET p == Plan("all")
        IN  /\ Len(p) = 9 /\ p[1] = "scan" /\ p[2] = "header" /\ p[3] = "fri" /\ p[4] = "class"
            /\ p[5] = "sun" /\ p[6] = "warm" /\ p[7] = "drvFri" /\ p[8] = "drvSun" /\ p[9] = "warm"
            /\ Head(p) = "scan"
    BY DEF Plan
  <2>2. \A i \in 1..9 : i \in {1, 2, 3, 4, 5, 6, 7, 8, 9}
    OBVIOUS
  <2>3. Reach("all") = {"fri", "sun", "class", "drvFri", "drvSun"}
    BY DEF Reach, JobStage, Announcement, DriverAsk
  <2>4. \A x : x \in Ahead(Plan("all")) <=> x \in {"header", "fri", "class", "sun", "drvFri", "drvSun"}
    BY <1>0, <2>1, <2>2, InAhead
  <2>5. Apart(Plan("all"))
    BY <1>0, <2>1, <2>2 DEF Apart
  <2> QED
    BY <1>1, <2>1, <2>2, <2>3, <2>4, <2>5 DEF JobStage, Announcement, DriverAsk
<1>2. CASE job = "wed"
  <2>1. LET p == Plan("wed") IN Len(p) = 1 /\ p[1] = "wed"
    BY DEF Plan
  <2>2. \A i \in 1..1 : i = 1
    OBVIOUS
  <2>3. Reach("wed") = {"wed", "drvWed"}
    BY DEF Reach
  <2>4. \A x : x \in Ahead(Plan("wed")) <=> x \in {"wed", "drvWed"}
    BY <1>0, <2>1, <2>2, InAhead
  <2>5. Apart(Plan("wed"))
    BY <1>0, <2>1, <2>2 DEF Apart
  <2> QED
    BY <1>2, <2>1, <2>2, <2>3, <2>4, <2>5
<1>3. CASE job = "fellowship"
  <2>1. LET p == Plan("fellowship")
        IN Len(p) = 3 /\ p[1] = "header" /\ p[2] = "felly" /\ p[3] = "warm" /\ Head(p) = "header"
    BY DEF Plan
  <2>2. \A i \in 1..3 : i \in {1, 2, 3}
    OBVIOUS
  <2>3. Reach("fellowship") = {"wed", "drvWed", "fri", "drvFri"}
    BY DEF Reach
  <2>4. \A x : x \in Ahead(Plan("fellowship"))
                  <=> x \in {"header", "wed", "drvWed", "fri", "drvFri"}
    BY <1>0, <2>1, <2>2, InAhead
  <2>5. Apart(Plan("fellowship"))
    BY <1>0, <2>1, <2>2 DEF Apart
  <2> QED
    BY <1>3, <2>1, <2>2, <2>3, <2>4, <2>5 DEF JobStage, Announcement, DriverAsk
<1>4. CASE job = "sunday"
  <2>1. LET p == Plan("sunday")
        IN  /\ Len(p) = 5 /\ p[1] = "header" /\ p[2] = "class" /\ p[3] = "sun"
            /\ p[4] = "drvSun" /\ p[5] = "warm" /\ Head(p) = "header"
    BY DEF Plan
  <2>2. \A i \in 1..5 : i \in {1, 2, 3, 4, 5}
    OBVIOUS
  <2>3. Reach("sunday") = {"sun", "class", "drvSun"}
    BY DEF Reach
  <2>4. \A x : x \in Ahead(Plan("sunday")) <=> x \in {"header", "sun", "class", "drvSun"}
    BY <1>0, <2>1, <2>2, InAhead
  <2>5. Apart(Plan("sunday"))
    BY <1>0, <2>1, <2>2 DEF Apart
  <2> QED
    BY <1>4, <2>1, <2>2, <2>3, <2>4, <2>5 DEF JobStage, Announcement, DriverAsk
<1>5. CASE job = "both"
  <2>1. LET p == Plan("both")
        IN  /\ Len(p) = 6 /\ p[1] = "header" /\ p[2] = "felly" /\ p[3] = "class"
            /\ p[4] = "sun" /\ p[5] = "drvSun" /\ p[6] = "warm" /\ Head(p) = "header"
    BY DEF Plan
  <2>2. \A i \in 1..6 : i \in {1, 2, 3, 4, 5, 6}
    OBVIOUS
  <2>3. Reach("both") = {"wed", "fri", "sun", "class", "drvWed", "drvFri", "drvSun"}
    BY DEF Reach, JobStage, Announcement, DriverAsk
  <2>4. \A x : x \in Ahead(Plan("both"))
                  <=> x \in {"header", "wed", "drvWed", "fri", "drvFri", "sun", "class", "drvSun"}
    BY <1>0, <2>1, <2>2, InAhead
  <2>5. Apart(Plan("both"))
    BY <1>0, <2>1, <2>2 DEF Apart
  <2> QED
    BY <1>5, <2>1, <2>2, <2>3, <2>4, <2>5 DEF JobStage, Announcement, DriverAsk
<1> QED
  BY <1>1, <1>2, <1>3, <1>4, <1>5 DEF RunJob

(***************************************************************************)
(* What is due.                                                            *)
(***************************************************************************)
\* A send day is at most six days before its event, on the weekday asked for.
LEMMA SendDayWithin ==
    ASSUME NEW e \in Nat, NEW s \in 0..6
    PROVE  /\ SendDayBefore(e, s) \in Int
           /\ SendDayBefore(e, s) <= e
           /\ (e - SendDayBefore(e, s)) \in 0..6
           /\ SendDayBefore(e, s) % 7 = s
  BY SMTT(30) DEF SendDayBefore

\* Two days on one weekday, the one before the other, are a week apart.
LEMMA WeekApart ==
    ASSUME NEW x \in Int, NEW y \in Nat, x % 7 = y % 7, x > y
    PROVE  x >= y + 7
  BY SMTT(30)

\* An announcement and its driver request share a job; their slot is the one a
\* scheduled run of that message fires in.
LEMMA SlotOfReach ==
    ASSUME NEW job \in Scheduled, NEW s \in Reach(job)
    PROVE  JobSlot(PauseJob(s)) = ScheduledSlot(job)
  BY DEF Scheduled, Reach, JobStage, Announcement, DriverAsk, JobSlot, PauseJob, ScheduledSlot

\* No slot sends on the weekday of an event it announces.
LEMMA SendsBefore ==
    ASSUME TypeOK, NEW j \in Job
    PROVE  sched[JobSlot(j)] \in 0..6 /\ sched[JobSlot(j)] # Weekday(j)
<1>1. sched["reminder"] \in 0..1 /\ sched["group"] \in 0..3
  BY DEF TypeOK, Slot, AllowedDays
<1> QED
  BY <1>1 DEF Job, JobSlot, Weekday

\* As long as the settings are predictable, the pause check with the configured
\* send day says what the coordinator's pause means for the next event.
LEMMA CheckAgrees ==
    ASSUME IInv, NEW job \in RunJob, Predictable(job), NEW j \in Job,
           job \in Scheduled => JobSlot(j) = ScheduledSlot(job), NEW off \in HostOffsets
    PROVE  IsJobPaused(pause[j], sched[JobSlot(j)], day + off)
              <=> Covers(wanted[j], NextEvent(Weekday(j), day))
<1> DEFINE s == sched[JobSlot(j)]
           e == NextEvent(Weekday(j), day)
           f == wanted[j].resume
<1>1. /\ TypeOK /\ day \in Nat /\ pause[j] \in Pause /\ wanted[j] \in Pause
      /\ day + off \in Nat /\ day + off <= day + 1 /\ day <= day + off
  <2>1. TypeOK
    BY DEF IInv
  <2> QED
    BY <2>1, HostDay, HostAssumption DEF TypeOK
<1>2. s \in 0..6 /\ s # Weekday(j) /\ Weekday(j) \in 0..6
  BY <1>1, SendsBefore, JobFacts
<1>3. /\ e \in Nat /\ day < e /\ e <= day + 7 /\ e % 7 = Weekday(j)
  BY <1>1, <1>2, NextEventWithin
<1>4. f \in Nat /\ pause[j].paused \in BOOLEAN /\ wanted[j].paused \in BOOLEAN
  BY <1>1 DEF Pause
<1>5. IsJobPaused(pause[j], s, day + off) \/ ~Covers(wanted[j], e)
  BY <1>1, <1>2, PassedCheck DEF Predictable, Lost
<1>6. ASSUME IsJobPaused(pause[j], s, day + off)
      PROVE  Covers(wanted[j], e)
  <2>1. pause[j] = wanted[j] /\ wanted[j].paused
    BY <1>6 DEF IInv, ClearedInTime, IsJobPaused, NotPaused
  <2>2. CASE f = 0
    BY <2>1, <2>2 DEF Covers
  <2>3. CASE f # 0
    <3>1. /\ SendDayBefore(f, s) \in Int /\ SendDayBefore(f, s) <= f
          /\ SendDayBefore(f, s) % 7 = s
      BY <1>2, <1>4, SendDayWithin
    <3>2. day < SendDayBefore(f, s)
      <4>1. day + off < SendDayBefore(f, s)
        BY <1>6, <2>1, <2>3 DEF IsJobPaused
      <4> QED
        BY <1>1, <3>1, <4>1
    <3>3. CASE job \in Scheduled /\ day % 7 = sched[ScheduledSlot(job)]
      <4>1. day % 7 = s
        BY <3>3
      <4>2. SendDayBefore(f, s) >= day + 7
        BY <1>1, <3>1, <3>2, <4>1, WeekApart
      <4>3. e # day + 7
        <5>1. (day + 7) % 7 = day % 7
          BY <1>1, SMTT(30)
        <5> QED
          BY <1>2, <1>3, <4>1, <5>1
      <4>4. e < f
        BY <1>1, <1>3, <1>4, <3>1, <4>2, <4>3
      <4> QED
        BY <2>1, <4>4 DEF Covers
    <3>4. CASE \A i \in Job : Settled(i)
      <4>1. Settled(j)
        BY <3>4
      <4>2. e < f
        BY <1>1, <2>1, <2>3, <3>1, <3>2, <4>1 DEF Settled
      <4> QED
        BY <2>1, <4>2 DEF Covers
    <3> QED
      BY <3>3, <3>4 DEF Predictable
  <2> QED
    BY <2>2, <2>3
<1> QED
  BY <1>5, <1>6

LEMMA ReachIs ==
    ASSUME NEW job \in RunJob
    PROVE  /\ Reach(job) \subseteq JobStage /\ "header" \notin JobStage
           /\ "wed" \in Reach(job) <=> "drvWed" \in Reach(job)
  BY DEF RunJob, Reach, JobStage, Announcement, DriverAsk

\* A message that ought not to go out is not due, nor is one that follows it.
LEMMA NotDue ==
    ASSUME NEW job \in RunJob, NEW s \in JobStage, ~Ought(s)
    PROVE  Due(job) \cap Brings(s) = {}
<1>1. CASE s = "wed"
  BY <1>1, BringsIs DEF Due
<1>2. CASE s # "wed"
  <2>1. Brings(s) = {s}
    BY <1>2, BringsIs
  <2>2. s \notin Due(job)
    BY DEF Due
  <2> QED
    BY <2>1, <2>2
<1> QED
  BY <1>1, <1>2

LEMMA IsDue ==
    ASSUME NEW s, NEW job \in RunJob, s \in Reach(job), Ought(s), s = "drvWed" => Ought("wed")
    PROVE  s \in Due(job)
  BY DEF Due

\* As long as nobody changes the settings, what ought to go out stays the same.
LEMMA SameSettings ==
    ASSUME UNCHANGED <<day, season, flags, wanted, raced, sched>>
    PROVE  /\ \A s \in JobStage : Ought(s)' <=> Ought(s)
           /\ \A s \in JobStage : InSeason(s)' <=> InSeason(s)
           /\ \A s \in JobStage : Held(s, day)' <=> Held(s, day)
           /\ \A job \in RunJob : Due(job)' = Due(job)
           /\ \A job \in RunJob : Predictable(job)' <=> Predictable(job)
<1>1. \A s \in JobStage : InSeason(s)' <=> InSeason(s)
  BY DEF InSeason
<1>2. \A s \in JobStage : Held(s, day)' <=> Held(s, day)
  BY DEF Held
<1>3. \A s \in JobStage : Ought(s)' <=> Ought(s)
  BY <1>1, <1>2 DEF Ought
<1>4. \A job \in RunJob : Due(job)' = Due(job)
  <2> SUFFICES ASSUME NEW job \in RunJob
               PROVE  Due(job)' = Due(job)
    OBVIOUS
  <2>1. \A s \in Reach(job) : s \in JobStage /\ "wed" \in JobStage
    BY ReachIs DEF JobStage, Announcement
  <2>2. \A s : s \in Due(job)' <=> s \in Reach(job) /\ Ought(s)' /\ (s = "drvWed" => Ought("wed")')
    BY DEF Due
  <2>3. \A s : s \in Due(job) <=> s \in Reach(job) /\ Ought(s) /\ (s = "drvWed" => Ought("wed"))
    BY DEF Due
  <2>4. \A s : s \in Due(job)' <=> s \in Due(job)
    BY <1>3, <2>1, <2>2, <2>3
  <2> QED
    BY <2>4
<1>5. \A job \in RunJob : Predictable(job)' <=> Predictable(job)
  <2>1. \A j \in Job : Settled(j)' <=> Settled(j)
    BY DEF Settled
  <2> QED
    BY <2>1 DEF Predictable
<1> QED
  BY <1>1, <1>2, <1>3, <1>4, <1>5

\* A message adds its kind to those of its run.
LEMMA KindsAfter ==
    ASSUME NEW q, NEW kind, NEW event, PostMessage(q, kind, event), NEW r
    PROVE  KindsOf(r)' = IF r = q THEN KindsOf(r) \cup {kind} ELSE KindsOf(r)
<1>1. PICK new : posts' = posts \cup {new} /\ new.run = q /\ new.kind = kind
  <2> DEFINE sent == [run |-> q, kind |-> kind, day |-> day, event |-> event,
                      worded |-> kind \in worded]
  <2>1. sent.run = q /\ sent.kind = kind
    BY Zenon
  <2>2. posts' = posts \cup {sent}
    BY DEF PostMessage
  <2> HIDE DEF sent
  <2> QED
    BY <2>1, <2>2
<1>2. KindsOf(r)' = {p.kind : p \in {m \in posts \cup {new} : m.run = r}}
  BY <1>1 DEF KindsOf
<1>3. \A k : k \in KindsOf(r)' <=> \E p \in posts \cup {new} : p.run = r /\ p.kind = k
  BY <1>2
<1>4. \A k : k \in KindsOf(r) <=> \E p \in posts : p.run = r /\ p.kind = k
  BY DEF KindsOf
<1>5. \A k : k \in KindsOf(r)' <=> k \in KindsOf(r) \/ (r = q /\ k = kind)
  BY <1>1, <1>3, <1>4
<1> QED
  BY <1>5

LEMMA KindsSame ==
    ASSUME UNCHANGED posts, NEW r
    PROVE  KindsOf(r)' = KindsOf(r)
  BY DEF KindsOf

(***************************************************************************)
(* Every step of a calm run keeps its promise.                             *)
(***************************************************************************)
LEMMA CalmFacts ==
    ASSUME PInv, NEW r \in RunId, Calm(r)
    PROVE  LET s == Head(runs[r].todo)
               job == runs[r].job
           IN  /\ TypeOK /\ Busy /\ IInv /\ Active(r) /\ runs[r] \in Run
               /\ runs \in [RunId -> Run] /\ runs[r].calm /\ runs[r].st = "active"
               /\ runs[r].todo # <<>> /\ runs[r].todo \in Seq(Stage)
               /\ s \in Stage /\ Rest(r) \in Seq(Stage)
               /\ Ahead(runs[r].todo) = Brings(s) \cup Ahead(Rest(r))
               /\ Brings(s) \cap Ahead(Rest(r)) = {} /\ Apart(Rest(r))
               /\ (\E i \in 1..Len(Rest(r)) : Rest(r)[i] = "drvWed") => Ought("wed")
               /\ s = "drvWed" => Ought("wed")
               /\ AsStarted(r) /\ InReach(r) /\ GatesHold(r) /\ PostedSoFar(r)
               /\ HeaderOnce(r) /\ HeaderSaid(r) /\ HeaderRead(r)
               /\ job \in RunJob /\ runs[r].due = Due(job) /\ runs[r].touched = {}
               /\ s \in JobStage => s \in Reach(job)
<1>1. /\ TypeOK /\ Busy /\ IInv /\ Active(r) /\ runs[r] \in Run
      /\ runs \in [RunId -> Run] /\ runs[r].calm /\ runs[r].st = "active"
  BY DEF PInv, DInv, IInv, TypeOK, Calm, Active
<1>2. /\ AsStarted(r) /\ InReach(r) /\ GatesHold(r) /\ PostedSoFar(r)
      /\ HeaderOnce(r) /\ HeaderSaid(r) /\ HeaderRead(r)
  BY <1>1 DEF PInv, Promised
<1>3. /\ runs[r].todo # <<>> /\ runs[r].todo \in Seq(Stage)
      /\ Head(runs[r].todo) \in Stage /\ Rest(r) \in Seq(Stage)
  BY <1>1, RestType
<1>4. /\ Ahead(runs[r].todo) = Brings(Head(runs[r].todo)) \cup Ahead(Rest(r))
      /\ Brings(Head(runs[r].todo)) \cap Ahead(Rest(r)) = {} /\ Apart(Rest(r))
      /\ (\E i \in 1..Len(Rest(r)) : Rest(r)[i] = "drvWed")
            => \E i \in 1..Len(runs[r].todo) : runs[r].todo[i] = "drvWed"
  BY <1>2, <1>3, AheadTail DEF Rest, InReach
<1>5. Head(runs[r].todo) = "drvWed" => Ought("wed")
  <2>1. Head(runs[r].todo) = runs[r].todo[1] /\ 1 \in 1..Len(runs[r].todo)
    BY <1>3
  <2> QED
    BY <1>2, <2>1 DEF InReach
<1>6. Head(runs[r].todo) \in JobStage => Head(runs[r].todo) \in Reach(runs[r].job)
  BY <1>2, <1>4, BringsIs, ReachIs DEF InReach, AsStarted
<1> QED
  BY <1>1, <1>2, <1>3, <1>4, <1>5, <1>6 DEF InReach, AsStarted

\* A calm run goes on to its next stages, of what was due having posted all that
\* is not ahead of it.
LEMMA GoesOn ==
    ASSUME PInv, NEW r \in RunId, Calm(r), UNCHANGED <<day, season, flags, wanted, raced, sched>>,
           NEW rest \in Seq(Stage), Set(r, Continue(r, rest)),
           Ahead(rest) \subseteq Ahead(runs[r].todo), Apart(rest),
           (\E i \in 1..Len(rest) : rest[i] = "drvWed") => Ought("wed"),
           KindsOf(r)' \cap JobStage = runs[r].due \ Ahead(rest),
           "header" \in Ahead(rest) => KindsOf(r)' \cap Header = {},
           FridayRun(r) /\ "header" \notin Ahead(rest) =>
              /\ ("headerWeek" \in KindsOf(r)') <=> ("fri" \in runs[r].due)
              /\ (KindsOf(r)' \cap Header # {}) <=> (runs[r].due \cap Announcement # {})
    PROVE  Promised(r)' /\ HeaderSaid(r)'
<1> DEFINE new == Continue(r, rest)
<1>1. runs'[r] = new
  BY CalmFacts DEF Set
<1>2. /\ Keeps(runs[r], new) /\ new.todo = rest /\ new.at = "gate"
      /\ new.calm = runs[r].calm /\ new.touched = runs[r].touched
      /\ new.st = IF rest = <<>> THEN "done" ELSE "active"
  BY CalmFacts, ContinueKeeps
<1> HIDE DEF new
<1>3. /\ runs'[r].job = runs[r].job /\ runs'[r].due = runs[r].due
      /\ runs'[r].todo = rest /\ runs'[r].at = "gate" /\ runs'[r].touched = {}
      /\ runs'[r].st = "done" => rest = <<>>
  BY <1>1, <1>2, CalmFacts DEF Keeps
<1>4. AsStarted(r)'
  BY <1>3, CalmFacts, SameSettings DEF AsStarted
<1>5. InReach(r)'
  <2>1. Ought("wed")' <=> Ought("wed")
    BY SameSettings DEF JobStage, Announcement
  <2> QED
    BY <1>3, <2>1, CalmFacts DEF InReach
<1>6. GatesHold(r)'
  BY <1>3 DEF GatesHold
<1>7. PostedSoFar(r)'
  BY <1>3 DEF PostedSoFar
<1>8. HeaderOnce(r)' /\ HeaderRead(r)'
  BY <1>3 DEF HeaderOnce, HeaderRead
<1>9. HeaderSaid(r)'
  BY <1>3 DEF HeaderSaid, FridayRun, HeaderFits
<1> QED
  BY <1>3, <1>4, <1>5, <1>6, <1>7, <1>8, <1>9 DEF Promised

\* A calm run comes to its next await within a stage.
LEMMA StaysOn ==
    ASSUME PInv, NEW r \in RunId, Calm(r), UNCHANGED <<day, season, flags, wanted, raced, sched>>,
           NEW new, Set(r, new), new.job = runs[r].job, new.due = runs[r].due,
           new.touched = runs[r].touched, new.todo = runs[r].todo, new.st = "active",
           KindsOf(r)' \cap JobStage = KindsOf(r) \cap JobStage,
           KindsOf(r)' \cap Header = KindsOf(r) \cap Header,
           GatesHold(r)', HeaderRead(r)'
    PROVE  Promised(r)' /\ HeaderSaid(r)'
<1>1. runs'[r] = new
  BY CalmFacts DEF Set
<1>2. AsStarted(r)'
  BY <1>1, CalmFacts, SameSettings DEF AsStarted
<1>3. InReach(r)'
  <2>1. Ought("wed")' <=> Ought("wed")
    BY SameSettings DEF JobStage, Announcement
  <2> QED
    BY <1>1, <2>1, CalmFacts DEF InReach
<1>4. PostedSoFar(r)'
  BY <1>1, CalmFacts DEF PostedSoFar
<1>5. HeaderOnce(r)'
  BY <1>1, CalmFacts DEF HeaderOnce
<1>6. HeaderSaid(r)'
  <2>1. "headerWeek" \in KindsOf(r)' <=> "headerWeek" \in KindsOf(r)
    BY DEF Header
  <2>2. HeaderSaid(r)
    BY CalmFacts
  <2> QED
    BY <1>1, <2>1, <2>2 DEF HeaderSaid, FridayRun, HeaderFits
<1> QED
  BY <1>1, <1>2, <1>3, <1>4, <1>5, <1>6 DEF Promised

\* A calm run leaves a stage without a message, none being due.
LEMMA Skips ==
    ASSUME PInv, NEW r \in RunId, Calm(r), UNCHANGED <<day, season, flags, wanted, raced, sched>>,
           Set(r, Continue(r, Rest(r))),
           KindsOf(r)' \cap JobStage = KindsOf(r) \cap JobStage,
           KindsOf(r)' \cap Header = KindsOf(r) \cap Header,
           "header" \notin Brings(Head(runs[r].todo)),
           runs[r].due \cap Brings(Head(runs[r].todo)) = {}
    PROVE  Promised(r)' /\ HeaderSaid(r)'
<1>1. KindsOf(r)' \cap JobStage = runs[r].due \ Ahead(Rest(r))
  BY CalmFacts DEF PostedSoFar
<1>2. "header" \in Ahead(Rest(r)) <=> "header" \in Ahead(runs[r].todo)
  BY CalmFacts
<1>3. "header" \in Ahead(Rest(r)) => KindsOf(r)' \cap Header = {}
  BY <1>2, CalmFacts DEF HeaderOnce
<1>4. FridayRun(r) /\ "header" \notin Ahead(Rest(r)) =>
              /\ ("headerWeek" \in KindsOf(r)') <=> ("fri" \in runs[r].due)
              /\ (KindsOf(r)' \cap Header # {}) <=> (runs[r].due \cap Announcement # {})
  <2>1. "headerWeek" \in KindsOf(r)' <=> "headerWeek" \in KindsOf(r)
    BY DEF Header
  <2> QED
    BY <1>2, <2>1, CalmFacts DEF HeaderSaid, HeaderFits
<1>5. Ahead(Rest(r)) \subseteq Ahead(runs[r].todo)
  BY CalmFacts
<1> QED
  BY <1>1, <1>3, <1>4, <1>5, CalmFacts, GoesOn

\* A calm run posts the message of its stage, which was due.
LEMMA Delivers ==
    ASSUME PInv, NEW r \in RunId, Calm(r), UNCHANGED <<day, season, flags, wanted, raced, sched>>,
           NEW rest \in Seq(Stage), Set(r, Continue(r, rest)),
           Head(runs[r].todo) \in JobStage, Head(runs[r].todo) \in runs[r].due,
           KindsOf(r)' = KindsOf(r) \cup {Head(runs[r].todo)},
           \/ Head(runs[r].todo) # "wed" /\ rest = Rest(r)
           \/ Head(runs[r].todo) = "wed" /\ rest = <<"drvWed">> \o Rest(r) /\ Ought("wed")
    PROVE  Promised(r)' /\ HeaderSaid(r)'
<1> DEFINE s == Head(runs[r].todo)
<1>0. /\ s \notin Header /\ s # "header" /\ s \in Brings(s) /\ "header" \notin Brings(s)
      /\ s # "wed" => Brings(s) = {s}
  BY BringsIs DEF JobStage, Announcement, DriverAsk, Header
<1>1. /\ Ahead(rest) = Ahead(Rest(r)) \cup (IF s = "wed" THEN {"drvWed"} ELSE {})
      /\ Apart(rest)
      /\ (\E i \in 1..Len(rest) : rest[i] = "drvWed") => Ought("wed")
  <2>1. CASE s # "wed"
    BY <2>1, CalmFacts
  <2>2. CASE s = "wed"
    <3>1. "drvWed" \in Stage /\ <<"drvWed">> \in Seq(Stage)
      BY DEF Stage, JobStage, DriverAsk
    <3>2. Ahead(<<"drvWed">>) = {"drvWed"} /\ Apart(<<"drvWed">>)
      <4>1. Brings("drvWed") = {"drvWed"}
        BY BringsIs DEF JobStage, DriverAsk
      <4> QED
        BY <3>1, <4>1, AheadFew
    <3>3. "drvWed" \notin Ahead(Rest(r))
      BY <2>2, CalmFacts, BringsIs
    <3>4. Rest(r) \in Seq(Stage) /\ Apart(Rest(r))
      BY CalmFacts
    <3>5. Ahead(rest) = {"drvWed"} \cup Ahead(Rest(r)) /\ Apart(rest)
      <4>1. PICK d \in Seq(Stage) : d = <<"drvWed">> /\ Ahead(d) = {"drvWed"} /\ Apart(d)
        BY <3>1, <3>2
      <4>2. rest = d \o Rest(r)
        BY <2>2, <4>1
      <4>3. Ahead(d) \cap Ahead(Rest(r)) = {}
        BY <3>3, <4>1
      <4> QED
        BY <3>4, <4>1, <4>2, <4>3, AheadConcat
    <3> QED
      BY <2>2, <3>5
  <2> QED
    BY <2>1, <2>2
<1>2. Ahead(rest) \subseteq Ahead(runs[r].todo)
  BY <1>1, CalmFacts, BringsIs
<1>3. KindsOf(r)' \cap JobStage = runs[r].due \ Ahead(rest)
  <2>1. KindsOf(r) \cap JobStage = runs[r].due \ (Brings(s) \cup Ahead(Rest(r)))
    BY CalmFacts DEF PostedSoFar
  <2>2. s \notin Ahead(Rest(r))
    BY <1>0, CalmFacts
  <2>3. CASE s # "wed"
    BY <1>0, <1>1, <2>1, <2>2, <2>3
  <2>4. CASE s = "wed"
    BY <1>0, <1>1, <2>1, <2>2, <2>4, BringsIs
  <2> QED
    BY <2>3, <2>4
<1>4. "header" \in Ahead(rest) <=> "header" \in Ahead(runs[r].todo)
  BY <1>0, <1>1, CalmFacts
<1>5. KindsOf(r)' \cap Header = KindsOf(r) \cap Header
      /\ ("headerWeek" \in KindsOf(r)' <=> "headerWeek" \in KindsOf(r))
  BY <1>0 DEF Header
<1>6. "header" \in Ahead(rest) => KindsOf(r)' \cap Header = {}
  BY <1>4, <1>5, CalmFacts DEF HeaderOnce
<1>7. FridayRun(r) /\ "header" \notin Ahead(rest) =>
              /\ ("headerWeek" \in KindsOf(r)') <=> ("fri" \in runs[r].due)
              /\ (KindsOf(r)' \cap Header # {}) <=> (runs[r].due \cap Announcement # {})
  BY <1>4, <1>5, CalmFacts DEF HeaderSaid, HeaderFits
<1> QED
  BY <1>1, <1>2, <1>3, <1>6, <1>7, GoesOn

\* What a message of the stage a run has come to needs, to be due.
LEMMA PassedIsDue ==
    ASSUME PInv, NEW r \in RunId, Calm(r), Head(runs[r].todo) \in JobStage,
           runs[r].at \in {"ping", "post"},
           CalendarAllows(Head(runs[r].todo), EventOf(Head(runs[r].todo), day))
    PROVE  Ought(Head(runs[r].todo)) /\ Head(runs[r].todo) \in runs[r].due
<1> DEFINE s == Head(runs[r].todo)
<1>1. s \in flags /\ InSeason(s)
  BY CalmFacts DEF GatesHold
<1>2. ~Held(s, day)
  <2>1. LetThrough(r, s)
    BY CalmFacts, CheckedFirstDef DEF AboutToPost, IInv
  <2>2. ~Lost(PauseJob(s))
    BY CalmFacts DEF AsStarted, Predictable, Lost
  <2> QED
    BY <2>1, <2>2, CalmFacts DEF LetThrough, Held
<1>3. Ought(s)
  BY <1>1, <1>2 DEF Ought
<1> QED
  BY <1>3, CalmFacts, IsDue

\* The fields a run keeps while it stays within a stage.
LEMMA CalmScan ==
    ASSUME PInv, NEW r \in RunId, Scan(r), Calm(r), runs'[r].calm,
           runs'[r].st \in {"active", "done"}
    PROVE  Promised(r)' /\ HeaderSaid(r)'
<1>0. /\ runs[r] \in Run /\ runs \in [RunId -> Run] /\ TypeOK /\ Rest(r) \in Seq(Stage)
      /\ Head(runs[r].todo) = "scan" /\ UNCHANGED <<day, season, flags, wanted, raced, sched, posts>>
  BY CalmFacts DEF Scan, AtStage, Ready, settings
<1>1. ~Set(r, Stop(r, "skipped"))
  BY <1>0, StopKeeps DEF Set
<1>2. ~Set(r, [Faulty(Continue(r, Rest(r))) EXCEPT !.scanFailed = TRUE])
  <2>1. PICK c : c = Faulty(Continue(r, Rest(r))) /\ c \in Run /\ ~c.calm
    BY <1>0, ContinueKeeps, FaultyKeeps DEF Keeps
  <2>2. ~[c EXCEPT !.scanFailed = TRUE].calm
    BY <2>1 DEF Run
  <2> QED
    BY <1>0, <2>1, <2>2 DEF Set
<1>3. Set(r, Continue(r, Rest(r)))
  BY <1>1, <1>2 DEF Scan
<1>4. Brings("scan") = {}
  BY BringsIs
<1> QED
  BY <1>0, <1>3, <1>4, KindsSame, Skips

\* Nothing to post, or nothing due: the run goes on.
LEMMA CalmWarm ==
    ASSUME PInv, NEW r \in RunId, Warm(r), Calm(r)
    PROVE  Promised(r)' /\ HeaderSaid(r)'
<1>1. /\ Set(r, Continue(r, Rest(r))) /\ Head(runs[r].todo) = "warm"
      /\ UNCHANGED <<day, season, flags, wanted, raced, sched, posts>>
  BY DEF Warm, AtStage, Ready, settings
<1>2. Brings("warm") = {}
  BY BringsIs
<1> QED
  BY <1>1, <1>2, KindsSame, Skips

LEMMA SkipsStage ==
    ASSUME PInv, NEW r \in RunId, Calm(r),
           UNCHANGED <<day, season, flags, wanted, raced, sched, posts>>,
           Set(r, Continue(r, Rest(r))),
           Head(runs[r].todo) \in JobStage, ~Ought(Head(runs[r].todo))
    PROVE  Promised(r)' /\ HeaderSaid(r)'
<1>1. runs[r].due \cap Brings(Head(runs[r].todo)) = {}
  BY CalmFacts, NotDue
<1>2. "header" \notin Brings(Head(runs[r].todo))
  BY BringsIs DEF JobStage, Announcement, DriverAsk
<1> QED
  BY <1>1, <1>2, KindsSame, Skips

LEMMA CalmGate ==
    ASSUME PInv, NEW r \in RunId, Gate(r), Calm(r)
    PROVE  Promised(r)' /\ HeaderSaid(r)'
<1> PICK s : s = Head(runs[r].todo)
  OBVIOUS
<1> DEFINE new == [runs[r] EXCEPT !.at = "pause", !.sendDay = sched[JobSlot(PauseJob(s))]]
<1>0. /\ s \in JobStage /\ runs[r] \in Run /\ runs \in [RunId -> Run]
      /\ runs[r].st = "active"
      /\ UNCHANGED <<day, season, flags, wanted, raced, sched, posts>>
  BY CalmFacts DEF Gate, AtJob, Ready, settings
<1>1. CASE ~(s \in flags /\ InSeason(s))
  <2>1. Set(r, Continue(r, Rest(r))) /\ ~Ought(s)
    BY <1>1 DEF Gate, Ought
  <2> QED
    BY <1>0, <2>1, SkipsStage
<1>2. CASE s \in flags /\ InSeason(s)
  <2>1. Set(r, new)
    BY <1>2 DEF Gate
  <2>2. /\ new.job = runs[r].job /\ new.due = runs[r].due /\ new.touched = runs[r].touched
        /\ new.todo = runs[r].todo /\ new.st = "active" /\ new.at = "pause"
        /\ new.sendDay = sched[JobSlot(PauseJob(s))]
    BY <1>0 DEF Run
  <2>3. runs'[r] = new
    BY <1>0, <2>1 DEF Set
  <2> HIDE DEF new
  <2>4. GatesHold(r)'
    <3>1. InSeason(s)' <=> InSeason(s)
      BY <1>0, SameSettings
    <3>2. Head(runs'[r].todo) = s /\ runs'[r].sendDay = sched'[JobSlot(PauseJob(s))]
      BY <1>0, <2>2, <2>3
    <3> QED
      BY <1>0, <1>2, <2>3, <3>1, <3>2 DEF GatesHold
  <2>5. HeaderRead(r)'
    BY <2>2, <2>3 DEF HeaderRead
  <2> QED
    BY <1>0, <2>1, <2>2, <2>4, <2>5, KindsSame, StaysOn
<1> QED
  BY <1>1, <1>2

LEMMA CalmCheckPause ==
    ASSUME PInv, NEW r \in RunId, CheckPause(r), Calm(r)
    PROVE  Promised(r)' /\ HeaderSaid(r)'
<1> PICK s : s = Head(runs[r].todo)
  OBVIOUS
<1> DEFINE j == PauseJob(s)
<1>0. /\ s \in JobStage /\ j \in Job /\ runs[r] \in Run /\ runs \in [RunId -> Run]
      /\ runs[r].st = "active" /\ runs[r].at = "pause" /\ IInv
      /\ UNCHANGED <<day, season, flags, wanted, raced, sched, posts>>
  BY CalmFacts, JobFacts DEF CheckPause, AtJob, Ready, settings
<1>1. /\ s \in flags /\ InSeason(s) /\ runs[r].sendDay = sched[JobSlot(j)]
  BY <1>0, CalmFacts DEF GatesHold
<1>2. PICK off \in HostOffsets :
        \/ /\ IsJobPaused(pause[j], runs[r].sendDay, day + off)
           /\ Set(r, Continue(r, Rest(r)))
        \/ /\ ~IsJobPaused(pause[j], runs[r].sendDay, day + off)
           /\ \E c : Set(r, [runs[r] EXCEPT !.at = IF s = "wed" THEN "ping" ELSE "post",
                                            !.clearing = c])
  BY DEF CheckPause
<1>3. IsJobPaused(pause[j], sched[JobSlot(j)], day + off) <=> Held(s, day)
  <2>1. runs[r].job \in RunJob /\ Predictable(runs[r].job) /\ s \in Reach(runs[r].job)
    BY <1>0, CalmFacts DEF AsStarted
  <2>2. runs[r].job \in Scheduled => JobSlot(j) = ScheduledSlot(runs[r].job)
    BY <2>1, SlotOfReach
  <2>3. IsJobPaused(pause[j], sched[JobSlot(j)], day + off)
           <=> Covers(wanted[j], NextEvent(Weekday(j), day))
    BY <1>0, <2>1, <2>2, CheckAgrees
  <2> QED
    BY <2>3 DEF Held, EventOf
<1>4. CASE IsJobPaused(pause[j], runs[r].sendDay, day + off) /\ Set(r, Continue(r, Rest(r)))
  <2>1. ~Ought(s)
    BY <1>1, <1>3, <1>4 DEF Ought
  <2> QED
    BY <1>0, <1>4, <2>1, SkipsStage
<1>5. ASSUME NEW c, Set(r, [runs[r] EXCEPT !.at = IF s = "wed" THEN "ping" ELSE "post",
                                            !.clearing = c])
      PROVE  Promised(r)' /\ HeaderSaid(r)'
  <2> DEFINE new == [runs[r] EXCEPT !.at = IF s = "wed" THEN "ping" ELSE "post",
                                    !.clearing = c]
  <2>1. /\ new.job = runs[r].job /\ new.due = runs[r].due /\ new.touched = runs[r].touched
        /\ new.todo = runs[r].todo /\ new.st = "active" /\ new.at \in {"ping", "post"}
    BY <1>0 DEF Run
  <2>2. runs'[r] = new /\ Set(r, new)
    BY <1>0, <1>5 DEF Set
  <2> HIDE DEF new
  <2>3. GatesHold(r)'
    <3>1. InSeason(s)' <=> InSeason(s)
      BY <1>0, SameSettings
    <3> QED
      BY <1>0, <1>1, <2>1, <2>2, <3>1 DEF GatesHold
  <2>4. HeaderRead(r)'
    <3>1. "header" \notin JobStage
      BY DEF JobStage, Announcement, DriverAsk
    <3> QED
      BY <1>0, <2>1, <2>2, <3>1 DEF HeaderRead
  <2> QED
    BY <1>0, <2>1, <2>2, <2>3, <2>4, KindsSame, StaysOn
<1> QED
  BY <1>2, <1>4, <1>5

\* Clearing a row that is over leaves the run where it stands.
LEMMA CalmClearOver ==
    ASSUME PInv, NEW r \in RunId, ClearOver(r), Calm(r)
    PROVE  Promised(r)' /\ HeaderSaid(r)'
<1>1. PICK c : Set(r, [runs[r] EXCEPT !.clearing = c])
  BY DEF ClearOver
<1> DEFINE new == [runs[r] EXCEPT !.clearing = c]
<1>2. /\ runs[r] \in Run /\ runs \in [RunId -> Run] /\ runs[r].st = "active"
      /\ UNCHANGED <<day, season, flags, wanted, raced, sched, posts>>
  BY CalmFacts DEF ClearOver, settings
<1>3. /\ new.job = runs[r].job /\ new.due = runs[r].due /\ new.touched = runs[r].touched
      /\ new.todo = runs[r].todo /\ new.st = "active" /\ new.at = runs[r].at
      /\ new.sendDay = runs[r].sendDay /\ new.passed = runs[r].passed
  BY <1>2 DEF Run
<1>4. runs'[r] = new /\ Set(r, new)
  BY <1>1, <1>2 DEF Set
<1> HIDE DEF new
<1> PICK s : s = Head(runs[r].todo)
  OBVIOUS
<1>5. GatesHold(r)'
  <2>1. s \in JobStage => (InSeason(s)' <=> InSeason(s))
    BY <1>2, SameSettings
  <2>2. GatesHold(r) /\ Head(runs'[r].todo) = s
    BY <1>3, <1>4, CalmFacts
  <2> QED
    BY <1>2, <1>3, <1>4, <2>1, <2>2 DEF GatesHold
<1>6. HeaderRead(r)'
  <2>1. \A k \in {"fri", "sun", "class"} : Held(k, day)' <=> Held(k, day)
    BY <1>2, SameSettings DEF JobStage, Announcement
  <2> QED
    BY <1>2, <1>3, <1>4, <2>1, CalmFacts DEF HeaderRead, FridayRun
<1> QED
  BY <1>2, <1>3, <1>4, <1>5, <1>6, KindsSame, StaysOn

LEMMA CalmPing ==
    ASSUME PInv, NEW r \in RunId, Ping(r), Calm(r)
    PROVE  Promised(r)' /\ HeaderSaid(r)'
<1> PICK s : s = Head(runs[r].todo)
  OBVIOUS
<1> DEFINE new == [runs[r] EXCEPT !.at = "post"]
<1>0. /\ s \in JobStage /\ runs[r] \in Run /\ runs \in [RunId -> Run]
      /\ runs[r].st = "active" /\ runs[r].at = "ping" /\ Set(r, new) /\ PostMessage(r, "ping", 0)
      /\ UNCHANGED <<day, season, flags, wanted, raced, sched>>
  BY CalmFacts DEF Ping, AtJob, Ready, settings
<1>1. /\ new.job = runs[r].job /\ new.due = runs[r].due /\ new.touched = runs[r].touched
      /\ new.todo = runs[r].todo /\ new.st = "active" /\ new.at = "post"
  BY <1>0 DEF Run
<1>2. runs'[r] = new
  BY <1>0 DEF Set
<1> HIDE DEF new
<1>3. KindsOf(r)' = KindsOf(r) \cup {"ping"}
  BY <1>0, KindsAfter
<1>4. "ping" \notin JobStage /\ "ping" \notin Header /\ "header" \notin JobStage
  BY DEF JobStage, Announcement, DriverAsk, Header
<1>5. KindsOf(r)' \cap JobStage = KindsOf(r) \cap JobStage
      /\ KindsOf(r)' \cap Header = KindsOf(r) \cap Header
  BY <1>3, <1>4
<1>6. GatesHold(r)'
  <2>1. InSeason(s)' <=> InSeason(s)
    BY <1>0, SameSettings
  <2>2. s \in flags /\ InSeason(s)
    BY <1>0, CalmFacts DEF GatesHold
  <2> QED
    BY <1>0, <1>1, <1>2, <2>1, <2>2 DEF GatesHold
<1>7. HeaderRead(r)'
  BY <1>0, <1>1, <1>2, <1>4 DEF HeaderRead
<1> QED
  BY <1>0, <1>1, <1>5, <1>6, <1>7, StaysOn

LEMMA CalmPostPlain ==
    ASSUME PInv, NEW r \in RunId, PostPlain(r), Calm(r)
    PROVE  Promised(r)' /\ HeaderSaid(r)'
<1> DEFINE s == Head(runs[r].todo)
           rest == IF s = "wed" THEN <<"drvWed">> \o Rest(r) ELSE Rest(r)
<1>0. /\ s \in JobStage /\ s \notin {"sun", "class"} /\ runs[r].at = "post"
      /\ Set(r, Continue(r, rest)) /\ PostMessage(r, s, EventOf(s, day))
      /\ UNCHANGED <<day, season, flags, wanted, raced, sched>>
  BY DEF PostPlain, AtJob, Ready, settings
<1>1. Ought(s) /\ s \in runs[r].due
  <2>1. CalendarAllows(s, EventOf(s, day))
    BY <1>0 DEF CalendarAllows
  <2> QED
    BY <1>0, <2>1, PassedIsDue
<1>2. KindsOf(r)' = KindsOf(r) \cup {s}
  BY <1>0, KindsAfter
<1>3. rest \in Seq(Stage)
  <2>1. "drvWed" \in Stage /\ <<"drvWed">> \in Seq(Stage) /\ Rest(r) \in Seq(Stage)
    BY CalmFacts DEF Stage, JobStage, DriverAsk
  <2> QED
    BY <2>1
<1>4. \/ s # "wed" /\ rest = Rest(r)
      \/ s = "wed" /\ rest = <<"drvWed">> \o Rest(r) /\ Ought("wed")
  BY <1>1
<1> HIDE DEF rest
<1> QED
  BY <1>0, <1>1, <1>2, <1>3, <1>4, Delivers

LEMMA CalmPostSunday ==
    ASSUME PInv, NEW r \in RunId, PostSunday(r), Calm(r), runs'[r].calm
    PROVE  Promised(r)' /\ HeaderSaid(r)'
<1> DEFINE s == Head(runs[r].todo)
<1>0. /\ s \in JobStage /\ s \in {"sun", "class"} /\ runs[r].at = "post" /\ TypeOK
      /\ Rest(r) \in Seq(Stage) /\ runs \in [RunId -> Run]
      /\ UNCHANGED <<day, season, flags, wanted, raced, sched>>
  BY CalmFacts DEF PostSunday, AtJob, Ready, settings
<1>1. PICK up \in BOOLEAN :
         /\ Set(r, MaybeFaulty(Continue(r, Rest(r)), up))
         /\ LET says == CalendarSays(s, EventOf(s, day), up)
            IN  \/ says /\ PostMessage(r, s, EventOf(s, day))
                \/ ~says /\ s = "sun" /\ PostMessage(r, "notice", EventOf(s, day))
                \/ ~says /\ s = "class" /\ UNCHANGED posts
  BY DEF PostSunday
<1>2. up
  <2>1. ~Faulty(Continue(r, Rest(r))).calm
    BY <1>0, ContinueKeeps, FaultyKeeps DEF Keeps, TypeOK
  <2> QED
    BY <1>0, <1>1, <2>1 DEF MaybeFaulty, Set
<1>3. Set(r, Continue(r, Rest(r)))
  BY <1>1, <1>2 DEF MaybeFaulty
<1>4. CASE CalendarAllows(s, EventOf(s, day))
  <2>1. s \in runs[r].due
    BY <1>0, <1>4, PassedIsDue
  <2>2. PostMessage(r, s, EventOf(s, day))
    BY <1>1, <1>2, <1>4 DEF CalendarSays
  <2>3. KindsOf(r)' = KindsOf(r) \cup {s}
    BY <2>2, KindsAfter
  <2>4. s # "wed"
    BY <1>0
  <2> QED
    BY <1>0, <1>3, <2>1, <2>3, <2>4, Delivers
<1>5. CASE ~CalendarAllows(s, EventOf(s, day))
  <2>1. UNCHANGED posts \/ PostMessage(r, "notice", EventOf(s, day))
    BY <1>1, <1>2, <1>5 DEF CalendarSays
  <2>2. "notice" \notin JobStage /\ "notice" \notin Header
    BY DEF JobStage, Announcement, DriverAsk, Header
  <2>3. KindsOf(r)' = KindsOf(r) \/ KindsOf(r)' = KindsOf(r) \cup {"notice"}
    BY <2>1, KindsSame, KindsAfter
  <2>4. KindsOf(r)' \cap JobStage = KindsOf(r) \cap JobStage
        /\ KindsOf(r)' \cap Header = KindsOf(r) \cap Header
    BY <2>2, <2>3
  <2>5. ~Ought(s)
    BY <1>5 DEF Ought
  <2>6. runs[r].due \cap Brings(s) = {}
    BY <1>0, <2>5, CalmFacts, NotDue
  <2>7. "header" \notin Brings(s)
    BY <1>0, BringsIs
  <2> QED
    BY <1>0, <1>3, <2>4, <2>6, <2>7, Skips
<1> QED
  BY <1>4, <1>5

LEMMA CalmPickFellowship ==
    ASSUME PInv, NEW r \in RunId, PickFellowship(r), Calm(r)
    PROVE  Promised(r)' /\ HeaderSaid(r)'
<1>0. /\ Head(runs[r].todo) = "felly"
      /\ UNCHANGED <<day, season, flags, wanted, raced, sched, posts>>
  BY DEF PickFellowship, AtStage, Ready, settings
<1>1. PICK a \in Seq(Stage) :
         /\ Set(r, Continue(r, a \o Rest(r))) /\ Apart(a)
         /\ Ahead(a) = IF season = "wednesday" THEN {"wed", "drvWed"} ELSE {"fri", "drvFri"}
         /\ \A i \in 1..Len(a) : a[i] # "drvWed"
  <2>1. {"wed", "fri", "drvFri"} \subseteq Stage
    BY DEF Stage, JobStage, Announcement, DriverAsk
  <2>2. CASE season = "wednesday"
    <3>1. <<"wed">> \in Seq(Stage) /\ Apart(<<"wed">>) /\ Ahead(<<"wed">>) = {"wed", "drvWed"}
      BY <2>1, AheadFew, BringsIs
    <3>2. \A i \in 1..Len(<<"wed">>) : <<"wed">>[i] # "drvWed"
      OBVIOUS
    <3>3. Set(r, Continue(r, <<"wed">> \o Rest(r)))
      BY <2>2 DEF PickFellowship
    <3> QED
      BY <2>2, <3>1, <3>2, <3>3
  <2>3. CASE season # "wednesday"
    <3>1. <<"fri", "drvFri">> \in Seq(Stage)
      BY <2>1
    <3>2. \A i \in 1..Len(<<"fri", "drvFri">>) : <<"fri", "drvFri">>[i] # "drvWed"
      OBVIOUS
    <3>3. Set(r, Continue(r, <<"fri", "drvFri">> \o Rest(r)))
      BY <2>3 DEF PickFellowship
    <3> QED
      BY <2>3, <3>1, <3>2, <3>3, AheadFew
  <2> QED
    BY <2>2, <2>3
<1> DEFINE rest == a \o Rest(r)
<1>2. /\ rest \in Seq(Stage)
      /\ Ahead(rest) = Ahead(a) \cup Ahead(Rest(r)) /\ Apart(rest)
      /\ (\E i \in 1..Len(rest) : rest[i] = "drvWed") => Ought("wed")
  <2>1. Rest(r) \in Seq(Stage) /\ Apart(Rest(r)) /\ Ahead(a) \cap Ahead(Rest(r)) = {}
    BY <1>0, <1>1, CalmFacts, BringsIs
  <2>2. rest \in Seq(Stage)
    BY <2>1
  <2>3. Ahead(rest) = Ahead(a) \cup Ahead(Rest(r)) /\ Apart(rest)
    BY <1>1, <2>1, AheadConcat
  <2>4. (\E i \in 1..Len(rest) : rest[i] = "drvWed")
           => \E i \in 1..Len(Rest(r)) : Rest(r)[i] = "drvWed"
    BY <1>1, <2>1, AheadConcat
  <2>5. (\E i \in 1..Len(Rest(r)) : Rest(r)[i] = "drvWed") => Ought("wed")
    BY CalmFacts
  <2> QED
    BY <2>2, <2>3, <2>4, <2>5
<1>3. Set(r, Continue(r, rest))
  BY <1>1
<1> HIDE DEF rest
<1>4. Ahead(runs[r].todo) = {"wed", "drvWed", "fri", "drvFri"} \cup Ahead(Rest(r))
  BY <1>0, CalmFacts, BringsIs
<1>5. /\ season = "wednesday" => runs[r].due \cap {"fri", "drvFri"} = {}
      /\ season # "wednesday" => runs[r].due \cap {"wed", "drvWed"} = {}
  <2>1. \A s \in JobStage : s \in runs[r].due => Ought(s)
    BY CalmFacts DEF Due
  <2> QED
    BY <2>1 DEF Ought, InSeason, JobStage, Announcement, DriverAsk
<1>6. KindsOf(r)' = KindsOf(r)
  BY <1>0, KindsSame
<1>7. KindsOf(r)' \cap JobStage = runs[r].due \ Ahead(rest)
  <2>1. KindsOf(r) \cap JobStage = runs[r].due \ Ahead(runs[r].todo)
    BY CalmFacts DEF PostedSoFar
  <2> QED
    BY <1>1, <1>2, <1>4, <1>5, <1>6, <2>1
<1>8. "header" \in Ahead(rest) <=> "header" \in Ahead(runs[r].todo)
  BY <1>1, <1>2, <1>4
<1>9. "header" \in Ahead(rest) => KindsOf(r)' \cap Header = {}
  BY <1>6, <1>8, CalmFacts DEF HeaderOnce
<1>10. FridayRun(r) /\ "header" \notin Ahead(rest) =>
              /\ ("headerWeek" \in KindsOf(r)') <=> ("fri" \in runs[r].due)
              /\ (KindsOf(r)' \cap Header # {}) <=> (runs[r].due \cap Announcement # {})
  BY <1>6, <1>8, CalmFacts DEF HeaderSaid, HeaderFits
<1>11. Ahead(rest) \subseteq Ahead(runs[r].todo)
  BY <1>1, <1>2, <1>4
<1> QED
  BY <1>0, <1>2, <1>3, <1>7, <1>9, <1>10, <1>11, GoesOn

\* What the header reads of pauses and flags is what the Friday run will find.
LEMMA CalmHeaderGate ==
    ASSUME PInv, NEW r \in RunId, HeaderGate(r), Calm(r)
    PROVE  Promised(r)' /\ HeaderSaid(r)'
<1>0. /\ Head(runs[r].todo) = "header" /\ runs[r] \in Run /\ runs \in [RunId -> Run]
      /\ runs[r].st = "active" /\ IInv /\ runs[r].job \in RunJob /\ Predictable(runs[r].job)
      /\ UNCHANGED <<day, season, flags, wanted, raced, sched, posts>>
  BY CalmFacts DEF HeaderGate, AtStage, Ready, settings, AsStarted
<1>1. PICK off \in HostOffsets :
        LET read == {"sunday", "sunday_class", "friday"}
            open == {k \in Announcement : PauseJob(k) \in read =>
                        ~IsJobPaused(pause[PauseJob(k)], sched["group"], day + off)}
        IN  \E c : Set(r, [runs[r] EXCEPT !.at = "post", !.passed = open \cap flags,
                                          !.clearing = c])
  <2>1. PICK off \in HostOffsets :
          LET today == day + off
              read == {"sunday", "sunday_class", "friday"}
              open == {k \in Announcement : PauseJob(k) \in read =>
                          ~IsJobPaused(pause[PauseJob(k)], sched["group"], today)}
          IN  Set(r, [runs[r] EXCEPT
                         !.at = "post", !.passed = open \cap flags,
                         !.clearing = {j \in read : IsOver(pause[j], sched["group"], today)}])
    BY Zenon DEF HeaderGate
  <2> QED
    BY <2>1, Zenon
<1>2. PICK p : /\ \E c : Set(r, [runs[r] EXCEPT !.at = "post", !.passed = p, !.clearing = c])
               /\ \A k \in {"fri", "sun", "class"} :
                     k \in p <=> /\ k \in flags
                                 /\ ~IsJobPaused(pause[PauseJob(k)], sched["group"], day + off)
  <2>1. \A k \in {"fri", "sun", "class"} :
           k \in Announcement /\ PauseJob(k) \in {"sunday", "sunday_class", "friday"}
    BY DEF Announcement, PauseJob
  <2> DEFINE read == {"sunday", "sunday_class", "friday"}
             open == {k \in Announcement : PauseJob(k) \in read =>
                         ~IsJobPaused(pause[PauseJob(k)], sched["group"], day + off)}
  <2>2. \A k \in {"fri", "sun", "class"} :
           k \in open \cap flags
              <=> /\ k \in flags
                  /\ ~IsJobPaused(pause[PauseJob(k)], sched["group"], day + off)
    BY <2>1
  <2>3. \E c : Set(r, [runs[r] EXCEPT !.at = "post", !.passed = open \cap flags,
                                      !.clearing = c])
    BY <1>1
  <2> HIDE DEF open
  <2> QED
    BY <2>2, <2>3
<1>3. ASSUME FridayRun(r), NEW k \in {"fri", "sun", "class"}
      PROVE  IsJobPaused(pause[PauseJob(k)], sched["group"], day + off) <=> Held(k, day)
  <2>1. PauseJob(k) \in Job /\ JobSlot(PauseJob(k)) = "group"
    BY DEF PauseJob, Job, JobSlot
  <2>2. runs[r].job \in Scheduled => JobSlot(PauseJob(k)) = ScheduledSlot(runs[r].job)
    BY <1>3, <2>1 DEF FridayRun, Scheduled, ScheduledSlot
  <2>3. IsJobPaused(pause[PauseJob(k)], sched[JobSlot(PauseJob(k))], day + off)
           <=> Covers(wanted[PauseJob(k)], NextEvent(Weekday(PauseJob(k)), day))
    BY <1>0, <2>1, <2>2, CheckAgrees
  <2> QED
    BY <2>1, <2>3 DEF Held, EventOf
<1>a. PICK c : Set(r, [runs[r] EXCEPT !.at = "post", !.passed = p, !.clearing = c])
  BY <1>2
<1> DEFINE new == [runs[r] EXCEPT !.at = "post", !.passed = p, !.clearing = c]
<1>4. /\ new.job = runs[r].job /\ new.due = runs[r].due /\ new.touched = runs[r].touched
      /\ new.todo = runs[r].todo /\ new.st = "active" /\ new.at = "post" /\ new.passed = p
  BY <1>0 DEF Run
<1>5. runs'[r] = new /\ Set(r, new)
  BY <1>0, <1>a DEF Set
<1> HIDE DEF new
<1>6. GatesHold(r)'
  <2>1. "header" \notin JobStage
    BY DEF JobStage, Announcement, DriverAsk
  <2> QED
    BY <1>0, <1>4, <1>5, <2>1 DEF GatesHold
<1>7. HeaderRead(r)'
  <2> SUFFICES ASSUME FridayRun(r)
               PROVE  p \cap {"fri", "sun", "class"} =
                        {k \in {"fri", "sun", "class"} \cap flags : ~Held(k, day)'}
    BY <1>0, <1>4, <1>5 DEF HeaderRead, FridayRun
  <2>1. \A k \in {"fri", "sun", "class"} : Held(k, day)' <=> Held(k, day)
    BY <1>0, SameSettings DEF JobStage, Announcement
  <2> QED
    BY <1>2, <1>3, <2>1
<1> QED
  BY <1>0, <1>4, <1>5, <1>6, <1>7, KindsSame, StaysOn

\* In the Friday season, what the header believes will follow is what is due.
LEMMA HeaderHoldsDue ==
    ASSUME PInv, NEW r \in RunId, Calm(r), FridayRun(r),
           Head(runs[r].todo) = "header", runs[r].at = "post"
    PROVE  HeaderHolds(r, TRUE) = runs[r].due \cap Announcement
<1>1. runs[r].passed \cap {"fri", "sun", "class"} =
            {k \in {"fri", "sun", "class"} \cap flags : ~Held(k, day)}
  BY CalmFacts DEF HeaderRead
<1>2. runs[r].passed \subseteq Announcement /\ runs[r].due = Due(runs[r].job)
  BY CalmFacts DEF Run
<1>3. ASSUME NEW k \in {"fri", "sun", "class"}
      PROVE  k \in HeaderHolds(r, TRUE) <=> k \in runs[r].due
  <2>1. k \in Reach(runs[r].job) /\ k # "drvWed"
    BY DEF FridayRun, Reach, JobStage, Announcement, DriverAsk
  <2>2. k \in runs[r].due <=> Ought(k)
    BY <1>2, <2>1 DEF Due
  <2>3. k \in HeaderHolds(r, TRUE)
           <=> k \in runs[r].passed /\ InSeason(k) /\ CalendarAllows(k, EventOf(k, day))
    BY DEF HeaderHolds, CalendarSays
  <2> QED
    BY <1>1, <2>2, <2>3 DEF Ought
<1>4. "wed" \notin HeaderHolds(r, TRUE) /\ "wed" \notin runs[r].due
  <2>1. ~InSeason("wed")
    BY DEF InSeason, FridayRun
  <2> QED
    BY <1>2, <2>1 DEF HeaderHolds, Due, Ought
<1>5. HeaderHolds(r, TRUE) \subseteq Announcement
  BY <1>2 DEF HeaderHolds
<1> QED
  BY <1>3, <1>4, <1>5 DEF Announcement

LEMMA CalmHeaderPost ==
    ASSUME PInv, NEW r \in RunId, HeaderPost(r), Calm(r), runs'[r].calm
    PROVE  Promised(r)' /\ HeaderSaid(r)'
<1>0. /\ Head(runs[r].todo) = "header" /\ runs[r].at = "post" /\ TypeOK
      /\ Rest(r) \in Seq(Stage) /\ runs \in [RunId -> Run]
      /\ UNCHANGED <<day, season, flags, wanted, raced, sched>>
  BY CalmFacts DEF HeaderPost, AtStage, Ready, settings
<1>1. PICK up \in BOOLEAN :
         /\ Set(r, MaybeFaulty(Continue(r, Rest(r)), up))
         /\ \/ HeaderHolds(r, up) = {} /\ UNCHANGED posts
            \/ /\ HeaderHolds(r, up) # {}
               /\ PostMessage(r, IF "fri" \in HeaderHolds(r, up) THEN "headerWeek"
                                                                ELSE "headerSunday", 0)
  BY DEF HeaderPost
<1>2. up
  <2>1. ~Faulty(Continue(r, Rest(r))).calm
    BY <1>0, ContinueKeeps, FaultyKeeps DEF Keeps, TypeOK
  <2> QED
    BY <1>0, <1>1, <2>1 DEF MaybeFaulty, Set
<1>3. Set(r, Continue(r, Rest(r)))
  BY <1>1, <1>2 DEF MaybeFaulty
<1>4. PICK holds : /\ holds = HeaderHolds(r, TRUE)
                   /\ KindsOf(r)' = IF holds = {} THEN KindsOf(r)
                                    ELSE KindsOf(r) \cup {IF "fri" \in holds THEN "headerWeek"
                                                                            ELSE "headerSunday"}
  BY <1>1, <1>2, KindsSame, KindsAfter
<1>5. /\ Brings("header") = {"header"} /\ "headerWeek" \notin JobStage
      /\ "headerSunday" \notin JobStage /\ "header" \notin JobStage
  BY BringsIs DEF JobStage, Announcement, DriverAsk
<1>6. KindsOf(r) \cap Header = {}
  BY <1>0, <1>5, CalmFacts DEF HeaderOnce
<1>7. "header" \notin Ahead(Rest(r))
  BY <1>0, <1>5, CalmFacts
<1>8. KindsOf(r)' \cap JobStage = runs[r].due \ Ahead(Rest(r))
  <2>1. KindsOf(r)' \cap JobStage = KindsOf(r) \cap JobStage
    BY <1>4, <1>5
  <2>2. runs[r].due \subseteq JobStage
    BY CalmFacts DEF Run
  <2>3. KindsOf(r) \cap JobStage = runs[r].due \ ({"header"} \cup Ahead(Rest(r)))
    BY <1>0, <1>5, CalmFacts DEF PostedSoFar
  <2> QED
    BY <1>5, <2>1, <2>2, <2>3
<1>9. FridayRun(r) =>
              /\ ("headerWeek" \in KindsOf(r)') <=> ("fri" \in runs[r].due)
              /\ (KindsOf(r)' \cap Header # {}) <=> (runs[r].due \cap Announcement # {})
  <2> SUFFICES ASSUME FridayRun(r)
               PROVE  /\ ("headerWeek" \in KindsOf(r)') <=> ("fri" \in runs[r].due)
                      /\ (KindsOf(r)' \cap Header # {}) <=> (runs[r].due \cap Announcement # {})
    OBVIOUS
  <2>1. holds = runs[r].due \cap Announcement
    BY <1>0, <1>4, HeaderHoldsDue
  <2>2. "fri" \in holds <=> "fri" \in runs[r].due
    BY <2>1 DEF Announcement
  <2>3. KindsOf(r)' \cap Header # {} <=> holds # {}
    BY <1>4, <1>6 DEF Header
  <2>4. "headerWeek" \in KindsOf(r)' <=> "fri" \in holds
    <3>1. "headerWeek" \notin KindsOf(r)
      BY <1>6 DEF Header
    <3>2. CASE "fri" \in holds
      <4>1. holds # {}
        BY <3>2
      <4>2. KindsOf(r)' = KindsOf(r) \cup {"headerWeek"}
        BY <1>4, <3>2, <4>1
      <4> QED
        BY <3>2, <4>2
    <3>3. CASE "fri" \notin holds
      <4>1. KindsOf(r)' \in {KindsOf(r), KindsOf(r) \cup {"headerSunday"}}
        BY <1>4, <3>3
      <4>2. "headerWeek" # "headerSunday"
        OBVIOUS
      <4> QED
        BY <3>1, <3>3, <4>1, <4>2
    <3> QED
      BY <3>2, <3>3
  <2> QED
    BY <2>1, <2>2, <2>3, <2>4
<1>10. Ahead(Rest(r)) \subseteq Ahead(runs[r].todo) /\ Apart(Rest(r))
       /\ ((\E i \in 1..Len(Rest(r)) : Rest(r)[i] = "drvWed") => Ought("wed"))
  BY CalmFacts
<1> QED
  BY <1>0, <1>3, <1>7, <1>8, <1>9, <1>10, GoesOn

\* The step of a run that stays calm keeps its promise.
LEMMA OwnStepPromised ==
    ASSUME PInv, NEW r \in RunId, RunStep(r)
    PROVE  /\ Promised(r)'
           /\ runs'[r].calm /\ runs'[r].st = "done" => HeaderSaid(r)'
<1>1. TypeOK /\ Busy /\ Active(r)
  BY DEF PInv, DInv, IInv, RunStep, HeaderGate, Scan, HeaderPost, Gate, CheckPause, ClearOver,
         Ping, PostPlain, PostSunday, Warm, PickFellowship, SendFails, Abort, AtStage, AtJob,
         Ready
<1>2. Keeps(runs[r], runs'[r])
  <2>1. PICK new : Set(r, new) /\ Keeps(runs[r], new)
    BY <1>1, RunStepKeeps
  <2> QED
    BY <1>1, <2>1 DEF Set, TypeOK
<1>3. CASE ~(runs'[r].calm /\ runs'[r].st \in {"active", "done"})
  BY <1>2, <1>3 DEF Promised, Calm, Active, Keeps
<1>4. CASE runs'[r].calm /\ runs'[r].st \in {"active", "done"}
  <2>1. Calm(r)
    BY <1>1, <1>2, <1>4 DEF Calm, Keeps
  <2>2. ~SendFails(r) /\ ~Abort(r)
    <3>1. runs[r] \in Run /\ Rest(r) \in Seq(Stage) /\ runs \in [RunId -> Run]
      BY <2>1, CalmFacts
    <3>2. ~Faulty(Continue(r, Rest(r))).calm
      BY <1>1, <3>1, ContinueKeeps, FaultyKeeps DEF Keeps
    <3>3. ~Faulty(Stop(r, "aborted")).calm
      BY <1>1, <3>1, StopKeeps, FaultyKeeps DEF Keeps
    <3> QED
      BY <1>4, <3>1, <3>2, <3>3 DEF SendFails, Abort, Set
  <2> QED
    BY <1>4, <2>1, <2>2, CalmScan, CalmHeaderGate, CalmHeaderPost, CalmGate, CalmCheckPause,
       CalmClearOver, CalmPing, CalmPostPlain, CalmPostSunday, CalmWarm, CalmPickFellowship DEF RunStep
<1> QED
  BY <1>3, <1>4

\* A run that a step does not touch keeps its promise.
LEMMA OthersPromised ==
    ASSUME PInv, NEW q \in RunId, UNCHANGED <<day, season, flags, wanted, raced, sched>>,
           runs'[q] = runs[q], KindsOf(q)' = KindsOf(q)
    PROVE  Promised(q)'
<1>1. CASE ~Calm(q)
  BY <1>1 DEF PInv, Promised, Calm, Active, PostedSoFar
<1>2. CASE Calm(q)
  <2>1. Promised(q) /\ AsStarted(q) /\ InReach(q) /\ GatesHold(q)
        /\ HeaderOnce(q) /\ HeaderSaid(q) /\ HeaderRead(q) /\ PostedSoFar(q)
    BY <1>2, CalmFacts DEF PInv
  <2>2. AsStarted(q)'
    BY <2>1, SameSettings DEF AsStarted
  <2>3. InReach(q)'
    <3>1. Ought("wed")' <=> Ought("wed")
      BY SameSettings DEF JobStage, Announcement
    <3> QED
      BY <2>1, <3>1 DEF InReach
  <2>4. GatesHold(q)'
    <3>1. \A s \in JobStage : InSeason(s)' <=> InSeason(s)
      BY SameSettings
    <3>2. PICK s : s = Head(runs[q].todo)
      OBVIOUS
    <3>3. s \in JobStage => (InSeason(s)' <=> InSeason(s))
      BY <3>1
    <3> QED
      BY <2>1, <3>2, <3>3 DEF GatesHold
  <2>5. HeaderOnce(q)' /\ HeaderSaid(q)' /\ PostedSoFar(q)'
    BY <2>1 DEF HeaderOnce, HeaderSaid, HeaderFits, FridayRun, PostedSoFar
  <2>6. HeaderRead(q)'
    <3>1. \A k \in {"fri", "sun", "class"} : Held(k, day)' <=> Held(k, day)
      BY SameSettings DEF JobStage, Announcement
    <3> QED
      BY <2>1, <3>1 DEF HeaderRead, FridayRun
  <2> QED
    BY <2>1, <2>2, <2>3, <2>4, <2>5, <2>6 DEF Promised
<1> QED
  BY <1>1, <1>2

LEMMA PromiseRunStep ==
    ASSUME PInv, NEW r \in RunId, RunStep(r)
    PROVE  \A q \in RunId : Promised(q)'
<1>1. /\ TypeOK /\ Busy /\ runs \in [RunId -> Run]
      /\ UNCHANGED <<day, season, flags, wanted, raced, sched>>
  <2>1. UNCHANGED <<day, season, flags, wanted, raced, sched>>
    BY DEF RunStep, settings, HeaderGate, CheckPause, ClearOver, Scan, HeaderPost, Gate, Ping, PostPlain,
           PostSunday, Warm, PickFellowship, SendFails, Abort
  <2> QED
    BY <2>1 DEF PInv, DInv, IInv, TypeOK
<1>2. ASSUME NEW q \in RunId, q # r
      PROVE  runs'[q] = runs[q] /\ KindsOf(q)' = KindsOf(q)
  <2>1. runs'[q] = runs[q]
    BY <1>1, <1>2, RunStepKeeps DEF Set
  <2>2. /\ posts \subseteq posts'
        /\ \A p \in posts' \ posts : p.run = r
    BY <1>1, RunStepPosts
  <2> QED
    BY <1>2, <2>1, <2>2 DEF KindsOf
<1> QED
  BY <1>1, <1>2, OwnStepPromised, OthersPromised

\* A run starts with all that is due ahead of it.
LEMMA PromiseStart ==
    ASSUME PInv, NEW job \in RunJob, NEW r \in RunId, Starts(r, job),
           UNCHANGED <<day, season, flags, wanted, raced, sched, posts>>
    PROVE  \A q \in RunId : Promised(q)'
<1>1. ASSUME NEW q \in RunId, q # r
      PROVE  Promised(q)'
  BY <1>1, KindsSame, OthersPromised DEF Starts
<1>2. KindsOf(r)' = {}
  <2>1. \A p \in posts : p.run # r
    BY DEF PInv, DInv, PostsOfRuns, Starts
  <2> QED
    BY <2>1 DEF KindsOf
<1>3. /\ runs'[r].job = job /\ runs'[r].todo = Plan(job) /\ runs'[r].at = "gate"
      /\ runs'[r].touched = {} /\ runs'[r].due = Due(job) /\ runs'[r].st = "active"
      /\ runs'[r].calm = Predictable(job)
  BY DEF Starts
<1>4. Due(job)' = Due(job) /\ (Predictable(job)' <=> Predictable(job))
  BY SameSettings
<1>5. runs'[r].calm => AsStarted(r)'
  BY <1>3, <1>4 DEF AsStarted
<1>6. InReach(r)' /\ GatesHold(r)' /\ HeaderOnce(r)' /\ HeaderRead(r)' /\ HeaderSaid(r)'
  <2>1. InReach(r)'
    BY <1>3, PlanReaches DEF InReach
  <2>2. GatesHold(r)'
    BY <1>3 DEF GatesHold
  <2>3. HeaderOnce(r)' /\ HeaderRead(r)'
    BY <1>2, <1>3 DEF HeaderOnce, HeaderRead
  <2>4. HeaderSaid(r)'
    BY <1>3, PlanReaches DEF HeaderSaid, FridayRun
  <2> QED
    BY <2>1, <2>2, <2>3, <2>4
<1>7. PostedSoFar(r)'
  <2>1. Due(job) \subseteq Ahead(Plan(job))
    BY PlanReaches DEF Due
  <2> QED
    BY <1>2, <1>3, <2>1 DEF PostedSoFar
<1>8. Promised(r)'
  BY <1>3, <1>5, <1>6, <1>7 DEF Promised, Calm
<1> QED
  BY <1>1, <1>8

\* No run is calm after an edit, a midnight or a restart but those that are over.
LEMMA PromiseInterrupted ==
    ASSUME PInv, NEW jobs \in SUBSET Job, Disturb(jobs) \/ Restart, UNCHANGED posts
    PROVE  \A q \in RunId : Promised(q)'
<1> SUFFICES ASSUME NEW q \in RunId PROVE Promised(q)'
  OBVIOUS
<1>1. TypeOK /\ Promised(q) /\ KindsOf(q)' = KindsOf(q)
  BY KindsSame DEF PInv, DInv, IInv
<1>2. CASE Active(q)
  BY <1>1, <1>2, Interrupted DEF Promised, Calm, Keeps
<1>3. CASE ~Active(q)
  <2>1. runs'[q] = runs[q]
    BY <1>1, <1>3, Interrupted
  <2> QED
    BY <1>1, <1>3, <2>1 DEF Promised, Calm, Active, PostedSoFar
<1> QED
  BY <1>2, <1>3

LEMMA PromiseInductive == PInv /\ [Next]_vars => PInv'
<1> SUFFICES ASSUME PInv, [Next]_vars PROVE PInv'
  OBVIOUS
<1>1. IInv /\ DInv'
  BY DuplicateInductive DEF PInv, DInv
<1>2. \A q \in RunId : Promised(q)'
  <2>1. CASE UNCHANGED <<day, season, flags, wanted, raced, sched, posts, runs>>
    BY <2>1, KindsSame, OthersPromised
  <2>2. CASE \E r \in RunId : RunStep(r)
    BY <2>2, PromiseRunStep
  <2>3. CASE \E job \in RunJob, r \in RunId :
              /\ Starts(r, job) /\ UNCHANGED <<day, season, flags, wanted, raced, sched, posts>>
              /\ job = "all" => ~\E q \in RunId : Active(q) /\ runs[q].job = "all"
    BY <2>3, PromiseStart
  <2>4. CASE \E jobs \in SUBSET Job : /\ Disturb(jobs) \/ Restart
                                      /\ UNCHANGED posts /\ day' \in {day, day + 1}
    BY <2>4, PromiseInterrupted
  <2> QED
    BY <1>1, <2>1, <2>2, <2>3, <2>4, StepCases
<1> QED
  BY <1>1, <1>2 DEF PInv

LEMMA PromiseInit == Init => PInv
<1> SUFFICES ASSUME Init PROVE PInv
  OBVIOUS
<1>1. \A r \in RunId : runs[r].st = "idle" /\ ~runs[r].calm
  BY DEF Init, NoRun
<1> QED
  BY <1>1, DuplicateInit DEF PInv, Promised, Calm

\* For any settings, calendar, days and runs: a run that nothing disturbed has
\* posted, when it is done, exactly what was due when it started.
THEOREM PromisesKept == Spec => []PromiseKept
<1>1. PInv /\ [Next]_vars => PInv'
  BY PromiseInductive
<1>2. PInv => PromiseKept
  <2> SUFFICES ASSUME PInv, NEW r \in RunId, runs[r].st = "done", runs[r].calm
               PROVE  KindsOf(r) \cap JobStage = runs[r].due
    BY DEF PromiseKept
  <2>1. PostedSoFar(r) /\ runs[r].todo = <<>>
    BY DEF PInv, Promised
  <2> QED
    BY <2>1, AheadEmpty DEF PostedSoFar
<1> QED
  BY PromiseInit, <1>1, <1>2, PTL DEF Spec

\* A calm run of a Friday season that comes to its end has said in its header
\* what it has posted.
LEMMA HeaderStep ==
    ASSUME PInv, [Next]_vars, NEW r \in RunId, Active(r), runs'[r].st = "done", runs'[r].calm,
           season = "friday", runs[r].job \in {"all", "both"}
    PROVE  /\ (KindsOf(r)' \cap Header # {}) <=> (KindsOf(r)' \cap Announcement # {})
           /\ "headerWeek" \in KindsOf(r)' <=> "fri" \in KindsOf(r)'
<1>0. TypeOK /\ Busy /\ IInv /\ runs \in [RunId -> Run]
  BY DEF PInv, DInv, IInv, TypeOK
<1>1. RunStep(r)
  <2>1. CASE UNCHANGED <<day, season, flags, wanted, raced, sched, posts, runs>>
    BY <2>1 DEF Active
  <2>2. CASE \E q \in RunId : RunStep(q)
    <3>1. PICK q \in RunId : RunStep(q)
      BY <2>2
    <3>2. CASE q = r
      BY <3>1, <3>2
    <3>3. CASE q # r
      <4>1. runs'[r] = runs[r]
        BY <1>0, <3>1, <3>3, RunStepKeeps DEF Set
      <4> QED
        BY <4>1 DEF Active
    <3> QED
      BY <3>2, <3>3
  <2>3. CASE \E job \in RunJob, q \in RunId : Starts(q, job)
    BY <2>3 DEF Starts, Active
  <2>4. CASE \E jobs \in SUBSET Job : Disturb(jobs) \/ Restart
    BY <1>0, <2>4, Interrupted
  <2> QED
    BY <1>0, <2>1, <2>2, <2>3, <2>4, StepCases
<1>2. Promised(r)' /\ HeaderSaid(r)'
  BY <1>1, OwnStepPromised
<1>3. PostedSoFar(r)' /\ runs'[r].todo = <<>>
  BY <1>2 DEF Promised
<1>4. KindsOf(r)' \cap JobStage = runs'[r].due
  BY <1>3, AheadEmpty DEF PostedSoFar
<1>5. FridayRun(r)'
  <2>1. runs'[r].job = runs[r].job
    BY <1>0, <1>1, RunStepKeeps DEF Set, Keeps
  <2>2. season' = season
    BY <1>1 DEF RunStep, settings, HeaderGate, CheckPause, ClearOver, Scan, HeaderPost, Gate, Ping,
                PostPlain, PostSunday, Warm, PickFellowship, SendFails, Abort
  <2> QED
    BY <2>1, <2>2 DEF FridayRun
<1>6. HeaderFits(r)'
  BY <1>2, <1>3, <1>5, AheadEmpty DEF HeaderSaid
<1>7. /\ KindsOf(r)' \cap Announcement = runs'[r].due \cap Announcement
      /\ "fri" \in KindsOf(r)' <=> "fri" \in runs'[r].due
  BY <1>4 DEF JobStage, Announcement
<1> QED
  BY <1>6, <1>7 DEF HeaderFits

\* For any settings, calendar, days and runs: the header of an undisturbed Friday
\* run over both groups promises exactly the announcements that follow it.
THEOREM HeadersHaveBodies == Spec => HeaderHasBody
<1>1. PInv /\ [Next]_vars => PInv'
  BY PromiseInductive
<1>2. PInv /\ [Next]_vars =>
        \A r \in RunId :
         /\ Active(r) /\ runs'[r].st = "done" /\ runs'[r].calm
         /\ season = "friday" /\ runs[r].job \in {"all", "both"}
         => /\ (KindsOf(r)' \cap Header # {}) <=> (KindsOf(r)' \cap Announcement # {})
            /\ "headerWeek" \in KindsOf(r)' <=> "fri" \in KindsOf(r)'
  BY HeaderStep
<1> QED
  BY PromiseInit, <1>1, <1>2, PTL DEF Spec, HeaderHasBody
=============================================================================

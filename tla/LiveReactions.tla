--------------------------- MODULE LiveReactions ---------------------------
(* The browser's live view of ride reactions: the event stream the widgets  *)
(* share (useReactionStream), the query cache behind the lists, and the     *)
(* pages that mount and unmount both.                                       *)
(*                                                                          *)
(* A list is a query key <<list, choice>>, the choice being the day shown   *)
(* (for the reaction log, the filter set).  The data of a key is the number *)
(* of reaction events the server had stored when it answered.  The query    *)
(* library (React Query, default options) is outside the repository; Ask,   *)
(* Receives, FetchFails, OnMount and Focus say what the components rely on. *)
EXTENDS Integers, FiniteSets

CONSTANTS KeySets,   \* the sets of query keys a behaviour may follow
          MaxEvents  \* bound on the reaction events of a behaviour

Days == {"friday", "sunday"}
Lists == {"rideCoverage", "askRidesReactions", "driverReactions", "reaction-log"}
Pages == {"home", "log", "other"}
Roles == {"viewer", "manager"}

AllKeys == UNION KeySets

ASSUME LiveAssumption == KeySets \subseteq SUBSET (Lists \X Days) /\ MaxEvents \in Nat

NoData == -1
Versions == 0..MaxEvents

VARIABLES
    events,      \* reaction events the server has stored
    page,        \* the route on screen
    role,        \* what the last answer of /api/me allows
    stream,      \* the module-level StreamState; open = FALSE is `state === null`
    streamError, \* streamError of the mounted caller
    cache,       \* the query cache, one entry per key
    sel,         \* the day (or filter) each list has selected
    syncing      \* syncMutation.isPending

liveVars == <<events, page, role, stream, streamError, cache, sel, syncing>>

\* The keys this behaviour follows.  No entry reads another, so a few at a time
\* are enough to see all that can happen to each.
Keys == DOMAIN cache
Shown == {k[1] : k \in Keys}

-----------------------------------------------------------------------------
(* The shared stream.                                                       *)

Closed == [open |-> FALSE, live |-> FALSE, got |-> 0, timer |-> 0, subs |-> {}]

\* The pending debounce carries the event that started it; 0 is no timer.
StreamType == [open : BOOLEAN, live : BOOLEAN, got : Versions, timer : Versions,
               subs : SUBSET {"home", "log"}]

\* The callers of useReactionStream that are mounted on page p for role r.
Mounted(p, r) ==
    CASE p = "home" /\ r = "manager" -> {"home"}
      [] p = "log" -> {"log"}
      [] OTHER -> {}

\* The effect of a caller that mounts: ensureStream, then its registrations.
Attach(s, c) == IF s.open THEN [s EXCEPT !.subs = @ \cup {c}]
                          ELSE [Closed EXCEPT !.open = TRUE, !.subs = {c}]

\* Variant: the last caller does not close the connection.
DetachKeepsOpen(s, c) == IF ~s.open THEN Closed ELSE [s EXCEPT !.subs = @ \ {c}]

\* The cleanup of a caller that unmounts; the last one tears the stream down.
Detach(s, c) ==
    IF ~s.open \/ s.subs \subseteq {c} THEN Closed
                                       ELSE [s EXCEPT !.subs = @ \ {c}]

\* One commit: the old tree's cleanups run before the new tree's effects.
Remount(old, new) ==
    LET Out == IF old \subseteq new THEN stream
               ELSE Detach(stream, CHOOSE c \in old \ new : TRUE)
    IN /\ stream' = IF new \subseteq old THEN Out
                    ELSE Attach(Out, CHOOSE c \in new \ old : TRUE)
       /\ streamError' = (streamError /\ old = new)

-----------------------------------------------------------------------------
(* The query cache.                                                         *)

Entry == [ver : {NoData} \cup Versions, stale : BOOLEAN, asked : BOOLEAN,
          ans : {NoData} \cup Versions, failed : BOOLEAN]

\* failed: the last request ended in an error, and none has started since.
Empty == [ver |-> NoData, stale |-> FALSE, asked |-> FALSE, ans |-> NoData,
          failed |-> FALSE]

\* Variant: a running request is always joined, whatever it already read.
AskJoins(q, cancel) ==
    IF ~q.asked THEN [q EXCEPT !.asked = TRUE, !.ans = NoData, !.failed = FALSE] ELSE q

\* Query.fetch: a running request is joined, unless the caller cancels it and
\* there is data to go on showing.
Ask(q, cancel) ==
    IF ~q.asked \/ (cancel /\ q.ver # NoData)
    THEN [q EXCEPT !.asked = TRUE, !.ans = NoData, !.failed = FALSE]
    ELSE q

PageOf(k) == IF k[1] = "reaction-log" THEN "log" ELSE "home"

\* Both days of ride coverage are read all the time (RideCoverageWarning); the
\* other lists read the key of the choice they show.
Observed(k, p, s) == p = PageOf(k) /\ (k[1] = "rideCoverage" \/ s[k[1]] = k[2])

\* The log has no staleTime, and nothing asks whether ride coverage is stale
\* (it has refetchOnMount and refetchOnWindowFocus off); the others grow stale.
GrowsStale(k) == k[1] \in {"askRidesReactions", "driverReactions"}

IsStale(q) == q.ver = NoData \/ q.stale

\* A component that reads k mounts.  Ride coverage has refetchOnMount: false.
OnMount(k, q) ==
    IF q.ver = NoData \/ (q.stale /\ k[1] # "rideCoverage") THEN Ask(q, FALSE) ELSE q

\* invalidateQueries on the keys of the lists ls.
Invalidated(c, ls) ==
    [k \in Keys |->
        IF k[1] \notin ls THEN c[k]
        ELSE LET q == [c[k] EXCEPT !.stale = @ \/ GrowsStale(k)]
             IN IF Observed(k, page, sel) THEN Ask(q, TRUE) ELSE q]

\* The onEvent callbacks of Home and of ReactionLog.
OnEvent(c) == IF c = "log" THEN {"reaction-log"} ELSE Lists \ {"reaction-log"}

\* The server reads its tables for a request, and the answer comes back later.
ServerReads(k) ==
    /\ k \in Keys /\ cache[k].asked /\ cache[k].ans = NoData
    /\ cache' = [cache EXCEPT ![k].ans = events]
    /\ UNCHANGED <<events, page, role, stream, streamError, sel, syncing>>

Receives(k) ==
    /\ k \in Keys /\ cache[k].asked /\ cache[k].ans # NoData
    /\ cache' = [cache EXCEPT ![k] = [ver |-> @.ans, stale |-> k[1] = "reaction-log",
                                      asked |-> FALSE, ans |-> NoData, failed |-> FALSE]]
    /\ UNCHANGED <<events, page, role, stream, streamError, sel, syncing>>

\* Variant: a failed request drops the data the list had.
FetchFailsClears(k) ==
    /\ k \in Keys /\ cache[k].asked
    /\ cache' = [cache EXCEPT ![k] = [Empty EXCEPT !.failed = TRUE]]
    /\ UNCHANGED <<events, page, role, stream, streamError, sel, syncing>>

\* The request and its retries fail.
FetchFails(k) ==
    /\ k \in Keys /\ cache[k].asked
    /\ cache' = [cache EXCEPT ![k].asked = FALSE, ![k].ans = NoData, ![k].failed = TRUE]
    /\ UNCHANGED <<events, page, role, stream, streamError, sel, syncing>>

\* staleTime passes.
Age(k) ==
    /\ k \in Keys /\ GrowsStale(k) /\ cache[k].ver # NoData /\ ~cache[k].stale
    /\ cache' = [cache EXCEPT ![k].stale = TRUE]
    /\ UNCHANGED <<events, page, role, stream, streamError, sel, syncing>>

\* The window regains the focus (switched off for ride coverage).
Focus ==
    /\ \E k \in Keys : Observed(k, page, sel) /\ k[1] # "rideCoverage" /\ IsStale(cache[k])
    /\ cache' = [k \in Keys |->
           IF Observed(k, page, sel) /\ k[1] # "rideCoverage" /\ IsStale(cache[k])
           THEN Ask(cache[k], FALSE) ELSE cache[k]]
    /\ UNCHANGED <<events, page, role, stream, streamError, sel, syncing>>

-----------------------------------------------------------------------------
(* Events from the server.                                                  *)

NewEvent ==
    /\ events < MaxEvents
    /\ events' = events + 1
    /\ UNCHANGED <<page, role, stream, streamError, cache, sel, syncing>>

\* Variant: the connection counts itself as the first event.
ConnectCounts ==
    /\ stream.open /\ ~stream.live
    /\ stream' = [stream EXCEPT !.live = TRUE, !.got = events + 1]
    /\ UNCHANGED <<events, page, role, streamError, cache, sel, syncing>>

\* The server accepts the connection; only later events are sent on it.
Connect ==
    /\ stream.open /\ ~stream.live
    /\ stream' = [stream EXCEPT !.live = TRUE, !.got = events]
    /\ UNCHANGED <<events, page, role, streamError, cache, sel, syncing>>

\* onmessage: restart the debounce.
HandleMessage ==
    /\ stream.live /\ stream.got < events
    /\ stream' = [stream EXCEPT !.got = @ + 1, !.timer = stream.got + 1]
    /\ UNCHANGED <<events, page, role, streamError, cache, sel, syncing>>

\* The debounce ends: every subscriber's latest onEvent runs.
NotifySubscribers ==
    /\ stream.timer # 0
    /\ stream' = [stream EXCEPT !.timer = 0]
    /\ cache' = Invalidated(cache, UNION {OnEvent(c) : c \in stream.subs})
    /\ UNCHANGED <<events, page, role, streamError, sel, syncing>>

\* onerror: tell every caller, then tear down for good.
HandleError ==
    /\ stream.open
    /\ stream' = Closed
    /\ streamError' = TRUE
    /\ UNCHANGED <<events, page, role, cache, sel, syncing>>

-----------------------------------------------------------------------------
(* The pages and the widgets.                                               *)

\* The route changes; the components of the new page start from their
\* initial state (the overview from the automatic day).
Navigate(p, auto) ==
    /\ p # page
    /\ page' = p
    /\ sel' = [l \in Lists |-> IF l \notin Shown THEN sel[l]
                               ELSE IF p = "home" /\ l = "askRidesReactions" THEN auto
                               ELSE IF p = PageOf(<<l, "friday">>) THEN "friday" ELSE sel[l]]
    /\ cache' = [k \in Keys |-> IF Observed(k, p, sel') THEN OnMount(k, cache[k])
                                                        ELSE cache[k]]
    /\ Remount(Mounted(page, role), Mounted(p, role))
    /\ UNCHANGED <<events, role, syncing>>

\* /api/me answers; LiveReactionUpdates is mounted for managers only.
MeAnswers(r) ==
    /\ page = "home" /\ r # role
    /\ role' = r
    /\ Remount(Mounted(page, role), Mounted(page, r))
    /\ UNCHANGED <<events, page, cache, sel, syncing>>

(* What a list puts on the screen for its entry q of the cache: a skeleton,  *)
(* an error, or the data.                                                    *)

CoverageShows(q) == IF q.asked /\ q.ver = NoData THEN "loading"
                    ELSE IF q.failed THEN "error" ELSE "data"

DriversShow(q) == IF q.asked /\ q.ver = NoData THEN "loading"
                  ELSE IF q.failed THEN "error" ELSE "data"

LogShows(q) == IF q.asked /\ q.ver = NoData THEN "loading"
               ELSE IF q.failed THEN "error" ELSE "data"

\* Only the overview hides its data behind the skeleton at every fetch.
OverviewShows(q) == IF q.asked THEN "loading"
                    ELSE IF q.failed THEN "error" ELSE "data"

Shows(k) == CASE k[1] = "rideCoverage" -> CoverageShows(cache[k])
              [] k[1] = "driverReactions" -> DriversShow(cache[k])
              [] k[1] = "askRidesReactions" -> OverviewShows(cache[k])
              [] k[1] = "reaction-log" -> LogShows(cache[k])

\* The day buttons and the refresh button of the overview and of the driver list
\* are off while the skeleton shows; the log's filters are never off.
Enabled(l) == l \in {"askRidesReactions", "driverReactions"}
                => Shows(<<l, sel[l]>>) # "loading"

\* A new choice is a new key: it is fetched unless the cache holds it fresh.
ShowChoice(l, d) ==
    LET k == <<l, d>> IN
    /\ sel' = [sel EXCEPT ![l] = d]
    /\ cache' = IF k \in Keys /\ IsStale(cache[k])
                THEN [cache EXCEPT ![k] = Ask(@, FALSE)] ELSE cache

\* handleTypeChange, handleDayToggle, setFilter.
Choose(l, d) ==
    /\ l # "rideCoverage" /\ <<l, d>> \in Keys
    /\ page = PageOf(<<l, d>>) /\ d # sel[l] /\ <<l, sel[l]>> \in Keys /\ Enabled(l)
    /\ ShowChoice(l, d)
    /\ UNCHANGED <<events, page, role, stream, streamError, syncing>>

\* handleRefresh of the overview and updateDayAndFetch of the driver list.
RefreshToDay(l, auto) ==
    /\ l \in {"askRidesReactions", "driverReactions"} /\ <<l, auto>> \in Keys
    /\ page = "home" /\ <<l, sel[l]>> \in Keys /\ Enabled(l)
    /\ IF auto = sel[l]
       THEN cache' = [cache EXCEPT ![<<l, auto>>] = Ask(@, TRUE)] /\ UNCHANGED sel
       ELSE ShowChoice(l, auto)
    /\ UNCHANGED <<events, page, role, stream, streamError, syncing>>

\* The coverage card is there once its first answer is.
CoverageShown == page = "home" /\ \E d \in Days : <<"rideCoverage", d>> \in Keys
                                  /\ cache[<<"rideCoverage", d>>].ver # NoData

RefreshCoverage ==
    /\ CoverageShown
    /\ cache' = Invalidated(cache, {"rideCoverage"})
    /\ UNCHANGED <<events, page, role, stream, streamError, sel, syncing>>

ForceSync ==
    /\ CoverageShown /\ ~syncing
    /\ syncing' = TRUE
    /\ UNCHANGED <<events, page, role, stream, streamError, cache, sel>>

\* onSuccess invalidates, wherever the user is by then; an error only shows.
SyncAnswers(ok) ==
    /\ syncing
    /\ syncing' = FALSE
    /\ cache' = IF ok THEN Invalidated(cache, {"rideCoverage"}) ELSE cache
    /\ UNCHANGED <<events, page, role, stream, streamError, sel>>

-----------------------------------------------------------------------------
LiveInit ==
    /\ events = 0 /\ page = "other" /\ role = "viewer"
    /\ stream = Closed /\ streamError = FALSE /\ syncing = FALSE
    /\ \E keys \in KeySets : cache = [k \in keys |-> Empty]
    /\ sel = [l \in Lists |-> "friday"]

LiveNext ==
    \/ NewEvent \/ Connect \/ HandleMessage \/ NotifySubscribers \/ HandleError
    \/ \E k \in AllKeys : ServerReads(k) \/ Receives(k) \/ FetchFails(k) \/ Age(k)
    \/ Focus
    \/ \E p \in Pages, auto \in Days : Navigate(p, auto)
    \/ \E r \in Roles : MeAnswers(r)
    \/ \E l \in Lists, d \in Days : Choose(l, d) \/ RefreshToDay(l, d)
    \/ RefreshCoverage \/ ForceSync
    \/ \E ok \in BOOLEAN : SyncAnswers(ok)

\* Timers fire, connected servers answer, requests end; users and ride members
\* need not do anything.
LiveFairness ==
    /\ WF_liveVars(HandleMessage) /\ WF_liveVars(NotifySubscribers)
    /\ \A k \in AllKeys : WF_liveVars(ServerReads(k)) /\ WF_liveVars(Receives(k) \/ FetchFails(k))

LiveSpec == LiveInit /\ [][LiveNext]_liveVars /\ LiveFairness

-----------------------------------------------------------------------------
LiveTypeOK ==
    /\ events \in Versions /\ page \in Pages /\ role \in Roles
    /\ stream \in StreamType /\ streamError \in BOOLEAN /\ syncing \in BOOLEAN
    /\ Keys \in KeySets /\ cache \in [Keys -> Entry]
    /\ sel \in [Lists -> Days]

\* A stream is open exactly for the callers on screen, unless it broke and they
\* say so: no connection outlives the page that opened it, and no page is left
\* believing in a connection that is gone.
StreamServesPage ==
    /\ stream.open => stream.subs = Mounted(page, role) /\ stream.subs # {}
    /\ Mounted(page, role) # {} => (stream.open # streamError)
    /\ stream.timer # 0 => stream.live /\ stream.timer = stream.got

Watching(k) ==
    k \in Keys /\ Observed(k, page, sel) /\ \E c \in stream.subs : k[1] \in OnEvent(c)

UpTo(k, v) ==
    ~Watching(k) \/ Shows(k) = "error" \/ (Shows(k) = "data" /\ cache[k].ver >= v)

\* An event that reaches the page while a list already shows something is in
\* the list in the end, whatever requests were running when it came: the list
\* catches up, or it shows an error, or it is no longer on screen.
HeardIsShown ==
    \A k \in AllKeys, v \in 1..MaxEvents :
        (Watching(k) /\ stream.timer = v /\ cache[k].ver # NoData) ~> UpTo(k, v)

\* Every list is a view of the log that never moves back, for all the requests
\* that are cancelled, restarted, joined and answered late.
View == INSTANCE LogView WITH Lists <- AllKeys, published <- events,
                              shown <- [k \in Keys |-> cache[k].ver]

ListsAreViews == View!LogViewSpec
=============================================================================

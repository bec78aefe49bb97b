---------------------------- MODULE RideCoverage ----------------------------
(***************************************************************************)
(* Who has a ride: the rows of the ride_coverage table, kept in step with  *)
(* the grouping messages ("drive: @Alice @Bob") that coordinators post,    *)
(* edit and delete on Discord.  Three parts write the table concurrently:  *)
(* the gateway listeners of the RideCoverage cog, the sync that on_ready   *)
(* starts once per process, and the sync a coordinator forces from the     *)
(* dashboard.  The process may crash, and its gateway session may be lost. *)
(*                                                                         *)
(* Messages are numbered in the order they are posted, all of them since   *)
(* last Sunday, so every row is recent.                                    *)
(***************************************************************************)
EXTENDS Integers, FiniteSets, Sequences

CONSTANTS
    People,        \* the users a message may mention
    Texts,         \* the texts explored
    Places,        \* where and when messages are posted
    MaxMessages,   \* bound: messages posted
    MaxEdits,      \* bound: edits and deletions
    MaxForced,     \* bound: syncs forced from the dashboard
    MaxFaults,     \* bound: crashes, lost sessions and failed calls
    PageSize,      \* messages in one page of channel history (Discord: 100)
    ScanLimit      \* messages a sync reads at most (the code: 500)

\* A text, by its "drive:" marker and the users mentioned on each side of it.
Text == [drive : BOOLEAN, before : SUBSET People, after : SUBSET People]
\* open: the message lookup window is open when the message is posted.
Place == [channel : {"rides", "spam"}, open : BOOLEAN]

ASSUME InputAssumption == Texts \subseteq Text /\ Places \subseteq Place
ASSUME BoundsAssumption ==
    /\ MaxMessages \in Nat /\ MaxEdits \in Nat /\ MaxForced \in Nat /\ MaxFaults \in Nat
    /\ PageSize \in Nat \ {0} /\ ScanLimit \in Nat \ {0}

VARIABLES
    posted,    \* how many messages have been posted
    place,     \* where each of them was
    text,      \* its text now
    gone,      \* messages deleted on Discord
    rows,      \* the ride_coverage table
    link,      \* process down, or its gateway session lost or up
    synced,    \* _synced_on_startup
    cached,    \* messages in the client's cache
    tasks,     \* listener calls under way
    syncs,     \* the startup sync and the forced sync
    edits, forced, faults,   \* how much of each bound is used up
    named,     \* history: whom the versions of a message have named
    dirty      \* history: messages whose events were lost, failed or overlapped

vars == <<posted, place, text, gone, rows, link, synced, cached, tasks, syncs,
          edits, forced, faults, named, dirty>>
discord == <<posted, place, text, gone, named, edits>>

Msg == 1..MaxMessages
SyncId == {"startup", "forced"}
Live == (1..posted) \ gone

(***************************************************************************)
(* What a message says.                                                    *)
(***************************************************************************)
Grouping(t) == t.drive

\* Variant: the driver mentioned before "drive:" is taken for a passenger.
PassengersAnywhere(t) == IF Grouping(t) THEN t.before \cup t.after ELSE {}

\* extract_passengers: the users mentioned after "drive:".
Passengers(t) == IF Grouping(t) THEN t.after ELSE {}

\* Whom a coordinator means to give a ride, and so what the table should hold
\* about a message.
Names(pl, t) == IF pl.open /\ t.drive THEN t.after ELSE {}
Expected(m) == IF m \in Live THEN Names(place[m], text[m]) ELSE {}

RowsOf(m) == {u \in People : <<u, m>> \in rows}

(***************************************************************************)
(* The table.  One call is one transaction.                                *)
(***************************************************************************)
\* add_coverage_entries: the primary key makes the whole batch fail if one of
\* its rows is there already.
AddEntries(who, m) ==
    IF who \cap RowsOf(m) = {} THEN rows \cup (who \X {m}) ELSE rows

Purge(m) == {row \in rows : row[2] # m}

Apply(op, m) ==
    CASE op.kind = "add" -> AddEntries(op.who, m)
      [] op.kind = "remove" -> rows \ (op.who \X {m})
      [] op.kind = "purge" -> Purge(m)

Op == [kind : {"add", "remove", "purge"}, who : SUBSET People]
Calls(kind, who) == IF who = {} THEN <<>> ELSE <<[kind |-> kind, who |-> who]>>

\* on_message
PostOps(m, pl, t) == IF pl.open THEN Calls("add", Passengers(t)) ELSE <<>>

\* on_message_edit: a message that is no grouping message any more is left alone.
EditOps(m, t) ==
    IF place[m].open /\ Grouping(t)
    THEN Calls("add", Passengers(t) \ Passengers(text[m])) \o
         Calls("remove", Passengers(text[m]) \ Passengers(t))
    ELSE <<>>

(***************************************************************************)
(* Syncs.                                                                  *)
(***************************************************************************)
Entry == [id : Msg, place : Place, text : Text]
Sync == [phase : {"off", "fetch", "scan", "orphans", "clean"},
         page : SUBSET Entry,         \* messages fetched and not yet looked at
         more : BOOLEAN,              \* another page is to be fetched
         valid : SUBSET Msg,          \* valid_message_ids
         orphans : SUBSET Msg]        \* orphaned ids still to be deleted

Off == [phase |-> "off", page |-> {}, more |-> FALSE, valid |-> {}, orphans |-> {}]
Syncing == \E k \in SyncId : syncs[k].phase # "off"

Task == [msg : Msg, nr : Nat, ops : Seq(Op)]
TasksOf(m) == {t \in tasks : t.msg = m}

TypeOK ==
    /\ posted \in 0..MaxMessages
    /\ place \in [Msg -> Place] /\ text \in [Msg -> Text]
    /\ gone \subseteq 1..posted
    /\ rows \subseteq People \X (1..posted)
    /\ link \in {"down", "lost", "up"}
    /\ synced \in BOOLEAN
    /\ cached \subseteq Live
    /\ tasks \subseteq Task
    /\ syncs \in [SyncId -> Sync]
    /\ \A k \in SyncId : /\ syncs[k].phase = "scan" <=> syncs[k].page # {}
                         /\ syncs[k].phase = "clean" <=> syncs[k].orphans # {}
    /\ edits \in 0..MaxEdits /\ forced \in 0..MaxForced /\ faults \in 0..MaxFaults
    /\ named \in [Msg -> SUBSET People]
    /\ dirty \subseteq Msg

Init ==
    /\ posted = 0 /\ gone = {} /\ rows = {}
    /\ place = [m \in Msg |-> [channel |-> "rides", open |-> FALSE]]
    /\ text = [m \in Msg |-> [drive |-> FALSE, before |-> {}, after |-> {}]]
    /\ link = "down" /\ synced = FALSE /\ cached = {} /\ tasks = {}
    /\ syncs = [k \in SyncId |-> Off]
    /\ edits = 0 /\ forced = 0 /\ faults = 0
    /\ named = [m \in Msg |-> {}] /\ dirty = {}

Fault == faults < MaxFaults /\ faults' = faults + 1

-----------------------------------------------------------------------------
(***************************************************************************)
(* Coordinators on Discord, and the listeners their events start.          *)
(***************************************************************************)
\* A listener call with nothing to write ends at once.
Spawn(m, ops) ==
    tasks' = IF ops = <<>> THEN tasks
             ELSE tasks \cup {[msg |-> m, nr |-> posted + edits, ops |-> ops]}

\* The events of one message that come one after the other, on a session that
\* is up and while no sync runs, leave the message clean.
Disturbed(m) == link # "up" \/ Syncing \/ TasksOf(m) # {}

Post(pl, t) ==
    /\ posted < MaxMessages
    /\ LET m == posted + 1
       IN  /\ posted' = m
           /\ place' = [place EXCEPT ![m] = pl]
           /\ text' = [text EXCEPT ![m] = t]
           /\ named' = [named EXCEPT ![m] = Names(pl, t)]
           /\ dirty' = IF Disturbed(m) THEN dirty \cup {m} ELSE dirty
           /\ IF link = "up" THEN cached' = cached \cup {m} /\ Spawn(m, PostOps(m, pl, t))
                             ELSE UNCHANGED <<cached, tasks>>
    /\ UNCHANGED <<gone, edits, rows, link, synced, syncs, forced, faults>>

\* The client tells the cog of an edit only if the message is in its cache.
EditText(m, t) ==
    /\ edits < MaxEdits /\ m \in Live /\ t # text[m]
    /\ edits' = edits + 1
    /\ text' = [text EXCEPT ![m] = t]
    /\ named' = [named EXCEPT ![m] = @ \cup Names(place[m], t)]
    /\ dirty' = IF Disturbed(m) \/ m \notin cached \/ ~Grouping(t) THEN dirty \cup {m}
                                                                   ELSE dirty
    /\ IF link = "up" /\ m \in cached THEN Spawn(m, EditOps(m, t)) ELSE UNCHANGED tasks
    /\ UNCHANGED <<posted, place, gone, cached, rows, link, synced, syncs, forced, faults>>

\* So too for a deletion.
Delete(m) ==
    /\ edits < MaxEdits /\ m \in Live
    /\ edits' = edits + 1
    /\ gone' = gone \cup {m}
    /\ cached' = cached \ {m}
    /\ dirty' = IF Disturbed(m) \/ m \notin cached THEN dirty \cup {m} ELSE dirty
    /\ IF link = "up" /\ m \in cached THEN Spawn(m, <<[kind |-> "purge", who |-> {}]>>)
                                      ELSE UNCHANGED tasks
    /\ UNCHANGED <<posted, place, text, named, rows, link, synced, syncs, forced, faults>>

\* One transaction of a listener call.  A failure is logged, and the call goes
\* on to its next transaction.
TaskStep(t) ==
    /\ LET rest == Tail(t.ops)
       IN  tasks' = (tasks \ {t}) \cup (IF rest = <<>> THEN {} ELSE {[t EXCEPT !.ops = rest]})
    /\ \/ rows' = Apply(Head(t.ops), t.msg) /\ UNCHANGED <<faults, dirty>>
       \/ Fault /\ dirty' = dirty \cup {t.msg} /\ UNCHANGED rows
    /\ UNCHANGED <<discord, link, synced, cached, syncs, forced>>

-----------------------------------------------------------------------------
(***************************************************************************)
(* The process and its gateway session.                                    *)
(***************************************************************************)
\* A sync whose bot has not been ready yet finds no channel: it scans nothing.
Begin(k, channelKnown) ==
    syncs' = [syncs EXCEPT ![k] = [Off EXCEPT !.phase = IF channelKnown THEN "fetch"
                                                                        ELSE "orphans"]]

\* The sync reads the rides channel only: messages elsewhere it takes for deleted.
Overlooked(channelKnown) ==
    {m \in 1..posted : place[m].channel # "rides" \/ ~channelKnown}

\* Variant: the flag survives a restart.
BootStillSynced ==
    /\ link = "down"
    /\ link' = "lost"
    /\ UNCHANGED <<discord, rows, synced, cached, tasks, syncs, forced, faults, dirty>>

Boot ==
    /\ link = "down"
    /\ link' = "lost"
    /\ synced' = FALSE
    /\ UNCHANGED <<discord, rows, cached, tasks, syncs, forced, faults, dirty>>

\* A new session empties the client's cache; its first on_ready starts a sync.
Ready ==
    /\ link = "lost"
    /\ link' = "up"
    /\ cached' = {}
    /\ synced' = TRUE
    /\ IF synced THEN UNCHANGED <<syncs, dirty>>
       ELSE Begin("startup", TRUE) /\ dirty' = dirty \cup Overlooked(TRUE)
    /\ UNCHANGED <<discord, rows, tasks, forced, faults>>

\* The session is lost and cannot be resumed: its events are lost as well.
Disconnect ==
    /\ link = "up" /\ Fault
    /\ link' = "lost"
    /\ UNCHANGED <<discord, rows, synced, cached, tasks, syncs, forced, dirty>>

Crash ==
    /\ link # "down" /\ Fault
    /\ link' = "down"
    /\ cached' = {} /\ tasks' = {}
    /\ syncs' = [k \in SyncId |-> Off]
    /\ dirty' = dirty \cup {t.msg : t \in tasks}
    /\ UNCHANGED <<discord, rows, synced, forced>>

\* POST /api/check-pickups/sync asks for a bot, not for a ready one.
ForceSync ==
    /\ forced < MaxForced /\ link # "down" /\ syncs["forced"].phase = "off"
    /\ forced' = forced + 1
    /\ Begin("forced", synced)
    /\ dirty' = dirty \cup Overlooked(synced)
    /\ UNCHANGED <<discord, rows, link, synced, cached, tasks, faults>>

-----------------------------------------------------------------------------
(***************************************************************************)
(* The stages of a sync.                                                   *)
(***************************************************************************)
In(k, phase) == syncs[k].phase = phase
Set(k, sync) == syncs' = [syncs EXCEPT ![k] = sync]

\* The history a sync has not read yet, as it is now.
Unread(k) ==
    {m \in Live : place[m].channel = "rides" /\ \A v \in syncs[k].valid : v < m}

\* Its first messages, oldest first.
History(k, size) == {m \in Unread(k) : Cardinality({i \in Unread(k) : i <= m}) <= size}

EntryOf(m) == [id |-> m, place |-> place[m], text |-> text[m]]

\* Variant: the scan stops after one page.
FetchOnePage(k) ==
    /\ In(k, "fetch")
    /\ LET page == {EntryOf(m) : m \in History(k, PageSize)}
       IN  Set(k, [syncs[k] EXCEPT !.page = page, !.more = FALSE,
                                   !.phase = IF page = {} THEN "orphans" ELSE "scan"])
    /\ UNCHANGED <<discord, rows, link, synced, cached, tasks, forced, faults, dirty>>

\* A full page is followed by another, up to the limit in all.
Fetch(k) ==
    /\ In(k, "fetch")
    /\ LET left == ScanLimit - Cardinality(syncs[k].valid)
           size == IF left < PageSize THEN left ELSE PageSize
           page == {EntryOf(m) : m \in History(k, size)}
       IN  Set(k, [syncs[k] EXCEPT
               !.page = page,
               !.more = Cardinality(page) = PageSize /\ PageSize < left,
               !.phase = IF page = {} THEN "orphans" ELSE "scan"])
    /\ UNCHANGED <<discord, rows, link, synced, cached, tasks, forced, faults, dirty>>

\* A failed read ends the scan, but not the sync: the messages not seen yet
\* are taken for deleted.
FetchFails(k) ==
    /\ In(k, "fetch") /\ Fault
    /\ Set(k, [syncs[k] EXCEPT !.phase = "orphans"])
    /\ dirty' = dirty \cup (1..posted)
    /\ UNCHANGED <<discord, rows, link, synced, cached, tasks, forced>>

\* The next message of the page; what it says is what it said when fetched.
ScanOne(k, entry) ==
    /\ Set(k, [syncs[k] EXCEPT
           !.valid = @ \cup {entry.id},
           !.page = @ \ {entry},
           !.phase = IF syncs[k].page # {entry} THEN "scan"
                     ELSE IF syncs[k].more THEN "fetch" ELSE "orphans"])
    /\ \/ /\ rows' = IF entry.place.open THEN AddEntries(Passengers(entry.text), entry.id)
                                         ELSE rows
          /\ UNCHANGED faults
       \/ Fault /\ UNCHANGED rows

Scan(k) ==
    /\ In(k, "scan")
    /\ \E entry \in syncs[k].page :
          /\ \A other \in syncs[k].page : entry.id <= other.id
          /\ ScanOne(k, entry)
    /\ UNCHANGED <<discord, link, synced, cached, tasks, forced, dirty>>

\* Variant: the difference of the two sets of ids taken the wrong way round.
FindOrphansReversed(k) ==
    /\ In(k, "orphans")
    /\ LET found == syncs[k].valid \ {row[2] : row \in rows}
       IN  Set(k, IF found = {} THEN Off
                  ELSE [syncs[k] EXCEPT !.orphans = found, !.phase = "clean"])
    /\ UNCHANGED <<discord, rows, link, synced, cached, tasks, forced, faults, dirty>>

\* get_unique_message_ids; when the query fails it answers that there are none.
FindOrphans(k) ==
    /\ In(k, "orphans")
    /\ \E found \in {{row[2] : row \in rows} \ syncs[k].valid, {}} :
          /\ Set(k, IF found = {} THEN Off
                    ELSE [syncs[k] EXCEPT !.orphans = found, !.phase = "clean"])
          /\ IF found = {row[2] : row \in rows} \ syncs[k].valid THEN UNCHANGED faults ELSE Fault
    /\ UNCHANGED <<discord, rows, link, synced, cached, tasks, forced, dirty>>

\* Variant: the cleanup never finds itself done.
DeleteOrphanForever(k) ==
    /\ In(k, "clean")
    /\ \E m \in syncs[k].orphans :
          /\ rows' = Purge(m)
          /\ Set(k, [syncs[k] EXCEPT !.orphans = @ \ {m}])
    /\ UNCHANGED <<discord, link, synced, cached, tasks, forced, faults, dirty>>

\* Orphans go one by one; a failed deletion ends the sync.
DeleteOrphan(k) ==
    /\ In(k, "clean")
    /\ \/ \E m \in syncs[k].orphans :
            /\ rows' = Purge(m)
            /\ Set(k, IF syncs[k].orphans = {m} THEN Off
                      ELSE [syncs[k] EXCEPT !.orphans = @ \ {m}])
            /\ UNCHANGED faults
       \/ Fault /\ Set(k, Off) /\ UNCHANGED rows
    /\ UNCHANGED <<discord, link, synced, cached, tasks, forced, dirty>>

SyncStep(k) == Fetch(k) \/ FetchFails(k) \/ Scan(k) \/ FindOrphans(k) \/ DeleteOrphan(k)

Next ==
    \/ \E pl \in Places, t \in Texts : Post(pl, t)
    \/ \E m \in Msg, t \in Texts : EditText(m, t)
    \/ \E m \in Msg : Delete(m)
    \/ \E t \in tasks : TaskStep(t)
    \/ Boot \/ Ready \/ Disconnect \/ Crash \/ ForceSync
    \/ \E k \in SyncId : SyncStep(k)

\* The event loop runs every call and every sync that can go on; the container
\* is restarted after a crash (restart: on-failure:5) and the client reconnects.
Fairness ==
    /\ WF_vars(Boot) /\ WF_vars(Ready)
    /\ WF_vars(\E t \in tasks : TaskStep(t))
    /\ \A k \in SyncId : WF_vars(SyncStep(k))

Spec == Init /\ [][Next]_vars /\ Fairness

-----------------------------------------------------------------------------
(***************************************************************************)
(* Properties.                                                             *)
(***************************************************************************)
\* A row is never invented: its user was named after "drive:" by some version
\* of its message, and the message was posted while the lookup window was open,
\* whatever the listeners and syncs, fed with old versions, did since.
RowsJustified == \A row \in rows : row[1] \in named[row[2]]

\* The rows of a message are exactly its passengers once its listener calls
\* are over, if its events came one at a time, on a live session, and outside
\* of syncs: syncs, forced or at startup, crashes, lost sessions and other
\* messages leave it right, as long as a sync can read them all.
CleanIsCovered ==
    posted <= ScanLimit =>
        \A m \in 1..posted :
            m \notin dirty /\ TasksOf(m) = {} => RowsOf(m) = Expected(m)

\* A grouping message of which nothing is recorded when the process is down, one
\* posted meanwhile or one whose listener calls failed or were cut off, has all of
\* its passengers recorded after the restart, unless another fault comes or it
\* changes again.  Of a message that is recorded in part nothing is promised: the
\* batch fails on the row that is there, and whoever else it names stays without.
MissedIsRecovered ==
    \A m \in Msg, t \in Texts, f \in 0..MaxFaults :
        LET missed == /\ link = "down" /\ faults = f
                      /\ m \in Live /\ place[m] = [channel |-> "rides", open |-> TRUE]
                      /\ text[m] = t /\ RowsOf(m) = {}
        IN  missed ~> \/ RowsOf(m) = Passengers(t)
                      \/ faults # f \/ m \notin Live \/ text[m] # t

\* A message deleted while the process was down loses its rows after the
\* restart, unless another fault comes.
DeletedIsForgotten ==
    \A m \in Msg, f \in 0..MaxFaults :
        (link = "down" /\ faults = f /\ m \in gone) ~> (RowsOf(m) = {} \/ faults # f)

(***************************************************************************)
(* What the documents say, and the code does not do.                       *)
(***************************************************************************)
\* docs/ride-coverage.md, "Sync process": the orphan cleanup deletes entries for
\* ids that are no longer present on Discord, and no others.
OrphansAreGone ==
    [][\A k \in SyncId, m \in Msg :
         syncs[k].phase = "clean" /\ RowsOf(m) # {} /\ RowsOf(m)' = {} /\ TasksOf(m) = {}
         => m \in gone]_vars

\* docs/ride-coverage.md, "on_message_delete": it removes all coverage entries
\* tied to a deleted message, keeping the database clean.
DeletedLeavesNoRows ==
    link = "up" /\ tasks = {} /\ ~Syncing /\ faults = 0 => \A m \in gone : RowsOf(m) = {}
=============================================================================

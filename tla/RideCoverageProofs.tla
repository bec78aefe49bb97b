------------------------- MODULE RideCoverageProofs -------------------------
(***************************************************************************)
(* Theorems about RideCoverage: type correctness, and that the table never *)
(* holds a row no version of its message justifies, nor misses one of a    *)
(* message nothing disturbed.                                              *)
(***************************************************************************)
EXTENDS RideCoverage, FiniteSetTheorems, TLAPS

(***************************************************************************)
(* The inductive invariant.                                                *)
(***************************************************************************)
\* Calls, pages and rows are about messages that have been posted, and a
\* listener call under way has something left to do.
Bound ==
    /\ \A t \in tasks : t.msg \in 1..posted /\ t.ops # <<>>
    /\ \A k \in SyncId : \A e \in syncs[k].page : e.id \in 1..posted

\* A listener call adds only users its message has named.
CallsJustified ==
    \A t \in tasks : \A i \in 1..Len(t.ops) :
        t.ops[i].kind = "add" => t.ops[i].who \subseteq named[t.msg]

\* A page of history, old as it may be, names only users its messages have named.
PagesJustified ==
    \A k \in SyncId : \A e \in syncs[k].page : Names(e.place, e.text) \subseteq named[e.id]

\* The history of a message includes what it says now.
NamedNow == \A m \in 1..posted : Names(place[m], text[m]) \subseteq named[m]

IInv == TypeOK /\ Bound /\ RowsJustified /\ CallsJustified /\ PagesJustified /\ NamedNow

-----------------------------------------------------------------------------
(***************************************************************************)
(* Operators.                                                              *)
(***************************************************************************)
LEMMA PostedMsg ==
    ASSUME TypeOK
    PROVE  1..posted \subseteq Msg
  BY BoundsAssumption DEF TypeOK, Msg

LEMMA PassengersType ==
    ASSUME NEW t \in Text
    PROVE  Passengers(t) \subseteq People
  BY DEF Passengers, Grouping, Text

\* What extract_passengers finds is what the coordinator meant.
LEMMA PassengersNamed ==
    ASSUME NEW pl \in Place, NEW t \in Text, pl.open
    PROVE  Passengers(t) = Names(pl, t)
  BY DEF Passengers, Grouping, Names

LEMMA CallsType ==
    ASSUME NEW kind \in {"add", "remove", "purge"}, NEW who \in SUBSET People
    PROVE  /\ Calls(kind, who) \in Seq(Op)
           /\ \A i \in 1..Len(Calls(kind, who)) : Calls(kind, who)[i] = [kind |-> kind, who |-> who]
<1>1. [kind |-> kind, who |-> who] \in Op
  BY DEF Op
<1> QED
  BY <1>1 DEF Calls

\* The calls on_message makes add only users the message names.
LEMMA PostOpsJustified ==
    ASSUME NEW m, NEW pl \in Place, NEW t \in Text
    PROVE  /\ PostOps(m, pl, t) \in Seq(Op)
           /\ \A i \in 1..Len(PostOps(m, pl, t)) :
                 PostOps(m, pl, t)[i].kind = "add" =>
                    PostOps(m, pl, t)[i].who \subseteq Names(pl, t)
<1>1. CASE ~pl.open
  BY <1>1 DEF PostOps
<1>2. CASE pl.open
  <2> DEFINE ops == Calls("add", Passengers(t))
  <2>1. PostOps(m, pl, t) = ops
    BY <1>2 DEF PostOps
  <2>2. Passengers(t) \in SUBSET People /\ Passengers(t) = Names(pl, t)
    BY <1>2, PassengersType, PassengersNamed
  <2>3. /\ ops \in Seq(Op)
        /\ \A i \in 1..Len(ops) : ops[i] = [kind |-> "add", who |-> Passengers(t)]
    BY <2>2, CallsType
  <2> HIDE DEF ops
  <2> QED
    BY <2>1, <2>2, <2>3
<1> QED
  BY <1>1, <1>2

\* So do those of on_message_edit, of the new version.
LEMMA EditOpsJustified ==
    ASSUME TypeOK, NEW m \in Msg, NEW t \in Text
    PROVE  /\ EditOps(m, t) \in Seq(Op)
           /\ \A i \in 1..Len(EditOps(m, t)) :
                 EditOps(m, t)[i].kind = "add" => EditOps(m, t)[i].who \subseteq Names(place[m], t)
<1>1. CASE ~(place[m].open /\ Grouping(t))
  BY <1>1 DEF EditOps
<1>2. CASE place[m].open /\ Grouping(t)
  <2> DEFINE added == Passengers(t) \ Passengers(text[m])
             removed == Passengers(text[m]) \ Passengers(t)
             a == Calls("add", added)
             r == Calls("remove", removed)
  <2>1. /\ place[m] \in Place /\ text[m] \in Text
        /\ added \subseteq People /\ removed \subseteq People
    BY PassengersType DEF TypeOK
  <2>2. added \subseteq Names(place[m], t)
    BY <1>2, <2>1, PassengersNamed
  <2>3. EditOps(m, t) = a \o r
    BY <1>2 DEF EditOps
  <2>4. /\ a \in Seq(Op) /\ \A i \in 1..Len(a) : a[i] = [kind |-> "add", who |-> added]
        /\ r \in Seq(Op) /\ \A i \in 1..Len(r) : r[i] = [kind |-> "remove", who |-> removed]
    BY <2>1, CallsType
  <2> HIDE DEF a, r, added, removed
  <2>5. \A i \in 1..Len(a \o r) : \/ (a \o r)[i] = [kind |-> "add", who |-> added]
                                 \/ (a \o r)[i] = [kind |-> "remove", who |-> removed]
    BY <2>4
  <2> QED
    BY <2>2, <2>3, <2>4, <2>5
<1> QED
  BY <1>1, <1>2

LEMMA RowsAdded ==
    ASSUME TypeOK, NEW who \in SUBSET People, NEW m \in 1..posted
    PROVE  /\ AddEntries(who, m) \subseteq People \X (1..posted)
           /\ \A row \in AddEntries(who, m) : row \in rows \/ (row[1] \in who /\ row[2] = m)
  BY DEF TypeOK, AddEntries

\* A transaction of a listener call adds no row but those of its own users.
LEMMA RowsApplied ==
    ASSUME TypeOK, NEW op \in Op, NEW m \in 1..posted
    PROVE  /\ Apply(op, m) \subseteq People \X (1..posted)
           /\ \A row \in Apply(op, m) :
                 row \in rows \/ (op.kind = "add" /\ row[1] \in op.who /\ row[2] = m)
<1>1. op.who \in SUBSET People /\ op.kind \in {"add", "remove", "purge"}
  BY DEF Op
<1>2. CASE op.kind = "add"
  BY <1>1, <1>2, RowsAdded DEF Apply
<1>3. CASE op.kind = "remove"
  BY <1>3 DEF Apply, TypeOK
<1>4. CASE op.kind = "purge"
  BY <1>4 DEF Apply, Purge, TypeOK
<1> QED
  BY <1>1, <1>2, <1>3, <1>4

\* An entry of a page is a message that is live when it is fetched.
LEMMA HistoryLive ==
    ASSUME TypeOK, NEW k \in SyncId, NEW size
    PROVE  \A m \in History(k, size) : m \in Live /\ m \in 1..posted /\ EntryOf(m) \in Entry
<1> SUFFICES ASSUME NEW m \in History(k, size)
             PROVE  m \in Live /\ m \in 1..posted /\ EntryOf(m) \in Entry
  OBVIOUS
<1>1. m \in Live
  BY DEF History, Unread
<1>2. m \in 1..posted /\ m \in Msg
  BY <1>1, PostedMsg DEF Live
<1>3. place[m] \in Place /\ text[m] \in Text
  BY <1>2 DEF TypeOK
<1> QED
  BY <1>1, <1>2, <1>3 DEF EntryOf, Entry

-----------------------------------------------------------------------------
(***************************************************************************)
(* The listeners.                                                          *)
(***************************************************************************)
\* What Spawn adds is a task with something to do.
LEMMA SpawnTyped ==
    ASSUME TypeOK, NEW m \in Msg, NEW ops \in Seq(Op), Spawn(m, ops)
    PROVE  /\ tasks' \subseteq Task
           /\ \A t \in tasks' : t \in tasks \/ (t.msg = m /\ t.ops = ops /\ ops # <<>>)
<1>1. posted + edits \in Nat
  BY DEF TypeOK
<1>2. [msg |-> m, nr |-> posted + edits, ops |-> ops] \in Task
  BY <1>1 DEF Task
<1> QED
  BY <1>2 DEF Spawn, TypeOK

LEMMA InitIInv == Init => IInv
<1> SUFFICES ASSUME Init PROVE IInv
  OBVIOUS
<1>1. Off \in Sync /\ Off.page = {} /\ Off.phase = "off" /\ Off.orphans = {}
  BY DEF Off, Sync
<1>2. /\ syncs \in [SyncId -> Sync]
      /\ \A k \in SyncId : syncs[k].page = {} /\ syncs[k].phase = "off" /\ syncs[k].orphans = {}
  BY <1>1 DEF Init
<1>3. place \in [Msg -> Place] /\ text \in [Msg -> Text] /\ named \in [Msg -> SUBSET People]
  BY DEF Init, Place, Text
<1>4. posted \in 0..MaxMessages /\ edits \in 0..MaxEdits /\ forced \in 0..MaxForced
      /\ faults \in 0..MaxFaults
  BY BoundsAssumption DEF Init
<1>5. TypeOK
  BY <1>2, <1>3, <1>4 DEF Init, TypeOK, Live
<1>6. Bound /\ RowsJustified /\ CallsJustified /\ PagesJustified /\ NamedNow
  BY <1>2 DEF Init, Bound, RowsJustified, CallsJustified, PagesJustified, NamedNow
<1> QED
  BY <1>5, <1>6 DEF IInv

LEMMA PostKeeps ==
    ASSUME IInv, NEW pl \in Places, NEW t \in Texts, Post(pl, t)
    PROVE  IInv'
<1> DEFINE m == posted + 1
<1>1. /\ posted' = m /\ place' = [place EXCEPT ![m] = pl] /\ text' = [text EXCEPT ![m] = t]
      /\ named' = [named EXCEPT ![m] = Names(pl, t)]
      /\ dirty' \subseteq dirty \cup {m}
      /\ cached' \subseteq cached \cup {m}
      /\ tasks' = tasks \/ Spawn(m, PostOps(m, pl, t))
      /\ UNCHANGED <<gone, edits, rows, link, synced, syncs, forced, faults>>
  BY DEF Post
<1>2. /\ TypeOK /\ pl \in Place /\ t \in Text /\ posted < MaxMessages /\ posted \in Nat
      /\ m \in Msg /\ m \in 1..m /\ 1..posted \subseteq 1..m /\ m \notin 1..posted
      /\ 1..posted \subseteq Msg /\ m \in 0..MaxMessages
  BY InputAssumption, BoundsAssumption, PostedMsg DEF IInv, TypeOK, Post, Msg
<1>3. PostOps(m, pl, t) \in Seq(Op) /\ Names(pl, t) \subseteq People
  BY <1>2, PostOpsJustified DEF Names, Text
<1>4. /\ tasks' \subseteq Task
      /\ \A x \in tasks' : x \in tasks \/ (x.msg = m /\ x.ops = PostOps(m, pl, t) /\ x.ops # <<>>)
  BY <1>1, <1>2, <1>3, SpawnTyped DEF TypeOK
<1> HIDE DEF m
<1>5. /\ named'[m] = Names(pl, t) /\ place'[m] = pl /\ text'[m] = t
      /\ \A i \in 1..posted : /\ named'[i] = named[i] /\ place'[i] = place[i]
                              /\ text'[i] = text[i]
  BY <1>1, <1>2 DEF TypeOK
<1>6. TypeOK'
  <2>1. Live' = Live \cup {m}
    BY <1>1, <1>2 DEF Live, TypeOK, m
  <2> QED
    BY <1>1, <1>2, <1>3, <1>4, <2>1 DEF TypeOK
<1>7. Bound'
  BY <1>1, <1>2, <1>4 DEF IInv, Bound
<1>8. RowsJustified'
  BY <1>1, <1>2, <1>5 DEF IInv, RowsJustified, TypeOK
<1>9. CallsJustified'
  <2> SUFFICES ASSUME NEW x \in tasks', NEW i \in 1..Len(x.ops), x.ops[i].kind = "add"
               PROVE  x.ops[i].who \subseteq named'[x.msg]
    BY DEF CallsJustified
  <2>1. CASE x \in tasks
    BY <2>1, <1>5 DEF IInv, CallsJustified, Bound
  <2>2. CASE x \notin tasks
    BY <2>2, <1>2, <1>4, <1>5, PostOpsJustified
  <2> QED
    BY <2>1, <2>2
<1>10. PagesJustified'
  BY <1>1, <1>5 DEF IInv, PagesJustified, Bound
<1>11. NamedNow'
  <2> SUFFICES ASSUME NEW i \in 1..m PROVE Names(place'[i], text'[i]) \subseteq named'[i]
    BY <1>1 DEF NamedNow
  <2>1. i = m \/ i \in 1..posted
    BY <1>2 DEF m
  <2> QED
    BY <2>1, <1>5 DEF IInv, NamedNow
<1> QED
  BY <1>6, <1>7, <1>8, <1>9, <1>10, <1>11 DEF IInv

LEMMA EditKeeps ==
    ASSUME IInv, NEW m \in Msg, NEW t \in Texts, EditText(m, t)
    PROVE  IInv'
<1>1. /\ text' = [text EXCEPT ![m] = t]
      /\ named' = [named EXCEPT ![m] = @ \cup Names(place[m], t)]
      /\ dirty' \subseteq dirty \cup {m} /\ edits' = edits + 1 /\ edits < MaxEdits
      /\ tasks' = tasks \/ Spawn(m, EditOps(m, t))
      /\ UNCHANGED <<posted, place, gone, cached, rows, link, synced, syncs, forced, faults>>
  BY DEF EditText
<1>2. /\ TypeOK /\ t \in Text /\ m \in 1..posted /\ 1..posted \subseteq Msg
  BY InputAssumption, PostedMsg DEF IInv, EditText, Live
<1>3. EditOps(m, t) \in Seq(Op) /\ Names(place[m], t) \subseteq People
  BY <1>2, EditOpsJustified DEF Names, Text
<1>4. /\ tasks' \subseteq Task
      /\ \A x \in tasks' : x \in tasks \/ (x.msg = m /\ x.ops = EditOps(m, t) /\ x.ops # <<>>)
  BY <1>1, <1>2, <1>3, SpawnTyped DEF TypeOK
<1>5. /\ named' \in [Msg -> SUBSET People] /\ text' \in [Msg -> Text]
      /\ Names(place[m], t) \subseteq named'[m] /\ text'[m] = t
      /\ \A i \in Msg : named[i] \subseteq named'[i] /\ (i # m => text'[i] = text[i])
  BY <1>1, <1>2, <1>3 DEF TypeOK
<1>6. TypeOK'
  <2>1. edits' \in 0..MaxEdits
    BY <1>1, <1>2, BoundsAssumption DEF TypeOK
  <2> QED
    BY <1>1, <1>2, <1>4, <1>5, <2>1 DEF TypeOK, Live
<1>7. Bound'
  BY <1>1, <1>2, <1>4 DEF IInv, Bound
<1>8. RowsJustified'
  <2> SUFFICES ASSUME NEW row \in rows PROVE row[1] \in named'[row[2]]
    BY <1>1 DEF RowsJustified
  <2>1. row[1] \in named[row[2]] /\ row[2] \in Msg
    BY <1>2 DEF IInv, RowsJustified, TypeOK
  <2> QED
    BY <2>1, <1>5
<1>9. CallsJustified'
  <2> SUFFICES ASSUME NEW x \in tasks', NEW i \in 1..Len(x.ops), x.ops[i].kind = "add"
               PROVE  x.ops[i].who \subseteq named'[x.msg]
    BY DEF CallsJustified
  <2>1. CASE x \in tasks
    BY <2>1, <1>2, <1>5 DEF IInv, CallsJustified, Bound
  <2>2. CASE x \notin tasks
    BY <2>2, <1>2, <1>4, <1>5, EditOpsJustified
  <2> QED
    BY <2>1, <2>2
<1>10. PagesJustified'
  BY <1>1, <1>2, <1>5 DEF IInv, PagesJustified, Bound
<1>11. NamedNow'
  BY <1>1, <1>2, <1>5 DEF IInv, NamedNow
<1> QED
  BY <1>6, <1>7, <1>8, <1>9, <1>10, <1>11 DEF IInv

LEMMA DeleteKeeps ==
    ASSUME IInv, NEW m \in Msg, Delete(m)
    PROVE  IInv'
<1> DEFINE ops == <<[kind |-> "purge", who |-> {}]>>
<1>1. /\ gone' = gone \cup {m} /\ cached' = cached \ {m}
      /\ dirty' \subseteq dirty \cup {m} /\ edits' = edits + 1 /\ edits < MaxEdits
      /\ tasks' = tasks \/ Spawn(m, ops)
      /\ UNCHANGED <<posted, place, text, named, rows, link, synced, syncs, forced, faults>>
  BY DEF Delete
<1>2. TypeOK /\ m \in 1..posted /\ 1..posted \subseteq Msg
  BY PostedMsg DEF IInv, Delete, Live
<1>3. ops \in Seq(Op) /\ (\A i \in 1..Len(ops) : ops[i].kind = "purge")
  BY DEF Op
<1> HIDE DEF ops
<1>4. /\ tasks' \subseteq Task
      /\ \A x \in tasks' : x \in tasks \/ (x.msg = m /\ x.ops = ops /\ x.ops # <<>>)
  BY <1>1, <1>2, <1>3, SpawnTyped DEF TypeOK
<1>5. TypeOK'
  <2>1. edits' \in 0..MaxEdits
    BY <1>1, <1>2, BoundsAssumption DEF TypeOK
  <2> QED
    BY <1>1, <1>2, <1>4, <2>1 DEF TypeOK, Live
<1>6. Bound'
  BY <1>1, <1>2, <1>4 DEF IInv, Bound
<1>7. RowsJustified' /\ PagesJustified' /\ NamedNow'
  BY <1>1 DEF IInv, RowsJustified, PagesJustified, NamedNow
<1>8. CallsJustified'
  BY <1>1, <1>3, <1>4 DEF IInv, CallsJustified
<1> QED
  BY <1>5, <1>6, <1>7, <1>8 DEF IInv

LEMMA TaskStepKeeps ==
    ASSUME IInv, NEW t \in tasks, TaskStep(t)
    PROVE  IInv'
<1> DEFINE rest == Tail(t.ops)
           left == [t EXCEPT !.ops = rest]
<1>1. /\ tasks' = (tasks \ {t}) \cup (IF rest = <<>> THEN {} ELSE {left})
      /\ rows' = Apply(Head(t.ops), t.msg) \/ rows' = rows
      /\ faults' = faults \/ Fault
      /\ dirty' \subseteq dirty \cup {t.msg}
      /\ UNCHANGED <<discord, link, synced, cached, syncs, forced>>
  BY DEF TaskStep
<1>2. /\ TypeOK /\ t \in Task /\ t.ops # <<>> /\ t.ops \in Seq(Op) /\ t.msg \in 1..posted
      /\ 1..posted \subseteq Msg
  BY PostedMsg DEF IInv, TypeOK, Bound, Task
<1>3. /\ Head(t.ops) \in Op /\ Head(t.ops) = t.ops[1] /\ 1 \in 1..Len(t.ops)
      /\ rest \in Seq(Op) /\ Len(rest) = Len(t.ops) - 1
      /\ \A i \in 1..Len(rest) : rest[i] = t.ops[i + 1] /\ i + 1 \in 1..Len(t.ops)
  BY <1>2
<1>4. left \in Task /\ left.msg = t.msg /\ left.ops = rest
  BY <1>2, <1>3 DEF Task
<1> HIDE DEF rest, left
<1>5. /\ rows' \subseteq People \X (1..posted)
      /\ \A row \in rows' :
           \/ row \in rows
           \/ Head(t.ops).kind = "add" /\ row[1] \in Head(t.ops).who /\ row[2] = t.msg
  <2>1. CASE rows' = rows
    BY <2>1, <1>2 DEF TypeOK
  <2>2. CASE rows' = Apply(Head(t.ops), t.msg)
    BY <2>2, <1>2, <1>3, RowsApplied
  <2> QED
    BY <1>1, <2>1, <2>2
<1>6. tasks' \subseteq Task /\ \A x \in tasks' : x \in tasks \/ (x = left /\ rest # <<>>)
  BY <1>1, <1>2, <1>4 DEF TypeOK
<1>7. faults' \in 0..MaxFaults
  BY <1>1, <1>2, BoundsAssumption DEF Fault, TypeOK
<1>8. TypeOK'
  BY <1>1, <1>2, <1>5, <1>6, <1>7 DEF TypeOK, discord, Live
<1>9. Bound'
  BY <1>1, <1>2, <1>4, <1>6 DEF IInv, Bound, discord
<1>10. RowsJustified'
  BY <1>1, <1>2, <1>3, <1>5 DEF IInv, RowsJustified, CallsJustified, discord
<1>11. CallsJustified'
  <2> SUFFICES ASSUME NEW x \in tasks', NEW i \in 1..Len(x.ops), x.ops[i].kind = "add"
               PROVE  x.ops[i].who \subseteq named[x.msg]
    BY <1>1 DEF CallsJustified, discord
  <2>1. CASE x \in tasks
    BY <2>1 DEF IInv, CallsJustified
  <2>2. CASE x = left
    BY <2>2, <1>3, <1>4 DEF IInv, CallsJustified
  <2> QED
    BY <1>6, <2>1, <2>2
<1>12. PagesJustified' /\ NamedNow'
  BY <1>1 DEF IInv, PagesJustified, NamedNow, discord
<1> QED
  BY <1>8, <1>9, <1>10, <1>11, <1>12 DEF IInv

-----------------------------------------------------------------------------
(***************************************************************************)
(* The process and its gateway session.                                    *)
(***************************************************************************)
\* A sync that may take the place of another.
GoodSync(s) ==
    /\ s \in Sync
    /\ s.phase = "scan" <=> s.page # {}
    /\ s.phase = "clean" <=> s.orphans # {}
    /\ \A e \in s.page : e.id \in 1..posted /\ Names(e.place, e.text) \subseteq named[e.id]

LEMMA GoodSyncs ==
    ASSUME IInv
    PROVE  \A k \in SyncId : GoodSync(syncs[k])
  BY DEF IInv, TypeOK, Bound, PagesJustified, GoodSync

\* A sync that starts has read nothing.
LEMMA StartGood ==
    ASSUME NEW phase \in {"off", "fetch", "orphans"}
    PROVE  GoodSync([Off EXCEPT !.phase = phase])
  BY DEF GoodSync, Off, Sync

\* What the rest of the system does not touch stays as it was.
LEMMA SyncsKeep ==
    ASSUME IInv, UNCHANGED discord,
           syncs' \in [SyncId -> Sync], \A k \in SyncId : GoodSync(syncs'[k]),
           tasks' \subseteq tasks, cached' \subseteq cached,
           link' \in {"down", "lost", "up"}, synced' \in BOOLEAN,
           forced' \in 0..MaxForced, faults' \in 0..MaxFaults, dirty' \subseteq Msg,
           rows' \subseteq People \X (1..posted),
           \A row \in rows' : row[1] \in named[row[2]]
    PROVE  IInv'
<1>1. TypeOK'
  BY DEF IInv, TypeOK, discord, GoodSync, Live
<1>2. Bound' /\ PagesJustified'
  BY DEF IInv, Bound, PagesJustified, discord, GoodSync
<1>3. RowsJustified' /\ CallsJustified' /\ NamedNow'
  BY DEF IInv, RowsJustified, CallsJustified, NamedNow, discord
<1> QED
  BY <1>1, <1>2, <1>3 DEF IInv

\* The rows that were there stay where they belong.
LEMMA RowsStay ==
    ASSUME IInv
    PROVE  rows \subseteq People \X (1..posted) /\ \A row \in rows : row[1] \in named[row[2]]
  BY DEF IInv, TypeOK, RowsJustified

LEMMA FaultCounted ==
    ASSUME TypeOK, Fault \/ UNCHANGED faults
    PROVE  faults' \in 0..MaxFaults
  BY BoundsAssumption DEF Fault, TypeOK

LEMMA BeginGood ==
    ASSUME IInv, NEW k \in SyncId, NEW known \in BOOLEAN, Begin(k, known)
    PROVE  syncs' \in [SyncId -> Sync] /\ \A i \in SyncId : GoodSync(syncs'[i])
<1> DEFINE s == [Off EXCEPT !.phase = IF known THEN "fetch" ELSE "orphans"]
<1>1. GoodSync(s)
  BY StartGood
<1>2. syncs' = [syncs EXCEPT ![k] = s] /\ syncs \in [SyncId -> Sync]
  BY DEF Begin, IInv, TypeOK
<1> HIDE DEF s
<1> QED
  BY <1>1, <1>2, GoodSyncs DEF GoodSync

LEMMA ProcessKeeps ==
    ASSUME IInv, Boot \/ Ready \/ Disconnect \/ Crash \/ ForceSync
    PROVE  IInv'
<1>1. /\ TypeOK /\ 1..posted \subseteq Msg
      /\ rows \subseteq People \X (1..posted) /\ \A row \in rows : row[1] \in named[row[2]]
  BY RowsStay, PostedMsg DEF IInv
<1>2. syncs \in [SyncId -> Sync] /\ \A k \in SyncId : GoodSync(syncs[k])
  BY <1>1, GoodSyncs DEF TypeOK
<1>3. CASE Boot
  BY <1>1, <1>2, <1>3, SyncsKeep DEF Boot, TypeOK
<1>4. CASE Ready
  <2>1. syncs' \in [SyncId -> Sync] /\ \A k \in SyncId : GoodSync(syncs'[k])
    BY <1>2, <1>4, BeginGood DEF Ready, GoodSync, SyncId
  <2>2. dirty' \subseteq Msg
    BY <1>1, <1>4 DEF Ready, Overlooked, TypeOK
  <2> QED
    BY <1>1, <1>4, <2>1, <2>2, SyncsKeep DEF Ready, TypeOK
<1>5. CASE Disconnect
  BY <1>1, <1>2, <1>5, FaultCounted, SyncsKeep DEF Disconnect, TypeOK
<1>6. CASE Crash
  <2>1. GoodSync(Off)
    BY DEF GoodSync, Off, Sync
  <2>2. syncs' \in [SyncId -> Sync] /\ \A k \in SyncId : GoodSync(syncs'[k])
    BY <1>6, <2>1 DEF Crash, GoodSync
  <2>3. dirty' \subseteq Msg
    BY <1>1, <1>6 DEF Crash, IInv, Bound, TypeOK
  <2> QED
    BY <1>1, <1>6, <2>2, <2>3, FaultCounted, SyncsKeep DEF Crash, TypeOK
<1>7. CASE ForceSync
  <2>1. syncs' \in [SyncId -> Sync] /\ \A k \in SyncId : GoodSync(syncs'[k])
    BY <1>1, <1>7, BeginGood DEF ForceSync, SyncId, TypeOK
  <2>2. dirty' \subseteq Msg /\ forced' \in 0..MaxForced
    BY <1>1, <1>7, BoundsAssumption DEF ForceSync, Overlooked, TypeOK
  <2> QED
    BY <1>1, <1>7, <2>1, <2>2, SyncsKeep DEF ForceSync, TypeOK
<1> QED
  BY <1>3, <1>4, <1>5, <1>6, <1>7

-----------------------------------------------------------------------------
(***************************************************************************)
(* The stages of a sync.                                                   *)
(***************************************************************************)
\* A step of one sync that leaves the rest of the system alone, but for rows
\* it may write and a fault it may meet.
LEMMA StageKeeps ==
    ASSUME IInv, NEW k \in SyncId, NEW s, GoodSync(s), Set(k, s),
           UNCHANGED <<discord, link, synced, cached, tasks, forced>>,
           Fault \/ UNCHANGED faults, dirty' \subseteq dirty \cup (1..posted),
           rows' \subseteq People \X (1..posted),
           \A row \in rows' : row[1] \in named[row[2]]
    PROVE  IInv'
<1>1. TypeOK /\ 1..posted \subseteq Msg /\ faults' \in 0..MaxFaults
  BY PostedMsg, FaultCounted DEF IInv
<1>2. syncs' \in [SyncId -> Sync] /\ \A i \in SyncId : GoodSync(syncs'[i])
  BY <1>1, GoodSyncs DEF Set, GoodSync, TypeOK
<1> QED
  BY <1>1, <1>2, SyncsKeep DEF TypeOK

LEMMA FetchKeeps ==
    ASSUME IInv, NEW k \in SyncId, Fetch(k)
    PROVE  IInv'
<1> DEFINE left == ScanLimit - Cardinality(syncs[k].valid)
           size == IF left < PageSize THEN left ELSE PageSize
           page == {EntryOf(m) : m \in History(k, size)}
           more == Cardinality(page) = PageSize /\ PageSize < left
           phase == IF page = {} THEN "orphans" ELSE "scan"
           s == [syncs[k] EXCEPT !.page = page, !.more = more, !.phase = phase]
<1>1. /\ TypeOK /\ GoodSync(syncs[k]) /\ syncs[k].phase = "fetch"
      /\ Set(k, s) /\ UNCHANGED <<discord, rows, link, synced, cached, tasks, forced, faults, dirty>>
  BY GoodSyncs DEF IInv, Fetch, In
<1>2. more \in BOOLEAN /\ phase \in {"orphans", "scan"}
  OBVIOUS
<1>3. /\ page \subseteq Entry
      /\ \A e \in page : e.id \in 1..posted /\ Names(e.place, e.text) \subseteq named[e.id]
  <2> SUFFICES ASSUME NEW m \in History(k, size)
               PROVE  /\ EntryOf(m) \in Entry /\ m \in 1..posted
                      /\ Names(place[m], text[m]) \subseteq named[m]
    BY DEF EntryOf
  <2> QED
    BY <1>1, HistoryLive DEF IInv, NamedNow
<1>4. page # {} <=> phase = "scan"
  OBVIOUS
<1> HIDE DEF page, more, phase
<1>5. s \in Sync /\ s.page = page /\ s.phase = phase /\ s.orphans = syncs[k].orphans
  BY <1>1, <1>2, <1>3 DEF GoodSync, Sync
<1> HIDE DEF s
<1>6. GoodSync(s)
  BY <1>1, <1>2, <1>3, <1>4, <1>5 DEF GoodSync
<1> QED
  BY <1>1, <1>6, RowsStay, StageKeeps

LEMMA FetchFailsKeeps ==
    ASSUME IInv, NEW k \in SyncId, FetchFails(k)
    PROVE  IInv'
<1> DEFINE s == [syncs[k] EXCEPT !.phase = "orphans"]
<1>1. GoodSync(syncs[k]) /\ syncs[k].phase = "fetch"
  BY GoodSyncs DEF FetchFails, In
<1>2. GoodSync(s)
  BY <1>1 DEF GoodSync, Sync
<1> QED
  BY <1>2, RowsStay, StageKeeps DEF FetchFails

LEMMA ScanKeeps ==
    ASSUME IInv, NEW k \in SyncId, Scan(k)
    PROVE  IInv'
<1>1. /\ TypeOK /\ GoodSync(syncs[k]) /\ syncs[k].phase = "scan"
      /\ UNCHANGED <<discord, link, synced, cached, tasks, forced, dirty>>
  BY GoodSyncs DEF IInv, Scan, In
<1>2. PICK entry \in syncs[k].page : ScanOne(k, entry)
  BY DEF Scan
<1> DEFINE page == syncs[k].page \ {entry}
           phase == IF syncs[k].page # {entry} THEN "scan"
                    ELSE IF syncs[k].more THEN "fetch" ELSE "orphans"
           s == [syncs[k] EXCEPT !.valid = @ \cup {entry.id}, !.page = page, !.phase = phase]
<1>3. /\ entry \in Entry /\ entry.id \in 1..posted /\ entry.id \in Msg
      /\ Names(entry.place, entry.text) \subseteq named[entry.id]
      /\ entry.place \in Place /\ entry.text \in Text
  BY <1>1 DEF GoodSync, Sync, Entry
<1>4. Set(k, s)
  BY <1>2 DEF ScanOne, Set
<1>5. GoodSync(s)
  <2>1. phase \in {"scan", "fetch", "orphans"} /\ (phase = "scan" <=> page # {})
    BY <1>2
  <2> HIDE DEF phase, page
  <2>2. page \subseteq syncs[k].page
    BY DEF page
  <2>3. s \in Sync /\ s.page = page /\ s.phase = phase /\ s.orphans = syncs[k].orphans
    BY <1>1, <1>3, <2>1, <2>2 DEF GoodSync, Sync
  <2> HIDE DEF s
  <2> QED
    BY <1>1, <2>1, <2>2, <2>3 DEF GoodSync
<1>6. /\ rows' \subseteq People \X (1..posted)
      /\ \A row \in rows' : row[1] \in named[row[2]]
  <2>1. CASE rows' = rows
    BY <2>1, RowsStay
  <2>2. CASE entry.place.open /\ rows' = AddEntries(Passengers(entry.text), entry.id)
    <3>1. Passengers(entry.text) \in SUBSET People
          /\ Passengers(entry.text) \subseteq named[entry.id]
      BY <1>3, <2>2, PassengersType, PassengersNamed
    <3> QED
      BY <1>1, <1>3, <2>2, <3>1, RowsAdded, RowsStay
  <2> QED
    BY <1>2, <2>1, <2>2 DEF ScanOne
<1>7. Fault \/ UNCHANGED faults
  BY <1>2 DEF ScanOne
<1> HIDE DEF s
<1> QED
  BY <1>1, <1>4, <1>5, <1>6, <1>7, StageKeeps

LEMMA FindOrphansKeeps ==
    ASSUME IInv, NEW k \in SyncId, FindOrphans(k)
    PROVE  IInv'
<1>1. /\ TypeOK /\ GoodSync(syncs[k]) /\ syncs[k].phase = "orphans" /\ 1..posted \subseteq Msg
      /\ UNCHANGED <<discord, rows, link, synced, cached, tasks, forced, dirty>>
  BY GoodSyncs, PostedMsg DEF IInv, FindOrphans, In
<1>2. PICK found \in {{row[2] : row \in rows} \ syncs[k].valid, {}} :
          /\ Set(k, IF found = {} THEN Off
                    ELSE [syncs[k] EXCEPT !.orphans = found, !.phase = "clean"])
          /\ Fault \/ UNCHANGED faults
  BY DEF FindOrphans
<1>3. found \subseteq Msg
  BY <1>1, <1>2 DEF TypeOK
<1>4. GoodSync(Off)
  BY DEF GoodSync, Off, Sync
<1>5. found # {} => GoodSync([syncs[k] EXCEPT !.orphans = found, !.phase = "clean"])
  BY <1>1, <1>3 DEF GoodSync, Sync
<1> QED
  BY <1>1, <1>2, <1>4, <1>5, RowsStay, StageKeeps

LEMMA DeleteOrphanKeeps ==
    ASSUME IInv, NEW k \in SyncId, DeleteOrphan(k)
    PROVE  IInv'
<1>1. /\ TypeOK /\ GoodSync(syncs[k]) /\ syncs[k].phase = "clean"
      /\ UNCHANGED <<discord, link, synced, cached, tasks, forced, dirty>>
  BY GoodSyncs DEF IInv, DeleteOrphan, In
<1>2. rows' \subseteq rows /\ (Fault \/ UNCHANGED faults)
  BY DEF DeleteOrphan, Purge
<1>3. GoodSync(Off)
  BY DEF GoodSync, Off, Sync
<1>4. PICK s : Set(k, s) /\ GoodSync(s)
  <2>1. CASE Set(k, Off)
    BY <1>3, <2>1
  <2>2. ASSUME NEW m \in syncs[k].orphans, syncs[k].orphans # {m},
               Set(k, [syncs[k] EXCEPT !.orphans = @ \ {m}])
        PROVE  GoodSync([syncs[k] EXCEPT !.orphans = @ \ {m}])
    BY <1>1, <2>2 DEF GoodSync, Sync
  <2> QED
    BY <2>1, <2>2 DEF DeleteOrphan
<1> QED
  BY <1>1, <1>2, <1>4, RowsStay, StageKeeps

-----------------------------------------------------------------------------
(***************************************************************************)
(* The theorems.                                                           *)
(***************************************************************************)
LEMMA StepKeeps == IInv /\ [Next]_vars => IInv'
<1> SUFFICES ASSUME IInv, [Next]_vars PROVE IInv'
  OBVIOUS
<1>1. CASE UNCHANGED vars
  BY <1>1 DEF IInv, TypeOK, Bound, RowsJustified, CallsJustified, PagesJustified, NamedNow,
              vars, Live, Msg, Sync, Entry, Task
<1>2. ASSUME NEW k \in SyncId, SyncStep(k) PROVE IInv'
  BY <1>2, FetchKeeps, FetchFailsKeeps, ScanKeeps, FindOrphansKeeps, DeleteOrphanKeeps
     DEF SyncStep
<1> QED
  BY <1>1, <1>2, PostKeeps, EditKeeps, DeleteKeeps, TaskStepKeeps, ProcessKeeps DEF Next

\* Every variable keeps its type, a sync has a page to look at exactly while it
\* scans and orphans to delete exactly while it cleans up.
THEOREM TypeCorrect == Spec => []TypeOK
<1>1. IInv => TypeOK
  BY DEF IInv
<1> QED
  BY <1>1, InitIInv, StepKeeps, PTL DEF Spec

\* No interleaving of listeners, syncs, crashes and lost sessions makes the
\* table hold a passenger whom no version of the message has named.
THEOREM RowsAreJustified == Spec => []RowsJustified
<1>1. IInv => RowsJustified
  BY DEF IInv
<1> QED
  BY <1>1, InitIInv, StepKeeps, PTL DEF Spec

-----------------------------------------------------------------------------
(***************************************************************************)
(* A message that nothing disturbed has exactly its passengers in the      *)
(* table once its listener call is over: the proof that RideCoverage has   *)
(* the invariant CleanIsCovered, whatever syncs and crashes do meanwhile.  *)
(***************************************************************************)

(***************************************************************************)
(* The inductive invariant, on top of IInv.                                *)
(***************************************************************************)
PurgeAll == <<[kind |-> "purge", who |-> {}]>>

\* What the one listener call of a clean message still has to do: purge the rows
\* of a message that is gone, or add the passengers `a` its new text has and
\* remove those `r` it has no more.  A sync may have added them already.
Owed(m, ops) ==
    \/ m \in gone /\ ops = PurgeAll
    \/ /\ m \in Live
       /\ \E a \in SUBSET Expected(m), r \in SUBSET (People \ Expected(m)) :
             /\ ops = Calls("add", a) \o Calls("remove", r)
             /\ RowsOf(m) \in {(Expected(m) \ a) \cup r, Expected(m) \cup r}

Settled(m) ==
    \/ TasksOf(m) = {} /\ RowsOf(m) = Expected(m)
    \/ \E t \in tasks : TasksOf(m) = {t} /\ Owed(m, t.ops)

\* A scan goes through the history in order and has not reached its limit as
\* long as it means to read on.
InOrder(s) ==
    /\ s.valid \subseteq 1..posted
    /\ \A e \in s.page : \A v \in s.valid : v < e.id
    /\ \A e, f \in s.page : e.id = f.id => e = f
    /\ s.phase = "fetch" => Cardinality(s.valid) < ScanLimit
    /\ s.phase = "scan" /\ s.more => Cardinality(s.valid) + Cardinality(s.page) < ScanLimit

\* A sync has read a message, is about to, or has passed it by without harm.
Reached(s, m) ==
    /\ s.phase = "fetch" => m \in s.valid \/ \A v \in s.valid : v < m
    /\ s.phase = "scan" =>
          \/ m \in s.valid
          \/ \E e \in s.page : e.id = m
          \/ s.more /\ (\A v \in s.valid : v < m) /\ \A e \in s.page : e.id < m
    /\ s.phase = "orphans" => m \in s.valid
    /\ s.phase = "clean" => m \notin s.orphans

\* A clean message a sync meets is live and has not changed since.
Followed(s, m) ==
    /\ s.phase # "off" => place[m].channel = "rides"
    /\ \A e \in s.page : e.id = m => m \in Live /\ e = EntryOf(m)
    /\ m \in Live => Reached(s, m)

Ordered == \A k \in SyncId : InOrder(syncs[k])

CleanKept ==
    posted <= ScanLimit =>
        \A m \in (1..posted) \ dirty : Settled(m) /\ \A k \in SyncId : Followed(syncs[k], m)

CInv == IInv /\ Ordered /\ CleanKept

-----------------------------------------------------------------------------
(***************************************************************************)
(* The history a scan reads.                                               *)
(***************************************************************************)
LEMMA LeastOf ==
    ASSUME NEW T \in SUBSET Nat, T # {}
    PROVE  \E x \in T : \A y \in T : x <= y
<1>1. PICK x \in T : \A y \in T : ~(<<y, x>> \in OpToRel(<, Nat))
  BY WFMin, NatLessThanWellFounded
<1>2. \A y \in T : ~(y < x)
  BY <1>1 DEF OpToRel
<1> QED
  BY <1>2

LEMMA GreatestOf ==
    ASSUME NEW n \in Nat, NEW T \in SUBSET (0..n), T # {}
    PROVE  \E x \in T : \A y \in T : y <= x
<1> DEFINE above == {i \in Nat : \A y \in T : y <= i}
<1>1. n \in above
  OBVIOUS
<1>2. PICK x \in above : \A i \in above : x <= i
  BY <1>1, LeastOf
<1>3. CASE x \in T
  BY <1>3, <1>2
<1>4. CASE x \notin T
  <2>1. \A y \in T : y < x /\ 0 <= y
    BY <1>2, <1>4
  <2>2. PICK z \in T : TRUE
    OBVIOUS
  <2>3. x - 1 \in above
    BY <1>2, <2>1, <2>2
  <2> QED
    BY <1>2, <2>3
<1> QED
  BY <1>3, <1>4

LEMMA UnreadPosted ==
    ASSUME TypeOK, NEW k \in SyncId
    PROVE  Unread(k) \subseteq 1..posted /\ posted \in Nat
  BY DEF TypeOK, Unread, Live

\* How many messages a scan has to read up to one of them.
LEMMA RankGrows ==
    ASSUME TypeOK, NEW k \in SyncId, NEW i \in 1..posted, NEW j \in 1..posted, i <= j
    PROVE  /\ IsFiniteSet({x \in Unread(k) : x <= i})
           /\ Cardinality({x \in Unread(k) : x <= i}) \in Nat
           /\ Cardinality({x \in Unread(k) : x <= j}) \in Nat
           /\ Cardinality({x \in Unread(k) : x <= i}) <= Cardinality({x \in Unread(k) : x <= j})
<1> DEFINE upto == {x \in Unread(k) : x <= i}
           beyond == {x \in Unread(k) : x <= j}
<1>1. IsFiniteSet(1..posted)
  BY FS_Interval DEF TypeOK
<1>2. upto \subseteq beyond /\ beyond \subseteq 1..posted
  BY UnreadPosted
<1> HIDE DEF upto, beyond
<1>3. IsFiniteSet(beyond) /\ IsFiniteSet(upto)
  BY <1>1, <1>2, FS_Subset
<1>4. Cardinality(upto) <= Cardinality(beyond)
  BY <1>2, <1>3, FS_Subset
<1>5. Cardinality(upto) \in Nat /\ Cardinality(beyond) \in Nat
  BY <1>3, FS_CardinalityType
<1> QED
  BY <1>3, <1>4, <1>5 DEF upto, beyond

\* The messages not read are later than those read.
LEMMA HistoryFirst ==
    ASSUME TypeOK, NEW k \in SyncId, NEW size \in Int,
           NEW m \in Unread(k) \ History(k, size), NEW h \in History(k, size)
    PROVE  h < m
<1>1. m \in 1..posted /\ h \in 1..posted /\ posted \in Nat /\ h \in Unread(k)
  BY UnreadPosted DEF History
<1>2. /\ Cardinality({i \in Unread(k) : i <= h}) <= size
      /\ ~(Cardinality({i \in Unread(k) : i <= m}) <= size)
  BY DEF History
<1>3. SUFFICES ASSUME m <= h PROVE FALSE
  BY <1>1
<1> QED
  BY <1>1, <1>2, <1>3, RankGrows

\* No more messages are read than asked for.
LEMMA HistoryBounded ==
    ASSUME TypeOK, NEW k \in SyncId, NEW size \in Nat
    PROVE  /\ IsFiniteSet(History(k, size)) /\ History(k, size) \subseteq Unread(k)
           /\ Cardinality(History(k, size)) \in Nat
           /\ Cardinality(History(k, size)) <= size
<1> DEFINE read == History(k, size)
<1>1. read \subseteq Unread(k) /\ read \subseteq 1..posted /\ posted \in Nat
  BY UnreadPosted DEF History
<1>2. IsFiniteSet(1..posted)
  BY <1>1, FS_Interval
<1>3. IsFiniteSet(read) /\ Cardinality(read) \in Nat
  BY <1>1, <1>2, FS_Subset, FS_CardinalityType
<1>4. CASE read = {}
  BY <1>1, <1>3, <1>4, FS_EmptySet
<1>5. CASE read # {}
  <2>1. read \subseteq 0..posted
    BY <1>1
  <2>2. PICK x \in read : \A y \in read : y <= x
    BY <1>1, <1>5, <2>1, GreatestOf
  <2> DEFINE rank == {i \in Unread(k) : i <= x}
  <2>3. Cardinality(rank) <= size
    BY <2>2 DEF History
  <2>4. read \subseteq rank
    BY <1>1, <2>2
  <2>5. IsFiniteSet(rank) /\ Cardinality(rank) \in Nat
    BY <1>1, <2>2, RankGrows
  <2> HIDE DEF rank, read
  <2>6. Cardinality(read) <= Cardinality(rank)
    BY <2>4, <2>5, FS_Subset
  <2> QED
    BY <1>1, <1>3, <2>3, <2>5, <2>6 DEF read
<1> QED
  BY <1>4, <1>5

\* As many as asked for are read if any is left.
LEMMA HistoryFull ==
    ASSUME TypeOK, NEW k \in SyncId, NEW size \in Nat, NEW m \in Unread(k) \ History(k, size)
    PROVE  Cardinality(History(k, size)) = size
<1> DEFINE read == History(k, size)
           rest == Unread(k) \ read
<1>1. /\ IsFiniteSet(read) /\ Cardinality(read) \in Nat /\ Cardinality(read) <= size
      /\ Unread(k) \subseteq 1..posted /\ posted \in Nat
  BY HistoryBounded, UnreadPosted
<1>2. rest # {} /\ rest \subseteq Nat
  BY <1>1
<1>3. PICK x \in rest : \A y \in rest : x <= y
  BY <1>2, LeastOf
<1> DEFINE rank == {i \in Unread(k) : i <= x}
<1>4. IsFiniteSet(rank) /\ Cardinality(rank) \in Nat
  BY <1>1, <1>3, RankGrows
<1>5. ~(Cardinality(rank) <= size)
  BY <1>3 DEF History
<1>6. x \in rank /\ rank \ {x} \subseteq read
  BY <1>1, <1>3
<1> HIDE DEF rank, read
<1>7. IsFiniteSet(rank \ {x}) /\ Cardinality(rank \ {x}) = Cardinality(rank) - 1
  BY <1>4, <1>6, FS_RemoveElement
<1>8. Cardinality(rank \ {x}) <= Cardinality(read)
  BY <1>1, <1>6, FS_Subset
<1>9. Cardinality(read) = size
  BY <1>1, <1>4, <1>5, <1>7, <1>8
<1> QED
  BY <1>9 DEF read

\* A page has one entry for each message.
LEMMA PageSized ==
    ASSUME NEW H, IsFiniteSet(H)
    PROVE  Cardinality({EntryOf(m) : m \in H}) = Cardinality(H)
<1> DEFINE page == {EntryOf(m) : m \in H}
           f == [m \in H |-> EntryOf(m)]
<1>1. f \in [H -> page] /\ \A e \in page : \E m \in H : f[m] = e
  OBVIOUS
<1>2. \A i, j \in H : f[i] = f[j] => i = j
  BY DEF EntryOf
<1> HIDE DEF f, page
<1>3. f \in Bijection(H, page)
  BY <1>1, <1>2 DEF Bijection, Injection, Surjection, IsInjective
<1>4. ExistsBijection(H, page)
  BY <1>3 DEF ExistsBijection
<1>5. Cardinality(page) = Cardinality(H)
  BY <1>4, FS_Bijection
<1> QED
  BY <1>5 DEF page

\* So a page is finite, as long as the messages it is about are.
LEMMA PageFinite ==
    ASSUME TypeOK, Bound, NEW k \in SyncId, InOrder(syncs[k])
    PROVE  IsFiniteSet(syncs[k].page) /\ Cardinality(syncs[k].page) \in Nat
<1> DEFINE page == syncs[k].page
           f == [e \in page |-> e.id]
<1>1. f \in [page -> 1..posted]
  BY DEF Bound
<1>2. \A d, e \in page : f[d] = f[e] => d = e
  BY DEF InOrder
<1>3. IsFiniteSet(1..posted)
  BY FS_Interval DEF TypeOK
<1> HIDE DEF f, page
<1>4. f \in Injection(page, 1..posted)
  BY <1>1, <1>2 DEF Injection, IsInjective
<1>5. IsFiniteSet(page)
  BY <1>3, <1>4, FS_Injection
<1> QED
  BY <1>5, FS_CardinalityType DEF page

-----------------------------------------------------------------------------
(***************************************************************************)
(* One message: what its listener call and a sync do to its rows.          *)
(***************************************************************************)
LEMMA ExpectedPeople ==
    ASSUME TypeOK, NEW m \in 1..posted
    PROVE  Expected(m) \subseteq People /\ (m \in gone => Expected(m) = {})
  BY PostedMsg DEF TypeOK, Expected, Names, Text, Live

LEMMA Pair ==
    ASSUME NEW S, NEW x \in S, NEW y \in S
    PROVE  <<x>> \o <<y>> = <<x, y>>
<1> DEFINE c == <<x>> \o <<y>>
<1>1. c \in Seq(S) /\ Len(c) = 2 /\ c[1] = x /\ c[2] = y
  OBVIOUS
<1> HIDE DEF c
<1>2. c = <<x, y>>
  BY <1>1
<1> QED
  BY <1>2 DEF c

LEMMA CallsSplit ==
    ASSUME NEW a \in SUBSET People, NEW r \in SUBSET People
    PROVE  LET ops == Calls("add", a) \o Calls("remove", r)
           IN  /\ a # {} => /\ ops # <<>> /\ Head(ops) = [kind |-> "add", who |-> a]
                            /\ Tail(ops) = Calls("remove", r)
               /\ a = {} /\ r # {} => /\ ops # <<>> /\ Tail(ops) = <<>>
                                      /\ Head(ops) = [kind |-> "remove", who |-> r]
               /\ a = {} /\ r = {} => ops = <<>>
               /\ a = {} => ops = Calls("remove", r)
<1> DEFINE add == [kind |-> "add", who |-> a]
           remove == [kind |-> "remove", who |-> r]
<1>1. add \in Op /\ remove \in Op
  BY DEF Op
<1>2. /\ Calls("add", a) = IF a = {} THEN <<>> ELSE <<add>>
      /\ Calls("remove", r) = IF r = {} THEN <<>> ELSE <<remove>>
  BY DEF Calls
<1> HIDE DEF add, remove
<1>3. /\ <<add>> \o <<>> = <<add>> /\ <<>> \o <<remove>> = <<remove>>
      /\ <<>> \o <<>> = <<>>
      /\ <<add>> # <<>> /\ <<remove>> # <<>> /\ <<add, remove>> # <<>>
      /\ Head(<<add>>) = add /\ Head(<<remove>>) = remove /\ Head(<<add, remove>>) = add
      /\ Tail(<<add>>) = <<>> /\ Tail(<<remove>>) = <<>> /\ Tail(<<add, remove>>) = <<remove>>
  BY <1>1
<1>4. <<add>> \o <<remove>> = <<add, remove>>
  BY <1>1, Pair
<1>5. CASE a = {}
  BY <1>2, <1>3, <1>5 DEF remove
<1>6. CASE a # {}
  BY <1>2, <1>3, <1>4, <1>6 DEF add
<1> QED
  BY <1>5, <1>6

\* What leaves a message, its rows and its call alone leaves it settled.
LEMMA SettledStays ==
    ASSUME NEW m, Settled(m), Expected(m)' = Expected(m), RowsOf(m)' = RowsOf(m),
           TasksOf(m)' = TasksOf(m), m \in gone => m \in gone', m \in Live => m \in Live'
    PROVE  Settled(m)'
<1>1. CASE TasksOf(m) = {} /\ RowsOf(m) = Expected(m)
  BY <1>1 DEF Settled
<1>2. ASSUME NEW t \in tasks, TasksOf(m) = {t}, Owed(m, t.ops)
      PROVE  Settled(m)'
  <2>1. t \in tasks' /\ TasksOf(m)' = {t}
    BY <1>2 DEF TasksOf
  <2>2. Owed(m, t.ops)'
    BY <1>2 DEF Owed
  <2> QED
    BY <2>1, <2>2 DEF Settled
<1> QED
  BY <1>1, <1>2 DEF Settled

\* The rows of one message do not depend on what is written about another.
LEMMA RowsElsewhere ==
    ASSUME NEW m, NEW i, i # m, NEW who,
           \/ rows' = rows
           \/ rows' = AddEntries(who, i)
           \/ rows' = rows \ (who \X {i})
           \/ rows' = Purge(i)
    PROVE  RowsOf(m)' = RowsOf(m)
  BY DEF RowsOf, AddEntries, Purge

LEMMA RowsHere ==
    ASSUME NEW m, NEW who \in SUBSET People
    PROVE  /\ rows' = AddEntries(who, m) =>
                RowsOf(m)' = IF who \cap RowsOf(m) = {} THEN RowsOf(m) \cup who ELSE RowsOf(m)
           /\ rows' = rows \ (who \X {m}) => RowsOf(m)' = RowsOf(m) \ who
           /\ rows' = Purge(m) => RowsOf(m)' = {}
  BY DEF RowsOf, AddEntries, Purge

\* A sync that comes to a message, with its text as it is, adds what the table
\* lacks altogether, and nothing if it has a part of it.
LEMMA SyncAdds ==
    ASSUME TypeOK, NEW m \in 1..posted, Settled(m), m \in Live,
           UNCHANGED <<posted, place, text, gone, tasks>>, rows' = AddEntries(Expected(m), m)
    PROVE  Settled(m)'
<1>1. /\ Expected(m)' = Expected(m) /\ TasksOf(m)' = TasksOf(m) /\ m \in Live'
      /\ Expected(m) \subseteq People
  BY ExpectedPeople DEF Expected, TasksOf, Live
<1>2. RowsOf(m)' = IF Expected(m) \cap RowsOf(m) = {} THEN RowsOf(m) \cup Expected(m)
                                                      ELSE RowsOf(m)
  BY <1>1, RowsHere
<1>3. CASE TasksOf(m) = {} /\ RowsOf(m) = Expected(m)
  BY <1>1, <1>2, <1>3 DEF Settled
<1>4. ASSUME NEW t \in tasks, TasksOf(m) = {t}, Owed(m, t.ops)
      PROVE  Settled(m)'
  <2>1. PICK a \in SUBSET Expected(m), r \in SUBSET (People \ Expected(m)) :
             /\ t.ops = Calls("add", a) \o Calls("remove", r)
             /\ RowsOf(m) \in {(Expected(m) \ a) \cup r, Expected(m) \cup r}
    BY <1>4 DEF Owed, Live
  <2>2. RowsOf(m)' \in {(Expected(m) \ a) \cup r, Expected(m) \cup r}
    BY <1>2, <2>1
  <2>3. Owed(m, t.ops)'
    BY <1>1, <2>1, <2>2 DEF Owed
  <2> QED
    BY <1>1, <1>4, <2>3 DEF Settled
<1> QED
  BY <1>3, <1>4 DEF Settled

\* A listener call of a clean message brings its rows nearer to what they
\* ought to be, and ends when they are.
LEMMA CallWorks ==
    ASSUME IInv, NEW t \in tasks, TaskStep(t), Settled(t.msg),
           rows' = Apply(Head(t.ops), t.msg)
    PROVE  Settled(t.msg)'
<1> DEFINE m == t.msg
           rest == Tail(t.ops)
           next == [t EXCEPT !.ops = rest]
<1>1. /\ TypeOK /\ m \in 1..posted /\ t.ops # <<>> /\ t \in Task
      /\ tasks' = (tasks \ {t}) \cup (IF rest = <<>> THEN {} ELSE {next})
      /\ UNCHANGED <<posted, place, text, gone>>
  BY DEF IInv, TypeOK, Bound, TaskStep, discord
<1>2. next.msg = m /\ next.ops = rest
  BY <1>1 DEF Task
<1>3. TasksOf(m) = {t} /\ Owed(m, t.ops)
  BY DEF Settled, TasksOf
<1> HIDE DEF rest, next
<1>4. TasksOf(m)' = IF rest = <<>> THEN {} ELSE {next}
  BY <1>1, <1>2, <1>3 DEF TasksOf
<1>5. /\ Expected(m)' = Expected(m) /\ Expected(m) \subseteq People
      /\ (m \in Live => m \in Live') /\ (m \in gone => Expected(m) = {})
  BY <1>1, ExpectedPeople DEF Expected, Live
<1>6. CASE m \in gone /\ t.ops = PurgeAll
  <2>1. rest = <<>> /\ rows' = Purge(m)
    BY <1>6 DEF rest, PurgeAll, Apply
  <2>2. RowsOf(m)' = {}
    BY <2>1, RowsHere
  <2> QED
    BY <1>4, <1>5, <1>6, <2>1, <2>2 DEF Settled
<1>7. ASSUME m \in Live, NEW a \in SUBSET Expected(m), NEW r \in SUBSET (People \ Expected(m)),
             t.ops = Calls("add", a) \o Calls("remove", r),
             RowsOf(m) \in {(Expected(m) \ a) \cup r, Expected(m) \cup r}
      PROVE  Settled(m)'
  <2>1. a \in SUBSET People /\ r \in SUBSET People
    BY <1>5
  <2>2. CASE a # {}
    <3>1. Head(t.ops) = [kind |-> "add", who |-> a] /\ rest = Calls("remove", r)
      BY <1>7, <2>1, <2>2, CallsSplit DEF rest
    <3>2. rows' = AddEntries(a, m)
      BY <3>1 DEF Apply
    <3>3. RowsOf(m)' = IF a \cap RowsOf(m) = {} THEN RowsOf(m) \cup a ELSE RowsOf(m)
      BY <2>1, <3>2, RowsHere
    <3>4. RowsOf(m)' = Expected(m) \cup r
      BY <1>7, <2>2, <3>3
    <3>5. CASE r = {}
      BY <1>4, <1>5, <3>1, <3>4, <3>5 DEF Calls, Settled
    <3>6. CASE r # {}
      <4>1. rest # <<>> /\ rest = Calls("add", {}) \o Calls("remove", r)
        BY <2>1, <3>1, <3>6, CallsSplit
      <4>2. Owed(m, rest)'
        BY <1>5, <1>7, <3>4, <4>1 DEF Owed
      <4>3. next \in tasks' /\ TasksOf(m)' = {next}
        BY <1>1, <1>4, <4>1
      <4> QED
        BY <1>2, <4>2, <4>3 DEF Settled
    <3> QED
      BY <3>5, <3>6
  <2>3. CASE a = {}
    <3>1. r # {} /\ Head(t.ops) = [kind |-> "remove", who |-> r] /\ rest = <<>>
      BY <1>1, <1>7, <2>1, <2>3, CallsSplit DEF rest
    <3>2. rows' = rows \ (r \X {m})
      BY <3>1 DEF Apply
    <3>3. RowsOf(m)' = RowsOf(m) \ r
      BY <2>1, <3>2, RowsHere
    <3> QED
      BY <1>4, <1>5, <1>7, <2>3, <3>1, <3>3 DEF Settled
  <2> QED
    BY <2>2, <2>3
<1>8. CASE /\ m \in Live
           /\ \E a \in SUBSET Expected(m), r \in SUBSET (People \ Expected(m)) :
                 /\ t.ops = Calls("add", a) \o Calls("remove", r)
                 /\ RowsOf(m) \in {(Expected(m) \ a) \cup r, Expected(m) \cup r}
  BY <1>7, <1>8
<1> QED
  BY <1>3, <1>6, <1>8 DEF Owed

-----------------------------------------------------------------------------
(***************************************************************************)
(* The listeners.                                                          *)
(***************************************************************************)
LEMMA FollowedStays ==
    ASSUME NEW k \in SyncId, NEW m, Followed(syncs[k], m), syncs'[k] = syncs[k],
           place'[m] = place[m], text'[m] = text[m], m \in Live <=> m \in Live'
    PROVE  Followed(syncs[k], m)'
  BY DEF Followed, Reached, EntryOf

LEMMA InOrderStays ==
    ASSUME NEW k \in SyncId, InOrder(syncs[k]), syncs'[k] = syncs[k],
           posted \in Nat, posted' \in Nat, posted <= posted'
    PROVE  InOrder(syncs[k])'
  BY DEF InOrder

LEMMA IdleFollowed ==
    ASSUME TypeOK, NEW k \in SyncId, syncs'[k] = syncs[k], syncs[k].phase = "off", NEW m
    PROVE  Followed(syncs[k], m)'
  BY DEF Followed, Reached, TypeOK

LEMMA SpawnTasks ==
    ASSUME NEW m, NEW ops, Spawn(m, ops)
    PROVE  /\ \A i : i # m => TasksOf(i)' = TasksOf(i)
           /\ TasksOf(m) = {} /\ ops = <<>> => TasksOf(m)' = {}
           /\ TasksOf(m) = {} /\ ops # <<>> =>
                 \E t \in tasks' : TasksOf(m)' = {t} /\ t.ops = ops
<1> DEFINE new == [msg |-> m, nr |-> posted + edits, ops |-> ops]
<1>1. new.msg = m /\ new.ops = ops
  OBVIOUS
<1>2. tasks' = IF ops = <<>> THEN tasks ELSE tasks \cup {new}
  BY DEF Spawn
<1> HIDE DEF new
<1> QED
  BY <1>1, <1>2 DEF TasksOf

LEMMA InitClean == Init => CInv
<1> SUFFICES ASSUME Init PROVE Ordered /\ CleanKept
  BY InitIInv DEF CInv
<1>1. posted = 0 /\ \A k \in SyncId : syncs[k] = Off
  BY DEF Init
<1>2. Ordered
  BY <1>1 DEF Ordered, InOrder, Off
<1>3. CleanKept
  BY <1>1 DEF CleanKept
<1> QED
  BY <1>2, <1>3

LEMMA PostClean ==
    ASSUME CInv, NEW pl \in Places, NEW t \in Texts, Post(pl, t)
    PROVE  Ordered' /\ CleanKept'
<1> PICK m, ops : m = posted + 1 /\ ops = PostOps(m, pl, t)
  OBVIOUS
<1>1. /\ TypeOK /\ Bound /\ posted \in Nat /\ posted' = m /\ m \in Msg /\ m \notin 1..posted
      /\ pl \in Place /\ t \in Text /\ 1..posted \subseteq Msg
  BY InputAssumption, BoundsAssumption, PostedMsg DEF CInv, IInv, TypeOK, Post, Msg
<1>2. /\ place' = [place EXCEPT ![m] = pl] /\ text' = [text EXCEPT ![m] = t]
      /\ dirty' = IF Disturbed(m) THEN dirty \cup {m} ELSE dirty
      /\ IF link = "up" THEN Spawn(m, ops) ELSE UNCHANGED tasks
      /\ UNCHANGED <<gone, rows, syncs>>
  BY DEF Post
<1>3. Live' = Live \cup {m}
  BY <1>1, <1>2 DEF Live, TypeOK
<1>4. /\ place'[m] = pl /\ text'[m] = t
      /\ \A i \in 1..posted : place'[i] = place[i] /\ text'[i] = text[i]
  BY <1>1, <1>2 DEF TypeOK
<1>5. Ordered'
  BY <1>1, <1>2, InOrderStays DEF CInv, Ordered
<1>6. ASSUME posted' <= ScanLimit, NEW i \in (1..posted') \ dirty'
      PROVE  Settled(i)' /\ \A k \in SyncId : Followed(syncs[k], i)'
  <2>1. CASE i \in 1..posted
    <3>1. i # m /\ Settled(i) /\ \A k \in SyncId : Followed(syncs[k], i)
      BY <1>1, <1>2, <1>6, <2>1, BoundsAssumption DEF CInv, CleanKept
    <3>2. /\ Expected(i)' = Expected(i) /\ RowsOf(i)' = RowsOf(i)
          /\ (i \in Live <=> i \in Live') /\ (i \in gone => i \in gone')
      BY <1>2, <1>3, <1>4, <2>1, <3>1 DEF Expected, RowsOf
    <3>3. TasksOf(i)' = TasksOf(i)
      <4>1. Spawn(m, ops) \/ tasks' = tasks
        BY <1>2
      <4>2. CASE Spawn(m, ops)
        BY <3>1, <4>2, SpawnTasks
      <4>3. CASE tasks' = tasks
        BY <4>3 DEF TasksOf
      <4> QED
        BY <4>1, <4>2, <4>3
    <3> QED
      BY <1>2, <1>4, <2>1, <3>1, <3>2, <3>3, SettledStays, FollowedStays
  <2>2. CASE i = m
    <3>1. link = "up" /\ Spawn(m, ops) /\ TasksOf(m) = {} /\ \A k \in SyncId : syncs[k].phase = "off"
      BY <1>2, <1>6, <2>2 DEF Disturbed, Syncing
    <3>2. \A k \in SyncId : Followed(syncs[k], i)'
      BY <1>1, <1>2, <3>1, IdleFollowed
    <3>3. Expected(m)' = Names(pl, t) /\ m \in Live' /\ Names(pl, t) \subseteq People
      BY <1>1, <1>3, <1>4 DEF Expected, Names, Text
    <3>4. RowsOf(m)' = {}
      BY <1>1, <1>2 DEF RowsOf, TypeOK
    <3>5. ops = Calls("add", Names(pl, t))
      <4>1. pl.open => Passengers(t) = Names(pl, t)
        BY <1>1, PassengersNamed
      <4>2. ~pl.open => Names(pl, t) = {}
        BY DEF Names
      <4> QED
        BY <4>1, <4>2 DEF PostOps, Calls
    <3>6. CASE Names(pl, t) = {}
      <4>1. TasksOf(m)' = {}
        BY <3>1, <3>5, <3>6, SpawnTasks DEF Calls
      <4> QED
        BY <2>2, <3>2, <3>3, <3>4, <3>6, <4>1 DEF Settled
    <3>7. CASE Names(pl, t) # {}
      <4>1. ops # <<>>
        BY <3>5, <3>7 DEF Calls
      <4>2. PICK x \in tasks' : TasksOf(m)' = {x} /\ x.ops = ops
        BY <3>1, <4>1, SpawnTasks
      <4>3. ops = Calls("add", Names(pl, t)) \o Calls("remove", {})
        <5>1. Calls("add", Names(pl, t)) \in Seq(Op)
          BY <3>3, CallsType
        <5>2. Calls("remove", {}) = <<>>
          BY DEF Calls
        <5> QED
          BY <3>5, <5>1, <5>2
      <4>4. {} = (Expected(m)' \ Names(pl, t)) \cup {}
        BY <3>3
      <4>5. Owed(m, x.ops)'
        BY <3>3, <3>4, <4>2, <4>3, <4>4 DEF Owed
      <4> QED
        BY <2>2, <3>2, <4>2, <4>5 DEF Settled
    <3> QED
      BY <3>6, <3>7
  <2> QED
    BY <1>1, <1>6, <2>1, <2>2
<1> QED
  BY <1>5, <1>6 DEF CleanKept

LEMMA EditClean ==
    ASSUME CInv, NEW m \in Msg, NEW t \in Texts, EditText(m, t)
    PROVE  Ordered' /\ CleanKept'
<1> DEFINE ops == EditOps(m, t)
<1>1. /\ TypeOK /\ Bound /\ posted \in Nat /\ m \in 1..posted /\ m \in Live
      /\ t \in Text /\ 1..posted \subseteq Msg /\ place[m] \in Place /\ text[m] \in Text
  BY InputAssumption, PostedMsg DEF CInv, IInv, TypeOK, EditText, Live
<1>2. /\ text' = [text EXCEPT ![m] = t]
      /\ dirty' = IF Disturbed(m) \/ m \notin cached \/ ~Grouping(t) THEN dirty \cup {m}
                                                                     ELSE dirty
      /\ IF link = "up" /\ m \in cached THEN Spawn(m, ops) ELSE UNCHANGED tasks
      /\ UNCHANGED <<posted, place, gone, rows, syncs>> /\ Live' = Live
  BY DEF EditText, Live
<1>3. text'[m] = t /\ \A i \in 1..posted : i # m => text'[i] = text[i]
  BY <1>1, <1>2 DEF TypeOK
<1>4. Ordered'
  BY <1>1, <1>2, InOrderStays DEF CInv, Ordered
<1> HIDE DEF ops
<1>5. ASSUME posted <= ScanLimit, NEW i \in (1..posted) \ dirty'
      PROVE  Settled(i)' /\ \A k \in SyncId : Followed(syncs[k], i)'
  <2>1. Settled(i) /\ \A k \in SyncId : Followed(syncs[k], i)
    BY <1>2, <1>5 DEF CInv, CleanKept
  <2>2. CASE i # m
    <3>1. /\ Expected(i)' = Expected(i) /\ RowsOf(i)' = RowsOf(i)
      BY <1>2, <1>3, <1>5, <2>2 DEF Expected, RowsOf
    <3>2. TasksOf(i)' = TasksOf(i)
      BY <1>2, <2>2, SpawnTasks DEF TasksOf
    <3> QED
      BY <1>2, <1>3, <1>5, <2>1, <2>2, <3>1, <3>2, SettledStays, FollowedStays
  <2>3. CASE i = m
    <3>1. /\ Spawn(m, ops) /\ TasksOf(m) = {} /\ \A k \in SyncId : syncs[k].phase = "off"
          /\ Grouping(t)
      BY <1>2, <1>5, <2>3 DEF Disturbed, Syncing
    <3>2. \A k \in SyncId : Followed(syncs[k], i)'
      BY <1>1, <1>2, <3>1, IdleFollowed
    <3> DEFINE old == Names(place[m], text[m])
               new == Names(place[m], t)
               a == new \ old
               r == old \ new
    <3>3. /\ Expected(m)' = new /\ m \in Live' /\ RowsOf(m)' = old
          /\ new \subseteq People /\ old \subseteq People
      <4>1. RowsOf(m) = Expected(m) /\ Expected(m) = old
        BY <1>1, <2>1, <2>3, <3>1 DEF Settled, Expected
      <4>2. RowsOf(m)' = RowsOf(m)
        BY <1>2 DEF RowsOf
      <4> QED
        BY <1>1, <1>2, <1>3, <4>1, <4>2 DEF Expected, Names, Text
    <3>4. /\ a \subseteq new /\ r \subseteq People \ new /\ a \subseteq People /\ r \subseteq People
          /\ RowsOf(m)' = (new \ a) \cup r
      BY <3>3
    <3>5. ops = Calls("add", a) \o Calls("remove", r)
      <4>1. CASE place[m].open
        BY <1>1, <3>1, <4>1, PassengersNamed DEF ops, EditOps
      <4>2. CASE ~place[m].open
        BY <4>2 DEF ops, EditOps, Names, Calls
      <4> QED
        BY <4>1, <4>2
    <3> HIDE DEF a, r, old, new
    <3>6. CASE ops = <<>>
      <4>1. a = {} /\ r = {}
        BY <3>4, <3>5, <3>6, CallsSplit
      <4>2. TasksOf(m)' = {}
        BY <3>1, <3>6, SpawnTasks
      <4> QED
        BY <2>3, <3>2, <3>3, <3>4, <4>1, <4>2 DEF Settled
    <3>7. CASE ops # <<>>
      <4>1. PICK x \in tasks' : TasksOf(m)' = {x} /\ x.ops = ops
        BY <3>1, <3>7, SpawnTasks
      <4>2. Owed(m, x.ops)'
        BY <3>3, <3>4, <3>5, <4>1 DEF Owed
      <4> QED
        BY <2>3, <3>2, <4>1, <4>2 DEF Settled
    <3> QED
      BY <3>6, <3>7
  <2> QED
    BY <2>2, <2>3
<1> QED
  BY <1>2, <1>4, <1>5 DEF CleanKept

LEMMA DeleteClean ==
    ASSUME CInv, NEW m \in Msg, Delete(m)
    PROVE  Ordered' /\ CleanKept'
<1>1. /\ TypeOK /\ posted \in Nat /\ m \in 1..posted
  BY DEF CInv, IInv, TypeOK, Delete, Live
<1>2. /\ gone' = gone \cup {m}
      /\ dirty' = IF Disturbed(m) \/ m \notin cached THEN dirty \cup {m} ELSE dirty
      /\ IF link = "up" /\ m \in cached THEN Spawn(m, PurgeAll) ELSE UNCHANGED tasks
      /\ UNCHANGED <<posted, place, text, rows, syncs>> /\ Live' = Live \ {m}
  BY DEF Delete, Live, PurgeAll
<1>3. Ordered'
  BY <1>1, <1>2, InOrderStays DEF CInv, Ordered
<1>4. ASSUME posted <= ScanLimit, NEW i \in (1..posted) \ dirty'
      PROVE  Settled(i)' /\ \A k \in SyncId : Followed(syncs[k], i)'
  <2>1. Settled(i) /\ \A k \in SyncId : Followed(syncs[k], i)
    BY <1>2, <1>4 DEF CInv, CleanKept
  <2>2. CASE i # m
    <3>1. /\ Expected(i)' = Expected(i) /\ RowsOf(i)' = RowsOf(i) /\ (i \in Live <=> i \in Live')
      BY <1>2, <2>2 DEF Expected, RowsOf
    <3>2. TasksOf(i)' = TasksOf(i)
      BY <1>2, <2>2, SpawnTasks DEF TasksOf
    <3> QED
      BY <1>2, <2>1, <3>1, <3>2, SettledStays, FollowedStays
  <2>3. CASE i = m
    <3>1. Spawn(m, PurgeAll) /\ TasksOf(m) = {} /\ \A k \in SyncId : syncs[k].phase = "off"
      BY <1>2, <1>4, <2>3 DEF Disturbed, Syncing
    <3>2. \A k \in SyncId : Followed(syncs[k], i)'
      BY <1>1, <1>2, <3>1, IdleFollowed
    <3>3. PurgeAll # <<>>
      BY DEF PurgeAll
    <3>4. PICK x \in tasks' : TasksOf(m)' = {x} /\ x.ops = PurgeAll
      BY <3>1, <3>3, SpawnTasks
    <3>5. Owed(m, x.ops)'
      BY <1>2, <3>4 DEF Owed
    <3> QED
      BY <2>3, <3>2, <3>4, <3>5 DEF Settled
  <2> QED
    BY <2>2, <2>3
<1> QED
  BY <1>2, <1>3, <1>4 DEF CleanKept

LEMMA TaskStepClean ==
    ASSUME CInv, NEW t \in tasks, TaskStep(t)
    PROVE  Ordered' /\ CleanKept'
<1>1. /\ TypeOK /\ IInv /\ posted \in Nat /\ t.msg \in 1..posted
      /\ UNCHANGED <<posted, place, text, gone, syncs>> /\ Live' = Live
  BY DEF CInv, IInv, TypeOK, Bound, TaskStep, discord, Live
<1>2. \/ rows' = Apply(Head(t.ops), t.msg) /\ UNCHANGED dirty
      \/ dirty' = dirty \cup {t.msg} /\ UNCHANGED rows
  BY DEF TaskStep
<1>3. Ordered'
  BY <1>1, InOrderStays DEF CInv, Ordered
<1>4. ASSUME posted <= ScanLimit, NEW i \in (1..posted) \ dirty'
      PROVE  Settled(i)' /\ \A k \in SyncId : Followed(syncs[k], i)'
  <2>1. Settled(i) /\ \A k \in SyncId : Followed(syncs[k], i)
    BY <1>2, <1>4 DEF CInv, CleanKept
  <2>2. \A k \in SyncId : Followed(syncs[k], i)'
    BY <1>1, <2>1, FollowedStays
  <2>3. CASE i = t.msg
    <3>1. rows' = Apply(Head(t.ops), t.msg)
      BY <1>2, <1>4, <2>3
    <3> QED
      BY <1>1, <2>1, <2>2, <2>3, <3>1, CallWorks
  <2>4. CASE i # t.msg
    <3>1. TasksOf(i)' = TasksOf(i)
      <4>1. [t EXCEPT !.ops = Tail(t.ops)].msg = t.msg
        BY <1>1 DEF TypeOK, Task
      <4> QED
        BY <2>4, <4>1 DEF TasksOf, TaskStep
    <3>2. RowsOf(i)' = RowsOf(i)
      <4>1. Head(t.ops) \in Op
        BY <1>1 DEF IInv, TypeOK, Bound, Task
      <4>2. Head(t.ops).kind \in {"add", "remove", "purge"}
        BY <4>1 DEF Op
      <4> QED
        BY <1>2, <2>4, <4>2, RowsElsewhere DEF Apply
    <3>3. Expected(i)' = Expected(i)
      BY <1>1 DEF Expected
    <3> QED
      BY <1>1, <2>1, <2>2, <3>1, <3>2, <3>3, SettledStays
  <2> QED
    BY <2>3, <2>4
<1> QED
  BY <1>1, <1>3, <1>4 DEF CleanKept

-----------------------------------------------------------------------------
(***************************************************************************)
(* The process.                                                            *)
(***************************************************************************)
LEMMA SettledUntouched ==
    ASSUME NEW m, Settled(m), UNCHANGED <<posted, place, text, gone, rows, tasks>>
    PROVE  Settled(m)'
<1>1. /\ Expected(m)' = Expected(m) /\ RowsOf(m)' = RowsOf(m) /\ TasksOf(m)' = TasksOf(m)
      /\ (m \in Live => m \in Live') /\ (m \in gone => m \in gone')
  BY DEF Expected, RowsOf, TasksOf, Live
<1> QED
  BY <1>1, SettledStays

\* A step of one sync: what it leaves of that sync is all there is to show.
LEMMA StageClean ==
    ASSUME CInv, NEW k \in SyncId, UNCHANGED <<posted, place, text, gone>>,
           \A j \in SyncId \ {k} : syncs'[j] = syncs[j],
           dirty \subseteq dirty', InOrder(syncs[k])',
           \A m \in (1..posted) \ dirty' :
              posted <= ScanLimit => Settled(m)' /\ Followed(syncs[k], m)'
    PROVE  Ordered' /\ CleanKept'
<1>1. TypeOK /\ posted \in Nat /\ Live' = Live
  BY DEF CInv, IInv, TypeOK, Live
<1>2. Ordered'
  BY <1>1, InOrderStays DEF CInv, Ordered
<1>3. ASSUME posted <= ScanLimit, NEW m \in (1..posted) \ dirty', NEW j \in SyncId \ {k}
      PROVE  Followed(syncs[j], m)'
  BY <1>1, <1>3, FollowedStays DEF CInv, CleanKept
<1> QED
  BY <1>2, <1>3 DEF CleanKept

\* What a sync that starts cannot see is not clean any more.
LEMMA BeginClean ==
    ASSUME CInv, NEW k \in SyncId, NEW known \in BOOLEAN, Begin(k, known),
           dirty' = dirty \cup Overlooked(known),
           UNCHANGED <<posted, place, text, gone, rows, tasks>>
    PROVE  Ordered' /\ CleanKept'
<1> DEFINE phase == IF known THEN "fetch" ELSE "orphans"
<1>1. /\ syncs'[k].phase = phase /\ syncs'[k].page = {} /\ syncs'[k].valid = {}
      /\ \A j \in SyncId \ {k} : syncs'[j] = syncs[j]
  BY DEF Begin, CInv, IInv, TypeOK, Off
<1>2. InOrder(syncs[k])'
  BY <1>1, FS_EmptySet, BoundsAssumption DEF InOrder
<1>3. ASSUME posted <= ScanLimit, NEW m \in (1..posted) \ dirty'
      PROVE  Settled(m)' /\ Followed(syncs[k], m)'
  <2>1. Settled(m)
    BY <1>3 DEF CInv, CleanKept
  <2>2. known /\ place'[m].channel = "rides"
    BY <1>3 DEF Overlooked
  <2>3. Followed(syncs[k], m)'
    BY <1>1, <2>2 DEF Followed, Reached
  <2> QED
    BY <2>1, <2>3, SettledUntouched
<1> QED
  BY <1>1, <1>2, <1>3, StageClean

LEMMA ProcessClean ==
    ASSUME CInv, Boot \/ Ready \/ Disconnect \/ Crash \/ ForceSync
    PROVE  Ordered' /\ CleanKept'
<1>1. /\ UNCHANGED <<posted, place, text, gone, rows>>
      /\ TypeOK /\ posted \in Nat /\ Live' = Live
  <2>1. UNCHANGED <<posted, place, text, gone, rows>>
    BY DEF Boot, Ready, Disconnect, Crash, ForceSync, discord
  <2> QED
    BY <2>1 DEF CInv, IInv, TypeOK, Live
<1>2. CASE UNCHANGED <<syncs, tasks, dirty>>
  <2>1. Ordered'
    BY <1>1, <1>2, InOrderStays DEF CInv, Ordered
  <2>2. ASSUME posted <= ScanLimit, NEW m \in (1..posted) \ dirty
        PROVE  Settled(m)' /\ \A k \in SyncId : Followed(syncs[k], m)'
    BY <1>1, <1>2, <2>2, SettledUntouched, FollowedStays DEF CInv, CleanKept
  <2> QED
    BY <1>1, <1>2, <2>1, <2>2 DEF CleanKept
<1>3. CASE Ready /\ ~synced
  <2>1. Begin("startup", TRUE) /\ dirty' = dirty \cup Overlooked(TRUE) /\ tasks' = tasks
    BY <1>3 DEF Ready
  <2> QED
    BY <1>1, <2>1, BeginClean DEF SyncId
<1>4. CASE ForceSync
  <2>1. /\ Begin("forced", synced) /\ dirty' = dirty \cup Overlooked(synced) /\ tasks' = tasks
        /\ synced \in BOOLEAN
    BY <1>1, <1>4 DEF ForceSync, TypeOK
  <2> QED
    BY <1>1, <2>1, BeginClean DEF SyncId
<1>5. CASE Crash
  <2>1. /\ dirty' = dirty \cup {t.msg : t \in tasks} /\ tasks' = {}
        /\ \A k \in SyncId : syncs'[k] = Off
    BY <1>5 DEF Crash
  <2>2. Ordered'
    BY <2>1 DEF Ordered, InOrder, Off
  <2>3. ASSUME posted <= ScanLimit, NEW m \in (1..posted) \ dirty'
        PROVE  Settled(m)' /\ \A k \in SyncId : Followed(syncs[k], m)'
    <3>1. TasksOf(m) = {} /\ Settled(m)
      BY <2>1, <2>3 DEF TasksOf, CInv, CleanKept
    <3>2. RowsOf(m)' = Expected(m)' /\ TasksOf(m)' = {}
      BY <1>1, <2>1, <3>1 DEF Settled, RowsOf, Expected, TasksOf
    <3> QED
      BY <2>1, <3>2 DEF Settled, Followed, Reached, Off
  <2> QED
    BY <1>1, <2>2, <2>3 DEF CleanKept
<1> QED
  BY <1>2, <1>3, <1>4, <1>5 DEF Boot, Ready, Disconnect

-----------------------------------------------------------------------------
(***************************************************************************)
(* The stages of a sync.                                                   *)
(***************************************************************************)
LEMMA FetchClean ==
    ASSUME CInv, NEW k \in SyncId, Fetch(k)
    PROVE  Ordered' /\ CleanKept'
<1> DEFINE valid == syncs[k].valid
           left == ScanLimit - Cardinality(valid)
           size == IF left < PageSize THEN left ELSE PageSize
           read == History(k, size)
           page == {EntryOf(m) : m \in read}
           more == Cardinality(page) = PageSize /\ PageSize < left
           phase == IF page = {} THEN "orphans" ELSE "scan"
<1>1. /\ TypeOK /\ posted \in Nat /\ InOrder(syncs[k]) /\ syncs[k].phase = "fetch"
      /\ UNCHANGED <<posted, place, text, gone, rows, tasks, dirty>> /\ Live' = Live
  BY DEF CInv, Ordered, IInv, TypeOK, Fetch, In, discord, Live
<1>2. /\ syncs'[k].page = page /\ syncs'[k].more = more /\ syncs'[k].phase = phase
      /\ syncs'[k].valid = valid /\ \A j \in SyncId \ {k} : syncs'[j] = syncs[j]
  <2>1. syncs[k] \in Sync
    BY <1>1 DEF TypeOK
  <2>2. Set(k, [syncs[k] EXCEPT !.page = page, !.more = more, !.phase = phase])
    BY DEF Fetch
  <2> HIDE DEF page, more, phase
  <2> QED
    BY <1>1, <2>1, <2>2 DEF Set, Sync, TypeOK
<1>3. /\ IsFiniteSet(valid) /\ Cardinality(valid) \in Nat /\ Cardinality(valid) < ScanLimit
      /\ valid \subseteq 1..posted
  <2>1. IsFiniteSet(1..posted) /\ valid \subseteq 1..posted
    BY <1>1, FS_Interval DEF InOrder
  <2> QED
    BY <1>1, <2>1, FS_Subset, FS_CardinalityType DEF InOrder
<1>4. left \in Nat /\ size \in Nat
  BY <1>3, BoundsAssumption
<1>5. /\ IsFiniteSet(read) /\ read \subseteq Unread(k) /\ Cardinality(read) \in Nat
      /\ Unread(k) \subseteq 1..posted /\ Cardinality(page) = Cardinality(read)
  <2>1. IsFiniteSet(read) /\ read \subseteq Unread(k) /\ Cardinality(read) \in Nat
    BY <1>1, <1>4, HistoryBounded
  <2>2. Cardinality(page) = Cardinality(read)
    BY <2>1, PageSized
  <2> QED
    BY <1>1, <2>1, <2>2, UnreadPosted
<1>6. \A m \in Unread(k) \ read : Cardinality(read) = size /\ \A h \in read : h < m
  BY <1>1, <1>4, HistoryFull, HistoryFirst
<1>7. /\ \A e \in page : e.id \in read /\ e = EntryOf(e.id)
      /\ \A h \in read : EntryOf(h) \in page /\ EntryOf(h).id = h
  BY DEF EntryOf
<1>8. \A m \in Unread(k) : m \in Live /\ \A v \in valid : v < m
  BY DEF Unread
<1> HIDE DEF valid, left, size, read, page, more, phase
<1>9. InOrder(syncs[k])'
  <2>1. phase \in {"orphans", "scan"}
    BY DEF phase
  <2>2. \A e \in page : \A v \in valid : v < e.id
    BY <1>5, <1>7, <1>8
  <2>3. \A d, e \in page : d.id = e.id => d = e
    BY <1>7
  <2>4. more => Cardinality(valid) + Cardinality(page) < ScanLimit
    BY <1>3, <1>5, BoundsAssumption DEF more, left
  <2> QED
    BY <1>1, <1>2, <1>3, <2>1, <2>2, <2>3, <2>4 DEF InOrder
<1>10. ASSUME posted <= ScanLimit, NEW m \in (1..posted) \ dirty', m \in Unread(k) \ read
       PROVE  more
  <2>1. Cardinality(read) = size
    BY <1>6, <1>10
  <2>2. valid \cup read \subseteq (1..posted) \ {m} /\ valid \cap read = {}
    BY <1>3, <1>5, <1>8, <1>10
  <2>3. IsFiniteSet((1..posted) \ {m}) /\ Cardinality((1..posted) \ {m}) = posted - 1
    <3>1. IsFiniteSet(1..posted) /\ Cardinality(1..posted) = posted
      BY <1>1, FS_Interval
    <3> QED
      BY <1>10, <3>1, FS_RemoveElement
  <2>4. Cardinality(valid \cup read) = Cardinality(valid) + Cardinality(read)
    BY <1>3, <1>5, <2>2, FS_Union, FS_EmptySet
  <2>5. Cardinality(valid \cup read) <= posted - 1
    BY <2>2, <2>3, FS_Subset
  <2>6. size < left
    BY <1>1, <1>3, <1>4, <1>5, <1>10, <2>1, <2>4, <2>5, BoundsAssumption DEF left
  <2> QED
    BY <1>4, <1>5, <2>1, <2>6, BoundsAssumption DEF more, size
<1>11. ASSUME posted <= ScanLimit, NEW m \in (1..posted) \ dirty'
       PROVE  Settled(m)' /\ Followed(syncs[k], m)'
  <2>1. Settled(m) /\ Followed(syncs[k], m)
    BY <1>1, <1>11 DEF CInv, CleanKept
  <2>2. place[m].channel = "rides"
    BY <1>1, <2>1 DEF Followed
  <2>3. \A e \in page : e.id = m => m \in Live /\ e = EntryOf(m)
    BY <1>5, <1>7, <1>8
  <2>4. m \in Live => \/ m \in valid
                      \/ \E e \in page : e.id = m
                      \/ more /\ (\A v \in valid : v < m) /\ \A e \in page : e.id < m
    <3> SUFFICES ASSUME m \in Live, m \notin valid, m \notin read
                 PROVE  more /\ (\A v \in valid : v < m) /\ \A e \in page : e.id < m
      BY <1>7
    <3>1. m \in Unread(k)
      BY <1>1, <2>1, <2>2 DEF Unread, Followed, Reached, valid
    <3> QED
      BY <1>6, <1>7, <1>8, <1>10, <1>11, <3>1
  <2>5. page = {} /\ m \in Live => m \in valid
    <3> SUFFICES ASSUME page = {}, m \in Live, m \notin valid PROVE FALSE
      OBVIOUS
    <3>1. more /\ read = {}
      BY <1>7, <2>4
    <3> QED
      BY <1>5, <3>1, FS_EmptySet, BoundsAssumption DEF more
  <2>6. EntryOf(m)' = EntryOf(m)
    BY <1>1 DEF EntryOf
  <2>7. Reached(syncs[k], m)' \/ m \notin Live
    BY <1>2, <2>4, <2>5 DEF Reached, phase
  <2> QED
    BY <1>1, <1>2, <2>1, <2>2, <2>3, <2>6, <2>7, SettledUntouched DEF Followed
<1> QED
  BY <1>1, <1>2, <1>9, <1>11, StageClean

LEMMA FetchFailsClean ==
    ASSUME CInv, NEW k \in SyncId, FetchFails(k)
    PROVE  Ordered' /\ CleanKept'
<1>1. /\ TypeOK /\ InOrder(syncs[k]) /\ dirty' = dirty \cup (1..posted)
      /\ UNCHANGED <<posted, place, text, gone>>
      /\ syncs'[k] = [syncs[k] EXCEPT !.phase = "orphans"]
      /\ \A j \in SyncId \ {k} : syncs'[j] = syncs[j]
  BY DEF CInv, Ordered, IInv, TypeOK, FetchFails, Set, discord
<1>2. /\ syncs'[k].phase = "orphans" /\ syncs'[k].valid = syncs[k].valid
      /\ syncs'[k].page = syncs[k].page
  BY <1>1 DEF TypeOK, Sync
<1>3. InOrder(syncs[k])'
  BY <1>1, <1>2 DEF InOrder
<1> QED
  BY <1>1, <1>3, StageClean

LEMMA ScanClean ==
    ASSUME CInv, NEW k \in SyncId, Scan(k)
    PROVE  Ordered' /\ CleanKept'
<1>1. /\ TypeOK /\ Bound /\ posted \in Nat /\ InOrder(syncs[k]) /\ syncs[k].phase = "scan"
      /\ UNCHANGED <<posted, place, text, gone, tasks, dirty>> /\ Live' = Live
  BY DEF CInv, Ordered, IInv, TypeOK, Scan, In, discord, Live
<1>2. PICK entry \in syncs[k].page :
          /\ \A other \in syncs[k].page : entry.id <= other.id
          /\ ScanOne(k, entry)
  BY DEF Scan
<1> DEFINE valid == syncs[k].valid
           page == syncs[k].page
           more == syncs[k].more
           phase == IF page # {entry} THEN "scan" ELSE IF more THEN "fetch" ELSE "orphans"
<1>3. /\ syncs'[k].page = page \ {entry} /\ syncs'[k].more = more /\ syncs'[k].phase = phase
      /\ syncs'[k].valid = valid \cup {entry.id}
      /\ \A j \in SyncId \ {k} : syncs'[j] = syncs[j]
  <2>1. syncs[k] \in Sync
    BY <1>1 DEF TypeOK
  <2>2. Set(k, [syncs[k] EXCEPT !.valid = @ \cup {entry.id}, !.page = @ \ {entry},
                                !.phase = phase])
    BY <1>2 DEF ScanOne
  <2> HIDE DEF phase
  <2> QED
    BY <1>1, <2>1, <2>2 DEF Set, Sync, TypeOK
<1>4. /\ entry \in page /\ entry.id \in 1..posted /\ valid \subseteq 1..posted
      /\ \A e \in page : e.id \in 1..posted /\ \A v \in valid : v < e.id
      /\ \A d, e \in page : d.id = e.id => d = e
      /\ \A e \in page \ {entry} : entry.id < e.id
  BY <1>1, <1>2 DEF Bound, InOrder
<1>5. /\ IsFiniteSet(valid) /\ Cardinality(valid) \in Nat
      /\ IsFiniteSet(page) /\ Cardinality(page) \in Nat
  <2>1. IsFiniteSet(1..posted)
    BY <1>1, FS_Interval
  <2>2. IsFiniteSet(page) /\ Cardinality(page) \in Nat
    BY <1>1, PageFinite
  <2> HIDE DEF valid, page
  <2>3. IsFiniteSet(valid)
    BY <1>4, <2>1, FS_Subset
  <2>4. Cardinality(valid) \in Nat
    BY <2>3, FS_CardinalityType
  <2> QED
    BY <2>2, <2>3, <2>4
<1> HIDE DEF valid, page, more, phase
<1>6. InOrder(syncs[k])'
  <2>1. /\ Cardinality(valid \cup {entry.id}) = Cardinality(valid) + 1
        /\ Cardinality(page \ {entry}) = Cardinality(page) - 1
    <3>1. entry.id \notin valid
      BY <1>4
    <3>2. Cardinality(valid \cup {entry.id}) = Cardinality(valid) + 1
      BY <1>5, <3>1, FS_AddElement
    <3>3. Cardinality(page \ {entry}) = Cardinality(page) - 1
      BY <1>4, <1>5, FS_RemoveElement
    <3> QED
      BY <3>2, <3>3
  <2>2. more => Cardinality(valid) + Cardinality(page) < ScanLimit
    BY <1>1 DEF InOrder, valid, page, more
  <2>3. phase = "fetch" => more /\ Cardinality(page) = 1
    BY FS_Singleton DEF phase
  <2>4. valid \cup {entry.id} \subseteq 1..posted
    BY <1>4
  <2>5. \A e \in page \ {entry} : \A v \in valid \cup {entry.id} : v < e.id
    BY <1>4
  <2>6. phase = "fetch" => Cardinality(valid \cup {entry.id}) < ScanLimit
    BY <1>5, <2>1, <2>2, <2>3, BoundsAssumption
  <2>7. more => Cardinality(valid \cup {entry.id}) + Cardinality(page \ {entry}) < ScanLimit
    BY <1>5, <2>1, <2>2, BoundsAssumption
  <2> QED
    BY <1>1, <1>3, <1>4, <2>4, <2>5, <2>6, <2>7 DEF InOrder
<1>7. ASSUME posted <= ScanLimit, NEW m \in (1..posted) \ dirty'
      PROVE  Settled(m)' /\ Followed(syncs[k], m)'
  <2>1. Settled(m) /\ Followed(syncs[k], m)
    BY <1>1, <1>7 DEF CInv, CleanKept
  <2>2. /\ place[m].channel = "rides"
        /\ \A e \in page : e.id = m => m \in Live /\ e = EntryOf(m)
    BY <1>1, <2>1 DEF Followed, page
  <2>3. Settled(m)'
    <3>1. CASE rows' = rows
      BY <1>1, <2>1, <3>1, SettledUntouched
    <3>2. CASE entry.place.open /\ rows' = AddEntries(Passengers(entry.text), entry.id)
      <4>1. CASE entry.id = m
        <5>1. m \in Live /\ entry = EntryOf(m)
          BY <1>4, <2>2, <4>1
        <5>2. place[m] \in Place /\ text[m] \in Text /\ place[m].open /\ entry.text = text[m]
          BY <1>1, <1>7, <3>2, <5>1, PostedMsg DEF EntryOf, TypeOK
        <5>3. Passengers(entry.text) = Expected(m)
          BY <5>1, <5>2, PassengersNamed DEF Expected
        <5> QED
          BY <1>1, <1>7, <2>1, <3>2, <4>1, <5>1, <5>3, SyncAdds
      <4>2. CASE entry.id # m
        <5>1. RowsOf(m)' = RowsOf(m)
          BY <3>2, <4>2, RowsElsewhere
        <5>2. Expected(m)' = Expected(m) /\ TasksOf(m)' = TasksOf(m)
          BY <1>1 DEF Expected, TasksOf
        <5> QED
          BY <1>1, <2>1, <5>1, <5>2, SettledStays
      <4> QED
        BY <4>1, <4>2
    <3> QED
      BY <1>2, <3>1, <3>2 DEF ScanOne
  <2>4. m \in Live => Reached(syncs[k], m)'
    <3> SUFFICES ASSUME m \in Live PROVE Reached(syncs[k], m)'
      OBVIOUS
    <3>1. \/ m \in valid
          \/ \E e \in page : e.id = m
          \/ more /\ (\A v \in valid : v < m) /\ \A e \in page : e.id < m
      BY <1>1, <2>1 DEF Followed, Reached, valid, page, more
    <3>2. CASE m \in valid \cup {entry.id}
      BY <1>3, <3>2 DEF Reached, phase
    <3>3. CASE \E e \in page \ {entry} : e.id = m
      BY <1>3, <3>3 DEF Reached, phase
    <3>4. CASE more /\ (\A v \in valid : v < m) /\ \A e \in page : e.id < m
      BY <1>3, <1>4, <3>4 DEF Reached, phase
    <3> QED
      BY <3>1, <3>2, <3>3, <3>4
  <2>5. Followed(syncs[k], m)'
    <3>1. EntryOf(m)' = EntryOf(m)
      BY <1>1 DEF EntryOf
    <3> QED
      BY <1>1, <1>3, <2>2, <2>4, <3>1 DEF Followed
  <2> QED
    BY <2>3, <2>5
<1> QED
  BY <1>1, <1>3, <1>6, <1>7, StageClean

LEMMA FindOrphansClean ==
    ASSUME CInv, NEW k \in SyncId, FindOrphans(k)
    PROVE  Ordered' /\ CleanKept'
<1>1. /\ TypeOK /\ InOrder(syncs[k]) /\ syncs[k].phase = "orphans" /\ syncs[k] \in Sync
      /\ UNCHANGED <<posted, place, text, gone, rows, tasks, dirty>> /\ Live' = Live
  BY DEF CInv, Ordered, IInv, TypeOK, FindOrphans, In, discord, Live
<1>2. PICK found \in {{row[2] : row \in rows} \ syncs[k].valid, {}} :
          Set(k, IF found = {} THEN Off
                 ELSE [syncs[k] EXCEPT !.orphans = found, !.phase = "clean"])
  BY DEF FindOrphans
<1>3. \A j \in SyncId \ {k} : syncs'[j] = syncs[j]
  BY <1>1, <1>2 DEF Set, TypeOK
<1>4. CASE found = {}
  <2>1. syncs'[k] = Off
    BY <1>1, <1>2, <1>4 DEF Set, TypeOK
  <2>2. InOrder(syncs[k])' /\ \A m : Followed(syncs[k], m)'
    BY <2>1 DEF InOrder, Followed, Reached, Off
  <2> QED
    BY <1>1, <1>3, <2>2, SettledUntouched, StageClean DEF CInv, CleanKept
<1>5. CASE found # {}
  <2>1. /\ syncs'[k].orphans = found /\ syncs'[k].phase = "clean"
        /\ syncs'[k].valid = syncs[k].valid /\ syncs'[k].page = syncs[k].page
    BY <1>1, <1>2, <1>5 DEF Set, TypeOK, Sync
  <2>2. InOrder(syncs[k])'
    BY <1>1, <2>1 DEF InOrder
  <2>3. ASSUME posted <= ScanLimit, NEW m \in (1..posted) \ dirty'
        PROVE  Settled(m)' /\ Followed(syncs[k], m)'
    <3>1. Settled(m) /\ Followed(syncs[k], m)
      BY <1>1, <2>3 DEF CInv, CleanKept
    <3>2. m \in Live => m \notin found
      BY <1>1, <1>2, <3>1 DEF Followed, Reached
    <3>3. Followed(syncs[k], m)'
      BY <1>1, <2>1, <3>1, <3>2 DEF Followed, Reached, EntryOf
    <3> QED
      BY <1>1, <3>1, <3>3, SettledUntouched
  <2> QED
    BY <1>1, <1>3, <2>2, <2>3, StageClean
<1> QED
  BY <1>4, <1>5

LEMMA DeleteOrphanClean ==
    ASSUME CInv, NEW k \in SyncId, DeleteOrphan(k)
    PROVE  Ordered' /\ CleanKept'
<1>1. /\ TypeOK /\ InOrder(syncs[k]) /\ syncs[k].phase = "clean" /\ syncs[k] \in Sync
      /\ UNCHANGED <<posted, place, text, gone, tasks, dirty>> /\ Live' = Live
  BY DEF CInv, Ordered, IInv, TypeOK, DeleteOrphan, In, discord, Live
<1>2. PICK left : /\ Set(k, left)
                  /\ \/ left = Off
                     \/ \E i \in syncs[k].orphans :
                           left = [syncs[k] EXCEPT !.orphans = @ \ {i}]
  BY DEF DeleteOrphan
<1>3. syncs'[k] = left /\ \A j \in SyncId \ {k} : syncs'[j] = syncs[j]
  BY <1>1, <1>2 DEF Set, TypeOK
<1>4. InOrder(syncs[k])'
  BY <1>1, <1>2, <1>3 DEF InOrder, Off, Sync
<1>5. ASSUME posted <= ScanLimit, NEW m \in (1..posted) \ dirty'
      PROVE  Settled(m)' /\ Followed(syncs[k], m)'
  <2>1. Settled(m) /\ Followed(syncs[k], m)
    BY <1>1, <1>5 DEF CInv, CleanKept
  <2>2. Followed(syncs[k], m)'
    <3>1. CASE left = Off
      BY <1>3, <3>1 DEF Followed, Reached, Off
    <3>2. CASE \E i \in syncs[k].orphans : left = [syncs[k] EXCEPT !.orphans = @ \ {i}]
      <4>1. /\ left.phase = "clean" /\ left.page = syncs[k].page
            /\ left.orphans \subseteq syncs[k].orphans
        BY <1>1, <3>2 DEF Sync
      <4> QED
        BY <1>1, <1>3, <2>1, <4>1 DEF Followed, Reached, EntryOf
    <3> QED
      BY <1>2, <3>1, <3>2
  <2>3. Settled(m)'
    <3>1. \/ rows' = rows
          \/ \E i \in syncs[k].orphans : rows' = Purge(i)
      BY DEF DeleteOrphan
    <3>2. CASE rows' = rows
      BY <1>1, <2>1, <3>2, SettledUntouched
    <3>3. ASSUME NEW i \in syncs[k].orphans, rows' = Purge(i), i # m
          PROVE  Settled(m)'
      <4>1. RowsOf(m)' = RowsOf(m)
        BY <3>3, RowsElsewhere
      <4>2. Expected(m)' = Expected(m) /\ TasksOf(m)' = TasksOf(m)
        BY <1>1 DEF Expected, TasksOf
      <4> QED
        BY <1>1, <2>1, <4>1, <4>2, SettledStays
    <3>4. ASSUME m \in syncs[k].orphans, rows' = Purge(m)
          PROVE  Settled(m)'
      <4>1. m \notin Live /\ m \in gone
        BY <1>1, <1>5, <2>1, <3>4 DEF Followed, Reached, Live
      <4>2. RowsOf(m)' = {} /\ Expected(m)' = {} /\ TasksOf(m)' = TasksOf(m)
        BY <1>1, <3>4, <4>1, RowsHere DEF Expected, TasksOf
      <4>3. CASE TasksOf(m) = {}
        BY <4>2, <4>3 DEF Settled
      <4>4. CASE \E t \in tasks : TasksOf(m) = {t} /\ Owed(m, t.ops)
        BY <1>1, <4>1, <4>2, <4>4 DEF Settled, Owed
      <4> QED
        BY <2>1, <4>3, <4>4 DEF Settled
    <3> QED
      BY <3>1, <3>2, <3>3, <3>4
  <2> QED
    BY <2>2, <2>3
<1> QED
  BY <1>1, <1>3, <1>4, <1>5, StageClean

-----------------------------------------------------------------------------
(***************************************************************************)
(* The theorem.                                                            *)
(***************************************************************************)
LEMMA StepClean == CInv /\ [Next]_vars => CInv'
<1> SUFFICES ASSUME CInv, [Next]_vars PROVE Ordered' /\ CleanKept'
  BY StepKeeps DEF CInv
<1>1. CASE UNCHANGED vars
  <2>1. /\ UNCHANGED <<posted, place, text, gone, rows, tasks, syncs, dirty>>
        /\ TypeOK /\ posted \in Nat /\ Live' = Live
    BY <1>1 DEF vars, CInv, IInv, TypeOK, Live
  <2>2. Ordered'
    BY <2>1, InOrderStays DEF CInv, Ordered
  <2>3. ASSUME posted <= ScanLimit, NEW m \in (1..posted) \ dirty
        PROVE  Settled(m)' /\ \A k \in SyncId : Followed(syncs[k], m)'
    BY <2>1, <2>3, SettledUntouched, FollowedStays DEF CInv, CleanKept
  <2> QED
    BY <2>1, <2>2, <2>3 DEF CleanKept
<1>2. ASSUME NEW k \in SyncId, SyncStep(k) PROVE Ordered' /\ CleanKept'
  BY <1>2, FetchClean, FetchFailsClean, ScanClean, FindOrphansClean, DeleteOrphanClean
     DEF SyncStep
<1> QED
  BY <1>1, <1>2, PostClean, EditClean, DeleteClean, TaskStepClean, ProcessClean DEF Next

\* A message whose events came one at a time, on a live session and outside of
\* syncs, has exactly its passengers in the table once its listener call is
\* over: no sync, crash, lost session or other message undoes that, however
\* they interleave, as long as a sync can read all the messages there are.
THEOREM CleanStaysCovered == Spec => []CleanIsCovered
<1>1. CInv => CleanIsCovered
  BY DEF CInv, CleanKept, CleanIsCovered, Settled
<1> QED
  BY <1>1, InitClean, StepClean, PTL DEF Spec
=============================================================================

------------------------- MODULE LiveReactionsProofs -------------------------
(* The stream of reaction events is open exactly for the page on screen, and *)
(* every list is a view of the log that never moves back.                    *)
EXTENDS LiveReactions, TLAPS

\* What a list has is no newer than the log, and what it is about to get no
\* older than what it has.
InOrder ==
    \A k \in Keys :
        /\ cache[k].ver <= events
        /\ cache[k].ans # NoData => cache[k].ver <= cache[k].ans /\ cache[k].ans <= events

IInv == LiveTypeOK /\ StreamServesPage /\ InOrder

\* A request may have been started, dropped or ended in r, but q showed the same.
SameView(q, r) == r \in Entry /\ r.ver = q.ver /\ r.ans \in {q.ans, NoData}

\* The step leaves what the lists show and the log alone.
ListsStay ==
    /\ events' = events
    /\ cache' \in [Keys -> Entry]
    /\ \A k \in Keys : SameView(cache[k], cache'[k])

-----------------------------------------------------------------------------
(* The lists.                                                               *)

LEMMA AskStays == \A q \in Entry, b \in BOOLEAN : SameView(q, Ask(q, b))
  BY DEF Ask, SameView, Entry, NoData

LEMMA AskStaleStays ==
    \A q \in Entry, s \in BOOLEAN, b \in BOOLEAN :
        LET r == [q EXCEPT !.stale = s] IN SameView(q, r) /\ SameView(q, Ask(r, b))
<1> SUFFICES ASSUME NEW q \in Entry, NEW s \in BOOLEAN, NEW b \in BOOLEAN,
                    NEW r, r = [q EXCEPT !.stale = s]
             PROVE  SameView(q, r) /\ SameView(q, Ask(r, b))
  OBVIOUS
<1>1. r \in Entry /\ r.ver = q.ver /\ r.ans = q.ans
  BY DEF Entry
<1>2. SameView(r, Ask(r, b))
  BY <1>1, AskStays
<1> QED
  BY <1>1, <1>2 DEF SameView

LEMMA MountStays == \A q \in Entry : \A k : SameView(q, OnMount(k, q))
<1> SUFFICES ASSUME NEW q \in Entry, NEW k PROVE SameView(q, OnMount(k, q))
  OBVIOUS
<1>1. SameView(q, q) /\ SameView(q, Ask(q, FALSE))
  BY AskStays DEF SameView
<1>2. OnMount(k, q) = Ask(q, FALSE) \/ OnMount(k, q) = q
  BY DEF OnMount
<1> QED
  BY <1>1, <1>2

LEMMA KeysFixed == cache \in [Keys -> Entry] /\ ListsStay => Keys' = Keys
  BY DEF ListsStay, Keys

LEMMA InvalidatedStays ==
    ASSUME cache \in [Keys -> Entry], NEW ls, cache' = Invalidated(cache, ls), events' = events
    PROVE  ListsStay
<1> DEFINE new(k) == Invalidated(cache, ls)[k]
<1>1. ASSUME NEW k \in Keys PROVE SameView(cache[k], new(k))
  <2> DEFINE s == cache[k].stale \/ GrowsStale(k)
             q == [cache[k] EXCEPT !.stale = s]
  <2>1. cache[k] \in Entry
    OBVIOUS
  <2>2. s \in BOOLEAN
    BY Zenon
  <2>3. SameView(cache[k], q) /\ SameView(cache[k], Ask(q, TRUE))
    <3> HIDE DEF s
    <3> QED
      BY <2>1, <2>2, AskStaleStays
  <2>4. SameView(cache[k], cache[k])
    BY <2>1 DEF SameView
  <2>5. new(k) \in {cache[k], q, Ask(q, TRUE)}
    <3> HIDE DEF s
    <3> QED
      BY DEF Invalidated, s
  <2> HIDE DEF q
  <2> QED
    BY <2>3, <2>4, <2>5
<1>2. cache' = [k \in Keys |-> new(k)]
  BY DEF Invalidated
<1>3. \A k \in Keys : new(k) \in Entry
  BY <1>1 DEF SameView
<1> HIDE DEF new
<1> QED
  BY <1>1, <1>2, <1>3 DEF ListsStay

\* One entry is asked for, or none.
LEMMA OneAskStays ==
    ASSUME cache \in [Keys -> Entry], events' = events, NEW k \in Keys, NEW r,
           SameView(cache[k], r), cache' = [cache EXCEPT ![k] = r]
    PROVE  ListsStay
<1>1. r \in Entry
  BY DEF SameView
<1>2. \A j \in Keys : cache'[j] = IF j = k THEN r ELSE cache[j]
  OBVIOUS
<1>3. \A j \in Keys : SameView(cache[j], cache[j])
  BY DEF SameView
<1> QED
  BY <1>1, <1>2, <1>3 DEF ListsStay

LEMMA NothingStays ==
    ASSUME cache \in [Keys -> Entry], events' = events, cache' = cache PROVE ListsStay
  BY DEF ListsStay, SameView

LEMMA ShowChoiceStays ==
    ASSUME cache \in [Keys -> Entry], events' = events, NEW l, NEW d, ShowChoice(l, d)
    PROVE  ListsStay
<1> DEFINE k == <<l, d>>
<1>1. CASE k \in Keys /\ IsStale(cache[k])
  <2>1. cache' = [cache EXCEPT ![k] = Ask(cache[k], FALSE)]
    BY <1>1 DEF ShowChoice
  <2>2. SameView(cache[k], Ask(cache[k], FALSE))
    BY <1>1, AskStays
  <2> QED
    BY <1>1, <2>1, <2>2, OneAskStays
<1>2. CASE ~(k \in Keys /\ IsStale(cache[k]))
  BY <1>2, NothingStays DEF ShowChoice
<1> QED
  BY <1>1, <1>2

\* Every step leaves the lists alone but a new event, and the reading and the
\* arrival of an answer.
LEMMA QuietSteps ==
    ASSUME IInv, [LiveNext]_liveVars,
           ~NewEvent, \A k \in AllKeys : ~ServerReads(k) /\ ~Receives(k)
    PROVE  ListsStay
<1>0. cache \in [Keys -> Entry] /\ Keys \subseteq AllKeys
  BY DEF IInv, LiveTypeOK, AllKeys
<1>1. CASE Connect \/ HandleMessage \/ HandleError \/ ForceSync
           \/ (\E r \in Roles : MeAnswers(r)) \/ UNCHANGED liveVars
  <2>1. cache' = cache /\ events' = events
    BY <1>1 DEF Connect, HandleMessage, HandleError, ForceSync, MeAnswers, liveVars
  <2> QED
    BY <1>0, <2>1, NothingStays
<1>2. CASE NotifySubscribers
  BY <1>0, <1>2, InvalidatedStays DEF NotifySubscribers
<1>3. CASE RefreshCoverage
  BY <1>0, <1>3, InvalidatedStays DEF RefreshCoverage
<1>4. CASE \E ok \in BOOLEAN : SyncAnswers(ok)
  BY <1>0, <1>4, InvalidatedStays, NothingStays DEF SyncAnswers
<1>5. ASSUME NEW k \in AllKeys, FetchFails(k) PROVE ListsStay
  <2> DEFINE r == [cache[k] EXCEPT !.asked = FALSE, !.ans = NoData, !.failed = TRUE]
  <2>1. k \in Keys /\ events' = events /\ cache' = [cache EXCEPT ![k] = r]
    BY <1>0, <1>5 DEF FetchFails
  <2>2. SameView(cache[k], r)
    BY <1>0, <2>1 DEF SameView, Entry
  <2> QED
    BY <1>0, <2>1, <2>2, OneAskStays
<1>6. ASSUME NEW k \in AllKeys, Age(k) PROVE ListsStay
  <2> DEFINE r == [cache[k] EXCEPT !.stale = TRUE]
  <2>1. k \in Keys /\ events' = events /\ cache' = [cache EXCEPT ![k] = r]
    BY <1>0, <1>6 DEF Age
  <2>2. SameView(cache[k], r)
    BY <1>0, <2>1 DEF SameView, Entry
  <2> QED
    BY <1>0, <2>1, <2>2, OneAskStays
<1>7. CASE Focus
  <2>1. \A k \in Keys : SameView(cache[k], cache[k]) /\ SameView(cache[k], Ask(cache[k], FALSE))
    BY <1>0, AskStays DEF SameView
  <2>2. \A k \in Keys : cache'[k] \in {cache[k], Ask(cache[k], FALSE)}
    BY <1>7 DEF Focus
  <2>3. cache' = [k \in Keys |-> cache'[k]] /\ events' = events
    BY <1>7 DEF Focus
  <2>4. \A k \in Keys : SameView(cache[k], cache'[k])
    BY <2>1, <2>2
  <2> QED
    BY <2>3, <2>4 DEF ListsStay, SameView
<1>8. CASE \E p \in Pages, auto \in Days : Navigate(p, auto)
  <2>1. \A k \in Keys : SameView(cache[k], cache[k]) /\ SameView(cache[k], OnMount(k, cache[k]))
    BY <1>0, MountStays DEF SameView
  <2>2. \A k \in Keys : cache'[k] \in {cache[k], OnMount(k, cache[k])}
    BY <1>8 DEF Navigate
  <2>3. cache' = [k \in Keys |-> cache'[k]] /\ events' = events
    BY <1>8 DEF Navigate
  <2>4. \A k \in Keys : SameView(cache[k], cache'[k])
    BY <2>1, <2>2
  <2> QED
    BY <2>3, <2>4 DEF ListsStay, SameView
<1>9. ASSUME NEW l \in Lists, NEW d \in Days, Choose(l, d) PROVE ListsStay
  BY <1>0, <1>9, ShowChoiceStays DEF Choose
<1>10. ASSUME NEW l \in Lists, NEW d \in Days, RefreshToDay(l, d) PROVE ListsStay
  <2>1. CASE d = sel[l]
    <3>1. /\ <<l, d>> \in Keys /\ events' = events
          /\ cache' = [cache EXCEPT ![<<l, d>>] = Ask(cache[<<l, d>>], TRUE)]
      BY <1>10, <2>1 DEF RefreshToDay
    <3>2. SameView(cache[<<l, d>>], Ask(cache[<<l, d>>], TRUE))
      BY <1>0, <3>1, AskStays
    <3> QED
      BY <1>0, <3>1, <3>2, OneAskStays
  <2>2. CASE d # sel[l]
    BY <1>0, <1>10, <2>2, ShowChoiceStays DEF RefreshToDay
  <2> QED
    BY <2>1, <2>2
<1> QED
  BY <1>1, <1>2, <1>3, <1>4, <1>5, <1>6, <1>7, <1>8, <1>9, <1>10 DEF LiveNext

-----------------------------------------------------------------------------
(* The invariant, variable by variable.                                     *)

LEMMA ListsInOrder ==
    ASSUME IInv, [LiveNext]_liveVars
    PROVE  /\ events' \in Versions /\ Keys' = Keys /\ cache' \in [Keys -> Entry]
           /\ InOrder'
<1>0. /\ cache \in [Keys -> Entry] /\ events \in Versions /\ InOrder
      /\ \A k \in Keys : cache[k] \in Entry
  BY DEF IInv, LiveTypeOK
<1>1. CASE NewEvent
  <2>1. events' = events + 1 /\ events' \in Versions /\ cache' = cache
    BY <1>0, <1>1, LiveAssumption DEF NewEvent, Versions
  <2>2. \A k \in Keys : cache[k].ver \in Int /\ cache[k].ans \in Int
    BY <1>0, LiveAssumption DEF Entry, Versions, NoData
  <2> QED
    BY <1>0, <2>1, <2>2, LiveAssumption DEF InOrder, Keys, Versions
<1>2. ASSUME NEW k \in AllKeys, ServerReads(k) PROVE events' \in Versions /\ Keys' = Keys
                                                       /\ cache' \in [Keys -> Entry] /\ InOrder'
  <2> DEFINE r == [cache[k] EXCEPT !.ans = events]
  <2>1. k \in Keys /\ events' = events /\ cache' = [cache EXCEPT ![k] = r]
    BY <1>2 DEF ServerReads
  <2>2. r \in Entry /\ r.ver = cache[k].ver /\ r.ans = events
    BY <1>0, <2>1 DEF Entry
  <2>3. cache' \in [Keys -> Entry] /\ cache'[k] = r
        /\ \A j \in Keys \ {k} : cache'[j] = cache[j]
    BY <1>0, <2>1, <2>2
  <2>4. Keys' = Keys
    BY <1>0, <2>3 DEF Keys
  <2> HIDE DEF r
  <2> QED
    BY <1>0, <2>1, <2>2, <2>3, <2>4, LiveAssumption DEF InOrder, Versions
<1>3. ASSUME NEW k \in AllKeys, Receives(k) PROVE events' \in Versions /\ Keys' = Keys
                                                    /\ cache' \in [Keys -> Entry] /\ InOrder'
  <2> DEFINE r == [ver |-> cache[k].ans, stale |-> k[1] = "reaction-log",
                   asked |-> FALSE, ans |-> NoData, failed |-> FALSE]
  <2>1. k \in Keys /\ events' = events /\ cache' = [cache EXCEPT ![k] = r]
        /\ cache[k].ans # NoData
    BY <1>3 DEF Receives
  <2>2. r \in Entry /\ r.ver = cache[k].ans /\ r.ans = NoData
    <3>1. PICK b \in BOOLEAN : b = (k[1] = "reaction-log")
      BY Zenon
    <3> QED
      BY <1>0, <2>1, <3>1 DEF Entry
  <2>3. cache' \in [Keys -> Entry] /\ cache'[k] = r
        /\ \A j \in Keys \ {k} : cache'[j] = cache[j]
    BY <1>0, <2>1, <2>2
  <2>4. Keys' = Keys
    BY <1>0, <2>3 DEF Keys
  <2> HIDE DEF r
  <2> QED
    BY <1>0, <2>1, <2>2, <2>3, <2>4 DEF InOrder
<1>4. CASE ~NewEvent /\ \A k \in AllKeys : ~ServerReads(k) /\ ~Receives(k)
  <2>1. ListsStay
    BY <1>4, QuietSteps
  <2>2. Keys' = Keys
    BY <1>0, <2>1, KeysFixed
  <2> QED
    BY <1>0, <2>1, <2>2 DEF ListsStay, SameView, InOrder
<1> QED
  BY <1>1, <1>2, <1>3, <1>4

\* The callers that mount and unmount when the route or the role changes.
LEMMA RemountServes ==
    ASSUME IInv, NEW p \in Pages, NEW r \in Roles,
           page' = p, role' = r, Remount(Mounted(page, role), Mounted(p, r))
    PROVE  stream' \in StreamType /\ streamError' \in BOOLEAN /\ StreamServesPage'
<1> DEFINE old == Mounted(page, role)
           new == Mounted(p, r)
           out == IF old \subseteq new THEN stream
                  ELSE Detach(stream, CHOOSE c \in old \ new : TRUE)
<1>1. /\ old \in {{}, {"home"}, {"log"}} /\ new \in {{}, {"home"}, {"log"}}
      /\ new = Mounted(page', role')
  BY DEF Mounted
<1>2. /\ stream \in StreamType /\ streamError \in BOOLEAN
      /\ stream.open => stream.subs = old /\ stream.subs # {}
      /\ old # {} => (stream.open # streamError)
      /\ stream.timer # 0 => stream.live /\ stream.timer = stream.got
  BY DEF IInv, LiveTypeOK, StreamServesPage
<1>3. /\ stream' = IF new \subseteq old THEN out
                   ELSE Attach(out, CHOOSE c \in new \ old : TRUE)
      /\ streamError' = (streamError /\ old = new)
  BY DEF Remount
<1>4. Closed \in StreamType /\ ~Closed.open /\ Closed.timer = 0
  BY LiveAssumption DEF Closed, StreamType, Versions
<1> HIDE DEF old, new
<1>5. CASE old = new
  BY <1>1, <1>2, <1>3, <1>5 DEF StreamServesPage
<1>6. CASE old # new
  <2>1. streamError' = FALSE
    BY <1>3, <1>6
  <2>2. out \in StreamType /\ ~out.open /\ (old # {} => out = Closed)
    <3>1. CASE old = {}
      BY <1>2, <3>1
    <3>2. CASE old # {}
      <4>1. PICK c : old = {c} /\ c \notin new
        BY <1>1, <1>6, <3>2
      <4>2. (CHOOSE x \in old \ new : TRUE) = c
        BY <4>1
      <4>3. out = Detach(stream, c)
        BY <4>1, <4>2
      <4>4. Detach(stream, c) = Closed
        BY <1>2, <4>1 DEF Detach
      <4> QED
        BY <1>4, <4>3, <4>4
    <3> QED
      BY <3>1, <3>2
  <2> HIDE DEF out
  <2>3. CASE new = {}
    <3>1. stream' = Closed
      BY <1>3, <1>6, <2>2, <2>3
    <3> QED
      BY <1>1, <1>4, <2>1, <2>3, <3>1 DEF StreamServesPage
  <2>4. CASE new # {}
    <3>1. PICK c : new = {c} /\ c \notin old
      BY <1>1, <1>6, <2>4
    <3>2. (CHOOSE x \in new \ old : TRUE) = c
      BY <3>1
    <3>3. stream' = [Closed EXCEPT !.open = TRUE, !.subs = {c}]
      BY <1>3, <2>2, <3>1, <3>2 DEF Attach
    <3>4. /\ stream' \in StreamType /\ stream'.open /\ stream'.subs = {c}
          /\ stream'.timer = 0
      BY <1>1, <1>4, <3>1, <3>3 DEF Closed, StreamType
    <3> QED
      BY <1>1, <2>1, <3>1, <3>4 DEF StreamServesPage
  <2> QED
    BY <2>3, <2>4
<1> QED
  BY <1>5, <1>6

LEMMA StreamServes ==
    ASSUME IInv, [LiveNext]_liveVars
    PROVE  /\ stream' \in StreamType /\ streamError' \in BOOLEAN /\ StreamServesPage'
           /\ page' \in Pages /\ role' \in Roles
<1>0. /\ stream \in StreamType /\ streamError \in BOOLEAN /\ page \in Pages /\ role \in Roles
      /\ events \in Versions /\ StreamServesPage
  BY DEF IInv, LiveTypeOK
<1>1. CASE Connect
  <2>1. /\ stream.open /\ stream.timer = 0
        /\ stream' = [stream EXCEPT !.live = TRUE, !.got = events]
        /\ page' = page /\ role' = role /\ streamError' = streamError
    BY <1>0, <1>1 DEF Connect, StreamServesPage
  <2> QED
    BY <1>0, <2>1 DEF StreamServesPage, StreamType
<1>2. CASE HandleMessage
  <2>1. /\ stream.live /\ stream.got < events
        /\ stream' = [stream EXCEPT !.got = stream.got + 1, !.timer = stream.got + 1]
        /\ page' = page /\ role' = role /\ streamError' = streamError
    BY <1>2 DEF HandleMessage
  <2>2. stream.got + 1 \in Versions
    BY <1>0, <2>1, LiveAssumption DEF StreamType, Versions
  <2> QED
    BY <1>0, <2>1, <2>2 DEF StreamServesPage, StreamType
<1>3. CASE NotifySubscribers
  <2>1. /\ stream' = [stream EXCEPT !.timer = 0]
        /\ page' = page /\ role' = role /\ streamError' = streamError
    BY <1>3 DEF NotifySubscribers
  <2>2. 0 \in Versions
    BY LiveAssumption DEF Versions
  <2> QED
    BY <1>0, <2>1, <2>2 DEF StreamServesPage, StreamType
<1>4. CASE HandleError
  <2>1. /\ stream' = Closed /\ streamError' = TRUE /\ page' = page /\ role' = role
    BY <1>4 DEF HandleError
  <2>2. 0 \in Versions
    BY LiveAssumption DEF Versions
  <2> QED
    BY <1>0, <2>1, <2>2 DEF StreamServesPage, StreamType, Closed
<1>5. ASSUME NEW p \in Pages, NEW auto \in Days, Navigate(p, auto)
      PROVE  /\ stream' \in StreamType /\ streamError' \in BOOLEAN /\ StreamServesPage'
             /\ page' \in Pages /\ role' \in Roles
  <2>1. page' = p /\ role' = role /\ Remount(Mounted(page, role), Mounted(p, role))
    BY <1>5 DEF Navigate
  <2> QED
    BY <1>0, <2>1, RemountServes
<1>6. ASSUME NEW r \in Roles, MeAnswers(r)
      PROVE  /\ stream' \in StreamType /\ streamError' \in BOOLEAN /\ StreamServesPage'
             /\ page' \in Pages /\ role' \in Roles
  <2>1. page' = page /\ role' = r /\ Remount(Mounted(page, role), Mounted(page, r))
    BY <1>6 DEF MeAnswers
  <2> QED
    BY <1>0, <2>1, RemountServes
<1>7. CASE UNCHANGED <<stream, streamError, page, role>>
  BY <1>0, <1>7 DEF StreamServesPage, Mounted
<1>8. CASE \/ NewEvent \/ Focus \/ RefreshCoverage \/ ForceSync \/ UNCHANGED liveVars
           \/ \E k \in AllKeys : ServerReads(k) \/ Receives(k) \/ FetchFails(k) \/ Age(k)
           \/ \E l \in Lists, d \in Days : Choose(l, d) \/ RefreshToDay(l, d)
           \/ \E ok \in BOOLEAN : SyncAnswers(ok)
  BY <1>7, <1>8 DEF NewEvent, Focus, RefreshCoverage, ForceSync, ServerReads, Receives,
     FetchFails, Age, Choose, RefreshToDay, SyncAnswers, liveVars
<1> QED
  BY <1>1, <1>2, <1>3, <1>4, <1>5, <1>6, <1>8 DEF LiveNext

\* What is chosen, and whether a sync runs.
LEMMA ChoicesTyped ==
    ASSUME IInv, [LiveNext]_liveVars
    PROVE  sel' \in [Lists -> Days] /\ syncing' \in BOOLEAN
<1>0. sel \in [Lists -> Days] /\ syncing \in BOOLEAN
  BY DEF IInv, LiveTypeOK
<1>1. ASSUME NEW p \in Pages, NEW auto \in Days, Navigate(p, auto)
      PROVE  sel' \in [Lists -> Days] /\ syncing' \in BOOLEAN
  <2>1. /\ syncing' = syncing
        /\ sel' = [l \in Lists |-> IF l \notin Shown THEN sel[l]
                     ELSE IF p = "home" /\ l = "askRidesReactions" THEN auto
                     ELSE IF p = PageOf(<<l, "friday">>) THEN "friday" ELSE sel[l]]
    BY <1>1 DEF Navigate
  <2>2. "friday" \in Days
    BY DEF Days
  <2> QED
    BY <1>0, <2>1, <2>2
<1>2. ASSUME NEW l \in Lists, NEW d \in Days, Choose(l, d) \/ RefreshToDay(l, d)
      PROVE  sel' \in [Lists -> Days] /\ syncing' \in BOOLEAN
  <2>1. syncing' = syncing /\ (sel' = [sel EXCEPT ![l] = d] \/ sel' = sel)
    BY <1>2 DEF Choose, RefreshToDay, ShowChoice
  <2> QED
    BY <1>0, <2>1
<1>3. CASE ForceSync \/ \E ok \in BOOLEAN : SyncAnswers(ok)
  BY <1>0, <1>3 DEF ForceSync, SyncAnswers
<1>4. CASE \/ NewEvent \/ Connect \/ HandleMessage \/ NotifySubscribers \/ HandleError
           \/ Focus \/ RefreshCoverage \/ UNCHANGED liveVars
           \/ \E k \in AllKeys : ServerReads(k) \/ Receives(k) \/ FetchFails(k) \/ Age(k)
           \/ \E r \in Roles : MeAnswers(r)
  <2>1. UNCHANGED <<sel, syncing>>
    BY <1>4 DEF NewEvent, Connect, HandleMessage, NotifySubscribers, HandleError, Focus,
       RefreshCoverage, ServerReads, Receives, FetchFails, Age, MeAnswers, liveVars
  <2> QED
    BY <1>0, <2>1
<1> QED
  BY <1>1, <1>2, <1>3, <1>4 DEF LiveNext

-----------------------------------------------------------------------------
LEMMA InitInv == LiveInit => IInv
<1> SUFFICES ASSUME LiveInit PROVE IInv
  OBVIOUS
<1>1. PICK keys \in KeySets : cache = [k \in keys |-> Empty]
  BY DEF LiveInit
<1>2. Keys = keys /\ \A k \in Keys : cache[k] = Empty
  BY <1>1 DEF Keys
<1>3. Empty \in Entry /\ Empty.ver = NoData /\ Empty.ans = NoData
  BY DEF Empty, Entry
<1>4. cache \in [Keys -> Entry]
  BY <1>1, <1>2, <1>3
<1>5. 0 \in Versions
  BY LiveAssumption DEF Versions
<1>6. Closed \in StreamType
  BY <1>5 DEF Closed, StreamType
<1>7. LiveTypeOK
  BY <1>1, <1>2, <1>4, <1>5, <1>6 DEF LiveInit, LiveTypeOK, Pages, Roles, Days
<1>8. StreamServesPage
  BY DEF LiveInit, StreamServesPage, Closed, Mounted
<1>9. InOrder
  BY <1>2, <1>3 DEF LiveInit, InOrder, NoData
<1> QED
  BY <1>7, <1>8, <1>9 DEF IInv

LEMMA NextInv == IInv /\ [LiveNext]_liveVars => IInv'
<1> SUFFICES ASSUME IInv, [LiveNext]_liveVars PROVE IInv'
  OBVIOUS
<1>1. Keys \in KeySets
  BY DEF IInv, LiveTypeOK
<1> QED
  BY <1>1, ListsInOrder, StreamServes, ChoicesTyped DEF IInv, LiveTypeOK

\* The stream, the cache and what is chosen keep their types, for every choice
\* of keys to follow and every number of events.
THEOREM LiveTyped == LiveSpec => []LiveTypeOK
<1>1. IInv => LiveTypeOK
  BY DEF IInv
<1> QED
  BY <1>1, InitInv, NextInv, PTL DEF LiveSpec

\* A stream is open exactly for the callers on screen, however many events,
\* errors, page changes and answers of /api/me there are.
THEOREM StreamFollowsPage == LiveSpec => []StreamServesPage
<1>1. IInv => StreamServesPage
  BY DEF IInv
<1> QED
  BY <1>1, InitInv, NextInv, PTL DEF LiveSpec

-----------------------------------------------------------------------------
(* The refinement: the lists and the log, as LogView sees them.             *)

LEMMA ViewInit == LiveInit => View!LogViewInit
<1> SUFFICES ASSUME LiveInit PROVE View!LogViewInit
  OBVIOUS
<1>1. PICK keys \in KeySets : cache = [k \in keys |-> Empty]
  BY DEF LiveInit
<1>2. keys \in SUBSET AllKeys /\ Keys = keys
  BY <1>1 DEF AllKeys, Keys
<1>3. [k \in Keys |-> cache[k].ver] = [k \in keys |-> -1]
  BY <1>1, <1>2 DEF Empty, NoData
<1> QED
  BY <1>2, <1>3 DEF LiveInit, View!LogViewInit

LEMMA ViewStep ==
    IInv /\ [LiveNext]_liveVars => [View!LogViewNext]_(View!logViewVars)
<1> SUFFICES ASSUME IInv, [LiveNext]_liveVars
             PROVE  View!LogViewNext \/ UNCHANGED View!logViewVars
  OBVIOUS
<1> DEFINE shown == [k \in Keys |-> cache[k].ver]
<1>0. /\ cache \in [Keys -> Entry] /\ events \in Versions /\ InOrder
      /\ Keys \subseteq AllKeys
  BY DEF IInv, LiveTypeOK, AllKeys
<1>1. CASE NewEvent
  <2>1. events < MaxEvents /\ events' = events + 1 /\ shown' = shown
    BY <1>1 DEF NewEvent, Keys
  <2> QED
    BY <2>1 DEF View!LogViewNext, View!Publish
<1>2. ASSUME NEW k \in AllKeys, Receives(k) PROVE View!LogViewNext
  <2> DEFINE n == cache[k].ans
  <2>1. /\ k \in Keys /\ n # NoData /\ events' = events
        /\ cache' = [cache EXCEPT ![k] = [ver |-> n, stale |-> k[1] = "reaction-log",
                                          asked |-> FALSE, ans |-> NoData, failed |-> FALSE]]
    BY <1>2 DEF Receives
  <2>2. n \in 0..events /\ n >= shown[k]
    BY <1>0, <2>1, LiveAssumption DEF InOrder, Entry, Versions, NoData
  <2>3. shown' = [shown EXCEPT ![k] = n]
    <3>1. Keys' = Keys
      BY <1>0, ListsInOrder
    <3>2. \A j \in Keys : cache'[j].ver = IF j = k THEN n ELSE cache[j].ver
      BY <1>0, <2>1
    <3> QED
      BY <2>1, <3>1, <3>2
  <2>4. k \in DOMAIN shown
    BY <2>1
  <2>5. View!Show(k)
    BY <2>1, <2>2, <2>3, <2>4 DEF View!Show
  <2> QED
    BY <2>5 DEF View!LogViewNext
<1>3. ASSUME NEW k \in AllKeys, ServerReads(k) PROVE UNCHANGED View!logViewVars
  <2>1. /\ k \in Keys /\ events' = events
        /\ cache' = [cache EXCEPT ![k] = [cache[k] EXCEPT !.ans = events]]
    BY <1>3 DEF ServerReads
  <2>2. Keys' = Keys
    BY <1>0, ListsInOrder
  <2>3. \A j \in Keys : cache'[j].ver = cache[j].ver
    BY <1>0, <2>1 DEF Entry
  <2>4. shown' = shown
    BY <2>2, <2>3
  <2> QED
    BY <2>1, <2>4 DEF View!logViewVars
<1>4. CASE ~NewEvent /\ \A k \in AllKeys : ~ServerReads(k) /\ ~Receives(k)
  <2>1. ListsStay
    BY <1>4, QuietSteps
  <2>2. Keys' = Keys
    BY <1>0, ListsInOrder
  <2>3. shown' = shown
    BY <2>1, <2>2 DEF ListsStay, SameView
  <2> QED
    BY <2>1, <2>3 DEF View!logViewVars, ListsStay
<1> QED
  BY <1>1, <1>2, <1>3, <1>4 DEF View!LogViewNext

\* Every list is a view of the log that never moves back, for every set of keys
\* and however requests are joined, cancelled, answered late or lost.
THEOREM ListsImplement == LiveSpec => ListsAreViews
<1> QED
  BY InitInv, NextInv, ViewInit, ViewStep, PTL
  DEF LiveSpec, ListsAreViews, View!LogViewSpec
=============================================================================

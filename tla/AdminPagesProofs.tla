-------------------------- MODULE AdminPagesProofs --------------------------
(* Theorems about the pages that manage the bot.  Each page has an inductive *)
(* invariant of its own: what is on its way, and what it will find, whatever *)
(* order the answers come in.                                               *)
EXTENDS AdminPages, FiniteSetTheorems, TLAPS

-----------------------------------------------------------------------------
(* The message editor: one card.                                            *)

\* Unless a message of the stream is still to come, or a change was missed, the
\* answer on its way is what is stored, and so is the query's data when nothing is
\* on its way.
CardFollowed(e, s) ==
    ~e.note /\ ~e.missed
      => /\ e.fetch \in Contents => e.fetch = s
         /\ e.fetch = "idle" /\ ~e.failed => e.template = s

\* No card that is hidden has unsaved text.
HiddenIsClean(e) == (e.hidden => ~e.dirty) /\ (e.away => e.hidden)
CardInv(e, s) == e \in CardType /\ HiddenIsClean(e) /\ CardFollowed(e, s)

EditorInv == CardInv(ed, stored) /\ stored \in Contents

-----------------------------------------------------------------------------
\* What a change of the card leaves alone.
SameQuery(e, f) ==
    /\ f.kind = e.kind /\ f.stream = e.stream /\ f.note = e.note /\ f.missed = e.missed
    /\ f.away = e.away /\ f.hidden = e.hidden
    /\ f.fetch = e.fetch /\ f.failed = e.failed /\ f.template = e.template

\* A card is filled: it is clean, and its query is as before.
LEMMA Filled ==
    ASSUME NEW e \in CardType, NEW t \in Contents
    PROVE  /\ Fill(e, t) \in CardType /\ SameQuery(e, Fill(e, t))
           /\ ~Fill(e, t).dirty /\ Fill(e, t).fields = t
<1>1. PICK f : f = Fill(e, t)
  OBVIOUS
<1>2. f \in CardType
  BY <1>1 DEF Fill, CardType
<1>3. ~f.dirty /\ f.fields = t /\ SameQuery(e, f)
  BY <1>1 DEF Fill, CardType, SameQuery
<1> QED
  BY <1>1, <1>2, <1>3

\* With unsaved text the inputs stay; else they are filled.
LEMMA Synced ==
    ASSUME NEW e \in CardType, NEW t \in Contents
    PROVE  LET f == SyncFromServer(e, t)
           IN /\ f \in CardType /\ SameQuery(e, f)
              /\ e.dirty => f.dirty /\ f.fields = e.fields
              /\ ~e.dirty => ~f.dirty
<1>1. PICK f : f = SyncFromServer(e, t)
  OBVIOUS
<1>2. CASE f = e
  BY <1>1, <1>2 DEF SameQuery, CardType
<1>3. CASE f = Fill(e, t) /\ ~e.dirty
  BY <1>1, <1>3, Filled
<1>4. CASE f = [e EXCEPT !.conflict = @ \/ t # e.baseline] /\ e.dirty
  <2>1. PICK b \in BOOLEAN : b = (e.conflict \/ t # e.baseline)
    <3>1. (e.conflict \/ t # e.baseline) \in BOOLEAN
      OBVIOUS
    <3> QED
      BY <3>1
  <2>2. f = [e EXCEPT !.conflict = b]
    BY <1>4, <2>1
  <2>3. f \in CardType /\ SameQuery(e, f) /\ f.dirty = e.dirty /\ f.fields = e.fields
    BY <2>2 DEF CardType, SameQuery
  <2> QED
    BY <1>1, <1>4, <2>3
<1>5. CASE f = [e EXCEPT !.fields = t] /\ ~e.dirty
  <2>1. f \in CardType /\ SameQuery(e, f) /\ f.dirty = e.dirty
    BY <1>5 DEF CardType, SameQuery
  <2> QED
    BY <1>1, <1>5, <2>1
<1>6. e.kind \in Kinds
  BY DEF CardType
<1>7. \/ f = e
      \/ f = Fill(e, t) /\ ~e.dirty
      \/ f = [e EXCEPT !.conflict = @ \/ t # e.baseline] /\ e.dirty
      \/ f = [e EXCEPT !.fields = t] /\ ~e.dirty
  <2>1. CASE t = ed.template
    BY <1>1, <2>1 DEF SyncFromServer
  <2>2. CASE t # ed.template /\ e.kind = "template"
    BY <1>1, <2>2 DEF SyncFromServer, SyncTemplate
  <2>3. CASE t # ed.template /\ e.kind = "slot"
    BY <1>1, <2>3 DEF SyncFromServer, SyncSlot
  <2>4. CASE t # ed.template /\ e.kind = "coordinator"
    BY <1>1, <2>4 DEF SyncFromServer, SyncCoordinator
  <2> QED
    BY <1>6, <2>1, <2>2, <2>3, <2>4 DEF Kinds
<1> QED
  BY <1>2, <1>3, <1>4, <1>5, <1>7

\* What a card shows of its text.
SameText(e, f) == f.fields = e.fields /\ f.dirty = e.dirty /\ f.hidden = e.hidden

\* A change that is missed: only a fetch that is still to be read finds it.
LEMMA Overlooked ==
    ASSUME NEW e \in CardType, HiddenIsClean(e), NEW s
    PROVE  LET f == Missed(e)
           IN /\ CardInv(f, s) /\ SameText(e, f) /\ f.away = e.away /\ f.kind = e.kind
              /\ f.fetch = e.fetch /\ f.failed = e.failed /\ f.template = e.template
              /\ f.note = e.note /\ (f.missed \/ e.fetch = "asked")
<1>1. PICK b \in BOOLEAN : b = (e.missed \/ e.fetch # "asked")
  <2>1. (e.missed \/ e.fetch # "asked") \in BOOLEAN
    OBVIOUS
  <2> QED
    BY <2>1
<1>2. PICK f : f = [e EXCEPT !.missed = b]
  OBVIOUS
<1>3. f = Missed(e)
  BY <1>1, <1>2 DEF Missed
<1>4. /\ f \in CardType /\ SameText(e, f) /\ f.away = e.away /\ f.missed = b /\ f.kind = e.kind
      /\ f.fetch = e.fetch /\ f.failed = e.failed /\ f.template = e.template /\ f.note = e.note
  BY <1>2 DEF CardType, SameText
<1>5. CardFollowed(f, s)
  BY <1>1, <1>4, EditorAssumption DEF CardFollowed, Fetching
<1>6. CardInv(f, s)
  BY <1>4, <1>5 DEF CardInv, HiddenIsClean, SameText
<1> QED
  BY <1>1, <1>3, <1>4, <1>6

\* A write by anybody leaves a message on the stream, or is missed.
LEMMA Noted ==
    ASSUME NEW e \in CardType, HiddenIsClean(e), NEW s
    PROVE  LET f == Written(e) IN CardInv(f, s) /\ SameText(e, f)
<1>1. CASE Published(e)
  <2>1. PICK f : f = [e EXCEPT !.note = TRUE]
    OBVIOUS
  <2>2. f \in CardType /\ f.note /\ SameText(e, f) /\ f.away = e.away
    BY <2>1 DEF CardType, SameText
  <2>3. CardInv(f, s)
    BY <2>2 DEF CardInv, CardFollowed, HiddenIsClean, SameText
  <2> QED
    BY <1>1, <2>1, <2>2, <2>3 DEF Written
<1>2. CASE ~Published(e)
  BY <1>2, Overlooked DEF Written
<1> QED
  BY <1>1, <1>2

\* Once the query is asked anew, its answer is what will be stored by then; if it
\* is not asked, the change is missed.
LEMMA AskedFor ==
    ASSUME NEW e \in CardType, HiddenIsClean(e), NEW s
    PROVE  LET f == AskMessages(e) IN CardInv(f, s) /\ SameText(e, f)
<1>1. CASE ~Observed(e)
  BY <1>1, Overlooked DEF AskMessages
<1>2. CASE Observed(e)
  <2>1. PICK f : f = [e EXCEPT !.fetch = "asked", !.missed = FALSE]
    OBVIOUS
  <2>2. f \in CardType /\ f.fetch = "asked" /\ SameText(e, f) /\ f.away = e.away
    BY <2>1 DEF CardType, Fetching, SameText
  <2>3. CardInv(f, s)
    BY <2>2, EditorAssumption DEF CardInv, CardFollowed, Fetching, HiddenIsClean, SameText
  <2> QED
    BY <1>2, <2>1, <2>2, <2>3 DEF AskMessages
<1> QED
  BY <1>1, <1>2

\* A query that is used again is asked anew, or its fetch is joined.
LEMMA UsedAgain ==
    ASSUME NEW e, NEW s, CardInv(e, s)
    PROVE  LET f == UseAgain(e)
           IN /\ f \in CardType /\ SameText(e, f) /\ CardFollowed(f, s) /\ f.away = e.away
              /\ f.fetch # "idle"
<1>1. CASE e.fetch # "idle"
  BY <1>1 DEF UseAgain, CardInv, SameText
<1>2. CASE e.fetch = "idle"
  <2>1. PICK f : f = [e EXCEPT !.fetch = "asked", !.missed = FALSE]
    OBVIOUS
  <2>2. f \in CardType /\ f.fetch = "asked" /\ SameText(e, f) /\ f.away = e.away
    BY <2>1 DEF CardInv, CardType, Fetching, SameText
  <2>3. CardFollowed(f, s)
    BY <2>2, EditorAssumption DEF CardFollowed, Fetching
  <2> QED
    BY <1>2, <2>1, <2>2, <2>3 DEF UseAgain
<1> QED
  BY <1>1, <1>2

\* A message that does not arrive is a change that is missed.
LEMMA LostNote ==
    ASSUME NEW e, NEW s, CardInv(e, s)
    PROVE  LET f == NoteLost(e) IN CardInv(f, s) /\ SameText(e, f) /\ f.away = e.away
<1>1. CASE ~e.note
  BY <1>1 DEF NoteLost, SameText
<1>2. CASE e.note
  <2>0. e \in CardType /\ HiddenIsClean(e)
    BY DEF CardInv
  <2>1. PICK g : g = Missed(e)
    OBVIOUS
  <2>2. CardInv(g, s) /\ SameText(e, g) /\ g.away = e.away /\ (g.missed \/ g.fetch = "asked")
    BY <2>0, <2>1, Overlooked
  <2>3. PICK f : f = [g EXCEPT !.note = FALSE]
    OBVIOUS
  <2>4. /\ f \in CardType /\ SameText(e, f) /\ f.away = e.away
        /\ f.missed = g.missed /\ f.fetch = g.fetch
    BY <2>2, <2>3 DEF CardInv, CardType, SameText
  <2>5. CardInv(f, s)
    BY <2>0, <2>2, <2>4, EditorAssumption DEF CardInv, CardFollowed, HiddenIsClean, SameText, Fetching
  <2> QED
    BY <1>2, <2>1, <2>3, <2>4, <2>5 DEF NoteLost
<1> QED
  BY <1>1, <1>2

\* A change of the card that leaves the query alone keeps the invariant.
LEMMA QueryApart ==
    ASSUME NEW e, NEW s, CardInv(e, s), NEW f \in CardType, SameQuery(e, f), f.hidden => ~f.dirty
    PROVE  CardInv(f, s)
  BY DEF CardInv, CardFollowed, HiddenIsClean, SameQuery

-----------------------------------------------------------------------------
\* What the user does.
LEMMA UserKeeps ==
    ASSUME EditorInv,
           \/ \E c \in Contents \cup {Blank} : EditCard(c)
           \/ SaveCard \/ UndoCard \/ OpenReset \/ CancelReset \/ ConfirmReset
    PROVE  EditorInv'
<1>1. CardInv(ed, stored) /\ stored \in Contents /\ ed \in CardType
  BY DEF EditorInv, CardInv
<1>2. ~ed.hidden /\ stored' = stored
  BY DEF EditCard, SaveCard, UndoCard, OpenReset, CancelReset, ConfirmReset, Controls
<1>3. ASSUME NEW f \in CardType, SameQuery(ed, f), ed' = f PROVE EditorInv'
  <2>1. CardInv(f, stored)
    BY <1>1, <1>2, <1>3, QueryApart DEF SameQuery
  <2> QED
    BY <1>1, <1>2, <1>3, <2>1 DEF EditorInv
<1>4. ASSUME NEW c \in Contents \cup {Blank}, EditCard(c) PROVE EditorInv'
  <2>1. PICK f : f = [ed EXCEPT !.fields = c, !.dirty = TRUE]
    OBVIOUS
  <2>2. f \in CardType /\ SameQuery(ed, f)
    BY <1>1, <2>1 DEF CardType, SameQuery
  <2> QED
    BY <1>3, <1>4, <2>1, <2>2 DEF EditCard
<1>5. CASE SaveCard
  <2>1. ed.fields \in Contents
    BY <1>1, <1>2, <1>5 DEF SaveCard, Controls, ResetDialog, TemplateControls, SlotControls,
                            CoordinatorControls, If, CardType, Kinds
  <2>2. PICK f : f = [ed EXCEPT !.save = "sent", !.body = ed.fields, !.mySave = TRUE]
    OBVIOUS
  <2>3. f \in CardType /\ SameQuery(ed, f)
    BY <1>1, <2>1, <2>2 DEF CardType, SameQuery, Stages
  <2> QED
    BY <1>3, <1>5, <2>2, <2>3 DEF SaveCard
<1>6. CASE UndoCard
  <2>1. ed.template \in Contents /\ ed.kind \in Kinds
    BY <1>1 DEF CardType
  <2>2. PICK a, b : /\ a = [ed EXCEPT !.fields = ed.template, !.baseline = ed.template, !.dirty = FALSE]
                    /\ b = [ed EXCEPT !.fields = ed.template, !.dirty = FALSE]
    OBVIOUS
  <2>3. a \in CardType /\ SameQuery(ed, a) /\ b \in CardType /\ SameQuery(ed, b)
    BY <1>1, <2>1, <2>2 DEF CardType, SameQuery
  <2>4. ed' = Fill(ed, ed.template) \/ ed' = a \/ ed' = b
    <3>1. CASE ed.kind = "template"
      BY <1>6, <3>1 DEF UndoCard, UndoTemplate
    <3>2. CASE ed.kind = "slot"
      BY <1>6, <2>2, <3>2 DEF UndoCard, UndoSlot
    <3>3. CASE ed.kind = "coordinator"
      BY <1>6, <2>2, <3>3 DEF UndoCard, UndoCoordinator
    <3> QED
      BY <2>1, <3>1, <3>2, <3>3 DEF Kinds
  <2> QED
    BY <1>1, <1>3, <2>1, <2>3, <2>4, Filled
<1>7. CASE OpenReset \/ CancelReset
  <2>1. PICK v \in BOOLEAN : ed' = [ed EXCEPT !.resetOpen = v]
    BY <1>7 DEF OpenReset, CancelReset
  <2>2. PICK f : f = [ed EXCEPT !.resetOpen = v]
    OBVIOUS
  <2>3. f \in CardType /\ SameQuery(ed, f)
    BY <1>1, <2>2 DEF CardType, SameQuery
  <2> QED
    BY <1>3, <2>1, <2>2, <2>3
<1>8. CASE ConfirmReset
  <2>1. PICK f : f = [ed EXCEPT !.reset = "sent", !.myReset = TRUE]
    OBVIOUS
  <2>2. f \in CardType /\ SameQuery(ed, f)
    BY <1>1, <2>1 DEF CardType, SameQuery, Stages
  <2> QED
    BY <1>3, <1>8, <2>1, <2>2 DEF ConfirmReset
<1> QED
  BY <1>4, <1>5, <1>6, <1>7, <1>8

\* What is written to the server, by this card or by others.
LEMMA WriteKeeps ==
    ASSUME EditorInv, ApplySave \/ ApplyReset \/ \E c \in Contents : OthersWrite(c)
    PROVE  EditorInv'
<1>1. stored \in Contents /\ ed \in CardType /\ HiddenIsClean(ed)
  BY DEF EditorInv, CardInv
<1>2. PICK a, b : a = [ed EXCEPT !.save = "applied"] /\ b = [ed EXCEPT !.reset = "applied"]
  OBVIOUS
<1>3. a \in CardType /\ HiddenIsClean(a) /\ b \in CardType /\ HiddenIsClean(b)
  BY <1>1, <1>2 DEF CardType, Stages, HiddenIsClean
<1>4. stored' \in Contents
  BY <1>1, EditorAssumption DEF ApplySave, ApplyReset, OthersWrite, CardType
<1>5. PICK e \in {a, b, ed} : ed' = Written(e)
  BY <1>2 DEF ApplySave, ApplyReset, OthersWrite
<1>6. CardInv(Written(e), stored')
  BY <1>1, <1>3, <1>5, Noted
<1> QED
  BY <1>4, <1>5, <1>6 DEF EditorInv

\* The answer to a save or a reset has the query asked again.
LEMMA AnswerKeeps == ASSUME EditorInv, SaveAnswers \/ ResetAnswers PROVE EditorInv'
<1>1. stored \in Contents /\ ed \in CardType /\ HiddenIsClean(ed)
  BY DEF EditorInv, CardInv
<1>2. ed.kind \in Kinds
  BY <1>1 DEF CardType
<1>3. PICK a, b : a = [ed EXCEPT !.save = "idle"] /\ b = [ed EXCEPT !.reset = "idle"]
  OBVIOUS
<1>4. a \in CardType /\ HiddenIsClean(a) /\ b \in CardType /\ HiddenIsClean(b)
  BY <1>1, <1>3 DEF CardType, Stages, HiddenIsClean
<1>5. PICK x \in {a, b} : \/ SaveAnswers /\ x = a
                          \/ ResetAnswers /\ x = b
  BY <1>3
<1>6. PICK e : e = AskMessages(x)
  OBVIOUS
<1>7. CardInv(e, stored)
  BY <1>1, <1>4, <1>5, <1>6, AskedFor
<1>8. e \in CardType
  BY <1>7 DEF CardInv
<1>9. PICK f : ed' = f
  OBVIOUS
<1>10. \/ f = e
       \/ f = [e EXCEPT !.dirty = FALSE, !.conflict = FALSE]
       \/ f = [e EXCEPT !.dirty = FALSE]
       \/ f = [e EXCEPT !.dirty = FALSE, !.conflict = FALSE, !.resetOpen = FALSE]
       \/ f = [e EXCEPT !.dirty = FALSE, !.resetOpen = FALSE]
  <2>1. CASE SaveAnswers /\ x = a
    <3>1. ed' = IF ~ed.mySave THEN e
                ELSE CASE ed.kind = "template" -> TemplateSaved(e)
                       [] ed.kind = "slot" -> SlotSaved(e)
                       [] ed.kind = "coordinator" -> CoordinatorSaved(e)
      BY <1>3, <1>6, <2>1 DEF SaveAnswers
    <3>2. CASE ~ed.mySave
      BY <1>9, <3>1, <3>2
    <3>3. CASE ed.mySave /\ ed.kind = "template"
      BY <1>9, <3>1, <3>3 DEF TemplateSaved
    <3>4. CASE ed.mySave /\ ed.kind = "slot"
      BY <1>9, <3>1, <3>4 DEF SlotSaved
    <3>5. CASE ed.mySave /\ ed.kind = "coordinator"
      BY <1>9, <3>1, <3>5 DEF CoordinatorSaved
    <3> QED
      BY <1>2, <3>2, <3>3, <3>4, <3>5 DEF Kinds
  <2>2. CASE ResetAnswers /\ x = b
    <3>1. ed' = IF ~ed.myReset THEN e
                ELSE IF ed.kind = "template" THEN TemplateWasReset(e) ELSE SlotWasReset(e)
      BY <1>3, <1>6, <2>2 DEF ResetAnswers
    <3> QED
      BY <1>9, <3>1 DEF TemplateWasReset, SlotWasReset
  <2> QED
    BY <1>5, <2>1, <2>2
<1>11. CASE f = e
  BY <1>7, <1>9, <1>11 DEF EditorInv, SaveAnswers, ResetAnswers
<1>12. CASE f # e
  <2>1. f \in CardType /\ SameQuery(e, f) /\ ~f.dirty
    BY <1>8, <1>10, <1>12 DEF CardType, SameQuery
  <2>2. CardInv(f, stored)
    BY <1>7, <2>1, QueryApart
  <2> QED
    BY <1>1, <1>9, <2>2 DEF EditorInv, SaveAnswers, ResetAnswers
<1> QED
  BY <1>11, <1>12

\* A save or a reset that fails; the stream's messages and its end.
LEMMA StreamKeeps ==
    ASSUME EditorInv,
           \/ SaveFails \/ ResetFails \/ OtherMessage \/ StreamOpens \/ StreamMessage
           \/ StreamBreaks \/ WindowFocus
    PROVE  EditorInv'
<1>1. CardInv(ed, stored) /\ stored \in Contents /\ ed \in CardType /\ HiddenIsClean(ed)
  BY DEF EditorInv, CardInv
<1>2. stored' = stored
  BY DEF SaveFails, ResetFails, OtherMessage, StreamOpens, StreamMessage, StreamBreaks, WindowFocus
<1>3. CASE SaveFails \/ ResetFails
  <2>1. PICK f : ed' = f
    OBVIOUS
  <2>2. f = [ed EXCEPT !.save = "idle"] \/ f = [ed EXCEPT !.reset = "idle"]
    BY <1>3, <2>1 DEF SaveFails, ResetFails
  <2>3. f \in CardType /\ SameQuery(ed, f) /\ f.dirty = ed.dirty
    BY <1>1, <2>2 DEF CardType, SameQuery, Stages
  <2>4. CardInv(f, stored)
    BY <1>1, <2>3, QueryApart DEF SameQuery, HiddenIsClean
  <2> QED
    BY <1>1, <1>2, <2>1, <2>4 DEF EditorInv
<1>4. CASE OtherMessage
  <2>1. PICK f : f = [ed EXCEPT !.note = TRUE]
    OBVIOUS
  <2>2. f \in CardType /\ f.note /\ HiddenIsClean(f)
    BY <1>1, <2>1 DEF CardType, HiddenIsClean
  <2>3. CardInv(f, stored)
    BY <2>2 DEF CardInv, CardFollowed
  <2> QED
    BY <1>1, <1>2, <1>4, <2>1, <2>3 DEF EditorInv, OtherMessage
<1>5. CASE StreamMessage
  <2>1. PICK e : e = [ed EXCEPT !.note = FALSE]
    OBVIOUS
  <2>2. e \in CardType /\ HiddenIsClean(e)
    BY <1>1, <2>1 DEF CardType, HiddenIsClean
  <2>3. CardInv(AskMessages(e), stored)
    BY <2>2, AskedFor
  <2> QED
    BY <1>1, <1>2, <1>5, <2>1, <2>3 DEF EditorInv, StreamMessage
<1>6. ASSUME NEW e, CardInv(e, stored), NEW state \in Streams, ed' = [e EXCEPT !.stream = state]
      PROVE  EditorInv'
  <2>1. PICK f : f = [e EXCEPT !.stream = state]
    OBVIOUS
  <2>2. /\ f \in CardType /\ HiddenIsClean(f) /\ f.note = e.note /\ f.missed = e.missed
        /\ f.fetch = e.fetch /\ f.failed = e.failed /\ f.template = e.template
    BY <1>6, <2>1 DEF CardInv, CardType, HiddenIsClean
  <2>3. CardInv(f, stored)
    BY <1>6, <2>2 DEF CardInv, CardFollowed
  <2> QED
    BY <1>1, <1>2, <1>6, <2>1, <2>3 DEF EditorInv
<1>7. CASE StreamOpens
  BY <1>1, <1>6, <1>7 DEF StreamOpens, Streams
<1>8. CASE StreamBreaks
  <2>1. CardInv(NoteLost(ed), stored)
    BY <1>1, LostNote
  <2> QED
    BY <1>6, <1>8, <2>1 DEF StreamBreaks, Streams
<1>9. CASE WindowFocus
  <2>1. CardInv(AskMessages(ed), stored)
    BY <1>1, AskedFor
  <2> QED
    BY <1>1, <1>2, <1>9, <2>1 DEF EditorInv, WindowFocus
<1> QED
  BY <1>3, <1>4, <1>5, <1>7, <1>8, <1>9

\* The query: read, answered, failed; the page that loses its messages.
LEMMA QueryKeeps ==
    ASSUME EditorInv, QueryRead \/ QueryAnswers
    PROVE  EditorInv'
<1>1. CardInv(ed, stored) /\ stored \in Contents /\ ed \in CardType /\ HiddenIsClean(ed)
  BY DEF EditorInv, CardInv
<1>2. stored' = stored
  BY DEF QueryRead, QueryAnswers
<1>3. CASE QueryRead
  <2>1. PICK f : f = [ed EXCEPT !.fetch = stored]
    OBVIOUS
  <2>2. f \in CardType /\ f.fetch = stored /\ HiddenIsClean(f)
    BY <1>1, <2>1 DEF CardType, HiddenIsClean
  <2>3. f.fetch # "idle"
    BY <1>1, <2>2, EditorAssumption DEF Fetching
  <2>4. CardInv(f, stored)
    BY <1>1, <2>2, <2>3 DEF CardInv, CardFollowed
  <2> QED
    BY <1>1, <1>2, <1>3, <2>1, <2>4 DEF EditorInv, QueryRead
<1>4. CASE QueryAnswers
  <2>1. PICK t \in Contents : t = ed.fetch
    BY <1>4 DEF QueryAnswers
  <2>2. PICK e : e = [ed EXCEPT !.fetch = "idle", !.failed = FALSE, !.template = t]
    OBVIOUS
  <2>3. /\ e \in CardType /\ e.fetch = "idle" /\ e.template = t /\ ~e.failed
        /\ e.note = ed.note /\ e.missed = ed.missed
        /\ e.hidden = ed.hidden /\ e.away = ed.away /\ HiddenIsClean(e)
    BY <1>1, <2>1, <2>2 DEF CardType, Fetching, HiddenIsClean
  <2>4. "idle" \notin Contents
    BY EditorAssumption DEF Fetching
  <2>5. CardInv(e, stored)
    BY <1>1, <2>1, <2>3, <2>4 DEF CardInv, CardFollowed
  <2>6. CASE ~ed.hidden
    <3>1. PICK f : f = SyncFromServer(e, t)
      OBVIOUS
    <3>2. f \in CardType /\ SameQuery(e, f) /\ ~f.hidden
      BY <2>3, <2>6, <3>1, Synced DEF SameQuery
    <3>3. CardInv(f, stored)
      BY <2>5, <3>2, QueryApart
    <3>4. ed' = f
      BY <1>4, <2>1, <2>2, <2>6, <3>1 DEF QueryAnswers
    <3> QED
      BY <1>1, <1>2, <3>3, <3>4 DEF EditorInv
  <2>7. CASE ed.hidden
    <3>1. PICK g : g = Fill(e, t)
      OBVIOUS
    <3>2. g \in CardType /\ SameQuery(e, g) /\ ~g.dirty
      BY <2>3, <3>1, Filled
    <3>3. PICK b \in BOOLEAN : b = ~Observed(ed)
      <4>1. CASE Observed(ed)
        <5>1. FALSE = ~Observed(ed) /\ FALSE \in BOOLEAN
          BY <4>1
        <5> QED
          BY <5>1, Zenon
      <4>2. CASE ~Observed(ed)
        <5>1. TRUE = ~Observed(ed) /\ TRUE \in BOOLEAN
          BY <4>2
        <5> QED
          BY <5>1, Zenon
      <4> QED
        BY <4>1, <4>2
    <3>4. PICK f : f = [g EXCEPT !.hidden = b]
      OBVIOUS
    <3>5. /\ f \in CardType /\ ~f.dirty /\ f.hidden = b /\ f.away = g.away
          /\ f.note = g.note /\ f.missed = g.missed
          /\ f.fetch = g.fetch /\ f.failed = g.failed /\ f.template = g.template
      BY <3>2, <3>4 DEF CardType
    <3>6. CardInv(f, stored)
      BY <2>3, <2>4, <2>5, <2>7, <3>2, <3>3, <3>5
         DEF CardInv, CardFollowed, SameQuery, HiddenIsClean, Observed
    <3>7. ed' = f
      BY <1>4, <2>1, <2>2, <2>7, <3>1, <3>3, <3>4 DEF QueryAnswers
    <3> QED
      BY <1>1, <1>2, <3>6, <3>7 DEF EditorInv
  <2> QED
    BY <2>6, <2>7
<1> QED
  BY <1>3, <1>4

\* A card that is unmounted has no unsaved text.
LEMMA HiddenCard ==
    ASSUME NEW e, NEW s, CardInv(e, s)
    PROVE  LET f == Unmounted(e) IN CardInv(f, s) /\ f.hidden /\ ~f.dirty
<1>0. e \in CardType
  BY DEF CardInv
<1>1. PICK g : g = Fill(e, e.template)
  OBVIOUS
<1>2. g \in CardType /\ SameQuery(e, g) /\ ~g.dirty
  BY <1>0, <1>1, Filled DEF CardType
<1>3. PICK f : f = [g EXCEPT !.hidden = TRUE, !.resetOpen = FALSE, !.mySave = FALSE, !.myReset = FALSE]
  OBVIOUS
<1>4. /\ f \in CardType /\ f.hidden /\ ~f.dirty /\ f.note = g.note /\ f.missed = g.missed
      /\ f.fetch = g.fetch /\ f.failed = g.failed /\ f.template = g.template
  BY <1>2, <1>3 DEF CardType
<1>5. CardInv(f, s)
  BY <1>2, <1>4 DEF CardInv, CardFollowed, HiddenIsClean, SameQuery
<1> QED
  BY <1>1, <1>3, <1>4, <1>5 DEF Unmounted

\* A fetch that fails, and the page that loses its messages and has them back.
LEMMA FailureKeeps ==
    ASSUME EditorInv, QueryFails \/ MessagesFail \/ MessagesReturn PROVE EditorInv'
<1>1. CardInv(ed, stored) /\ stored \in Contents /\ ed \in CardType /\ HiddenIsClean(ed)
  BY DEF EditorInv, CardInv
<1>2. stored' = stored /\ Fetching \cap Contents = {}
  BY EditorAssumption DEF QueryFails, MessagesFail, MessagesReturn
<1>3. CASE QueryFails
  <2>1. PICK e : e = [ed EXCEPT !.fetch = "idle", !.failed = TRUE]
    OBVIOUS
  <2>2. e \in CardType /\ e.fetch = "idle" /\ e.failed /\ HiddenIsClean(e)
    BY <1>1, <2>1 DEF CardType, Fetching, HiddenIsClean
  <2>3. CardInv(e, stored)
    BY <1>2, <2>2 DEF CardInv, CardFollowed, Fetching
  <2>4. ed' = e \/ ed' = Unmounted(e)
    BY <1>3, <2>1 DEF QueryFails
  <2> QED
    BY <1>1, <1>2, <2>3, <2>4, HiddenCard DEF EditorInv
<1>4. CASE MessagesFail
  BY <1>1, <1>2, <1>4, HiddenCard DEF EditorInv, MessagesFail
<1>5. CASE MessagesReturn
  <2>1. PICK e : e = UseAgain(ed)
    OBVIOUS
  <2>2. e \in CardType /\ CardFollowed(e, stored) /\ SameText(ed, e) /\ e.away = ed.away
    BY <1>1, <2>1, UsedAgain
  <2>3. PICK f : f = [e EXCEPT !.hidden = FALSE]
    OBVIOUS
  <2>4. f \in CardType /\ CardFollowed(f, stored) /\ ~f.hidden /\ f.away = ed.away
    BY <2>2, <2>3 DEF CardType, CardFollowed
  <2>5. CardInv(f, stored)
    BY <1>5, <2>4 DEF CardInv, HiddenIsClean, MessagesReturn
  <2> QED
    BY <1>1, <1>2, <1>5, <2>1, <2>3, <2>5 DEF EditorInv, MessagesReturn
<1> QED
  BY <1>3, <1>4, <1>5

\* The page is left, and the user comes back to it.
LEMMA LeavingKeeps == ASSUME EditorInv, LeavePage \/ ReturnToPage PROVE EditorInv'
<1>1. CardInv(ed, stored) /\ stored \in Contents /\ ed \in CardType /\ HiddenIsClean(ed)
  BY DEF EditorInv, CardInv
<1>2. stored' = stored
  BY DEF LeavePage, ReturnToPage
<1>3. CASE LeavePage
  <2>1. PICK e : e = NoteLost(Unmounted(ed))
    OBVIOUS
  <2>2. CardInv(e, stored) /\ e.hidden /\ ~e.dirty
    BY <1>1, <2>1, HiddenCard, LostNote DEF SameText
  <2>3. PICK f : f = [e EXCEPT !.away = TRUE, !.stream = "connecting"]
    OBVIOUS
  <2>4. f \in CardType /\ CardFollowed(f, stored) /\ f.hidden /\ ~f.dirty
    BY <2>2, <2>3 DEF CardInv, CardType, CardFollowed, Streams
  <2>5. CardInv(f, stored)
    BY <2>4 DEF CardInv, HiddenIsClean
  <2> QED
    BY <1>1, <1>2, <1>3, <2>1, <2>3, <2>5 DEF EditorInv, LeavePage
<1>4. CASE ReturnToPage /\ ed.kind = "template"
  <2>1. PICK e : e = UseAgain(ed)
    OBVIOUS
  <2>2. e \in CardType /\ CardFollowed(e, stored) /\ SameText(ed, e)
    BY <1>1, <2>1, UsedAgain
  <2>3. ed.hidden /\ ~ed.dirty /\ ed.failed \in BOOLEAN
    BY <1>1, <1>4 DEF ReturnToPage, HiddenIsClean, CardType
  <2>4. PICK f : f = [e EXCEPT !.away = FALSE, !.hidden = ed.failed]
    OBVIOUS
  <2>5. f \in CardType /\ CardFollowed(f, stored) /\ ~f.away /\ ~f.dirty
    BY <2>2, <2>3, <2>4 DEF CardType, CardFollowed, SameText
  <2>6. CardInv(f, stored)
    BY <2>5 DEF CardInv, HiddenIsClean
  <2> QED
    BY <1>1, <1>2, <1>4, <2>1, <2>4, <2>6 DEF EditorInv, ReturnToPage
<1>5. CASE ReturnToPage /\ ed.kind # "template"
  <2>1. PICK f : f = [ed EXCEPT !.away = FALSE]
    OBVIOUS
  <2>2. f \in CardType /\ CardFollowed(f, stored) /\ HiddenIsClean(f)
    BY <1>1, <2>1 DEF CardInv, CardType, CardFollowed, HiddenIsClean
  <2> QED
    BY <1>1, <1>2, <1>5, <2>1, <2>2 DEF CardInv, EditorInv, ReturnToPage
<1> QED
  BY <1>3, <1>4, <1>5

\* What holds when the page is opened.
LEMMA EditorStarts == ASSUME EditorInit PROVE EditorInv
<1>1. ed \in CardType /\ stored = Default /\ stored \in Contents
  BY EditorAssumption DEF EditorInit, CardType, Stages, Fetching, Streams
<1>2. ed.template = Default /\ ~ed.dirty /\ ed.fetch = "idle" /\ ~ed.away
  BY DEF EditorInit
<1>3. "idle" \notin Contents
  BY EditorAssumption DEF Fetching
<1> QED
  BY <1>1, <1>2, <1>3 DEF EditorInv, CardInv, CardFollowed, HiddenIsClean

\* Every step of a card keeps it.
LEMMA EditorStays == EditorInv /\ [EditorNext]_editorVars => EditorInv'
<1> SUFFICES ASSUME EditorInv, [EditorNext]_editorVars PROVE EditorInv'
  OBVIOUS
<1>1. CASE \/ \E c \in Contents \cup {Blank} : EditCard(c)
           \/ SaveCard \/ UndoCard \/ OpenReset \/ CancelReset \/ ConfirmReset
  BY <1>1, UserKeeps
<1>2. CASE ApplySave \/ ApplyReset \/ \E c \in Contents : OthersWrite(c)
  BY <1>2, WriteKeeps
<1>3. CASE SaveAnswers \/ ResetAnswers
  BY <1>3, AnswerKeeps
<1>4. CASE \/ SaveFails \/ ResetFails \/ OtherMessage \/ StreamOpens \/ StreamMessage
           \/ StreamBreaks \/ WindowFocus
  BY <1>4, StreamKeeps
<1>5. CASE QueryRead \/ QueryAnswers
  BY <1>5, QueryKeeps
<1>6. CASE QueryFails \/ MessagesFail \/ MessagesReturn
  BY <1>6, FailureKeeps
<1>7. CASE LeavePage \/ ReturnToPage
  BY <1>7, LeavingKeeps
<1>8. CASE UNCHANGED editorVars
  BY <1>8 DEF EditorInv, editorVars
<1> QED
  BY <1>1, <1>2, <1>3, <1>4, <1>5, <1>6, <1>7, <1>8, Zenon DEF EditorNext

\* A card keeps its type.
THEOREM EditorTyped == EditorSpec => []EditorTypeOK
<1>1. EditorInv => EditorTypeOK
  BY DEF EditorInv, CardInv, EditorTypeOK
<1> QED
  BY <1>1, EditorStarts, EditorStays, PTL DEF EditorSpec

\* A card that is settled has what is stored.
THEOREM CardIsCurrent == EditorSpec => []QueryIsCurrent
<1>1. EditorInv => QueryIsCurrent
  BY DEF EditorInv, CardInv, CardFollowed, QueryIsCurrent
<1> QED
  BY <1>1, EditorStarts, EditorStays, PTL DEF EditorSpec

-----------------------------------------------------------------------------
\* Which steps touch the text of a card with unsaved text.
LEMMA AnswerSpares ==
    ASSUME EditorInv, SaveAnswers \/ ResetAnswers PROVE ed'.fields = ed.fields
<1>0. ed \in CardType /\ HiddenIsClean(ed)
  BY DEF EditorInv, CardInv
<1>1. ed.kind \in Kinds
  BY <1>0 DEF CardType
<1>2. PICK a, b : a = [ed EXCEPT !.save = "idle"] /\ b = [ed EXCEPT !.reset = "idle"]
  OBVIOUS
<1>3. /\ a \in CardType /\ HiddenIsClean(a) /\ a.fields = ed.fields
      /\ b \in CardType /\ HiddenIsClean(b) /\ b.fields = ed.fields
  BY <1>0, <1>2 DEF CardType, Stages, HiddenIsClean
<1>4. ASSUME NEW x \in CardType, HiddenIsClean(x), x.fields = ed.fields
      PROVE  AskMessages(x) \in CardType /\ AskMessages(x).fields = ed.fields
  BY <1>4, AskedFor DEF CardInv, SameText
<1>5. ASSUME NEW e \in CardType, e.fields = ed.fields
      PROVE  /\ TemplateSaved(e).fields = ed.fields /\ SlotSaved(e).fields = ed.fields
             /\ CoordinatorSaved(e).fields = ed.fields
             /\ TemplateWasReset(e).fields = ed.fields /\ SlotWasReset(e).fields = ed.fields
  BY <1>5 DEF TemplateSaved, SlotSaved, CoordinatorSaved, TemplateWasReset, SlotWasReset, CardType
<1>6. CASE SaveAnswers
  <2>1. PICK e : e = AskMessages(a)
    OBVIOUS
  <2>2. e \in CardType /\ e.fields = ed.fields
    BY <1>3, <1>4, <2>1
  <2>3. ed' = IF ~ed.mySave THEN e
              ELSE CASE ed.kind = "template" -> TemplateSaved(e)
                     [] ed.kind = "slot" -> SlotSaved(e)
                     [] ed.kind = "coordinator" -> CoordinatorSaved(e)
    BY <1>2, <1>6, <2>1 DEF SaveAnswers
  <2>4. ed' = e \/ ed' = TemplateSaved(e) \/ ed' = SlotSaved(e) \/ ed' = CoordinatorSaved(e)
    BY <1>1, <2>3 DEF Kinds
  <2> QED
    BY <1>5, <2>2, <2>4
<1>7. CASE ResetAnswers
  <2>1. PICK e : e = AskMessages(b)
    OBVIOUS
  <2>2. e \in CardType /\ e.fields = ed.fields
    BY <1>3, <1>4, <2>1
  <2>3. ed' = e \/ ed' = TemplateWasReset(e) \/ ed' = SlotWasReset(e)
    BY <1>2, <1>7, <2>1 DEF ResetAnswers
  <2> QED
    BY <1>5, <2>2, <2>3
<1> QED
  BY <1>6, <1>7

\* Which steps replace text the user has not saved.
LEMMA TextTouched ==
    ASSUME EditorInv, EditorNext, ed.dirty, ed'.fields # ed.fields
    PROVE  \/ ed'.dirty
           \/ "undo" \in Controls /\ ed'.fields = ed.template
           \/ ed'.hidden
<1>1. ed \in CardType /\ stored \in Contents /\ ~ed.hidden /\ ed.kind \in Kinds
      /\ CardInv(ed, stored) /\ HiddenIsClean(ed)
  BY DEF EditorInv, CardInv, CardType, HiddenIsClean
<1>2. ASSUME NEW c, EditCard(c) PROVE ed'.dirty
  BY <1>1, <1>2 DEF EditCard, CardType
<1>3. CASE UndoCard
  <2>1. "undo" \in Controls /\ ed.template \in Contents
    BY <1>1, <1>3 DEF UndoCard, CardType
  <2>2. UndoSlot(ed).fields = ed.template /\ UndoCoordinator(ed).fields = ed.template
    BY <1>1 DEF UndoSlot, UndoCoordinator, CardType
  <2>3. UndoTemplate(ed).fields = ed.template
    BY <1>1, <2>1, Filled DEF UndoTemplate
  <2>4. ed'.fields = ed.template
    <3>1. ed' = UndoTemplate(ed) \/ ed' = UndoSlot(ed) \/ ed' = UndoCoordinator(ed)
      BY <1>1, <1>3 DEF UndoCard, Kinds
    <3> QED
      BY <2>2, <2>3, <3>1
  <2> QED
    BY <2>1, <2>4
<1>4. CASE SaveAnswers \/ ResetAnswers
  BY <1>1, <1>4, AnswerSpares
<1>5. CASE SaveCard \/ OpenReset \/ CancelReset \/ ConfirmReset \/ SaveFails \/ ResetFails
  <2>1. ed'.fields = ed.fields
    BY <1>1, <1>5 DEF SaveCard, OpenReset, CancelReset, ConfirmReset, SaveFails, ResetFails, CardType
  <2> QED
    BY <2>1
<1>6. CASE ApplySave \/ ApplyReset \/ \E c \in Contents : OthersWrite(c)
  <2>1. PICK a, b : a = [ed EXCEPT !.save = "applied"] /\ b = [ed EXCEPT !.reset = "applied"]
    OBVIOUS
  <2>2. /\ a \in CardType /\ HiddenIsClean(a) /\ a.fields = ed.fields
        /\ b \in CardType /\ HiddenIsClean(b) /\ b.fields = ed.fields
    BY <1>1, <2>1 DEF CardType, Stages, HiddenIsClean
  <2>3. ed' = Written(a) \/ ed' = Written(b) \/ ed' = Written(ed)
    BY <1>6, <2>1 DEF ApplySave, ApplyReset, OthersWrite
  <2> QED
    BY <1>1, <2>2, <2>3, Noted DEF SameText
<1>7. CASE OtherMessage \/ StreamOpens \/ QueryRead
  <2>1. ed'.fields = ed.fields
    BY <1>1, <1>7 DEF OtherMessage, StreamOpens, QueryRead, CardType
  <2> QED
    BY <2>1
<1>8. CASE StreamMessage \/ WindowFocus
  <2>1. PICK e : e = [ed EXCEPT !.note = FALSE]
    OBVIOUS
  <2>2. e \in CardType /\ e.fields = ed.fields /\ HiddenIsClean(e)
    BY <1>1, <2>1 DEF CardType, HiddenIsClean
  <2>3. ed' = AskMessages(e) \/ ed' = AskMessages(ed)
    BY <1>8, <2>1 DEF StreamMessage, WindowFocus
  <2> QED
    BY <1>1, <2>2, <2>3, AskedFor DEF SameText
<1>9. CASE QueryAnswers
  <2>1. PICK t \in Contents : t = ed.fetch
    BY <1>9 DEF QueryAnswers
  <2>2. PICK e : e = [ed EXCEPT !.fetch = "idle", !.failed = FALSE, !.template = t]
    OBVIOUS
  <2>3. e \in CardType /\ e.dirty = ed.dirty /\ e.fields = ed.fields
    BY <1>1, <2>1, <2>2 DEF CardType, Fetching
  <2>4. ed' = SyncFromServer(e, t)
    BY <1>1, <1>9, <2>1, <2>2 DEF QueryAnswers
  <2> QED
    BY <2>3, <2>4, Synced
<1>10. CASE QueryFails
  <2>1. PICK e : e = [ed EXCEPT !.fetch = "idle", !.failed = TRUE]
    OBVIOUS
  <2>2. e \in CardType /\ e.fields = ed.fields /\ CardInv(e, stored)
    BY <1>1, <2>1, EditorAssumption DEF CardInv, CardFollowed, HiddenIsClean, CardType, Fetching
  <2>3. ed' = e \/ ed' = Unmounted(e)
    BY <1>10, <2>1 DEF QueryFails
  <2> QED
    BY <2>2, <2>3, HiddenCard
<1>11. CASE MessagesFail
  BY <1>1, <1>11, HiddenCard DEF MessagesFail
<1>12. CASE StreamBreaks
  <2>1. PICK e : e = NoteLost(ed)
    OBVIOUS
  <2>2. e \in CardType /\ e.fields = ed.fields
    BY <1>1, <2>1, LostNote DEF SameText, CardInv
  <2>3. ed'.fields = ed.fields
    BY <1>12, <2>1, <2>2 DEF StreamBreaks, CardType
  <2> QED
    BY <2>3
<1>13. CASE LeavePage
  <2>1. PICK e : e = NoteLost(Unmounted(ed))
    OBVIOUS
  <2>2. e \in CardType /\ e.hidden
    BY <1>1, <2>1, HiddenCard, LostNote DEF SameText, CardInv
  <2>3. ed'.hidden
    BY <1>13, <2>1, <2>2 DEF LeavePage, CardType
  <2> QED
    BY <2>3
<1>14. ~MessagesReturn /\ ~ReturnToPage
  BY <1>1 DEF MessagesReturn, ReturnToPage, HiddenIsClean
<1> QED
  BY <1>2, <1>3, <1>4, <1>5, <1>6, <1>7, <1>8, <1>9, <1>10, <1>11, <1>12, <1>13, <1>14, Zenon
     DEF EditorNext

\* Text the user has not saved stands.
THEOREM TextStands == EditorSpec => TypedTextStands
<1>1. EditorInv /\ [EditorNext]_editorVars
        => [ed.dirty /\ ed'.fields # ed.fields =>
              \/ ed'.dirty
              \/ "undo" \in Controls /\ ed'.fields = ed.template
              \/ ed'.hidden]_editorVars
  BY TextTouched
<1> QED
  BY <1>1, EditorStarts, EditorStays, PTL DEF EditorSpec, TypedTextStands

-----------------------------------------------------------------------------
(* The dashboard of the ask-rides jobs.                                     *)

\* The dialog is opened while no messages are being sent, and closed by sending.
OneSend == dash.sends <= 1 /\ (dash.confirm => dash.sends = 0)

\* What a fetch has read, or what it left, is what the server has, unless a request
\* has changed a pause since, whose answer will have it asked for again.
Undisturbed(d) ==
    d.pause # "applied" /\ d.left.stage # "applied" /\ d.sends = 0 /\ d.earlier = 0 /\ ~d.doubt

PausesFollowed ==
    Undisturbed(dash) =>
        /\ dash.statusFetch = "read" => dash.answer.paused = srv.paused
        /\ dash.statusFetch = "idle" => dash.status.paused = srv.paused

DashInv == DashTypeOK /\ OneSend /\ PausesFollowed

\* What holds when the page is opened.
LEMMA DashInits == DashInit => DashInv
<1> SUFFICES ASSUME DashInit PROVE DashInv
  OBVIOUS
<1>1. AllClear \in [Seasons -> Followed]
  BY DashboardAssumption DEF AllClear
<1>2. dash \in DashType
  BY <1>1, DashboardAssumption DEF DashInit, DashType, StatusType, Seasons, Scopes, Requests,
     MaxSends, NoLeft, PauseRequest
<1>3. srv \in [season : Seasons, paused : [Seasons -> Followed]]
  BY <1>1 DEF DashInit, Seasons
<1> QED
  BY <1>2, <1>3 DEF DashInit, DashInv, DashTypeOK, OneSend, PausesFollowed, Undisturbed

\* A change that the page is not told of: only a status still to be read shows it.
LEMMA Unnoticed ==
    ASSUME NEW d \in DashType, NEW paused
    PROVE  LET f == Unseen(d)
           IN /\ f \in DashType /\ f.sends = d.sends /\ f.confirm = d.confirm
              /\ Undisturbed(f) /\ f.statusFetch = "read" => f.answer.paused = paused
              /\ Undisturbed(f) /\ f.statusFetch = "idle" => f.status.paused = paused
<1>1. PICK b \in BOOLEAN : b = (d.doubt \/ d.statusFetch # "asked")
  <2>1. (d.doubt \/ d.statusFetch # "asked") \in BOOLEAN
    OBVIOUS
  <2> QED
    BY <2>1
<1>2. PICK f : f = [d EXCEPT !.doubt = b]
  OBVIOUS
<1>3. f = Unseen(d)
  BY <1>1, <1>2 DEF Unseen
<1>4. /\ f \in DashType /\ f.sends = d.sends /\ f.confirm = d.confirm
      /\ f.doubt = b /\ f.statusFetch = d.statusFetch
  BY <1>2 DEF DashType
<1> QED
  BY <1>1, <1>3, <1>4 DEF Undisturbed

\* The server's pauses keep their type, and the page is not told of the change.
LEMMA ChangedByOthers ==
    ASSUME DashInv, NEW d \in DashType, d.sends <= 1, d.confirm => d.sends = 0,
           dash' = Unseen(d), srv' \in [season : Seasons, paused : [Seasons -> Followed]]
    PROVE  DashInv'
  BY Unnoticed DEF DashInv, DashTypeOK, OneSend, PausesFollowed

\* Asking for the status again keeps the invariant, whatever is on its way.
LEMMA StatusAsked ==
    ASSUME NEW d \in DashType, d.sends <= 1, d.confirm => d.sends = 0,
           dash' = AskStatus(d), srv' = srv, DashInv
    PROVE  DashInv'
<1>1. CASE d.home
  <2>1. AskStatus(d) \in DashType
    BY <1>1 DEF AskStatus, DashType
  <2>2. AskStatus(d).sends = d.sends /\ AskStatus(d).confirm = d.confirm
        /\ AskStatus(d).statusFetch = "asked"
    BY <1>1 DEF AskStatus, DashType
  <2> QED
    BY <2>1, <2>2 DEF DashInv, DashTypeOK, OneSend, PausesFollowed
<1>2. CASE ~d.home
  BY <1>2, ChangedByOthers DEF AskStatus, DashInv, DashTypeOK
<1> QED
  BY <1>1, <1>2

\* A card that is unmounted hands its request over.
LEMMA Unmounts ==
    ASSUME dash \in DashType
    PROVE  LET f == Unmount(dash)
           IN /\ f \in DashType /\ f.sends = dash.sends /\ f.confirm = dash.confirm
              /\ f.earlier = dash.earlier /\ f.doubt = dash.doubt
              /\ f.statusFetch = dash.statusFetch /\ f.answer = dash.answer
              /\ f.status = dash.status /\ f.pause = "idle"
              /\ f.left = IF dash.pause = "idle" THEN dash.left
                          ELSE [stage |-> dash.pause, job |-> dash.pauseJob, to |-> dash.pauseTo]
<1>1. PICK r : r = IF dash.pause = "idle" THEN dash.left
                   ELSE [stage |-> dash.pause, job |-> dash.pauseJob, to |-> dash.pauseTo]
  OBVIOUS
<1>2. r \in PauseRequest
  BY <1>1 DEF DashType, PauseRequest
<1>3. PICK f : f = [NoRequest(dash) EXCEPT !.modal = FALSE, !.dates = "none", !.left = r]
  OBVIOUS
<1>4. f = Unmount(dash)
  BY <1>1, <1>3 DEF Unmount, NoRequest, DashType
<1>5. /\ f \in DashType /\ f.sends = dash.sends /\ f.confirm = dash.confirm
      /\ f.earlier = dash.earlier /\ f.doubt = dash.doubt
      /\ f.statusFetch = dash.statusFetch /\ f.answer = dash.answer
      /\ f.status = dash.status /\ f.pause = "idle" /\ f.left = r
  BY <1>2, <1>3, DashboardAssumption DEF NoRequest, DashType, Requests, Seasons
<1> QED
  BY <1>1, <1>4, <1>5

\* The modal of the card and its requests.
LEMMA PauseUsed ==
    ASSUME DashInv,
           \/ OpenModal \/ CloseModal \/ DatesAnswer
           \/ \E to \in Followed : RequestPause(to)
           \/ ApplyPause \/ PauseAnswers \/ PauseFails
           \/ ApplyLeft \/ LeftAnswers \/ LeftFails
    PROVE  DashInv'
<1> USE DEF DashInv, DashTypeOK, OneSend, PausesFollowed, Undisturbed
<1>0. dash \in DashType
  OBVIOUS
<1>1. CASE OpenModal
  BY <1>1 DEF OpenModal, DashType
<1>2. CASE CloseModal
  BY <1>2 DEF CloseModal, DashType
<1>3. CASE DatesAnswer
  BY <1>3 DEF DatesAnswer, DashType
<1>4. ASSUME NEW to \in Followed, RequestPause(to) PROVE DashInv'
  <2>1. dash.pause = "idle"
    BY <1>4 DEF RequestPause, Offered, DashboardControls, SendDialogControls, ModalControls,
                SettingsControls, CardControls, If
  <2> QED
    BY <1>4, <2>1 DEF RequestPause, DashType, Requests
<1>5. CASE ApplyPause
  BY <1>5 DEF ApplyPause, DashType, Requests
<1>6. NoRequest(dash) \in DashType
      /\ NoRequest(dash).sends = dash.sends /\ NoRequest(dash).confirm = dash.confirm
  BY DashboardAssumption DEF NoRequest, DashType, Requests, Seasons
<1>7. CASE PauseAnswers
  <2> DEFINE d == [NoRequest(dash) EXCEPT !.modal = FALSE, !.dates = "none"]
  <2>1. d \in DashType /\ d.sends = dash.sends /\ d.confirm = dash.confirm
    BY <1>6 DEF DashType
  <2>2. dash' = AskStatus(d) /\ srv' = srv
    BY <1>7 DEF PauseAnswers
  <2> HIDE DEF d
  <2> QED
    BY <2>1, <2>2, StatusAsked
<1>8. CASE PauseFails
  BY <1>6, <1>8, ChangedByOthers DEF PauseFails
<1>9. NoLeft \in PauseRequest /\ [NoLeft EXCEPT !.stage = "applied"] \in PauseRequest
      /\ [NoLeft EXCEPT !.stage = "applied"].stage = "applied"
  BY DashboardAssumption DEF NoLeft, PauseRequest, Requests, Seasons
<1>10. PICK d : d = [dash EXCEPT !.left = NoLeft]
  OBVIOUS
<1>11. d \in DashType /\ d.sends = dash.sends /\ d.confirm = dash.confirm
  BY <1>9, <1>10 DEF DashType
<1>12. CASE ApplyLeft
  <2>1. PICK r : r = [NoLeft EXCEPT !.stage = "applied"]
    OBVIOUS
  <2>2. PICK f : f = [dash EXCEPT !.left = r]
    OBVIOUS
  <2>3. f \in DashType /\ f.sends = dash.sends /\ f.confirm = dash.confirm /\ f.left = r
    BY <1>9, <2>1, <2>2 DEF DashType
  <2>4. srv' \in [season : Seasons, paused : [Seasons -> Followed]]
    BY <1>12 DEF ApplyLeft, DashType, PauseRequest
  <2>5. dash' = f /\ f.left.stage = "applied"
    BY <1>9, <1>12, <2>1, <2>2, <2>3 DEF ApplyLeft
  <2> QED
    BY <2>3, <2>4, <2>5
<1>13. CASE LeftAnswers
  BY <1>10, <1>11, <1>13, StatusAsked DEF LeftAnswers
<1>14. CASE LeftFails
  BY <1>10, <1>11, <1>14, ChangedByOthers DEF LeftFails
<1> QED
  BY <1>1, <1>2, <1>3, <1>4, <1>5, <1>7, <1>8, <1>12, <1>13, <1>14

\* The dialog to send now and its requests.
LEMMA SendUsed ==
    ASSUME DashInv,
           \/ OpenSend \/ \E s \in Scopes : PickScope(s)
           \/ CancelSend \/ SendNow \/ SendAnswers \/ SendFails
           \/ \E job \in Seasons : SendClears(job)
    PROVE  DashInv'
<1> USE DEF DashInv, DashTypeOK, OneSend, PausesFollowed, Undisturbed
<1>0. dash \in DashType
  OBVIOUS
<1>1. CASE OpenSend
  <2>1. dash.sends = 0
    BY <1>1 DEF OpenSend, DashboardControls, SendDialogControls, ModalControls,
                SettingsControls, CardControls, If
  <2> QED
    BY <1>1, <2>1 DEF OpenSend, DashType, Scopes
<1>2. ASSUME NEW s \in Scopes, PickScope(s) PROVE DashInv'
  BY <1>2 DEF PickScope, DashType
<1>3. CASE CancelSend
  BY <1>3 DEF CancelSend, DashType, Scopes
<1>4. CASE SendNow
  <2>1. dash.confirm
    BY <1>4 DEF SendNow, DashboardControls, ModalControls, SettingsControls, CardControls, If
  <2>2. dash.sends = 0
    BY <2>1
  <2> DEFINE n == dash.sends + 1
  <2>3. dash' = [dash EXCEPT !.confirm = FALSE, !.scope = "both", !.sends = n] /\ srv' = srv
    BY <1>4 DEF SendNow
  <2>6. n = 1 /\ n \in 0..MaxSends
    BY <2>2 DEF MaxSends
  <2> HIDE DEF n
  <2>4. dash' \in DashType /\ dash'.sends = 1
    BY <1>0, <2>3, <2>6 DEF DashType, Scopes
  <2> QED
    BY <1>0, <2>3, <2>4, <2>6 DEF DashType
<1>5. ASSUME NEW d \in SendOver
      PROVE  d \in DashType /\ d.sends <= 1 /\ (d.confirm => d.sends = 0)
  <2>1. dash.sends \in 0..1 /\ dash.earlier \in Nat
    BY <1>0 DEF DashType, MaxSends
  <2>2. CASE dash.sends = 1 /\ d = [dash EXCEPT !.sends = 0]
    BY <1>0, <2>2 DEF DashType, MaxSends
  <2>3. CASE dash.earlier > 0 /\ d = [dash EXCEPT !.earlier = dash.earlier - 1]
    <3>1. dash.earlier - 1 \in Nat
      BY <2>1, <2>3
    <3> QED
      BY <1>0, <2>3, <3>1 DEF DashType
  <2>4. CASE \E n \in 1..dash.sends : d = [dash EXCEPT !.sends = @ - 1]
    <3>1. dash.sends = 1
      BY <2>1, <2>4
    <3>2. PICK m : m = dash.sends - 1
      OBVIOUS
    <3>3. m = 0 /\ d = [dash EXCEPT !.sends = m]
      BY <2>4, <3>1, <3>2
    <3> QED
      BY <2>2, <3>1, <3>3
  <2>5. CASE \E n \in 1..dash.earlier : d = [dash EXCEPT !.earlier = @ - 1]
    BY <2>1, <2>3, <2>5 DEF MaxSends
  <2> QED
    BY <1>5, <2>4, <2>5 DEF SendOver
<1>6. CASE SendAnswers
  BY <1>5, <1>6, StatusAsked DEF SendAnswers
<1>7. CASE SendFails
  BY <1>5, <1>7, ChangedByOthers DEF SendFails
<1>8. ASSUME NEW job \in Seasons, SendClears(job) PROVE DashInv'
  <2>1. srv' \in [season : Seasons, paused : [Seasons -> Followed]]
    BY <1>8, DashboardAssumption DEF SendClears
  <2>2. dash' = dash /\ ~(dash.sends = 0 /\ dash.earlier = 0)
    BY <1>0, <1>8 DEF SendClears, DashType, MaxSends
  <2> QED
    BY <2>1, <2>2
<1> QED
  BY <1>1, <1>2, <1>3, <1>4, <1>6, <1>7, <1>8

\* The season is one of two.
LEMMA OtherSeason ==
    ASSUME NEW s \in Seasons PROVE (CHOOSE t \in Seasons : t # s) \in Seasons
<1>1. \E t \in Seasons : t # s
  BY DEF Seasons
<1> QED
  BY <1>1

\* The season and the queries.
LEMMA SeasonUsed ==
    ASSUME DashInv,
           \/ \E s \in Seasons : SwitchSeason(s)
           \/ ApplySwitch \/ SwitchAnswers \/ SwitchFails \/ OthersSwitch
           \/ FocusDashboard \/ SeasonRead \/ SeasonAnswers
           \/ StatusRead \/ StatusAnswers \/ StatusFails
    PROVE  DashInv'
<1> USE DEF DashInv, DashTypeOK, OneSend, PausesFollowed, Undisturbed
<1>0. dash \in DashType
  OBVIOUS
<1>1. ASSUME NEW s \in Seasons, SwitchSeason(s) PROVE DashInv'
  BY <1>1 DEF SwitchSeason, DashType, Requests
<1>2. CASE ApplySwitch
  BY <1>2 DEF ApplySwitch, DashType, Requests
<1>3. CASE SwitchAnswers
  <2> DEFINE d == [dash EXCEPT !.switch = "idle", !.switchTo = "friday", !.seasonFetch = "asked"]
  <2>1. d \in DashType /\ d.sends = dash.sends /\ d.confirm = dash.confirm
    BY DEF DashType, Requests, Seasons
  <2>2. dash' = AskStatus(d) /\ srv' = srv
    BY <1>3 DEF SwitchAnswers
  <2> HIDE DEF d
  <2> QED
    BY <2>1, <2>2, StatusAsked
<1>4. CASE SwitchFails
  <2>1. dash' = [dash EXCEPT !.switch = "idle", !.switchTo = "friday"] /\ srv' = srv
    BY <1>4 DEF SwitchFails
  <2>2. dash' \in DashType
    BY <2>1 DEF DashType, Requests, Seasons
  <2>3. /\ dash'.sends = dash.sends /\ dash'.confirm = dash.confirm
        /\ dash'.earlier = dash.earlier /\ dash'.doubt = dash.doubt
        /\ dash'.pause = dash.pause /\ dash'.left = dash.left
        /\ dash'.statusFetch = dash.statusFetch /\ dash'.answer = dash.answer
        /\ dash'.status = dash.status
    BY <2>1 DEF DashType
  <2> QED
    BY <2>1, <2>2, <2>3
<1>5. CASE OthersSwitch
  BY <1>5, OtherSeason DEF OthersSwitch
<1>6. CASE FocusDashboard
  <2> DEFINE d == [dash EXCEPT !.seasonFetch = "asked"]
  <2>1. d \in DashType /\ d.sends = dash.sends /\ d.confirm = dash.confirm
    BY DEF DashType
  <2>2. dash' = AskStatus(d) /\ srv' = srv
    BY <1>6 DEF FocusDashboard
  <2> HIDE DEF d
  <2> QED
    BY <2>1, <2>2, StatusAsked
<1>7. CASE SeasonRead
  BY <1>7 DEF SeasonRead, DashType
<1>8. CASE SeasonAnswers
  BY <1>8 DEF SeasonAnswers, DashType
<1>9. CASE StatusRead
  BY <1>9 DEF StatusRead, DashType, StatusType
<1>10. CASE StatusAnswers
  BY <1>10 DEF StatusAnswers, DashType
<1>11. CASE StatusFails
  <2>1. PICK d : d = Unmount(dash)
    OBVIOUS
  <2>2. d \in DashType /\ d.sends = dash.sends /\ d.confirm = dash.confirm
    BY <1>0, <2>1, Unmounts
  <2>3. PICK f : f = [d EXCEPT !.statusFetch = "idle", !.answer = dash.status,
                               !.error = TRUE, !.doubt = TRUE]
    OBVIOUS
  <2>4. f \in DashType /\ f.sends = dash.sends /\ f.confirm = dash.confirm /\ f.doubt
    BY <2>2, <2>3 DEF DashType
  <2>5. dash' = f /\ srv' = srv
    BY <1>11, <2>1, <2>3 DEF StatusFails
  <2> QED
    BY <2>4, <2>5
<1> QED
  BY <1>1, <1>2, <1>3, <1>4, <1>5, <1>6, <1>7, <1>8, <1>9, <1>10, <1>11

\* What others and the scheduled jobs do to the pauses.
LEMMA PausedByOthers ==
    ASSUME DashInv, NEW job \in Seasons,
           JobClears(job) \/ \E to \in Followed : OthersPause(job, to)
    PROVE  DashInv'
<1>1. dash \in DashType /\ dash.sends <= 1 /\ (dash.confirm => dash.sends = 0)
  BY DEF DashInv, DashTypeOK, OneSend
<1>2. PICK to \in Followed : srv' = [srv EXCEPT !.paused[job] = to]
  BY DashboardAssumption DEF JobClears, OthersPause
<1>3. srv' \in [season : Seasons, paused : [Seasons -> Followed]]
  BY <1>2 DEF DashInv, DashTypeOK
<1> QED
  BY <1>1, <1>3, ChangedByOthers DEF JobClears, OthersPause

\* The user leaves the page and comes back.
LEMMA HomeLeft == ASSUME DashInv, LeaveHome \/ ComeHome PROVE DashInv'
<1>0. dash \in DashType /\ dash.sends <= 1 /\ (dash.confirm => dash.sends = 0)
  BY DEF DashInv, DashTypeOK, OneSend
<1>1. CASE LeaveHome
  <2>1. PICK d : d = Unmount(dash)
    OBVIOUS
  <2>2. /\ d \in DashType /\ d.sends = dash.sends /\ d.earlier = dash.earlier
        /\ d.doubt = dash.doubt /\ d.pause = "idle"
        /\ d.statusFetch = dash.statusFetch /\ d.answer = dash.answer /\ d.status = dash.status
        /\ d.left = IF dash.pause = "idle" THEN dash.left
                    ELSE [stage |-> dash.pause, job |-> dash.pauseJob, to |-> dash.pauseTo]
    BY <1>0, <2>1, Unmounts
  <2>3. PICK n : n = dash.earlier + dash.sends
    OBVIOUS
  <2>4. PICK f : f = [d EXCEPT !.home = FALSE, !.confirm = FALSE, !.scope = "both",
                               !.sends = 0, !.earlier = n]
    OBVIOUS
  <2>n. n \in Nat /\ n = d.earlier + dash.sends
    BY <1>0, <2>2, <2>3 DEF DashType, MaxSends
  <2>5. dash' = f /\ srv' = srv
    <3>1. dash' = [d EXCEPT !.home = FALSE, !.confirm = FALSE, !.scope = "both",
                            !.sends = 0, !.earlier = d.earlier + dash.sends]
      BY <1>1, <2>1 DEF LeaveHome
    <3> QED
      BY <1>1, <2>4, <2>n, <3>1 DEF LeaveHome
  <2>6. /\ f \in DashType /\ f.sends = 0 /\ f.earlier = n /\ ~f.confirm
        /\ f.doubt = d.doubt /\ f.pause = d.pause /\ f.left = d.left
        /\ f.statusFetch = d.statusFetch /\ f.answer = d.answer /\ f.status = d.status
    <3>1. 0 \in 0..MaxSends /\ "both" \in Scopes
      BY DEF MaxSends, Scopes
    <3>2. f \in DashType
      BY <2>2, <2>4, <2>n, <3>1 DEF DashType
    <3>3. f.sends = 0 /\ f.earlier = n /\ ~f.confirm /\ f.doubt = d.doubt
      BY <2>2, <2>4 DEF DashType
    <3>4. /\ f.pause = d.pause /\ f.left = d.left /\ f.status = d.status
          /\ f.statusFetch = d.statusFetch /\ f.answer = d.answer
      BY <2>2, <2>4 DEF DashType
    <3> QED
      BY <3>2, <3>3, <3>4
  <2>7. Undisturbed(f) => Undisturbed(dash)
    <3>1. n = 0 => dash.sends = 0 /\ dash.earlier = 0
      BY <1>0, <2>3 DEF DashType, MaxSends
    <3>2. f.left.stage # "applied" => dash.pause # "applied"
      BY <2>2, <2>6
    <3>3. f.left.stage # "applied" /\ f.pause # "applied" => dash.left.stage # "applied"
      BY <1>1, <2>2, <2>6 DEF LeaveHome, MayUnmount
    <3> QED
      BY <2>2, <2>6, <3>1, <3>2, <3>3 DEF Undisturbed
  <2> QED
    BY <2>2, <2>5, <2>6, <2>7 DEF DashInv, DashTypeOK, OneSend, PausesFollowed
<1>2. CASE ComeHome
  <2>1. PICK v : v = IF dash.seasonFetch = "idle" THEN "asked" ELSE dash.seasonFetch
    OBVIOUS
  <2>2. PICK d : d = [dash EXCEPT !.home = TRUE, !.seasonFetch = v]
    OBVIOUS
  <2>3. /\ d \in DashType /\ d.sends = dash.sends /\ d.earlier = dash.earlier
        /\ d.confirm = dash.confirm /\ d.doubt = dash.doubt /\ d.pause = dash.pause
        /\ d.left = dash.left /\ d.statusFetch = dash.statusFetch /\ d.answer = dash.answer
        /\ d.status = dash.status
    BY <1>0, <2>1, <2>2 DEF DashType
  <2>4. srv' = srv /\ dash' = IF dash.statusFetch = "idle" THEN AskStatus(d) ELSE d
    BY <1>2, <2>1, <2>2 DEF ComeHome
  <2>5. CASE dash.statusFetch = "idle"
    BY <1>0, <2>3, <2>4, <2>5, StatusAsked
  <2>6. CASE dash.statusFetch # "idle"
    BY <2>3, <2>4, <2>6 DEF DashInv, DashTypeOK, OneSend, PausesFollowed, Undisturbed
  <2> QED
    BY <2>5, <2>6
<1> QED
  BY <1>1, <1>2

\* Every step of the dashboard keeps it.
LEMMA DashNexts == DashInv /\ [DashNext]_dashVars => DashInv'
<1> SUFFICES ASSUME DashInv, [DashNext]_dashVars PROVE DashInv'
  OBVIOUS
<1>1. CASE UNCHANGED dashVars
  BY <1>1 DEF dashVars, DashInv, DashTypeOK, OneSend, PausesFollowed, Undisturbed
<1> QED
  BY <1>1, PauseUsed, SendUsed, SeasonUsed, PausedByOthers, HomeLeft DEF DashNext

\* The cards of the jobs and their requests keep their types.
THEOREM DashTyped == DashSpec => []DashTypeOK
<1>1. DashInv => DashTypeOK
  BY DEF DashInv
<1> QED
  BY <1>1, DashInits, DashNexts, PTL DEF DashSpec

\* When nothing of the page is on its way, the badge of a job tells the pause the
\* server has, unless the page was not told of a change, for every set of pauses.
THEOREM BadgesTell == DashSpec => []BadgeTellsPause
<1>1. DashInv => BadgeTellsPause
  <2> SUFFICES ASSUME DashInv, DashQuiet, NEW job \in Seasons
               PROVE  /\ Badge(job) = "paused indefinitely" => srv.paused[job] = "indefinite"
                      /\ Badge(job) = "paused until" => srv.paused[job] \in Seasons
                      /\ Badge(job) = "not paused" => srv.paused[job] = "no"
    BY DEF BadgeTellsPause
  <2>1. dash.status.paused = srv.paused
    BY DEF DashInv, DashQuiet, PausesFollowed, Undisturbed
  <2>2. srv.paused[job] \in {"no", "indefinite"} \cup Seasons
    BY DashboardAssumption DEF DashInv, DashTypeOK, Pauses
  <2> QED
    BY <2>1, <2>2 DEF Badge
<1> QED
  BY <1>1, DashInits, DashNexts, PTL DEF DashSpec

\* One visit of the page never has two requests to send on their way together.
THEOREM SendsOnce == DashSpec => []OneSendAtATime
<1>1. DashInv => OneSendAtATime
  BY DEF DashInv, OneSend, OneSendAtATime, DashTypeOK, DashType, MaxSends
<1> QED
  BY <1>1, DashInits, DashNexts, PTL DEF DashSpec

-----------------------------------------------------------------------------
(* The settings panels: what is on its way is the last word of the user.    *)

\* The save that is on its way, if there is one, is for the last word.
SavesLastWord ==
    IF win.saves = {} THEN kept.windows = kept.lastWindows ELSE win.saves = {kept.lastWindows}

TogglesLastWord ==
    IF flg.toggles = {} THEN kept.flag = kept.lastFlag ELSE flg.toggles = {kept.lastFlag}

PanelsInv == AdminTypeOK /\ SavesLastWord /\ TogglesLastWord

-----------------------------------------------------------------------------
\* What holds when the page is opened.
LEMMA PanelsInit == AdminInit => PanelsInv
<1> SUFFICES ASSUME AdminInit PROVE PanelsInv
  OBVIOUS
<1>1. win \in WinType
  BY DEF AdminInit, WinType, Fetch
<1>2. kept \in KeptType /\ kept.lastWindows = kept.windows /\ kept.lastFlag = kept.flag
  BY DEF AdminInit
<1>3. flg \in FlgType
  BY <1>2 DEF AdminInit, FlgType, KeptType
<1>4. win.saves = {} /\ flg.toggles = {}
  BY DEF AdminInit
<1> QED
  BY <1>1, <1>2, <1>3, <1>4 DEF PanelsInv, AdminTypeOK, SavesLastWord, TogglesLastWord

\* What the user does in the dialog: only a save sends a request, and it is
\* offered only while none is on its way.
LEMMA WindowsUsed ==
    PanelsInv /\ (OpenWindows \/ CloseWindows \/ SaveWindows
             \/ \E w \in Windows \cup {Inverted} : EditWindows(w)) => PanelsInv'
<1> SUFFICES ASSUME PanelsInv,
                    OpenWindows \/ CloseWindows \/ SaveWindows
                    \/ \E w \in Windows \cup {Inverted} : EditWindows(w)
             PROVE PanelsInv'
  OBVIOUS
<1> USE DEF PanelsInv, AdminTypeOK, SavesLastWord, TogglesLastWord
<1>1. CASE OpenWindows
  BY <1>1 DEF OpenWindows, WinType, Fetch
<1>2. CASE CloseWindows
  BY <1>2 DEF CloseWindows, WinType
<1>3. CASE SaveWindows
  <2>1. win.saves = {} /\ win.draft \in Windows
    BY <1>3, AdminAssumption DEF SaveWindows, WindowsControls, WinDirty, If, WinType
  <2>2. win'.saves = {win.draft} /\ kept'.lastWindows = win.draft
    BY <1>3, <2>1 DEF SaveWindows, WinType, KeptType
  <2>3. win' \in WinType /\ kept' \in KeptType
    BY <1>3, <2>1 DEF SaveWindows, WinType, KeptType
  <2>4. flg' = flg /\ kept'.flag = kept.flag /\ kept'.lastFlag = kept.lastFlag
    BY <1>3 DEF SaveWindows, KeptType
  <2> QED
    BY <2>2, <2>3, <2>4
<1>4. CASE \E w \in Windows \cup {Inverted} : EditWindows(w)
  BY <1>4 DEF EditWindows, WinType
<1> QED
  BY <1>1, <1>2, <1>3, <1>4

\* The answers to the dialog's requests.
LEMMA WindowsAnswered ==
    PanelsInv /\ (WindowsRead \/ WindowsAnswer \/ WindowsFail
             \/ \E w \in Windows : WindowsSaved(w) \/ WindowsNotSaved(w)) => PanelsInv'
<1> SUFFICES ASSUME PanelsInv,
                    WindowsRead \/ WindowsAnswer \/ WindowsFail
                    \/ \E w \in Windows : WindowsSaved(w) \/ WindowsNotSaved(w)
             PROVE PanelsInv'
  OBVIOUS
<1> USE DEF PanelsInv, AdminTypeOK, SavesLastWord, TogglesLastWord
<1>1. CASE WindowsRead
  BY <1>1 DEF WindowsRead, WinType, KeptType, Fetch
<1>2. CASE WindowsAnswer
  BY <1>2 DEF WindowsAnswer, WinType, Fetch
<1>3. CASE WindowsFail
  BY <1>3 DEF WindowsFail, WinType, Fetch
<1>4. ASSUME NEW w \in Windows, WindowsSaved(w) \/ WindowsNotSaved(w) PROVE PanelsInv'
  <2>1. win.saves = {w} /\ w = kept.lastWindows
    BY <1>4 DEF WindowsSaved, WindowsNotSaved
  <2>2. win' \in WinType /\ win'.saves = {}
    BY <1>4, <2>1 DEF WindowsSaved, WindowsNotSaved, WinType, Fetch
  <2>3. /\ kept' \in KeptType /\ kept'.windows = kept'.lastWindows
        /\ kept'.flag = kept.flag /\ kept'.lastFlag = kept.lastFlag
    BY <1>4, <2>1 DEF WindowsSaved, WindowsNotSaved, KeptType
  <2>4. flg' = flg
    BY <1>4 DEF WindowsSaved, WindowsNotSaved
  <2> QED
    BY <2>2, <2>3, <2>4
<1> QED
  BY <1>1, <1>2, <1>3, <1>4

\* The switches, and the answers to their requests.
LEMMA FlagsUsed ==
    PanelsInv /\ (EditMode \/ ToggleFlag \/ FlagsRead \/ FlagsAnswer \/ FlagsFail
             \/ \E b \in BOOLEAN : FlagToggled(b) \/ FlagNotToggled(b)) => PanelsInv'
<1> SUFFICES ASSUME PanelsInv,
                    EditMode \/ ToggleFlag \/ FlagsRead \/ FlagsAnswer \/ FlagsFail
                    \/ \E b \in BOOLEAN : FlagToggled(b) \/ FlagNotToggled(b)
             PROVE PanelsInv'
  OBVIOUS
<1> USE DEF PanelsInv, AdminTypeOK, SavesLastWord, TogglesLastWord
<1>1. CASE EditMode
  BY <1>1 DEF EditMode, FlgType
<1>2. CASE ToggleFlag
  <2>1. flg.toggles = {}
    BY <1>2 DEF ToggleFlag, FlagsControls, If
  <2>2. flg' \in FlgType /\ flg'.toggles = {~flg.data}
    BY <1>2, <2>1 DEF ToggleFlag, FlgType
  <2>3. /\ kept' \in KeptType /\ kept'.lastFlag = ~flg.data
        /\ kept'.windows = kept.windows /\ kept'.lastWindows = kept.lastWindows
    BY <1>2 DEF ToggleFlag, FlgType, KeptType
  <2> QED
    BY <1>2, <2>2, <2>3 DEF ToggleFlag
<1>3. CASE FlagsRead
  BY <1>3 DEF FlagsRead, FlgType, KeptType
<1>4. CASE FlagsAnswer
  BY <1>4 DEF FlagsAnswer, FlgType
<1>5. CASE FlagsFail
  BY <1>5 DEF FlagsFail, FlgType
<1>6. ASSUME NEW b \in BOOLEAN, FlagToggled(b) \/ FlagNotToggled(b) PROVE PanelsInv'
  <2>1. flg.toggles = {b} /\ b = kept.lastFlag
    BY <1>6 DEF FlagToggled, FlagNotToggled
  <2>2. flg' \in FlgType /\ flg'.toggles = {}
    <3> DEFINE f == [flg EXCEPT !.toggles = @ \ {b}]
    <3>1. f \in FlgType /\ f.toggles = {}
      BY <2>1 DEF FlgType
    <3>2. AskFlags(f) \in FlgType /\ AskFlags(f).toggles = {}
      <4> HIDE DEF f
      <4> QED
        BY <3>1 DEF AskFlags, FlgType
    <3> QED
      BY <1>6, <3>1, <3>2 DEF FlagToggled, FlagNotToggled
  <2>3. /\ kept' \in KeptType /\ kept'.flag = kept'.lastFlag
        /\ kept'.windows = kept.windows /\ kept'.lastWindows = kept.lastWindows
    BY <1>6, <2>1 DEF FlagToggled, FlagNotToggled, KeptType
  <2>4. win' = win
    BY <1>6 DEF FlagToggled, FlagNotToggled
  <2> QED
    BY <2>2, <2>3, <2>4
<1> QED
  BY <1>1, <1>2, <1>3, <1>4, <1>5, <1>6

\* Every step of the panels keeps it.
LEMMA PanelsNext == PanelsInv /\ [AdminNext]_adminVars => PanelsInv'
<1> SUFFICES ASSUME PanelsInv, [AdminNext]_adminVars PROVE PanelsInv'
  OBVIOUS
<1>1. CASE FocusPanels
  BY <1>1 DEF FocusPanels, AskFlags, PanelsInv, AdminTypeOK, SavesLastWord, TogglesLastWord,
              WinType, FlgType, Fetch
<1>2. CASE Wipe
  BY <1>2 DEF Wipe, PanelsInv, AdminTypeOK, SavesLastWord, TogglesLastWord
<1>3. CASE UNCHANGED adminVars
  BY <1>3 DEF adminVars, PanelsInv, AdminTypeOK, SavesLastWord, TogglesLastWord
<1> QED
  BY <1>1, <1>2, <1>3, WindowsUsed, WindowsAnswered, FlagsUsed DEF AdminNext

\* Every part of the panels keeps its type, the request of each among them.
THEOREM PanelsTyped == AdminSpec => []AdminTypeOK
<1>1. PanelsInv => AdminTypeOK
  BY DEF PanelsInv
<1> QED
  BY <1>1, PanelsInit, PanelsNext, PTL DEF AdminSpec

-----------------------------------------------------------------------------
(* The refinement: each step of the panels is a step of either setting, or   *)
(* leaves it alone.                                                          *)

\* What a step of the windows is to the setting it implements.
LEMMA WindowsStep ==
    PanelsInv /\ [AdminNext]_adminVars => [WindowsSetting!Next]_(WindowsSetting!settingVars)
<1> SUFFICES ASSUME PanelsInv, [AdminNext]_adminVars
             PROVE  WindowsSetting!Next \/ UNCHANGED WindowsSetting!settingVars
  OBVIOUS
<1> USE DEF PanelsInv, AdminTypeOK, SavesLastWord
<1>1. CASE SaveWindows
  <2>1. win.saves = {} /\ win.draft \in Windows
    BY <1>1, AdminAssumption DEF SaveWindows, WindowsControls, WinDirty, If, WinType
  <2>2. /\ win'.saves # {} /\ kept'.lastWindows = win.draft
        /\ kept'.windows = kept.windows
    BY <1>1, <2>1 DEF SaveWindows, WinType, KeptType
  <2>3. WindowsSetting!Send(win.draft)
    BY <2>1, <2>2 DEF WindowsSetting!Send
  <2> QED
    BY <2>1, <2>3 DEF WindowsSetting!Next
<1>2. ASSUME NEW w \in Windows, WindowsSaved(w) \/ WindowsNotSaved(w)
      PROVE  WindowsSetting!Next
  <2>1. win.saves = {w} /\ w = kept.lastWindows
    BY <1>2 DEF WindowsSaved, WindowsNotSaved
  <2>2. win'.saves = {}
    BY <1>2, <2>1 DEF WindowsSaved, WindowsNotSaved, WinType
  <2>3. \/ kept'.windows = w /\ kept'.lastWindows = kept.lastWindows
        \/ kept'.lastWindows = kept.windows /\ kept'.windows = kept.windows
    BY <1>2, <2>1 DEF WindowsSaved, WindowsNotSaved, KeptType
  <2>4. WindowsSetting!Stored \/ WindowsSetting!Refused
    BY <2>1, <2>2, <2>3 DEF WindowsSetting!Stored, WindowsSetting!Refused
  <2> QED
    BY <2>4 DEF WindowsSetting!Next
<1>3. CASE \/ OpenWindows \/ CloseWindows \/ \E w \in Windows \cup {Inverted} : EditWindows(w)
           \/ WindowsRead \/ WindowsAnswer \/ WindowsFail \/ FocusPanels
           \/ EditMode \/ FlagsRead \/ FlagsAnswer \/ FlagsFail \/ Wipe
           \/ UNCHANGED adminVars
  <2>1. win'.saves = win.saves /\ kept' = kept
    BY <1>3 DEF OpenWindows, CloseWindows, EditWindows, WindowsRead, WindowsAnswer, WindowsFail,
        FocusPanels, EditMode, FlagsRead, FlagsAnswer, FlagsFail, Wipe, adminVars, WinType
  <2> QED
    BY <2>1 DEF WindowsSetting!settingVars
<1>4. CASE ToggleFlag \/ \E b \in BOOLEAN : FlagToggled(b) \/ FlagNotToggled(b)
  <2>1. /\ win' = win /\ kept'.windows = kept.windows
        /\ kept'.lastWindows = kept.lastWindows
    BY <1>4 DEF ToggleFlag, FlagToggled, FlagNotToggled, KeptType
  <2> QED
    BY <2>1 DEF WindowsSetting!settingVars
<1> QED
  BY <1>1, <1>2, <1>3, <1>4 DEF AdminNext

\* What a step of the flag is to the setting it implements.
LEMMA FlagStep ==
    PanelsInv /\ [AdminNext]_adminVars => [FlagSetting!Next]_(FlagSetting!settingVars)
<1> SUFFICES ASSUME PanelsInv, [AdminNext]_adminVars
             PROVE  FlagSetting!Next \/ UNCHANGED FlagSetting!settingVars
  OBVIOUS
<1> USE DEF PanelsInv, AdminTypeOK, TogglesLastWord
<1>1. CASE ToggleFlag
  <2>1. flg.toggles = {}
    BY <1>1 DEF ToggleFlag, FlagsControls, If
  <2>2. flg'.toggles # {} /\ kept'.lastFlag = ~flg.data /\ kept'.flag = kept.flag
    BY <1>1, <2>1 DEF ToggleFlag, FlgType, KeptType
  <2>3. FlagSetting!Send(~flg.data)
    BY <2>1, <2>2 DEF FlagSetting!Send
  <2>4. PICK b \in BOOLEAN : b = ~flg.data
    BY Zenon
  <2> QED
    BY <2>3, <2>4 DEF FlagSetting!Next
<1>2. ASSUME NEW b \in BOOLEAN, FlagToggled(b) \/ FlagNotToggled(b)
      PROVE  FlagSetting!Next
  <2>1. flg.toggles = {b} /\ b = kept.lastFlag
    BY <1>2 DEF FlagToggled, FlagNotToggled
  <2>2. flg'.toggles = {}
    <3> DEFINE f == [flg EXCEPT !.toggles = @ \ {b}]
    <3>1. f \in FlgType /\ f.toggles = {}
      BY <2>1 DEF FlgType
    <3>2. AskFlags(f).toggles = {}
      <4> HIDE DEF f
      <4> QED
        BY <3>1 DEF AskFlags, FlgType
    <3> QED
      BY <1>2, <3>1, <3>2 DEF FlagToggled, FlagNotToggled
  <2>3. \/ kept'.flag = b /\ kept'.lastFlag = kept.lastFlag
        \/ kept'.lastFlag = kept.flag /\ kept'.flag = kept.flag
    BY <1>2, <2>1 DEF FlagToggled, FlagNotToggled, KeptType
  <2>4. FlagSetting!Stored \/ FlagSetting!Refused
    BY <2>1, <2>2, <2>3 DEF FlagSetting!Stored, FlagSetting!Refused
  <2> QED
    BY <2>4 DEF FlagSetting!Next
<1>3. CASE \/ EditMode \/ FlagsRead \/ FlagsAnswer \/ FlagsFail \/ FocusPanels
           \/ OpenWindows \/ CloseWindows \/ \E w \in Windows \cup {Inverted} : EditWindows(w)
           \/ WindowsRead \/ WindowsAnswer \/ WindowsFail \/ Wipe
           \/ UNCHANGED adminVars
  <2>1. flg'.toggles = flg.toggles /\ kept' = kept
    <3>1. CASE FocusPanels
      BY <3>1 DEF FocusPanels, AskFlags, FlgType
    <3>2. CASE EditMode \/ FlagsRead \/ FlagsAnswer \/ FlagsFail
      BY <3>2 DEF EditMode, FlagsRead, FlagsAnswer, FlagsFail, FlgType
    <3>3. CASE ~FocusPanels /\ ~(EditMode \/ FlagsRead \/ FlagsAnswer \/ FlagsFail)
      BY <1>3, <3>3 DEF OpenWindows, CloseWindows, EditWindows, WindowsRead, WindowsAnswer,
          WindowsFail, Wipe, adminVars
    <3> QED
      BY <3>1, <3>2, <3>3
  <2> QED
    BY <2>1 DEF FlagSetting!settingVars
<1>4. CASE SaveWindows \/ \E w \in Windows : WindowsSaved(w) \/ WindowsNotSaved(w)
  <2>1. flg' = flg /\ kept'.flag = kept.flag /\ kept'.lastFlag = kept.lastFlag
    BY <1>4 DEF SaveWindows, WindowsSaved, WindowsNotSaved, KeptType
  <2> QED
    BY <2>1 DEF FlagSetting!settingVars
<1> QED
  BY <1>1, <1>2, <1>3, <1>4 DEF AdminNext

\* The panels implement the settings: the request of a panel is for the user's
\* last word and the next one waits for it, for every number of window settings.
THEOREM PanelsImplement == AdminSpec => PanelsAreSettings
<1>1. AdminInit => WindowsSetting!Init /\ FlagSetting!Init
  BY DEF AdminInit, KeptType, WindowsSetting!Init, FlagSetting!Init
<1> QED
  BY <1>1, PanelsInit, PanelsNext, WindowsStep, FlagStep, PTL
  DEF AdminSpec, PanelsAreSettings, WindowsSetting!Spec, FlagSetting!Spec

-----------------------------------------------------------------------------
(* The locations page.                                                      *)

LocationInv == PageTypeOK /\ PendingOnlyWhileAdding

\* The pair of two locations is an edge the map may have.
LEMMA JoinTyped ==
    ASSUME NEW a \in Spots, NEW b \in Spots, a # b
    PROVE  Pair(a, b) \in Joins
<1>1. IsFiniteSet({a}) /\ Cardinality({a}) = 1
  BY FS_Singleton
<1>2. Cardinality({a} \cup {b}) = 1 + 1
  BY <1>1, FS_AddElement
<1>3. {a} \cup {b} = Pair(a, b)
  BY DEF Pair
<1> QED
  BY <1>2, <1>3 DEF Joins, Pairs

\* The value that stands for no edge is not one.
LEMMA JoinIsPair == NoPair \notin Joins
  BY FS_EmptySet DEF NoPair, Joins

\* A change of the map that keeps to the types and to the marker's condition.
LEMMA MapChange ==
    ASSUME LocationInv, NEW new \in MapType, map' = new,
           seen' \in SeenType, times' \in TimesType, setting' \in Draft,
           busy' \in [Mutations -> {"idle", "quiet", "closes"}],
           new.pending # Nobody => new.mode = "add-edge",
           new.edge # NoPair => new.pending = Nobody
    PROVE  LocationInv'
  BY DEF LocationInv, PageTypeOK, PendingOnlyWhileAdding

\* A request of the page is one of its mutations.
LEMMA AskTyped ==
    ASSUME LocationInv, NEW m \in Mutations, NEW b \in BOOLEAN
    PROVE  Ask(m, b) \in [Mutations -> {"idle", "quiet", "closes"}]
  BY DEF LocationInv, PageTypeOK, Ask

\* The map itself.
LEMMA MapUsed ==
    ASSUME LocationInv,
           \/ \E mode \in {"add-location", "add-edge"} : SwitchMode(mode)
           \/ ShowInactive \/ MapClick
           \/ \E s \in Spots : MarkerClick(s)
           \/ \E p \in Joins : EdgeClick(p)
    PROVE  LocationInv'
<1> USE DEF LocationInv, PageTypeOK, PendingOnlyWhileAdding, OnMap
<1>0. map \in MapType
  OBVIOUS
<1>1. ASSUME NEW mode \in {"add-location", "add-edge"}, SwitchMode(mode) PROVE LocationInv'
  BY <1>1 DEF SwitchMode, MapType
<1>2. CASE ShowInactive
  BY <1>2 DEF ShowInactive, MapType
<1>3. CASE MapClick
  BY <1>3 DEF MapClick, MapType
<1>4. ASSUME NEW s \in Spots, MarkerClick(s) PROVE LocationInv'
  <2>1. map.mode = "add-edge" /\ map.edge = NoPair
    BY <1>4 DEF MarkerClick, MarkerControls, PageUsable, DialogOpen, If
  <2>2. CASE map.pending = Nobody
    BY <1>4, <2>1, <2>2 DEF MarkerClick, MapType
  <2>3. CASE map.pending = s \/ map.pending \notin {Nobody} \cup seen.known
    BY <1>4, <2>1, <2>3, SpotAssumption DEF MarkerClick, MapType
  <2>4. CASE map.pending \notin {Nobody, s} /\ map.pending \in seen.known
    <3> DEFINE p == Pair(map.pending, s)
               new == [OpenEdge(map, p, p \in seen.edges)
                         EXCEPT !.pending = Nobody, !.mode = "view"]
    <3>1. p \in Joins
      BY <2>4, JoinTyped DEF MapType
    <3>2. map' = new
      BY <1>4, <2>4, SpotAssumption DEF MarkerClick
    <3>3. new \in MapType /\ new.pending = Nobody
      <4>1. PICK b : b \in BOOLEAN /\ b = (p \in seen.edges)
        <5>1. CASE p \in seen.edges
          <6>1. TRUE \in BOOLEAN /\ TRUE = (p \in seen.edges)
            BY <5>1
          <6> QED
            BY <6>1, Zenon
        <5>2. CASE p \notin seen.edges
          <6>1. FALSE \in BOOLEAN /\ FALSE = (p \in seen.edges)
            BY <5>2
          <6> QED
            BY <6>1, Zenon
        <5> QED
          BY <5>1, <5>2
      <4>2. OpenEdge(map, p, b) \in MapType
        <5> HIDE DEF p
        <5> QED
          BY <3>1, <4>1 DEF OpenEdge, MapType, Minutes
      <4>3. new = [OpenEdge(map, p, b) EXCEPT !.pending = Nobody, !.mode = "view"]
        BY <4>1
      <4> HIDE DEF new
      <4> QED
        BY <4>2, <4>3 DEF MapType
    <3> HIDE DEF new
    <3> QED
      BY <1>4, <3>2, <3>3 DEF MarkerClick
  <2> QED
    BY <2>2, <2>3, <2>4
<1>5. ASSUME NEW p \in Joins, EdgeClick(p) PROVE LocationInv'
  <2>1. map.mode = "view"
    BY <1>5 DEF EdgeClick, LineControls, If
  <2> QED
    BY <1>5, <2>1 DEF EdgeClick, OpenEdge, MapType, Minutes
<1> QED
  BY <1>1, <1>2, <1>3, <1>4, <1>5

\* The dialogs of the map: a location, its removal, a travel time.
LEMMA DialogsUsed ==
    ASSUME LocationInv,
           \/ \E s \in Spots \cup {NewSpot} : OpenLocation(s)
           \/ \E fields \in {"wrong", "right"} : TypeLocation(fields)
           \/ CloseLocation \/ SubmitLocation
           \/ \E s \in Spots : ToggleActive(s) \/ TargetLocation(s)
           \/ \E yes \in BOOLEAN : DeleteLocation(yes)
           \/ \E m \in Minutes : TypeEdge(m)
           \/ CloseEdge \/ SaveEdge \/ DeleteEdge
    PROVE  LocationInv'
<1> DEFINE Type == [Mutations -> {"idle", "quiet", "closes"}]
<1>0. Ask("create", TRUE) \in Type /\ Ask("update", TRUE) \in Type /\ Ask("update", FALSE) \in Type
      /\ Ask("remove", FALSE) \in Type /\ Ask("upsert edge", TRUE) \in Type
      /\ Ask("delete edge", TRUE) \in Type
  BY AskTyped DEF Mutations
<1> USE DEF LocationInv, PageTypeOK, PendingOnlyWhileAdding, OnMap
<1>1. ASSUME NEW s \in Spots \cup {NewSpot}, OpenLocation(s) PROVE LocationInv'
  BY <1>1 DEF OpenLocation, MapType
<1>2. ASSUME NEW fields \in {"wrong", "right"}, TypeLocation(fields) PROVE LocationInv'
  BY <1>2 DEF TypeLocation, MapType
<1>3. CASE CloseLocation
  BY <1>3 DEF CloseLocation, MapType
<1>4. CASE SubmitLocation
  BY <1>0, <1>4 DEF SubmitLocation
<1>5. ASSUME NEW s \in Spots, ToggleActive(s) PROVE LocationInv'
  BY <1>0, <1>5 DEF ToggleActive
<1>6. ASSUME NEW s \in Spots, TargetLocation(s) PROVE LocationInv'
  BY <1>6 DEF TargetLocation, MapType
<1>7. ASSUME NEW yes \in BOOLEAN, DeleteLocation(yes) PROVE LocationInv'
  <2>1. busy' \in Type
    BY <1>0, <1>7 DEF DeleteLocation
  <2> QED
    BY <1>7, <2>1 DEF DeleteLocation, MapType
<1>8. ASSUME NEW m \in Minutes, TypeEdge(m) PROVE LocationInv'
  BY <1>8 DEF TypeEdge, MapType
<1>9. CASE CloseEdge
  BY <1>9 DEF CloseEdge, MapType
<1>10. CASE SaveEdge
  BY <1>0, <1>10 DEF SaveEdge
<1>11. CASE DeleteEdge
  BY <1>0, <1>11 DEF DeleteEdge
<1> QED
  BY <1>1, <1>2, <1>3, <1>4, <1>5, <1>6, <1>7, <1>8, <1>9, <1>10, <1>11

\* The list of travel times and the settings leave the map alone.
LEMMA ListsUsed ==
    ASSUME LocationInv,
           \/ \E p \in Joins : StartEditing(p) \/ DropTime(p)
           \/ \E m \in Minutes : EditMinutes(m) \/ TypeMinutes(m)
           \/ StopEditing \/ SaveMinutes \/ AddTime
           \/ \E s \in Spots : ChooseStops(s) \/ SetMapping(s)
           \/ \E d \in Draft : TypeAdjustment(d)
           \/ SaveAdjustment
    PROVE  LocationInv' /\ map' = map
<1> DEFINE Type == [Mutations -> {"idle", "quiet", "closes"}]
<1>0. Ask("upsert edge", FALSE) \in Type /\ Ask("delete edge", FALSE) \in Type
      /\ Ask("adjust", FALSE) \in Type /\ Ask("map", FALSE) \in Type
  BY AskTyped DEF Mutations
<1> USE DEF LocationInv, PageTypeOK, OnTimes
<1>1. ASSUME map' = map, seen' = seen, times' \in TimesType, setting' \in Draft, busy' \in Type
      PROVE  LocationInv' /\ map' = map
  BY <1>1 DEF PendingOnlyWhileAdding
<1>2. ASSUME NEW p \in Joins, StartEditing(p) PROVE times' \in TimesType
  BY <1>2 DEF StartEditing, TimesType, Minutes
<1>3. ASSUME NEW m \in Minutes, EditMinutes(m) \/ TypeMinutes(m) PROVE times' \in TimesType
  BY <1>3 DEF EditMinutes, TypeMinutes, TimesType
<1>4. CASE StopEditing
  BY <1>1, <1>4 DEF StopEditing, TimesType
<1>5. CASE SaveMinutes
  BY <1>0, <1>1, <1>5 DEF SaveMinutes, TimesType
<1>6. CASE AddTime
  BY <1>0, <1>1, <1>6 DEF AddTime, TimesType, Minutes
<1>7. ASSUME NEW s \in Spots, ChooseStops(s) PROVE times' \in TimesType
  BY <1>7 DEF ChooseStops, TimesType
<1>8. ASSUME NEW p \in Joins, StartEditing(p) \/ DropTime(p) PROVE LocationInv' /\ map' = map
  BY <1>0, <1>1, <1>2, <1>8 DEF StartEditing, DropTime
<1>9. ASSUME NEW m \in Minutes, EditMinutes(m) \/ TypeMinutes(m) PROVE LocationInv' /\ map' = map
  BY <1>1, <1>3, <1>9 DEF EditMinutes, TypeMinutes
<1>10. ASSUME NEW s \in Spots, ChooseStops(s) \/ SetMapping(s) PROVE LocationInv' /\ map' = map
  BY <1>0, <1>1, <1>7, <1>10 DEF ChooseStops, SetMapping
<1>11. ASSUME NEW d \in Draft, TypeAdjustment(d) PROVE LocationInv' /\ map' = map
  BY <1>1, <1>11 DEF TypeAdjustment
<1>12. CASE SaveAdjustment
  BY <1>0, <1>1, <1>12 DEF SaveAdjustment
<1> QED
  BY <1>4, <1>5, <1>6, <1>8, <1>9, <1>10, <1>11, <1>12

\* An answer closes a dialog or leaves the map alone.
LEMMA LocationsAnswered ==
    ASSUME LocationInv,
           \/ \E m \in Mutations : Succeeds(m) \/ Refused(m)
           \/ \E d \in SeenType : d.active \subseteq d.known /\ DataArrives(d)
           \/ FetchFails
    PROVE  LocationInv' /\ (map'.edge = map.edge \/ map'.edge = NoPair)
<1> USE DEF LocationInv, PageTypeOK, PendingOnlyWhileAdding
<1>1. ASSUME NEW m \in Mutations, Succeeds(m) \/ Refused(m)
      PROVE  LocationInv' /\ (map'.edge = map.edge \/ map'.edge = NoPair)
  <2>1. Closed(m) \in MapType /\ (Closed(m).pending = map.pending)
        /\ (Closed(m).mode = map.mode) /\ Closed(m).edge \in {map.edge, NoPair}
    <3>1. CASE m \in {"create", "update"}
      BY <3>1 DEF Closed, MapType
    <3>2. CASE m \in {"upsert edge", "delete edge"}
      BY <3>2 DEF Closed, MapType
    <3>3. CASE m \notin {"create", "update", "upsert edge", "delete edge"}
      BY <3>3 DEF Closed
    <3> QED
      BY <3>1, <3>2, <3>3
  <2>2. map' \in {map, Closed(m)}
    BY <1>1 DEF Succeeds, Refused
  <2>3. busy' \in [Mutations -> {"idle", "quiet", "closes"}]
        /\ UNCHANGED <<seen, times, setting>>
    BY <1>1 DEF Succeeds, Refused
  <2> QED
    BY <2>1, <2>2, <2>3
<1>2. ASSUME NEW d \in SeenType, DataArrives(d)
      PROVE  LocationInv' /\ map'.edge = map.edge
  <2>1. times' \in TimesType /\ setting' \in Draft /\ seen' \in SeenType
    BY <1>2 DEF DataArrives, NoTimes, TimesType, Minutes, SeenType, Draft
  <2>2. map' \in MapType /\ map'.pending = map.pending /\ map'.mode = map.mode
        /\ map'.edge = map.edge
    <3>1. CASE map' = map
      BY <3>1
    <3>2. ASSUME NEW f \in {"wrong", "right"}, NEW n \in Minutes,
                 map' = [map EXCEPT !.fields = f, !.minutes = n]
          PROVE  /\ map' \in MapType /\ map'.pending = map.pending /\ map'.mode = map.mode
                 /\ map'.edge = map.edge
      BY <3>2 DEF MapType
    <3> QED
      BY <1>2, <3>1, <3>2 DEF DataArrives, Minutes
  <2> QED
    BY <1>2, <2>1, <2>2 DEF DataArrives
<1>3. CASE FetchFails
  BY <1>3 DEF FetchFails, SeenType
<1> QED
  BY <1>1, <1>2, <1>3

\* What holds when the page is opened.
LEMMA LocationInit == PageInit => LocationInv
<1> SUFFICES ASSUME PageInit PROVE LocationInv
  OBVIOUS
<1>1. seen \in SeenType /\ setting \in Draft
  BY DEF PageInit, SeenType, Draft
<1>2. map \in MapType /\ times \in TimesType
  BY DEF PageInit, NoMap, NoTimes, MapType, TimesType, Minutes
<1>3. busy \in [Mutations -> {"idle", "quiet", "closes"}]
  BY DEF PageInit
<1> QED
  BY <1>1, <1>2, <1>3 DEF LocationInv, PageTypeOK, PendingOnlyWhileAdding, PageInit, NoMap

\* Every step of the page keeps it.
LEMMA LocationNext == LocationInv /\ [PageNext]_pageVars => LocationInv'
<1> SUFFICES ASSUME LocationInv, [PageNext]_pageVars PROVE LocationInv'
  OBVIOUS
<1>1. CASE UNCHANGED pageVars
  BY <1>1 DEF pageVars, LocationInv, PageTypeOK, PendingOnlyWhileAdding
<1> QED
  BY <1>1, MapUsed, DialogsUsed, ListsUsed, LocationsAnswered DEF PageNext

\* The map, the lists and the requests of the locations page keep their types.
THEOREM LocationsTyped == PageSpec => []PageTypeOK
<1>1. LocationInv => PageTypeOK
  BY DEF LocationInv
<1> QED
  BY <1>1, LocationInit, LocationNext, PTL DEF PageSpec

\* A first marker is remembered only while a travel time is being added, and not while
\* the dialog of a pair is open, for any number of locations: every change of mode and
\* every opening of that dialog forgets it.
THEOREM MarkerRemembered == PageSpec => []PendingOnlyWhileAdding
<1>1. LocationInv => PendingOnlyWhileAdding
  BY DEF LocationInv
<1> QED
  BY <1>1, LocationInit, LocationNext, PTL DEF PageSpec

\* A click on the second marker opens the dialog for what is known at that moment.
LEMMA EdgeOpens ==
    LocationInv /\ [PageNext]_pageVars =>
        (map.edge # map'.edge /\ map'.edge # NoPair =>
           map'.edge \subseteq seen.known /\ map'.saved = (map'.edge \in seen.edges))
<1> SUFFICES ASSUME LocationInv, [PageNext]_pageVars, map.edge # map'.edge, map'.edge # NoPair
             PROVE  map'.edge \subseteq seen.known /\ map'.saved = (map'.edge \in seen.edges)
  OBVIOUS
<1> DEFINE Goal == map'.edge \subseteq seen.known /\ map'.saved = (map'.edge \in seen.edges)
<1>0. map \in MapType
  BY DEF LocationInv, PageTypeOK
<1>1. ASSUME NEW s \in Spots, MarkerClick(s) PROVE Goal
  <2>1. s \in seen.known
    BY <1>1 DEF MarkerClick, MarkerControls
  <2>2. CASE map.pending = Nobody
    BY <1>0, <1>1, <2>2 DEF MarkerClick, OnMap, MapType
  <2>3. CASE map.pending = s \/ map.pending \notin {Nobody} \cup seen.known
    BY <1>0, <1>1, <2>3, SpotAssumption DEF MarkerClick, OnMap, MapType
  <2>4. CASE map.pending \notin {Nobody, s} /\ map.pending \in seen.known
    <3> DEFINE p == Pair(map.pending, s)
    <3>1. map' = [OpenEdge(map, p, p \in seen.edges) EXCEPT !.pending = Nobody, !.mode = "view"]
      BY <1>1, <2>4, SpotAssumption DEF MarkerClick, OnMap
    <3>2. map'.edge = p /\ map'.saved = (p \in seen.edges)
      <4> HIDE DEF p
      <4>1. CASE p \in seen.edges
        BY <1>0, <3>1, <4>1 DEF OpenEdge, MapType
      <4>2. CASE p \notin seen.edges
        BY <1>0, <3>1, <4>2 DEF OpenEdge, MapType
      <4> QED
        BY <4>1, <4>2
    <3>3. p \subseteq seen.known
      BY <2>1, <2>4 DEF Pair
    <3> HIDE DEF p
    <3> QED
      BY <3>2, <3>3
  <2> QED
    BY <2>2, <2>3, <2>4
<1>2. ASSUME NEW p \in Joins, EdgeClick(p) PROVE Goal
  <2>1. p \in seen.edges /\ p \subseteq seen.known
    BY <1>2 DEF EdgeClick, LineControls, If
  <2>2. map'.edge = p /\ map'.saved = TRUE
    BY <1>0, <1>2 DEF EdgeClick, OpenEdge, OnMap, MapType
  <2> QED
    BY <2>1, <2>2
<1>3. CASE \/ \E mode \in {"add-location", "add-edge"} : SwitchMode(mode)
           \/ ShowInactive \/ MapClick
           \/ \E s \in Spots \cup {NewSpot} : OpenLocation(s)
           \/ \E fields \in {"wrong", "right"} : TypeLocation(fields)
           \/ CloseLocation \/ SubmitLocation
           \/ \E s \in Spots : ToggleActive(s) \/ TargetLocation(s)
           \/ \E yes \in BOOLEAN : DeleteLocation(yes)
           \/ \E m \in Minutes : TypeEdge(m)
           \/ CloseEdge \/ SaveEdge \/ DeleteEdge
  <2>1. map'.edge = map.edge \/ map'.edge = NoPair
    BY <1>0, <1>3 DEF SwitchMode, ShowInactive, MapClick, OpenLocation, TypeLocation,
       CloseLocation, SubmitLocation, ToggleActive, TargetLocation, DeleteLocation, TypeEdge,
       CloseEdge, SaveEdge, DeleteEdge, OnMap, MapType
  <2> QED
    BY <2>1
<1>4. CASE UNCHANGED pageVars
  BY <1>4 DEF pageVars
<1> QED
  BY <1>1, <1>2, <1>3, <1>4, ListsUsed, LocationsAnswered DEF PageNext

\* The dialog of a travel time opens for two locations that are known, and says
\* "new" exactly when they are not connected.
THEOREM PairsKnown == PageSpec => DialogKnowsItsPair
<1>1. LocationInv /\ [PageNext]_pageVars =>
        [map.edge # map'.edge /\ map'.edge # NoPair =>
           map'.edge \subseteq seen.known /\ map'.saved = (map'.edge \in seen.edges)]_pageVars
  BY EdgeOpens
<1> QED
  BY <1>1, LocationInit, LocationNext, PTL DEF PageSpec, DialogKnowsItsPair

-----------------------------------------------------------------------------
(* The pages about people.                                                  *)

\* What is shown or was read is what the server keeps, unless a switch was stored
\* whose answer will have it read again, or nobody told the page.
RoleSure(s) == ~s.doubt /\ \A q \in s.switches : ~q.applied

SessionFollowed ==
    /\ RoleSure(session) =>
          /\ session.me \in Role /\ session.fetch = "idle" => session.me = session.stored
          /\ session.fetch \in Role => session.fetch = session.stored
    /\ session.page = "login" => session.me = "loading" /\ session.fetch = "idle"

\* Nobody else is confirmed while a member is being removed.
RemovalConfirmed == roles.removing # None => roles.confirm \in {roles.removing, None}

\* The day that is shown, unless its list may have changed: a request was carried out
\* whose answer will have it read again, or nobody told the page.
DaySure(r, d) == d \notin r.doubt /\ \A q \in r.asks : q.applied => q.day # d

DayFollowed ==
    rides.here /\ DaySure(rides, rides.day) =>
        /\ rides.fetch[rides.day] = "idle" /\ ~rides.error[rides.day]
             => rides.data[rides.day] = rides.stored[rides.day]
        /\ rides.fetch[rides.day] \in Listed => rides.fetch[rides.day] = rides.stored[rides.day]

SessionInv == session \in SessionType /\ SessionFollowed
RolesInv == roles \in RolesType /\ RemovalConfirmed
RidesInv == rides \in RidesType /\ DayFollowed
PeopleInv == SessionInv /\ RolesInv /\ accounts \in AccountsType /\ RidesInv

-----------------------------------------------------------------------------
\* A page that was loaded again has no data yet.
LEMMA LoadedInv ==
    ASSUME SessionInv, NEW p \in {"app", "login"}, session' = Loaded(p)
    PROVE  SessionInv'
  BY DEF SessionInv, SessionFollowed, RoleSure, SessionType, Loaded, Role

\* A role that nobody asks for: it is in doubt, unless the server is still to read it.
LEMMA UnaskedInv ==
    ASSUME NEW s \in SessionType, s.page = "login" => s.me = "loading" /\ s.fetch = "idle",
           session' = Unasked(s)
    PROVE  SessionInv'
<1>1. CASE s.fetch = "asked"
  BY <1>1 DEF Unasked, SessionInv, SessionFollowed, SessionType, Role
<1>2. CASE s.fetch # "asked"
  BY <1>2 DEF Unasked, SessionInv, SessionFollowed, RoleSure, SessionType
<1> QED
  BY <1>1, <1>2

\* Asking for "me" on the page, whatever the server may have stored.
LEMMA AskMeInv ==
    ASSUME NEW s \in SessionType, s.page = "app", session' = AskMe(s)
    PROVE  SessionInv'
<1>1. CASE s.fetch = "idle" \/ s.me \in Role \cup {"broken later"}
  BY <1>1 DEF AskMe, SessionInv, SessionFollowed, SessionType, Role
<1>2. CASE ~(s.fetch = "idle" \/ s.me \in Role \cup {"broken later"})
  BY <1>2, UnaskedInv DEF AskMe
<1> QED
  BY <1>1, <1>2

\* A step that leaves the query alone, and every switch that was stored.
LEMMA SessionSame ==
    ASSUME SessionInv, session' \in SessionType, RoleSure(session') => RoleSure(session),
           session'.page = session.page, session'.me = session.me,
           session'.fetch = session.fetch, session'.stored = session.stored
    PROVE  SessionInv'
  BY DEF SessionInv, SessionFollowed

\* The requests of a switcher that is gone go on.
LEMMA SwitcherGone ==
    ASSUME SessionInv
    PROVE  LET s == NoSwitcher(session)
           IN /\ s \in SessionType /\ s.page = session.page /\ s.me = session.me
              /\ s.fetch = session.fetch /\ s.stored = session.stored
              /\ RoleSure(s) => RoleSure(session)
<1>1. PICK gone : gone = {[q EXCEPT !.mine = FALSE] : q \in session.switches}
  OBVIOUS
<1>2. session \in SessionType /\ NoSwitcher(session) = [session EXCEPT !.switches = gone]
  BY <1>1 DEF SessionInv, NoSwitcher
<1>3. gone \subseteq RoleRequest
  <2>1. session.switches \subseteq RoleRequest
    BY <1>2 DEF SessionType
  <2>2. \A q \in RoleRequest : [q EXCEPT !.mine = FALSE] \in RoleRequest
    BY DEF RoleRequest
  <2> QED
    BY <1>1, <2>1, <2>2
<1>4. PICK s : s = [session EXCEPT !.switches = gone]
  OBVIOUS
<1>5. /\ s \in SessionType /\ s.page = session.page /\ s.me = session.me
      /\ s.fetch = session.fetch /\ s.stored = session.stored
      /\ s.switches = gone /\ s.doubt = session.doubt
  BY <1>2, <1>3, <1>4 DEF SessionType
<1>6. ASSUME NEW q \in session.switches, q.applied
      PROVE  \E p \in gone : p.applied
  <2>1. [q EXCEPT !.mine = FALSE] \in gone
    BY <1>1
  <2>2. [q EXCEPT !.mine = FALSE].applied
    BY <1>2, <1>6 DEF SessionType, RoleRequest
  <2> QED
    BY <2>1, <2>2
<1>7. RoleSure(s) => RoleSure(session)
  BY <1>5, <1>6 DEF RoleSure
<1> QED
  BY <1>2, <1>4, <1>5, <1>7

\* A request of the switcher that is over.
LEMMA SwitchGone ==
    ASSUME SessionInv, NEW q, NEW s, s = [session EXCEPT !.switches = @ \ {q}]
    PROVE  /\ s \in SessionType /\ s.page = session.page
           /\ s.page = "login" => s.me = "loading" /\ s.fetch = "idle"
  BY DEF SessionInv, SessionFollowed, SessionType

\* What happens to the session: logins, refetches, switches of the role.
LEMMA SessionKept == ASSUME SessionInv, SessionNext PROVE SessionInv'
<1> USE DEF SessionInv, SessionFollowed
<1>0. session \in SessionType
  OBVIOUS
<1>1. CASE MeRead
  BY <1>1 DEF MeRead, InSession, SessionType, Role, RoleSure
<1>2. CASE MeAnswers
  BY <1>2 DEF MeAnswers, InSession, SessionType, Role, RoleSure
<1>3. CASE FocusMe
  BY <1>3, AskMeInv DEF FocusMe, InSession
<1>4. ASSUME NEW b \in BOOLEAN, MeFails(b) PROVE SessionInv'
  <2>1. PICK s : s = NoSwitcher(session)
    OBVIOUS
  <2>0. s \in SessionType
    BY <2>1, SwitcherGone
  <2> DEFINE new(me, p) == [s EXCEPT !.fetch = "idle", !.me = me, !.page = p,
                                      !.password = FALSE, !.error = FALSE]
  <2>2. CASE b
    <3>1. session' = new("loading", "login")
      BY <1>4, <2>1, <2>2 DEF MeFails, InSession
    <3> QED
      BY <2>0, <3>1 DEF SessionType, Role
  <2>6. session.page = "app" /\ s.me = session.me
    BY <1>4, <2>1, SwitcherGone DEF MeFails
  <2>3. CASE ~b /\ session.me \in {"loading", "broken"}
    <3>1. session' = new("broken", "app")
      BY <1>4, <2>1, <2>3, <2>6 DEF MeFails, InSession
    <3> QED
      BY <2>0, <3>1 DEF SessionType, Role
  <2>4. CASE ~b /\ session.me \notin {"loading", "broken"}
    <3>1. session' = new("broken later", "app")
      BY <1>4, <2>1, <2>4, <2>6 DEF MeFails, InSession
    <3> QED
      BY <2>0, <3>1 DEF SessionType, Role
  <2> QED
    BY <2>2, <2>3, <2>4
<1>5. ASSUME NEW b \in BOOLEAN, TypePassword(b) PROVE SessionInv'
  BY <1>5, SessionSame DEF TypePassword, InSession, SessionType, RoleSure
<1>6. ASSUME NEW b \in BOOLEAN, SignInAnswers(b) PROVE SessionInv'
  <2>1. CASE b
    BY <1>6, <2>1, LoadedInv DEF SignInAnswers, InSession
  <2>2. CASE ~b
    BY <1>6, <2>2, SessionSame DEF SignInAnswers, InSession, SessionType, RoleSure
  <2> QED
    BY <2>1, <2>2
<1>7. ASSUME NEW r \in Role, SwitchRole(r) PROVE SessionInv'
  <2>1. PICK q : q = [to |-> r, applied |-> FALSE, mine |-> TRUE]
    OBVIOUS
  <2>2. q \in RoleRequest /\ ~q.applied
    BY <2>1 DEF RoleRequest
  <2>3. session' = [session EXCEPT !.switches = @ \cup {q}]
    BY <1>7, <2>1 DEF SwitchRole, InSession
  <2> QED
    BY <2>2, <2>3, SessionSame DEF SessionType, RoleSure
<1>8. ASSUME NEW q \in session.switches, RoleSwitched(q) PROVE SessionInv'
  <2>1. PICK s : s = [session EXCEPT !.switches = @ \ {q}]
    OBVIOUS
  <2>2. session' = IF session.page = "app" THEN AskMe(s) ELSE s
    BY <1>8, <2>1 DEF RoleSwitched, InSession
  <2>3. s \in SessionType /\ s.page = session.page
        /\ (s.page = "login" => s.me = "loading" /\ s.fetch = "idle")
    BY <2>1, SwitchGone
  <2>4. CASE session.page = "app"
    BY <2>2, <2>3, <2>4, AskMeInv
  <2>5. CASE session.page # "app"
    <3>1. session.page = "login"
      BY <2>5 DEF SessionType
    <3> QED
      BY <2>2, <2>3, <2>5, <3>1 DEF Role
  <2> QED
    BY <2>4, <2>5
<1>9. ASSUME NEW q \in session.switches, RoleNotSwitched(q) PROVE SessionInv'
  <2>1. PICK s : s = [session EXCEPT !.switches = @ \ {q}]
    OBVIOUS
  <2>2. session' = Unasked(s)
    BY <1>9, <2>1 DEF RoleNotSwitched, InSession
  <2> QED
    BY <2>1, <2>2, SwitchGone, UnaskedInv
<1>13. ASSUME NEW q \in session.switches, SwitchApplied(q) PROVE SessionInv'
  <2>1. PICK p : p = [q EXCEPT !.applied = TRUE]
    OBVIOUS
  <2>2. p \in RoleRequest /\ p.applied /\ q.to \in Role
    BY <2>1 DEF SessionType, RoleRequest
  <2>3. session' = [session EXCEPT !.switches = (@ \ {q}) \cup {p}, !.stored = q.to]
    BY <1>13, <2>1 DEF SwitchApplied, InSession
  <2>4. session' \in SessionType /\ p \in session'.switches
        /\ session'.page = session.page /\ session'.me = session.me
        /\ session'.fetch = session.fetch
    BY <2>2, <2>3 DEF SessionType
  <2>5. ~RoleSure(session')
    BY <2>2, <2>4 DEF RoleSure
  <2> QED
    BY <2>4, <2>5
<1>14. ASSUME NEW r \in Role, OthersChangeRole(r) PROVE SessionInv'
  <2>1. PICK s : s = [session EXCEPT !.stored = r]
    OBVIOUS
  <2>2. /\ s \in SessionType
        /\ s.page = "login" => s.me = "loading" /\ s.fetch = "idle"
    BY <2>1 DEF SessionType
  <2>3. session' = Unasked(s)
    BY <1>14, <2>1 DEF OthersChangeRole, InSession
  <2> QED
    BY <2>2, <2>3, UnaskedInv
<1>15. CASE Revisit
  <2>1. PICK s : s = NoSwitcher(session)
    OBVIOUS
  <2>2. session' = (IF s.fetch = "idle" THEN AskMe(s) ELSE s) /\ session.page = "app"
    BY <1>15, <2>1 DEF Revisit, InSession
  <2>3. /\ s \in SessionType /\ s.page = session.page /\ s.me = session.me
        /\ s.fetch = session.fetch /\ s.stored = session.stored
        /\ RoleSure(s) => RoleSure(session)
    BY <2>1, SwitcherGone
  <2>4. CASE s.fetch = "idle"
    BY <2>2, <2>3, <2>4, AskMeInv
  <2>5. CASE s.fetch # "idle"
    BY <2>2, <2>3, <2>5, SessionSame
  <2> QED
    BY <2>4, <2>5
<1>10. CASE ReloadApp \/ Logout \/ LogInWithDiscord
  BY <1>10, LoadedInv DEF ReloadApp, Logout, LogInWithDiscord, InSession
<1>11. CASE BypassConfig
  BY <1>11, SessionSame DEF BypassConfig, InSession, SessionType, RoleSure
<1>12. CASE SignIn
  BY <1>12, SessionSame DEF SignIn, InSession, SessionType, RoleSure
<1> QED
  BY <1>1, <1>2, <1>3, <1>4, <1>5, <1>6, <1>7, <1>8, <1>9, <1>10, <1>11, <1>12,
     <1>13, <1>14, <1>15 DEF SessionNext

-----------------------------------------------------------------------------
\* A step of the panel that leaves the removal alone.
LEMMA RolesSame ==
    ASSUME RolesInv, roles' \in RolesType,
           roles'.removing = roles.removing, roles'.confirm = roles.confirm
    PROVE  RolesInv'
  BY DEF RolesInv, RemovalConfirmed

\* The member who is chosen.
LEMMA SelectTyped ==
    ASSUME RolesInv
    PROVE  LET r == SelectMember(roles)
           IN r \in RolesType /\ r.removing = roles.removing /\ r.confirm = roles.confirm
<1>0. roles \in RolesType
  BY DEF RolesInv
<1>1. PICK b : b \in BOOLEAN /\ b = (roles.timer \/ roles.text # "john")
  <2>1. CASE roles.timer \/ roles.text # "john"
    <3>1. TRUE \in BOOLEAN /\ TRUE = (roles.timer \/ roles.text # "john")
      BY <2>1
    <3> QED
      BY <3>1, Zenon
  <2>2. CASE ~(roles.timer \/ roles.text # "john")
    <3>1. FALSE \in BOOLEAN /\ FALSE = (roles.timer \/ roles.text # "john")
      BY <2>2
    <3> QED
      BY <3>1, Zenon
  <2> QED
    BY <2>1, <2>2
<1>2. PICK n \in 0..MaxHits : n = IF roles.debounced = "john" THEN roles.hits ELSE 0
  BY <1>0, PeopleAssumption DEF RolesType
<1>z. PICK z \in 0..MaxHits : z = 0
  BY PeopleAssumption
<1> DEFINE r == [roles EXCEPT !.text = "john", !.debounced = "john", !.timer = b,
                              !.hits = n, !.shown = FALSE, !.highlight = z]
<1>3. SelectMember(roles) = r
  BY <1>1, <1>2, <1>z, Zenon DEF SelectMember
<1>4. r \in RolesType /\ r.removing = roles.removing /\ r.confirm = roles.confirm
  <2>1. "john" \in SearchText
    BY DEF SearchText
  <2> QED
    BY <1>0, <1>1, <2>1 DEF RolesType
<1> QED
  BY <1>3, <1>4, Zenon

\* The results of a search replace those of the one before.
LEMMA Searched ==
    ASSUME RolesInv,
           \/ \E t \in SearchText : TypeSearch(t)
           \/ \E n \in 0..MaxHits : Debounce(n) \/ HitsArrive(n) \/ PointAt(n)
           \/ \E key \in {"down", "up", "enter", "escape"} : SearchKey(key)
           \/ PickMember \/ FocusSearch \/ ClickOutside \/ AddMember \/ MemberAdded \/ MemberNotAdded
    PROVE  RolesInv'
<1>0. roles \in RolesType
  BY DEF RolesInv
<1>a. MaxHits \in Nat
  BY PeopleAssumption
<1>z. PICK z \in 0..MaxHits : z = 0
  BY <1>a
<1>1. ASSUME NEW t \in SearchText, TypeSearch(t) PROVE RolesInv'
  <2>1. roles' = [roles EXCEPT !.text = t, !.timer = TRUE, !.shown = TRUE, !.highlight = z]
    BY <1>1, <1>z, Zenon DEF TypeSearch, InRoles
  <2> QED
    BY <1>0, <2>1, RolesSame DEF RolesType
<1>2. ASSUME NEW n \in 0..MaxHits, Debounce(n) PROVE RolesInv'
  <2>1. PICK h \in 0..MaxHits :
           roles' = [roles EXCEPT !.timer = FALSE, !.debounced = roles.text, !.hits = h]
    <3>1. CASE roles.text = roles.debounced
      BY <1>0, <1>2, <3>1 DEF Debounce, InRoles, RolesType
    <3>2. CASE roles.text # roles.debounced /\ roles.text \in Long
      BY <1>2, <3>2 DEF Debounce, InRoles
    <3>3. CASE roles.text # roles.debounced /\ roles.text \notin Long
      <4>1. roles' = [roles EXCEPT !.timer = FALSE, !.debounced = roles.text, !.hits = 0]
        BY <1>2, <3>3 DEF Debounce, InRoles
      <4>2. 0 \in 0..MaxHits
        BY <1>a
      <4> QED
        BY <4>1, <4>2, Zenon
    <3> QED
      BY <3>1, <3>2, <3>3
  <2> QED
    BY <1>0, <2>1, RolesSame DEF RolesType
<1>3. ASSUME NEW n \in 0..MaxHits, HitsArrive(n) PROVE RolesInv'
  BY <1>0, <1>3, RolesSame DEF HitsArrive, InRoles, RolesType
<1>4. ASSUME NEW n \in 0..MaxHits, PointAt(n) PROVE RolesInv'
  BY <1>0, <1>4, RolesSame DEF PointAt, InRoles, RolesType
<1>5. ASSUME NEW key \in {"down", "up", "enter", "escape"}, SearchKey(key) PROVE RolesInv'
  <2>0. roles.hits \in Nat /\ roles.hits > 0 /\ roles.hits <= MaxHits /\ roles.highlight \in 0..MaxHits
    BY <1>0, <1>5, <1>a DEF SearchKey, Dropdown, RolesType
  <2>1. ASSUME NEW h \in 0..MaxHits, roles' = [roles EXCEPT !.highlight = h] PROVE RolesInv'
    BY <1>0, <2>1, RolesSame DEF RolesType
  <2>2. CASE key = "down"
    <3> DEFINE h == (roles.highlight % roles.hits) + 1
    <3>1. h \in 0..MaxHits
      BY <2>0, <1>a
    <3>2. roles' = [roles EXCEPT !.highlight = h]
      BY <1>5, <2>2 DEF SearchKey, InRoles
    <3> HIDE DEF h
    <3> QED
      BY <2>1, <3>1, <3>2
  <2>3. CASE key = "up"
    <3> DEFINE h == IF roles.highlight <= 1 THEN roles.hits ELSE roles.highlight - 1
    <3>1. h \in 0..MaxHits
      BY <2>0, <1>a
    <3>2. roles' = [roles EXCEPT !.highlight = h]
      BY <1>5, <2>3 DEF SearchKey, InRoles
    <3> HIDE DEF h
    <3> QED
      BY <2>1, <3>1, <3>2
  <2>4. CASE key = "enter"
    BY <1>0, <1>5, <2>4, RolesSame, SelectTyped DEF SearchKey, InRoles
  <2>5. CASE key = "escape"
    <3>1. roles' = [roles EXCEPT !.shown = FALSE, !.highlight = 0]
      BY <1>5, <2>5 DEF SearchKey, InRoles
    <3>2. roles' = [roles EXCEPT !.shown = FALSE, !.highlight = z]
      BY <1>z, <3>1, Zenon
    <3> QED
      BY <1>0, <3>2, RolesSame DEF RolesType
  <2> QED
    BY <2>2, <2>3, <2>4, <2>5
<1>6. CASE PickMember
  BY <1>6, RolesSame, SelectTyped DEF PickMember, InRoles
<1>7. CASE FocusSearch
  BY <1>0, <1>7, RolesSame DEF FocusSearch, InRoles, RolesType
<1>8. CASE ClickOutside
  BY <1>0, <1>8, RolesSame DEF ClickOutside, InRoles, RolesType
<1>9. CASE AddMember
  BY <1>0, <1>9, RolesSame DEF AddMember, InRoles, RolesType
<1>10. CASE MemberAdded
  <2>1. PICK b : b \in BOOLEAN /\ b = (roles.timer \/ roles.text # "")
    <3>1. CASE roles.timer \/ roles.text # ""
      <4>1. TRUE \in BOOLEAN /\ TRUE = (roles.timer \/ roles.text # "")
        BY <3>1
      <4> QED
        BY <4>1, Zenon
    <3>2. CASE ~(roles.timer \/ roles.text # "")
      <4>1. FALSE \in BOOLEAN /\ FALSE = (roles.timer \/ roles.text # "")
        BY <3>2
      <4> QED
        BY <4>1, Zenon
    <3> QED
      BY <3>1, <3>2
  <2>2. roles' = [roles EXCEPT !.adding = FALSE, !.text = "", !.debounced = "", !.shown = FALSE,
                               !.timer = b, !.hits = z]
    BY <1>10, <1>z, <2>1, Zenon DEF MemberAdded, InRoles
  <2>3. "" \in SearchText
    BY DEF SearchText
  <2> QED
    BY <1>0, <2>1, <2>2, <2>3, RolesSame DEF RolesType
<1>11. CASE MemberNotAdded
  BY <1>0, <1>11, RolesSame DEF MemberNotAdded, InRoles, RolesType
<1> QED
  BY <1>1, <1>2, <1>3, <1>4, <1>5, <1>6, <1>7, <1>8, <1>9, <1>10, <1>11

\* The panel of a role keeps its type.
LEMMA PanelTyped == \A manage \in BOOLEAN : NewPanel(manage) \in RolesType
  BY PeopleAssumption DEF NewPanel, RolesType, SearchText

\* The panel of a role closes a confirmation only for its member.
LEMMA PanelConfirms == \A manage : NewPanel(manage).confirm = None
  BY DEF NewPanel

\* The end of a removal closes the confirmation of that member.
LEMMA Removed ==
    ASSUME RolesInv,
           \/ \E m \in Members : AskRemove(m) \/ CancelRemove(m) \/ RemoveMember(m)
           \/ \E ok \in BOOLEAN : MemberRemoved(ok)
           \/ \E listed \in SUBSET Members : MembersArrive(listed)
           \/ ChangeTab
    PROVE  RolesInv'
<1> USE DEF RolesInv, RemovalConfirmed
<1>1. ASSUME NEW m \in Members, AskRemove(m) PROVE RolesInv'
  <2>1. roles.removing = None
    BY <1>1 DEF AskRemove, RemoveControls, If
  <2> QED
    BY <1>1, <2>1 DEF AskRemove, InRoles, RolesType
<1>2. ASSUME NEW m \in Members, CancelRemove(m) PROVE RolesInv'
  BY <1>2 DEF CancelRemove, InRoles, RolesType
<1>3. ASSUME NEW m \in Members, RemoveMember(m) PROVE RolesInv'
  <2>1. roles.confirm = m
    BY <1>3 DEF RemoveMember, RemoveControls, If
  <2> QED
    BY <1>3, <2>1 DEF RemoveMember, InRoles, RolesType
<1>4. ASSUME NEW ok \in BOOLEAN, MemberRemoved(ok) PROVE RolesInv'
  BY <1>4 DEF MemberRemoved, InRoles, RolesType
<1>5. ASSUME NEW listed \in SUBSET Members, MembersArrive(listed) PROVE RolesInv'
  BY <1>5 DEF MembersArrive, InRoles, RolesType
<1>6. CASE ChangeTab
  <2>1. roles' = NewPanel(roles.manage) /\ roles.manage \in BOOLEAN
    BY <1>6 DEF ChangeTab, InRoles, RolesType
  <2>2. roles' \in RolesType
    BY <2>1, PanelTyped, Zenon
  <2> QED
    BY <2>1, <2>2 DEF NewPanel
<1> QED
  BY <1>1, <1>2, <1>3, <1>4, <1>5, <1>6

-----------------------------------------------------------------------------
AccountKinds == {"absent", "no email", "protected", "email"}

\* A changed role may be the caller's own: of the session, "me" is asked again.
LEMMA AccountsKept ==
    ASSUME PeopleInv, AccountsNext
    PROVE  accounts' \in AccountsType /\ SessionInv' /\ roles' = roles /\ rides' = rides
<1>0. accounts \in AccountsType /\ session \in SessionType /\ SessionFollowed
  BY DEF PeopleInv, SessionInv
<1>1. ASSUME NEW b \in BOOLEAN, RoleChanged(b)
      PROVE  accounts' \in AccountsType /\ SessionInv' /\ roles' = roles /\ rides' = rides
  <2>1. accounts' \in AccountsType /\ roles' = roles /\ rides' = rides
    BY <1>0, <1>1 DEF RoleChanged, AccountsType
  <2>2. PICK r \in Role :
           LET s == [session EXCEPT !.stored = r]
           IN session' = IF b /\ session.page = "app" THEN AskMe(s) ELSE Unasked(s)
    BY <1>1 DEF RoleChanged
  <2>3. PICK s : s = [session EXCEPT !.stored = r]
    OBVIOUS
  <2>4. /\ s \in SessionType /\ s.page = session.page
        /\ s.page = "login" => s.me = "loading" /\ s.fetch = "idle"
    BY <1>0, <2>3 DEF SessionType, SessionFollowed
  <2>5. CASE b /\ session.page = "app"
    BY <2>1, <2>2, <2>3, <2>4, <2>5, AskMeInv
  <2>6. CASE ~(b /\ session.page = "app")
    BY <2>1, <2>2, <2>3, <2>4, <2>6, UnaskedInv
  <2> QED
    BY <2>5, <2>6
<1>2. ASSUME NEW new \in AccountsType, InAccounts(new)
      PROVE  accounts' \in AccountsType /\ SessionInv' /\ roles' = roles /\ rides' = rides
  BY <1>0, <1>2 DEF InAccounts, SessionInv, SessionFollowed
<1> DEFINE Typed(new) == new \in AccountsType
<1>3. ASSUME NEW a \in Accounts, ToggleEmail(a) \/ ChangeRole(a) \/ AskRevoke(a)
      PROVE  accounts' \in AccountsType /\ SessionInv' /\ roles' = roles /\ rides' = rides
  BY <1>0, <1>2, <1>3 DEF ToggleEmail, ChangeRole, AskRevoke, AccountsType
<1>4. ASSUME NEW filled \in BOOLEAN, NEW role \in {"viewer", "other"}, TypeInvitation(filled, role)
      PROVE  accounts' \in AccountsType /\ SessionInv' /\ roles' = roles /\ rides' = rides
  BY <1>0, <1>2, <1>4 DEF TypeInvitation, AccountsType
<1>5. CASE Invite \/ Revoked
  BY <1>0, <1>2, <1>5 DEF Invite, Revoked, AccountsType
<1>6. ASSUME NEW b \in BOOLEAN, Invited(b) \/ ConfirmRevoke(b)
      PROVE  accounts' \in AccountsType /\ SessionInv' /\ roles' = roles /\ rides' = rides
  <2>1. CASE b
    BY <1>0, <1>2, <1>6, <2>1 DEF Invited, ConfirmRevoke, AccountsType
  <2>2. CASE ~b
    BY <1>0, <1>2, <1>6, <2>2 DEF Invited, ConfirmRevoke, AccountsType
  <2> QED
    BY <2>1, <2>2
<1>7. ASSUME NEW kind \in [Accounts -> AccountKinds], AccountsArrive(kind)
      PROVE  accounts' \in AccountsType /\ SessionInv' /\ roles' = roles /\ rides' = rides
  BY <1>0, <1>2, <1>7 DEF AccountsArrive, AccountsType, AccountKinds
<1> QED
  BY <1>1, <1>3, <1>4, <1>5, <1>6, <1>7 DEF AccountsNext, AccountKinds

-----------------------------------------------------------------------------
\* A day that nobody asks for: it is in doubt, unless the server is still to read it.
LEMMA UnheardTyped ==
    ASSUME NEW r \in RidesType, NEW d \in Day
    PROVE  LET u == Unheard(r, d)
           IN /\ u \in RidesType /\ u.day = r.day /\ u.here = r.here /\ u.asks = r.asks
              /\ u.fetch = r.fetch /\ u.error = r.error /\ u.data = r.data /\ u.stored = r.stored
              /\ r.doubt \subseteq u.doubt
              /\ d \in u.doubt \/ u.fetch[d] = "asked"
<1>1. CASE r.fetch[d] = "asked"
  BY <1>1 DEF Unheard
<1>2. CASE r.fetch[d] # "asked"
  BY <1>2 DEF Unheard, RidesType
<1> QED
  BY <1>1, <1>2

\* Nothing is claimed of a day that is in doubt, or that the server is still to read.
LEMMA InDoubt ==
    ASSUME NEW r \in RidesType, r.day \in r.doubt \/ r.fetch[r.day] = "asked", rides' = r
    PROVE  RidesInv'
  BY DEF RidesInv, DayFollowed, DaySure, Listed

\* The day that is shown is asked for again.
LEMMA AskDayInv ==
    ASSUME NEW r \in RidesType, rides' = AskAnew(r, r.day) PROVE RidesInv'
  BY DEF AskAnew, RidesInv, DayFollowed, RidesType, Listed

\* The day that is shown is left in doubt.
LEMMA UnheardInv ==
    ASSUME NEW r \in RidesType, rides' = Unheard(r, r.day) PROVE RidesInv'
<1>1. PICK u : u = Unheard(r, r.day)
  OBVIOUS
<1>2. u \in RidesType /\ u.day = r.day /\ (r.day \in u.doubt \/ u.fetch[r.day] = "asked")
  BY <1>1, UnheardTyped DEF RidesType
<1> QED
  BY <1>1, <1>2, InDoubt

\* A list that is asked for anew, or joins the fetch on its way.
LEMMA InvalidateInv ==
    ASSUME NEW r \in RidesType, rides' = InvalidateDay(r) PROVE RidesInv'
<1>1. CASE ~r.here
  BY <1>1 DEF InvalidateDay, RidesInv, DayFollowed
<1>2. CASE r.here
  BY <1>2, AskDayInv, UnheardInv DEF InvalidateDay
<1> QED
  BY <1>1, <1>2

\* A step that leaves alone what the page shows and what is stored.
LEMMA RidesSame ==
    ASSUME RidesInv, rides' \in RidesType,
           DaySure(rides', rides.day) => DaySure(rides, rides.day),
           rides'.here => rides.here, rides'.day = rides.day,
           rides'.fetch = rides.fetch, rides'.error = rides.error,
           rides'.data = rides.data, rides'.stored = rides.stored
    PROVE  RidesInv'
  BY DEF RidesInv, DayFollowed

\* A change of a day that the page is not told of.
LEMMA RidesChanged ==
    ASSUME RidesInv, NEW d \in Day, NEW l \in Listed, NEW asks \in SUBSET RideRequest,
           \A q \in rides.asks : q.applied /\ q.day # d => q \in asks,
           rides' = Unheard([rides EXCEPT !.asks = asks, !.stored[d] = l], d)
    PROVE  RidesInv'
<1>0. rides \in RidesType
  BY DEF RidesInv
<1>1. PICK r : r = [rides EXCEPT !.asks = asks, !.stored[d] = l]
  OBVIOUS
<1>2. r \in RidesType
  BY <1>0, <1>1 DEF RidesType
<1>3. /\ r.day = rides.day /\ r.here = rides.here /\ r.asks = asks /\ r.doubt = rides.doubt
      /\ r.fetch = rides.fetch /\ r.error = rides.error /\ r.data = rides.data
      /\ \A e \in Day \ {d} : r.stored[e] = rides.stored[e]
  BY <1>0, <1>1 DEF RidesType
<1>4. PICK u : u = Unheard(r, d)
  OBVIOUS
<1>5. /\ u \in RidesType /\ u.day = r.day /\ u.here = r.here /\ u.asks = r.asks
      /\ u.fetch = r.fetch /\ u.error = r.error /\ u.data = r.data /\ u.stored = r.stored
      /\ r.doubt \subseteq u.doubt
      /\ d \in u.doubt \/ u.fetch[d] = "asked"
  BY <1>2, <1>4, UnheardTyped
<1>6. rides' = u
  BY <1>1, <1>4
<1>7. CASE d = rides.day
  BY <1>3, <1>5, <1>6, <1>7, InDoubt
<1>8. CASE d # rides.day
  <2>1. rides.day \in Day \ {d}
    BY <1>0, <1>8 DEF RidesType
  <2>2. u.stored[u.day] = rides.stored[rides.day]
    BY <1>3, <1>5, <2>1
  <2>3. DaySure(u, u.day) => DaySure(rides, rides.day)
    BY <1>3, <1>5, <1>8 DEF DaySure
  <2> QED
    BY <1>3, <1>5, <1>6, <2>2, <2>3 DEF RidesInv, DayFollowed
<1> QED
  BY <1>7, <1>8

\* The same, when a request is over.
LEMMA RequestGone ==
    ASSUME RidesInv, NEW q \in rides.asks,
           rides' = Unheard([rides EXCEPT !.asks = @ \ {q}], q.day)
    PROVE  RidesInv'
<1>1. rides \in RidesType /\ q.day \in Day
  BY DEF RidesInv, RidesType, RideRequest
<1>2. PICK asks \in SUBSET RideRequest : asks = rides.asks \ {q}
  BY <1>1 DEF RidesType
<1>3. [rides EXCEPT !.asks = @ \ {q}]
        = [rides EXCEPT !.asks = asks, !.stored[q.day] = rides.stored[q.day]]
  BY <1>1, <1>2 DEF RidesType
<1>4. rides.stored[q.day] \in Listed
  BY <1>1 DEF RidesType
<1> QED
  BY <1>1, <1>2, <1>3, <1>4, RidesChanged

\* A request that the widget sends, which is one of those on their way.
LEMMA RideSent ==
    ASSUME RidesInv, NEW what \in {"add", "remove"}, NEW d \in Day, SendRide(what, d)
    PROVE  RidesInv'
<1>1. PICK q : q = [what |-> what, day |-> d, applied |-> FALSE, mine |-> TRUE]
  OBVIOUS
<1>2. q \in RideRequest
  BY <1>1 DEF RideRequest
<1>3. rides \in RidesType /\ rides' = [rides EXCEPT !.asks = @ \cup {q}]
  BY <1>1 DEF SendRide, InRides, RidesInv
<1>4. /\ rides' \in RidesType /\ rides'.asks = rides.asks \cup {q}
      /\ rides'.doubt = rides.doubt /\ rides'.here = rides.here /\ rides'.day = rides.day
      /\ rides'.fetch = rides.fetch /\ rides'.error = rides.error
      /\ rides'.data = rides.data /\ rides'.stored = rides.stored
  BY <1>2, <1>3 DEF RidesType
<1>5. DaySure(rides', rides.day) => DaySure(rides, rides.day)
  BY <1>4 DEF DaySure
<1> QED
  BY <1>4, <1>5, RidesSame

\* What happens to the lists of riders.
LEMMA RidesKept == ASSUME RidesInv, RidesNext PROVE RidesInv'
<1>0. rides \in RidesType
  BY DEF RidesInv
<1>1. ASSUME NEW d \in Day, ChangeDay(d) PROVE RidesInv'
  <2>1. PICK r : r = [rides EXCEPT !.day = d]
    OBVIOUS
  <2>2. r \in RidesType /\ r.day = d
    BY <1>0, <2>1 DEF RidesType
  <2>3. CASE d = rides.day
    <3>1. rides' = rides
      BY <1>0, <1>1, <2>3 DEF ChangeDay, InRides, RidesType
    <3> QED
      BY <3>1, <1>0, RidesSame
  <2>4. CASE d # rides.day
    <3>1. rides' = AskOnMount(r, d)
      BY <1>1, <2>1, <2>4 DEF ChangeDay, InRides
    <3> QED
      BY <2>2, <3>1, AskDayInv, UnheardInv DEF AskOnMount
  <2> QED
    BY <2>3, <2>4
<1>2. ASSUME NEW q \in rides.asks, RideApplied(q) PROVE RidesInv'
  <2>1. PICK p : p = [q EXCEPT !.applied = TRUE]
    OBVIOUS
  <2>2. q \in RideRequest /\ p \in RideRequest /\ p.applied /\ p.day = q.day
    BY <1>0, <2>1 DEF RidesType, RideRequest
  <2>3. PICK l \in Listed : l = IF q.what = "add" THEN "yes" ELSE "no"
    BY DEF Listed
  <2>4. rides' = [rides EXCEPT !.asks = (@ \ {q}) \cup {p}, !.stored[q.day] = l]
    BY <1>2, <2>1, <2>3 DEF RideApplied, InRides
  <2>5. q.day \in Day /\ ~q.applied
    BY <1>2, <2>2 DEF RideApplied, RideRequest
  <2>6. /\ rides' \in RidesType /\ rides'.asks = (rides.asks \ {q}) \cup {p}
        /\ rides'.doubt = rides.doubt /\ rides'.here = rides.here /\ rides'.day = rides.day
        /\ rides'.fetch = rides.fetch /\ rides'.error = rides.error
        /\ rides'.data = rides.data
        /\ \A e \in Day \ {q.day} : rides'.stored[e] = rides.stored[e]
    BY <1>0, <2>2, <2>4, <2>5 DEF RidesType
  <2>7. CASE q.day = rides.day
    BY <2>2, <2>6, <2>7 DEF RidesInv, DayFollowed, DaySure
  <2>8. CASE q.day # rides.day
    <3>1. rides'.stored[rides.day] = rides.stored[rides.day]
      BY <1>0, <2>6, <2>8 DEF RidesType
    <3>2. DaySure(rides', rides.day) => DaySure(rides, rides.day)
      BY <2>5, <2>6 DEF DaySure
    <3> QED
      BY <2>6, <3>1, <3>2 DEF RidesInv, DayFollowed
  <2> QED
    BY <2>7, <2>8
<1>3. ASSUME NEW q \in rides.asks, RideAnswers(q) PROVE RidesInv'
  <2>1. PICK r : r = [rides EXCEPT !.asks = @ \ {q},
                                    !.form = IF q.what = "add" THEN "wanting" ELSE @,
                                    !.target = IF q.what = "remove" THEN None ELSE @]
    OBVIOUS
  <2>2. rides' = InvalidateDay(r) \/ (rides' = r /\ q.day # rides.day)
    BY <1>3, <2>1 DEF RideAnswers, InRides
  <2>3. /\ r \in RidesType /\ r.asks = rides.asks \ {q}
        /\ r.doubt = rides.doubt /\ r.here = rides.here /\ r.day = rides.day
        /\ r.fetch = rides.fetch /\ r.error = rides.error
        /\ r.data = rides.data /\ r.stored = rides.stored
    BY <1>0, <2>1 DEF RidesType, RiderForm
  <2>4. CASE rides' = InvalidateDay(r)
    BY <2>3, <2>4, InvalidateInv
  <2>5. CASE rides' = r /\ q.day # rides.day
    <3>1. DaySure(r, rides.day) => DaySure(rides, rides.day)
      BY <2>3, <2>5 DEF DaySure
    <3> QED
      BY <2>3, <2>5, <3>1, RidesSame
  <2> QED
    BY <2>2, <2>4, <2>5
<1>4. ASSUME NEW q \in rides.asks, LateRideAnswers(q) PROVE RidesInv'
  <2>1. PICK r : r = Unheard([rides EXCEPT !.asks = @ \ {q}], q.day)
    OBVIOUS
  <2>2. rides' = r \/ rides' = InvalidateDay(r)
    BY <1>4, <2>1 DEF LateRideAnswers, InRides
  <2>3. r \in RidesType
    <3>1. [rides EXCEPT !.asks = @ \ {q}] \in RidesType /\ q.day \in Day
      BY <1>0 DEF RidesType, RideRequest
    <3> QED
      BY <2>1, <3>1, UnheardTyped
  <2>4. CASE rides' = r
    BY <2>1, <2>4, RequestGone
  <2> QED
    BY <2>2, <2>3, <2>4, InvalidateInv
<1>5. ASSUME NEW q \in rides.asks, RideFails(q) PROVE RidesInv'
  BY <1>5, RequestGone DEF RideFails, InRides
<1>6. ASSUME NEW form \in RiderForm, FillRide(form) PROVE RidesInv'
  BY <1>0, <1>6, RidesSame DEF FillRide, InRides, RidesType, DaySure
<1>7. CASE Refresh
  BY <1>0, <1>7, InvalidateInv DEF Refresh, InRides
<1>8. CASE AddRide \/ ConfirmRemoveRide
  <2>1. rides.day \in Day /\ (rides.target # None => rides.target \in Day)
    BY <1>0 DEF RidesType
  <2> QED
    BY <1>8, <2>1, RideSent DEF AddRide, ConfirmRemoveRide
<1>9. CASE AskRemoveRide
  BY <1>0, <1>9, RidesSame DEF AskRemoveRide, InRides, RidesType, DaySure
<1>10. CASE CancelRemoveRide
  BY <1>0, <1>10, RidesSame DEF CancelRemoveRide, InRides, RidesType, DaySure
<1>11. ASSUME NEW d \in Day, RidesRead(d) PROVE RidesInv'
  BY <1>11 DEF RidesRead, InRides, RidesInv, DayFollowed, DaySure, RidesType, Listed
<1>12. ASSUME NEW d \in Day, RidesArrive(d) PROVE RidesInv'
  BY <1>12 DEF RidesArrive, InRides, RidesInv, DayFollowed, DaySure, RidesType, Listed
<1>13. ASSUME NEW d \in Day, RidesFail(d) PROVE RidesInv'
  BY <1>13 DEF RidesFail, InRides, RidesInv, DayFollowed, DaySure, RidesType, Listed
<1>14. ASSUME NEW d \in Day, OthersChangeRides(d) PROVE RidesInv'
  <2>1. PICK l \in Listed : rides' = Unheard([rides EXCEPT !.stored[d] = l], d)
    BY <1>14 DEF OthersChangeRides, InRides
  <2>2. [rides EXCEPT !.stored[d] = l] = [rides EXCEPT !.asks = rides.asks, !.stored[d] = l]
    BY <1>0 DEF RidesType
  <2>3. rides.asks \in SUBSET RideRequest
    BY <1>0 DEF RidesType
  <2> QED
    BY <2>1, <2>2, <2>3, RidesChanged
<1>15. CASE LeaveRides
  <2>1. PICK asks : asks = {[q EXCEPT !.mine = FALSE] : q \in rides.asks}
    OBVIOUS
  <2>2. asks \subseteq RideRequest
    <3>1. rides.asks \subseteq RideRequest
      BY <1>0 DEF RidesType
    <3>2. \A q \in RideRequest : [q EXCEPT !.mine = FALSE] \in RideRequest
      BY DEF RideRequest
    <3> QED
      BY <2>1, <3>1, <3>2
  <2>3. rides' = [rides EXCEPT !.here = FALSE, !.day = "Friday", !.form = "wanting",
                               !.target = None, !.asks = asks]
    BY <1>15, <2>1 DEF LeaveRides, InRides
  <2> QED
    BY <1>0, <2>2, <2>3 DEF RidesInv, DayFollowed, RidesType, Day, RiderForm
<1>16. CASE ReturnToRides
  <2>1. PICK r : r = [rides EXCEPT !.here = TRUE]
    OBVIOUS
  <2>2. r \in RidesType /\ rides' = AskOnMount(r, r.day)
    BY <1>0, <1>16, <2>1 DEF ReturnToRides, InRides, RidesType
  <2> QED
    BY <2>2, AskDayInv, UnheardInv DEF AskOnMount
<1> QED
  BY <1>1, <1>2, <1>3, <1>4, <1>5, <1>6, <1>7, <1>8, <1>9, <1>10, <1>11, <1>12, <1>13, <1>14,
     <1>15, <1>16 DEF RidesNext

-----------------------------------------------------------------------------
\* What holds when the pages are opened.
LEMMA PeopleInits == PeopleInit => PeopleInv
<1> SUFFICES ASSUME PeopleInit PROVE PeopleInv
  OBVIOUS
<1>1. SessionInv
  BY DEF PeopleInit, SessionInv, SessionFollowed, RoleSure, SessionType, Role
<1>2. RolesInv
  <2>1. PICK manage \in BOOLEAN : roles = NewPanel(manage)
    BY DEF PeopleInit
  <2>2. roles \in RolesType
    BY <2>1, PanelTyped, Zenon
  <2> QED
    BY <2>1, <2>2 DEF RolesInv, RemovalConfirmed, NewPanel
<1>3. accounts \in AccountsType
  BY DEF PeopleInit, AccountsType
<1>4. RidesInv
  <2>1. PICK s \in [Day -> Listed] :
          rides = [here |-> TRUE, day |-> "Friday", form |-> "wanting", target |-> None,
                   asks |-> {}, stored |-> s, data |-> [d \in Day |-> "unknown"],
                   error |-> [d \in Day |-> FALSE],
                   fetch |-> [d \in Day |-> IF d = "Friday" THEN "asked" ELSE "idle"], doubt |-> {}]
    BY DEF PeopleInit
  <2> QED
    BY <2>1 DEF RidesInv, DayFollowed, RidesType, Day, Listed, RiderForm
<1> QED
  BY <1>1, <1>2, <1>3, <1>4 DEF PeopleInv

\* The session leaves the panels alone.
LEMMA SessionOnly == SessionNext => UNCHANGED <<roles, accounts, rides>>
  BY DEF SessionNext, MeRead, MeAnswers, FocusMe, MeFails, TypePassword, SignInAnswers, SwitchRole,
     SwitchApplied, RoleSwitched, RoleNotSwitched, OthersChangeRole, Revisit, ReloadApp, Logout,
     BypassConfig, SignIn, LogInWithDiscord, InSession

\* The roles leave the session alone.
LEMMA RolesOnly == RolesNext => UNCHANGED <<session, accounts, rides>>
  BY DEF RolesNext, TypeSearch, Debounce, HitsArrive, PointAt, SearchKey, PickMember, FocusSearch,
     ClickOutside, AddMember, MemberAdded, MemberNotAdded, AskRemove, CancelRemove, RemoveMember,
     MemberRemoved, MembersArrive, ChangeTab, InRoles

\* The riders leave the session and the roles alone.
LEMMA RidesOnly == RidesNext => UNCHANGED <<session, roles, accounts>>
  BY DEF RidesNext, ChangeDay, RideApplied, RideAnswers, LateRideAnswers, RideFails, RidesRead,
     RidesArrive, RidesFail, FillRide, Refresh, AddRide, AskRemoveRide, ConfirmRemoveRide,
     CancelRemoveRide, OthersChangeRides, LeaveRides, ReturnToRides, SendRide, InRides

\* Every step of the pages keeps it.
LEMMA PeopleNexts == PeopleInv /\ [PeopleNext]_peopleVars => PeopleInv'
<1> SUFFICES ASSUME PeopleInv, [PeopleNext]_peopleVars PROVE PeopleInv'
  OBVIOUS
<1> USE DEF PeopleInv
<1>a. session' = session => SessionInv'
  BY DEF SessionInv, SessionFollowed
<1>b. roles' = roles => RolesInv'
  BY DEF RolesInv, RemovalConfirmed
<1>c. rides' = rides => RidesInv'
  BY DEF RidesInv, DayFollowed
<1>1. CASE SessionNext
  BY <1>1, <1>b, <1>c, SessionKept, SessionOnly
<1>2. CASE RolesNext
  BY <1>2, <1>a, <1>c, Searched, Removed, RolesOnly DEF RolesNext
<1>3. CASE AccountsNext
  BY <1>3, <1>b, <1>c, AccountsKept
<1>4. CASE RidesNext
  BY <1>4, <1>a, <1>b, RidesKept, RidesOnly
<1>5. CASE UNCHANGED peopleVars
  BY <1>5, <1>a, <1>b, <1>c DEF peopleVars
<1> QED
  BY <1>1, <1>2, <1>3, <1>4, <1>5 DEF PeopleNext

\* The session, the roles, the accounts and the riders keep their types.
THEOREM PeopleTyped == PeopleSpec => []PeopleTypeOK
<1>1. PeopleInv => PeopleTypeOK
  BY DEF PeopleInv, SessionInv, RolesInv, RidesInv, PeopleTypeOK
<1> QED
  BY <1>1, PeopleInits, PeopleNexts, PTL DEF PeopleSpec

\* The role that is shown is the one the server keeps once no switch is on its way and
\* nothing is asked, with every other writer of the role in the model: only a change
\* that nobody told the page of, or a failed request, leaves it in doubt.
THEOREM RoleIsStored == PeopleSpec => []RoleShownIsStored
<1>1. PeopleInv => RoleShownIsStored
  BY DEF PeopleInv, SessionInv, SessionFollowed, RoleSure, RoleShownIsStored
<1> QED
  BY <1>1, PeopleInits, PeopleNexts, PTL DEF PeopleSpec

\* The riders that are shown are the server's once no request for their day is on its
\* way, with every other writer of the list and the visits to other pages in the
\* model: only a day in doubt, as the property tells, is left out.
THEOREM ListIsStored == PeopleSpec => []ShownListIsStored
<1>1. PeopleInv => ShownListIsStored
  BY DEF PeopleInv, RidesInv, DayFollowed, DaySure, ShownListIsStored
<1> QED
  BY <1>1, PeopleInits, PeopleNexts, PTL DEF PeopleSpec

\* A confirmation that is open is never closed by the removal of someone else.
THEOREM ConfirmationsStand == PeopleSpec => ConfirmationStands
<1>1. PeopleInv /\ [PeopleNext]_peopleVars =>
        [roles.removing # None /\ roles'.removing = None /\ roles'.confirm # roles.confirm =>
         roles.confirm = roles.removing]_peopleVars
  <2> SUFFICES ASSUME PeopleInv, [PeopleNext]_peopleVars,
                      roles.removing # None, roles'.removing = None, roles'.confirm # roles.confirm
               PROVE  roles.confirm = roles.removing
    OBVIOUS
  <2>1. roles.confirm \in {roles.removing, None} /\ roles \in RolesType
    BY DEF PeopleInv, RolesInv, RemovalConfirmed
  <2>2. RolesNext
    BY SessionOnly, RidesOnly, AccountsKept DEF PeopleNext, peopleVars
  <2>3. roles'.confirm = None
    <3>1. ASSUME NEW ok \in BOOLEAN, MemberRemoved(ok) PROVE roles'.confirm = None
      BY <2>1, <3>1 DEF MemberRemoved, InRoles, RolesType
    <3>2. CASE ChangeTab
      BY <3>2, PanelConfirms, Zenon DEF ChangeTab, InRoles
    <3>3. ASSUME \/ \E t \in SearchText : TypeSearch(t)
                 \/ \E n \in 0..MaxHits : Debounce(n) \/ HitsArrive(n) \/ PointAt(n)
                 \/ \E key \in {"down", "up", "enter", "escape"} : SearchKey(key)
                 \/ PickMember \/ FocusSearch \/ ClickOutside \/ AddMember \/ MemberAdded
                 \/ MemberNotAdded
                 \/ \E listed \in SUBSET Members : MembersArrive(listed)
          PROVE  roles'.confirm = roles.confirm
      BY <2>1, <3>3 DEF TypeSearch, Debounce, HitsArrive, PointAt, SearchKey, PickMember,
         FocusSearch, ClickOutside, AddMember, MemberAdded, MemberNotAdded, MembersArrive,
         SelectMember, InRoles, RolesType
    <3>4. ASSUME NEW m \in Members, AskRemove(m) \/ CancelRemove(m) \/ RemoveMember(m)
          PROVE  FALSE
      BY <2>1, <3>4, PeopleAssumption DEF AskRemove, CancelRemove, RemoveMember, InRoles, RolesType
    <3> QED
      BY <2>2, <3>1, <3>2, <3>3, <3>4 DEF RolesNext
  <2> QED
    BY <2>1, <2>3
<1> QED
  BY <1>1, PeopleInits, PeopleNexts, PTL DEF PeopleSpec, ConfirmationStands
=============================================================================

-------------------------- MODULE ReactionsProofs ---------------------------
(***************************************************************************)
(* Theorems about Reactions: type correctness, that a removal handler      *)
(* never takes out a user who kept a reaction, that only a user who        *)
(* reacted in haste gets a second channel, and that the members of a       *)
(* registered thread are, once all is quiet, those who have reacted.       *)
(***************************************************************************)
EXTENDS Reactions, TLAPS

(***************************************************************************)
(* The inductive invariant.                                                *)
(***************************************************************************)
\* What a user has kept since a handler of his began, he has now.
KeptNow == \A h \in handlers : h.kept \subseteq reacts[h.user]

\* A removal handler that has counted nothing so far has still to count every
\* reaction its user kept; past the count, there is none.
Counted ==
    \A h \in handlers : h.act = "remove" =>
        /\ h.at = "count" => h.still \/ h.kept \subseteq h.todo
        /\ h.at \in {"members", "take"} => h.kept = {}

\* Handlers of a user who never reacted in haste run one at a time.
OneAtATime ==
    \A h, k \in handlers : h.user = k.user /\ h.user \notin overlapped => h = k

\* His channel is asked for only while he has none.
FirstChannel ==
    \A h \in handlers : h.at = "create" /\ h.user \notin overlapped => channels[h.user] = 0

Keeping == KeptNow /\ Counted
Channels == OneAtATime /\ FirstChannel /\ OneChannelEach
IInv == TypeOK /\ Keeping /\ Channels

-----------------------------------------------------------------------------
LEMMA InitIInv == Init => IInv
<1> SUFFICES ASSUME Init PROVE IInv
  OBVIOUS
<1>1. TypeOK
  <2>1. channels \in [User -> Nat] /\ reacts \in [User -> SUBSET Emoji]
    BY DEF Init
  <2>2. reactions \in 0..MaxReactions /\ given \in 0..MaxCommands /\ faults \in 0..MaxFaults
    BY BoundsAssumption DEF Init
  <2> QED
    BY <2>1, <2>2, RiderAssumption DEF Init, TypeOK
<1>2. Keeping
  BY DEF Init, Keeping, KeptNow, Counted
<1>3. Channels
  BY DEF Init, Channels, OneAtATime, FirstChannel, OneChannelEach
<1> QED
  BY <1>1, <1>2, <1>3 DEF IInv

\* A fault is counted and stays within its bound.
LEMMA FaultCounted ==
    ASSUME TypeOK, Fault
    PROVE  faults' \in 0..MaxFaults
  BY BoundsAssumption DEF TypeOK, Fault

-----------------------------------------------------------------------------
(***************************************************************************)
(* Reactions.                                                              *)
(***************************************************************************)
LEMMA ReactingKeeps ==
    ASSUME IInv, NEW u \in User, NEW act \in {"add", "remove"}, NEW has \in SUBSET Emoji,
           Reacting(u, act, has)
    PROVE  IInv'
<1> USE DEF IInv
<1> DEFINE age(h) == IF h.user = u THEN [h EXCEPT !.kept = @ \cap has] ELSE h
           older == {age(h) : h \in handlers}
           new == [user |-> u, nr |-> reactions, act |-> act,
                   at |-> IF act = "add" THEN "rider" ELSE "thread",
                   todo |-> {}, still |-> FALSE, kept |-> has]
<1>1. /\ handlers' = older \cup (IF up THEN {new} ELSE {})
      /\ reacts' = [reacts EXCEPT ![u] = has]
      /\ overlapped' = IF HandlersOf(u) # {} THEN overlapped \cup {u} ELSE overlapped
      /\ reactions' \in 0..MaxReactions
      /\ UNCHANGED <<up, given, member, channels, registered, located, commands, faults>>
      /\ dirty' \in {dirty, dirty \cup {u}}
  BY BoundsAssumption DEF Reacting, process, TypeOK
<1>2. /\ new \in Handler
      /\ new.user = u /\ new.kept = has /\ new.at \in {"rider", "thread"}
      /\ new.at = "rider" => new.act = "add"
  BY DEF TypeOK, Handler
<1>3. ASSUME NEW h \in handlers
      PROVE  /\ age(h) \in Handler
             /\ age(h).user = h.user /\ age(h).act = h.act /\ age(h).at = h.at
             /\ age(h).todo = h.todo /\ age(h).still = h.still
             /\ age(h).kept \subseteq h.kept
             /\ h.user = u => age(h).kept \subseteq has
  BY DEF TypeOK, Handler
<1>4. ASSUME NEW k \in handlers'
      PROVE  (up /\ k = new) \/ \E h \in handlers : k = age(h)
  BY <1>1
<1>0. \A h \in handlers : h.user # u => age(h) = h
  OBVIOUS
<1> HIDE DEF age, new
<1>5. TypeOK'
  <2>1. handlers' \subseteq Handler
    BY <1>2, <1>3, <1>4
  <2>2. \A k \in handlers' :
          /\ k.at = "count" => k.todo # {} /\ k.act = "remove"
          /\ k.at \in {"refetch", "take"} => k.act = "remove"
          /\ k.at \in {"rider", "create", "put"} => k.act = "add"
    BY <1>2, <1>3, <1>4 DEF TypeOK
  <2>3. ~up => handlers' = {}
    BY <1>1 DEF TypeOK
  <2>4. reacts' \in [User -> SUBSET Emoji]
    BY <1>1 DEF TypeOK
  <2> QED
    BY <1>1, <2>1, <2>2, <2>3, <2>4 DEF TypeOK
<1>6. KeptNow'
  <2> SUFFICES ASSUME NEW k \in handlers' PROVE k.kept \subseteq reacts'[k.user]
    BY DEF KeptNow
  <2>1. CASE k = new
    BY <2>1, <1>1, <1>2 DEF TypeOK
  <2>2. CASE \E h \in handlers : k = age(h)
    BY <2>2, <1>1, <1>3 DEF TypeOK, Keeping, KeptNow, Handler
  <2> QED
    BY <1>4, <2>1, <2>2
<1>7. Counted'
  <2> SUFFICES ASSUME NEW k \in handlers', k.act = "remove"
               PROVE  /\ k.at = "count" => k.still \/ k.kept \subseteq k.todo
                      /\ k.at \in {"members", "take"} => k.kept = {}
    BY DEF Counted
  <2>1. CASE k = new
    BY <2>1, <1>2
  <2>2. CASE \E h \in handlers : k = age(h)
    BY <2>2, <1>3 DEF Keeping, Counted
  <2> QED
    BY <1>4, <2>1, <2>2
<1>8. OneAtATime'
  <2> SUFFICES ASSUME NEW k \in handlers', NEW l \in handlers',
                      k.user = l.user, k.user \notin overlapped'
               PROVE  k = l
    BY DEF OneAtATime
  <2>1. CASE HandlersOf(u) = {}
    <3>1. \A h \in handlers : h.user # u /\ age(h) = h
      BY <2>1, <1>0 DEF HandlersOf
    <3>2. overlapped' = overlapped
      BY <2>1, <1>1
    <3>3. (k = new \/ k \in handlers) /\ (l = new \/ l \in handlers)
      BY <3>1, <1>4
    <3> QED
      BY <3>1, <3>2, <3>3, <1>2 DEF Channels, OneAtATime
  <2>2. CASE HandlersOf(u) # {}
    <3>1. k.user # u /\ l.user # u /\ k.user \notin overlapped
      BY <2>2, <1>1
    <3>2. k \in handlers /\ l \in handlers
      BY <3>1, <1>0, <1>2, <1>3, <1>4
    <3> QED
      BY <3>1, <3>2 DEF Channels, OneAtATime
  <2> QED
    BY <2>1, <2>2
<1>9. overlapped \subseteq overlapped'
  BY <1>1
<1>10. FirstChannel'
  <2> SUFFICES ASSUME NEW k \in handlers', k.at = "create", k.user \notin overlapped
               PROVE  channels[k.user] = 0
    BY <1>1, <1>9 DEF FirstChannel
  <2> QED
    BY <1>2, <1>3, <1>4 DEF Channels, FirstChannel
<1>11. OneChannelEach'
  BY <1>1, <1>9 DEF Channels, OneChannelEach
<1> QED
  BY <1>5, <1>6, <1>7, <1>8, <1>10, <1>11 DEF Keeping, Channels

-----------------------------------------------------------------------------
(***************************************************************************)
(* Handlers.  A step either ends a handler or replaces it by one of the    *)
(* same user that has kept as much.                                        *)
(***************************************************************************)
Successor(h, next) ==
    /\ next \in Handler /\ next.user = h.user /\ next.act = h.act /\ next.kept = h.kept
    /\ next.at = "count" => next.todo # {} /\ next.act = "remove"
    /\ next.at \in {"refetch", "take"} => next.act = "remove"
    /\ next.at \in {"rider", "create", "put"} => next.act = "add"
    /\ next.act = "remove" =>
          /\ next.at = "count" => next.still \/ next.kept \subseteq next.todo
          /\ next.at \in {"members", "take"} => next.kept = {}
    /\ next.at = "create" /\ next.user \notin overlapped => channels[next.user] = 0

Settled == UNCHANGED <<reacts, reactions, overlapped, up, given, registered, located, commands>>

\* Whether a channel may be made by a handler that leaves the state "create".
ChannelStep(h) ==
    \/ UNCHANGED channels
    \/ h.at = "create" /\ channels' = [channels EXCEPT ![h.user] = @ + 1]

LEMMA HandlerSteps ==
    ASSUME IInv, NEW h \in handlers, HandlerStep(h)
    PROVE  /\ Settled /\ ChannelStep(h)
           /\ member' \subseteq User
           /\ dirty' \subseteq User
           /\ faults' \in 0..MaxFaults
           /\ \/ Finish(h) /\ UNCHANGED channels
              \/ \E next : Go(h, next) /\ Successor(h, next)
                                       /\ (next.at = "create" => UNCHANGED channels)
<1> USE DEF IInv
<1>a. /\ h \in Handler
      /\ h.at = "count" => h.todo # {} /\ h.act = "remove"
      /\ h.at \in {"refetch", "take"} => h.act = "remove"
      /\ h.at \in {"rider", "create", "put"} => h.act = "add"
      /\ h.kept \subseteq reacts[h.user]
      /\ reacts[h.user] \subseteq Emoji
      /\ faults \in 0..MaxFaults /\ dirty \subseteq User /\ member \subseteq User
  BY DEF TypeOK, Keeping, KeptNow, Handler
<1>b. h.user \in User
  BY <1>a DEF Handler
<1>c. ASSUME NEW at \in {"rider", "create", "thread", "refetch", "count",
                         "members", "put", "take"}
      PROVE  /\ [h EXCEPT !.at = at] \in Handler
             /\ [h EXCEPT !.at = at].at = at
             /\ [h EXCEPT !.at = at].user = h.user /\ [h EXCEPT !.at = at].act = h.act
             /\ [h EXCEPT !.at = at].kept = h.kept
  BY <1>a DEF Handler
<1>d. Fault => faults' \in 0..MaxFaults
  BY FaultCounted
<1>e. Quiet => faults' \in 0..MaxFaults /\ dirty' \subseteq User
  BY <1>a DEF Quiet
<1>f. GiveUp(h) => Finish(h) /\ faults' \in 0..MaxFaults /\ dirty' \subseteq User
  BY <1>a, <1>b, <1>d DEF GiveUp
<1> USE DEF Settled, ChannelStep, discord, process
<1>1. CASE NewRider(h)
  <2>1. Move(h, "create") /\ h.user \notin located /\ channels[h.user] = 0 =>
           \E next : Go(h, next) /\ Successor(h, next)
    <3> SUFFICES ASSUME Move(h, "create"), channels[h.user] = 0
                 PROVE  \E next : Go(h, next) /\ Successor(h, next)
      OBVIOUS
    <3>1. h.act = "add"
      BY <1>1, <1>a DEF NewRider
    <3>2. Successor(h, [h EXCEPT !.at = "create"])
      BY <3>1, <1>c DEF Successor
    <3> QED
      BY <3>2 DEF Move
  <2>2. Move(h, "thread") => \E next : Go(h, next) /\ Successor(h, next) /\ next.at = "thread"
    BY <1>1, <1>a, <1>c DEF Move, Successor, NewRider
  <2> QED
    BY <1>1, <2>1, <2>2, <1>a, <1>d, <1>e, <1>f DEF NewRider
<1>2. CASE CreateChannel(h)
  <2>1. \E next : Go(h, next) /\ Successor(h, next) /\ next.at = "thread"
    BY <1>2, <1>a, <1>c DEF CreateChannel, Move, Successor
  <2> QED
    BY <1>2, <2>1, <1>a, <1>d DEF CreateChannel
<1>3. CASE CheckThread(h)
  <2>1. Move(h, IF h.act = "add" THEN "members" ELSE "refetch") =>
           \E next : Go(h, next) /\ Successor(h, next) /\ next.at # "create"
    <3>1. CASE h.act = "add"
      BY <3>1, <1>a, <1>c DEF Move, Successor
    <3>2. CASE h.act = "remove"
      BY <3>2, <1>a, <1>c DEF Move, Successor
    <3> QED
      BY <3>1, <3>2, <1>a DEF Handler
  <2> QED
    BY <1>3, <2>1, <1>a, <1>e, <1>f DEF CheckThread
<1>4. CASE Refetch(h)
  <2> DEFINE next == [h EXCEPT !.at = IF InUse = {} THEN "members" ELSE "count", !.todo = InUse]
  <2>1. InUse \subseteq Emoji /\ h.kept \subseteq InUse
    BY <1>a, <1>b DEF InUse, TypeOK
  <2>2. /\ next \in Handler
        /\ next.user = h.user /\ next.act = h.act /\ next.kept = h.kept
        /\ next.todo = InUse /\ next.at = IF InUse = {} THEN "members" ELSE "count"
    BY <2>1, <1>a DEF Handler
  <2>3. Successor(h, next)
    BY <2>1, <2>2, <1>a, <1>4 DEF Successor, Refetch
  <2>4. next.at # "create"
    BY <2>2
  <2> QED
    BY <1>4, <2>3, <2>4, <1>a, <1>e, <1>f DEF Refetch
<1>5. CASE CountReactions(h)
  <2>1. CASE GiveUp(h)
    BY <1>5, <2>1, <1>a, <1>f DEF CountReactions
  <2>2. CASE ~GiveUp(h)
    <3>1. PICK e \in h.todo :
             LET last == h.todo = {e}
                 still == h.still \/ e \in reacts[h.user]
             IN  IF last /\ still THEN Finish(h)
                 ELSE Go(h, [h EXCEPT !.todo = @ \ {e}, !.still = still,
                                      !.at = IF last THEN "members" ELSE "count"])
      BY <1>5, <2>2 DEF CountReactions
    <3> DEFINE last == h.todo = {e}
               still == h.still \/ e \in reacts[h.user]
               next == [h EXCEPT !.todo = @ \ {e}, !.still = still,
                                 !.at = IF last THEN "members" ELSE "count"]
    <3>2. /\ next \in Handler
          /\ next.user = h.user /\ next.act = h.act /\ next.kept = h.kept
          /\ next.todo = h.todo \ {e} /\ next.still = still
          /\ next.at = IF last THEN "members" ELSE "count"
      BY <1>a DEF Handler
    <3>3. h.act = "remove" /\ h.at = "count" /\ (h.still \/ h.kept \subseteq h.todo)
      BY <1>5, <1>a DEF CountReactions, Keeping, Counted
    <3>4. next.still \/ next.kept \subseteq next.todo
      BY <3>2, <3>3, <1>a
    <3>5. last /\ ~still => next.kept = {}
      BY <3>2, <3>3, <1>a
    <3>6. ~last => next.todo # {}
      BY <3>2
    <3>7. ~(last /\ still) => Successor(h, next)
      BY <3>2, <3>3, <3>4, <3>5, <3>6 DEF Successor
    <3>8. (last /\ still /\ Finish(h)) \/ (~(last /\ still) /\ Go(h, next))
      BY <3>1
    <3>9. next.at # "create"
      BY <3>2
    <3>10. UNCHANGED <<channels, member>> /\ Settled /\ Quiet
      BY <1>5, <2>2 DEF CountReactions
    <3> QED
      BY <3>7, <3>8, <3>9, <3>10, <1>a, <1>e
  <2> QED
    BY <2>1, <2>2
<1>6. CASE GetMembers(h)
  <2>1. h.act = "add" /\ Move(h, "put") =>
           \E next : Go(h, next) /\ Successor(h, next) /\ next.at # "create"
    BY <1>a, <1>c DEF Move, Successor
  <2>2. h.act = "remove" /\ Move(h, "take") =>
           \E next : Go(h, next) /\ Successor(h, next) /\ next.at # "create"
    BY <1>6, <1>a, <1>c DEF Move, Successor, GetMembers, Keeping, Counted
  <2>3. h.act \in {"add", "remove"}
    BY <1>a DEF Handler
  <2>4. /\ Settled /\ UNCHANGED <<channels, member>>
        /\ \/ Finish(h) \/ (h.act = "add" /\ Move(h, "put"))
           \/ (h.act = "remove" /\ Move(h, "take"))
        /\ faults' \in 0..MaxFaults /\ dirty' \subseteq User
    <3>1. CASE GiveUp(h)
      BY <1>6, <3>1, <1>f DEF GetMembers
    <3>2. CASE h.act = "add" /\ Fault /\ Move(h, "put") /\ UNCHANGED dirty
      BY <1>6, <3>2, <1>a, <1>d DEF GetMembers
    <3>3. CASE /\ LET inside == h.user \in member
                  IN  IF inside = (h.act = "add") THEN Finish(h)
                      ELSE Move(h, IF inside THEN "take" ELSE "put")
               /\ Quiet
      BY <1>6, <3>3, <1>e, <2>3 DEF GetMembers
    <3> QED
      BY <1>6, <3>1, <3>2, <3>3 DEF GetMembers
  <2> QED
    BY <2>1, <2>2, <2>4, <1>a
<1>7. CASE AddUser(h)
  BY <1>7, <1>a, <1>b, <1>e, <1>f DEF AddUser
<1>8. CASE RemoveUser(h)
  BY <1>8, <1>a, <1>b, <1>e, <1>f DEF RemoveUser
<1> QED
  BY <1>1, <1>2, <1>3, <1>4, <1>5, <1>6, <1>7, <1>8 DEF HandlerStep

LEMMA HandlerKeeps ==
    ASSUME IInv, NEW h \in handlers, HandlerStep(h)
    PROVE  IInv'
<1> USE DEF IInv
<1>1. /\ Settled /\ ChannelStep(h)
      /\ member' \subseteq User /\ dirty' \subseteq User /\ faults' \in 0..MaxFaults
      /\ \/ Finish(h) /\ UNCHANGED channels
         \/ \E next : Go(h, next) /\ Successor(h, next) /\ (next.at = "create" => UNCHANGED channels)
  BY HandlerSteps
<1>2. ASSUME NEW k \in handlers'
      PROVE  (k \in handlers /\ k # h)
             \/ (Successor(h, k) /\ (k.at = "create" => UNCHANGED channels))
  BY <1>1 DEF Finish, Go
<1>3. h.user \in User /\ h \in Handler
  BY DEF TypeOK, Handler
<1>4. /\ channels' \in [User -> Nat]
      /\ \A u \in User : channels'[u] = channels[u] \/ (u = h.user /\ h.at = "create"
                                                         /\ channels'[u] = channels[u] + 1)
  BY <1>1, <1>3 DEF ChannelStep, TypeOK
<1>5. TypeOK'
  <2>1. handlers' \subseteq Handler
    BY <1>2 DEF Successor, TypeOK
  <2>2. \A k \in handlers' :
          /\ k.at = "count" => k.todo # {} /\ k.act = "remove"
          /\ k.at \in {"refetch", "take"} => k.act = "remove"
          /\ k.at \in {"rider", "create", "put"} => k.act = "add"
    BY <1>2 DEF Successor, TypeOK
  <2>3. up
    BY DEF TypeOK
  <2> QED
    BY <1>1, <1>4, <2>1, <2>2, <2>3 DEF TypeOK, Settled
<1>6. KeptNow'
  <2> SUFFICES ASSUME NEW k \in handlers' PROVE k.kept \subseteq reacts'[k.user]
    BY DEF KeptNow
  <2> QED
    BY <1>1, <1>2 DEF Settled, Successor, Keeping, KeptNow
<1>7. Counted'
  <2> SUFFICES ASSUME NEW k \in handlers', k.act = "remove"
               PROVE  /\ k.at = "count" => k.still \/ k.kept \subseteq k.todo
                      /\ k.at \in {"members", "take"} => k.kept = {}
    BY DEF Counted
  <2> QED
    BY <1>2 DEF Successor, Keeping, Counted
<1>8. OneAtATime'
  <2> SUFFICES ASSUME NEW k \in handlers', NEW l \in handlers',
                      k.user = l.user, k.user \notin overlapped
               PROVE  k = l
    BY <1>1 DEF OneAtATime, Settled
  <2>1. CASE k.user = h.user
    <3>1. \A m \in handlers : m.user = h.user => m = h
      BY <2>1 DEF Channels, OneAtATime
    <3>2. CASE Finish(h)
      BY <2>1, <3>1, <3>2 DEF Finish
    <3>3. CASE \E next : Go(h, next)
      <4>1. PICK next : handlers' = (handlers \ {h}) \cup {next}
        BY <3>3 DEF Go
      <4> QED
        BY <4>1, <2>1, <3>1
    <3> QED
      BY <3>2, <3>3, <1>1
  <2>2. CASE k.user # h.user
    BY <2>2, <1>2 DEF Channels, OneAtATime, Successor
  <2> QED
    BY <2>1, <2>2
<1>9. FirstChannel'
  <2> SUFFICES ASSUME NEW k \in handlers', k.at = "create", k.user \notin overlapped
               PROVE  channels'[k.user] = 0
    BY <1>1 DEF FirstChannel, Settled
  <2>1. CASE k \in handlers /\ k # h
    <3>1. k.user # h.user /\ k.user \in User
      BY <2>1 DEF Channels, OneAtATime, TypeOK, Handler
    <3> QED
      BY <2>1, <3>1, <1>4 DEF Channels, FirstChannel
  <2>2. CASE Successor(h, k) /\ UNCHANGED channels
    BY <2>2 DEF Successor
  <2> QED
    BY <1>2, <2>1, <2>2
<1>10. OneChannelEach'
  <2> SUFFICES ASSUME NEW u \in User, u \notin overlapped PROVE channels'[u] <= 1
    BY <1>1 DEF OneChannelEach, Settled
  <2>1. CASE u = h.user /\ h.at = "create"
    <3>1. channels[u] = 0
      BY <2>1 DEF Channels, FirstChannel
    <3> QED
      BY <3>1, <1>4
  <2>2. CASE channels'[u] = channels[u]
    BY <2>2 DEF Channels, OneChannelEach
  <2> QED
    BY <2>1, <2>2, <1>4
<1> QED
  BY <1>5, <1>6, <1>7, <1>8, <1>9, <1>10 DEF Keeping, Channels

-----------------------------------------------------------------------------
(***************************************************************************)
(* Commands and the process.                                               *)
(***************************************************************************)
\* The parts of the invariant about handlers are untouched by the others.
LEMMA HandlersStay ==
    ASSUME IInv, UNCHANGED <<handlers, reacts, overlapped, channels>>
    PROVE  Keeping' /\ Channels'
  BY DEF IInv, Keeping, KeptNow, Counted, Channels, OneAtATime, FirstChannel, OneChannelEach

GoodCommand(c) ==
    /\ c \in Command
    /\ c.at = "gather" => c.todo # {}
    /\ c.at \in {"members", "add"} => c.reactors # {}
    /\ c.at \in {"check", "register"} => c.kind = "create"

Rest == UNCHANGED <<reacts, reactions, overlapped, up, given, channels, located, handlers>>

\* A step of a command ends it or leaves a good one in its place.
LEMMA CommandSteps ==
    ASSUME IInv, NEW c \in commands, CommandStep(c)
    PROVE  /\ Rest
           /\ member' \subseteq User /\ dirty' \subseteq User
           /\ registered' \in BOOLEAN /\ faults' \in 0..MaxFaults
           /\ Leave(c) \/ \E next : Replace(c, next) /\ GoodCommand(next)
<1> USE DEF IInv
<1>a. /\ GoodCommand(c) /\ c \in Command
      /\ faults \in 0..MaxFaults /\ dirty \subseteq User /\ member \subseteq User
      /\ registered \in BOOLEAN
  BY DEF TypeOK, GoodCommand
<1>b. Break(c) => Leave(c) /\ faults' \in 0..MaxFaults /\ dirty' \subseteq User
  BY FaultCounted DEF Break
<1>c. Quiet => faults' \in 0..MaxFaults /\ dirty' \subseteq User
  BY <1>a DEF Quiet
<1>d. AfterBulk(c) => Leave(c) \/ \E next : Replace(c, next) /\ GoodCommand(next)
  <2>1. c.kind = "create" => GoodCommand([c EXCEPT !.at = "register"])
    BY <1>a DEF GoodCommand, Command
  <2> QED
    BY <2>1 DEF AfterBulk
<1>e. InUse \subseteq Emoji
  BY DEF InUse, TypeOK
<1> USE DEF Rest, discord, process
<1>1. CASE CheckNew(c)
  <2>1. GoodCommand([c EXCEPT !.at = "fetch"])
    BY <1>a DEF GoodCommand, Command
  <2> QED
    BY <1>1, <2>1, <1>a, <1>b, <1>c DEF CheckNew
<1>2. CASE FetchStarter(c)
  <2>1. InUse # {} => GoodCommand([c EXCEPT !.at = "gather", !.todo = InUse])
    BY <1>a, <1>e DEF GoodCommand, Command
  <2> QED
    BY <1>2, <2>1, <1>a, <1>b, <1>c, <1>d DEF FetchStarter
<1>3. CASE Gather(c)
  <2>1. CASE Break(c)
    BY <1>3, <2>1, <1>a, <1>b DEF Gather
  <2>2. CASE ~Break(c)
    <3>1. PICK e \in c.todo :
             LET found == c.reactors \cup {u \in User : e \in reacts[u]}
             IN  IF c.todo # {e}
                 THEN Replace(c, [c EXCEPT !.todo = @ \ {e}, !.reactors = found])
                 ELSE IF found = {} THEN AfterBulk(c)
                 ELSE Replace(c, [c EXCEPT !.at = "members", !.todo = {}, !.reactors = found])
      BY <1>3, <2>2 DEF Gather
    <3> DEFINE found == c.reactors \cup {u \in User : e \in reacts[u]}
    <3>2. c.todo # {e} => GoodCommand([c EXCEPT !.todo = @ \ {e}, !.reactors = found])
      <4>1. c.at = "gather"
        BY <1>3 DEF Gather
      <4> QED
        BY <4>1, <1>a DEF GoodCommand, Command
    <3>3. found # {} => GoodCommand([c EXCEPT !.at = "members", !.todo = {}, !.reactors = found])
      BY <1>a DEF GoodCommand, Command
    <3>4. Leave(c) \/ \E next : Replace(c, next) /\ GoodCommand(next)
      BY <3>1, <3>2, <3>3, <1>d
    <3>5. Rest /\ UNCHANGED <<member, registered>> /\ Quiet
      BY <1>3, <2>2 DEF Gather
    <3> QED
      BY <3>4, <3>5, <1>a, <1>c
  <2> QED
    BY <2>1, <2>2
<1>4. CASE SkipMembers(c)
  <2> DEFINE missing == c.reactors \ member
  <2>1. missing # {} => GoodCommand([c EXCEPT !.at = "add", !.reactors = missing])
    BY <1>a DEF GoodCommand, Command
  <2>2. c.reactors # {} => GoodCommand([c EXCEPT !.at = "add"])
    BY <1>a DEF GoodCommand, Command
  <2>3. c.reactors # {}
    BY <1>4, <1>a DEF SkipMembers, GoodCommand
  <2> QED
    BY <1>4, <2>1, <2>2, <2>3, <1>a, <1>b, <1>c, <1>d, FaultCounted DEF SkipMembers
<1>5. CASE AddReactor(c)
  <2>1. CASE Break(c) /\ UNCHANGED member
    BY <1>5, <2>1, <1>a, <1>b DEF AddReactor
  <2>2. CASE ~(Break(c) /\ UNCHANGED member)
    <3>1. PICK u \in c.reactors :
             /\ IF c.reactors = {u} THEN AfterBulk(c)
                ELSE Replace(c, [c EXCEPT !.reactors = @ \ {u}])
             /\ \/ member' = member \cup {u} /\ Quiet
                \/ Fault /\ dirty' = dirty \cup {u} /\ UNCHANGED member
      BY <1>5, <2>2 DEF AddReactor
    <3>2. c.reactors # {u} => GoodCommand([c EXCEPT !.reactors = @ \ {u}])
      BY <1>a DEF GoodCommand, Command
    <3>3. Leave(c) \/ \E next : Replace(c, next) /\ GoodCommand(next)
      BY <3>1, <3>2, <1>d
    <3>4. u \in User
      BY <1>a DEF Command
    <3>5. member' \subseteq User /\ dirty' \subseteq User /\ faults' \in 0..MaxFaults
      BY <3>1, <3>4, <1>a, <1>c, FaultCounted
    <3>6. Rest /\ UNCHANGED registered
      BY <1>5 DEF AddReactor
    <3> QED
      BY <3>3, <3>5, <3>6, <1>a
  <2> QED
    BY <2>1, <2>2
<1>6. CASE Register(c)
  BY <1>6, <1>a, <1>b, <1>c DEF Register
<1> QED
  BY <1>1, <1>2, <1>3, <1>4, <1>5, <1>6 DEF CommandStep

LEMMA CommandKeeps ==
    ASSUME IInv, NEW c \in commands, CommandStep(c)
    PROVE  IInv'
<1> USE DEF IInv
<1>1. /\ Rest
      /\ member' \subseteq User /\ dirty' \subseteq User
      /\ registered' \in BOOLEAN /\ faults' \in 0..MaxFaults
      /\ Leave(c) \/ \E next : Replace(c, next) /\ GoodCommand(next)
  BY CommandSteps
<1>2. \A k \in commands' : k \in commands \/ GoodCommand(k)
  BY <1>1 DEF Leave, Replace
<1>3. \A k \in commands' : GoodCommand(k)
  BY <1>2 DEF TypeOK, GoodCommand
<1>4. up
  BY DEF TypeOK
<1>5. TypeOK'
  BY <1>1, <1>3, <1>4 DEF TypeOK, Rest, GoodCommand
<1> QED
  BY <1>1, <1>5, HandlersStay DEF Rest

LEMMA OthersKeep ==
    ASSUME IInv,
           \/ \E u \in User : Locate(u)
           \/ \E kind \in {"create", "bulk"} : Give(kind)
           \/ End \/ Crash \/ Boot
    PROVE  IInv'
<1> USE DEF IInv, discord, process
<1>1. CASE \E u \in User : Locate(u)
  <2>1. TypeOK'
    BY <1>1, BoundsAssumption DEF Locate, TypeOK
  <2> QED
    BY <1>1, <2>1, HandlersStay DEF Locate
<1>2. CASE \E kind \in {"create", "bulk"} : Give(kind)
  <2>1. PICK kind \in {"create", "bulk"} : Give(kind)
    BY <1>2
  <2> DEFINE new == [kind |-> kind, nr |-> given, todo |-> {}, reactors |-> {},
                     at |-> IF kind = "create" THEN "check" ELSE "fetch"]
  <2>2. GoodCommand(new)
    BY DEF TypeOK, GoodCommand, Command
  <2>3. commands' = commands \cup {new} /\ up /\ given' \in 0..MaxCommands /\ dirty' \subseteq User
    BY <2>1, BoundsAssumption DEF Give, TypeOK
  <2>4. TypeOK'
    BY <2>1, <2>2, <2>3 DEF Give, TypeOK, GoodCommand
  <2> QED
    BY <2>1, <2>4, HandlersStay DEF Give
<1>3. CASE End
  <2>1. {h.user : h \in handlers} \subseteq User
    BY DEF TypeOK, Handler
  <2>2. given' \in 0..MaxCommands /\ dirty' \subseteq User
    BY <1>3, <2>1, BoundsAssumption DEF End, TypeOK
  <2>3. TypeOK'
    BY <1>3, <2>2 DEF End, TypeOK
  <2> QED
    BY <1>3, <2>3, HandlersStay DEF End
<1>4. CASE Crash
  <2>1. {h.user : h \in handlers} \subseteq User
    BY DEF TypeOK, Handler
  <2>2. faults' \in 0..MaxFaults
    BY <1>4, FaultCounted DEF Crash
  <2>3. TypeOK'
    BY <1>4, <2>1, <2>2 DEF Crash, TypeOK
  <2>4. Keeping'
    BY <1>4 DEF Crash, Keeping, KeptNow, Counted
  <2>5. Channels'
    BY <1>4 DEF Crash, Channels, OneAtATime, FirstChannel, OneChannelEach
  <2> QED
    BY <2>3, <2>4, <2>5
<1>5. CASE Boot
  <2>1. TypeOK'
    BY <1>5 DEF Boot, TypeOK
  <2> QED
    BY <1>5, <2>1, HandlersStay DEF Boot
<1> QED
  BY <1>1, <1>2, <1>3, <1>4, <1>5

-----------------------------------------------------------------------------
(***************************************************************************)
(* The theorems.                                                           *)
(***************************************************************************)
LEMMA StepKeeps == IInv /\ [Next]_vars => IInv'
<1> SUFFICES ASSUME IInv, [Next]_vars PROVE IInv'
  OBVIOUS
<1>1. CASE \E u \in User, e \in Emoji : React(u, e) \/ Unreact(u, e)
  <2>1. PICK u \in User, e \in Emoji : React(u, e) \/ Unreact(u, e)
    BY <1>1
  <2>2. reacts[u] \cup {e} \in SUBSET Emoji /\ reacts[u] \ {e} \in SUBSET Emoji
    BY DEF IInv, TypeOK
  <2> QED
    BY <2>1, <2>2, ReactingKeeps DEF React, Unreact
<1>2. CASE UNCHANGED vars
  <2>1. TypeOK'
    BY <1>2 DEF vars, IInv, TypeOK
  <2> QED
    BY <1>2, <2>1, HandlersStay DEF vars, IInv
<1> QED
  BY <1>1, <1>2, HandlerKeeps, CommandKeeps, OthersKeep DEF Next

LEMMA Invariance == Spec => []IInv
  BY InitIInv, StepKeeps, PTL DEF Spec

\* Every variable keeps its type, and the fields of a handler or command agree
\* with how far it has come, for any users, emojis and bounds.
THEOREM TypeCorrect == Spec => []TypeOK
<1>1. IInv => TypeOK
  BY DEF IInv
<1> QED
  BY <1>1, Invariance, PTL

\* Only a user whose reactions overlapped a handler of his ever gets a second
\* private channel.
THEOREM NoSecondChannel == Spec => []OneChannelEach
<1>1. IInv => OneChannelEach
  BY DEF IInv, Channels
<1> QED
  BY <1>1, Invariance, PTL

\* Only RemoveUser takes a member out, so the user had kept nothing.
LEMMA RemovedHadNothing ==
    ASSUME IInv, [Next]_vars, NEW u \in member \ member'
    PROVE  \E h \in handlers : h.user = u /\ h.act = "remove" /\ h.kept = {}
<1>1. PICK h \in handlers : HandlerStep(h) /\ u \in member \ member'
  <2>1. CASE \E c \in commands : CommandStep(c)
    BY <2>1 DEF CommandStep, CheckNew, FetchStarter, Gather, SkipMembers, AddReactor, Register
  <2>2. CASE ~(\E c \in commands : CommandStep(c)) /\ ~(\E h \in handlers : HandlerStep(h))
    BY <2>2 DEF Next, vars, React, Unreact, Reacting, Locate, Give, End, Crash, Boot
  <2> QED
    BY <2>1, <2>2
<1>2. RemoveUser(h) /\ member' = member \ {h.user}
  BY <1>1 DEF HandlerStep, NewRider, CreateChannel, CheckThread, Refetch, CountReactions,
              GetMembers, AddUser, RemoveUser
<1>3. h.at = "take" /\ h.act = "remove" /\ h.kept = {}
  BY <1>2 DEF RemoveUser, IInv, TypeOK, Keeping, Counted
<1> QED
  BY <1>1, <1>2, <1>3

\* Whoever keeps one reaction while a removal handler of his counts, emoji by
\* emoji, is not taken out of the thread by it, whatever runs beside it.
THEOREM KeepersStay == Spec => KeeperStays
<1>1. IInv /\ [Next]_vars =>
         [\A u \in member \ member' :
            \E h \in handlers : h.user = u /\ h.act = "remove" /\ h.kept = {}]_vars
  BY RemovedHadNothing
<1> QED
  BY <1>1, Invariance, PTL DEF Spec, KeeperStays

-----------------------------------------------------------------------------
(***************************************************************************)
(* That the members of a registered thread are, once all is quiet, those   *)
(* who have reacted: the proof of QuietMatches.                            *)
(***************************************************************************)

(***************************************************************************)
(* The strengthening of QuietMatches.  Each part is about the users nothing *)
(* has made dirty.                                                         *)
(***************************************************************************)
Clean(u) == u \in User /\ u \notin dirty

\* His handlers run one at a time, and he has reacted no further meanwhile; an
\* add handler has a reaction to answer, and so has a count that is not zero.
CleanHandlers ==
    \A h \in handlers : Clean(h.user) =>
        /\ \A k \in handlers : k.user = h.user => k = h
        /\ h.kept = reacts[h.user]
        /\ h.act = "add" => reacts[h.user] # {}
        /\ h.still => reacts[h.user] # {}

\* A member without reactions is about to be removed.
Leaving ==
    \A u \in member : Clean(u) /\ reacts[u] = {} =>
        registered /\ \E h \in HandlersOf(u) : h.act = "remove"

\* Commands add only users with reactions.
CommandsAddReactors ==
    \A c \in commands : \A u \in c.reactors : Clean(u) => reacts[u] # {}

\* Command c will still come to add u, or will find him a member.
Covers(c, u) ==
    CASE c.at \in {"check", "fetch"} -> TRUE
      [] c.at = "gather" -> u \in c.reactors \/ reacts[u] \cap c.todo # {}
      [] c.at \in {"members", "add"} -> u \in c.reactors
      [] c.at = "register" -> FALSE

\* A user with reactions is a member, or a command or a handler will make him one.
Joining ==
    \A u \in User \ member : Clean(u) /\ reacts[u] # {} =>
        /\ commands # {} => \E c \in commands : Covers(c, u)
        /\ commands = {} /\ registered => \E h \in HandlersOf(u) : h.act = "add"

Promise == CleanHandlers /\ Leaving /\ CommandsAddReactors /\ Joining

\* Nobody has reacted, nobody is a member.
LEMMA InitPromise == Init => Promise
  BY DEF Init, Promise, CleanHandlers, Leaving, CommandsAddReactors, Joining, HandlersOf

\* Who has a reaction at all uses an emoji that is in use.
LEMMA UsedEmoji ==
    ASSUME TypeOK, NEW u \in User
    PROVE  reacts[u] \subseteq InUse
  BY DEF TypeOK, InUse

\* A user whose reaction leaves him clean was clean, alone and unhurried.
LEMMA ReactingPromise ==
    ASSUME IInv, Promise, NEW u \in User, NEW act \in {"add", "remove"},
           NEW has \in SUBSET Emoji, act = "add" => has # {},
           act = "remove" => reacts[u] # {}, Reacting(u, act, has)
    PROVE  Promise'
<1> USE DEF IInv, Promise
<1> DEFINE age(h) == IF h.user = u THEN [h EXCEPT !.kept = @ \cap has] ELSE h
           older == {age(h) : h \in handlers}
           new == [user |-> u, nr |-> reactions, act |-> act,
                   at |-> IF act = "add" THEN "rider" ELSE "thread",
                   todo |-> {}, still |-> FALSE, kept |-> has]
<1>1. /\ handlers' = older \cup (IF up THEN {new} ELSE {})
      /\ reacts' = [reacts EXCEPT ![u] = has]
      /\ UNCHANGED <<member, registered, commands>>
      /\ dirty' = IF Disturbed(u, act) THEN dirty \cup {u} ELSE dirty
  BY DEF Reacting
<1>2. /\ new.user = u /\ new.kept = has /\ new.act = act /\ new.still = FALSE
      /\ \A h \in handlers : h.user # u => age(h) = h
      /\ \A h \in handlers : age(h).user = h.user
  BY DEF TypeOK, Handler
<1>3. \A k \in handlers' : (up /\ k = new) \/ \E h \in handlers : k = age(h)
  BY <1>1
<1>4. \A h \in handlers : age(h) \in handlers'
  BY <1>1
<1>0. up => new \in handlers'
  BY <1>1
<1> HIDE DEF age, new
<1>5. reacts'[u] = has /\ \A v \in User : v # u => reacts'[v] = reacts[v]
  BY <1>1 DEF TypeOK
\* If u is clean afterwards.
<1>6. ASSUME Clean(u)'
      PROVE  /\ Clean(u) /\ up /\ HandlersOf(u) = {} /\ commands = {}
             /\ act = "remove" => registered \/ u \notin member
  BY <1>1, <1>6 DEF Clean, Disturbed
\* The others.
<1>7. ASSUME NEW v \in User, v # u
      PROVE  Clean(v)' <=> Clean(v)
  BY <1>1, <1>7 DEF Clean
<1>8. \A k \in handlers' : k.user # u => k \in handlers
  BY <1>2, <1>3
<1>9. \A k \in handlers : k.user # u => k \in handlers'
  BY <1>2, <1>4
<1>10. ASSUME Clean(u)', NEW k \in handlers', k.user = u
       PROVE  k = new
  BY <1>10, <1>6, <1>2, <1>3 DEF HandlersOf
<1>11. CleanHandlers'
  <2> SUFFICES ASSUME NEW h \in handlers', Clean(h.user)'
               PROVE  /\ \A k \in handlers' : k.user = h.user => k = h
                      /\ h.kept = reacts'[h.user]
                      /\ h.act = "add" => reacts'[h.user] # {}
                      /\ h.still => reacts'[h.user] # {}
    BY DEF CleanHandlers
  <2>1. CASE h.user = u
    BY <2>1, <1>10, <1>2, <1>5
  <2>2. CASE h.user # u
    <3>1. h \in handlers /\ h.user \in User /\ Clean(h.user)
      BY <2>2, <1>7, <1>8 DEF Clean
    <3>2. \A k \in handlers' : k.user = h.user => k \in handlers
      BY <2>2, <1>8
    <3> QED
      BY <2>2, <3>1, <3>2, <1>5 DEF CleanHandlers
  <2> QED
    BY <2>1, <2>2
<1>12. Leaving'
  <2> SUFFICES ASSUME NEW v \in member', Clean(v)', reacts'[v] = {}
               PROVE  registered' /\ \E h \in HandlersOf(v)' : h.act = "remove"
    BY DEF Leaving
  <2>1. CASE v = u
    <3>1. act = "remove"
      BY <2>1, <1>5
    <3>2. registered /\ up
      BY <2>1, <3>1, <1>1, <1>6
    <3> QED
      BY <2>1, <3>1, <3>2, <1>1, <1>2, <1>0 DEF HandlersOf
  <2>2. CASE v # u
    <3>1. v \in User /\ v \in member /\ Clean(v) /\ reacts[v] = {}
      BY <2>2, <1>1, <1>5, <1>7 DEF Clean
    <3>2. registered /\ \E h \in HandlersOf(v) : h.act = "remove"
      BY <3>1 DEF Leaving
    <3> QED
      BY <2>2, <3>2, <1>1, <1>9 DEF HandlersOf
  <2> QED
    BY <2>1, <2>2
<1>13. CommandsAddReactors'
  <2> SUFFICES ASSUME NEW c \in commands', NEW v \in c.reactors, Clean(v)'
               PROVE  reacts'[v] # {}
    BY DEF CommandsAddReactors
  <2>1. v # u
    BY <1>1, <1>6
  <2>2. v \in User
    BY DEF Clean
  <2> QED
    BY <2>1, <2>2, <1>1, <1>5, <1>7 DEF CommandsAddReactors
<1>14. Joining'
  <2> SUFFICES ASSUME NEW v \in User \ member', Clean(v)', reacts'[v] # {}
               PROVE  /\ commands' # {} => \E c \in commands' : Covers(c, v)'
                      /\ commands' = {} /\ registered' => \E h \in HandlersOf(v)' : h.act = "add"
    BY DEF Joining
  <2>1. CASE v = u
    <3>1. Clean(u) /\ up /\ HandlersOf(u) = {} /\ commands = {}
      BY <2>1, <1>6
    <3>2. act = "remove" => ~registered
      BY <2>1, <3>1, <1>1 DEF Joining
    <3> QED
      BY <2>1, <3>1, <3>2, <1>1, <1>2, <1>0 DEF HandlersOf
  <2>2. CASE v # u
    <3>1. v \in User \ member /\ Clean(v) /\ reacts'[v] = reacts[v]
      BY <2>2, <1>1, <1>5, <1>7
    <3>2. \A c \in commands : Covers(c, v)' <=> Covers(c, v)
      BY <3>1 DEF Covers
    <3>3. /\ commands # {} => \E c \in commands : Covers(c, v)
          /\ commands = {} /\ registered => \E h \in HandlersOf(v) : h.act = "add"
      BY <3>1 DEF Joining
    <3> QED
      BY <2>2, <3>2, <3>3, <1>1, <1>9 DEF HandlersOf
  <2> QED
    BY <2>1, <2>2
<1> QED
  BY <1>11, <1>12, <1>13, <1>14

-----------------------------------------------------------------------------
(***************************************************************************)
(* The ways a handler step can go for its user.                            *)
(***************************************************************************)
GivesUp(h) == Finish(h) /\ UNCHANGED member /\ dirty' = dirty \cup {h.user}

GoesOn(h) ==
    /\ UNCHANGED <<member, dirty>>
    /\ \E next : /\ Go(h, next)
                 /\ next.user = h.user /\ next.act = h.act /\ next.kept = h.kept
                 /\ next.still => h.still \/ reacts[h.user] # {}

\* There was nothing to do.
IsDone(h) ==
    /\ Finish(h) /\ UNCHANGED <<member, dirty>>
    /\ \/ ~registered
       \/ h.act = "remove" /\ reacts[h.user] # {}
       \/ h.act = "remove" /\ (h.still \/ h.user \notin member)
       \/ h.act = "add" /\ h.user \in member

Adds(h) == Finish(h) /\ h.act = "add" /\ member' = member \cup {h.user} /\ UNCHANGED dirty
Removes(h) == /\ Finish(h) /\ h.act = "remove" /\ h.kept = {}
              /\ member' = member \ {h.user} /\ UNCHANGED dirty

\* Each step of a handler goes one of these ways.
LEMMA Ways ==
    ASSUME IInv, NEW h \in handlers, HandlerStep(h)
    PROVE  /\ UNCHANGED <<reacts, registered, commands>>
           /\ GivesUp(h) \/ GoesOn(h) \/ IsDone(h) \/ Adds(h) \/ Removes(h)
<1> USE DEF IInv
<1>a. /\ h \in Handler /\ h.act \in {"add", "remove"}
      /\ h.at = "count" => h.act = "remove"
      /\ h.at = "take" => h.act = "remove" /\ h.kept = {}
      /\ h.at = "put" => h.act = "add"
  BY DEF TypeOK, Handler, Keeping, Counted
<1>b. ASSUME NEW at
      PROVE  /\ [h EXCEPT !.at = at].user = h.user /\ [h EXCEPT !.at = at].act = h.act
             /\ [h EXCEPT !.at = at].kept = h.kept /\ [h EXCEPT !.at = at].still = h.still
  BY <1>a DEF Handler
<1>c. ASSUME NEW at, Move(h, at), UNCHANGED <<member, dirty>>
      PROVE  GoesOn(h)
  BY <1>c, <1>b DEF Move, GoesOn
<1>d. GiveUp(h) /\ UNCHANGED member => GivesUp(h)
  BY DEF GiveUp, GivesUp
<1> USE DEF discord, process, Quiet
<1>1. CASE NewRider(h)
  BY <1>1, <1>c, <1>d DEF NewRider
<1>2. CASE CreateChannel(h)
  BY <1>2, <1>c, <1>d DEF CreateChannel
<1>3. CASE CheckThread(h)
  BY <1>3, <1>c, <1>d DEF CheckThread, IsDone
<1>4. CASE Refetch(h)
  <2> DEFINE next == [h EXCEPT !.at = IF InUse = {} THEN "members" ELSE "count", !.todo = InUse]
  <2>1. /\ next.user = h.user /\ next.act = h.act /\ next.kept = h.kept
        /\ next.still = h.still
    BY <1>a DEF Handler
  <2>2. Go(h, next) /\ UNCHANGED <<member, dirty>> => GoesOn(h)
    BY <2>1 DEF GoesOn
  <2> QED
    BY <1>4, <2>2, <1>d DEF Refetch
<1>5. CASE CountReactions(h)
  <2>1. CASE \E e \in h.todo :
               LET last == h.todo = {e}
                   still == h.still \/ e \in reacts[h.user]
               IN  IF last /\ still THEN Finish(h)
                   ELSE Go(h, [h EXCEPT !.todo = @ \ {e}, !.still = still,
                                        !.at = IF last THEN "members" ELSE "count"])
    <3>1. CASE Quiet
      <4>1. PICK e \in h.todo :
               LET last == h.todo = {e}
                   still == h.still \/ e \in reacts[h.user]
               IN  IF last /\ still THEN Finish(h)
                   ELSE Go(h, [h EXCEPT !.todo = @ \ {e}, !.still = still,
                                        !.at = IF last THEN "members" ELSE "count"])
        BY <2>1
      <4> DEFINE last == h.todo = {e}
                 still == h.still \/ e \in reacts[h.user]
                 next == [h EXCEPT !.todo = @ \ {e}, !.still = still,
                                   !.at = IF last THEN "members" ELSE "count"]
      <4>2. /\ next.user = h.user /\ next.act = h.act /\ next.kept = h.kept
            /\ next.still = still
        BY <1>a DEF Handler
      <4>3. still => h.still \/ reacts[h.user] # {}
        OBVIOUS
      <4>4. (still /\ Finish(h)) \/ Go(h, next)
        BY <4>1
      <4>5. h.act = "remove" /\ UNCHANGED <<member, dirty, reacts, registered, commands>>
        BY <1>5, <3>1, <1>a DEF CountReactions
      <4> HIDE DEF next, still
      <4>6. Go(h, next) => GoesOn(h)
        BY <4>2, <4>3, <4>5 DEF GoesOn
      <4>7. still /\ Finish(h) => IsDone(h)
        BY <4>3, <4>5 DEF IsDone
      <4> QED
        BY <4>4, <4>5, <4>6, <4>7
    <3>2. CASE ~Quiet
      BY <1>5, <3>2, <1>d DEF CountReactions
    <3> QED
      BY <3>1, <3>2
  <2>2. CASE GiveUp(h)
    BY <1>5, <2>2, <1>d DEF CountReactions
  <2> QED
    BY <1>5, <2>1, <2>2 DEF CountReactions
<1>6. CASE GetMembers(h)
  <2>1. CASE GiveUp(h)
    BY <1>6, <2>1, <1>d DEF GetMembers
  <2>2. CASE h.act = "add" /\ Fault /\ Move(h, "put") /\ UNCHANGED dirty
    BY <1>6, <2>2, <1>c DEF GetMembers
  <2>3. CASE /\ LET inside == h.user \in member
                IN  IF inside = (h.act = "add") THEN Finish(h)
                    ELSE Move(h, IF inside THEN "take" ELSE "put")
             /\ Quiet
    <3>1. CASE (h.user \in member) = (h.act = "add")
      BY <1>6, <2>3, <3>1, <1>a DEF GetMembers, IsDone
    <3>2. CASE (h.user \in member) # (h.act = "add")
      BY <1>6, <2>3, <3>2, <1>c DEF GetMembers
    <3> QED
      BY <3>1, <3>2
  <2> QED
    BY <1>6, <2>1, <2>2, <2>3 DEF GetMembers
<1>7. CASE AddUser(h)
  BY <1>7, <1>a, <1>d DEF AddUser, Adds
<1>8. CASE RemoveUser(h)
  BY <1>8, <1>a, <1>d DEF RemoveUser, Removes
<1> QED
  BY <1>1, <1>2, <1>3, <1>4, <1>5, <1>6, <1>7, <1>8 DEF HandlerStep

\* A handler that ends without effect leaves its user as he should be, or dirty.
LEMMA HandlerPromise ==
    ASSUME IInv, Promise, NEW h \in handlers, HandlerStep(h)
    PROVE  Promise'
<1> USE DEF IInv, Promise
<1>1. /\ UNCHANGED <<reacts, registered, commands>>
      /\ GivesUp(h) \/ GoesOn(h) \/ IsDone(h) \/ Adds(h) \/ Removes(h)
  BY Ways
<1>u. h.user \in User
  BY DEF TypeOK, Handler
\* Nothing changes for the others.
<1>2. ASSUME NEW v \in User
      PROVE  Clean(v)' => Clean(v)
  BY <1>1 DEF Clean, GivesUp, GoesOn, IsDone, Adds, Removes
<1>3. ASSUME NEW v \in User, v # h.user
      PROVE  v \in member' <=> v \in member
  BY <1>1, <1>3 DEF GivesUp, GoesOn, IsDone, Adds, Removes
<1>4. /\ \A k \in handlers' : k.user # h.user => k \in handlers
      /\ \A k \in handlers : k.user # h.user => k \in handlers'
  BY <1>1 DEF GivesUp, GoesOn, IsDone, Adds, Removes, Finish, Go
\* A clean user of h.
<1>5. ASSUME Clean(h.user)
      PROVE  /\ \A k \in handlers : k.user = h.user => k = h
             /\ h.kept = reacts[h.user]
             /\ h.act = "add" => reacts[h.user] # {}
             /\ h.still => reacts[h.user] # {}
  BY <1>5 DEF CleanHandlers
<1>6. ASSUME Clean(h.user)'
      PROVE  Clean(h.user) /\ ~GivesUp(h)
  BY <1>1, <1>2, <1>6, <1>u DEF Clean, GivesUp
<1>7. CleanHandlers'
  <2> SUFFICES ASSUME NEW j \in handlers', Clean(j.user)'
               PROVE  /\ \A k \in handlers' : k.user = j.user => k = j
                      /\ j.kept = reacts[j.user]
                      /\ j.act = "add" => reacts[j.user] # {}
                      /\ j.still => reacts[j.user] # {}
    BY <1>1 DEF CleanHandlers
  <2>1. CASE j.user = h.user
    <3>1. Clean(h.user) /\ ~GivesUp(h)
      BY <2>1, <1>6
    <3>2. ~Finish(h)
      BY <2>1, <3>1, <1>5 DEF Finish
    <3>3. GoesOn(h)
      BY <3>1, <3>2, <1>1 DEF IsDone, Adds, Removes
    <3>4. PICK next : /\ Go(h, next)
                      /\ next.user = h.user /\ next.act = h.act /\ next.kept = h.kept
                      /\ next.still => h.still \/ reacts[h.user] # {}
      BY <3>3 DEF GoesOn
    <3>5. \A k \in handlers' : k.user = h.user => k = next
      BY <3>1, <3>4, <1>5 DEF Go
    <3> QED
      BY <2>1, <3>1, <3>4, <3>5, <1>5
  <2>2. CASE j.user # h.user
    <3>1. j \in handlers
      BY <2>2, <1>4
    <3>2. j.user \in User
      BY <3>1 DEF TypeOK, Handler
    <3>3. Clean(j.user)
      BY <3>2, <1>2
    <3> QED
      BY <2>2, <3>1, <3>3, <1>4 DEF CleanHandlers
  <2> QED
    BY <2>1, <2>2
<1>8. Leaving'
  <2> SUFFICES ASSUME NEW v \in member', Clean(v)', reacts[v] = {}
               PROVE  registered /\ \E k \in HandlersOf(v)' : k.act = "remove"
    BY <1>1 DEF Leaving
  <2>1. v \in User /\ Clean(v)
    BY <1>2 DEF Clean
  <2>2. CASE v # h.user
    <3>1. registered /\ \E k \in HandlersOf(v) : k.act = "remove"
      BY <2>1, <2>2, <1>3 DEF Leaving
    <3> QED
      BY <2>1, <2>2, <3>1, <1>4 DEF HandlersOf
  <2>3. CASE v = h.user
    <3>1. h.act # "add" /\ ~h.still /\ h.kept = {} /\ ~GivesUp(h)
      BY <2>1, <2>3, <1>5, <1>6
    <3>2. ~Adds(h) /\ ~Removes(h)
      BY <2>3, <3>1 DEF Adds, Removes
    <3>3. v \in member
      BY <3>1, <3>2, <1>1 DEF GoesOn, IsDone
    <3>4. registered /\ \E k \in HandlersOf(v) : k.act = "remove"
      BY <2>1, <3>3 DEF Leaving
    <3>5. h.act = "remove"
      BY <2>1, <2>3, <3>4, <1>5 DEF HandlersOf
    <3>6. ~IsDone(h)
      BY <2>3, <3>1, <3>3, <3>4 DEF IsDone
    <3>7. GoesOn(h)
      BY <1>1, <3>1, <3>2, <3>6
    <3> QED
      BY <2>3, <3>4, <3>5, <3>7 DEF GoesOn, Go, HandlersOf
  <2> QED
    BY <2>2, <2>3
<1>9. CommandsAddReactors'
  <2> SUFFICES ASSUME NEW c \in commands, NEW v \in c.reactors, Clean(v)'
               PROVE  reacts[v] # {}
    BY <1>1 DEF CommandsAddReactors
  <2>1. v \in User
    BY DEF Clean
  <2> QED
    BY <2>1, <1>2 DEF CommandsAddReactors
<1>10. Joining'
  <2> SUFFICES ASSUME NEW v \in User \ member', Clean(v)', reacts[v] # {}
               PROVE  /\ commands # {} => \E c \in commands : Covers(c, v)
                      /\ commands = {} /\ registered => \E k \in HandlersOf(v)' : k.act = "add"
    BY <1>1 DEF Joining, Covers
  <2>1. Clean(v)
    BY <1>2
  <2>2. CASE v # h.user
    <3>1. v \notin member
      BY <2>2, <1>3
    <3>2. /\ commands # {} => \E c \in commands : Covers(c, v)
          /\ commands = {} /\ registered => \E k \in HandlersOf(v) : k.act = "add"
      BY <2>1, <3>1 DEF Joining
    <3> QED
      BY <2>2, <3>2, <1>4 DEF HandlersOf
  <2>3. CASE v = h.user
    <3>1. h.kept # {} /\ ~GivesUp(h)
      BY <2>1, <2>3, <1>5, <1>6
    <3>2. ~Adds(h) /\ ~Removes(h)
      BY <2>3, <3>1 DEF Adds, Removes
    <3>3. v \notin member
      BY <3>1, <3>2, <1>1 DEF GoesOn, IsDone
    <3>4. /\ commands # {} => \E c \in commands : Covers(c, v)
          /\ commands = {} /\ registered => \E k \in HandlersOf(v) : k.act = "add"
      BY <2>1, <3>3 DEF Joining
    <3>5. ASSUME commands = {}, registered
          PROVE  \E k \in HandlersOf(v)' : k.act = "add"
      <4>1. h.act = "add"
        BY <2>1, <2>3, <3>4, <3>5, <1>5 DEF HandlersOf
      <4>2. ~IsDone(h)
        BY <2>3, <3>3, <3>5, <4>1 DEF IsDone
      <4>3. GoesOn(h)
        BY <1>1, <3>1, <3>2, <4>2
      <4> QED
        BY <2>3, <4>1, <4>3 DEF GoesOn, Go, HandlersOf
    <3> QED
      BY <3>4, <3>5
  <2> QED
    BY <2>2, <2>3
<1> QED
  BY <1>7, <1>8, <1>9, <1>10

-----------------------------------------------------------------------------
(***************************************************************************)
(* Commands: what a command covers stays covered until it has been added.  *)
(***************************************************************************)
\* A command that fails leaves nobody clean.
LEMMA AllDirty ==
    ASSUME dirty' = User
    PROVE  Promise'
<1>1. \A u : ~Clean(u)'
  BY DEF Clean
<1> QED
  BY <1>1 DEF Promise, CleanHandlers, Leaving, CommandsAddReactors, Joining

\* What command c hands on: whom it covers it has made a member, or given up,
\* or whatever comes in its place covers; and only reactors are to be added.
HandsOn(c) ==
    \E nexts :
      /\ commands' = (commands \ {c}) \cup nexts
      /\ \A next \in nexts : \A u \in next.reactors :
            u \in c.reactors \/ (u \in User /\ reacts[u] # {})
      /\ \A u \in User : Covers(c, u) /\ reacts[u] # {} =>
            u \in member' \/ u \in dirty' \/ \E next \in nexts : Covers(next, u)

Grows(c) ==
    /\ UNCHANGED <<reacts, handlers>>
    /\ member \subseteq member' /\ member' \ member \subseteq c.reactors
    /\ registered => registered'
    /\ dirty \subseteq dirty'

\* A command may leave once all it covers are taken care of ...
LEMMA LeaveHandsOn ==
    ASSUME NEW c, Leave(c),
           \A u \in User : Covers(c, u) /\ reacts[u] # {} => u \in member' \/ u \in dirty'
    PROVE  HandsOn(c)
<1>1. commands' = (commands \ {c}) \cup {}
  BY DEF Leave
<1> HIDE DEF Covers
<1> QED
  BY <1>1 DEF HandsOn

\* ... or goes on, covering those that are left.
LEMMA ReplaceHandsOn ==
    ASSUME NEW c, NEW next, Replace(c, next),
           \A u \in next.reactors : u \in c.reactors \/ (u \in User /\ reacts[u] # {}),
           \A u \in User : Covers(c, u) /\ reacts[u] # {} =>
              u \in member' \/ u \in dirty' \/ Covers(next, u)
    PROVE  HandsOn(c)
<1>1. commands' = (commands \ {c}) \cup {next}
  BY DEF Replace
<1> HIDE DEF Covers
<1> QED
  BY <1>1 DEF HandsOn

\* What comes after the bulk add covers nobody.
LEMMA AfterBulkHandsOn ==
    ASSUME NEW c \in Command, AfterBulk(c),
           \A u \in User : Covers(c, u) /\ reacts[u] # {} => u \in member' \/ u \in dirty'
    PROVE  HandsOn(c)
<1>1. [c EXCEPT !.at = "register"].reactors = c.reactors
  BY DEF Command
<1> QED
  BY <1>1, LeaveHandsOn, ReplaceHandsOn DEF AfterBulk

\* A command breaks, which leaves nobody clean, or hands on what it covers.
LEMMA CommandWays ==
    ASSUME IInv, NEW c \in commands, CommandStep(c)
    PROVE  dirty' = User \/ (Grows(c) /\ HandsOn(c))
<1> USE DEF IInv
<1>a. c \in Command /\ reacts \in [User -> SUBSET Emoji]
  BY DEF TypeOK
<1>b. Break(c) => dirty' = User
  BY DEF Break
<1> USE DEF discord, process, Quiet
<1>1. CASE CheckNew(c)
  <2> DEFINE next == [c EXCEPT !.at = "fetch"]
  <2>1. next.at = "fetch" /\ next.reactors = c.reactors
    BY <1>a DEF Command
  <2>2. Replace(c, next) => HandsOn(c)
    BY <2>1, ReplaceHandsOn DEF Covers
  <2> QED
    BY <1>1, <2>2, <1>b DEF CheckNew, Grows
<1>2. CASE FetchStarter(c)
  <2> DEFINE next == [c EXCEPT !.at = "gather", !.todo = InUse]
  <2>1. next.at = "gather" /\ next.reactors = c.reactors /\ next.todo = InUse
    BY <1>a DEF Command
  <2>2. \A u \in User : reacts[u] # {} => reacts[u] \cap InUse # {}
    BY UsedEmoji, <1>a
  <2>3. Replace(c, next) => HandsOn(c)
    BY <2>1, <2>2, ReplaceHandsOn DEF Covers
  <2>4. InUse = {} /\ AfterBulk(c) => HandsOn(c)
    BY <2>2, <1>a, AfterBulkHandsOn
  <2> QED
    BY <1>2, <2>3, <2>4, <1>b DEF FetchStarter, Grows
<1>3. CASE Gather(c)
  <2>1. CASE Break(c)
    BY <2>1, <1>b
  <2>2. CASE ~Break(c)
    <3>1. PICK e \in c.todo :
             LET found == c.reactors \cup {u \in User : e \in reacts[u]}
             IN  IF c.todo # {e}
                 THEN Replace(c, [c EXCEPT !.todo = @ \ {e}, !.reactors = found])
                 ELSE IF found = {} THEN AfterBulk(c)
                 ELSE Replace(c, [c EXCEPT !.at = "members", !.todo = {}, !.reactors = found])
      BY <1>3, <2>2 DEF Gather
    <3> DEFINE found == c.reactors \cup {u \in User : e \in reacts[u]}
               more == [c EXCEPT !.todo = @ \ {e}, !.reactors = found]
               all == [c EXCEPT !.at = "members", !.todo = {}, !.reactors = found]
    <3>2. /\ more.at = "gather" /\ more.todo = c.todo \ {e} /\ more.reactors = found
          /\ all.at = "members" /\ all.reactors = found
      BY <1>3, <1>a DEF Gather, Command
    <3>3. c.at = "gather"
      BY <1>3 DEF Gather
    <3>4. \A u \in User : Covers(c, u) => u \in found \/ reacts[u] \cap (c.todo \ {e}) # {}
      BY <3>3, <1>a DEF Covers
    <3>5. \A u \in found : u \in c.reactors \/ (u \in User /\ reacts[u] # {})
      OBVIOUS
    <3>6. (c.todo # {e} /\ Replace(c, more)) \/ (c.todo = {e} /\ found = {} /\ AfterBulk(c))
          \/ (c.todo = {e} /\ Replace(c, all))
      BY <3>1
    <3> HIDE DEF found, more, all
    <3>7. Replace(c, more) => HandsOn(c)
      BY <3>2, <3>4, <3>5, ReplaceHandsOn DEF Covers
    <3>8. c.todo = {e} /\ found = {} /\ AfterBulk(c) => HandsOn(c)
      BY <3>4, <1>a, AfterBulkHandsOn
    <3>9. c.todo = {e} /\ Replace(c, all) => HandsOn(c)
      BY <3>2, <3>4, <3>5, ReplaceHandsOn DEF Covers
    <3>10. Grows(c)
      BY <1>3, <2>2 DEF Gather, Grows
    <3> QED
      BY <3>6, <3>7, <3>8, <3>9, <3>10
  <2> QED
    BY <2>1, <2>2
<1>4. CASE SkipMembers(c)
  <2> DEFINE missing == c.reactors \ member
             rest == [c EXCEPT !.at = "add", !.reactors = missing]
             same == [c EXCEPT !.at = "add"]
  <2>1. /\ rest.at = "add" /\ rest.reactors = missing
        /\ same.at = "add" /\ same.reactors = c.reactors
    BY <1>a DEF Command
  <2>2. \A u \in User : Covers(c, u) => u \in c.reactors
    BY <1>4 DEF SkipMembers, Covers
  <2>3. UNCHANGED member /\ missing = {} /\ AfterBulk(c) => HandsOn(c)
    BY <2>2, <1>a, AfterBulkHandsOn
  <2>4. UNCHANGED member /\ Replace(c, rest) => HandsOn(c)
    BY <2>1, <2>2, ReplaceHandsOn DEF Covers
  <2>5. Replace(c, same) => HandsOn(c)
    BY <2>1, <2>2, ReplaceHandsOn DEF Covers
  <2> QED
    BY <1>4, <2>3, <2>4, <2>5, <1>b DEF SkipMembers, Grows
<1>5. CASE AddReactor(c)
  <2>1. CASE Break(c)
    BY <2>1, <1>b
  <2>2. CASE ~Break(c)
    <3>1. PICK u \in c.reactors :
             /\ IF c.reactors = {u} THEN AfterBulk(c)
                ELSE Replace(c, [c EXCEPT !.reactors = @ \ {u}])
             /\ \/ member' = member \cup {u} /\ Quiet
                \/ Fault /\ dirty' = dirty \cup {u} /\ UNCHANGED member
      BY <1>5, <2>2 DEF AddReactor
    <3> DEFINE rest == [c EXCEPT !.reactors = @ \ {u}]
    <3>2. c.at = "add" /\ rest.at = "add" /\ rest.reactors = c.reactors \ {u}
      BY <1>5, <1>a DEF AddReactor, Command
    <3>3. \A v \in User : Covers(c, v) => v \in c.reactors
      BY <3>2 DEF Covers
    <3>4. u \in member' \/ u \in dirty'
      BY <3>1
    <3>5. c.reactors = {u} /\ AfterBulk(c) => HandsOn(c)
      BY <3>3, <3>4, <1>a, AfterBulkHandsOn
    <3>6. Replace(c, rest) => HandsOn(c)
      BY <3>2, <3>3, <3>4, ReplaceHandsOn DEF Covers
    <3>7. Grows(c)
      BY <1>5, <3>1 DEF AddReactor, Grows
    <3> QED
      BY <3>1, <3>5, <3>6, <3>7
  <2> QED
    BY <2>1, <2>2
<1>6. CASE Register(c)
  <2>1. \A u \in User : ~Covers(c, u)
    BY <1>6 DEF Register, Covers
  <2>2. Leave(c) => HandsOn(c)
    BY <2>1, LeaveHandsOn
  <2> QED
    BY <1>6, <2>2, <1>b DEF Register, Grows
<1> QED
  BY <1>1, <1>2, <1>3, <1>4, <1>5, <1>6 DEF CommandStep

\* So no command loses a user another part relies on it to add.
LEMMA CommandPromise ==
    ASSUME IInv, Promise, NEW c \in commands, CommandStep(c)
    PROVE  Promise'
<1> USE DEF IInv, Promise
<1>1. CASE dirty' = User
  BY <1>1, AllDirty
<1>2. CASE Grows(c) /\ HandsOn(c)
  <2>1. \A u : Clean(u)' => Clean(u)
    BY <1>2 DEF Grows, Clean
  <2>2. CleanHandlers'
    BY <1>2, <2>1 DEF Grows, CleanHandlers
  <2>3. Leaving'
    <3> SUFFICES ASSUME NEW u \in member', Clean(u)', reacts[u] = {}
                 PROVE  registered' /\ \E h \in HandlersOf(u) : h.act = "remove"
      BY <1>2 DEF Leaving, Grows, HandlersOf
    <3>1. Clean(u) /\ u \in member
      BY <1>2, <2>1 DEF Grows, CommandsAddReactors
    <3> QED
      BY <1>2, <3>1 DEF Grows, Leaving
  <2>4. PICK nexts :
           /\ commands' = (commands \ {c}) \cup nexts
           /\ \A next \in nexts : \A u \in next.reactors :
                 u \in c.reactors \/ (u \in User /\ reacts[u] # {})
           /\ \A u \in User : Covers(c, u) /\ reacts[u] # {} =>
                 u \in member' \/ u \in dirty' \/ \E next \in nexts : Covers(next, u)
    BY <1>2 DEF HandsOn
  <2>5. CommandsAddReactors'
    <3> SUFFICES ASSUME NEW k \in commands', NEW u \in k.reactors, Clean(u)'
                 PROVE  reacts[u] # {}
      BY <1>2 DEF Grows, CommandsAddReactors
    <3> QED
      BY <2>1, <2>4 DEF CommandsAddReactors
  <2>6. Joining'
    <3> SUFFICES ASSUME NEW u \in User \ member', Clean(u)', reacts[u] # {}
                 PROVE  \E k \in commands' : Covers(k, u)'
      BY <1>2 DEF Grows, Joining
    <3>1. \A k : Covers(k, u)' <=> Covers(k, u)
      BY <1>2 DEF Grows, Covers
    <3>2. Clean(u) /\ u \notin member /\ u \notin dirty'
      BY <1>2, <2>1 DEF Grows, Clean
    <3>3. PICK k \in commands : Covers(k, u)
      BY <3>2 DEF Joining
    <3>4. CASE k = c
      BY <3>1, <3>2, <3>3, <3>4, <2>4
    <3>5. CASE k # c
      BY <3>1, <3>3, <3>5, <2>4
    <3> QED
      BY <3>4, <3>5
  <2> QED
    BY <2>2, <2>3, <2>5, <2>6
<1> QED
  BY <1>1, <1>2, CommandWays

-----------------------------------------------------------------------------
(***************************************************************************)
(* The other steps, and the theorem.                                       *)
(***************************************************************************)
\* Steps that touch none of this.
LEMMA NothingChanges ==
    ASSUME Promise, UNCHANGED <<reacts, member, registered, handlers, commands, dirty>>
    PROVE  Promise'
  BY DEF Promise, CleanHandlers, Leaving, CommandsAddReactors, Joining, Covers, Clean, HandlersOf

\* A command that is given covers everyone, those of its reactors too whom
\* nothing had been promised so far.
LEMMA GivePromise ==
    ASSUME IInv, Promise, NEW kind \in {"create", "bulk"}, Give(kind)
    PROVE  Promise'
<1> DEFINE new == [kind |-> kind, nr |-> given, todo |-> {}, reactors |-> {},
                   at |-> IF kind = "create" THEN "check" ELSE "fetch"]
<1>1. /\ commands' = commands \cup {new}
      /\ dirty' = {u \in dirty : reacts[u] = {} \/ HandlersOf(u) # {}}
      /\ UNCHANGED <<reacts, member, registered, handlers>>
  BY DEF Give, discord
<1>2. new.reactors = {} /\ new.at \in {"check", "fetch"}
  OBVIOUS
<1> HIDE DEF new
<1>3. \A u : Clean(u)' => Clean(u) \/ (reacts[u] # {} /\ HandlersOf(u) = {})
  BY <1>1 DEF Clean
<1>4. CleanHandlers'
  <2>1. \A h \in handlers : Clean(h.user)' => Clean(h.user)
    BY <1>3 DEF HandlersOf
  <2> QED
    BY <1>1, <2>1 DEF Promise, CleanHandlers
<1>5. Leaving'
  BY <1>1, <1>3 DEF Promise, Leaving, HandlersOf
<1>6. CommandsAddReactors'
  BY <1>1, <1>2, <1>3 DEF Promise, CommandsAddReactors
<1>7. Joining'
  <2>1. \A c, u : c.at \in {"check", "fetch"} => Covers(c, u)'
    BY DEF Covers
  <2> QED
    BY <1>1, <1>2, <2>1 DEF Joining
<1> QED
  BY <1>4, <1>5, <1>6, <1>7 DEF Promise

\* Ending the thread makes the users with a handler dirty: it will do nothing more.
LEMMA EndPromise ==
    ASSUME IInv, Promise, End
    PROVE  Promise'
<1>1. /\ registered' = FALSE /\ dirty' = dirty \cup {h.user : h \in handlers}
      /\ UNCHANGED <<reacts, member, handlers, commands>>
  BY DEF End, discord
<1>2. \A u : Clean(u)' => Clean(u) /\ HandlersOf(u) = {}
  BY <1>1 DEF Clean, HandlersOf
<1>3. CleanHandlers'
  BY <1>1, <1>2 DEF Promise, CleanHandlers
<1>4. Leaving'
  BY <1>1, <1>2 DEF Promise, Leaving
<1>5. CommandsAddReactors'
  BY <1>1, <1>2 DEF Promise, CommandsAddReactors
<1>6. Joining'
  BY <1>1, <1>2 DEF Promise, Joining, Covers
<1> QED
  BY <1>3, <1>4, <1>5, <1>6 DEF Promise

\* A crash does so too, and takes the commands along.
LEMMA CrashPromise ==
    ASSUME IInv, Promise, Crash
    PROVE  Promise'
<1>1. CASE commands # {}
  BY <1>1, AllDirty DEF Crash
<1>2. CASE commands = {}
  <2>1. /\ handlers' = {} /\ commands' = {} /\ dirty' = dirty \cup {h.user : h \in handlers}
        /\ UNCHANGED <<reacts, member, registered>>
    BY <1>2 DEF Crash, discord
  <2>2. \A u : Clean(u)' => Clean(u) /\ HandlersOf(u) = {}
    BY <2>1 DEF Clean, HandlersOf
  <2>3. CleanHandlers' /\ CommandsAddReactors'
    BY <2>1 DEF CleanHandlers, CommandsAddReactors
  <2>4. Leaving'
    BY <2>1, <2>2 DEF Promise, Leaving
  <2>5. Joining'
    BY <1>2, <2>1, <2>2 DEF Promise, Joining
  <2> QED
    BY <2>3, <2>4, <2>5 DEF Promise
<1> QED
  BY <1>1, <1>2

\* The promise is inductive relative to the invariant of ReactionsProofs.
LEMMA StepPromise == IInv /\ Promise /\ [Next]_vars => Promise'
<1> SUFFICES ASSUME IInv, Promise, [Next]_vars PROVE Promise'
  OBVIOUS
<1>1. ASSUME NEW u \in User, NEW e \in Emoji, React(u, e) \/ Unreact(u, e)
      PROVE  Promise'
  <2>1. reacts[u] \in SUBSET Emoji
    BY DEF IInv, TypeOK
  <2>2. CASE React(u, e)
    BY <2>1, <2>2, ReactingPromise DEF React
  <2>3. CASE Unreact(u, e)
    BY <2>1, <2>3, ReactingPromise DEF Unreact
  <2> QED
    BY <1>1, <2>2, <2>3
<1>2. CASE (\E u \in User : Locate(u)) \/ Boot \/ UNCHANGED vars
  BY <1>2, NothingChanges DEF Locate, Boot, vars, discord
<1> QED
  BY <1>1, <1>2, HandlerPromise, CommandPromise, GivePromise, EndPromise, CrashPromise DEF Next

\* Once a user's handlers and all commands are over, he is a member of the
\* registered thread exactly if he has a reaction: whatever the interleaving,
\* for any users, emojis and bounds.
THEOREM MembersMatch == Spec => []QuietMatches
<1>1. Promise => QuietMatches
  <2> SUFFICES ASSUME Promise, registered, commands = {},
                      NEW u \in User \ dirty, HandlersOf(u) = {}
               PROVE  u \in member <=> reacts[u] # {}
    BY DEF QuietMatches
  <2>1. u \in member => reacts[u] # {}
    BY DEF Promise, Leaving, Clean
  <2>2. reacts[u] # {} => u \in member
    BY DEF Promise, Joining, Clean
  <2> QED
    BY <2>1, <2>2
<1> QED
  BY <1>1, InitPromise, StepPromise, Invariance, PTL DEF Spec
=============================================================================

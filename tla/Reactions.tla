----------------------------- MODULE Reactions ------------------------------
(***************************************************************************)
(* What the reactions to one announcement bring about: the members of the  *)
(* event thread that hangs on it, and the private channel made for a rider *)
(* whose location is not known.  Every reaction added or removed starts a  *)
(* handler of the Reactions cog; coordinators create and end the event     *)
(* thread, and add everyone who reacted, by commands.  Handlers and        *)
(* commands stop at each call of Discord or of the database, and any       *)
(* number of them run at once.                                             *)
(***************************************************************************)
EXTENDS Integers

CONSTANTS
    User,          \* members of the guild who are not bots
    Emoji,
    Located,       \* riders whose location is known at the start
    MaxReactions,  \* bound: reactions added and removed
    MaxCommands,   \* bound: commands given, and locations learnt
    MaxFaults      \* bound: crashes and failed calls

ASSUME RiderAssumption == Located \subseteq User
ASSUME BoundsAssumption == MaxReactions \in Nat /\ MaxCommands \in Nat /\ MaxFaults \in Nat

VARIABLES
    up,           \* the process runs
    reacts,       \* reactions each user has on the message, on Discord
    member,       \* members of the thread, on Discord
    channels,     \* how many private channels each user has, on Discord
    registered,   \* the row in event_threads
    located,      \* riders whose location is known
    handlers,     \* reaction handlers under way
    commands,     \* commands under way
    reactions, given, faults,   \* how much of each bound is used up
    overlapped,   \* history: users who reacted while a handler of theirs ran
    dirty         \* history: users whose membership nothing promises

vars == <<up, reacts, member, channels, registered, located, handlers, commands,
          reactions, given, faults, overlapped, dirty>>

\* kept is history: the reactions the user has had ever since the handler began.
Handler == [user : User, nr : Nat, act : {"add", "remove"},
            at : {"rider", "create", "thread", "refetch", "count",
                  "members", "put", "take"},
            todo : SUBSET Emoji,     \* emojis still to be counted
            still : BOOLEAN,         \* the count so far is not zero
            kept : SUBSET Emoji]

Command == [kind : {"create", "bulk"}, nr : Nat,
            at : {"check", "fetch", "gather", "members", "add", "register"},
            todo : SUBSET Emoji,     \* emojis whose users are still to be read
            reactors : SUBSET User]  \* users found so far, then users still to add

HandlersOf(u) == {h \in handlers : h.user = u}
InUse == UNION {reacts[u] : u \in User}

TypeOK ==
    /\ up \in BOOLEAN
    /\ reacts \in [User -> SUBSET Emoji]
    /\ member \subseteq User
    /\ channels \in [User -> Nat]
    /\ registered \in BOOLEAN
    /\ located \subseteq User
    /\ handlers \subseteq Handler /\ commands \subseteq Command
    /\ \A h \in handlers :
          /\ h.at = "count" => h.todo # {} /\ h.act = "remove"
          /\ h.at \in {"refetch", "take"} => h.act = "remove"
          /\ h.at \in {"rider", "create", "put"} => h.act = "add"
    /\ \A c \in commands :
          /\ c.at = "gather" => c.todo # {}
          /\ c.at \in {"members", "add"} => c.reactors # {}
          /\ c.at \in {"check", "register"} => c.kind = "create"
    /\ ~up => handlers = {} /\ commands = {}
    /\ reactions \in 0..MaxReactions /\ given \in 0..MaxCommands /\ faults \in 0..MaxFaults
    /\ overlapped \subseteq User /\ dirty \subseteq User

Init ==
    /\ up = TRUE
    /\ reacts = [u \in User |-> {}]
    /\ member = {} /\ channels = [u \in User |-> 0]
    /\ registered = FALSE /\ located = Located
    /\ handlers = {} /\ commands = {}
    /\ reactions = 0 /\ given = 0 /\ faults = 0
    /\ overlapped = {} /\ dirty = {}

Fault == faults < MaxFaults /\ faults' = faults + 1
discord == <<reacts, reactions, overlapped>>
process == <<up, given>>

-----------------------------------------------------------------------------
(***************************************************************************)
(* Users.                                                                  *)
(***************************************************************************)
\* A user promises himself nothing if his reaction comes while the process is
\* down, while a handler of his or a command runs, or if he takes it back
\* when the thread he is in is not registered.
Disturbed(u, act) ==
    \/ ~up \/ HandlersOf(u) # {} \/ commands # {}
    \/ act = "remove" /\ ~registered /\ u \in member

Reacting(u, act, has) ==
    /\ reactions < MaxReactions
    /\ reactions' = reactions + 1
    /\ reacts' = [reacts EXCEPT ![u] = has]
    /\ overlapped' = IF HandlersOf(u) # {} THEN overlapped \cup {u} ELSE overlapped
    /\ dirty' = IF Disturbed(u, act) THEN dirty \cup {u} ELSE dirty
    /\ LET older == {IF h.user = u THEN [h EXCEPT !.kept = @ \cap has] ELSE h : h \in handlers}
           new == [user |-> u, nr |-> reactions, act |-> act, at |-> IF act = "add" THEN "rider" ELSE "thread",
                   todo |-> {}, still |-> FALSE, kept |-> has]
       IN  handlers' = older \cup (IF up THEN {new} ELSE {})
    /\ UNCHANGED <<process, member, channels, registered, located, commands, faults>>

React(u, e) == e \notin reacts[u] /\ Reacting(u, "add", reacts[u] \cup {e})
Unreact(u, e) == e \in reacts[u] /\ Reacting(u, "remove", reacts[u] \ {e})

\* A coordinator enters the location of a rider.
Locate(u) ==
    /\ given < MaxCommands /\ u \notin located
    /\ given' = given + 1
    /\ located' = located \cup {u}
    /\ UNCHANGED <<discord, up, member, channels, registered, handlers, commands, faults, dirty>>

-----------------------------------------------------------------------------
(***************************************************************************)
(* Reaction handlers.                                                      *)
(***************************************************************************)
Go(h, next) == handlers' = (handlers \ {h}) \cup {next}
Move(h, at) == Go(h, [h EXCEPT !.at = at])
Finish(h) == handlers' = handlers \ {h}

\* A call that fails ends the thread part of the handler: caught and logged.
GiveUp(h) == Fault /\ Finish(h) /\ dirty' = dirty \cup {h.user}
Quiet == UNCHANGED <<faults, dirty>>

\* Variant: no look for a channel the rider has already.
NewRiderUnchecked(h) ==
    /\ h.at = "rider"
    /\ Move(h, IF h.user \notin located THEN "create" ELSE "thread") /\ Quiet
    /\ UNCHANGED <<discord, process, member, channels, registered, located, commands>>

\* _handle_reaction_add fetches the message (if that fails the handler ends), then
\* _new_rides_helper, and handle_new_rider_reaction up to its first await: an
\* error there is logged, and the handler goes on to the thread.
NewRider(h) ==
    /\ h.at = "rider"
    /\ LET needs == h.user \notin located /\ channels[h.user] = 0
       IN  \/ Move(h, IF needs THEN "create" ELSE "thread") /\ Quiet
           \/ needs /\ Fault /\ Move(h, "thread") /\ UNCHANGED dirty
           \/ GiveUp(h)
    /\ UNCHANGED <<discord, process, member, channels, registered, located, commands>>

CreateChannel(h) ==
    /\ h.at = "create"
    /\ \/ channels' = [channels EXCEPT ![h.user] = @ + 1] /\ UNCHANGED faults
       \/ Fault /\ UNCHANGED channels
    /\ Move(h, "thread")
    /\ UNCHANGED <<discord, process, member, registered, located, commands, dirty>>

\* is_event_thread.  (_handle_reaction_remove has fetched the message first.)
CheckThread(h) ==
    /\ h.at = "thread"
    /\ \/ registered /\ Move(h, IF h.act = "add" THEN "members" ELSE "refetch") /\ Quiet
       \/ ~registered /\ Finish(h) /\ Quiet
       \/ GiveUp(h)
    /\ UNCHANGED <<discord, process, member, channels, registered, located, commands>>

\* remove_reactor_from_thread reads which emojis the message has ...
Refetch(h) ==
    /\ h.at = "refetch"
    /\ \/ /\ Go(h, [h EXCEPT !.at = IF InUse = {} THEN "members" ELSE "count", !.todo = InUse])
          /\ Quiet
       \/ GiveUp(h)
    /\ UNCHANGED <<discord, process, member, channels, registered, located, commands>>

\* Variant: the emoji that is read last is not counted.
CountReactionsButOne(h) ==
    /\ h.at = "count"
    /\ \E e \in h.todo :
         LET last == h.todo = {e}
             still == h.still \/ (~last /\ e \in reacts[h.user])
         IN  IF last /\ still THEN Finish(h)
             ELSE Go(h, [h EXCEPT !.todo = @ \ {e}, !.still = still,
                                  !.at = IF last THEN "members" ELSE "count"])
    /\ Quiet
    /\ UNCHANGED <<discord, process, member, channels, registered, located, commands>>

\* ... and then asks, emoji by emoji, who has it: _count_user_reactions.
CountReactions(h) ==
    /\ h.at = "count"
    /\ \/ /\ \E e \in h.todo :
               LET last == h.todo = {e}
                   still == h.still \/ e \in reacts[h.user]
               IN  IF last /\ still THEN Finish(h)
                   ELSE Go(h, [h EXCEPT !.todo = @ \ {e}, !.still = still,
                                        !.at = IF last THEN "members" ELSE "count"])
          /\ Quiet
       \/ GiveUp(h)
    /\ UNCHANGED <<discord, process, member, channels, registered, located, commands>>

\* _get_thread_members; if it fails the thread is taken to have no members.
GetMembers(h) ==
    /\ h.at = "members"
    /\ \/ /\ LET inside == h.user \in member
             IN  IF inside = (h.act = "add") THEN Finish(h)
                 ELSE Move(h, IF inside THEN "take" ELSE "put")
          /\ Quiet
       \/ h.act = "add" /\ Fault /\ Move(h, "put") /\ UNCHANGED dirty
       \/ h.act = "remove" /\ GiveUp(h)
    /\ UNCHANGED <<discord, process, member, channels, registered, located, commands>>

AddUser(h) ==
    /\ h.at = "put"
    /\ \/ member' = member \cup {h.user} /\ Finish(h) /\ Quiet
       \/ GiveUp(h) /\ UNCHANGED member
    /\ UNCHANGED <<discord, process, channels, registered, located, commands>>

RemoveUser(h) ==
    /\ h.at = "take"
    /\ \/ member' = member \ {h.user} /\ Finish(h) /\ Quiet
       \/ GiveUp(h) /\ UNCHANGED member
    /\ UNCHANGED <<discord, process, channels, registered, located, commands>>

HandlerStep(h) ==
    \/ NewRider(h) \/ CreateChannel(h) \/ CheckThread(h) \/ Refetch(h)
    \/ CountReactions(h) \/ GetMembers(h) \/ AddUser(h) \/ RemoveUser(h)

-----------------------------------------------------------------------------
(***************************************************************************)
(* Commands: /create-event-thread, /add-reacts-to-thread (a bulk add) and  *)
(* /end-event-thread.                                                      *)
(***************************************************************************)
Give(kind) ==
    /\ up /\ given < MaxCommands
    /\ given' = given + 1
    /\ commands' = commands \cup {[kind |-> kind, nr |-> given, todo |-> {}, reactors |-> {},
                                   at |-> IF kind = "create" THEN "check" ELSE "fetch"]}
    \* It is to add whoever has reacted by now.
    /\ dirty' = {u \in dirty : reacts[u] = {} \/ HandlersOf(u) # {}}
    /\ UNCHANGED <<discord, up, member, channels, registered, located, handlers, faults>>

Replace(c, next) == commands' = (commands \ {c}) \cup {next}
Leave(c) == commands' = commands \ {c}
Break(c) == Fault /\ Leave(c) /\ dirty' = User

\* What follows when the bulk add is over.
AfterBulk(c) == IF c.kind = "create" THEN Replace(c, [c EXCEPT !.at = "register"]) ELSE Leave(c)

CheckNew(c) ==
    /\ c.at = "check"
    /\ \/ registered /\ Leave(c) /\ dirty' = User /\ UNCHANGED faults
       \/ ~registered /\ Replace(c, [c EXCEPT !.at = "fetch"]) /\ Quiet
       \/ Break(c)
    /\ UNCHANGED <<discord, process, member, channels, registered, located, handlers>>

\* bulk_add_reactors_to_thread reads the emojis of the starter message, ...
FetchStarter(c) ==
    /\ c.at = "fetch"
    /\ \/ InUse = {} /\ AfterBulk(c) /\ Quiet
       \/ InUse # {} /\ Replace(c, [c EXCEPT !.at = "gather", !.todo = InUse]) /\ Quiet
       \/ Break(c)
    /\ UNCHANGED <<discord, process, member, channels, registered, located, handlers>>

\* Variant: only the users of one emoji are read.
GatherFirst(c) ==
    /\ c.at = "gather"
    /\ \E e \in c.todo :
         LET found == {u \in User : e \in reacts[u]}
         IN  IF found = {} THEN AfterBulk(c)
             ELSE Replace(c, [c EXCEPT !.at = "members", !.todo = {}, !.reactors = found])
    /\ Quiet
    /\ UNCHANGED <<discord, process, member, channels, registered, located, handlers>>

\* ... then the users of each, ...
Gather(c) ==
    /\ c.at = "gather"
    /\ \/ /\ \E e \in c.todo :
               LET found == c.reactors \cup {u \in User : e \in reacts[u]}
               IN  IF c.todo # {e}
                   THEN Replace(c, [c EXCEPT !.todo = @ \ {e}, !.reactors = found])
                   ELSE IF found = {} THEN AfterBulk(c)
                   ELSE Replace(c, [c EXCEPT !.at = "members", !.todo = {}, !.reactors = found])
          /\ Quiet
       \/ Break(c)
    /\ UNCHANGED <<discord, process, member, channels, registered, located, handlers>>

\* ... skips the members (none, if they may not be read) ...
SkipMembers(c) ==
    /\ c.at = "members"
    /\ \/ /\ LET missing == c.reactors \ member
             IN  IF missing = {} THEN AfterBulk(c)
                 ELSE Replace(c, [c EXCEPT !.at = "add", !.reactors = missing])
          /\ Quiet
       \/ Fault /\ Replace(c, [c EXCEPT !.at = "add"]) /\ UNCHANGED dirty
       \/ Break(c)
    /\ UNCHANGED <<discord, process, member, channels, registered, located, handlers>>

\* Variant: the bulk add does not see that it is through.
AddReactorForever(c) ==
    /\ c.at = "add"
    /\ \E u \in c.reactors :
          /\ Replace(c, [c EXCEPT !.reactors = @ \ {u}])
          /\ member' = member \cup {u}
    /\ Quiet
    /\ UNCHANGED <<discord, process, channels, registered, located, handlers>>

\* ... and adds the others one by one.  One refused is reported, and the rest
\* are added all the same, unless the refusal is for want of permission.
AddReactor(c) ==
    /\ c.at = "add"
    /\ \/ /\ \E u \in c.reactors :
               /\ IF c.reactors = {u} THEN AfterBulk(c)
                  ELSE Replace(c, [c EXCEPT !.reactors = @ \ {u}])
               /\ \/ member' = member \cup {u} /\ Quiet
                  \/ Fault /\ dirty' = dirty \cup {u} /\ UNCHANGED member
       \/ Break(c) /\ UNCHANGED member
    /\ UNCHANGED <<discord, process, channels, registered, located, handlers>>

\* The row is written last; if another command wrote it meanwhile this one fails.
Register(c) ==
    /\ c.at = "register"
    /\ \/ registered' = TRUE /\ Leave(c) /\ Quiet
       \/ Break(c) /\ UNCHANGED registered
    /\ UNCHANGED <<discord, process, member, channels, located, handlers>>

\* end_event_thread
End ==
    /\ up /\ given < MaxCommands /\ registered
    /\ given' = given + 1
    /\ registered' = FALSE
    /\ dirty' = dirty \cup {h.user : h \in handlers}
    /\ UNCHANGED <<discord, up, member, channels, located, handlers, commands, faults>>

CommandStep(c) ==
    \/ CheckNew(c) \/ FetchStarter(c) \/ Gather(c) \/ SkipMembers(c) \/ AddReactor(c)
    \/ Register(c)

-----------------------------------------------------------------------------
(***************************************************************************)
(* The process.  A channel that is being made when it stops is made or     *)
(* not: CreateChannel comes before the crash, or does not come.            *)
(***************************************************************************)
Crash ==
    /\ up /\ Fault
    /\ up' = FALSE
    /\ handlers' = {} /\ commands' = {}
    /\ dirty' = IF commands = {} THEN dirty \cup {h.user : h \in handlers} ELSE User
    /\ UNCHANGED <<discord, member, channels, registered, located, given>>

Boot ==
    /\ ~up
    /\ up' = TRUE
    /\ UNCHANGED <<discord, member, channels, registered, located, handlers, commands, given,
                   faults, dirty>>

Next ==
    \/ \E u \in User, e \in Emoji : React(u, e) \/ Unreact(u, e)
    \/ \E u \in User : Locate(u)
    \/ \E h \in handlers : HandlerStep(h)
    \/ \E kind \in {"create", "bulk"} : Give(kind)
    \/ \E c \in commands : CommandStep(c)
    \/ End \/ Crash \/ Boot

Spec == Init /\ [][Next]_vars

-----------------------------------------------------------------------------
(***************************************************************************)
(* Properties.                                                             *)
(***************************************************************************)
\* A user who keeps one and the same reaction all the time a removal handler
\* of his runs is not taken out of the thread by it, whatever other reactions
\* come and go while the emojis are counted one after the other.
KeeperStays ==
    [][\A u \in member \ member' :
         \E h \in handlers : h.user = u /\ h.act = "remove" /\ h.kept = {}]_vars

\* In a registered thread, once its handlers and all commands are over, a user
\* is a member exactly if he has a reaction: those who reacted one step at a
\* time, and those a command found, whatever the others did meanwhile.
QuietMatches ==
    registered /\ commands = {} =>
        \A u \in User \ dirty : HandlersOf(u) = {} => (u \in member <=> reacts[u] # {})

\* A rider gets a second channel only if he reacted again while a handler of
\* his was running; a crash while his channel is being made does not do it.
OneChannelEach == \A u \in User : channels[u] <= 1 \/ u \in overlapped

(***************************************************************************)
(* What the documents say, and the code does not do.                       *)
(***************************************************************************)
\* bot/cogs/reactions.py, _event_thread_remove: "Users are only removed if they
\* have zero reactions remaining on the message."
OnlyRemovedAtZero == [][\A u \in member \ member' : reacts[u] = {}]_vars
=============================================================================

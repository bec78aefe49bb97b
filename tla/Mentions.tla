------------------------------ MODULE Mentions ------------------------------
(* The text box of a generated text: what is typed after an "@" is completed *)
(* to a user name.  A text is a sequence of characters, among which only the *)
(* "@" and the space mean something to the box.                              *)
EXTENDS SequencesExt, Lists, Panel

CONSTANTS
    Letters,     \* the other characters, without their case
    Users,       \* the lists of users the server may answer
    MaxText      \* bound: characters of the text

At == "@"
Space == " "     \* or the end of a line
Chars == Letters \cup {At, Space}
Text == SeqOf(Chars, MaxText)
Usernames == Seq(Chars) \ {<<>>}

\* UsernameEntry: what a sheet says a user is called, whatever that is, and the
\* name the user is known by.
Entries == [username : Usernames, name : Seq(Chars)]

ASSUME MentionAssumption ==
    /\ {At, Space} \cap Letters = {} /\ MaxText \in Nat /\ MaxText >= 2
    /\ Users \subseteq Seq(Entries)

VARIABLE box

NoCaret == MaxText + 1

BoxType == [
    text : Text,                \* the value, which the parent holds
    original : Text,
    cursor : 0..MaxText,        \* cursorPos: as it was when it was last read
    open : BOOLEAN,             \* dropdownOpen
    active : Nat,               \* activeIndex, which may be beyond the list
    caret : 0..NoCaret,         \* where the next frame puts the caret
    users : Users]

-----------------------------------------------------------------------------
(* The text around the cursor.                                              *)

\* The "@" the cursor is behind, with no space between; 0 if there is none.
AtBefore(text, cursor) ==
    LET marks == {i \in 1..Len(text) : i <= cursor /\ text[i] \in {At, Space}}
    IN IF marks = {} \/ text[Max(marks)] = Space THEN 0 ELSE Max(marks)

StartsToken(text, i) == i = 1 \/ text[i - 1] = Space

InMention(text, cursor) ==
    LET at == AtBefore(text, cursor) IN at > 0 /\ StartsToken(text, at)

\* getMentionQuery
Query(text, cursor) ==
    SubSeq(text, AtBefore(text, cursor) + 1, Min({cursor, Len(text)}))

\* validUsernameSet
UserNames(users) == {e.username : e \in ToSet(users)}

\* isInsideValidMention: the token the cursor is in is a user name already.
InsideValid(text, cursor, users) ==
    /\ InMention(text, cursor)
    /\ LET ends == {i \in cursor + 1..Len(text) : text[i] = Space}
           last == IF ends = {} THEN Len(text) ELSE Min(ends) - 1
       IN SubSeq(text, AtBefore(text, cursor) + 1, last) \in UserNames(users)

Includes(n, q) == \E i \in 1..Len(n) + 1 : IsPrefix(q, SubSeq(n, i, Len(n)))

\* The entries with the query in either of their names: those it is a name of,
\* then those with a name it starts, then the others.
Suggestions(b) ==
    LET q == Query(b.text, b.cursor)
        is == {e \in ToSet(b.users) : q \in {e.username, e.name}}
        starts == {e \in ToSet(b.users) : \E n \in {e.username, e.name} : IsPrefix(q, n)}
        offered == {e \in ToSet(b.users) : \E n \in {e.username, e.name} : Includes(n, q)}
    IN Only(b.users, is) \o Only(b.users, starts \ is) \o Only(b.users, offered \ starts)

ShowDropdown(b) ==
    /\ b.open /\ InMention(b.text, b.cursor)
    /\ ~InsideValid(b.text, b.cursor, b.users)

BoxControls ==
    {"type", "select", "blur"} \cup If(box.text # box.original, "revert")
        \cup (IF ShowDropdown(box) /\ Suggestions(box) # <<>>
              THEN {"arrows", "enter", "escape", "click"} ELSE {})

\* Variant: the space behind the name is left to the user.
ApplyMentionOnly(text, cursor, query, name) ==
    LET at == cursor - Len(query) - 1
    IN [text |-> SubSeq(text, 1, Min({at, Len(text)})) \o <<At>> \o name
                    \o SubSeq(text, cursor + 1, Len(text)),
        caret |-> at + Len(name) + 1]

\* The name and a space, unless there is one, take the place of the "@" and the
\* query; what the cursor stands before stays.
ApplyMention(text, cursor, query, name) ==
    LET at == cursor - Len(query) - 1
        space == IF cursor < Len(text) /\ text[cursor + 1] = Space THEN <<>> ELSE <<Space>>
        insertion == <<At>> \o name \o space
    IN [text |-> SubSeq(text, 1, Min({at, Len(text)})) \o insertion
                    \o SubSeq(text, cursor + 1, Len(text)),
        caret |-> at + Len(insertion)]

-----------------------------------------------------------------------------
\* The cursor was read again: after typing, a click or an arrow key.
CursorAt(b, cursor) == [b EXCEPT !.cursor = cursor, !.active = 0, !.open = TRUE]

TypeChar(c, i) ==
    /\ "type" \in BoxControls
    /\ i \in 0..Len(box.text) /\ Len(box.text) < MaxText
    /\ box' = CursorAt([box EXCEPT !.text = InsertAt(@, i + 1, c)], i + 1)

DeleteChar(i) ==
    /\ "type" \in BoxControls
    /\ i \in 1..Len(box.text)
    /\ box' = CursorAt([box EXCEPT !.text = RemoveAt(@, i)], i - 1)

SelectAt(i) ==
    /\ "select" \in BoxControls
    /\ i \in 0..Len(box.text)
    /\ box' = CursorAt(box, i)

ArrowDown ==
    /\ "arrows" \in BoxControls
    /\ box' = [box EXCEPT !.active = (@ + 1) % Len(Suggestions(box))]

ArrowUp ==
    /\ "arrows" \in BoxControls
    /\ box' = [box EXCEPT !.active = LET n == Len(Suggestions(box)) IN (@ - 1 + n) % n]

\* commitSuggestion
Commit(name) ==
    LET done == ApplyMention(box.text, box.cursor, Query(box.text, box.cursor), name)
    IN /\ Len(done.text) <= MaxText
       /\ box' = [box EXCEPT !.text = done.text, !.open = FALSE, !.caret = Min({done.caret, MaxText})]

Click ==
    /\ "click" \in BoxControls
    /\ \E e \in ToSet(Suggestions(box)) : Commit(e.username)

\* Without a suggestion under the highlight the handler fails before it does anything.
Enter ==
    /\ "enter" \in BoxControls
    /\ box.active < Len(Suggestions(box))
    /\ Commit(Suggestions(box)[box.active + 1].username)

\* The frame after a suggestion was taken sets the caret, whatever came between.
CaretFrame ==
    /\ box.caret # NoCaret
    /\ box' = [CursorAt(box, Min({box.caret, Len(box.text)})) EXCEPT !.caret = NoCaret]

Escape == "escape" \in BoxControls /\ box' = [box EXCEPT !.open = FALSE]
Blur == "blur" \in BoxControls /\ box' = [box EXCEPT !.open = FALSE]

\* The button takes the focus.
Revert ==
    /\ "revert" \in BoxControls
    /\ box' = [box EXCEPT !.text = box.original, !.open = FALSE]

\* The parent puts another text into the box while it is used: the cursor stays
\* as it was read.
Replace(text) == box' = [box EXCEPT !.text = text, !.original = text]

UsersArrive(list) == box' = [box EXCEPT !.users = list]

BoxInit ==
    box \in [text : {<<>>}, original : {<<>>}, cursor : {0}, open : {TRUE}, active : {0},
             caret : {NoCaret}, users : Users]

BoxNext ==
    \/ \E c \in Chars, i \in 0..MaxText : TypeChar(c, i)
    \/ \E i \in 0..MaxText : DeleteChar(i) \/ SelectAt(i)
    \/ ArrowDown \/ ArrowUp \/ Enter \/ Click \/ CaretFrame
    \/ Escape \/ Blur \/ Revert
    \/ \E c \in Letters : Replace(<<At, c>>)
    \/ \E list \in Users : UsersArrive(list)

BoxSpec == BoxInit /\ [][BoxNext]_box

-----------------------------------------------------------------------------
BoxTypeOK == box \in BoxType

\* A user name that can be mentioned: the box ends a mention at a space, and
\* begins another at an "@".  Nothing keeps others out of the sheet.
Mentionable(n) == {At, Space} \cap ToSet(n) = {}

Takes(e) == (Enter \/ Click) /\ Commit(e.username)

MadeMention ==
    LET c == box'.caret
    IN \/ InsideValid(box'.text, c, box'.users)
       \/ box'.text[c] = Space /\ InsideValid(box'.text, c - 1, box'.users)

\* Whichever entry is taken, with the keyboard or the mouse, whether its user
\* name or its other name matched, a mention that names a user is left where the
\* caret will be, or just before it, whatever followed the cursor; unless the text
\* was replaced under the cursor, or the user name cannot be mentioned.
CommitMakesMention ==
    [][box' # box /\ ~box'.open =>       \* only such a step takes an entry
         \A e \in ToSet(Suggestions(box)) :
            Takes(e) /\ Mentionable(e.username) /\ box.cursor <= Len(box.text) => MadeMention]_box
=============================================================================

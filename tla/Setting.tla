------------------------------ MODULE Setting --------------------------------
(* What a panel that changes a stored setting promises its user: the setting *)
(* takes the value he sent last, or keeps the one it has if that one is      *)
(* refused, before he can send another.                                      *)
CONSTANT Values

VARIABLES
    value,      \* what is stored
    word,       \* the user's last word on it
    pending     \* it is on its way

settingVars == <<value, word, pending>>

Init == value \in Values /\ word = value /\ pending = FALSE

Send(v) ==
    /\ ~pending
    /\ word' = v /\ pending' = TRUE
    /\ UNCHANGED value

Stored ==
    /\ pending
    /\ value' = word /\ pending' = FALSE
    /\ UNCHANGED word

Refused ==
    /\ pending
    /\ word' = value /\ pending' = FALSE
    /\ UNCHANGED value

Next == Stored \/ Refused \/ \E v \in Values : Send(v)

Spec == Init /\ [][Next]_settingVars
=============================================================================

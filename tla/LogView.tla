------------------------------ MODULE LogView ------------------------------
(* What the lists on the dashboard promise about the reaction log they      *)
(* show: the log only grows, and each list always shows the log as it was   *)
(* at some moment, a moment that never moves back.  How a list learns that  *)
(* it is behind, and when it asks again, is left open.                      *)
EXTENDS Integers

CONSTANTS Lists,    \* everything that may be a list
          MaxEvents \* bound on the log

VARIABLES published, \* how many reaction events the server has stored
          shown      \* how many of them each list shows; -1 before it shows any

logViewVars == <<published, shown>>

LogViewInit ==
    /\ published = 0
    /\ \E on \in SUBSET Lists : shown = [k \in on |-> -1]

Publish ==
    /\ published < MaxEvents
    /\ published' = published + 1
    /\ UNCHANGED shown

Show(k) ==
    /\ k \in DOMAIN shown
    /\ \E n \in 0..published : n >= shown[k] /\ shown' = [shown EXCEPT ![k] = n]
    /\ UNCHANGED published

LogViewNext == Publish \/ \E k \in Lists : Show(k)

LogViewSpec == LogViewInit /\ [][LogViewNext]_logViewVars
=============================================================================

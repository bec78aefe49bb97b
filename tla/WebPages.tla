------------------------------ MODULE WebPages -------------------------------
(* The pages of the web front end and of the demo: a behaviour stays on one  *)
(* page, whose panels it follows.                                            *)
EXTENDS AdminPages, RidePages

WebInit ==
    /\ page \in AdminRoutes \cup RideRoutes
    /\ AdminPagesInit
    /\ RidePagesInit

WebNext ==
    /\ UNCHANGED page
    /\ \/ AdminPagesNext /\ UNCHANGED ridePagesVars
       \/ RidePagesNext /\ UNCHANGED adminPagesVars

WebSpec == WebInit /\ [][WebNext]_<<page, adminPagesVars, ridePagesVars>>

\* Every part of every page keeps to its types.
WebTypeOK == AdminPagesTypeOK /\ RidePagesTypeOK
=============================================================================

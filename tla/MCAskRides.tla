----------------------------- MODULE MCAskRides -----------------------------
(***************************************************************************)
(* AskRides on small instances.                                            *)
(***************************************************************************)
EXTENDS AskRides
=============================================================================

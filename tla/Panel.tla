------------------------------- MODULE Panel -------------------------------
(* What the panels of the web pages share.  A panel renders controls; a      *)
(* user's action is enabled when the panel offers its control.  What is      *)
(* disabled, hidden or covered by a dialog is not in the set.                *)

If(b, control) == IF b THEN {control} ELSE {}
=============================================================================

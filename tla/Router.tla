------------------------------- MODULE Router --------------------------------
(* The page that is shown.  Pages share no state of their own: what a page    *)
(* keeps is gone when another one is shown, so a behaviour stays on the page  *)
(* it starts with, and the modules of the pages say what leaving loses.       *)
VARIABLE page
=============================================================================

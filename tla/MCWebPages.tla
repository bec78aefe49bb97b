----------------------------- MODULE MCWebPages ------------------------------
(***************************************************************************)
(* The pages of the web front end on small instances.                      *)
(***************************************************************************)
EXTENDS WebPages

MCChoices == {"no", "friday"}

MCShared == {
    [stops |-> <<"muir">>, mode |-> "sunday", time |-> "sunday", driver |-> ""],
    [stops |-> <<"erc", "muir">>, mode |-> "custom", time |-> "", driver |-> ""]}

\* A user known by another name, one whose two names are the same and one whose
\* user name cannot be mentioned.
MCUsers == LET abe == [username |-> <<"a">>, name |-> <<"b", " ", "a">>]
               bea == [username |-> <<"b", "a">>, name |-> <<"b", "a">>]
               odd == [username |-> <<"@", "a">>, name |-> <<"a">>]
           IN {<<abe, bea>>, <<bea, odd>>}
=============================================================================

---------------------------- MODULE MCReactions -----------------------------
(***************************************************************************)
(* Reactions on small instances.                                           *)
(***************************************************************************)
EXTENDS Reactions, TLC

CONSTANTS ann, bob, car, house

MCUser == {ann, bob}
MCEmoji == {car, house}
MCLocated == {bob}
MCSymmetry == Permutations(MCEmoji)
=============================================================================

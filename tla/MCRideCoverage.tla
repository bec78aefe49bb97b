--------------------------- MODULE MCRideCoverage ---------------------------
(***************************************************************************)
(* RideCoverage on small instances.                                        *)
(***************************************************************************)
EXTENDS RideCoverage

CONSTANTS ann, bob

Says(before, after) == [drive |-> TRUE, before |-> before, after |-> after]
Chat == [drive |-> FALSE, before |-> {}, after |-> {}]

MCPeople == {ann, bob}
MCTexts == {Says({bob}, {ann}), Says({}, {ann, bob}), Chat}
MCTextsFew == {Says({bob}, {ann}), Says({}, {ann, bob})}
MCPlaces == {[channel |-> "rides", open |-> TRUE], [channel |-> "rides", open |-> FALSE],
             [channel |-> "spam", open |-> TRUE]}
MCPlacesFew == {[channel |-> "rides", open |-> TRUE]}
=============================================================================

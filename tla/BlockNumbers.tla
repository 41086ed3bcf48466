---------------------------- MODULE BlockNumbers ----------------------------
(***************************************************************************)
(* The block table by its numbers: the stored ones are 0 .. top, and one   *)
(* comes or goes at a time, on top.  This is all that L1L2Bind knows of    *)
(* the layer 2 chain; L2Sync implements it in its single-block mode.       *)
(***************************************************************************)
EXTENDS Integers

VARIABLE top     \* the highest stored number, -1 for an empty table

NumbersInit == top = -1

Insert == top' = top + 1

Delete == top >= 0 /\ top' = top - 1

NumbersSpec == NumbersInit /\ [][Insert \/ Delete]_top
=============================================================================

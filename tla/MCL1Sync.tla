------------------------------ MODULE MCL1Sync ------------------------------
(***************************************************************************)
(* Two branches of three blocks above the genesis block.  Account A has    *)
(* deposits in two blocks of branch a and in one of branch b, B has a      *)
(* deposit that the reorganisation moves to another block number, and so   *)
(* has one withdrawal.                                                     *)
(***************************************************************************)
EXTENDS L1Sync

CONSTANTS g, a1, a2, a3, b1, b2, b3, d1, d2, d3, A, B, w     \* model values

McBlockId == {g, a1, a2, a3, b1, b2, b3}
McParent == [x \in McBlockId |->
    CASE x \in {g, a1, b1} -> g
      [] x = a2 -> a1 [] x = a3 -> a2 [] x = b2 -> b1 [] x = b3 -> b2]
McNumber == [x \in McBlockId |->
    CASE x = g -> 0 [] x \in {a1, b1} -> 1
      [] x \in {a2, b2} -> 2 [] x \in {a3, b3} -> 3]
McAnc == [x \in McBlockId |->
    CASE x = g -> {} [] x \in {a1, b1} -> {g}
      [] x = a2 -> {g, a1} [] x = a3 -> {g, a1, a2}
      [] x = b2 -> {g, b1} [] x = b3 -> {g, b1, b2}]

McDep == {d1, d2, d3}
McDepsOf == [x \in McBlockId |->
    CASE x = a1 -> {d1} [] x = a2 -> {d2, d3}
      [] x = b1 -> {d3} [] x = b2 -> {d1} [] OTHER -> {}]
McOwner == [d \in McDep |-> IF d = d3 THEN B ELSE A]
McWhsOf == [x \in McBlockId |-> IF x \in {a2, b1} THEN {w} ELSE {}]
=============================================================================

------------------------------ MODULE MCL2Sync ------------------------------
(***************************************************************************)
(* A tree with two branches above the genesis block, three blocks high,    *)
(* whose blocks share transactions and a withdrawal request in different   *)
(* places, as when a reorganised chain includes the same transactions in   *)
(* other blocks.  The two transactions of a2 need two chunks.              *)
(***************************************************************************)
EXTENDS L2Sync

CONSTANTS g, a1, a2, a3, b1, b2, b3, w     \* model values

McBlockId == {g, a1, a2, a3, b1, b2, b3}
McGenesis == g

McParent == [x \in McBlockId |->
    CASE x \in {g, a1, b1} -> g
      [] x = a2 -> a1 [] x = a3 -> a2
      [] x = b2 -> b1 [] x = b3 -> b2]

McNumber == [x \in McBlockId |->
    CASE x = g -> 0 [] x \in {a1, b1} -> 1
      [] x \in {a2, b2} -> 2 [] x \in {a3, b3} -> 3]

McAnc == [x \in McBlockId |->
    CASE x = g -> {} [] x \in {a1, b1} -> {g}
      [] x = a2 -> {g, a1} [] x = a3 -> {g, a1, a2}
      [] x = b2 -> {g, b1} [] x = b3 -> {g, b1, b2}]

McTx == {1, 2}
McWd == {w}

McTxsOf == [x \in McBlockId |->
    CASE x = a2 -> {1, 2} [] x = b1 -> {1} [] x = b2 -> {2} [] OTHER -> {}]

McWdsOf == [x \in McBlockId |-> IF x \in {a2, b1} THEN {w} ELSE {}]
=============================================================================

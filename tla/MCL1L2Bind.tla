----------------------------- MODULE MCL1L2Bind -----------------------------
(***************************************************************************)
(* Five layer 1 blocks in a row and a branch of two above the second.  The *)
(* layer 2 blocks 0 to 2 are submitted first, and become final later; the  *)
(* blocks 3 and 4 are submitted in different blocks on the two branches.   *)
(***************************************************************************)
EXTENDS L1L2Bind

CONSTANTS g, a1, a2, a3, a4, a5, b3, b4, w     \* model values

McBlockId == {g, a1, a2, a3, a4, a5, b3, b4}
McParent == [x \in McBlockId |->
    CASE x \in {g, a1} -> g [] x = a2 -> a1 [] x \in {a3, b3} -> a2
      [] x = a4 -> a3 [] x = a5 -> a4 [] x = b4 -> b3]
McNumber == [x \in McBlockId |->
    CASE x = g -> 0 [] x = a1 -> 1 [] x = a2 -> 2 [] x \in {a3, b3} -> 3
      [] x \in {a4, b4} -> 4 [] x = a5 -> 5]
McLine == [x \in McBlockId |->
    IF x \in {b3, b4} THEN {g, a1, a2, b3} ELSE {g, a1, a2, a3, a4}]
McAnc == [x \in McBlockId |-> {y \in McLine[x] : McNumber[y] < McNumber[x]}]

McCommits == [x \in McBlockId |->
    CASE x = g -> {0, 1, 2} [] x = a3 -> {3} [] x = a4 -> {4}
      [] x = b3 -> {3, 4} [] OTHER -> {}]

McFinalOf == [x \in McBlockId |-> IF x = a5 THEN 2 ELSE 0]
McWdsAt == [x \in McBlockId |-> IF x \in {a3, b3} THEN {w} ELSE {}]
McWdNumber == [x \in {w} |-> 1]

\* Four blocks in a row and a branch of one above the third, and the layer 2
\* blocks 0 and 1 only, one by one, for the liveness run.
McLowBlockId == {g, a1, a2, a3, a4, b4}
McLowParent  == [[x \in McLowBlockId |-> McParent[x]] EXCEPT ![b4] = a3]
McLowNumber  == [x \in McLowBlockId |-> McNumber[x]]
McLowAnc     == [[x \in McLowBlockId |-> McAnc[x]] EXCEPT ![b4] = McAnc[a4]]
McLowWdsAt   == [x \in McLowBlockId |-> IF x \in {a3, b4} THEN {w} ELSE {}]
McLowFinalOf == [x \in McLowBlockId |-> IF x = a4 THEN 1 ELSE 0]
McLowCommits == [x \in McLowBlockId |->
    CASE x = a1 -> {0} [] x = a2 -> {1} [] OTHER -> {}]
=============================================================================

-------------------------- MODULE MCL1SyncSettled --------------------------
(***************************************************************************)
(* The tree of MCL1Sync with a third branch that leaves branch a above its *)
(* first block: CleanVersions has deleted the versions of that block when  *)
(* a reorganisation moves to this branch.                                  *)
(***************************************************************************)
EXTENDS MCL1Sync, L1SyncSettled

CONSTANTS c2, c3, c4     \* model values

McForkBlockId == McBlockId \cup {c2, c3, c4}
McForkParent == [x \in McForkBlockId |->
    CASE x = c2 -> a1 [] x = c3 -> c2 [] x = c4 -> c3 [] OTHER -> McParent[x]]
McForkNumber == [x \in McForkBlockId |->
    CASE x = c2 -> 2 [] x = c3 -> 3 [] x = c4 -> 4 [] OTHER -> McNumber[x]]
McForkAnc == [x \in McForkBlockId |->
    CASE x = c2 -> {g, a1} [] x = c3 -> {g, a1, c2}
      [] x = c4 -> {g, a1, c2, c3} [] OTHER -> McAnc[x]]
McForkDepsOf == [x \in McForkBlockId |->
    CASE x = c3 -> {d3} [] x \in {c2, c4} -> {} [] OTHER -> McDepsOf[x]]
McForkWhsOf == [x \in McForkBlockId |->
    CASE x = c2 -> {w} [] x \in {c3, c4} -> {} [] OTHER -> McWhsOf[x]]
=============================================================================

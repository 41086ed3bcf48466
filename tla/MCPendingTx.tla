----------------------------- MODULE MCPendingTx -----------------------------
(***************************************************************************)
(* Two branches above the genesis block that have the same transaction at   *)
(* different heights, a worker and a request that read the mempool.        *)
(***************************************************************************)
EXTENDS PendingTx, TLC

CONSTANTS g, a1, b1, b2, worker, api     \* model values

McBlockId == {g, a1, b1, b2}
McParent == (g :> g) @@ (a1 :> g) @@ (b1 :> g) @@ (b2 :> b1)
McNumber == (g :> 0) @@ (a1 :> 1) @@ (b1 :> 1) @@ (b2 :> 2)
McAnc == (g :> {}) @@ (a1 :> {g}) @@ (b1 :> {g}) @@ (b2 :> {g, b1})
McTxsOf == (g :> {}) @@ (a1 :> {1}) @@ (b1 :> {}) @@ (b2 :> {1})
McWdsOf == [b \in McBlockId |-> {}]
=============================================================================

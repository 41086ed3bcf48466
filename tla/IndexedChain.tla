---------------------------- MODULE IndexedChain ----------------------------
(***************************************************************************)
(* What the block table promises its readers (the API, the other workers): *)
(* it holds one block with all of its ancestors, grows by one block on top *)
(* and loses only the block on top.  L2Sync implements this in its         *)
(* single-block mode.                                                      *)
(***************************************************************************)
EXTENDS ChainTree

VARIABLE store     \* the indexed blocks

StoreInit == store = {}

\* The block above the highest indexed one becomes visible.
Extend == \E b \in BlockId : store = Anc[b] /\ store' = Path(b)

\* The highest indexed block is withdrawn.
Withdraw == \E b \in BlockId : store = Path(b) /\ store' = Anc[b]

StoreNext == Extend \/ Withdraw

StoreSpec == StoreInit /\ [][StoreNext]_store
=============================================================================

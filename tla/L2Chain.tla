------------------------------ MODULE L2Chain ------------------------------
(***************************************************************************)
(* The layer 2 chain: blocks with their transactions and their withdrawal  *)
(* requests.                                                               *)
(***************************************************************************)
EXTENDS ChainTree

CONSTANTS
    Tx,          \* transaction hashes, ordered as numbers
    Wd,          \* withdrawal requests (account_script_hash, nonce)
    TxsOf,       \* TxsOf[b]: the transactions of b
    WdsOf        \* WdsOf[b]: the withdrawal requests of b

\* A valid chain includes a transaction or a withdrawal request once.
ASSUME ContentAssumption ==
    /\ Tx \subseteq Nat
    /\ TxsOf \in [BlockId -> SUBSET Tx]
    /\ WdsOf \in [BlockId -> SUBSET Wd]
    /\ \A b \in BlockId : \A a \in Anc[b] :
          TxsOf[a] \cap TxsOf[b] = {} /\ WdsOf[a] \cap WdsOf[b] = {}
=============================================================================

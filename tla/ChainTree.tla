----------------------------- MODULE ChainTree -----------------------------
(***************************************************************************)
(* A block chain as the indexer sees it: the blocks that may ever be       *)
(* served form a tree, and at any moment the node serves one path of it,   *)
(* from the genesis block to "tip".  The nodes (CKB for layer 1, Godwoken  *)
(* for layer 2) are not part of the repository: this module states what    *)
(* the code relies on when it asks one for its tip and for blocks by       *)
(* number.  A block determines its number and its parent, as the block     *)
(* hash does in the code.                                                  *)
(***************************************************************************)
EXTENDS Integers, FiniteSets

CONSTANTS
    BlockId,     \* block hashes
    Genesis,     \* the block with number 0
    Parent,      \* Parent[b]: the parent_hash of b (Genesis is its own)
    Number,      \* Number[b]: the block number
    Anc,         \* Anc[b]: the strict ancestors of b
    NoBlock      \* "no row" or "no block_hash" in the database

ASSUME TreeAssumption ==
    /\ Genesis \in BlockId /\ NoBlock \notin BlockId
    /\ Parent \in [BlockId -> BlockId]
    /\ Number \in [BlockId -> Nat]
    /\ Anc \in [BlockId -> SUBSET BlockId]
    /\ Anc[Genesis] = {} /\ Number[Genesis] = 0
    /\ \A b \in BlockId \ {Genesis} :
          /\ Anc[b] = Anc[Parent[b]] \cup {Parent[b]}
          /\ Number[b] = Number[Parent[b]] + 1
    /\ \A b \in BlockId :
          /\ \A a \in Anc[b] : Number[a] < Number[b]
          /\ \A n \in 0 .. Number[b] : \E a \in Anc[b] \cup {b} : Number[a] = n
          /\ \A a, c \in Anc[b] : Number[a] = Number[c] => a = c

VARIABLE tip     \* the block the node reports as its tip

Path(b) == Anc[b] \cup {b}

Canonical == Path(tip)

NodeInit == tip = Genesis

\* A block producer extends the chain.
NodeGrow ==
    \E b \in BlockId \ {Genesis} : Parent[b] = tip /\ tip' = b

\* A reorganisation takes back the last blocks; other blocks may then follow
\* on top of the one that is left.
NodeRevert == \E b \in Anc[tip] : tip' = b

NodeStep == NodeGrow \/ NodeRevert
=============================================================================

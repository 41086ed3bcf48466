---------------------------- MODULE ChainPosition ----------------------------
(***************************************************************************)
(* How far a worker has read a chain: block by block, each one the child   *)
(* of the block before it, and back by one block at a time, to the parent. *)
(* L1Sync implements this with the row check_infos, in its single-block    *)
(* mode, and L1L2Bind with its variable seen, which stands for that row.   *)
(***************************************************************************)
EXTENDS ChainTree

CONSTANT InitNumber     \* init_godwoken_l1_block_number

VARIABLE position       \* the last block read, or NoBlock

PositionInit == position = NoBlock

Start ==
    /\ position = NoBlock
    /\ \E b \in BlockId : Number[b] = InitNumber /\ position' = b

Forward ==
    /\ position # NoBlock
    /\ \E b \in BlockId \ {Genesis} : Parent[b] = position /\ position' = b

Back ==
    /\ position # NoBlock
    /\ position' = IF Number[position] = InitNumber THEN NoBlock ELSE Parent[position]

PositionNext == Start \/ Forward \/ Back

PositionSpec == PositionInit /\ [][PositionNext]_position
=============================================================================

---------------------------- MODULE SettledChain ----------------------------
(***************************************************************************)
(* A chain whose reorganisations are bounded, as the buffers in the code   *)
(* and the age at which versions are purged assume of layer 1: a block     *)
(* with MaxReorg blocks on top of it is settled, and never taken back.     *)
(***************************************************************************)
EXTENDS ChainTree

CONSTANT MaxReorg    \* no reorganisation takes back more blocks

ASSUME ReorgAssumption == MaxReorg \in Nat

VARIABLE settled     \* the highest block that no reorganisation takes back

node == <<tip, settled>>

\* The block MaxReorg below block b, or the genesis block.
SettledBelow(b) ==
    CHOOSE a \in Path(b) :
        Number[a] = IF Number[b] > MaxReorg THEN Number[b] - MaxReorg ELSE 0

SettledInit == NodeInit /\ settled = Genesis

SettledGrow ==
    /\ NodeGrow
    /\ settled' = IF Number[SettledBelow(tip')] > Number[settled]
                  THEN SettledBelow(tip') ELSE settled

SettledRevert ==
    /\ NodeRevert /\ settled \in Path(tip')
    /\ UNCHANGED settled
=============================================================================

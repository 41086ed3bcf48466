--------------------------- MODULE L1SyncSettled ---------------------------
(***************************************************************************)
(* SyncL1BlockWorker on a layer 1 chain whose reorganisations are bounded. *)
(* L1Sync lets the chain go back to its genesis block, which no number of  *)
(* kept versions survives; here CleanVersions may delete all versions but  *)
(* as many as a reorganisation can call for.                               *)
(***************************************************************************)
EXTENDS L1Sync, SettledChain

settledVars == <<l1vars, settled>>

L1SettledInit == L1Init /\ SettledInit

L1SettledNode == (SettledGrow \/ SettledRevert) /\ UNCHANGED <<l1db, l1worker>>

SettledWork == L1Work /\ UNCHANGED settled

SettledOther ==
    /\ L1Wait \/ L1Crash \/ CleanVersions \/ ImportAccountElsewhere
    /\ UNCHANGED settled

L1SettledNext == SettledWork \/ SettledOther \/ L1SettledNode

L1SettledSpec == L1SettledInit /\ [][L1SettledNext]_settledVars

\* The worker's timer fires and its calls return.
L1SettledFairSpec == L1SettledSpec /\ WF_settledVars(SettledWork)
=============================================================================

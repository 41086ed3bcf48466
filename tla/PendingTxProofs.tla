-------------------------- MODULE PendingTxProofs --------------------------
(***************************************************************************)
(* Safety of the transaction rows of module PendingTx, for every tree of   *)
(* blocks, every set of transactions and every number of readers.          *)
(***************************************************************************)
EXTENDS PendingTx, ChainTreeLemmas, TLAPS

-----------------------------------------------------------------------------
(* The inductive invariant *)

Imports == {"polyjuice", "transactions", "block"}

\* The block that SyncWorker imports or has just deleted is the next one
\* above the stored blocks.
OnTop == pc # "idle" => Anc[cur] = store

\* What the import has written of its block so far.
ReceiptsWritten ==
    pc \in {"transactions", "block"} =>
        \A t \in (TxsOf[cur] \cap Polyjuice) \ lost : receipt[t] = cur

RowsWritten ==
    pc = "block" => \A t \in TxsOf[cur] \ lost : txRow[t] = cur

IInv ==
    /\ TypeOK /\ BlocksKeepTheirTransactions /\ RowsNameStoredBlocks
    /\ OnTop /\ ReceiptsWritten /\ RowsWritten

-----------------------------------------------------------------------------
(* Facts about blocks and their transactions *)

LEMMA Types ==
    /\ Anc \in [BlockId -> SUBSET BlockId]
    /\ TxsOf \in [BlockId -> SUBSET Tx]
    /\ Number \in [BlockId -> Nat]
    /\ NoBlock \notin BlockId /\ NoRow \notin BlockId /\ Pending \notin BlockId
    /\ Genesis \in BlockId
BY TreeAssumption, ContentAssumption, PendingAssumption

\* No stored block has a transaction of the block above them.
LEMMA NotBelow ==
    ASSUME NEW c \in BlockId, NEW b \in Anc[c]
    PROVE  /\ TxsOf[b] \cap TxsOf[c] = {}
           /\ Number[b] < Number[c] /\ b # c /\ b \in BlockId
BY TreeAssumption, ContentAssumption

LEMMA InitIInv == Init => IInv
BY Types DEF Init, NodeInit, IInv, TypeOK, BlocksKeepTheirTransactions,
             RowsNameStoredBlocks, OnTop, ReceiptsWritten, RowsWritten

-----------------------------------------------------------------------------
(* Type correctness is inductive *)

LEMMA NodeTypes == TypeOK /\ Node => TypeOK'
<1> SUFFICES ASSUME TypeOK, Node PROVE TypeOK'
  OBVIOUS
<1> USE Types DEF TypeOK, node, tables, sync, reader
<1>1. CASE Grow
  BY <1>1 DEF Grow, NodeGrow
<1>2. CASE Revert
  <2>1. tip' \in BlockId
    BY <1>2 DEF Revert, NodeRevert
  <2>2. mempool' \subseteq Tx
    <3>1. PICK back \in SUBSET UNION {TxsOf[b] : b \in Path(tip) \ Path(tip')} :
             mempool' = mempool \cup (back \ dropped)
      BY <1>2 DEF Revert
    <3>2. Path(tip) \subseteq BlockId
      BY TopOfPath
    <3> QED BY <3>1, <3>2
  <2> QED BY <1>2, <2>1, <2>2 DEF Revert
<1>3. ASSUME NEW t \in Tx, Submit(t) PROVE TypeOK'
  BY <1>3 DEF Submit
<1>4. ASSUME NEW t \in Tx, Drop(t) PROVE TypeOK'
  BY <1>4 DEF Drop
<1> QED BY <1>1, <1>2, <1>3, <1>4 DEF Node

LEMMA SyncTypes == TypeOK /\ (SyncWork \/ SyncDies) => TypeOK'
<1> SUFFICES ASSUME TypeOK, SyncWork \/ SyncDies PROVE TypeOK'
  OBVIOUS
<1> USE Types DEF TypeOK, node, tables, sync, reader
<1>1. CASE Fetch
  <2>1. cur' \in BlockId
    BY <1>1, TopOfPath DEF Fetch, Canonical
  <2> QED BY <1>1, <2>1 DEF Fetch
<1>2. CASE ImportPolyjuice
  BY <1>2 DEF ImportPolyjuice
<1>3. CASE ImportTransactions
  BY <1>3 DEF ImportTransactions
<1>4. CASE ImportBlock
  BY <1>4 DEF ImportBlock
<1>5. CASE RollbackBlock
  <2>1. PICK top \in store : store' = Anc[top] /\ cur' = top
    BY <1>5 DEF RollbackBlock
  <2> QED BY <1>5, <2>1 DEF RollbackBlock
<1>6. CASE RollbackTransactions
  BY <1>6 DEF RollbackTransactions
<1>7. CASE SyncDies
  BY <1>7 DEF SyncDies
<1> QED BY <1>1, <1>2, <1>3, <1>4, <1>5, <1>6, <1>7 DEF SyncWork

LEMMA OtherTypes ==
    ASSUME TypeOK,
           \/ \E t \in Tx : Age(t)
           \/ \E r \in Reader : ReaderWork(r) \/ ReaderDies(r)
           \/ CleanerWork \/ CleanerDies
    PROVE  TypeOK'
<1> USE Types DEF TypeOK, node, tables, sync, reader
<1>1. ASSUME NEW t \in Tx, Age(t) PROVE TypeOK'
  BY <1>1 DEF Age
<1>2. ASSUME NEW r \in Reader, FetchPending(r) PROVE TypeOK'
  <2>1. PICK S : /\ S \in (IF r \in Api THEN {{t} : t \in Known} ELSE {mempool} \ {{}})
                 /\ seen' = [seen EXCEPT ![r] = S]
    BY <1>2 DEF FetchPending
  <2>2. Known \subseteq Tx
    BY DEF Known, Canonical, Path
  <2>3. S \subseteq Tx
    BY <2>1, <2>2
  <2>4. seen' \in [Reader -> SUBSET Tx]
    BY <2>1, <2>3
  <2> QED BY <1>2, <2>4 DEF FetchPending
<1>3. ASSUME NEW r \in Reader, InsertPolyjuice(r) PROVE TypeOK'
  BY <1>3 DEF InsertPolyjuice
<1>4. ASSUME NEW r \in Reader, InsertTransactions(r) PROVE TypeOK'
  BY <1>4 DEF InsertTransactions
<1>5. ASSUME NEW r \in Reader, ReaderDies(r) PROVE TypeOK'
  BY <1>5 DEF ReaderDies
<1>6. CASE SelectFailed
  BY <1>6 DEF SelectFailed, Failed
<1>7. CASE DeleteFailed
  BY <1>7 DEF DeleteFailed
<1>8. CASE CleanerDies
  BY <1>8 DEF CleanerDies
<1> QED BY <1>1, <1>2, <1>3, <1>4, <1>5, <1>6, <1>7, <1>8
        DEF ReaderWork, Insert, CleanerWork

-----------------------------------------------------------------------------
(* The other conjuncts of the inductive invariant *)

Kept == BlocksKeepTheirTransactions /\ RowsNameStoredBlocks
        /\ OnTop /\ ReceiptsWritten /\ RowsWritten

\* SyncWorker, statement by statement.
LEMMA SyncKeeps ==
    ASSUME IInv, TypeOK', SyncWork \/ SyncDies
    PROVE  Kept'
<1> USE Types DEF node, tables, sync, reader
<1>0. /\ cur \in BlockId \cup {NoBlock} /\ (pc # "idle" => cur \in BlockId)
      /\ store \subseteq BlockId
      /\ txRow \in [Tx -> BlockId \cup {NoRow, Pending}]
      /\ receipt \in [Tx -> BlockId \cup {NoRow, Pending}]
  BY DEF IInv, TypeOK
<1>1. CASE Fetch
  <2>1. pc = "idle" /\ pc' = "polyjuice" /\ cur' \in BlockId /\ Anc[cur'] = store
    BY <1>1, TopOfPath DEF Fetch, IInv, TypeOK, Canonical
  <2>2. BlocksKeepTheirTransactions'
    <3> SUFFICES ASSUME NEW b \in store, NEW t \in TxsOf[b] \ (lost \ TxsOf[cur'])
                 PROVE  txRow[t] = b /\ (t \in Polyjuice => receipt[t] = b)
      BY <1>1 DEF Fetch, BlocksKeepTheirTransactions
    <3>1. TxsOf[b] \cap TxsOf[cur'] = {}
      BY <2>1, NotBelow
    <3> QED BY <3>1 DEF IInv, BlocksKeepTheirTransactions
  <2>3. RowsNameStoredBlocks'
    BY <1>1, <2>1 DEF Fetch, IInv, RowsNameStoredBlocks
  <2> QED BY <1>1, <2>1, <2>2, <2>3
          DEF Fetch, Kept, OnTop, ReceiptsWritten, RowsWritten
<1>2. CASE ImportPolyjuice
  <2>1. cur \in BlockId /\ Anc[cur] = store
    BY <1>0, <1>2 DEF ImportPolyjuice, IInv, OnTop
  <2>2. BlocksKeepTheirTransactions'
    <3> SUFFICES ASSUME NEW b \in store, NEW t \in TxsOf[b] \ lost
                 PROVE  txRow[t] = b /\ (t \in Polyjuice => receipt'[t] = b)
      BY <1>2 DEF ImportPolyjuice, BlocksKeepTheirTransactions
    <3>1. TxsOf[b] \cap TxsOf[cur] = {} /\ t \in Tx
      BY <1>0, <2>1, NotBelow
    <3> QED BY <1>2, <3>1 DEF ImportPolyjuice, IInv, BlocksKeepTheirTransactions
  <2>3. RowsNameStoredBlocks'
    BY <1>2 DEF ImportPolyjuice, IInv, RowsNameStoredBlocks
  <2>4. ReceiptsWritten'
    BY <1>2, <2>1 DEF ImportPolyjuice, ReceiptsWritten
  <2> QED BY <1>2, <2>1, <2>2, <2>3, <2>4
          DEF ImportPolyjuice, Kept, OnTop, RowsWritten
<1>3. CASE ImportTransactions
  <2>1. cur \in BlockId /\ Anc[cur] = store
    BY <1>0, <1>3 DEF ImportTransactions, IInv, OnTop
  <2>2. BlocksKeepTheirTransactions'
    <3> SUFFICES ASSUME NEW b \in store, NEW t \in TxsOf[b] \ lost
                 PROVE  txRow'[t] = b /\ (t \in Polyjuice => receipt[t] = b)
      BY <1>3 DEF ImportTransactions, BlocksKeepTheirTransactions
    <3>1. TxsOf[b] \cap TxsOf[cur] = {} /\ t \in Tx
      BY <1>0, <2>1, NotBelow
    <3> QED BY <1>3, <3>1 DEF ImportTransactions, IInv, BlocksKeepTheirTransactions
  <2>3. RowsNameStoredBlocks'
    BY <1>3 DEF ImportTransactions, IInv, RowsNameStoredBlocks
  <2>4. RowsWritten'
    BY <1>3, <2>1 DEF ImportTransactions, RowsWritten
  <2>5. ReceiptsWritten'
    BY <1>3 DEF ImportTransactions, IInv, ReceiptsWritten
  <2> QED BY <1>3, <2>1, <2>2, <2>3, <2>4, <2>5 DEF ImportTransactions, Kept, OnTop
<1>4. CASE ImportBlock
  <2>1. BlocksKeepTheirTransactions'
    <3> SUFFICES ASSUME NEW b \in store \cup {cur}, NEW t \in TxsOf[b] \ lost
                 PROVE  txRow[t] = b /\ (t \in Polyjuice => receipt[t] = b)
      BY <1>4 DEF ImportBlock, BlocksKeepTheirTransactions
    <3>1. CASE b \in store
      BY <3>1 DEF IInv, BlocksKeepTheirTransactions
    <3>2. CASE b = cur
      BY <1>4, <3>2 DEF ImportBlock, IInv, ReceiptsWritten, RowsWritten
    <3> QED BY <3>1, <3>2
  <2>2. RowsNameStoredBlocks'
    BY <1>4 DEF ImportBlock, IInv, RowsNameStoredBlocks
  <2> QED BY <1>4, <2>1, <2>2
          DEF ImportBlock, Kept, OnTop, ReceiptsWritten, RowsWritten
<1>5. CASE RollbackBlock
  <2>1. PICK top \in store : store = Path(top) /\ store' = Anc[top] /\ cur' = top
    BY <1>5 DEF RollbackBlock
  <2>2. top \in BlockId /\ store' \subseteq store /\ store = store' \cup {top}
    BY <1>0, <2>1 DEF Path
  <2>3. BlocksKeepTheirTransactions'
    BY <1>5, <2>2 DEF RollbackBlock, IInv, BlocksKeepTheirTransactions
  <2>4. RowsNameStoredBlocks'
    BY <1>5, <2>1, <2>2 DEF RollbackBlock, IInv, RowsNameStoredBlocks
  <2> QED BY <1>5, <2>1, <2>3, <2>4
          DEF RollbackBlock, Kept, OnTop, ReceiptsWritten, RowsWritten
<1>6. CASE RollbackTransactions
  <2> DEFINE gone == {t \in Tx : txRow[t] \in BlockId /\ Number[txRow[t]] = Number[cur]}
  <2>1. cur \in BlockId /\ Anc[cur] = store /\ pc = "rollback" /\ pc' = "idle"
    BY <1>0, <1>6 DEF RollbackTransactions, IInv, OnTop
  <2>2. /\ txRow' = [t \in Tx |-> IF t \in gone THEN NoRow ELSE txRow[t]]
        /\ UNCHANGED <<store, receipt, cut, lost>>
    BY <1>6 DEF RollbackTransactions
  <2>3. BlocksKeepTheirTransactions'
    <3> SUFFICES ASSUME NEW b \in store, NEW t \in TxsOf[b] \ lost
                 PROVE  txRow'[t] = b /\ (t \in Polyjuice => receipt[t] = b)
      BY <2>2 DEF BlocksKeepTheirTransactions
    <3>1. txRow[t] = b /\ (t \in Polyjuice => receipt[t] = b)
      BY DEF IInv, BlocksKeepTheirTransactions
    <3>2. Number[b] < Number[cur] /\ t \in Tx
      BY <1>0, <2>1, NotBelow
    <3>3. t \notin gone
      BY <2>1, <3>1, <3>2
    <3> QED BY <2>2, <3>1, <3>2, <3>3
  <2>4. RowsNameStoredBlocks'
    <3> SUFFICES ASSUME NEW t \in Tx, txRow'[t] \in BlockId \ cut
                 PROVE  txRow'[t] \in store
      BY <2>2 DEF RowsNameStoredBlocks
    <3>1. t \notin gone /\ txRow'[t] = txRow[t]
      BY <2>2
    <3>2. txRow[t] \in store \/ txRow[t] = cur
      BY <3>1 DEF IInv, RowsNameStoredBlocks
    <3> QED BY <2>1, <3>1, <3>2
  <2> QED BY <1>6, <2>1, <2>3, <2>4
          DEF RollbackTransactions, Kept, OnTop, ReceiptsWritten, RowsWritten
<1>7. CASE SyncDies
  <2>1. BlocksKeepTheirTransactions'
    BY <1>7 DEF SyncDies, IInv, BlocksKeepTheirTransactions
  <2>2. RowsNameStoredBlocks'
    BY <1>7 DEF SyncDies, IInv, RowsNameStoredBlocks
  <2> QED BY <1>7, <2>1, <2>2
          DEF SyncDies, Kept, OnTop, ReceiptsWritten, RowsWritten
<1> QED BY <1>1, <1>2, <1>3, <1>4, <1>5, <1>6, <1>7 DEF SyncWork

\* A reader only writes where there is no row, and the cleaner records the
\* rows it takes from a block in "lost".
LEMMA OthersKeep ==
    ASSUME IInv, TypeOK',
           \/ \E r \in Reader : ReaderWork(r) \/ ReaderDies(r)
           \/ CleanerWork \/ CleanerDies
    PROVE  Kept'
<1> USE Types DEF node, tables, sync, reader
<1>0. /\ (pc # "idle" => cur \in BlockId) /\ store \subseteq BlockId
      /\ txRow \in [Tx -> BlockId \cup {NoRow, Pending}]
      /\ receipt \in [Tx -> BlockId \cup {NoRow, Pending}]
      /\ failed \subseteq Tx
  BY DEF IInv, TypeOK
<1>1. ASSUME UNCHANGED <<tables, sync, lost>> PROVE Kept'
  BY <1>1 DEF Kept, IInv, BlocksKeepTheirTransactions, RowsNameStoredBlocks,
              OnTop, ReceiptsWritten, RowsWritten
<1>2. ASSUME NEW r \in Reader, InsertPolyjuice(r) PROVE Kept'
  <2>1. \A t \in Tx : receipt[t] \in BlockId => receipt'[t] = receipt[t]
    BY <1>0, <1>2 DEF InsertPolyjuice
  <2>2. UNCHANGED <<store, txRow, sync, lost>>
    BY <1>2 DEF InsertPolyjuice
  <2>3. BlocksKeepTheirTransactions'
    BY <1>0, <2>1, <2>2 DEF IInv, BlocksKeepTheirTransactions
  <2>4. ReceiptsWritten'
    BY <1>0, <2>1, <2>2 DEF IInv, ReceiptsWritten
  <2> QED BY <2>2, <2>3, <2>4 DEF Kept, IInv, RowsNameStoredBlocks, OnTop, RowsWritten
<1>3. ASSUME NEW r \in Reader, InsertTransactions(r) PROVE Kept'
  <2>1. \A t \in Tx : /\ txRow[t] \in BlockId => txRow'[t] = txRow[t]
                      /\ txRow'[t] \in BlockId => txRow'[t] = txRow[t]
    BY <1>0, <1>3 DEF InsertTransactions
  <2>2. UNCHANGED <<store, receipt, sync, lost>>
    BY <1>3 DEF InsertTransactions
  <2>3. BlocksKeepTheirTransactions'
    BY <1>0, <2>1, <2>2 DEF IInv, BlocksKeepTheirTransactions
  <2>4. RowsWritten'
    BY <1>0, <2>1, <2>2 DEF IInv, RowsWritten
  <2>5. RowsNameStoredBlocks'
    BY <2>1, <2>2 DEF IInv, RowsNameStoredBlocks
  <2> QED BY <2>2, <2>3, <2>4, <2>5 DEF Kept, IInv, OnTop, ReceiptsWritten
<1>4. CASE DeleteFailed
  <2>1. /\ UNCHANGED <<store, sync>>
        /\ lost' = lost \cup {t \in failed : InBlock(t)}
        /\ \A t \in Tx \ failed : txRow'[t] = txRow[t] /\ receipt'[t] = receipt[t]
        /\ \A t \in failed : txRow'[t] = NoRow
    BY <1>0, <1>4 DEF DeleteFailed
  <2>2. BlocksKeepTheirTransactions'
    <3> SUFFICES ASSUME NEW b \in store, NEW t \in TxsOf[b], t \notin lost'
                 PROVE  txRow'[t] = b /\ (t \in Polyjuice => receipt'[t] = b)
      BY <2>1 DEF BlocksKeepTheirTransactions
    <3>1. txRow[t] = b /\ (t \in Polyjuice => receipt[t] = b)
      BY <2>1 DEF IInv, BlocksKeepTheirTransactions
    <3>2. t \notin failed /\ t \in Tx
      BY <1>0, <2>1, <3>1 DEF InBlock
    <3> QED BY <2>1, <3>1, <3>2
  <2>3. pc \in Imports => \A t \in TxsOf[cur] \ lost' : t \in Tx \ failed
    BY <1>0, <2>1 DEF InBlock, Imports
  <2>4. ReceiptsWritten'
    BY <2>1, <2>3 DEF IInv, ReceiptsWritten, Imports
  <2>5. RowsWritten'
    BY <2>1, <2>3 DEF IInv, RowsWritten, Imports
  <2>6. RowsNameStoredBlocks'
    BY <1>0, <2>1 DEF IInv, RowsNameStoredBlocks
  <2> QED BY <2>1, <2>2, <2>4, <2>5, <2>6 DEF Kept, IInv, OnTop
<1>5. ASSUME NEW r \in Reader, FetchPending(r) \/ ReaderDies(r) PROVE Kept'
  BY <1>1, <1>5 DEF FetchPending, ReaderDies
<1>6. CASE SelectFailed \/ CleanerDies
  BY <1>1, <1>6 DEF SelectFailed, CleanerDies
<1> QED BY <1>2, <1>3, <1>4, <1>5, <1>6 DEF ReaderWork, Insert, CleanerWork

-----------------------------------------------------------------------------
(* The theorems *)

LEMMA NextIInv == IInv /\ [Next]_vars => IInv'
<1> SUFFICES ASSUME IInv, [Next]_vars PROVE IInv'
  OBVIOUS
<1>0. Kept' /\ TypeOK' => IInv'
  BY DEF Kept, IInv
<1>1. ASSUME UNCHANGED <<tables, sync, lost>> PROVE Kept'
  BY <1>1 DEF Kept, IInv, BlocksKeepTheirTransactions, RowsNameStoredBlocks,
              OnTop, ReceiptsWritten, RowsWritten, tables, sync
<1>2. CASE Node
  <2>1. UNCHANGED <<tables, sync, lost>>
    BY <1>2 DEF Node, Grow, Revert, Submit, Drop
  <2> QED BY <1>0, <1>1, <1>2, <2>1, NodeTypes DEF IInv
<1>3. CASE SyncWork \/ SyncDies
  <2>1. TypeOK'
    BY <1>3, SyncTypes DEF IInv
  <2> QED BY <1>0, <1>3, <2>1, SyncKeeps
<1>4. ASSUME NEW t \in Tx, Age(t) PROVE IInv'
  <2>1. TypeOK'
    BY <1>4, OtherTypes DEF IInv
  <2> QED BY <1>0, <1>1, <1>4, <2>1 DEF Age
<1>5. CASE \/ \E r \in Reader : ReaderWork(r) \/ ReaderDies(r)
           \/ CleanerWork \/ CleanerDies
  <2>1. TypeOK'
    BY <1>5, OtherTypes DEF IInv
  <2> QED BY <1>0, <1>5, <2>1, OthersKeep
<1>6. CASE UNCHANGED vars
  <2>1. TypeOK'
    BY <1>6 DEF vars, node, tables, sync, reader, IInv, TypeOK
  <2> QED BY <1>0, <1>1, <1>6, <2>1 DEF vars
<1> QED BY <1>2, <1>3, <1>4, <1>5, <1>6 DEF Next

LEMMA Invariance == Spec => []IInv
<1> QED BY InitIInv, NextIInv, PTL DEF Spec

\* The variables of module PendingTx keep their types.
THEOREM PendingTypeCorrect == Spec => []TypeOK
<1>1. IInv => TypeOK
  BY DEF IInv
<1> QED BY <1>1, Invariance, PTL

\* Whatever readers, cleaner and deaths do in between, a block that is stored
\* has all its transactions with their receipts, but for those that the
\* cleaner took away while SyncWorker imported them.
THEOREM BlocksKeepTheirTransactionsAlways == Spec => []BlocksKeepTheirTransactions
<1>1. IInv => BlocksKeepTheirTransactions
  BY DEF IInv
<1> QED BY <1>1, Invariance, PTL

\* No transaction stays behind with the hash of a block that was rolled back,
\* unless a death cut an import or the rollback of that block short.
THEOREM RowsNameStoredBlocksAlways == Spec => []RowsNameStoredBlocks
<1>1. IInv => RowsNameStoredBlocks
  BY DEF IInv
<1> QED BY <1>1, Invariance, PTL
-----------------------------------------------------------------------------
(* Refinement *)

Chain == INSTANCE IndexedChain

\* The stored blocks are those of the indexed chain that L2Sync implements:
\* the block table grows by one block on top and loses only that one, also
\* when a death cuts an import or a rollback short.
THEOREM PendingImplementsIndexedChain == Spec => Chain!StoreSpec
<1>1. Init => Chain!StoreInit
  BY DEF Init, Chain!StoreInit
<1>2. ASSUME IInv, [Next]_vars PROVE [Chain!StoreNext]_store
  <2>1. CASE ImportBlock
    <3>1. cur \in BlockId /\ Anc[cur] = store /\ store' = Path(cur)
      BY <1>2, <2>1 DEF ImportBlock, IInv, TypeOK, OnTop, Path
    <3> QED BY <3>1 DEF Chain!StoreNext, Chain!Extend, Chain!Path, Path
  <2>2. CASE RollbackBlock
    <3>1. \E b \in BlockId : store = Path(b) /\ store' = Anc[b]
      BY <1>2, <2>2 DEF RollbackBlock, IInv, TypeOK
    <3> QED BY <3>1 DEF Chain!StoreNext, Chain!Withdraw, Chain!Path, Path
  <2>3. CASE ~ ImportBlock /\ ~ RollbackBlock
    <3>1. CASE SyncWork \/ SyncDies
      BY <2>3, <3>1 DEF SyncWork, Fetch, ImportPolyjuice, ImportTransactions,
                        RollbackTransactions, SyncDies, tables
    <3>2. CASE Node \/ \E t \in Tx : Age(t)
      BY <3>2 DEF Node, Grow, Revert, Submit, Drop, Age, tables
    <3>3. CASE \/ \E r \in Reader : ReaderWork(r) \/ ReaderDies(r)
               \/ CleanerWork \/ CleanerDies
      BY <3>3 DEF ReaderWork, Insert, FetchPending, InsertPolyjuice,
                  InsertTransactions, ReaderDies, CleanerWork, SelectFailed,
                  DeleteFailed, CleanerDies, tables
    <3>4. CASE UNCHANGED vars
      BY <3>4 DEF vars, tables
    <3> QED BY <1>2, <3>1, <3>2, <3>3, <3>4 DEF Next
  <2> QED BY <2>1, <2>2, <2>3
<1> QED BY <1>1, <1>2, Invariance, PTL DEF Spec, Chain!StoreSpec
=============================================================================

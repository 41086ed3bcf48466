---------------------------- MODULE L2SyncProofs ----------------------------
(***************************************************************************)
(* Safety of the block import of module L2Sync for every tree of blocks    *)
(* and every batch, chunk and cache size: first in its single-block mode,  *)
(* then what holds with multiple_block_once as well.                       *)
(***************************************************************************)
EXTENDS L2Sync, ChainTreeLemmas, FiniteSetTheorems, FunctionTheorems, TLAPS

-----------------------------------------------------------------------------
(* The inductive invariant *)

AllTxsAt(b, S) == \A t \in S : txRow[t] = b
AllLogs(S)     == \A t \in S : logRow[t] # NoBlock
AllWds(S)      == \A w \in S : wdRow[w] # NoBlock

\* The worker is about to ask for the block after the highest stored one.
AtTop ==
    \/ rows = {} /\ next = 0
    \/ \E r \in BlockId : rows = Path(r) /\ next = Number[r] + 1

\* Where the worker stands in the import of block b, and what is stored of b.
Importing(b) ==
    /\ batch = {b} /\ Number[b] = next
    /\ pc \in {"logs", "txs", "txcache", "withdrawals", "blocks"}
          => rows = Anc[b]
    /\ pc = "blockcache" => rows = Path(b)
    /\ pc = "logs" => todo \subseteq TxsOf[b] /\ AllLogs(TxsOf[b] \ todo)
    /\ pc # "logs" => AllLogs(TxsOf[b])
    /\ pc = "txs" => todo \subseteq TxsOf[b] /\ AllTxsAt(b, TxsOf[b] \ todo)
    /\ pc \notin {"logs", "txs"} => AllTxsAt(b, TxsOf[b])
    /\ pc = "withdrawals" =>
          todo \subseteq WdsOf[b] /\ AllWds(WdsOf[b] \ todo)
    /\ pc \in {"blocks", "blockcache"} => AllWds(WdsOf[b])
    /\ pc = "blocks" => todo = {b}

WorkerInv ==
    /\ pc = "idle" => AtTop /\ batch = {} /\ todo = {}
    /\ pc = "rollback" =>
          /\ batch = {} /\ todo = {}
          /\ \E r \in BlockId : rows = Anc[r] /\ Number[r] = next - 1
    /\ pc \notin {"idle", "rollback"} => \E b \in BlockId : Importing(b)

IInv ==
    TypeOK /\ StoredChain /\ CommitMarker /\ DerivedComplete /\ WorkerInv

-----------------------------------------------------------------------------
(* Facts about the tree and the database *)

\* get_next_block_number on a stored path.
LEMMA NextOfPath ==
    ASSUME NEW b \in BlockId
    PROVE  NextFromDb(Path(b)) = Number[b] + 1
<1> DEFINE max == CHOOSE c \in Path(b) : \A d \in Path(b) : Number[d] <= Number[c]
<1>1. Number \in [BlockId -> Nat]
  BY TreeAssumption
<1>2. \A d \in Path(b) : Number[d] <= Number[b]
  BY <1>1, TopOfPath
<1>3. max \in Path(b) /\ \A d \in Path(b) : Number[d] <= Number[max]
  BY <1>2, TopOfPath
<1>4. max = b
  BY <1>1, <1>3, TopOfPath
<1> QED
  BY <1>1, <1>4, TopOfPath DEF NextFromDb

\* With one block in hand, everything in it came with that block.
LEMMA HomeOfOne ==
    ASSUME NEW content, NEW b, batch = {b}, NEW x \in content[b]
    PROVE  HomeIn(content, x) = b
BY DEF HomeIn

LEMMA UnionOfOne ==
    ASSUME NEW content, NEW b
    PROVE  UnionOf(content, {b}) = content[b]
BY DEF UnionOf

LEMMA ChunkIsPart ==
    ASSUME NEW S, NEW c \in Chunks(S)
    PROVE  c \subseteq S
BY DEF Chunks

\* Conditions on a database that does not change are kept.
LEMMA InvDepends ==
    ASSUME IInv, UNCHANGED <<db, caches, worker>>, tip' \in BlockId
    PROVE  IInv'
BY DEF IInv, TypeOK, StoredChain, CommitMarker, DerivedComplete, WorkerInv,
       AtTop, Importing, AllTxsAt, AllLogs, AllWds, db, caches, worker, Path

-----------------------------------------------------------------------------
(* One lemma per action *)

LEMMA InitInv == Init => IInv
<1> SUFFICES ASSUME Init PROVE IInv
  OBVIOUS
<1> USE DEF Init, NodeInit
<1>1. TypeOK
  BY TreeAssumption DEF TypeOK, Stages
<1>2. WorkerInv
  BY DEF WorkerInv, AtTop
<1> QED
  BY <1>1, <1>2 DEF IInv, StoredChain, CommitMarker, DerivedComplete

LEMMA NodeInv == ASSUME IInv, Node PROVE IInv'
<1>1. tip' \in BlockId
  <2>1. CASE NodeGrow
    BY <2>1 DEF NodeGrow
  <2>2. CASE NodeRevert
    BY <2>2, TreeAssumption DEF NodeRevert, IInv, TypeOK
  <2> QED
    BY <2>1, <2>2 DEF Node, NodeStep
<1> QED
  BY <1>1, InvDepends DEF Node

\* The restart of the worker: init/1 finds the top of the stored path.
LEMMA NextFromStore ==
    ASSUME StoredChain, rows \in SUBSET BlockId
    PROVE  /\ NextFromDb(rows) \in Nat
           /\ \/ rows = {} /\ NextFromDb(rows) = 0
              \/ \E r \in BlockId :
                    rows = Path(r) /\ NextFromDb(rows) = Number[r] + 1
<1>1. CASE rows = {}
  BY <1>1 DEF NextFromDb
<1>2. CASE \E b \in rows : rows = Path(b)
  BY <1>2, NextOfPath, TreeAssumption
<1> QED
  BY <1>1, <1>2 DEF StoredChain

LEMMA CrashInv == ASSUME IInv, Crash \/ Restart PROVE IInv'
<1> USE DEF Crash, Restart, db, caches
<1>1. rows' = rows /\ txRow' = txRow /\ logRow' = logRow /\ wdRow' = wdRow
      /\ pc' = "idle" /\ next' = NextFromDb(rows) /\ batch' = {} /\ todo' = {}
  OBVIOUS
<1>2. NextFromDb(rows) \in Nat /\ AtTop'
  BY <1>1, NextFromStore DEF IInv, TypeOK, AtTop, Path
<1>3. TypeOK'
  BY <1>1, <1>2 DEF IInv, TypeOK, Stages
<1>4. StoredChain' /\ CommitMarker' /\ DerivedComplete'
  BY <1>1 DEF IInv, StoredChain, CommitMarker, DerivedComplete, Path
<1>5. WorkerInv'
  BY <1>1, <1>2 DEF WorkerInv
<1> QED
  BY <1>3, <1>4, <1>5 DEF IInv

\* The fetched range is one block, and it builds on the stored path.
LEMMA FetchedOne ==
    ASSUME IInv, ~ Multi, UnderTip
    PROVE  \E b \in BlockId :
              /\ Fetched = {b} /\ Number[b] = next
              /\ ForkedRows = {} => rows = Anc[b]
<1> USE DEF IInv, TypeOK
<1>1. Number \in [BlockId -> Nat] /\ next \in Nat /\ pc = "idle"
      /\ next <= Number[tip]
  BY TreeAssumption DEF UnderTip, LastOfRange
<1>2. PICK b \in Path(tip) : {c \in Path(tip) : Number[c] = next} = {b}
  BY <1>1, BlockAt
<1>3. Fetched = {c \in Path(tip) : Number[c] = next}
  BY <1>1, TopOfPath DEF Fetched, LastOfRange, Canonical
<1>4. b \in BlockId /\ Number[b] = next
  BY <1>2, TopOfPath
<1>5. ASSUME ForkedRows = {} PROVE rows = Anc[b]
  <2>1. CASE rows = {} /\ next = 0
    BY <2>1, <1>1, <1>4, TreeAssumption
  <2>2. CASE \E r \in BlockId : rows = Path(r) /\ next = Number[r] + 1
    <3>1. PICK r \in BlockId : rows = Path(r) /\ next = Number[r] + 1
      BY <2>2
    <3>2. r \in rows /\ Number[r] = next - 1
      BY <3>1, <1>1, TopOfPath
    <3>3. Parent[b] = r
      BY <3>2, <1>2, <1>3, <1>5 DEF ForkedRows
    <3>4. b # Genesis
      BY <3>1, <1>1, <1>4, TreeAssumption
    <3> QED
      BY <3>1, <3>3, <3>4, <1>4, TreeAssumption DEF Path
  <2> QED
    BY <1>1, <2>1, <2>2 DEF WorkerInv, AtTop
<1> QED
  BY <1>2, <1>3, <1>4, <1>5

LEMMA FetchInv == ASSUME IInv, ~ Multi, Fetch PROVE IInv'
<1>1. PICK b \in BlockId : Fetched = {b} /\ Number[b] = next /\ rows = Anc[b]
  BY FetchedOne DEF Fetch
<1>2. /\ batch' = {b} /\ pc' = "logs" /\ todo' = TxsOf[b]
      /\ UNCHANGED <<tip, rows, txRow, logRow, wdRow, blockCache, txCache, next>>
  BY <1>1, UnionOfOne DEF Fetch, db, caches
<1>3. TypeOK'
  BY <1>2, ContentAssumption DEF IInv, TypeOK, Stages
<1>4. StoredChain' /\ CommitMarker' /\ DerivedComplete'
  BY <1>2 DEF IInv, StoredChain, CommitMarker, DerivedComplete, Path
<1>5. Importing(b)'
  BY <1>1, <1>2 DEF Importing, AllLogs, AllTxsAt, AllWds
<1>6. WorkerInv'
  BY <1>2, <1>5 DEF WorkerInv
<1> QED
  BY <1>3, <1>4, <1>6 DEF IInv

LEMMA RollbackBlockInv ==
    ASSUME IInv, ~ Multi, RollbackBlock
    PROVE  IInv' /\ \E r \in BlockId : rows = Path(r) /\ rows' = Anc[r]
<1> USE DEF caches
<1>1. pc = "idle" /\ AtTop /\ Number \in [BlockId -> Nat] /\ next \in Nat
  BY TreeAssumption DEF RollbackBlock, UnderTip, IInv, WorkerInv, TypeOK
<1>2. PICK r \in BlockId : rows = Path(r) /\ next = Number[r] + 1
  BY <1>1 DEF AtTop, RollbackBlock, ForkedRows
<1>3. ForkedRows = {r}
  <2>1. \A a \in ForkedRows : a \in Path(r) /\ Number[a] = Number[r]
    BY <1>1, <1>2 DEF ForkedRows
  <2>2. \A a \in ForkedRows : a = r
    BY <2>1, <1>1, TopOfPath
  <2> QED
    BY <2>2 DEF RollbackBlock
<1>4. rows' = Anc[r]
  BY <1>2, <1>3, TopOfPath DEF RollbackBlock
<1>5. rows' \subseteq rows
  BY DEF RollbackBlock
<1>6. TypeOK'
  BY <1>5 DEF RollbackBlock, IInv, TypeOK, Stages
<1>7. StoredChain'
  BY <1>4, AncIsPath, TopOfPath DEF StoredChain, Path
<1>8. CommitMarker' /\ DerivedComplete'
  BY <1>5 DEF RollbackBlock, IInv, CommitMarker, DerivedComplete
<1>9. WorkerInv'
  BY <1>1, <1>2, <1>4 DEF RollbackBlock, IInv, WorkerInv
<1> QED
  BY <1>2, <1>4, <1>6, <1>7, <1>8, <1>9 DEF IInv

LEMMA RollbackTransactionsInv ==
    ASSUME IInv, ~ Multi, RollbackTransactions PROVE IInv'
<1> USE DEF caches
<1>1. PICK r \in BlockId : rows = Anc[r] /\ Number[r] = next - 1
  BY DEF RollbackTransactions, IInv, WorkerInv
<1>2. rows' = rows /\ logRow' = logRow /\ wdRow' = wdRow /\ pc' = "idle"
      /\ next' = NextFromDb(rows) /\ batch' = {} /\ todo' = {}
      /\ txRow' = DropTxsOf(next - 1) /\ tip' = tip /\ UNCHANGED caches
  BY DEF RollbackTransactions, IInv, WorkerInv
<1>3. NextFromDb(rows) \in Nat /\ AtTop'
  BY <1>2, NextFromStore DEF IInv, TypeOK, AtTop, Path
<1>4. TypeOK'
  BY <1>2, <1>3 DEF IInv, TypeOK, Stages, DropTxsOf
<1>5. CommitMarker'
  <2> SUFFICES ASSUME NEW b \in rows, NEW t \in TxsOf[b] PROVE txRow'[t] = b
    BY <1>2 DEF CommitMarker
  <2>1. b \in BlockId /\ t \in Tx /\ txRow[t] = b
    BY ContentAssumption DEF IInv, TypeOK, CommitMarker
  <2>2. Number[b] # next - 1
    BY <1>1, <2>1, TreeAssumption
  <2> QED
    BY <1>2, <2>1, <2>2 DEF DropTxsOf
<1>6. StoredChain' /\ DerivedComplete'
  BY <1>2 DEF IInv, StoredChain, DerivedComplete, Path
<1>7. WorkerInv'
  BY <1>2, <1>3 DEF WorkerInv
<1> QED
  BY <1>4, <1>5, <1>6, <1>7 DEF IInv

\* The block in hand, at any stage of its import.
LEMMA InHand ==
    ASSUME IInv, pc \notin {"idle", "rollback"}
    PROVE  \E b \in BlockId : Importing(b)
BY DEF IInv, WorkerInv

\* The stored blocks are ancestors of the one being imported, so they share
\* neither a transaction nor a withdrawal request with it.
LEMMA NotInStored ==
    ASSUME IInv, NEW b \in BlockId, rows = Anc[b]
    PROVE  \A r \in rows : r # b /\ TxsOf[r] \cap TxsOf[b] = {}
                           /\ WdsOf[r] \cap WdsOf[b] = {}
BY TopOfPath, ContentAssumption

LEMMA ImportLogsInv == ASSUME IInv, ImportLogs PROVE IInv'
<1> USE DEF caches
<1>1. PICK b \in BlockId : Importing(b)
  BY InHand DEF ImportLogs
<1>2. PICK c \in Chunks(todo) :
        /\ logRow' = [t \in Tx |-> IF t \in c /\ logRow[t] = NoBlock
                                   THEN HomeIn(TxsOf, t) ELSE logRow[t]]
        /\ Proceed(c, "txs", UnionOf(TxsOf, batch))
  BY DEF ImportLogs
<1>3. c \subseteq todo /\ todo \subseteq TxsOf[b] /\ TxsOf[b] \subseteq Tx
  BY <1>1, <1>2, ChunkIsPart, ContentAssumption DEF Importing, ImportLogs
<1>4. \A t \in Tx : logRow'[t] = IF t \in c /\ logRow[t] = NoBlock
                                 THEN b ELSE logRow[t]
  BY <1>1, <1>2, <1>3, HomeOfOne DEF Importing
<1>5. logRow' \in [Tx -> BlockId \cup {NoBlock}]
  BY <1>2, <1>4 DEF IInv, TypeOK
<1>6. /\ UNCHANGED <<tip, rows, txRow, wdRow, blockCache, txCache, next, batch>>
      /\ \/ c # todo /\ pc' = "logs" /\ todo' = todo \ c
         \/ c = todo /\ pc' = "txs" /\ todo' = TxsOf[b]
  BY <1>1, <1>2, UnionOfOne DEF ImportLogs, Proceed, Importing
<1>7. TypeOK'
  BY <1>3, <1>5, <1>6 DEF IInv, TypeOK, Stages
<1>8. \A t \in Tx : (logRow[t] # NoBlock \/ t \in c) => logRow'[t] # NoBlock
  BY <1>4, TreeAssumption
<1>9. StoredChain' /\ CommitMarker'
  BY <1>6 DEF IInv, StoredChain, CommitMarker, Path
<1>10. DerivedComplete'
  BY <1>6, <1>8, ContentAssumption DEF IInv, TypeOK, DerivedComplete
<1>11. Importing(b)'
  BY <1>1, <1>3, <1>6, <1>8 DEF ImportLogs, Importing, AllLogs, AllTxsAt, AllWds
<1>12. WorkerInv'
  BY <1>6, <1>11 DEF WorkerInv
<1> QED
  BY <1>7, <1>9, <1>10, <1>12 DEF IInv

LEMMA ImportTransactionsInv == ASSUME IInv, ImportTransactions PROVE IInv'
<1> USE DEF caches
<1>1. PICK b \in BlockId : Importing(b)
  BY InHand DEF ImportTransactions
<1>2. PICK c \in Chunks(todo) :
        /\ txRow' = [t \in Tx |-> IF t \in c THEN HomeIn(TxsOf, t)
                                             ELSE txRow[t]]
        /\ Proceed(c, "txcache", {})
  BY DEF ImportTransactions
<1>3. c \subseteq todo /\ todo \subseteq TxsOf[b] /\ TxsOf[b] \subseteq Tx
  BY <1>1, <1>2, ChunkIsPart, ContentAssumption DEF Importing, ImportTransactions
<1>4. \A t \in Tx : txRow'[t] = IF t \in c THEN b ELSE txRow[t]
  BY <1>1, <1>2, <1>3, HomeOfOne DEF Importing
<1>5. txRow' \in [Tx -> BlockId \cup {NoBlock}]
  BY <1>2, <1>4 DEF IInv, TypeOK
<1>6. /\ UNCHANGED <<tip, rows, logRow, wdRow, blockCache, txCache, next, batch>>
      /\ \/ c # todo /\ pc' = "txs" /\ todo' = todo \ c
         \/ c = todo /\ pc' = "txcache" /\ todo' = {}
  BY <1>2 DEF ImportTransactions, Proceed
<1>7. TypeOK'
  BY <1>3, <1>5, <1>6 DEF IInv, TypeOK, Stages
<1>8. rows = Anc[b]
  BY <1>1 DEF Importing, ImportTransactions
<1>9. CommitMarker'
  <2> SUFFICES ASSUME NEW r \in rows, NEW t \in TxsOf[r] PROVE txRow'[t] = r
    BY <1>6 DEF CommitMarker
  <2>1. t \notin c
    BY <1>3, <1>8, NotInStored
  <2>2. t \in Tx
    BY ContentAssumption DEF IInv, TypeOK
  <2> QED
    BY <1>4, <2>1, <2>2 DEF IInv, CommitMarker
<1>10. StoredChain' /\ DerivedComplete'
  BY <1>6 DEF IInv, StoredChain, DerivedComplete, Path
<1>11. Importing(b)'
  BY <1>1, <1>3, <1>4, <1>6
     DEF ImportTransactions, Importing, AllLogs, AllTxsAt, AllWds
<1>12. WorkerInv'
  BY <1>6, <1>11 DEF WorkerInv
<1> QED
  BY <1>7, <1>9, <1>10, <1>12 DEF IInv

LEMMA UpdateTransactionsCacheInv ==
    ASSUME IInv, UpdateTransactionsCache PROVE IInv'
<1> USE DEF db
<1>1. PICK b \in BlockId : Importing(b)
  BY InHand DEF UpdateTransactionsCache
<1>2. /\ UNCHANGED <<tip, rows, txRow, logRow, wdRow, blockCache, next, batch>>
      /\ pc' = "withdrawals" /\ todo' = WdsOf[b]
  BY <1>1, UnionOfOne DEF UpdateTransactionsCache, Importing
<1>3. txCache' \in SUBSET (Nat \X Tx)
  <2>1. UnionOf(TxsOf, batch) \subseteq Tx
    BY <1>1, UnionOfOne, ContentAssumption DEF Importing
  <2>2. \A t \in UnionOf(TxsOf, batch) : HomeIn(TxsOf, t) = b
    BY <1>1, UnionOfOne, HomeOfOne DEF Importing
  <2>3. Number[b] \in Nat
    BY TreeAssumption
  <2>4. {<<Number[HomeIn(TxsOf, t)], t>> : t \in UnionOf(TxsOf, batch)}
           \in SUBSET (Nat \X Tx)
    BY <2>1, <2>2, <2>3
  <2> QED
    BY <2>4 DEF UpdateTransactionsCache, MergeTxs, IInv, TypeOK
<1>4. TypeOK'
  BY <1>2, <1>3, ContentAssumption DEF IInv, TypeOK, Stages
<1>5. StoredChain' /\ CommitMarker' /\ DerivedComplete'
  BY <1>2 DEF IInv, StoredChain, CommitMarker, DerivedComplete, Path
<1>6. Importing(b)'
  BY <1>1, <1>2
     DEF UpdateTransactionsCache, Importing, AllLogs, AllTxsAt, AllWds
<1>7. WorkerInv'
  BY <1>2, <1>6 DEF WorkerInv
<1> QED
  BY <1>4, <1>5, <1>7 DEF IInv

LEMMA ImportWithdrawalRequestsInv ==
    ASSUME IInv, ImportWithdrawalRequests PROVE IInv'
<1> USE DEF caches
<1>1. PICK b \in BlockId : Importing(b)
  BY InHand DEF ImportWithdrawalRequests
<1>2. PICK c \in Chunks(todo) :
        /\ wdRow' = [w \in Wd |-> IF w \in c /\ wdRow[w] = NoBlock
                                  THEN HomeIn(WdsOf, w) ELSE wdRow[w]]
        /\ Proceed(c, "blocks", batch)
  BY DEF ImportWithdrawalRequests
<1>3. c \subseteq todo /\ todo \subseteq WdsOf[b] /\ WdsOf[b] \subseteq Wd
  BY <1>1, <1>2, ChunkIsPart, ContentAssumption
     DEF Importing, ImportWithdrawalRequests
<1>4. \A w \in Wd : wdRow'[w] = IF w \in c /\ wdRow[w] = NoBlock
                                THEN b ELSE wdRow[w]
  BY <1>1, <1>2, <1>3, HomeOfOne DEF Importing
<1>5. wdRow' \in [Wd -> BlockId \cup {NoBlock}]
  BY <1>2, <1>4 DEF IInv, TypeOK
<1>6. /\ UNCHANGED <<tip, rows, txRow, logRow, blockCache, txCache, next, batch>>
      /\ \/ c # todo /\ pc' = "withdrawals" /\ todo' = todo \ c
         \/ c = todo /\ pc' = "blocks" /\ todo' = {b}
  BY <1>1, <1>2 DEF ImportWithdrawalRequests, Proceed, Importing
<1>7. TypeOK'
  BY <1>3, <1>5, <1>6 DEF IInv, TypeOK, Stages
<1>8. \A w \in Wd : (wdRow[w] # NoBlock \/ w \in c) => wdRow'[w] # NoBlock
  BY <1>4, TreeAssumption
<1>9. StoredChain' /\ CommitMarker'
  BY <1>6 DEF IInv, StoredChain, CommitMarker, Path
<1>10. DerivedComplete'
  BY <1>6, <1>8, ContentAssumption DEF IInv, TypeOK, DerivedComplete
<1>11. Importing(b)'
  BY <1>1, <1>3, <1>6, <1>8
     DEF ImportWithdrawalRequests, Importing, AllLogs, AllTxsAt, AllWds
<1>12. WorkerInv'
  BY <1>6, <1>11 DEF WorkerInv
<1> QED
  BY <1>7, <1>9, <1>10, <1>12 DEF IInv

\* The block row is the last thing written: everything it vouches for is in.
LEMMA ImportBlockInv ==
    ASSUME IInv, ImportBlock
    PROVE  IInv' /\ (rows' = rows \/ \E b \in BlockId : rows = Anc[b] /\ rows' = Path(b))
<1> USE DEF caches
<1>1. PICK b \in BlockId : Importing(b)
  BY InHand DEF ImportBlock
<1>2. PICK c \in Chunks(todo) :
        /\ rows' = rows \cup {d \in c : \A r \in rows : Number[r] # Number[d]}
        /\ Proceed(c, "blockcache", {})
  BY DEF ImportBlock
<1>3. todo = {b} /\ rows = Anc[b] /\ batch = {b}
  BY <1>1 DEF Importing, ImportBlock
<1>4. c = {} \/ c = {b}
  BY <1>2, <1>3, ChunkIsPart
<1>5. \A r \in rows : Number[r] # Number[b]
  BY <1>3, TreeAssumption
<1>6. UNCHANGED <<tip, txRow, logRow, wdRow, blockCache, txCache, next, batch>>
  BY DEF ImportBlock
<1>7. CASE c = {}
  <2>1. rows' = rows /\ pc' = pc /\ todo' = todo
    BY <1>2, <1>3, <1>7 DEF Proceed
  <2>2. IInv'
    BY <2>1, <1>6, InvDepends DEF db, caches, worker, IInv, TypeOK
  <2> QED
    BY <2>1, <2>2
<1>8. CASE c = {b}
  <2>1. rows' = Path(b) /\ pc' = "blockcache" /\ todo' = {}
    BY <1>2, <1>3, <1>5, <1>8 DEF Proceed, Path
  <2>2. TypeOK'
    BY <1>6, <2>1, TopOfPath DEF IInv, TypeOK, Stages
  <2>3. StoredChain'
    BY <2>1, TopOfPath DEF StoredChain, Path
  <2>4. AllLogs(TxsOf[b]) /\ AllTxsAt(b, TxsOf[b]) /\ AllWds(WdsOf[b])
    BY <1>1 DEF Importing, ImportBlock
  <2>5. CommitMarker' /\ DerivedComplete'
    BY <1>3, <1>6, <2>1, <2>4
       DEF IInv, CommitMarker, DerivedComplete, AllLogs, AllTxsAt, AllWds, Path
  <2>6. Importing(b)'
    BY <1>1, <1>6, <2>1, <2>4 DEF Importing, AllLogs, AllTxsAt, AllWds, Path
  <2>7. WorkerInv'
    BY <2>1, <2>6 DEF WorkerInv
  <2> QED
    BY <1>3, <2>1, <2>2, <2>3, <2>5, <2>7 DEF IInv
<1> QED
  BY <1>4, <1>7, <1>8

LEMMA UpdateBlockCacheInv ==
    ASSUME IInv, ~ Multi, UpdateBlockCache PROVE IInv'
<1> USE DEF db
<1>1. PICK b \in BlockId : Importing(b)
  BY InHand DEF UpdateBlockCache
<1>2. /\ UNCHANGED <<tip, rows, txRow, logRow, wdRow, txCache>>
      /\ pc' = "idle" /\ next' = next + 1 /\ batch' = {} /\ todo' = {}
      /\ rows = Path(b) /\ Number[b] = next
  BY <1>1 DEF UpdateBlockCache, LastOfRange, Importing
<1>3. blockCache' \in SUBSET BlockId
  BY DEF UpdateBlockCache, MergeBlocks, IInv, TypeOK
<1>4. TypeOK'
  BY <1>2, <1>3 DEF IInv, TypeOK, Stages
<1>5. StoredChain' /\ CommitMarker' /\ DerivedComplete'
  BY <1>2 DEF IInv, StoredChain, CommitMarker, DerivedComplete, Path
<1>6. WorkerInv'
  BY <1>2 DEF WorkerInv, AtTop, Path
<1> QED
  BY <1>4, <1>5, <1>6 DEF IInv

-----------------------------------------------------------------------------
(* The theorems *)

LEMMA StepInv == ASSUME IInv, ~ Multi, [Next]_vars PROVE IInv'
<1>1. CASE Fetch
  BY <1>1, FetchInv
<1>2. CASE RollbackBlock
  BY <1>2, RollbackBlockInv
<1>3. CASE RollbackTransactions
  BY <1>3, RollbackTransactionsInv
<1>4. CASE ImportLogs
  BY <1>4, ImportLogsInv
<1>5. CASE ImportTransactions
  BY <1>5, ImportTransactionsInv
<1>6. CASE UpdateTransactionsCache
  BY <1>6, UpdateTransactionsCacheInv
<1>7. CASE ImportWithdrawalRequests
  BY <1>7, ImportWithdrawalRequestsInv
<1>8. CASE ImportBlock
  BY <1>8, ImportBlockInv
<1>9. CASE UpdateBlockCache
  BY <1>9, UpdateBlockCacheInv
<1>10. CASE Crash \/ Restart
  BY <1>10, CrashInv
<1>11. CASE Node
  BY <1>11, NodeInv
<1>12. CASE WaitForTip \/ UNCHANGED vars
  BY <1>12, InvDepends DEF WaitForTip, vars, IInv, TypeOK
<1> QED
  BY <1>1, <1>2, <1>3, <1>4, <1>5, <1>6, <1>7, <1>8, <1>9, <1>10, <1>11, <1>12
     DEF Next, Work

\* The strengthened invariant holds always, in single-block mode.
THEOREM Invariance == ASSUME ~ Multi PROVE Spec => []IInv
<1>1. Init => IInv
  BY InitInv
<1>2. IInv /\ [Next]_vars => IInv'
  BY StepInv
<1> QED
  BY <1>1, <1>2, PTL DEF Spec

\* SyncWorker, single-block mode: the stored blocks are always one block and
\* its ancestors, through reverts of the node, rollbacks and crashes.
THEOREM StoredChainAlways == ASSUME ~ Multi PROVE Spec => []StoredChain
<1>1. IInv => StoredChain
  BY DEF IInv
<1> QED
  BY <1>1, Invariance, PTL

\* SyncWorker, single-block mode: a stored block row vouches for the rows of
\* its transactions, which point to it.
THEOREM CommitMarkerAlways == ASSUME ~ Multi PROVE Spec => []CommitMarker
<1>1. IInv => CommitMarker
  BY DEF IInv
<1> QED
  BY <1>1, Invariance, PTL

\* SyncWorker, single-block mode: ... and for the logs of its transactions and
\* its withdrawal requests.
THEOREM DerivedCompleteAlways == ASSUME ~ Multi PROVE Spec => []DerivedComplete
<1>1. IInv => DerivedComplete
  BY DEF IInv
<1> QED
  BY <1>1, Invariance, PTL

\* The block table implements the abstract indexed chain.
THEOREM Refinement == ASSUME ~ Multi PROVE Spec => ImplementsIndexedChain
<1>1. Init => Chain!StoreInit
  BY DEF Init, Chain!StoreInit
<1>2. ASSUME IInv, [Next]_vars
      PROVE  [Chain!StoreNext]_rows
  <2>1. CASE ImportBlock
    BY <1>2, <2>1, ImportBlockInv
       DEF Chain!StoreNext, Chain!Extend, Chain!Path, Path
  <2>2. CASE RollbackBlock
    BY <1>2, <2>2, RollbackBlockInv
       DEF Chain!StoreNext, Chain!Withdraw, Chain!Path, Path
  <2>3. CASE ~ ImportBlock /\ ~ RollbackBlock
    BY <1>2, <2>3
       DEF Next, Work, Fetch, RollbackTransactions, ImportLogs,
           ImportTransactions, UpdateTransactionsCache,
           ImportWithdrawalRequests, UpdateBlockCache, WaitForTip, Crash,
           Restart, Node, vars, db
  <2> QED
    BY <2>1, <2>2, <2>3
<1> QED
  BY <1>1, <1>2, Invariance, PTL
     DEF Spec, ImplementsIndexedChain, Chain!StoreSpec

\* get_next_block_number on the blocks below a block.
LEMMA NextOfAnc ==
    ASSUME NEW b \in BlockId
    PROVE  NextFromDb(Anc[b]) = Number[b]
<1>1. CASE b = Genesis
  BY <1>1, TreeAssumption DEF NextFromDb
<1>2. CASE b # Genesis
  <2>1. /\ Anc[b] = Path(Parent[b]) /\ Parent[b] \in BlockId
        /\ Number[b] = Number[Parent[b]] + 1
    BY <1>2, TreeAssumption DEF Path
  <2> QED BY <2>1, NextOfPath
<1> QED BY <1>1, <1>2

LEMMA NumbersOfChain ==
    ASSUME NEW b \in BlockId
    PROVE  /\ NextFromDb(Anc[b]) = Number[b] /\ NextFromDb(Path(b)) = Number[b] + 1
           /\ Number[b] \in Nat
BY NextOfAnc, NextOfPath, TreeAssumption

\* The highest stored number.
StoredNumbers == INSTANCE BlockNumbers WITH top <- NextFromDb(rows) - 1

\* Seen by their numbers the rows are a stack: numbers come one at a time
\* above the highest one, and go from there.
THEOREM ImplementsBlockNumbers ==
    ASSUME ~ Multi PROVE Spec => StoredNumbers!NumbersSpec
<1>1. Init => StoredNumbers!NumbersInit
  BY DEF Init, StoredNumbers!NumbersInit, NextFromDb
<1>2. [Chain!StoreNext]_rows
        => [StoredNumbers!Insert \/ StoredNumbers!Delete]_(NextFromDb(rows) - 1)
  <2>1. ASSUME NEW b \in BlockId, rows = Anc[b], rows' = Path(b)
        PROVE  StoredNumbers!Insert
    BY <2>1, NumbersOfChain DEF StoredNumbers!Insert
  <2>2. ASSUME NEW b \in BlockId, rows = Path(b), rows' = Anc[b]
        PROVE  StoredNumbers!Delete
    BY <2>2, NumbersOfChain DEF StoredNumbers!Delete
  <2>3. rows' = rows => UNCHANGED (NextFromDb(rows) - 1)
    OBVIOUS
  <2> QED
    BY <2>1, <2>2, <2>3
       DEF Chain!StoreNext, Chain!Extend, Chain!Withdraw, Chain!Path, Path
<1>3. Spec => [][Chain!StoreNext]_rows
  BY Refinement, PTL DEF ImplementsIndexedChain, Chain!StoreSpec
<1>4. [][Chain!StoreNext]_rows
        => [][StoredNumbers!Insert \/ StoredNumbers!Delete]_(NextFromDb(rows) - 1)
  BY <1>2, PTL
<1>5. Spec => Init
  BY PTL DEF Spec
<1> QED
  BY <1>1, <1>3, <1>4, <1>5, PTL DEF StoredNumbers!NumbersSpec
-----------------------------------------------------------------------------
(* Several blocks at a time: the numbers of the rows *)

\* The next number after the highest stored one is k.
TopIs(k) ==
    /\ \A b \in rows : Number[b] < k
    /\ k = 0 \/ \E d \in rows : Number[d] = k - 1

NumbersUnique(S) == \A b, d \in S : Number[b] = Number[d] => b = d

\* The blocks in hand: one for each number of the range, and what the current
\* statement has still to insert comes from them.  While the block rows go in,
\* those of the range that are not to do any more are the highest stored ones.
RangeInv ==
    /\ NumbersUnique(batch)
    /\ \A b \in batch : Number[b] \in next .. LastOfRange
    /\ \A n \in next .. LastOfRange : \E b \in batch : Number[b] = n
    /\ pc \in {"logs", "txs"} => todo \subseteq UnionOf(TxsOf, batch)
    /\ pc = "withdrawals" => todo \subseteq UnionOf(WdsOf, batch)
    /\ pc \in {"logs", "txs", "txcache", "withdrawals"} => TopIs(next)
    /\ pc = "blocks" =>
          /\ todo \subseteq batch /\ batch \ todo \subseteq rows
          /\ \A r \in rows : Number[r] < next \/ r \in batch \ todo
    /\ pc = "blockcache" => batch \subseteq rows /\ TopIs(LastOfRange + 1)

NumbersInv ==
    /\ TypeOK /\ NumbersUnique(rows)
    /\ pc # "rollback"
    /\ pc = "idle" => TopIs(next) /\ batch = {} /\ todo = {}
    /\ pc # "idle" => RangeInv

\* get_next_block_number finds that number.
LEMMA NextOfTop ==
    ASSUME NEW k \in Nat, TopIs(k), rows \in SUBSET BlockId
    PROVE  NextFromDb(rows) = k
<1>1. Number \in [BlockId -> Nat]
  BY TreeAssumption
<1>2. CASE rows = {}
  BY <1>2 DEF TopIs, NextFromDb
<1>3. CASE rows # {}
  <2> DEFINE max == CHOOSE b \in rows : \A d \in rows : Number[d] <= Number[b]
  <2>1. PICK top \in rows : Number[top] = k - 1
    BY <1>1, <1>3 DEF TopIs
  <2>2. \A d \in rows : Number[d] <= k - 1
    BY <1>1 DEF TopIs
  <2>3. max \in rows /\ \A d \in rows : Number[d] <= Number[max]
    BY <2>1, <2>2
  <2>4. Number[max] = k - 1
    BY <1>1, <2>1, <2>2, <2>3
  <2> QED
    BY <1>3, <2>4 DEF NextFromDb
<1> QED
  BY <1>2, <1>3

\* There always is a highest stored number.
LEMMA SomeTop ==
    ASSUME NumbersInv
    PROVE  \E k \in Nat : TopIs(k)
<1>1. next \in Nat /\ LastOfRange \in Nat /\ next <= LastOfRange
      /\ Number \in [BlockId -> Nat] /\ rows \in SUBSET BlockId
  BY ConfigAssumption, TreeAssumption DEF NumbersInv, TypeOK, LastOfRange
<1>2. CASE rows = {}
  BY <1>2 DEF TopIs
<1>3. CASE rows # {}
  <2> DEFINE Stored == {Number[b] : b \in rows}
  <2>1. Stored \in SUBSET Nat /\ Stored # {}
    BY <1>1, <1>3
  <2>2. \A b \in rows : Number[b] <= LastOfRange
    BY <1>1 DEF NumbersInv, RangeInv, TypeOK, Stages, TopIs
  <2>3. IsFiniteSet(Stored)
    <3>1. \A n \in Stored : n <= LastOfRange
      BY <2>2
    <3> QED
      BY <1>1, <2>1, <3>1, FS_BoundedSetOfNaturals
  <2>4. PICK n \in Stored : \A m \in Stored : m <= n
    <3> HIDE DEF Stored
    <3> QED
      BY <2>1, <2>3, GreatestExists
  <2>5. n \in Nat /\ \E d \in rows : Number[d] = n
    BY <2>1
  <2>6. \A b \in rows : Number[b] < n + 1
    BY <1>1, <2>4, <2>5
  <2>7. TopIs(n + 1)
    BY <2>5, <2>6 DEF TopIs
  <2> QED
    BY <2>5, <2>7
<1> QED
  BY <1>2, <1>3

\* What a statement inserts came with a block of the batch.
LEMMA HomeInBatch ==
    ASSUME NEW content, NEW x \in UnionOf(content, batch)
    PROVE  HomeIn(content, x) \in batch
BY DEF UnionOf, HomeIn

\* The numbers of the rows and of the range survive each step.
LEMMA NumbersStep ==
    ASSUME Multi, NumbersInv, [Next]_vars
    PROVE  NumbersInv'
<1> USE DEF NumbersInv
<1>0. /\ Number \in [BlockId -> Nat] /\ NoBlock \notin BlockId
      /\ next \in Nat /\ LastOfRange \in Nat /\ next <= LastOfRange
      /\ batch \in SUBSET BlockId /\ rows \in SUBSET BlockId /\ tip \in BlockId
  BY TreeAssumption, ConfigAssumption DEF TypeOK, LastOfRange
<1>1. ASSUME UNCHANGED <<rows, pc, next, batch, todo>>, TypeOK'
      PROVE  NumbersInv'
  BY <1>1 DEF RangeInv, TopIs, NumbersUnique, LastOfRange, UnionOf
<1>2. CASE Fetch
  <2>1. /\ batch' = Fetched /\ pc' = "logs" /\ todo' = UnionOf(TxsOf, Fetched)
        /\ UNCHANGED <<tip, db, caches, next>>
        /\ pc = "idle" /\ LastOfRange <= Number[tip]
    BY <1>2 DEF Fetch, UnderTip
  <2>2. Fetched \in SUBSET BlockId /\ \A b \in Fetched : Number[b] \in next .. LastOfRange
    BY <1>0, TopOfPath DEF Fetched, Canonical
  <2>3. ASSUME NEW n \in next .. LastOfRange
        PROVE  \E b \in Fetched : {c \in Fetched : Number[c] = n} = {b}
    <3>1. n \in 0 .. Number[tip]
      BY <1>0, <2>1
    <3>2. PICK b \in Path(tip) : {c \in Path(tip) : Number[c] = n} = {b}
      BY <1>0, <3>1, BlockAt
    <3>3. Fetched = {c \in Path(tip) : Number[c] \in next .. LastOfRange}
      BY DEF Fetched, Canonical
    <3> QED
      BY <3>2, <3>3
  <2>4. NumbersUnique(Fetched)
    BY <2>2, <2>3 DEF NumbersUnique
  <2>5. TypeOK'
    BY <2>1, <2>2, ContentAssumption DEF TypeOK, Stages, UnionOf, db, caches
  <2>6. RangeInv'
    BY <2>1, <2>2, <2>3, <2>4
       DEF RangeInv, TopIs, NumbersUnique, LastOfRange, UnionOf, db
  <2> QED
    BY <2>1, <2>5, <2>6 DEF NumbersUnique, db
<1>3. CASE ImportLogs
  <2>1. PICK c \in Chunks(todo) :
          /\ logRow' = [t \in Tx |-> IF t \in c /\ logRow[t] = NoBlock
                                     THEN HomeIn(TxsOf, t) ELSE logRow[t]]
          /\ Proceed(c, "txs", UnionOf(TxsOf, batch))
    BY <1>3 DEF ImportLogs
  <2>2. /\ UNCHANGED <<tip, rows, txRow, wdRow, caches, next, batch>>
        /\ pc = "logs" /\ pc' \in {"logs", "txs"}
        /\ todo' \subseteq UnionOf(TxsOf, batch) /\ c \subseteq UnionOf(TxsOf, batch)
    BY <1>3, <2>1, ChunkIsPart DEF ImportLogs, Proceed, RangeInv
  <2>3. UnionOf(TxsOf, batch) \subseteq Tx
    BY <1>0, ContentAssumption DEF UnionOf
  <2>4. TypeOK'
    BY <1>0, <2>1, <2>2, <2>3, HomeInBatch DEF TypeOK, Stages, caches
  <2>5. RangeInv'
    BY <2>2 DEF RangeInv, TopIs, NumbersUnique, LastOfRange, UnionOf
  <2> QED
    BY <2>2, <2>4, <2>5 DEF NumbersUnique
<1>4. CASE ImportTransactions
  <2>1. PICK c \in Chunks(todo) :
          /\ txRow' = [t \in Tx |-> IF t \in c THEN HomeIn(TxsOf, t)
                                               ELSE txRow[t]]
          /\ Proceed(c, "txcache", {})
    BY <1>4 DEF ImportTransactions
  <2>2. /\ UNCHANGED <<tip, rows, logRow, wdRow, caches, next, batch>>
        /\ pc = "txs" /\ pc' \in {"txs", "txcache"}
        /\ todo' \subseteq UnionOf(TxsOf, batch) /\ c \subseteq UnionOf(TxsOf, batch)
    BY <1>4, <2>1, ChunkIsPart DEF ImportTransactions, Proceed, RangeInv
  <2>3. UnionOf(TxsOf, batch) \subseteq Tx
    BY <1>0, ContentAssumption DEF UnionOf
  <2>4. TypeOK'
    BY <1>0, <2>1, <2>2, <2>3, HomeInBatch DEF TypeOK, Stages, caches
  <2>5. RangeInv'
    BY <2>2 DEF RangeInv, TopIs, NumbersUnique, LastOfRange, UnionOf
  <2> QED
    BY <2>2, <2>4, <2>5 DEF NumbersUnique
<1>5. CASE UpdateTransactionsCache
  <2>1. /\ UNCHANGED <<tip, rows, txRow, logRow, wdRow, blockCache, next, batch>>
        /\ pc = "txcache" /\ pc' = "withdrawals" /\ todo' = UnionOf(WdsOf, batch)
    BY <1>5 DEF UpdateTransactionsCache, db
  <2>2. UnionOf(TxsOf, batch) \subseteq Tx /\ UnionOf(WdsOf, batch) \subseteq Wd
    BY <1>0, ContentAssumption DEF UnionOf
  <2>3. txCache' \in SUBSET (Nat \X Tx)
    <3>1. \A t \in UnionOf(TxsOf, batch) : Number[HomeIn(TxsOf, t)] \in Nat
      BY <1>0, HomeInBatch
    <3>2. {<<Number[HomeIn(TxsOf, t)], t>> : t \in UnionOf(TxsOf, batch)}
             \in SUBSET (Nat \X Tx)
      BY <2>2, <3>1
    <3> QED
      BY <1>5, <3>2 DEF UpdateTransactionsCache, MergeTxs, TypeOK
  <2>4. TypeOK'
    BY <2>1, <2>2, <2>3 DEF TypeOK, Stages
  <2>5. RangeInv'
    BY <2>1 DEF RangeInv, TopIs, NumbersUnique, LastOfRange, UnionOf
  <2> QED
    BY <2>1, <2>4, <2>5 DEF NumbersUnique
<1>6. CASE ImportWithdrawalRequests
  <2>1. PICK c \in Chunks(todo) :
          /\ wdRow' = [w \in Wd |-> IF w \in c /\ wdRow[w] = NoBlock
                                    THEN HomeIn(WdsOf, w) ELSE wdRow[w]]
          /\ Proceed(c, "blocks", batch)
    BY <1>6 DEF ImportWithdrawalRequests
  <2>2. /\ UNCHANGED <<tip, rows, txRow, logRow, caches, next, batch>>
        /\ pc = "withdrawals" /\ c \subseteq UnionOf(WdsOf, batch)
        /\ \/ pc' = "withdrawals" /\ todo' \subseteq UnionOf(WdsOf, batch)
           \/ pc' = "blocks" /\ todo' = batch
    BY <1>6, <2>1, ChunkIsPart DEF ImportWithdrawalRequests, Proceed, RangeInv
  <2>3. UnionOf(WdsOf, batch) \subseteq Wd
    BY <1>0, ContentAssumption DEF UnionOf
  <2>4. wdRow' \in [Wd -> BlockId \cup {NoBlock}]
    BY <1>0, <2>1, <2>2, HomeInBatch DEF TypeOK
  <2>5. TypeOK'
    BY <1>0, <2>2, <2>3, <2>4 DEF TypeOK, Stages, caches
  <2>6. RangeInv'
    <3>1. TopIs(next)
      BY <2>2 DEF RangeInv
    <3>2. CASE pc' = "withdrawals"
      BY <2>2, <3>1, <3>2 DEF RangeInv, TopIs, NumbersUnique, LastOfRange, UnionOf
    <3>3. CASE pc' = "blocks"
      BY <2>2, <3>1, <3>3 DEF RangeInv, TopIs, NumbersUnique, LastOfRange
    <3> QED
      BY <2>2, <3>2, <3>3
  <2> QED
    BY <2>2, <2>5, <2>6 DEF NumbersUnique
<1>7. CASE ImportBlock
  <2>1. PICK c \in Chunks(todo) :
          /\ rows' = rows \cup {b \in c : \A r \in rows : Number[r] # Number[b]}
          /\ Proceed(c, "blockcache", {})
    BY <1>7 DEF ImportBlock
  <2>2. /\ UNCHANGED <<tip, txRow, logRow, wdRow, caches, next, batch>>
        /\ pc = "blocks" /\ RangeInv /\ c \subseteq todo
        /\ todo \subseteq batch /\ batch \ todo \subseteq rows
        /\ \A r \in rows : Number[r] < next \/ r \in batch \ todo
    BY <1>7, <2>1, ChunkIsPart DEF ImportBlock, RangeInv
  <2>3. \A b \in c : \A r \in rows : Number[r] # Number[b]
    BY <1>0, <2>2 DEF RangeInv, NumbersUnique
  <2>4. rows' = rows \cup c
    BY <2>1, <2>3
  <2>5. NumbersUnique(rows)'
    <3>1. NumbersUnique(c)
      BY <2>2 DEF RangeInv, NumbersUnique
    <3> QED
      BY <2>3, <2>4, <3>1 DEF NumbersUnique
  <2>6. \/ pc' = "blocks" /\ todo' = todo \ c
        \/ pc' = "blockcache" /\ todo' = {} /\ c = todo
    BY <2>1, <2>2 DEF Proceed
  <2>7. TypeOK'
    BY <1>0, <2>2, <2>4, <2>6 DEF TypeOK, Stages, caches
  <2>8. LastOfRange' = LastOfRange
    BY <2>2 DEF LastOfRange
  <2>9. \A r \in rows' : Number[r] < next \/ r \in batch \ (todo \ c)
    BY <2>2, <2>4
  <2>10. ASSUME pc' = "blocks" PROVE RangeInv'
    BY <2>2, <2>4, <2>6, <2>8, <2>9, <2>10 DEF RangeInv, NumbersUnique
  <2>11. ASSUME pc' = "blockcache" PROVE RangeInv'
    <3>1. batch \subseteq rows'
      BY <2>2, <2>4, <2>6, <2>11
    <3>2. PICK d \in batch : Number[d] = LastOfRange
      BY <1>0, <2>2 DEF RangeInv
    <3>3. \A r \in rows' : Number[r] <= LastOfRange /\ Number[r] \in Nat
      BY <1>0, <2>2, <2>4 DEF RangeInv
    <3>4. TopIs(LastOfRange + 1)'
      BY <1>0, <2>8, <3>1, <3>2, <3>3 DEF TopIs
    <3> QED
      BY <2>2, <2>8, <2>11, <3>1, <3>4 DEF RangeInv, NumbersUnique
  <2> QED
    BY <2>5, <2>6, <2>7, <2>10, <2>11
<1>8. CASE UpdateBlockCache
  <2>1. /\ UNCHANGED <<tip, rows, txRow, logRow, wdRow, txCache>>
        /\ pc' = "idle" /\ next' = LastOfRange + 1 /\ batch' = {} /\ todo' = {}
        /\ pc = "blockcache" /\ TopIs(LastOfRange + 1)
    BY <1>8 DEF UpdateBlockCache, db, RangeInv
  <2>2. blockCache' \in SUBSET BlockId
    BY <1>0, <1>8 DEF UpdateBlockCache, MergeBlocks, TypeOK
  <2>3. TypeOK'
    BY <1>0, <2>1, <2>2 DEF TypeOK, Stages
  <2> QED
    BY <2>1, <2>3 DEF TopIs, NumbersUnique
<1>9. CASE Crash \/ Restart
  <2>1. /\ UNCHANGED <<tip, rows, txRow, logRow, wdRow>>
        /\ blockCache' \in SUBSET BlockId /\ txCache' \in SUBSET (Nat \X Tx)
        /\ pc' = "idle" /\ next' = NextFromDb(rows) /\ batch' = {} /\ todo' = {}
    BY <1>9 DEF Crash, Restart, db, caches, TypeOK
  <2>2. PICK k \in Nat : TopIs(k)
    BY SomeTop
  <2>3. NextFromDb(rows) = k
    BY <1>0, <2>2, NextOfTop
  <2>4. TypeOK'
    BY <2>1, <2>3 DEF TypeOK, Stages
  <2> QED
    BY <2>1, <2>2, <2>3, <2>4 DEF TopIs, NumbersUnique
<1>10. CASE Node
  <2>1. tip' \in BlockId
    BY <1>0, <1>10, TreeAssumption DEF Node, NodeStep, NodeGrow, NodeRevert
  <2> QED
    BY <1>1, <1>10, <2>1 DEF Node, db, caches, worker, TypeOK
<1>11. CASE WaitForTip \/ UNCHANGED vars
  BY <1>1, <1>11 DEF WaitForTip, vars, db, caches, worker, TypeOK
<1> QED
  BY <1>2, <1>3, <1>4, <1>5, <1>6, <1>7, <1>8, <1>9, <1>10, <1>11
     DEF Next, Work, RollbackBlock, RollbackTransactions

LEMMA NumbersInit == Init => NumbersInv
<1> SUFFICES ASSUME Init PROVE NumbersInv
  OBVIOUS
<1>1. TypeOK
  BY TreeAssumption DEF Init, NodeInit, TypeOK, Stages
<1>2. TopIs(0)
  BY DEF Init, TopIs
<1> QED
  BY <1>1, <1>2 DEF Init, NumbersInv, NumbersUnique

LEMMA NumbersInvariance == ASSUME Multi PROVE Spec => []NumbersInv
<1>1. NumbersInv /\ [Next]_vars => NumbersInv'
  BY NumbersStep
<1> QED
  BY <1>1, NumbersInit, PTL DEF Spec

-----------------------------------------------------------------------------
(* Ranges that one insert_all takes: no gap *)

GapInv ==
    /\ NumbersInv /\ NoGap
    /\ pc = "blocks" => todo = batch /\ TopIs(next)

\* A range has at most BatchSize + 1 blocks, so that one chunk has them all.
LEMMA WholeRange ==
    ASSUME Multi, BatchSize < ChunkSize, NumbersInv, pc = "blocks",
           NEW c \in Chunks(batch)
    PROVE  c = batch
<1> DEFINE R == next .. LastOfRange
<1>1. /\ Number \in [BlockId -> Nat] /\ batch \in SUBSET BlockId
      /\ next \in Nat /\ BatchSize \in Nat /\ ChunkSize \in Nat
      /\ LastOfRange = next + BatchSize
  BY TreeAssumption, ConfigAssumption DEF NumbersInv, TypeOK, LastOfRange
<1>2. IsFiniteSet(R) /\ Cardinality(R) = BatchSize + 1
  BY <1>1, FS_Interval
<1>3. IsFiniteSet(batch) /\ Cardinality(batch) <= BatchSize + 1
  <2> DEFINE f == [b \in batch |-> Number[b]]
  <2>1. f \in Injection(batch, R)
    <3>1. \A b \in batch : Number[b] \in R
      BY DEF NumbersInv, RangeInv
    <3>2. f \in [batch -> R]
      BY <3>1
    <3>3. \A a, b \in batch : f[a] = f[b] => a = b
      BY DEF NumbersInv, RangeInv, NumbersUnique
    <3> QED
      BY <3>2, <3>3, Fun_IsInj
  <2> HIDE DEF f, R
  <2> QED
    BY <1>2, <2>1, FS_Injection
<1>4. Cardinality(batch) \in Nat
  BY <1>3, FS_CardinalityType
<1>5. c \in SUBSET batch /\ Cardinality(c) = Cardinality(batch)
  BY <1>1, <1>3, <1>4 DEF Chunks
<1> QED
  BY <1>3, <1>5, FS_Subset

LEMMA GapStep ==
    ASSUME Multi, BatchSize < ChunkSize, GapInv, [Next]_vars
    PROVE  GapInv'
<1>0. /\ NumbersInv /\ NumbersInv' /\ Number \in [BlockId -> Nat]
      /\ next \in Nat /\ rows \in SUBSET BlockId /\ batch \in SUBSET BlockId
  BY NumbersStep, TreeAssumption DEF GapInv, NumbersInv, TypeOK
<1>1. CASE ImportBlock
  <2>1. PICK c \in Chunks(todo) :
          /\ rows' = rows \cup {b \in c : \A r \in rows : Number[r] # Number[b]}
          /\ Proceed(c, "blockcache", {})
    BY <1>1 DEF ImportBlock
  <2>2. pc = "blocks" /\ todo = batch /\ TopIs(next) /\ RangeInv
    BY <1>0, <1>1 DEF ImportBlock, GapInv, NumbersInv
  <2>3. c = batch
    BY <1>0, <2>1, <2>2, WholeRange
  <2>4. pc' = "blockcache" /\ rows' = rows \cup batch
    BY <1>0, <2>1, <2>2, <2>3 DEF Proceed, TopIs, RangeInv
  <2>5. ASSUME NEW b \in rows', NEW n \in 0 .. Number[b]
        PROVE  \E d \in rows' : Number[d] = n
    <3>1. Number[b] \in Nat /\ (Number[b] < next \/ Number[b] <= LastOfRange)
      BY <1>0, <2>2, <2>4 DEF TopIs, RangeInv
    <3>2. CASE n < next
      <4>1. PICK top \in rows : Number[top] = next - 1
        BY <1>0, <2>2, <3>1, <3>2 DEF TopIs
      <4>2. n \in 0 .. Number[top]
        BY <1>0, <3>1, <3>2, <4>1
      <4> QED
        BY <2>4, <4>2 DEF GapInv, NoGap
    <3>3. CASE next <= n
      <4>1. n \in next .. LastOfRange
        BY <1>0, <3>1, <3>3, ConfigAssumption DEF LastOfRange
      <4> QED
        BY <2>2, <2>4, <4>1 DEF RangeInv
    <3> QED
      BY <1>0, <3>1, <3>2, <3>3
  <2>6. NoGap'
    BY <2>5 DEF NoGap
  <2> QED
    BY <1>0, <2>4, <2>6 DEF GapInv
<1>2. CASE ImportWithdrawalRequests
  <2>1. /\ pc = "withdrawals" /\ UNCHANGED <<rows, next, batch>>
        /\ pc' = "blocks" => todo' = batch
    BY <1>2 DEF ImportWithdrawalRequests, Proceed
  <2> QED
    BY <1>0, <2>1 DEF GapInv, NumbersInv, RangeInv, NoGap, TopIs
<1>3. CASE ~ ImportBlock /\ ~ ImportWithdrawalRequests
  <2>1. /\ rows' = rows
        /\ pc' = "blocks" => UNCHANGED <<pc, next, batch, todo>>
    BY <1>0, <1>3
       DEF NumbersInv, Next, Work, Fetch, RollbackBlock, RollbackTransactions,
           ImportLogs, ImportTransactions, UpdateTransactionsCache, UpdateBlockCache,
           Proceed, WaitForTip, Crash, Restart, Node, vars, db, worker
  <2> QED
    BY <1>0, <2>1 DEF GapInv, NoGap, TopIs
<1> QED
  BY <1>1, <1>2, <1>3

LEMMA GapInvariance ==
    ASSUME Multi, BatchSize < ChunkSize PROVE Spec => []GapInv
<1>1. Init => NumbersInv
  BY NumbersInit
<1>2. Init => GapInv
  BY <1>1 DEF Init, GapInv, NoGap
<1>3. GapInv /\ [Next]_vars => GapInv'
  BY GapStep
<1> QED
  BY <1>2, <1>3, PTL DEF Spec

\* The variables of the import keep their types in either mode: no stage
\* leaves the worker with an item of the wrong kind or a block number below
\* zero.
THEOREM TypeCorrect == Spec => []TypeOK
<1>1. CASE Multi
  <2>1. NumbersInv => TypeOK
    BY DEF NumbersInv
  <2> QED
    BY <1>1, <2>1, NumbersInvariance, PTL
<1>2. CASE ~ Multi
  <2>1. IInv => TypeOK
    BY DEF IInv
  <2> QED
    BY <1>2, <2>1, Invariance, PTL
<1> QED
  BY <1>1, <1>2

\* The stored block numbers have no gap and no double in single-block mode, and
\* with several blocks at a time when a range fits one insert_all (500 rows), as
\* import_block is then one statement.  A range of more chunks may leave a gap.
THEOREM ContiguousAlways ==
    ASSUME ~ Multi \/ BatchSize < ChunkSize PROVE Spec => []Contiguous
<1>1. CASE Multi
  <2>1. GapInv => Contiguous
    BY DEF GapInv, NumbersInv, NumbersUnique, Contiguous
  <2> QED
    BY <1>1, <2>1, GapInvariance, PTL
<1>2. CASE ~ Multi
  <2>1. ASSUME IInv PROVE Contiguous
    <3>1. CASE rows = {}
      BY <3>1 DEF Contiguous, NoGap
    <3>2. CASE \E b \in rows : rows = Path(b)
      <4>1. PICK t \in BlockId : rows = Path(t)
        BY <2>1, <3>2 DEF IInv, TypeOK
      <4>2. /\ Number \in [BlockId -> Nat] /\ rows \in SUBSET BlockId
            /\ \A b \in rows : Number[b] <= Number[t]
        BY <4>1, TopOfPath, TreeAssumption
      <4>3. ASSUME NEW b \in rows, NEW n \in 0 .. Number[b]
            PROVE  \E a \in rows : {c \in rows : Number[c] = n} = {a}
        <5>1. n \in 0 .. Number[t]
          BY <4>2
        <5> QED
          BY <4>1, <5>1, BlockAt
      <4>4. \A b \in rows : Number[b] \in 0 .. Number[b]
        BY <4>2
      <4> QED
        BY <4>3, <4>4 DEF Contiguous, NoGap
    <3> QED
      BY <2>1, <3>1, <3>2 DEF IInv, StoredChain
  <2> QED
    BY <1>2, <2>1, Invariance, PTL
<1> QED
  BY <1>1, <1>2

\* SyncWorker, either mode: an idle worker, restarted or not, asks for the
\* block after the highest stored one.
THEOREM ResumesAlways == Spec => []ResumesAfterTip
<1>1. CASE Multi
  <2>1. NumbersInv => ResumesAfterTip
    BY NextOfTop DEF NumbersInv, TypeOK, ResumesAfterTip
  <2> QED
    BY <1>1, <2>1, NumbersInvariance, PTL
<1>2. CASE ~ Multi
  <2>1. ASSUME IInv PROVE ResumesAfterTip
    BY <2>1, NextOfPath DEF IInv, WorkerInv, AtTop, ResumesAfterTip, NextFromDb
  <2> QED
    BY <1>2, <2>1, Invariance, PTL
<1> QED
  BY <1>1, <1>2
=============================================================================

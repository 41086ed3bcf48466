------------------------------- MODULE L2Sync -------------------------------
(***************************************************************************)
(* GodwokenIndexer.Block.SyncWorker: one GenServer that copies the layer 2 *)
(* chain into the database, block after block (or, when                    *)
(* multiple_block_once is set, BatchSize + 1 blocks at a time).            *)
(*                                                                         *)
(* The import of a block is not a database transaction: receipts and logs, *)
(* transactions, withdrawal requests and at last the block row are written *)
(* by statements of their own, each in chunks (Repo.safe_insert_all), and  *)
(* the process may die between any two of them.  The supervisor restarts   *)
(* it, and init/1 resumes after the highest block row.  A fork is handled  *)
(* in the same way: the last block is rolled back and the process crashes  *)
(* on a MatchError.                                                        *)
(***************************************************************************)
EXTENDS L2Chain

CONSTANTS
    Multi,        \* multiple_block_once
    BatchSize,    \* block_batch_size
    ChunkSize,    \* rows per insert_all (500 in the code)
    CacheSize     \* max_size of both ordered caches (10 in the code)

ASSUME ConfigAssumption ==
    Multi \in BOOLEAN /\ BatchSize \in Nat \ {0}
    /\ ChunkSize \in Nat \ {0} /\ CacheSize \in Nat \ {0}

VARIABLES
    rows,         \* table blocks
    txRow,        \* table transactions: the block each row points to
    logRow,       \* tables logs and token_transfers, per transaction
    wdRow,        \* table withdrawal_requests
    blockCache,   \* Cache.Blocks
    txCache,      \* Cache.Transactions: ids {block_number, hash}
    pc,           \* what the worker does next
    next,         \* next_block_number, in the worker's mailbox
    batch,        \* the fetched blocks
    todo          \* what the current statement has still to insert

db      == <<rows, txRow, logRow, wdRow>>
caches  == <<blockCache, txCache>>
worker  == <<pc, next, batch, todo>>
vars    == <<tip, db, caches, worker>>

Stages == {"idle", "rollback", "logs", "txs", "txcache", "withdrawals",
           "blocks", "blockcache"}

-----------------------------------------------------------------------------
(* Helpers *)

UnionOf(content, S) == UNION {content[b] : b \in S}

\* The block of the batch a transaction (or a withdrawal request) came with.
HomeIn(content, x) == CHOOSE b \in batch : x \in content[b]

\* safe_insert_all: the rows of the next insert_all.  Any of them may come
\* first: the requests of a range are the entries of a map, which has no order
\* when it has more than 32, and nothing sorts the answers.
Chunks(S) ==
    {c \in SUBSET S :
        Cardinality(c) = IF Cardinality(S) < ChunkSize THEN Cardinality(S)
                                                       ELSE ChunkSize}

\* Mutant: an empty table answers with the number before the first.
NextFromDbEmptyOff(r) ==
    IF r = {} THEN -1
    ELSE 1 + Number[CHOOSE b \in r : \A d \in r : Number[d] <= Number[b]]

\* get_next_block_number
NextFromDb(r) ==
    IF r = {} THEN 0
    ELSE 1 + Number[CHOOSE b \in r : \A d \in r : Number[d] <= Number[b]]

\* Block.rollback!, second statement: delete the transactions of number n.
DropTxsOf(n) ==
    [t \in Tx |-> IF txRow[t] # NoBlock /\ Number[txRow[t]] = n
                  THEN NoBlock ELSE txRow[t]]

\* OrderedCache.update on the block cache, whose ids are the numbers.
MergeBlocks(old, new) ==
    LET all == new \cup {b \in old : \A d \in new : Number[d] # Number[b]}
    IN {b \in all : Cardinality({d \in all : Number[d] > Number[b]}) < CacheSize}

Newer(x, y) == x[1] > y[1] \/ (x[1] = y[1] /\ x[2] > y[2])

\* The same on the transaction cache, whose ids are <<number, hash>>.
MergeTxs(old, new) ==
    LET all == old \cup new
    IN {x \in all : Cardinality({y \in all : Newer(y, x)}) < CacheSize}

\* The chunk c of the current statement is in; go on with the rest of it, or
\* with the next stage.
Proceed(c, stage, items) ==
    IF c = todo THEN pc' = stage /\ todo' = items
                ELSE pc' = pc /\ todo' = todo \ c

-----------------------------------------------------------------------------
(* The worker *)

Init ==
    /\ NodeInit
    /\ rows = {}
    /\ txRow = [t \in Tx |-> NoBlock]
    /\ logRow = [t \in Tx |-> NoBlock]
    /\ wdRow = [w \in Wd |-> NoBlock]
    /\ blockCache = {} /\ txCache = {}
    /\ pc = "idle" /\ next = 0 /\ batch = {} /\ todo = {}

LastOfRange == IF Multi THEN next + BatchSize ELSE next

\* What fetch_blocks_by_range answers.
Fetched == {b \in Canonical : Number[b] \in next .. LastOfRange}

\* Mutant: the fork check looks one block too high.
ForkedRowsOff ==
    {r \in rows : Number[r] = next /\ \E b \in Fetched : Parent[b] # r}

\* The stored block that the fetched one does not build on.
ForkedRows ==
    {r \in rows : Number[r] = next - 1 /\ \E b \in Fetched : Parent[b] # r}

\* under_tip_block? is true, and every block of the range exists (otherwise
\* the answer has errors and the MatchError restarts the worker where it was).
UnderTip == pc = "idle" /\ LastOfRange <= Number[tip]

\* handle_info when the tip is below the next block: schedule again.
WaitForTip == pc = "idle" /\ ~ UnderTip /\ UNCHANGED vars

\* fetch_and_import up to the fork check, which passes.
Fetch ==
    /\ UnderTip
    /\ Multi \/ ForkedRows = {}
    /\ batch' = Fetched
    /\ pc' = "logs"
    /\ todo' = UnionOf(TxsOf, Fetched)
    /\ UNCHANGED <<tip, db, caches, next>>

\* Mutant: the rollback takes the block below the forked one.
RollbackBlockBelow ==
    /\ UnderTip
    /\ ~ Multi /\ ForkedRows # {}
    /\ rows' = rows \ {r \in rows : Number[r] = next - 2}
    /\ pc' = "rollback"
    /\ UNCHANGED <<tip, txRow, logRow, wdRow, caches, next, batch, todo>>

\* Mutant: the fork only crashes the worker.
RollbackBlockNot ==
    /\ UnderTip
    /\ ~ Multi /\ ForkedRows # {}
    /\ pc' = "rollback"
    /\ UNCHANGED <<tip, db, caches, next, batch, todo>>

\* fetch_and_import when the fork check fails: Block.rollback! deletes the
\* block row ...
RollbackBlock ==
    /\ UnderTip
    /\ ~ Multi /\ ForkedRows # {}
    /\ rows' = rows \ ForkedRows
    /\ pc' = "rollback"
    /\ UNCHANGED <<tip, txRow, logRow, wdRow, caches, next, batch, todo>>

\* Mutant: the worker goes on after the rollback without reading its position.
RollbackTransactionsKeepNext ==
    /\ pc = "rollback"
    /\ txRow' = DropTxsOf(next - 1)
    /\ pc' = "idle"
    /\ UNCHANGED <<tip, rows, logRow, wdRow, caches, next, batch, todo>>

\* ... then its transactions; the MatchError on {:error, :forked} follows,
\* and the restarted worker resumes from the database.
RollbackTransactions ==
    /\ pc = "rollback"
    /\ txRow' = DropTxsOf(next - 1)
    /\ pc' = "idle"
    /\ next' = NextFromDb(rows)
    /\ UNCHANGED <<tip, rows, logRow, wdRow, caches, batch, todo>>

\* Mutant: only the first chunk is inserted.
ImportLogsOneChunk ==
    /\ pc = "logs"
    /\ \E c \in Chunks(todo) :
          /\ logRow' = [t \in Tx |-> IF t \in c /\ logRow[t] = NoBlock
                                     THEN HomeIn(TxsOf, t) ELSE logRow[t]]
    /\ pc' = "txs" /\ todo' = UnionOf(TxsOf, batch)
    /\ UNCHANGED <<tip, rows, txRow, wdRow, caches, next, batch>>

\* import_logs, import_token_transfers and the receipts' other rows: a row
\* that exists already is left as it is (on_conflict: :nothing).
ImportLogs ==
    /\ pc = "logs"
    /\ \E c \in Chunks(todo) :
          /\ logRow' = [t \in Tx |-> IF t \in c /\ logRow[t] = NoBlock
                                     THEN HomeIn(TxsOf, t) ELSE logRow[t]]
          /\ Proceed(c, "txs", UnionOf(TxsOf, batch))
    /\ UNCHANGED <<tip, rows, txRow, wdRow, caches, next, batch>>

\* Mutant: an existing row stays with its old block (on_conflict: :nothing).
ImportTransactionsKeep ==
    /\ pc = "txs"
    /\ \E c \in Chunks(todo) :
          /\ txRow' = [t \in Tx |-> IF t \in c /\ txRow[t] = NoBlock
                                    THEN HomeIn(TxsOf, t) ELSE txRow[t]]
          /\ Proceed(c, "txcache", {})
    /\ UNCHANGED <<tip, rows, logRow, wdRow, caches, next, batch>>

\* import_transactions: an existing row is moved to this block (upsert).
ImportTransactions ==
    /\ pc = "txs"
    /\ \E c \in Chunks(todo) :
          /\ txRow' = [t \in Tx |-> IF t \in c THEN HomeIn(TxsOf, t)
                                               ELSE txRow[t]]
          /\ Proceed(c, "txcache", {})
    /\ UNCHANGED <<tip, rows, logRow, wdRow, caches, next, batch>>

UpdateTransactionsCache ==
    /\ pc = "txcache"
    /\ txCache' = MergeTxs(txCache,
                           {<<Number[HomeIn(TxsOf, t)], t>> :
                               t \in UnionOf(TxsOf, batch)})
    /\ pc' = "withdrawals"
    /\ todo' = UnionOf(WdsOf, batch)
    /\ UNCHANGED <<tip, db, blockCache, next, batch>>

ImportWithdrawalRequests ==
    /\ pc = "withdrawals"
    /\ \E c \in Chunks(todo) :
          /\ wdRow' = [w \in Wd |-> IF w \in c /\ wdRow[w] = NoBlock
                                    THEN HomeIn(WdsOf, w) ELSE wdRow[w]]
          /\ Proceed(c, "blocks", batch)
    /\ UNCHANGED <<tip, rows, txRow, logRow, caches, next, batch>>

\* import_block: hash and number are unique, conflicting rows are skipped.
ImportBlock ==
    /\ pc = "blocks"
    /\ \E c \in Chunks(todo) :
          /\ rows' = rows \cup
                     {b \in c : \A r \in rows : Number[r] # Number[b]}
          /\ Proceed(c, "blockcache", {})
    /\ UNCHANGED <<tip, txRow, logRow, wdRow, caches, next, batch>>

\* update_block_cache with the inserted rows; then schedule_work.
UpdateBlockCache ==
    /\ pc = "blockcache"
    /\ blockCache' = MergeBlocks(blockCache, batch \cap rows)
    /\ pc' = "idle"
    /\ next' = LastOfRange + 1
    /\ batch' = {} /\ todo' = {}
    /\ UNCHANGED <<tip, db, txCache>>

\* The worker dies (an RPC error or a database error is a MatchError or an
\* exception) and is restarted: init/1.
Crash ==
    /\ pc' = "idle"
    /\ next' = NextFromDb(rows)
    /\ batch' = {} /\ todo' = {}
    /\ UNCHANGED <<tip, db, caches>>

\* The whole application restarts: the caches are empty as well.
Restart ==
    /\ pc' = "idle"
    /\ next' = NextFromDb(rows)
    /\ batch' = {} /\ todo' = {}
    /\ blockCache' = {} /\ txCache' = {}
    /\ UNCHANGED <<tip, db>>

Node == NodeStep /\ UNCHANGED <<db, caches, worker>>

Work ==
    \/ Fetch \/ RollbackBlock \/ RollbackTransactions
    \/ ImportLogs \/ ImportTransactions \/ UpdateTransactionsCache
    \/ ImportWithdrawalRequests \/ ImportBlock \/ UpdateBlockCache

Next == Work \/ WaitForTip \/ Crash \/ Restart \/ Node

Spec == Init /\ [][Next]_vars

\* The worker is a live process: its timer fires and its calls return.
FairSpec == Spec /\ WF_vars(Work)

-----------------------------------------------------------------------------
(* Properties *)

TypeOK ==
    /\ tip \in BlockId
    /\ rows \in SUBSET BlockId
    /\ txRow \in [Tx -> BlockId \cup {NoBlock}]
    /\ logRow \in [Tx -> BlockId \cup {NoBlock}]
    /\ wdRow \in [Wd -> BlockId \cup {NoBlock}]
    /\ blockCache \in SUBSET BlockId
    /\ txCache \in SUBSET (Nat \X Tx)
    /\ pc \in Stages
    /\ next \in Nat
    /\ batch \in SUBSET BlockId
    /\ todo \in SUBSET (Tx \cup Wd \cup BlockId)

\* In single-block mode the stored blocks are one block and all of its
\* ancestors: numbers without gaps or doubles, each row's parent_hash the
\* hash of the row below, whatever the node reverts and wherever the worker
\* dies (fork check and rollback of SyncWorker.fetch_and_import).
StoredChain == rows = {} \/ \E b \in rows : rows = Path(b)

NoGap == \A b \in rows : \A n \in 0 .. Number[b] : \E d \in rows : Number[d] = n

\* The stored numbers have no gap and no double in single-block mode and, as
\* long as one insert_all takes the rows of a range, with several blocks at a
\* time, wherever the worker dies and whatever the node reverts in between.
Contiguous == NoGap /\ \A b, d \in rows : Number[b] = Number[d] => b = d

\* "Should always be run within a transaction as multiple inserts may occur"
\* (safe_insert_all): the rows of a range would then be stored all or not at
\* all, and no worker would start above a number that is not stored.
RangesAreWhole == pc = "idle" => NoGap

\* A block row is a commit marker: it is written last and deleted first, so
\* a stored block has all of its transactions, and they point to it.
CommitMarker ==
    \A b \in rows : \A t \in TxsOf[b] : txRow[t] = b

\* ... and the logs of its transactions and its withdrawal requests are
\* stored as well.
DerivedComplete ==
    \A b \in rows :
       /\ \A t \in TxsOf[b] : logRow[t] # NoBlock
       /\ \A w \in WdsOf[b] : wdRow[w] # NoBlock

\* In either mode the worker asks for the block after the highest stored one
\* when it is idle: a restart never skips or repeats a block row.
ResumesAfterTip == pc = "idle" => next = NextFromDb(rows)

\* The block table implements the abstract indexed chain: it changes by one
\* block at its top and in no other way, so that init/1 and the fork check of
\* a restarted worker find what they rely on.
Chain == INSTANCE IndexedChain WITH store <- rows

ImplementsIndexedChain == Chain!StoreSpec

\* When the node's chain is longer than what the worker has stored or holds,
\* and stays, the stored chain becomes that chain once the worker stops
\* dying: rollbacks reach the fork point and the import catches up.  (A fork
\* that does not make the chain longer is not noticed before it does.)
CatchesUp ==
    (<>[][pc = "rollback" \/ ~ (Crash \/ Restart)]_worker) =>
        \A b \in BlockId :
            (tip = b /\ NextFromDb(rows \cup batch) <= Number[b])
                ~> (rows = Path(b) \/ tip # b)
=============================================================================

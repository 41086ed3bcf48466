----------------------------- MODULE PendingTx -----------------------------
(***************************************************************************)
(* The life of a transaction row.  PendingTransactionWorker and the API    *)
(* insert a transaction they saw in the node's mempool, without a block;   *)
(* SyncWorker moves it into the block that includes it and deletes it when *)
(* it rolls that block back; CleanFailedPendingTransactions deletes, once  *)
(* a day, the rows that have waited for a block for three days.            *)
(*                                                                         *)
(* None of them locks anything.  What each read of the node or of the      *)
(* table is held in a variable until the statements that use it are done.  *)
(* The stored blocks are those of IndexedChain, which L2Sync implements:   *)
(* here SyncWorker imports one block at a time.  The rows of               *)
(* polyjuice_creator, which nothing changes or deletes, are left out.      *)
(***************************************************************************)
EXTENDS L2Chain

CONSTANTS
    Polyjuice,     \* transactions of type :polyjuice
    Reader,        \* the processes that insert pending transactions
    Api,           \* those of them that serve requests, one transaction each
    NoRow,         \* no row in the table
    Pending,       \* a row without block, or without receipt
    MaxDeaths      \* how often a process may die

ASSUME PendingAssumption ==
    /\ Polyjuice \subseteq Tx
    /\ Api \subseteq Reader
    /\ NoRow \notin BlockId /\ Pending \notin BlockId /\ NoRow # Pending
    /\ MaxDeaths \in Nat

VARIABLES
    mempool,     \* the transactions waiting in the node
    dropped,     \* those it has given up
    store,       \* table blocks
    txRow,       \* table transactions: NoRow, Pending or the block_hash
    receipt,     \* table polyjuice: NoRow, Pending or the block of the receipt
    old,         \* rows inserted three days ago or earlier
    pc, cur,     \* SyncWorker: its next statement, the block it works on
    rpc, seen,   \* each reader: its next statement, what it saw pending
    failed,      \* the hashes that the cleaner read
    lost,        \* rows deleted by the cleaner while SyncWorker gave them a block
    deaths,      \* how many processes have died
    cut          \* blocks whose import or rollback a death cut short

node   == <<tip, mempool, dropped>>
tables == <<store, txRow, receipt>>
sync   == <<pc, cur, cut>>
reader == <<rpc, seen>>
vars   == <<node, tables, old, sync, reader, failed, lost, deaths>>

-----------------------------------------------------------------------------
(* Layer 2 node *)

\* No block includes a transaction after the node has given it up.
Grow ==
    /\ NodeGrow
    /\ TxsOf[tip'] \cap dropped = {}
    /\ mempool' = mempool \ TxsOf[tip']
    /\ UNCHANGED <<dropped, tables, old, sync, reader, failed, lost, deaths>>

\* The transactions of the lost blocks may wait for a block again.
Revert ==
    /\ NodeRevert
    /\ \E back \in SUBSET UNION {TxsOf[b] : b \in Path(tip) \ Path(tip')} :
            mempool' = mempool \cup (back \ dropped)
    /\ UNCHANGED <<dropped, tables, old, sync, reader, failed, lost, deaths>>

Submit(t) ==
    /\ t \notin mempool \cup dropped
    /\ \A b \in Canonical : t \notin TxsOf[b]
    /\ mempool' = mempool \cup {t}
    /\ UNCHANGED <<tip, dropped, tables, old, sync, reader, failed, lost, deaths>>

Drop(t) ==
    /\ t \notin dropped
    /\ \A b \in Canonical : t \notin TxsOf[b]
    /\ mempool' = mempool \ {t}
    /\ dropped' = dropped \cup {t}
    /\ UNCHANGED <<tip, tables, old, sync, reader, failed, lost, deaths>>

\* The row was inserted three days ago.
Age(t) ==
    /\ txRow[t] = Pending /\ t \notin old
    /\ old' = old \cup {t}
    /\ UNCHANGED <<node, tables, sync, reader, failed, lost, deaths>>

-----------------------------------------------------------------------------
(* SyncWorker *)

\* fetch_and_import with a block that builds on the stored ones.
Fetch ==
    /\ pc = "idle"
    /\ \E b \in Canonical : Anc[b] = store /\ cur' = b
    /\ pc' = "polyjuice"
    /\ lost' = lost \ TxsOf[cur']
    /\ UNCHANGED <<node, tables, old, cut, reader, failed, deaths>>

\* import_polyjuice: the columns of the receipt are replaced.
ImportPolyjuice ==
    /\ pc = "polyjuice"
    /\ receipt' = [t \in Tx |-> IF t \in TxsOf[cur] \cap Polyjuice THEN cur
                                ELSE receipt[t]]
    /\ pc' = "transactions"
    /\ UNCHANGED <<node, store, txRow, old, cur, cut, reader, failed, lost, deaths>>

\* Mutant: on_conflict: :nothing, so that a pending row stays pending.
ImportTransactionsKeep ==
    /\ pc = "transactions"
    /\ txRow' = [t \in Tx |->
            IF t \in TxsOf[cur] /\ txRow[t] = NoRow THEN cur ELSE txRow[t]]
    /\ pc' = "block"
    /\ UNCHANGED <<node, store, receipt, old, cur, cut, reader, failed, lost, deaths>>

\* import_transactions: a pending row gets its block; inserted_at stays.
ImportTransactions ==
    /\ pc = "transactions"
    /\ txRow' = [t \in Tx |-> IF t \in TxsOf[cur] THEN cur ELSE txRow[t]]
    /\ pc' = "block"
    /\ UNCHANGED <<node, store, receipt, old, cur, cut, reader, failed, lost, deaths>>

ImportBlock ==
    /\ pc = "block"
    /\ store' = store \cup {cur}
    /\ pc' = "idle" /\ cur' = NoBlock
    /\ UNCHANGED <<node, txRow, receipt, old, cut, reader, failed, lost, deaths>>

\* Mutant: the block to roll back is not kept for the second statement.
RollbackBlockUnset ==
    /\ pc = "idle"
    /\ \E b \in Canonical, top \in store :
          /\ store = Path(top)
          /\ Number[b] = Number[top] + 1 /\ Parent[b] # top
          /\ store' = Anc[top]
    /\ pc' = "rollback"
    /\ UNCHANGED <<node, txRow, receipt, old, cur, cut, reader, failed, lost, deaths>>

\* The next block does not build on the highest stored one: Block.rollback!
\* deletes that block ...
RollbackBlock ==
    /\ pc = "idle"
    /\ \E b \in Canonical, top \in store :
          /\ store = Path(top)
          /\ Number[b] = Number[top] + 1 /\ Parent[b] # top
          /\ store' = Anc[top] /\ cur' = top
    /\ pc' = "rollback"
    /\ UNCHANGED <<node, txRow, receipt, old, cut, reader, failed, lost, deaths>>

\* Mutant: the transactions above the number, instead of at it.
RollbackTransactionsAbove ==
    /\ pc = "rollback"
    /\ LET gone == {t \in Tx : txRow[t] \in BlockId /\ Number[txRow[t]] > Number[cur]}
       IN  /\ txRow' = [t \in Tx |-> IF t \in gone THEN NoRow ELSE txRow[t]]
           /\ old' = old \ gone
    /\ pc' = "idle" /\ cur' = NoBlock
    /\ UNCHANGED <<node, store, receipt, cut, reader, failed, lost, deaths>>

\* ... and then the transactions with its number.
RollbackTransactions ==
    /\ pc = "rollback"
    /\ LET gone == {t \in Tx : txRow[t] \in BlockId /\ Number[txRow[t]] = Number[cur]}
       IN  /\ txRow' = [t \in Tx |-> IF t \in gone THEN NoRow ELSE txRow[t]]
           /\ old' = old \ gone
    /\ pc' = "idle" /\ cur' = NoBlock
    /\ UNCHANGED <<node, store, receipt, cut, reader, failed, lost, deaths>>

SyncDies ==
    /\ pc # "idle" /\ deaths < MaxDeaths
    /\ pc' = "idle" /\ cur' = NoBlock
    /\ cut' = cut \cup {cur}
    /\ deaths' = deaths + 1
    /\ UNCHANGED <<node, tables, old, reader, failed, lost>>

-----------------------------------------------------------------------------
(* PendingTransactionWorker, and parse_and_import for the API *)

\* What the node answers a request: it also knows what is in its blocks.
Known == mempool \cup UNION {TxsOf[b] : b \in Canonical}

\* The worker reads the whole mempool, a request one transaction.  All are of
\* the kinds that parse_raw knows: it has no clause for others, and one of
\* them would make the worker raise with the whole mempool in hand.
FetchPending(r) ==
    /\ rpc[r] = "idle"
    /\ \E S \in (IF r \in Api THEN {{t} : t \in Known} ELSE {mempool} \ {{}}) :
          seen' = [seen EXCEPT ![r] = S]
    /\ rpc' = [rpc EXCEPT ![r] = "polyjuice"]
    /\ UNCHANGED <<node, tables, old, sync, failed, lost, deaths>>

\* Mutant: without on_conflict: a receipt that exists makes the insert raise.
InsertPolyjuiceRaises(r) ==
    /\ rpc[r] = "polyjuice"
    /\ IF \E t \in seen[r] \cap Polyjuice : receipt[t] # NoRow
       THEN /\ rpc' = [rpc EXCEPT ![r] = "idle"]
            /\ seen' = [seen EXCEPT ![r] = {}]
            /\ UNCHANGED receipt
       ELSE /\ receipt' = [t \in Tx |->
                    IF t \in seen[r] \cap Polyjuice THEN Pending ELSE receipt[t]]
            /\ rpc' = [rpc EXCEPT ![r] = "transaction"]
            /\ UNCHANGED seen
    /\ UNCHANGED <<node, store, txRow, old, sync, failed, lost, deaths>>

\* import_polyjuice, with on_conflict: :nothing.
InsertPolyjuice(r) ==
    /\ rpc[r] = "polyjuice"
    /\ receipt' = [t \in Tx |->
            IF t \in seen[r] \cap Polyjuice /\ receipt[t] = NoRow THEN Pending
            ELSE receipt[t]]
    /\ rpc' = [rpc EXCEPT ![r] = "transaction"]
    /\ UNCHANGED <<node, store, txRow, old, sync, seen, failed, lost, deaths>>

\* import_transaction, with on_conflict: :nothing.
InsertTransactions(r) ==
    /\ rpc[r] = "transaction"
    /\ txRow' = [t \in Tx |->
            IF t \in seen[r] /\ txRow[t] = NoRow THEN Pending ELSE txRow[t]]
    /\ rpc' = [rpc EXCEPT ![r] = "idle"]
    /\ seen' = [seen EXCEPT ![r] = {}]
    /\ UNCHANGED <<node, store, receipt, old, sync, failed, lost, deaths>>

ReaderDies(r) ==
    /\ rpc[r] # "idle" /\ deaths < MaxDeaths
    /\ rpc' = [rpc EXCEPT ![r] = "idle"]
    /\ seen' = [seen EXCEPT ![r] = {}]
    /\ deaths' = deaths + 1
    /\ UNCHANGED <<node, tables, old, sync, failed, lost>>

-----------------------------------------------------------------------------
(* CleanFailedPendingTransactions *)

\* The row is one that SyncWorker has put into a block, or is about to.
InBlock(t) == txRow[t] \in BlockId \/ (pc \notin {"idle", "rollback"} /\ t \in TxsOf[cur])

Failed == {t \in old : txRow[t] = Pending}

SelectFailed ==
    /\ failed = {} /\ Failed # {}
    /\ failed' = Failed
    /\ UNCHANGED <<node, tables, old, sync, reader, lost, deaths>>

\* Mutant: the receipts go and the transactions stay.
DeleteFailedReceipts ==
    /\ failed # {}
    /\ receipt' = [t \in Tx |-> IF t \in failed THEN NoRow ELSE receipt[t]]
    /\ failed' = {}
    /\ UNCHANGED <<node, store, txRow, old, sync, reader, lost, deaths>>

\* One database transaction, which does not look at the rows again.
DeleteFailed ==
    /\ failed # {}
    /\ receipt' = [t \in Tx |-> IF t \in failed THEN NoRow ELSE receipt[t]]
    /\ txRow' = [t \in Tx |-> IF t \in failed THEN NoRow ELSE txRow[t]]
    /\ old' = old \ failed
    /\ lost' = lost \cup {t \in failed : InBlock(t)}
    /\ failed' = {}
    /\ UNCHANGED <<node, store, sync, reader, deaths>>

CleanerDies ==
    /\ failed # {} /\ deaths < MaxDeaths
    /\ failed' = {}
    /\ deaths' = deaths + 1
    /\ UNCHANGED <<node, tables, old, sync, reader, lost>>

-----------------------------------------------------------------------------
Init ==
    /\ NodeInit
    /\ mempool = {} /\ dropped = {}
    /\ store = {}
    /\ txRow = [t \in Tx |-> NoRow] /\ receipt = [t \in Tx |-> NoRow]
    /\ old = {} /\ failed = {}
    /\ pc = "idle" /\ cur = NoBlock
    /\ rpc = [r \in Reader |-> "idle"] /\ seen = [r \in Reader |-> {}]
    /\ deaths = 0 /\ cut = {} /\ lost = {}

Node == Grow \/ Revert \/ (\E t \in Tx : Submit(t) \/ Drop(t))

SyncWork ==
    \/ Fetch \/ ImportPolyjuice \/ ImportTransactions \/ ImportBlock
    \/ RollbackBlock \/ RollbackTransactions

Insert(r) == InsertPolyjuice(r) \/ InsertTransactions(r)

ReaderWork(r) == FetchPending(r) \/ Insert(r)

CleanerWork == SelectFailed \/ DeleteFailed

Next ==
    \/ Node \/ (\E t \in Tx : Age(t))
    \/ SyncWork \/ SyncDies
    \/ (\E r \in Reader : ReaderWork(r) \/ ReaderDies(r))
    \/ CleanerWork \/ CleanerDies

Spec == Init /\ [][Next]_vars

\* The workers' timers fire, the daily job runs, requests end, time passes.
FairSpec ==
    /\ Spec
    /\ WF_vars(SyncWork) /\ WF_vars(CleanerWork)
    /\ \A r \in Reader \ Api : WF_vars(ReaderWork(r))
    /\ \A r \in Api : WF_vars(Insert(r))
    /\ \A t \in Tx : WF_vars(Age(t))

-----------------------------------------------------------------------------
(* Properties *)

TypeOK ==
    /\ tip \in BlockId
    /\ mempool \subseteq Tx /\ dropped \subseteq Tx
    /\ store \subseteq BlockId
    /\ txRow \in [Tx -> BlockId \cup {NoRow, Pending}]
    /\ receipt \in [Tx -> BlockId \cup {NoRow, Pending}]
    /\ old \subseteq Tx /\ failed \subseteq Tx
    /\ pc \in {"idle", "polyjuice", "transactions", "block", "rollback"}
    /\ cur \in BlockId \cup {NoBlock}
    /\ pc # "idle" => cur \in BlockId
    /\ rpc \in [Reader -> {"idle", "polyjuice", "transaction"}]
    /\ seen \in [Reader -> SUBSET Tx]
    /\ deaths \in Nat /\ cut \subseteq BlockId /\ lost \subseteq Tx

\* A stored block has each of its transactions, in it and with the receipt
\* from it, whatever a reader saw pending before and inserts late, whatever
\* the cleaner read, and however often the block of a transaction changed.
BlocksKeepTheirTransactions ==
    \A b \in store : \A t \in TxsOf[b] \ lost :
        /\ txRow[t] = b
        /\ t \in Polyjuice => receipt[t] = b

\* A transaction row names a stored block, or the one SyncWorker is busy
\* with, unless a death cut an import or a rollback of that block short.
RowsNameStoredBlocks ==
    \A t \in Tx : txRow[t] \in BlockId \ cut =>
        txRow[t] \in store \/ (pc # "idle" /\ txRow[t] = cur)

\* A transaction that keeps waiting in the mempool is shown: pending rows
\* come back after a rollback or a clean-up, also over a leftover receipt.
PendingShown ==
    \A t \in Tx : t \in mempool ~> (txRow[t] # NoRow \/ t \notin mempool)

\* A transaction that the node gave up does not stay pending for ever, even
\* when a reader that saw it before inserts it again after the clean-up.
FailedAreCleaned ==
    \A t \in Tx : t \in dropped ~> [](txRow[t] # Pending)
=============================================================================

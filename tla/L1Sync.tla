------------------------------- MODULE L1Sync -------------------------------
(***************************************************************************)
(* GodwokenIndexer.Block.SyncL1BlockWorker: one GenServer that reads the   *)
(* layer 1 (CKB) blocks, records the deposits and the withdrawals it finds *)
(* in them, imports the accounts deposited to, and keeps the last synced   *)
(* block in the row check_infos(type: main_deposit).                       *)
(*                                                                         *)
(* check_infos is a schema tracked by ExAudit: every change of the row     *)
(* leaves a version, and the rollback of a forked block goes back by       *)
(* reverting the newest version.  The rollback is one database             *)
(* transaction; the import of a block is not.                              *)
(*                                                                         *)
(* The layer 1 blocks that carry the rollup cell, which the same rollback  *)
(* unbinds from layer 2 blocks, are the subject of L1L2Bind.               *)
(***************************************************************************)
EXTENDS ChainTree, FiniteSets, Sequences

CONSTANTS
    Dep,           \* deposit cells (layer1_tx_hash, layer1_output_index)
    DepsOf,        \* DepsOf[b]: the deposits in layer 1 block b
    Acct,          \* layer 2 accounts, by script_hash
    Owner,         \* Owner[d]: the account that deposit d is for
    Wh,            \* withdrawal cells
    WhsOf,         \* WhsOf[b]: the withdrawals in layer 1 block b
    InitNumber,    \* init_godwoken_l1_block_number
    Buffer,        \* @buffer_block_for_create_account (15 in the code)
    MultiL1,       \* multiple_l1_block_once
    BatchL1,       \* l1_block_batch_size
    MapKeys,       \* up to how many keys a map is read in their order (32)
    Retention,     \* versions of check_infos that CleanVersions leaves
    Dies           \* whether the worker may die in the middle of an import

ASSUME L1ContentAssumption ==
    /\ DepsOf \in [BlockId -> SUBSET Dep]
    /\ Owner \in [Dep -> Acct]
    /\ WhsOf \in [BlockId -> SUBSET Wh]

ASSUME L1ConfigAssumption ==
    /\ InitNumber \in Nat /\ Buffer \in Nat /\ Retention \in Nat
    /\ BatchL1 \in Nat \ {0} /\ MapKeys \in Nat
    /\ MultiL1 \in BOOLEAN /\ Dies \in BOOLEAN

VARIABLES
    check,        \* check_infos: the last synced block, NoBlock when no row
    versions,     \* its versions, as the values they go back to, oldest first
    depRow,       \* deposit_histories: <<deposit, layer1_block_number>>
    whRow,        \* withdrawal_histories: <<withdrawal, layer1_block_number>>
    accounts,     \* table accounts
    l1pc,         \* what the worker does next
    l1next,       \* the block number in the worker's mailbox
    l1batch,      \* the fetched blocks
    inserted      \* the owners of the deposits just inserted (RETURNING)

l1db     == <<check, versions, depRow, whRow, accounts>>
l1worker == <<l1pc, l1next, l1batch, inserted>>
l1vars   == <<tip, l1db, l1worker>>

L1Stages == {"idle", "deposits", "accounts", "withdrawals", "checkinfo"}

-----------------------------------------------------------------------------
(* Helpers *)

\* The rows that a set of blocks has in a history table.
RowsIn(content, S) ==
    UNION {{<<x, Number[b]>> : x \in content[b]} : b \in S}

\* init/1 of the worker.
StartNumber(c) == IF c = NoBlock THEN InitNumber ELSE Number[c] + 1

\* The rows of a history table without those of layer 1 block number n.
WithoutNumber(table, n) == {r \in table : r[2] # n}

\* Mutant: every account with a deposit in block n goes.
AccountsLosingAll(n) ==
    {a \in Acct : \E r \in depRow : Owner[r[1]] = a /\ r[2] = n}

\* DepositHistory.rollback!: the accounts whose last deposit goes with the
\* rows of block number n are deleted.
AccountsLosing(n) ==
    {a \in Acct :
        /\ \E r \in depRow : Owner[r[1]] = a /\ r[2] = n
        /\ \A r \in depRow : Owner[r[1]] = a => r[2] = n}

HighestOf(S) == CHOOSE b \in S : \A d \in S : Number[d] <= Number[b]

\* The first of the responses: they come in the reverse order of the requests,
\* which are read from a map.
Heads(S) == IF Cardinality(S) <= MapKeys THEN {HighestOf(S)} ELSE S

-----------------------------------------------------------------------------
(* The worker *)

L1Init ==
    /\ NodeInit
    /\ check = NoBlock /\ versions = << >>
    /\ depRow = {} /\ whRow = {} /\ accounts = {}
    /\ l1pc = "idle" /\ l1next = InitNumber
    /\ l1batch = {} /\ inserted = {}

L1LastOfRange == IF MultiL1 THEN l1next + BatchL1 ELSE l1next

L1Fetched == {b \in Canonical : Number[b] \in l1next .. L1LastOfRange}

\* The next block is old enough, and every block of the range exists.
L1Ready ==
    /\ l1pc = "idle"
    /\ l1next + Buffer <= Number[tip]
    /\ L1LastOfRange <= Number[tip]

\* Mutant: the fork check is forgotten.
L1ForkedNever == FALSE

\* forked?: the fetched block does not build on the one in check_infos (its
\* changeset requires a block_hash, so forked? never meets a row without one).
L1Forked ==
    ~ MultiL1 /\ check # NoBlock /\ \E b \in L1Fetched : Parent[b] # check

L1Wait == l1pc = "idle" /\ ~ L1Ready /\ UNCHANGED l1vars

L1Fetch ==
    /\ L1Ready /\ ~ L1Forked
    /\ l1batch' = L1Fetched
    /\ l1pc' = "deposits"
    /\ UNCHANGED <<tip, l1db, l1next, inserted>>

\* What the rollback needs in order not to raise: a version to revert, and
\* the account of every deposit that goes.
RollbackPossible ==
    /\ versions # << >>
    /\ \A r \in depRow : r[2] = Number[check] => Owner[r[1]] \in accounts

\* Mutant: the version stays after it was reverted.
L1RollbackKeepVersion ==
    /\ L1Ready /\ L1Forked /\ RollbackPossible
    /\ depRow' = WithoutNumber(depRow, Number[check])
    /\ accounts' = accounts \ AccountsLosing(Number[check])
    /\ whRow' = WithoutNumber(whRow, Number[check])
    /\ check' = versions[Len(versions)]
    /\ l1next' = StartNumber(check')
    /\ UNCHANGED <<tip, versions, l1pc, l1batch, inserted>>

\* Mutant: the withdrawals of the block stay.
L1RollbackKeepWithdrawals ==
    /\ L1Ready /\ L1Forked /\ RollbackPossible
    /\ depRow' = WithoutNumber(depRow, Number[check])
    /\ accounts' = accounts \ AccountsLosing(Number[check])
    /\ check' = versions[Len(versions)]
    /\ versions' = SubSeq(versions, 1, Len(versions) - 1)
    /\ l1next' = StartNumber(check')
    /\ UNCHANGED <<tip, whRow, l1pc, l1batch, inserted>>

\* Mutant: the transaction on a fork is never committed.
L1RollbackUndone ==
    /\ L1Ready /\ L1Forked /\ RollbackPossible
    /\ l1next' = StartNumber(check)
    /\ UNCHANGED <<tip, l1db, l1pc, l1batch, inserted>>

\* The transaction on a fork, then Process.exit(self(), :kill) and init/1.
L1Rollback ==
    /\ L1Ready /\ L1Forked /\ RollbackPossible
    /\ depRow' = WithoutNumber(depRow, Number[check])
    /\ accounts' = accounts \ AccountsLosing(Number[check])
    /\ whRow' = WithoutNumber(whRow, Number[check])
    /\ check' = versions[Len(versions)]
    /\ versions' = SubSeq(versions, 1, Len(versions) - 1)
    /\ l1next' = StartNumber(check')
    /\ UNCHANGED <<tip, l1pc, l1batch, inserted>>

\* The transaction raises: nothing is written, and the restarted worker meets
\* the same fork again.
L1RollbackRaises ==
    /\ L1Ready /\ L1Forked /\ ~ RollbackPossible
    /\ l1next' = StartNumber(check)
    /\ UNCHANGED <<tip, l1db, l1pc, l1batch, inserted>>

\* Mutant: the deposits are taken for the accounts they are for.
ImportDepositsAsAccounts ==
    /\ l1pc = "deposits"
    /\ LET new == RowsIn(DepsOf, l1batch) \ depRow
       IN depRow' = depRow \cup new /\ inserted' = {r[1] : r \in new}
    /\ l1pc' = "accounts"
    /\ UNCHANGED <<tip, check, versions, whRow, accounts, l1next, l1batch>>

\* import_deposits: rows that exist are skipped, and not returned.
ImportDeposits ==
    /\ l1pc = "deposits"
    /\ LET new == RowsIn(DepsOf, l1batch) \ depRow
       IN depRow' = depRow \cup new /\ inserted' = {Owner[r[1]] : r \in new}
    /\ l1pc' = "accounts"
    /\ UNCHANGED <<tip, check, versions, whRow, accounts, l1next, l1batch>>

\* import_eoa_accounts of the returned rows.  The node has these accounts:
\* its 404 ("account create slow") is one of the deaths of L1Crash.
ImportEoaAccounts ==
    /\ l1pc = "accounts"
    /\ accounts' = accounts \cup inserted
    /\ inserted' = {}
    /\ l1pc' = "withdrawals"
    /\ UNCHANGED <<tip, check, versions, depRow, whRow, l1next, l1batch>>

\* Mutant: only the highest block of the batch is imported.
ImportWithdrawalsOfLast ==
    /\ l1pc = "withdrawals"
    /\ whRow' = whRow \cup RowsIn(WhsOf, {HighestOf(l1batch)})
    /\ l1pc' = "checkinfo"
    /\ UNCHANGED <<tip, check, versions, depRow, accounts, l1next, l1batch,
                   inserted>>

\* import_withdrawals
ImportWithdrawals ==
    /\ l1pc = "withdrawals"
    /\ whRow' = whRow \cup RowsIn(WhsOf, l1batch)
    /\ l1pc' = "checkinfo"
    /\ UNCHANGED <<tip, check, versions, depRow, accounts, l1next, l1batch,
                   inserted>>

\* CheckInfo.create_or_update_info with the first response; then schedule_work.
UpdateCheckInfo ==
    /\ l1pc = "checkinfo"
    /\ check' \in Heads(l1batch)
    /\ versions' = Append(versions, check)
    /\ l1next' = Number[check'] + 1
    /\ l1pc' = "idle" /\ l1batch' = {}
    /\ UNCHANGED <<tip, depRow, whRow, accounts, inserted>>

\* The worker dies (any {:error, _} or non-empty list of errors of a call is a
\* MatchError) and is restarted.
L1Crash ==
    /\ Dies \/ l1pc = "idle"
    /\ l1pc' = "idle"
    /\ l1next' = StartNumber(check)
    /\ l1batch' = {} /\ inserted' = {}
    /\ UNCHANGED <<tip, l1db>>

-----------------------------------------------------------------------------
(* The rest of the application *)

\* Worker.CleanVersions deletes the versions recorded before yesterday.
CleanVersions ==
    /\ \E k \in 1 .. Len(versions) - Retention :
          versions' = SubSeq(versions, k + 1, Len(versions))
    /\ UNCHANGED <<tip, check, depRow, whRow, accounts, l1worker>>

\* Another worker imports an account it meets (SyncWorker.import_account,
\* CheckLostAccount).
ImportAccountElsewhere ==
    /\ \E a \in Acct : accounts' = accounts \cup {a}
    /\ UNCHANGED <<tip, check, versions, depRow, whRow, l1worker>>

L1Node == NodeStep /\ UNCHANGED <<l1db, l1worker>>

L1Work ==
    \/ L1Fetch \/ L1Rollback \/ L1RollbackRaises
    \/ ImportDeposits \/ ImportEoaAccounts \/ ImportWithdrawals
    \/ UpdateCheckInfo

L1Next ==
    L1Work \/ L1Wait \/ L1Crash \/ CleanVersions \/ ImportAccountElsewhere
    \/ L1Node

L1Spec == L1Init /\ [][L1Next]_l1vars

\* The worker's timer fires and its calls return.
L1FairSpec == L1Spec /\ WF_l1vars(L1Work)

-----------------------------------------------------------------------------
(* Properties *)

L1TypeOK ==
    /\ tip \in BlockId
    /\ check \in BlockId \cup {NoBlock}
    /\ versions \in Seq(BlockId \cup {NoBlock})
    /\ depRow \in SUBSET (Dep \X Nat)
    /\ whRow \in SUBSET (Wh \X Nat)
    /\ accounts \in SUBSET Acct
    /\ l1pc \in L1Stages
    /\ l1next \in Nat
    /\ l1batch \in SUBSET BlockId
    /\ inserted \in SUBSET Acct

\* The synced part of the layer 1 chain, as check_infos states it.
Synced ==
    IF check = NoBlock THEN {}
    ELSE {b \in Path(check) : Number[b] >= InitNumber}

\* The value that check_infos had when its i-th version was written.
Reverted(i) == IF i = Len(versions) THEN check ELSE versions[i + 1]

\* "Last synced tip block number and current hash for rollback": reverting a
\* version always goes back by exactly one block, to the parent, whatever
\* rollbacks, restarts and purges of versions came before.
HistoryFollowsChain ==
    \A i \in 1 .. Len(versions) :
       /\ Reverted(i) # NoBlock
       /\ \/ versions[i] = NoBlock /\ Number[Reverted(i)] = InitNumber
          \/ versions[i] = Parent[Reverted(i)] /\ Number[versions[i]] >= InitNumber

\* Every deposit and every withdrawal of the synced blocks is recorded, also
\* after crashes between the steps of an import and after rollbacks.
HistoriesComplete ==
    RowsIn(DepsOf, Synced) \subseteq depRow /\ RowsIn(WhsOf, Synced) \subseteq whRow

\* Nothing else is recorded, except for the block that is being imported.
HistoriesExact ==
    /\ depRow \subseteq RowsIn(DepsOf, Synced \cup l1batch)
    /\ whRow \subseteq RowsIn(WhsOf, Synced \cup l1batch)

\* Whoever has a recorded deposit has an account, once the import of that
\* deposit is over: the rollback relies on it.
DepositorsHaveAccounts ==
    l1pc \notin {"accounts"} => \A r \in depRow : Owner[r[1]] \in accounts

\* A fork is always resolved: the worker never meets one it cannot roll back.
ForkResolved == ~ (L1Ready /\ L1Forked /\ ~ RollbackPossible)

\* With several blocks at once there is no fork check.  What is left: of every
\* block number up to the last synced one, the deposits and the withdrawals of
\* one block that the node served are recorded.
NumbersCovered ==
    check # NoBlock =>
        \A n \in InitNumber .. Number[check] : \E b \in BlockId :
           /\ Number[b] = n
           /\ RowsIn(DepsOf, {b}) \subseteq depRow
           /\ RowsIn(WhsOf, {b}) \subseteq whRow

\* The number the worker is at once it has imported what it holds.
NextNumber == IF l1batch = {} THEN l1next ELSE Number[HighestOf(l1batch)] + 1

\* When the node's chain stays and has a block for the worker, the worker
\* syncs all of it that is old enough, rolling back first what it had synced
\* of another branch.
L1CatchesUp ==
    \A b \in BlockId :
        (tip = b /\ NextNumber + Buffer <= Number[b])
            ~> (tip # b \/ (check \in Path(b) /\ Number[check] = Number[b] - Buffer))
=============================================================================

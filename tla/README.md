# Verification of the Godwoken explorer's indexer

The Godwoken explorer copies two block chains into a PostgreSQL database and
serves it through GraphQL and REST: the layer 2 chain of a Godwoken node, and
the layer 1 (CKB) chain that the rollup settles on. The web side only reads.
What can go wrong is in the indexer: a dozen long-lived processes, each with a
position of its own in a chain that may be reorganised, write related rows
without a common transaction, die on every unexpected answer (`{:ok, _} = ...`
is the error handling) and are restarted by a supervisor. These modules model
that part, and the native parser of the binary data that both chains carry.

## Inventory

| Part | State | Operations | Interacts with |
| --- | --- | --- | --- |
| `SyncWorker` (`block/sync_worker.ex`) | the next layer 2 number in its mailbox | fetch a block or a range, fork check, rollback of one block, a dozen inserts, cache updates | layer 2 node; tables blocks, transactions, polyjuice, logs, token_transfers, withdrawal_requests, accounts, balances; ordered caches |
| block table (`block.ex`) | rows with hash, number, status, layer 1 binding | `rollback!`, `bind_l1_l2_block`, `reset_layer1_bind_info!`, `update_blocks_finalized` | written by four workers |
| `SyncL1BlockWorker` (`block/sync_l1_block_worker.ex`) | the next layer 1 number; `check_infos` and its ExAudit versions | deposits, accounts, withdrawals, position; rollback in one transaction | CKB node and indexer; deposit and withdrawal histories; accounts; bindings |
| `BindL1L2Worker` | the next layer 1 number | binds layer 2 rows to the layer 1 block of their submission | CKB indexer; block table |
| `GlobalStateWorker` | none | finality, meta account, available withdrawals | rollup cell; block table; account 0; withdrawal histories |
| `CleanVersions` (Oban) | none | deletes versions recorded before yesterday | the version stack of `check_infos` |
| `PendingTransactionWorker`, GraphQL requests for a pending transaction | what they saw in the mempool | insert rows without a block | `SyncWorker`, tables transactions and polyjuice |
| `CleanFailedPendingTransactions` (Oban) | the hashes it read | delete rows that waited for three days | the same tables |
| balance rows and ERC721 owners of an import (`transform/token_balances.ex`, `update_erc721_token`) | rows without a value; owners | insert with `on_conflict: :nothing`; replace | `UDTBalance` |
| `UDTBalance` fetcher | a batch of rows | asks the node, four upserts | account_udt_balances, account_current_udt_balances |
| bridged balances | rows per account and UDT | written by the deposit and by the withdrawal import | two workers |
| accounts, nonces, `CheckLostAccount` | account rows by id, script hash, address; a count pointer | imports by several workers | deposits, transactions |
| `TransactionCount`, `BlockCount` (`chain/cache`, `map_cache.ex`) | ConCache keys `:count` and `:async_task` | count in a task, expiry | readers of the API |
| ordered caches, counters | ETS and ConCache entries | merge, delayed removal, refresh | `SyncWorker`, API readers |
| molecule parser (`native/molecule_parser`) | none | 92 generated types; six functions that Elixir calls | `BindL1L2Worker`, `GlobalStateWorker`, `SyncL1BlockWorker`, `SyncWorker` |
| other Oban workers, contract verification, web, mailers | see PROJECT.json | refreshes, reads, conversions | |

What is hard here: reorganisations (a block number means another block the next
time it is asked for), positions that several tables hold separately, imports of
many statements that stop anywhere, deaths as a means of control (a fork of
either chain is handled by rolling back and crashing), stale answers used after
another worker moved on, rows skipped because they exist already, and values
taken out of nested structures by position. The hazards are listed with their
lines in PROJECT.json.

What makes each part correct:

- layer 2 import: the stored rows are one branch of the chain, without gaps or
  doubles, contents complete for every stored block, and the import reaches the
  node's chain after any sequence of forks and deaths;
- layer 1 import: the position can always be taken back block by block, the
  histories have every deposit and withdrawal of the synced blocks, exactly
  those when nothing died, and the worker never meets a fork it cannot resolve;
- binding and finality: a binding names the layer 1 block of the submission, nothing
  but a reset takes it back, no submission is left behind as long as none is missed
  (*Skipped bindings*), the finalized rows are a prefix and stay final;
- pending transactions: whatever is seen late, a stored block keeps its
  transactions; what waits is shown, what was given up goes;
- balances: the current balance is the newest known one, and the right one
  where no lost block interfered; no row waits for its value for ever;
- count caches: the count does not stop being renewed;
- parser: a slice is accepted only when it is the encoding of the value read
  from it, newer schemas are read by old readers, and each reply has the field
  its receiver takes it for.

## Modules

Each module `MC...` gives a module its constants for TLC; the modules `...Proofs`
and `...Lemmas` are for TLAPS.

### Chains

`ChainTree` is a chain as a client sees it: a tree of blocks of which the node
serves one path, that grows by a block or takes back any number. It is external:
the nodes are not in the repository. A block stands for its hash and therefore
determines its number, its parent and its ancestors (`Anc` is a constant
rather than a recursive definition, with assumptions that make it the ancestor
relation). `L2Chain` adds transactions and withdrawal requests. `SettledChain` bounds
how far a chain goes back: `settled` is the highest block that stays, `MaxReorg`
blocks below the highest tip there was. The code takes such a bound for granted on
layer 1: the workers stay 15 and 30 blocks behind the tip, and the versions needed
for a rollback are deleted after a day.

### Layer 2 import: `L2Sync`, `IndexedChain`

`L2Sync` is `SyncWorker`. One variable per table, `pc` for the statement that
comes next, `next` for the number in the mailbox, `todo` for what
`Repo.safe_insert_all` has not inserted yet (it inserts 500 rows at a time, each
chunk a statement of its own). The chunks of a range come in any order: its requests
are the entries of a map, which has no order above 32 keys, and nothing sorts the
answers.

| Action | Code |
| --- | --- |
| `Fetch` | `fetch_and_import`: tip check, answer of the node, fork check passed |
| `RollbackBlock`, `RollbackTransactions` | `validate_last_block_fork` and the two statements of `Block.rollback!`, then the MatchError and `init/1` |
| `ImportLogs` ... `ImportBlock` | the inserts in the order of the code: receipts first, the block row last |
| `UpdateTransactionsCache`, `UpdateBlockCache` | the ordered caches; the latter schedules the next block |
| `Crash`, `Restart` | death of the worker, of the application (which empties the caches) |

The token transfers share `logRow` with the logs: both are inserted with
`on_conflict: :nothing` from the same receipts. The balance rows and ERC721
owners of the same import are in `UdtBalance`; the addresses, accounts, nonces and
approvals are left out: no statement modelled here reads them.

`IndexedChain` is what the block table promises its readers: it holds one block
with its ancestors, grows by one block and loses only the top one. `L2Sync`
implements it in single-block mode (`ImplementsIndexedChain`). `PendingTx` and
`UdtBalance` build on that promise: their `SyncWorker` imports one block above
the stored ones or deletes the top one, with the statements in between that
matter to them. That they implement `IndexedChain` too is proved, so the three
modules have the same block table. `BlockNumbers` is what is left of it when a
block is its number; `L2Sync` implements it, and so does the part of `L1L2Bind`
that stands for `SyncWorker`.

### Layer 1 import: `L1Sync`

`L1Sync` is `SyncL1BlockWorker` with the rows it writes, `CleanVersions` and
account imports by others. `versions` is the stack of ExAudit versions as the
values that reverting each gives back. The rollback on a fork is one database
transaction and one action (`L1Rollback`); when a version or an account is
missing the transaction raises (`L1RollbackRaises`) and nothing is written. The
import of a block is four actions, as it is four statements without a
transaction. Of a batch, the new position is the head of the answers: the highest
number while the map of requests is an ordered one (`MapKeys`), any above that
(`Heads`).

In `L1Sync` the chain may go back to its genesis block and `CleanVersions` may
come at any time, so that a fork without a version to revert cannot be excluded.
`L1SyncSettled` is the same worker on a `SettledChain`. `ChainPosition` is how
`check_infos` moves: to a child of its block or to the parent. It is implemented by
`L1Sync` and by the variable `seen`, which stands for `check_infos` in `L1L2Bind`.

### Bindings and finality: `L1L2Bind`

`L1L2Bind` composes the four writers of a block's binding and status. It has
`BindL1L2Worker` (`BindTip` ... `BindCrash`) and `GlobalStateWorker`
(`GlobalFetch` ... `GlobalCrash`) statement by statement; `SyncL1BlockWorker` and
`SyncWorker` appear as far as they touch these columns (`SyncForward`, `SyncBack`;
`ImportL2`, `RollbackL2`). Layer 2 blocks are numbers there: `StoredChain`,
checked and proved for `L2Sync`, justifies that the stored ones are 0 .. `l2top`.

What the code takes for granted about the two chains is said by assumptions:

- A reorganisation of layer 1 is at most `MaxReorg` deep (`SettledChain`). The
  binder's buffer exists because of this bound. As the indexer leaves the end of a
  range out (`Submissions`), the bound may be one more than the buffer.
- Finality follows submission by more than `MaxReorg + MaxLag` blocks
  (`ChallengeAssumption`), as the challenge period of days does. `MaxLag` is how
  far the chain grows while `SyncL1BlockWorker` still stands on a lost branch. The
  reset is by number: if the worker lagged for a challenge period, it would
  reset bindings, and with them finality, of blocks of the new branch that have
  the numbers of the old one. It looks every second, so this is excluded here.
- A layer 2 block is submitted once in a chain (`SubmissionAssumption`), and its
  rows are not rolled back once it is: a successful challenge is left out.

### Pending transactions: `PendingTx`

A row of transactions is absent, pending, or has a block, and so is its receipt
in polyjuice.

| Action | Code |
| --- | --- |
| `Fetch`, `ImportPolyjuice`, `ImportTransactions`, `ImportBlock` | the statements of `SyncWorker` that touch these rows, each replacing what is there |
| `RollbackBlock`, `RollbackTransactions` | `Block.rollback!`: the block, then the transactions with its number; the receipts stay |
| `FetchPending`, `InsertPolyjuice`, `InsertTransactions` | `PendingTransactionWorker` and `parse_and_import` for a request: read of the mempool (a request may also get a transaction of a block, `Known`), then inserts that do nothing on a conflict |
| `SelectFailed`, `DeleteFailed` | `CleanFailedPendingTransactions`: a read, and a transaction that deletes by hash |
| `Submit`, `Drop`, `Age` | the node's mempool (external); three days pass |

`cut` and `lost` are history variables. `cut` has the blocks whose import or
rollback a death cut short: their rows may name a block that is not stored.
`lost` has the transactions that the cleaner deletes between its read and its
delete although `SyncWorker` put them into a block meanwhile. Both are known limits
of the code, and everything else is required to hold without exception. `Age` may
happen at any moment: `inserted_at` is left as it is when a row gets a block and
loses it again. The rows of polyjuice_creator are left out: nothing changes or
deletes them.

### Balances: `UdtBalance`

| Action | Code |
| --- | --- |
| `InsertFungible`, `InsertNft` | the two statements of `update_udt_balance` with the rows of `TokenBalances.params_set` (`KeysOf`) |
| `UpdateErc721Token` | the last transfer of each token of the block (`LastTransfer`), replacing the owner |
| `Rollback` | `Block.rollback!`, which leaves balances and owners alone |
| `Select`, `Call` | `stream_unfetched_udt_balances`; the batch of `balanceOf` requests, of which any may fail |
| `UpsertHistoryFungible`, `UpsertHistoryNft` | the upserts into account_udt_balances, which only fill rows in |
| `UpsertCurrentFungible`, `UpsertCurrentNft` | the upserts into account_current_udt_balances: the newest answer of each key, if newer than the row |

Two history variables name the limits of the code. `muddled` has the keys and
tokens that a block which the chain lost had touched: the row of a lost block
keeps its value when the block of the new branch wants the same row, and a higher
number of the lost branch is not replaced. `behind` has the keys whose current row a
death of the fetcher left out after their history had been written. The
fetcher asks an ERC721 contract for the number of tokens of an address, which
transfers of other ids change too, so `CurrentIsRight` speaks of the other types.

### Count caches: `CountCache`

`TransactionCount` and `BlockCount` are the same code over `MapCache`. A reader
that misses `:count` makes sure that a task counts (`GetCount`, `GetTask`,
`StartTask`, `StoreTask`), the owner of the ConCache does the same before it
deletes an expired `:count` (`ExpireCount`, `DeleteCount`), the task counts, stores
and clears the key (`Query`, `SetCount`, `ClearTask`), and may raise or die. The pid
in `:async_task` is a Boolean, as nobody asks whether the process is alive: that
it is stored after the task has cleared the key, or stays after the task died, is
the hazard. ConCache itself is external; it expires keys every 15 minutes.

### Parser: `Molecule`, `BlockchainTypes`, `GodwokenTypes`, `MoleculeParser`

The generator writes the same code for each type of one kind. `Molecule` has
what it writes, with the schema as a parameter: `Verify` (strict and compatible),
the accessors (`Read`, `Get`) and the builders (`Build`, `Default`) of the seven kinds
array, struct, table, fixed and dynamic vector, option and union. In the code only
`verify` goes down from type to type; builders and accessors hand over the slices of
the parts. So a value here is one level deep, and no operator is recursive: a
schema is built from the schemas of its parts and carries the set of slices that
its reader accepts (`accepted`) and the bytes of its default (`default`); `Initial`
is what the untouched builder holds.
`BlockchainTypes` and `GodwokenTypes` list the 92 types of the two schemas that
`lib.rs` uses, field by field. `MoleculeParser` has the functions of `lib.rs` and
what their Elixir callers make of the replies: `parse_outputs_data` with its rescue
to the older layout, `fetch_global_state_info`, and the cut of a withdrawal lock's
arguments. What is written is read as it is, after an upgrade of the schema or
damaged; a panic of Rust is an error of the caller. The values of a newer writer
(`NewerValues`) have parts from newer schemas too, and its tables get any of the
`Extras` behind their fields. Lengths and offsets are 32-bit
numbers: those of 2^31 and more stand for one number that no slice reaches.

Two facts met on the way, which no run speaks of. The compatible reader of a
table without fields accepts a longer slice unread, and `field_count` would then
read an offset that need not be there; no function of `lib.rs` calls it. And
`parse_eth_address_registry_args` copies a fee of 20 bytes into a buffer of 8,
which panics for each mapping that `SetMapping` and `BatchSetMapping` write
(modelled as it is).

## Runs

| Run | Question |
| --- | --- |
| `l2_single` | Block by block, with forks, deaths, restarts and split statements: is the stored chain always one branch, complete, an implementation of `IndexedChain`, and does it reach the node's chain? |
| `l2_chunks` | violated: with several blocks at a time (no fork check then), a range of more rows than one insert takes is not all there after a death between two chunks, and the number left out is never asked for again |
| `l1_crash` | With deaths between any two steps, purged versions and accounts imported elsewhere: does the version stack lead back block by block, and is nothing missing? |
| `l1_steady` | Without deaths inside an import, on a chain whose reorganisations are no deeper than the versions that `CleanVersions` leaves: are the histories exact, is every fork resolved, does the worker catch up? |
| `l1_multi` | Batches without fork check, with any answer at the head of the list: is no block number left out? |
| `bind_settled` | Resets of bindings, rollbacks, failed calls, deaths and reorganisations one block deeper than the buffer: do bindings name the right block, does nothing but a reset of its layer 1 block take one back, and does finality stay? |
| `bind_live` | Blocks stored before their submission: does the binder, dying now and then, leave none behind, and is everything bound and finalized in the end? |
| `pending_life` | A transaction of two branches, seen by a worker and by a request, aged and cleaned: does a stored block keep it, is it shown while it waits, and does it go when the node gave it up? |
| `balance_fork` | Tokens of the three types on two branches, batches answered in part, deaths: are current balances the newest, balances and owners right, and is every row fetched? |
| `count_ttl` | Readers, expiry, failing and dying tasks: does the count come back to the number of rows? |
| `molecule_all` | All 92 types, written, upgraded and damaged: is what is written read back, what is accepted canonical, and does each reply have the fields that it names? |
| `molecule_roots` | violated: the meta account gets the merkle roots of blocks and accounts under each other's name |

### Bounds

- `MCL2Sync`: two branches of three blocks above genesis, long enough for a fork that
  needs three rollbacks in a row, and for a second reorganisation back while the
  first is being handled. The blocks share two transactions and a withdrawal request
  in different positions, so every reorganisation moves contents. `ChunkSize` is 1 in
  `l2_single`, so that a block with two transactions needs two statements, and in
  `l2_chunks`, where a range has three blocks. (In the code a range has two blocks
  unless `GWSCAN_BLOCK_BATCH_SIZE` says otherwise, and a chunk 500.) `CacheSize` is 1 or 2:
  no branch of the worker depends on the caches.
- `MCL1Sync`: the same shape, with an account that has deposits in several blocks and
  one whose only deposit changes block. `MapKeys` is 32 as in the code, and 1 in
  `l1_multi`, so that a batch of two is above it. `Retention` 1 lets `CleanVersions` take all
  versions but one at any time.
- `MCL1SyncSettled`: a third branch that leaves the first one above block 1, four
  blocks high, so that `CleanVersions` does delete versions below the settled block
  and a reorganisation then uses all that are left. Reorganisations of two blocks,
  two versions kept and no buffer: with one version, `ForkResolved` does not hold.
- `MCL1L2Bind`: a tree five blocks high, with a branch above the second block. One layer 1
  block submits two layer 2 blocks, one submission is in different blocks of the two
  branches, and the node says in block five that block two is final. `bind_settled` has a
  buffer of 1, reorganisations of 2 and a lag of 2: the binder comes to the new branch
  while `SyncL1BlockWorker` still stands on the lost one, and its reset takes bindings
  of the new branch. `bind_live` uses four blocks of the tree with the branch on
  top, reorganisations of one block and no lag, so that `SyncL1BlockWorker` sees no fork there.
- `MCPendingTx`: one transaction, at different heights of two branches. Every statement
  acts on each row by itself, and the proof covers any number. Two readers are needed
  for a late insert over an insert; two deaths for a cut import and a cut rollback.
- `MCUdtBalance`: one fungible token, one ERC721 and one ERC1155 token with one holder;
  a fungible token that moves in two blocks of a branch, an ERC721 token that moves
  twice in a block, and a fork of that block whose rows are others.
- `MCCountCache`: two readers and the owner, two tasks at a time, two changes of the
  table and two failures: enough for a task that overwrites a newer result, a pid
  stored late and a pid of a dead task at once.
- `MCMoleculeParser`: of each type the default value and samples with up to two items in
  their vectors, no two fields alike; in each slice every number up to byte 80 is
  replaced or shifted, any two of the first six together, and the length. `TLC`
  has a depth of two or three steps here; the width is in the values.

The bounds `MaxDeaths`, `MaxChanges`, `MaxFailures`, `MaxRows` and `TaskSlot` are
in the guards of the modules; they only remove behaviours.

### Fairness

Every worker schedules its next message itself (`Process.send_after`) and
its calls return or kill it, so each worker as a whole is weakly fair. `CatchesUp`
assumes that the layer 2 worker is in the end killed only by its own fork handling.
`bind_live` lets the binder die for ever but not each time at the same request:
its requests for a range and for a transaction are strongly fair. In `PendingTx` the
cleaner runs daily, time passes, and a request that began goes on; new requests
need not come. In `UdtBalance` the node answers the whole batch again and again if it is
asked again and again (strong fairness of `Call(Answerable)`); `SyncWorker` has no
fairness there. In `CountCache` requests keep coming, as without readers nobody
needs a count, and ConCache expires what is due. The nodes, deaths and other imports
have no fairness; the liveness properties speak of a node whose chain stays, or
hold whatever it does.

## Known disagreements

Two runs show a statement of the code or its documentation that the program
violates. `l2_chunks`: `Repo.safe_insert_all` asks to be run in a transaction, as it
may need several inserts; `SyncWorker` imports a range without one. The rows of a
range come in no order, so the chunks that are in before a death may have the highest number,
and the restarted worker goes on after it: the numbers that are missing below are never
imported. It needs ranges of more than 500 blocks.
`molecule_roots`: `parse_global_state` builds two pairs, the block count with
the *account* root and the account count with the *block* root, and
`fetch_global_state_info` takes each pair for a count with its own root.

Earlier versions of this project had runs for five more facts. They are
consequences of the models as they stand, and hazards in PROJECT.json refer to
them:

- *Ghost transactions.* A death between the two statements of `Block.rollback!`
  leaves transactions that claim the number of a block they are not in; the next
  import takes those that it has itself, the others stay. (`RowsNameStoredBlocks`
  exempts exactly these blocks, by `cut`.)
- *Logs of lost blocks.* Logs and token transfers keep the block they were first
  seen in after a reorganisation moved their transaction: the insert does nothing
  on a conflict.
- *Cached blocks.* The block cache serves a block that a rollback deleted until
  another one with its number is imported.
- *Skipped bindings.* `BindL1L2Worker` skips a submission whose row is not stored yet
  and then goes on after the highest number it bound. If `SyncWorker` stores two
  blocks in between, the first is never bound (`Ahead` excludes this in
  `bind_live`). The same rule loses submissions in three more ways: one failed
  `fetch_l1_tx` of a batch (`Flaky`); a death between two submissions of one layer 1
  block, as a restart begins with the next layer 1 block; and a reset by
  `SyncL1BlockWorker`, which clears by number, of a binding that is already that of the
  new branch, as happens in `bind_settled`. `SubmittedAreBound` and `EventuallyBound`
  are therefore checked where none of them can happen: they show that the rule skips
  nothing by itself, also when the binder dies and starts again.
- *A stuck rollback.* A death between `import_deposits` and `import_eoa_accounts` (the
  code dies there by itself when the node does not know the account yet) loses the
  account: the retry inserts no deposit, gets no row back and imports nobody. If
  that block is then reorganised away, `DepositHistory.rollback!` raises on the
  missing account each time, and layer 1 syncing stops. (`l1_steady` therefore
  checks `ForkResolved` with `Dies` false, `l1_crash` the rest with deaths.)

Three more limits are in the models as history variables or conditions: the
cleaner may delete a transaction that just got a block (`lost`), balances of keys
that a lost block touched may stay wrong (`muddled`), and a death of the fetcher
between its upserts leaves current balances behind until the next transfer
(`behind`). Block 0 is never marked final: rows *above* the last finalized one are
taken, 0 without one. `parse_raw` has no clause for transactions
that are neither of polyjuice nor for account 0 or the address registry: while one waits in the mempool,
`PendingTransactionWorker` raises each time and shows none of the others (`PendingTx` has
the known kinds only). And the rollup cell is read at the tip of layer 1, without
confirmations; the challenge period alone makes its number safe.

## Proofs

The theorems hold for every tree of blocks with its contents and every value of
the other constants, from the named assumptions of the modules, which TLC checks
for the instances. Lemmas about paths of the tree are in `ChainTreeLemmas`, about
least and greatest numbers too.

**`L2SyncProofs`**, in single-block mode (`~ Multi`): `StoredChainAlways`,
`CommitMarkerAlways`, `DerivedCompleteAlways` and `Refinement`: `Spec` implies `ImplementsIndexedChain`. The inductive
invariant `IInv` adds where the worker stands: which block it holds, that the
stored rows are exactly that block's ancestors until its row is inserted, and for
each stage what has been written of it. `StoredChain` alone is not inductive:
nothing would tie the block in the worker's hands, fetched before the node moved
on, to the rows. The refinement follows from two of the action lemmas, since
only `ImportBlock` and `RollbackBlock` change `rows`. In either mode: `TypeCorrect`,
`ContiguousAlways` and `ResumesAlways`. With several blocks at a time there is no fork
check and the rows need not be a path; the invariant (`NumbersInv`) speaks of their
numbers only: no two rows have the same, the range in hand has a block of each of its
numbers, and `next` follows the highest row until block rows are inserted (`TopIs`).
That holds for chunks in any order, and `ResumesAlways` with it. `ContiguousAlways` also
needs a range to fit into one chunk (`BatchSize < ChunkSize`, its hypothesis for the mode with
several blocks): then a death finds a range inserted or not (`GapInv`). Without the
hypothesis it is false, as `l2_chunks` shows.

**`L1SyncProofs`**, in single-block mode (`~ MultiL1`): `HistoryFollowsChainAlways`,
`HistoriesCompleteAlways`. `L1Inv` adds that the block in hand builds on the one in
`check_infos` and which of its rows are in, and `StepsBack`: reverting a version goes strictly down. Without the latter a stack
could repeat the genesis block, which is its own parent in the tree, and the
rollback would delete rows of a block that stays synced. Without deaths inside
an import (`~ Dies`) also `HistoriesExactAlways`, since a rollback by number takes exactly
the rows of the top block, and `DepositorsHaveAccountsAlways` (`OwnersKnown`: whoever the
deposits just inserted are for is imported by the next step). In either mode:
`L1TypeCorrect` and `NumbersCoveredAlways`; for several blocks at once `BatchInv` says
that the batch has a block of each number of its range.

On a chain with bounded reorganisations (`L1SettledSpec`, which implies `L1Spec` by
`SettledImplements`): `VersionLeftAlways` and, without deaths inside an import,
`ForkResolvedAlways`, both for `MaxReorg <= Buffer + Retention`. The buffer counts
because a block is imported only when `Buffer` blocks are on it, so a reorganisation
loses at most `MaxReorg - Buffer` imported ones. The hypothesis is what the code relies
on when it purges by age: a day has thousands of layer 1 blocks. (After a pause of a
day all versions go, but then the last imported block is a day deep; the model counts
versions and knows no time.) The invariant (`SettledInv`) says where the
rollbacks end that the versions allow: in the block that the oldest version goes
back to (`Base`), which is a settled one. For that the versions have to be the
blocks below `check_infos` number by number (`VersionsBelow`), the position and the
block in hand at most `MaxReorg - Buffer` above the point where their branch leaves
the settled chain (`NearSettled`), and the tip at most `MaxReorg` above `settled`
(`TipNear`). As only lost blocks are rolled back and a settled block is never lost,
no rollback needs more versions than there are.

`L1ImplementsChainPosition` needs no bound: each move of `check_infos` is one of
`ChainPosition`.

**`PendingTxProofs`**: `PendingTypeCorrect`, `BlocksKeepTheirTransactionsAlways`,
`RowsNameStoredBlocksAlways`. `IInv` adds that the block in hand is the next one
(`OnTop`) and what of it is written at each statement (`ReceiptsWritten`,
`RowsWritten`). The reader's late inserts keep it because they write only where no
row is, and the rollback by number because a path has one block of each number.

**`UdtBalanceProofs`**: `BalancesTypeCorrect`, `CurrentIsNewestAlways`,
`OwnerIsRightAlways`, `CurrentIsRightAlways`. The first layer (`IInv`) ties the
fetcher's answers to the rows: they are still without a value or just written
(`HoldsRows`), there is a newest one (`AnswersBounded`), and the current row is the
newest of those it may know of (`CurrentKnown`). The second (`OInv`) says the same of the
owners, over the stored blocks and the one in hand. The third (`KInv`) says that
the rows of an unmuddled key are those of blocks on the stored chain and its
continuations, and their values those of the chain: then no later transfer
separates the newest row from the highest stored block (`BalanceStays`).

**`CountCacheProofs`**: `CountTypeCorrect`. The last part of `TypeOK`, that a task has
a result just when it is about to store one, makes the type of `count` inductive.

**`L1L2BindProofs`**: `BindTypeCorrect`, and for `MaxReorg <= BindBuffer + 1`
`BoundToCanonicalAlways`, `FinalizedPrefixAlways`, `FinalityKeptAlways`,
`OnlyResetsUnbindAlways`. The binder
works below the settled block, so what it has read stays true (`Settling`,
`Bindings`). For finality that is not enough, as the reset goes by number: a
position of `SyncL1BlockWorker` on a lost branch is near the point where the
branches part (`NearFork`), every final block was submitted further down than that
(`Safe`), and the number that `GlobalStateWorker` holds is safe too, as is the highest final
row it read (`Finals`). `SubmissionAssumption` closes the argument: the row
that a reset takes is bound by one submission only.

`OnlyResetsUnbindAlways` says what can take a binding: the reset of the layer 1 block it
names, and nothing else. The binder does not write another block over one (`KeepsBound`: two
submissions of the settled chain have two layer 2 blocks), and a row that is bound stays
stored (`RowsBound`), so the rollback of layer 2 spares it. It assumes nothing of the lag:
the resets that hit bindings of the new branch are among the steps.

`BindImplementsChainPosition` and `BindImplementsBlockNumbers` tie the two workers
that `L1L2Bind` only sketches to the modules that have the whole of them. They say that
the sketch moves as the whole does, not that it can be replaced by it: `L1Sync` decides to move
when it fetches a block and moves four statements later, `SyncForward` does both at once.

**`MoleculeParserProofs`** has the five properties of the parser, for every slice of
bytes and every value of the writers: `WrittenIsReadBack`, `AcceptedSlicesAreCanonical`,
`NewerEntitiesAreCompatible`, `BindWorkerReadsTheCount`, `RepliesHaveTheFields`. The
assumptions say that builders hold what their setters take (`WriterAssumption`: entities of
the types of the parts, from a strict reader, or from any reader for a newer writer), that
nothing built has 2^31 bytes, and that a lock script is bytes (`TrailersAssumption`).

- The bytes: four digits are the number they make and back (`PackIs`, `UnpackPacked`,
  `PackUnpacked`); parts that are cut from a slice and written again are the slice
  (`FlattenLays`, `CutLays`, `CutReads`). Inductions over lengths are over sets of
  numbers (`SetInduction`), as the library's take an operator.
- The header of a table or a dynamic vector: `IsLayout` says which slice has which parts.
  What is written is the layout of its parts, a slice that the checks of the reader let
  pass is the layout of the parts it is cut into (`ReaderLays`), and there is one slice to a
  layout (`LayoutIsUnique`). That is where a gap, an overlap or a rest would show:
  the total size, the first offset and the order of the offsets leave none.
- The kinds: a schema is `Sound` when its readers grow, read back what is built, accept
  nothing that is not built (`Exact`) and read what a newer builder builds (`Evolves`).
  Each kind is sound when its parts are (`TableSound`, `UnionSound`, ...). Two conditions are
  not of that form, and the schemas have to meet them: the fields of a struct and the items of
  a fixed vector have one size above 0 (`FixedSize`), and the item of an option never has the
  empty slice, which would be read as none (`OptSound`).
- The types: `PackedTypesAreSound`, one after another in the order of the schemas, instead of
  an induction over them.
- The states: `IInv` says that a slice that is not damaged is what was built of the value, and
  that the answer is what one function makes of the slice as it is now. The two layouts
  of a global state have 190 and 181 bytes (`StateSizes`), so the rescue of the binder
  never takes one for the other; the arguments of a withdrawal lock are 104 bytes behind 32,
  which is where the explorer cuts them (`SkipsTheHash`).

The block tables: `PendingImplementsIndexedChain` and `BalancesImplementIndexedChain`
follow from the parts of the invariants that keep the block in hand on top of the stored
ones, `ImplementsBlockNumbers` from `Refinement`.

Only model-checked: `SubmittedAreBound`, whose hypotheses are a list of cases rather than
one condition on the constants, and liveness (`CatchesUp`, `L1CatchesUp`, `EventuallyBound`,
`EventuallyFinal`, `PendingShown`, `FailedAreCleaned`, `RowsAreFetched`,
`CountCatchesUp`), which is out of the prover's reach. Every other
property of the passing runs is a theorem. What the prover does not check of the parser is
that the schemas are sound whatever schema is added: a new type needs its line in
`GodwokenTypesAreSound`.

## Not modelled

- JSON-RPC and its conversions: a call answers what the workers read of a block,
  or the worker dies. A range is answered from one state of the node. The indexer's
  limit of 1000 entries is left out: a range of 101 layer 1 blocks would have to have
  several submissions in each of them.
- `GlobalStateWorker` may find no account 0 to write the meta contract to and die on creating
  it: this is `GlobalCrash`, and `bind_live` assumes that the account is there.
- A layer 1 position without a block hash, which `forked?` lets pass: the changeset of
  `check_infos` does not accept one.
- `Repo` calls of one statement are atomic; `bind_l1_l2_block` (a read and an
  update of one row) and the transaction of the layer 1 rollback are one step.
- Bridged balances: two workers store the answers they got to requests without a
  block number, the last one wins, and the code promises nothing in between.
- Nonces, account counts (`CheckLostAccount`), approvals, addresses: upserts of
  single rows that no modelled statement reads.
- The removal of elements from the ordered caches a tenth of a second after they fall out,
  and the counters of `counters/`, which refresh an ETS row each.
- Oban jobs for metadata and statistics, contract verification, the API and the
  web: they keep no state whose order matters, or only read.
- The schemas `store`, `mem_block`, `xudt_rce`, `omni_lock`, `exported_block`, `deprecated`
  and `poa` of the parser: no function uses them, and each sits behind a feature
  that Cargo.toml does not declare.

## Plan

1. Accounts: nonces and the account-count pointer against the deposit rollback.
2. The counters of `counters/` and the delayed removal of the ordered cache.

---------------------------- MODULE L1SyncProofs ----------------------------
(***************************************************************************)
(* Safety of the deposit and withdrawal import of module L1Sync for every  *)
(* tree of layer 1 blocks, every content of theirs and every buffer,       *)
(* however many versions CleanVersions takes: first in its single-block    *)
(* mode, then what holds with multiple_block_once as well.                 *)
(***************************************************************************)
EXTENDS L1SyncSettled, ChainTreeLemmas, TLAPS

-----------------------------------------------------------------------------
(* The inductive invariant *)

\* check_infos and its versions go down block by block, and strictly, so that
\* the genesis block, which is its own parent here, never repeats.
StepsBack ==
    /\ check # NoBlock => Number[check] >= InitNumber
    /\ \A i \in 1 .. Len(versions) :
          versions[i] # NoBlock => Number[versions[i]] + 1 = Number[Reverted(i)]

\* Where the worker stands in the import of block c, and what is stored of c.
Holding(c) ==
    /\ l1batch = {c} /\ Number[c] = l1next
    /\ check # NoBlock => Parent[c] = check
    /\ l1pc # "deposits" => RowsIn(DepsOf, {c}) \subseteq depRow
    /\ l1pc = "checkinfo" => RowsIn(WhsOf, {c}) \subseteq whRow

L1WorkerInv ==
    /\ l1next = StartNumber(check)
    /\ l1pc = "idle" => l1batch = {}
    /\ l1pc # "idle" => \E c \in BlockId : Holding(c)

L1Inv ==
    L1TypeOK /\ HistoryFollowsChain /\ StepsBack /\ HistoriesComplete /\ L1WorkerInv

-----------------------------------------------------------------------------
(* Facts about the histories and the synced blocks *)

LEMMA Typing == /\ Number \in [BlockId -> Nat] /\ Parent \in [BlockId -> BlockId]
                /\ InitNumber \in Nat /\ Buffer \in Nat
                /\ Genesis \in BlockId /\ NoBlock \notin BlockId
BY TreeAssumption, L1ConfigAssumption

\* Leaving out the last elements of a sequence keeps the others.
LEMMA PrefixOfSeq ==
    ASSUME NEW S, NEW s \in Seq(S), NEW n \in 0 .. Len(s)
    PROVE  /\ SubSeq(s, 1, n) \in Seq(S) /\ Len(SubSeq(s, 1, n)) = n
           /\ \A i \in 1 .. n : SubSeq(s, 1, n)[i] = s[i]
OBVIOUS

\* The rows of some blocks are well typed.
LEMMA RowsTyped ==
    ASSUME NEW S \in SUBSET BlockId
    PROVE  RowsIn(DepsOf, S) \subseteq Dep \X Nat /\ RowsIn(WhsOf, S) \subseteq Wh \X Nat
BY Typing, L1ContentAssumption DEF RowsIn

LEMMA RowsMonotone ==
    ASSUME NEW content, NEW S, NEW T, S \subseteq T
    PROVE  RowsIn(content, S) \subseteq RowsIn(content, T)
BY DEF RowsIn

LEMMA RowsUnion ==
    ASSUME NEW content, NEW S, NEW T
    PROVE  RowsIn(content, S \cup T) = RowsIn(content, S) \cup RowsIn(content, T)
BY DEF RowsIn

\* Deleting the rows of number n leaves those of blocks with other numbers.
LEMMA RowsSurvive ==
    ASSUME NEW content, NEW S, NEW n, NEW table,
           RowsIn(content, S) \subseteq table,
           \A b \in S : Number[b] # n
    PROVE  RowsIn(content, S) \subseteq WithoutNumber(table, n)
BY DEF RowsIn, WithoutNumber

SyncedTo(c) == {b \in Path(c) : Number[b] >= InitNumber}

\* The block above the last synced one adds itself.
LEMMA SyncedGrows ==
    ASSUME NEW c \in BlockId, Number[c] # 0
    PROVE  SyncedTo(c) \subseteq SyncedTo(Parent[c]) \cup {c}
BY PathOfParent DEF SyncedTo

\* Nothing is synced below the first block.
LEMMA SyncedFirst ==
    ASSUME NEW c \in BlockId, Number[c] = InitNumber
    PROVE  SyncedTo(c) = {c}
BY TopOfPath, Typing DEF SyncedTo

\* The blocks synced below block c have smaller numbers, and stay synced.
LEMMA SyncedBelow ==
    ASSUME NEW c \in BlockId, Number[c] # 0
    PROVE  /\ SyncedTo(Parent[c]) \subseteq SyncedTo(c)
           /\ \A b \in SyncedTo(Parent[c]) : Number[b] # Number[c]
BY PathOfParent, TopOfPath, Typing DEF SyncedTo

\* Conditions on rows that do not change are kept.
LEMMA L1InvDepends ==
    ASSUME L1Inv, UNCHANGED <<check, versions, depRow, whRow, l1worker>>,
           tip' \in BlockId, accounts' \in SUBSET Acct
    PROVE  L1Inv'
BY DEF L1Inv, L1TypeOK, HistoryFollowsChain, StepsBack, HistoriesComplete, L1WorkerInv,
       Holding, Reverted, Synced, RowsIn, StartNumber, Path, l1worker

-----------------------------------------------------------------------------
(* One lemma per action *)

LEMMA L1InitInv == L1Init => L1Inv
BY Typing
   DEF L1Init, NodeInit, L1Inv, L1TypeOK, L1Stages, HistoryFollowsChain, StepsBack,
       HistoriesComplete, L1WorkerInv, Synced, RowsIn, StartNumber

LEMMA L1NodeInv == ASSUME L1Inv, L1Node PROVE L1Inv'
<1>1. tip' \in BlockId
  BY TreeAssumption DEF L1Node, NodeStep, NodeGrow, NodeRevert, L1Inv, L1TypeOK
<1> QED
  BY <1>1, L1InvDepends DEF L1Node, l1db, L1Inv, L1TypeOK

LEMMA ElsewhereInv == ASSUME L1Inv, ImportAccountElsewhere PROVE L1Inv'
BY L1InvDepends DEF ImportAccountElsewhere, L1Inv, L1TypeOK

\* The restart of the worker, and a rollback that raises: only the worker's
\* own state is lost.
LEMMA L1CrashInv == ASSUME L1Inv, L1Crash \/ L1RollbackRaises PROVE L1Inv'
<1> USE DEF L1Inv
<1>1. UNCHANGED l1db /\ tip' = tip /\ l1next' = StartNumber(check)
      /\ l1pc' = "idle" /\ l1batch' = {} /\ inserted' \in SUBSET Acct
  BY DEF L1Crash, L1RollbackRaises, L1Ready, L1WorkerInv, L1TypeOK
<1>2. L1TypeOK'
  BY <1>1, Typing DEF L1TypeOK, l1db, StartNumber, L1Stages
<1>3. (HistoryFollowsChain /\ StepsBack /\ HistoriesComplete)'
  BY <1>1 DEF l1db, HistoryFollowsChain, StepsBack, HistoriesComplete, Reverted,
              Synced, RowsIn, Path
<1>4. L1WorkerInv'
  BY <1>1 DEF L1WorkerInv, l1db, StartNumber
<1> QED
  BY <1>2, <1>3, <1>4

\* CleanVersions leaves a suffix of the versions.
LEMMA CleanVersionsInv == ASSUME L1Inv, CleanVersions PROVE L1Inv'
<1> USE DEF L1Inv
<1>1. PICK k \in 1 .. Len(versions) - Retention :
          versions' = SubSeq(versions, k + 1, Len(versions))
  BY DEF CleanVersions
<1>2. versions \in Seq(BlockId \cup {NoBlock}) /\ Retention \in Nat
  BY L1ConfigAssumption DEF L1TypeOK
<1>3. /\ versions' \in Seq(BlockId \cup {NoBlock})
      /\ Len(versions') = Len(versions) - k
      /\ \A i \in 1 .. Len(versions') : versions'[i] = versions[i + k]
  BY <1>1, <1>2
<1>4. UNCHANGED <<tip, check, depRow, whRow, accounts, l1worker>>
  BY DEF CleanVersions
<1>5. \A i \in 1 .. Len(versions') :
         i + k \in 1 .. Len(versions) /\ Reverted(i)' = Reverted(i + k)
  BY <1>1, <1>2, <1>3, <1>4 DEF Reverted
<1>6. (HistoryFollowsChain /\ StepsBack)'
  BY <1>3, <1>4, <1>5 DEF HistoryFollowsChain, StepsBack
<1>7. L1TypeOK'
  BY <1>3, <1>4 DEF L1TypeOK, l1worker
<1>8. (HistoriesComplete /\ L1WorkerInv)'
  BY <1>4 DEF HistoriesComplete, L1WorkerInv, Synced, RowsIn, StartNumber,
              Holding, Path, l1worker
<1> QED
  BY <1>6, <1>7, <1>8

\* The answer of the node is one block, the next one, and it builds on the
\* last synced block when there is no fork.
LEMMA L1FetchedOne ==
    ASSUME L1Inv, ~ MultiL1, L1Ready
    PROVE  \E c \in BlockId :
              /\ L1Fetched = {c} /\ Number[c] = l1next
              /\ ~ L1Forked /\ check # NoBlock => Parent[c] = check
<1>1. l1next \in Nat /\ tip \in BlockId /\ l1next <= Number[tip]
  BY DEF L1Inv, L1TypeOK, L1Ready, L1LastOfRange
<1>2. PICK c \in Path(tip) : {d \in Path(tip) : Number[d] = l1next} = {c}
  BY <1>1, BlockAt, Typing
<1>3. L1Fetched = {c}
  BY <1>1, <1>2, TopOfPath, Typing DEF L1Fetched, L1LastOfRange, Canonical
<1>4. c \in BlockId /\ Number[c] = l1next
  BY <1>1, <1>2, TopOfPath
<1> QED
  BY <1>3, <1>4 DEF L1Forked

LEMMA L1FetchInv == ASSUME L1Inv, ~ MultiL1, L1Fetch PROVE L1Inv'
<1> USE DEF L1Inv
<1>1. UNCHANGED <<tip, l1db, l1next, inserted>> /\ l1pc' = "deposits"
  BY DEF L1Fetch
<1>2. PICK c \in BlockId :
         /\ l1batch' = {c} /\ Number[c] = l1next
         /\ check # NoBlock => Parent[c] = check
  BY L1FetchedOne DEF L1Fetch
<1>3. L1TypeOK'
  BY <1>1, <1>2 DEF L1TypeOK, l1db, L1Stages
<1>4. (HistoryFollowsChain /\ StepsBack /\ HistoriesComplete)'
  BY <1>1 DEF l1db, HistoryFollowsChain, StepsBack, HistoriesComplete, Reverted,
              Synced, RowsIn, Path
<1>5. L1WorkerInv'
  BY <1>1, <1>2 DEF L1WorkerInv, l1db, StartNumber, Holding
<1> QED
  BY <1>3, <1>4, <1>5

\* The version that a rollback reverts to: the parent, or no row.
LEMMA RollbackTarget ==
    ASSUME L1Inv, versions # << >>, NEW last, last = versions[Len(versions)]
    PROVE  /\ Len(versions) \in 1 .. Len(versions)
           /\ last \in BlockId \cup {NoBlock}
           /\ check \in BlockId /\ check # NoBlock
           /\ Number[check] >= InitNumber
           /\ last = NoBlock => Number[check] = InitNumber
           /\ last # NoBlock => last = Parent[check] /\ Number[last] >= InitNumber
                                /\ Number[last] + 1 = Number[check]
<1>1. /\ versions \in Seq(BlockId \cup {NoBlock})
      /\ Len(versions) \in 1 .. Len(versions)
      /\ last \in BlockId \cup {NoBlock}
  BY DEF L1Inv, L1TypeOK
<1> QED
  BY <1>1, Typing DEF L1Inv, L1TypeOK, HistoryFollowsChain, StepsBack, Reverted

\* The rollback goes back to the parent, and takes the rows of one number.
LEMMA L1RollbackInv == ASSUME L1Inv, L1Rollback PROVE L1Inv'
<1> USE DEF L1Inv
<1> DEFINE last == versions[Len(versions)]
<1>1. /\ versions \in Seq(BlockId \cup {NoBlock}) /\ versions # << >>
      /\ Len(versions) \in 1 .. Len(versions)
      /\ last \in BlockId \cup {NoBlock}
  BY DEF L1Rollback, RollbackPossible, L1TypeOK
<1>2. /\ check \in BlockId /\ check # NoBlock
      /\ Number[check] >= InitNumber
      /\ last # NoBlock => last = Parent[check] /\ Number[last] >= InitNumber
                           /\ Number[last] + 1 = Number[check]
  BY <1>1, RollbackTarget
<1>3. /\ tip' = tip /\ check' = last
      /\ depRow' = WithoutNumber(depRow, Number[check])
      /\ whRow' = WithoutNumber(whRow, Number[check])
      /\ accounts' \in SUBSET Acct
      /\ l1next' = StartNumber(check') /\ UNCHANGED <<l1pc, l1batch, inserted>>
  BY DEF L1Rollback, L1TypeOK
<1>4. /\ versions' \in Seq(BlockId \cup {NoBlock})
      /\ Len(versions') = Len(versions) - 1
      /\ \A i \in 1 .. Len(versions') :
            /\ versions'[i] = versions[i] /\ i \in 1 .. Len(versions)
            /\ Reverted(i)' = Reverted(i)
  <2>1. versions' = SubSeq(versions, 1, Len(versions) - 1)
    BY DEF L1Rollback
  <2>2. /\ versions' \in Seq(BlockId \cup {NoBlock})
        /\ Len(versions') = Len(versions) - 1
        /\ \A i \in 1 .. Len(versions') :
              versions'[i] = versions[i] /\ i \in 1 .. Len(versions)
    <3>1. Len(versions) \in Nat /\ Len(versions) >= 1
      BY <1>1
    <3>2. Len(versions) - 1 \in 0 .. Len(versions)
      BY <3>1
    <3>3. /\ versions' \in Seq(BlockId \cup {NoBlock})
          /\ Len(versions') = Len(versions) - 1
          /\ \A i \in 1 .. Len(versions) - 1 : versions'[i] = versions[i]
      BY <1>1, <2>1, <3>2, PrefixOfSeq
    <3> QED
      BY <3>1, <3>3
  <2>3. ASSUME NEW i \in 1 .. Len(versions') PROVE Reverted(i)' = Reverted(i)
    <3>1. CASE i = Len(versions')
      BY <3>1, <1>1, <1>3, <2>2 DEF Reverted
    <3>2. CASE i # Len(versions')
      BY <3>2, <1>1, <2>2 DEF Reverted
    <3> QED
      BY <3>1, <3>2
  <2> QED
    BY <2>2, <2>3
<1>5. L1TypeOK'
  BY <1>1, <1>3, <1>4, Typing DEF L1TypeOK, WithoutNumber, StartNumber
<1>6. (HistoryFollowsChain /\ StepsBack)'
  BY <1>2, <1>3, <1>4 DEF HistoryFollowsChain, StepsBack
<1>7. HistoriesComplete'
  <2>1. CASE last = NoBlock
    BY <2>1, <1>3 DEF HistoriesComplete, Synced, RowsIn
  <2>2. CASE last # NoBlock
    <3>1. /\ last = Parent[check] /\ Number[check] # 0
      BY <2>2, <1>1, <1>2, Typing
    <3>2. Synced = SyncedTo(check) /\ Synced' = SyncedTo(Parent[check])
      BY <2>2, <3>1, <1>2, <1>3 DEF Synced, SyncedTo, Path
    <3>3. Synced' \subseteq Synced /\ \A b \in Synced' : Number[b] # Number[check]
      BY <3>1, <3>2, <1>2, SyncedBelow
    <3>4. /\ RowsIn(DepsOf, Synced') \subseteq depRow
          /\ RowsIn(WhsOf, Synced') \subseteq whRow
      BY <3>3, RowsMonotone DEF HistoriesComplete
    <3>5. /\ RowsIn(DepsOf, Synced') \subseteq depRow'
          /\ RowsIn(WhsOf, Synced') \subseteq whRow'
      BY <3>3, <3>4, <1>3, RowsSurvive
    <3> QED
      BY <3>5 DEF HistoriesComplete, RowsIn
  <2> QED
    BY <2>1, <2>2
<1>8. L1WorkerInv'
  BY <1>3 DEF L1WorkerInv, L1Rollback, L1Ready, StartNumber
<1> QED
  BY <1>5, <1>6, <1>7, <1>8

\* import_deposits adds the rows of the block in hand.
LEMMA ImportDepositsInv == ASSUME L1Inv, ImportDeposits PROVE L1Inv'
<1> USE DEF L1Inv
<1>1. /\ UNCHANGED <<tip, check, versions, whRow, accounts, l1next, l1batch>>
      /\ l1pc = "deposits" /\ l1pc' = "accounts"
      /\ depRow' = depRow \cup RowsIn(DepsOf, l1batch)
      /\ inserted' \subseteq {Owner[r[1]] : r \in RowsIn(DepsOf, l1batch)}
  BY DEF ImportDeposits
<1>2. RowsIn(DepsOf, l1batch) \subseteq Dep \X Nat
  BY RowsTyped DEF L1TypeOK
<1>3. L1TypeOK'
  BY <1>1, <1>2, L1ContentAssumption DEF L1TypeOK, L1Stages
<1>4. (HistoryFollowsChain /\ StepsBack /\ HistoriesComplete)'
  BY <1>1 DEF HistoryFollowsChain, StepsBack, HistoriesComplete, Reverted,
              Synced, RowsIn, Path
<1>5. L1WorkerInv'
  BY <1>1 DEF L1WorkerInv, StartNumber, Holding, RowsIn
<1> QED
  BY <1>3, <1>4, <1>5

LEMMA ImportEoaAccountsInv == ASSUME L1Inv, ImportEoaAccounts PROVE L1Inv'
<1> USE DEF L1Inv
<1>1. /\ UNCHANGED <<tip, check, versions, depRow, whRow, l1next, l1batch>>
      /\ l1pc = "accounts" /\ l1pc' = "withdrawals"
      /\ accounts' \in SUBSET Acct /\ inserted' = {}
  BY DEF ImportEoaAccounts, L1TypeOK
<1>2. L1TypeOK'
  BY <1>1 DEF L1TypeOK, L1Stages
<1>3. (HistoryFollowsChain /\ StepsBack /\ HistoriesComplete)'
  BY <1>1 DEF HistoryFollowsChain, StepsBack, HistoriesComplete, Reverted,
              Synced, RowsIn, Path
<1>4. L1WorkerInv'
  BY <1>1 DEF L1WorkerInv, StartNumber, Holding, RowsIn
<1> QED
  BY <1>2, <1>3, <1>4

LEMMA ImportWithdrawalsInv == ASSUME L1Inv, ImportWithdrawals PROVE L1Inv'
<1> USE DEF L1Inv
<1>1. /\ UNCHANGED <<tip, check, versions, depRow, accounts, l1next, l1batch, inserted>>
      /\ l1pc = "withdrawals" /\ l1pc' = "checkinfo"
      /\ whRow' = whRow \cup RowsIn(WhsOf, l1batch)
  BY DEF ImportWithdrawals
<1>2. RowsIn(WhsOf, l1batch) \subseteq Wh \X Nat
  BY RowsTyped DEF L1TypeOK
<1>3. L1TypeOK'
  BY <1>1, <1>2 DEF L1TypeOK, L1Stages
<1>4. (HistoryFollowsChain /\ StepsBack /\ HistoriesComplete)'
  BY <1>1 DEF HistoryFollowsChain, StepsBack, HistoriesComplete, Reverted,
              Synced, RowsIn, Path
<1>5. L1WorkerInv'
  BY <1>1 DEF L1WorkerInv, StartNumber, Holding, RowsIn
<1> QED
  BY <1>3, <1>4, <1>5

\* The block in hand builds on the last synced one.
LEMMA HeldIsNext ==
    ASSUME L1Inv, NEW c \in BlockId, Holding(c)
    PROVE  /\ Heads(l1batch) = {c}
           /\ check = NoBlock => Number[c] = InitNumber
           /\ check # NoBlock => /\ check \in BlockId /\ Number[c] = Number[check] + 1
                                 /\ Number[check] >= InitNumber /\ Number[c] # 0
           /\ Number[c] >= InitNumber
BY Typing DEF Holding, Heads, HighestOf, L1Inv, L1WorkerInv, StartNumber, L1TypeOK, StepsBack

\* The block in hand becomes the last synced one, and the one before it the
\* newest version.
LEMMA UpdateCheckInfoInv == ASSUME L1Inv, UpdateCheckInfo PROVE L1Inv'
<1> USE DEF L1Inv
<1>1. PICK c \in BlockId : Holding(c)
  BY DEF UpdateCheckInfo, L1WorkerInv
<1>2. Heads(l1batch) = {c}
  BY <1>1, HeldIsNext
<1>3. /\ UNCHANGED <<tip, depRow, whRow, accounts, inserted>>
      /\ check' = c /\ versions' = Append(versions, check)
      /\ l1next' = Number[c] + 1 /\ l1pc' = "idle" /\ l1batch' = {}
  BY <1>2 DEF UpdateCheckInfo
<1>4. /\ Number[c] = StartNumber(check)
      /\ check # NoBlock => Parent[c] = check
      /\ RowsIn(DepsOf, {c}) \subseteq depRow /\ RowsIn(WhsOf, {c}) \subseteq whRow
  BY <1>1 DEF Holding, L1WorkerInv, UpdateCheckInfo
<1>5. /\ check = NoBlock => Number[c] = InitNumber
      /\ check # NoBlock => /\ check \in BlockId /\ Number[c] = Number[check] + 1
                            /\ Number[check] >= InitNumber /\ Number[c] # 0
      /\ Number[c] >= InitNumber
  BY <1>1, HeldIsNext
<1>6. L1TypeOK'
  BY <1>3, Typing DEF L1TypeOK, L1Stages
<1>7. (HistoryFollowsChain /\ StepsBack)'
  <2>1. versions \in Seq(BlockId \cup {NoBlock}) /\ check \in BlockId \cup {NoBlock}
    BY DEF L1TypeOK
  <2>2. /\ Len(versions') = Len(versions) + 1 /\ versions'[Len(versions')] = check
        /\ \A i \in 1 .. Len(versions) : versions'[i] = versions[i]
    BY <1>3, <2>1
  <2>3. ASSUME NEW i \in 1 .. Len(versions') PROVE
          \/ i = Len(versions') /\ Reverted(i)' = c
          \/ i \in 1 .. Len(versions) /\ Reverted(i)' = Reverted(i)
    BY <1>3, <2>1, <2>2 DEF Reverted
  <2> QED
    BY <1>3, <1>4, <1>5, <2>1, <2>2, <2>3, Typing DEF HistoryFollowsChain, StepsBack
<1>8. HistoriesComplete'
  <2>1. Synced' \subseteq Synced \cup {c}
    <3>1. c # NoBlock /\ Synced' = SyncedTo(c)
      BY <1>3, Typing DEF Synced, SyncedTo, Path
    <3>2. CASE check = NoBlock
      BY <3>1, <3>2, <1>5, SyncedFirst
    <3>3. CASE check # NoBlock
      BY <3>1, <3>3, <1>4, <1>5, SyncedGrows DEF Synced, SyncedTo
    <3> QED
      BY <3>2, <3>3
  <2>2. /\ RowsIn(DepsOf, Synced \cup {c}) \subseteq depRow
        /\ RowsIn(WhsOf, Synced \cup {c}) \subseteq whRow
    BY <1>4, RowsUnion DEF HistoriesComplete
  <2>3. /\ RowsIn(DepsOf, Synced') \subseteq depRow
        /\ RowsIn(WhsOf, Synced') \subseteq whRow
    BY <2>1, <2>2, RowsMonotone
  <2> QED
    BY <1>3, <2>3 DEF HistoriesComplete, RowsIn
<1>9. L1WorkerInv'
  BY <1>3, Typing DEF L1WorkerInv, StartNumber
<1> QED
  BY <1>6, <1>7, <1>8, <1>9

-----------------------------------------------------------------------------
(* The theorems *)

LEMMA L1StepInv == ASSUME L1Inv, ~ MultiL1, [L1Next]_l1vars PROVE L1Inv'
<1>1. CASE L1Fetch
  BY <1>1, L1FetchInv
<1>2. CASE L1Rollback
  BY <1>2, L1RollbackInv
<1>3. CASE L1RollbackRaises \/ L1Crash
  BY <1>3, L1CrashInv
<1>4. CASE ImportDeposits
  BY <1>4, ImportDepositsInv
<1>5. CASE ImportEoaAccounts
  BY <1>5, ImportEoaAccountsInv
<1>6. CASE ImportWithdrawals
  BY <1>6, ImportWithdrawalsInv
<1>7. CASE UpdateCheckInfo
  BY <1>7, UpdateCheckInfoInv
<1>8. CASE CleanVersions
  BY <1>8, CleanVersionsInv
<1>9. CASE ImportAccountElsewhere
  BY <1>9, ElsewhereInv
<1>10. CASE L1Node
  BY <1>10, L1NodeInv
<1>11. CASE L1Wait \/ UNCHANGED l1vars
  BY <1>11, L1InvDepends DEF L1Wait, l1vars, l1db, L1Inv, L1TypeOK
<1> QED
  BY <1>1, <1>2, <1>3, <1>4, <1>5, <1>6, <1>7, <1>8, <1>9, <1>10, <1>11
     DEF L1Next, L1Work

\* The strengthened invariant holds always, in single-block mode.
THEOREM L1Invariance == ASSUME ~ MultiL1 PROVE L1Spec => []L1Inv
<1>1. L1Init => L1Inv
  BY L1InitInv
<1>2. L1Inv /\ [L1Next]_l1vars => L1Inv'
  BY L1StepInv
<1> QED
  BY <1>1, <1>2, PTL DEF L1Spec

\* check_infos: each version goes back to the parent of the block it left,
\* whatever rollbacks, deaths and purges of versions came before.
THEOREM HistoryFollowsChainAlways ==
    ASSUME ~ MultiL1 PROVE L1Spec => []HistoryFollowsChain
<1>1. L1Inv => HistoryFollowsChain
  BY DEF L1Inv
<1> QED
  BY <1>1, L1Invariance, PTL

\* No deposit and no withdrawal of a synced layer 1 block is missed.
THEOREM HistoriesCompleteAlways ==
    ASSUME ~ MultiL1 PROVE L1Spec => []HistoriesComplete
<1>1. L1Inv => HistoriesComplete
  BY DEF L1Inv
<1> QED
  BY <1>1, L1Invariance, PTL

-----------------------------------------------------------------------------
(* Without deaths inside an import *)

\* Deleting the rows of number n leaves at most those of the other blocks.
LEMMA RowsLeave ==
    ASSUME NEW content, NEW S, NEW n, NEW table, NEW T,
           table \subseteq RowsIn(content, S),
           \A b \in S : Number[b] # n => b \in T
    PROVE  WithoutNumber(table, n) \subseteq RowsIn(content, T)
BY DEF RowsIn, WithoutNumber

\* The rows that some blocks explain, more blocks explain as well.
LEMMA StillExact ==
    ASSUME HistoriesExact, Synced \cup l1batch \subseteq (Synced \cup l1batch)',
           depRow' \subseteq depRow \cup RowsIn(DepsOf, l1batch'),
           whRow' \subseteq whRow \cup RowsIn(WhsOf, l1batch')
    PROVE  HistoriesExact'
BY DEF HistoriesExact, RowsIn

LEMMA ExactStep ==
    ASSUME L1Inv, ~ MultiL1, ~ Dies, HistoriesExact, [L1Next]_l1vars
    PROVE  HistoriesExact'
<1> USE DEF L1Inv
<1>1. ASSUME UNCHANGED <<check, depRow, whRow, l1batch>> PROVE HistoriesExact'
  BY <1>1 DEF HistoriesExact, Synced, RowsIn, Path
<1>2. CASE L1Fetch
  <2>1. l1batch = {} /\ UNCHANGED <<check, depRow, whRow>>
    BY <1>2 DEF L1Fetch, L1Ready, L1WorkerInv, l1db
  <2> QED BY <2>1, StillExact DEF Synced, Path
<1>3. CASE L1Rollback
  <2> DEFINE last == versions[Len(versions)]
  <2>1. /\ check' = last /\ versions # << >> /\ l1batch = {} /\ l1batch' = {}
        /\ depRow' = WithoutNumber(depRow, Number[check])
        /\ whRow' = WithoutNumber(whRow, Number[check])
    BY <1>3 DEF L1Rollback, L1Ready, RollbackPossible, L1WorkerInv
  <2>2. /\ check \in BlockId /\ check # NoBlock /\ last \in BlockId \cup {NoBlock}
        /\ last = NoBlock => Number[check] = InitNumber
        /\ last # NoBlock => last = Parent[check] /\ Number[last] + 1 = Number[check]
    BY <2>1, RollbackTarget
  <2>3. \A b \in Synced : Number[b] # Number[check] => b \in Synced'
    <3>1. Synced = SyncedTo(check)
      BY <2>2 DEF Synced, SyncedTo
    <3>2. CASE last = NoBlock
      BY <2>2, <3>1, <3>2, SyncedFirst
    <3>3. CASE last # NoBlock
      <4>1. Number[check] # 0
        BY <2>2, <3>3, Typing
      <4>2. Synced \subseteq SyncedTo(Parent[check]) \cup {check}
        BY <2>2, <3>1, <4>1, SyncedGrows
      <4>3. Synced' = SyncedTo(Parent[check])
        BY <2>1, <2>2, <3>3 DEF Synced, SyncedTo, Path
      <4> QED BY <4>2, <4>3
    <3> QED BY <3>2, <3>3
  <2>4. depRow \subseteq RowsIn(DepsOf, Synced) /\ whRow \subseteq RowsIn(WhsOf, Synced)
    BY <2>1 DEF HistoriesExact
  <2>5. depRow' \subseteq RowsIn(DepsOf, Synced') /\ whRow' \subseteq RowsIn(WhsOf, Synced')
    BY <2>1, <2>3, <2>4, RowsLeave
  <2> QED BY <2>1, <2>5 DEF HistoriesExact, RowsIn
<1>4. CASE ImportDeposits
  BY <1>4, StillExact DEF ImportDeposits, Synced, RowsIn, Path
<1>5. CASE ImportWithdrawals
  BY <1>5, StillExact DEF ImportWithdrawals, Synced, RowsIn, Path
<1>6. CASE UpdateCheckInfo
  <2>1. PICK c \in BlockId : Holding(c)
    BY <1>6 DEF UpdateCheckInfo, L1WorkerInv
  <2>2. /\ check' = c /\ l1batch = {c} /\ l1batch' = {}
        /\ check # NoBlock => check = Parent[c] /\ Number[c] # 0
        /\ Number[c] >= InitNumber /\ depRow' = depRow /\ whRow' = whRow
    BY <1>6, <2>1, HeldIsNext DEF Holding, UpdateCheckInfo
  <2>3. Synced' = SyncedTo(c)
    BY <2>2, Typing DEF Synced, SyncedTo, Path
  <2>4. c \in SyncedTo(c)
    BY <2>2, TopOfPath DEF SyncedTo
  <2>5. Synced \subseteq SyncedTo(c)
    <3>1. CASE check = NoBlock
      BY <3>1 DEF Synced
    <3>2. CASE check # NoBlock
      BY <2>2, <3>2, SyncedBelow DEF Synced, SyncedTo
    <3> QED BY <3>1, <3>2
  <2> QED BY <2>2, <2>3, <2>4, <2>5, StillExact
<1>7. CASE L1Crash
  <2>1. l1batch = {} /\ l1batch' = {}
    BY <1>7 DEF L1Crash, L1WorkerInv
  <2> QED BY <1>1, <1>7, <2>1 DEF L1Crash, l1db
<1> QED
  BY <1>1, <1>2, <1>3, <1>4, <1>5, <1>6, <1>7
     DEF L1Next, L1Work, L1Wait, L1RollbackRaises, ImportEoaAccounts, CleanVersions,
         ImportAccountElsewhere, L1Node, l1vars, l1db, l1worker

\* Whoever has a deposit has an account, or gets one by the next statement.
OwnersKnown ==
    \A r \in depRow :
        \/ Owner[r[1]] \in accounts
        \/ l1pc = "accounts" /\ Owner[r[1]] \in inserted

LEMMA OwnersStep ==
    ASSUME L1Inv, ~ MultiL1, ~ Dies, OwnersKnown, [L1Next]_l1vars
    PROVE  OwnersKnown'
<1> USE DEF OwnersKnown
<1>1. ASSUME depRow' = depRow, accounts \subseteq accounts',
             l1pc # "accounts" \/ UNCHANGED <<l1pc, inserted>>
      PROVE  OwnersKnown'
  BY <1>1
<1>2. CASE L1Rollback
  <2>1. /\ depRow' = WithoutNumber(depRow, Number[check]) /\ l1pc = "idle"
        /\ accounts' = accounts \ AccountsLosing(Number[check])
    BY <1>2 DEF L1Rollback, L1Ready
  <2> QED BY <2>1 DEF WithoutNumber, AccountsLosing
<1>3. CASE ImportDeposits
  BY <1>3 DEF ImportDeposits
<1>4. CASE ImportEoaAccounts
  BY <1>4 DEF ImportEoaAccounts
<1> QED
  BY <1>1, <1>2, <1>3, <1>4
     DEF L1Next, L1Work, L1Wait, L1RollbackRaises, L1Crash, L1Fetch, L1Ready,
         ImportWithdrawals, UpdateCheckInfo, CleanVersions,
         ImportAccountElsewhere, L1Node, l1vars, l1db, l1worker

\* When the worker does not die inside an import, the histories have the
\* deposits and withdrawals of the synced blocks and no others.
THEOREM HistoriesExactAlways ==
    ASSUME ~ MultiL1, ~ Dies PROVE L1Spec => []HistoriesExact
<1>1. L1Init => HistoriesExact
  BY DEF L1Init, HistoriesExact, RowsIn
<1>2. L1Inv /\ HistoriesExact /\ [L1Next]_l1vars => HistoriesExact'
  BY ExactStep
<1> QED
  BY <1>1, <1>2, L1Invariance, PTL DEF L1Spec

\* Then every depositor whose import is over has an account, so that no
\* rollback raises on a missing one.
THEOREM DepositorsHaveAccountsAlways ==
    ASSUME ~ MultiL1, ~ Dies PROVE L1Spec => []DepositorsHaveAccounts
<1>1. L1Init => OwnersKnown
  BY DEF L1Init, OwnersKnown
<1>2. L1Inv /\ OwnersKnown /\ [L1Next]_l1vars => OwnersKnown'
  BY OwnersStep
<1>3. OwnersKnown => DepositorsHaveAccounts
  BY DEF OwnersKnown, DepositorsHaveAccounts
<1> QED
  BY <1>1, <1>2, <1>3, L1Invariance, PTL DEF L1Spec

-----------------------------------------------------------------------------
(* Several blocks at once *)

\* What of the batch is written.
BatchRows ==
    l1pc # "idle" =>
        /\ \A n \in l1next .. L1LastOfRange : \E b \in l1batch : Number[b] = n
        /\ \A b \in l1batch : Number[b] \in l1next .. L1LastOfRange
        /\ l1pc # "deposits" => RowsIn(DepsOf, l1batch) \subseteq depRow
        /\ l1pc = "checkinfo" => RowsIn(WhsOf, l1batch) \subseteq whRow

BatchInv ==
    L1TypeOK /\ NumbersCovered /\ l1next = StartNumber(check) /\ BatchRows

\* The numbers covered stay covered while rows are only added.
LEMMA StillCovered ==
    ASSUME NumbersCovered, check' = check,
           depRow \subseteq depRow', whRow \subseteq whRow'
    PROVE  NumbersCovered'
BY DEF NumbersCovered, RowsIn

LEMMA BatchStep ==
    ASSUME MultiL1, BatchInv, [L1Next]_l1vars
    PROVE  BatchInv'
<1> USE DEF BatchInv
<1>1. ASSUME UNCHANGED <<check, depRow, whRow, l1pc, l1next, l1batch>>, L1TypeOK'
      PROVE  BatchInv'
  BY <1>1 DEF NumbersCovered, StartNumber, BatchRows, L1LastOfRange, RowsIn
<1>2. ~ L1Forked
  BY DEF L1Forked
<1>3. CASE L1Fetch
  <2>1. /\ l1batch' = L1Fetched /\ l1pc' = "deposits" /\ L1LastOfRange <= Number[tip]
        /\ UNCHANGED <<tip, l1db, l1next, inserted>>
    BY <1>3 DEF L1Fetch, L1Ready
  <2>2. /\ l1next \in Nat /\ tip \in BlockId /\ L1LastOfRange \in Nat
        /\ Number \in [BlockId -> Nat] /\ Path(tip) \in SUBSET BlockId
    BY Typing, TopOfPath, L1ConfigAssumption DEF L1TypeOK, L1LastOfRange
  <2>3. \A n \in l1next .. L1LastOfRange : \E b \in L1Fetched : Number[b] = n
    <3>1. ASSUME NEW n \in l1next .. L1LastOfRange
          PROVE  \E b \in L1Fetched : Number[b] = n
      <4>1. n \in 0 .. Number[tip]
        BY <2>1, <2>2
      <4>2. PICK b \in Path(tip) : Number[b] = n
        BY <2>2, <4>1, TreeAssumption DEF Path
      <4> QED BY <4>2 DEF L1Fetched, Canonical
    <3> QED BY <3>1
  <2>4. L1Fetched \in SUBSET BlockId /\ \A b \in L1Fetched : Number[b] \in l1next .. L1LastOfRange
    BY <2>2 DEF L1Fetched, Canonical
  <2>5. L1TypeOK'
    BY <2>1, <2>4 DEF L1TypeOK, L1Stages, l1db
  <2>6. NumbersCovered'
    BY <2>1, StillCovered DEF l1db
  <2>7. BatchRows' /\ (l1next = StartNumber(check))'
    BY <2>1, <2>3, <2>4 DEF BatchRows, L1LastOfRange, StartNumber, l1db
  <2> QED BY <2>5, <2>6, <2>7
<1>4. CASE ImportDeposits
  <2>1. /\ UNCHANGED <<tip, check, versions, whRow, accounts, l1next, l1batch>>
        /\ l1pc = "deposits" /\ l1pc' = "accounts"
        /\ depRow' = depRow \cup RowsIn(DepsOf, l1batch)
        /\ inserted' \subseteq {Owner[r[1]] : r \in RowsIn(DepsOf, l1batch)}
    BY <1>4 DEF ImportDeposits
  <2>2. RowsIn(DepsOf, l1batch) \subseteq Dep \X Nat
    BY RowsTyped DEF L1TypeOK
  <2>3. L1TypeOK'
    BY <2>1, <2>2, L1ContentAssumption DEF L1TypeOK, L1Stages
  <2>4. NumbersCovered'
    BY <2>1, StillCovered
  <2> QED BY <2>1, <2>3, <2>4 DEF BatchRows, L1LastOfRange, StartNumber, RowsIn
<1>5. CASE ImportEoaAccounts
  <2>1. /\ UNCHANGED <<tip, check, versions, depRow, whRow, l1next, l1batch>>
        /\ l1pc = "accounts" /\ l1pc' = "withdrawals" /\ L1TypeOK'
    BY <1>5 DEF ImportEoaAccounts, L1TypeOK, L1Stages
  <2>2. NumbersCovered'
    BY <2>1, StillCovered
  <2> QED BY <2>1, <2>2 DEF BatchRows, L1LastOfRange, StartNumber, RowsIn
<1>6. CASE ImportWithdrawals
  <2>1. /\ UNCHANGED <<tip, check, versions, depRow, accounts, l1next, l1batch, inserted>>
        /\ l1pc = "withdrawals" /\ l1pc' = "checkinfo"
        /\ whRow' = whRow \cup RowsIn(WhsOf, l1batch)
    BY <1>6 DEF ImportWithdrawals
  <2>2. RowsIn(WhsOf, l1batch) \subseteq Wh \X Nat
    BY RowsTyped DEF L1TypeOK
  <2>3. L1TypeOK'
    BY <2>1, <2>2 DEF L1TypeOK, L1Stages
  <2>4. NumbersCovered'
    BY <2>1, StillCovered
  <2> QED BY <2>1, <2>3, <2>4 DEF BatchRows, L1LastOfRange, StartNumber, RowsIn
<1>7. CASE UpdateCheckInfo
  <2>1. PICK top \in Heads(l1batch) :
        /\ UNCHANGED <<tip, depRow, whRow, accounts, inserted>>
        /\ check' = top /\ versions' = Append(versions, check)
        /\ l1next' = Number[top] + 1 /\ l1pc' = "idle" /\ l1batch' = {}
        /\ l1pc = "checkinfo"
    BY <1>7 DEF UpdateCheckInfo
  <2>2. /\ l1next \in Nat /\ l1batch \in SUBSET BlockId /\ L1LastOfRange \in Nat
        /\ l1next <= L1LastOfRange /\ Number \in [BlockId -> Nat]
    BY Typing, L1ConfigAssumption DEF L1TypeOK, L1LastOfRange
  <2>3. top \in l1batch
    <3>1. PICK b \in l1batch : Number[b] = L1LastOfRange
      BY <2>1, <2>2 DEF BatchRows
    <3>2. \A d \in l1batch : Number[d] <= Number[b]
      BY <2>1, <2>2, <3>1 DEF BatchRows
    <3>3. HighestOf(l1batch) \in l1batch
      BY <3>1, <3>2 DEF HighestOf
    <3> QED BY <2>1, <3>3 DEF Heads
  <2>4. top \in BlockId /\ top # NoBlock /\ Number[top] \in l1next .. L1LastOfRange
    BY <2>1, <2>2, <2>3, Typing DEF BatchRows
  <2>5. L1TypeOK'
    BY <2>1, <2>2, <2>4 DEF L1TypeOK, L1Stages
  <2>6. ASSUME NEW n \in InitNumber .. Number[top]
        PROVE  \E b \in BlockId :
                  /\ Number[b] = n
                  /\ RowsIn(DepsOf, {b}) \subseteq depRow
                  /\ RowsIn(WhsOf, {b}) \subseteq whRow
    <3>1. CASE n < l1next
      <4>1. check # NoBlock /\ n \in InitNumber .. Number[check]
        BY <2>2, <2>4, <3>1, Typing DEF StartNumber, L1TypeOK
      <4> QED BY <4>1 DEF NumbersCovered
    <3>2. CASE l1next <= n
      <4>1. n \in l1next .. L1LastOfRange
        BY <2>2, <2>4, <3>2, Typing
      <4>2. PICK b \in l1batch : Number[b] = n
        BY <2>1, <4>1 DEF BatchRows
      <4>3. RowsIn(DepsOf, l1batch) \subseteq depRow /\ RowsIn(WhsOf, l1batch) \subseteq whRow
        BY <2>1 DEF BatchRows
      <4>4. /\ RowsIn(DepsOf, {b}) \subseteq RowsIn(DepsOf, l1batch)
            /\ RowsIn(WhsOf, {b}) \subseteq RowsIn(WhsOf, l1batch)
        BY RowsMonotone
      <4> QED BY <2>2, <4>2, <4>3, <4>4
    <3>3. n < l1next \/ l1next <= n
      <4>1. n \in Int /\ l1next \in Int
        BY <2>2
      <4> QED BY <4>1
    <3> QED BY <3>1, <3>2, <3>3
  <2>7. NumbersCovered'
    BY <2>1, <2>6 DEF NumbersCovered, RowsIn
  <2>8. (l1next = StartNumber(check))' /\ BatchRows'
    BY <2>1, <2>4 DEF StartNumber, BatchRows
  <2> QED BY <2>5, <2>7, <2>8
<1>8. CASE L1Crash
  <2>1. /\ UNCHANGED l1db /\ tip' = tip /\ l1next' = StartNumber(check)
        /\ l1pc' = "idle" /\ l1batch' = {} /\ inserted' = {}
    BY <1>8 DEF L1Crash
  <2>2. L1TypeOK'
    BY <2>1, Typing DEF L1TypeOK, l1db, StartNumber, L1Stages
  <2>3. NumbersCovered'
    BY <2>1, StillCovered DEF l1db
  <2> QED BY <2>1, <2>2, <2>3 DEF BatchRows, StartNumber, l1db
<1>9. CASE CleanVersions
  <2>1. L1TypeOK'
    BY <1>9, L1ConfigAssumption DEF CleanVersions, L1TypeOK, l1worker
  <2> QED BY <1>1, <1>9, <2>1 DEF CleanVersions, l1worker
<1>10. CASE ImportAccountElsewhere
  BY <1>1, <1>10 DEF ImportAccountElsewhere, L1TypeOK, l1worker
<1>11. CASE L1Node
  <2>1. tip' \in BlockId
    BY <1>11, TreeAssumption DEF L1Node, NodeStep, NodeGrow, NodeRevert, L1TypeOK
  <2> QED BY <1>1, <1>11, <2>1 DEF L1Node, l1db, l1worker, L1TypeOK
<1>12. CASE L1Wait \/ UNCHANGED l1vars
  BY <1>1, <1>12 DEF L1Wait, l1vars, l1db, l1worker, L1TypeOK
<1> QED
  BY <1>2, <1>3, <1>4, <1>5, <1>6, <1>7, <1>8, <1>9, <1>10, <1>11, <1>12
     DEF L1Next, L1Work, L1Rollback, L1RollbackRaises

LEMMA BatchInvariance == ASSUME MultiL1 PROVE L1Spec => []BatchInv
<1>1. L1Init => BatchInv
  BY Typing DEF L1Init, NodeInit, BatchInv, L1TypeOK, L1Stages, NumbersCovered,
                BatchRows, StartNumber
<1>2. BatchInv /\ [L1Next]_l1vars => BatchInv'
  BY BatchStep
<1> QED
  BY <1>1, <1>2, PTL DEF L1Spec

\* The rows and the worker of SyncL1BlockWorker keep their types in either
\* mode: a reverted version is a block or no row, and the next number is never
\* negative.
THEOREM L1TypeCorrect == L1Spec => []L1TypeOK
<1>1. CASE MultiL1
  <2>1. BatchInv => L1TypeOK
    BY DEF BatchInv
  <2> QED BY <1>1, <2>1, BatchInvariance, PTL
<1>2. CASE ~ MultiL1
  <2>1. L1Inv => L1TypeOK
    BY DEF L1Inv
  <2> QED BY <1>2, <2>1, L1Invariance, PTL
<1> QED
  BY <1>1, <1>2

\* No block number up to the last synced one is left out, in either mode.
THEOREM NumbersCoveredAlways == L1Spec => []NumbersCovered
<1>1. CASE MultiL1
  <2>1. BatchInv => NumbersCovered
    BY DEF BatchInv
  <2> QED BY <1>1, <2>1, BatchInvariance, PTL
<1>2. CASE ~ MultiL1
  <2>1. ASSUME L1Inv PROVE NumbersCovered
    <3>1. SUFFICES ASSUME check # NoBlock, NEW n \in InitNumber .. Number[check]
                   PROVE  \E b \in Synced : Number[b] = n
      <4>1. RowsIn(DepsOf, Synced) \subseteq depRow /\ RowsIn(WhsOf, Synced) \subseteq whRow
        BY <2>1 DEF L1Inv, HistoriesComplete
      <4>2. \A b \in Synced : b \in BlockId /\ RowsIn(DepsOf, {b}) \subseteq depRow
                                         /\ RowsIn(WhsOf, {b}) \subseteq whRow
        BY <2>1, <4>1, RowsMonotone, TopOfPath DEF L1Inv, L1TypeOK, Synced
      <4> QED BY <3>1, <4>2 DEF NumbersCovered
    <3>2. check \in BlockId /\ n \in 0 .. Number[check] /\ n >= InitNumber
      BY <2>1, <3>1, Typing DEF L1Inv, L1TypeOK
    <3>3. PICK b \in Path(check) : Number[b] = n
      BY <3>2, TreeAssumption DEF Path
    <3> QED BY <3>1, <3>2, <3>3 DEF Synced
  <2> QED BY <1>2, <2>1, L1Invariance, PTL
<1> QED
  BY <1>1, <1>2

-----------------------------------------------------------------------------
(* Bounded reorganisations *)

\* The tip stays near what is settled.
TipNear ==
    /\ settled \in Path(tip)
    /\ Number[tip] <= Number[settled] + MaxReorg

\* Block c is settled, or above a settled block by less than the worker's
\* buffer leaves of a reorganisation.
NearSettled(c) ==
    \E f \in Path(settled) \cap Path(c) :
        f = c \/ Number[c] + Buffer <= Number[f] + MaxReorg

\* The versions are the blocks below the last synced one, number by number.
VersionsBelow ==
    \A i \in 1 .. Len(versions) : versions[i] # NoBlock =>
        /\ versions[i] \in Path(check)
        /\ Number[versions[i]] + (Len(versions) + 1 - i) = Number[check]

\* Where the rollbacks that the versions allow end.
Base == IF versions = << >> THEN check ELSE versions[1]

SettledInv ==
    /\ settled \in BlockId /\ TipNear
    /\ check # NoBlock => NearSettled(check)
    /\ \A c \in l1batch : NearSettled(c)
    /\ VersionsBelow
    /\ Base # NoBlock => Base \in Path(settled)

LEMMA ReorgIs == MaxReorg \in Nat /\ Retention \in Nat /\ Buffer \in Nat
BY ReorgAssumption, L1ConfigAssumption

LEMMA SettledStep ==
    ASSUME L1TypeOK, settled \in BlockId, TipNear, SettledGrow \/ SettledRevert
    PROVE  tip' \in BlockId /\ settled' \in BlockId /\ TipNear' /\ settled \in Path(settled')
<1> USE DEF L1TypeOK, TipNear
<1>1. CASE SettledGrow
  <2>1. /\ tip' \in BlockId \ {Genesis} /\ Parent[tip'] = tip
        /\ settled' = IF Number[SettledBelow(tip')] > Number[settled]
                      THEN SettledBelow(tip') ELSE settled
    BY <1>1 DEF SettledGrow, NodeGrow
  <2> DEFINE c == SettledBelow(tip')
  <2>2. c = CHOOSE a \in Path(tip') : Number[a] =
               IF Number[tip'] > MaxReorg THEN Number[tip'] - MaxReorg ELSE 0
    BY DEF SettledBelow
  <2>3. settled' = IF Number[c] > Number[settled] THEN c ELSE settled
    BY <2>1
  <2> HIDE DEF c
  <2>4. c \in Path(tip') /\ Number[tip'] <= Number[c] + MaxReorg
    BY <2>1, <2>2, BlockBelow, ReorgIs
  <2>5. /\ settled' \in Path(tip') /\ Number[tip'] <= Number[settled'] + MaxReorg
        /\ settled \in Path(settled')
    BY <2>1, <2>3, <2>4, HigherSettled, ReorgIs
  <2>6. settled' \in BlockId
    BY <2>1, <2>5, PathsContain
  <2> QED BY <2>1, <2>5, <2>6 DEF Path
<1>2. CASE SettledRevert
  <2>1. tip' \in Anc[tip] /\ settled \in Path(tip') /\ settled' = settled
    BY <1>2 DEF SettledRevert, NodeRevert
  <2>2. tip' \in BlockId /\ Number[tip'] < Number[tip] /\ Number[tip'] \in Nat
        /\ Number[tip] \in Nat /\ Number[settled] \in Nat
    BY <2>1, TreeAssumption
  <2> QED BY <2>1, <2>2, ReorgIs, TopOfPath DEF Path
<1> QED BY <1>1, <1>2

\* What the worker fetches is old enough.
LEMMA FetchedIsNear ==
    ASSUME L1TypeOK, settled \in BlockId, TipNear, ~ MultiL1, L1Ready,
           NEW c \in L1Fetched
    PROVE  NearSettled(c)
<1>1. /\ c \in Path(tip) /\ Number[c] = l1next /\ l1next + Buffer <= Number[tip]
      /\ l1next \in Nat
  BY DEF L1Fetched, L1Ready, L1LastOfRange, Canonical, L1TypeOK
<1>2. c \in BlockId /\ Number[tip] \in Nat /\ Number[settled] \in Nat
  BY <1>1, PathsContain, Typing DEF L1TypeOK
<1>3. CASE c \in Path(settled)
  BY <1>2, <1>3, TopOfPath DEF NearSettled
<1>4. CASE settled \in Path(c)
  <2>1. Number[c] + Buffer <= Number[settled] + MaxReorg
    BY <1>1, <1>2, ReorgIs DEF TipNear
  <2> QED BY <1>4, <2>1, TopOfPath DEF NearSettled
<1> QED BY <1>1, <1>3, <1>4, OnOrAbove DEF L1TypeOK, TipNear

\* The worker rolls back lost blocks only.
LEMMA RolledBackIsLost ==
    ASSUME L1Inv, ~ MultiL1, L1Ready, L1Forked
    PROVE  check \in BlockId /\ check # NoBlock /\ check \notin Path(tip)
<1>1. check \in BlockId /\ check # NoBlock /\ l1next = Number[check] + 1
  BY DEF L1Forked, L1Inv, L1TypeOK, L1WorkerInv, StartNumber
<1>2. PICK b \in Path(tip) : Number[b] = l1next /\ Parent[b] # check
  BY DEF L1Forked, L1Fetched, L1LastOfRange, Canonical, L1Inv, L1TypeOK
<1> QED BY <1>1, <1>2, ForkIsLost DEF L1Inv, L1TypeOK

LEMMA SettledOnTip ==
    ASSUME L1TypeOK, TipNear
    PROVE  Path(settled) \subseteq Path(tip)
BY PathsContain DEF L1TypeOK, TipNear

\* A version is left to revert: the rollbacks end in a settled block, which
\* is never lost.
VersionLeft == L1Ready /\ L1Forked => versions # << >>

LEMMA BaseIsNotLost ==
    ASSUME L1Inv, ~ MultiL1, SettledInv
    PROVE  VersionLeft
<1> SUFFICES ASSUME L1Ready, L1Forked, versions = << >> PROVE FALSE
  BY DEF VersionLeft
<1>1. check # NoBlock /\ check \notin Path(tip)
  BY RolledBackIsLost
<1> QED BY <1>1, SettledOnTip DEF SettledInv, Base, L1Inv

LEMMA VersionsTyped ==
    ASSUME L1Inv
    PROVE  /\ versions \in Seq(BlockId \cup {NoBlock}) /\ Len(versions) \in Nat
           /\ versions # << >> => check \in BlockId /\ check # NoBlock
           /\ \A i \in 1 .. Len(versions) : i # 1 => versions[i] # NoBlock
<1>1. versions \in Seq(BlockId \cup {NoBlock}) /\ Len(versions) \in Nat
  BY DEF L1Inv, L1TypeOK
<1>2. versions # << >> => check \in BlockId /\ check # NoBlock
  BY <1>1, RollbackTarget
<1>3. ASSUME NEW i \in 1 .. Len(versions), i # 1 PROVE versions[i] # NoBlock
  <2>1. i - 1 \in 1 .. Len(versions) /\ i - 1 # Len(versions) /\ (i - 1) + 1 = i
    BY <1>1, <1>3
  <2>2. Reverted(i - 1) = versions[i]
    BY <2>1 DEF Reverted
  <2> QED BY <2>1, <2>2 DEF L1Inv, HistoryFollowsChain
<1> QED BY <1>1, <1>2, <1>3

\* The purge leaves a base no higher than the settled block below check.
LEMMA CleanSettled ==
    ASSUME MaxReorg <= Buffer + Retention, L1Inv, SettledInv, CleanVersions
    PROVE  (VersionsBelow /\ (Base # NoBlock => Base \in Path(settled)))'
           \/ settled' # settled
<1> SUFFICES ASSUME settled' = settled
             PROVE  VersionsBelow' /\ (Base' # NoBlock => Base' \in Path(settled))
  BY DEF Path
<1>1. PICK k \in 1 .. Len(versions) - Retention :
          versions' = SubSeq(versions, k + 1, Len(versions))
  BY DEF CleanVersions
<1>2. check' = check
  BY DEF CleanVersions
<1>3. /\ Len(versions) \in Nat /\ k \in 1 .. Len(versions) /\ k \in Nat
      /\ Len(versions') = Len(versions) - k /\ Len(versions') \in Nat
      /\ Len(versions') >= Retention
      /\ \A i \in 1 .. Len(versions') :
            versions'[i] = versions[i + k] /\ i + k \in 1 .. Len(versions)
      /\ versions \in Seq(BlockId \cup {NoBlock})
  BY <1>1, VersionsTyped, ReorgIs
<1>4. VersionsBelow'
  <2> SUFFICES ASSUME NEW i \in 1 .. Len(versions'), versions'[i] # NoBlock
               PROVE  /\ versions'[i] \in Path(check)
                      /\ Number[versions'[i]] + (Len(versions') + 1 - i) = Number[check]
    BY <1>2 DEF VersionsBelow, Path
  <2>1. /\ versions[i + k] \in Path(check)
        /\ Number[versions[i + k]] + (Len(versions) + 1 - (i + k)) = Number[check]
        /\ versions'[i] = versions[i + k]
    BY <1>3 DEF SettledInv, VersionsBelow
  <2>2. Len(versions) + 1 - (i + k) = Len(versions') + 1 - i
    BY <1>3
  <2> QED BY <2>1, <2>2
<1>5. ASSUME Base' # NoBlock PROVE Base' \in Path(settled)
  <2>1. check \in BlockId /\ check # NoBlock
    BY <1>3, VersionsTyped
  <2>2. PICK f \in Path(settled) \cap Path(check) :
          f = check \/ Number[check] + Buffer <= Number[f] + MaxReorg
    BY <2>1 DEF SettledInv, NearSettled
  <2>3. f \in BlockId /\ Number[f] \in Nat /\ Number[check] \in Nat /\ settled \in BlockId
    BY <2>1, <2>2, PathsContain, Typing DEF SettledInv
  <2>4. Base' \in Path(check) /\ Number[Base'] + Len(versions') = Number[check]
    <3>1. CASE versions' = << >>
      <4>1. Len(versions') = 0 /\ Base' = check
        BY <1>2, <3>1 DEF Base
      <4> QED BY <2>1, <2>3, <4>1, TopOfPath
    <3>2. CASE versions' # << >>
      <4>1. Base' = versions'[1] /\ versions' \in Seq(BlockId \cup {NoBlock})
        BY <1>1, <1>3, <3>2 DEF Base
      <4>2. 1 \in 1 .. Len(versions') /\ Len(versions') + 1 - 1 = Len(versions')
        BY <1>3, <3>2, <4>1
      <4> QED BY <1>2, <1>4, <1>5, <4>1, <4>2 DEF VersionsBelow, Path
    <3> QED BY <3>1, <3>2
  <2>5. Number[Base'] \in Nat /\ Base' \in BlockId
    BY <2>1, <2>4, PathsContain, Typing
  <2>6. Number[Base'] <= Number[f]
    BY <1>3, <2>2, <2>3, <2>4, <2>5, ReorgIs
  <2>7. Base' \in Path(f)
    BY <2>1, <2>2, <2>4, <2>6, PathsNest
  <2> QED BY <2>2, <2>3, <2>7, PathsContain
<1> QED BY <1>4, <1>5

\* The rollback keeps the base of the versions that it does not revert.
LEMMA RollbackSettled ==
    ASSUME L1Inv, ~ MultiL1, SettledInv, L1Rollback, settled' = settled
    PROVE  SettledInv'
<1> DEFINE last == versions[Len(versions)]
<1>1. /\ versions # << >> /\ check' = last /\ tip' = tip /\ l1batch' = l1batch
      /\ versions' = SubSeq(versions, 1, Len(versions) - 1) /\ L1Ready /\ L1Forked
  BY DEF L1Rollback, RollbackPossible
<1>2. /\ Len(versions) \in 1 .. Len(versions) /\ last \in BlockId \cup {NoBlock}
      /\ check \in BlockId /\ check # NoBlock
      /\ last # NoBlock => /\ last = Parent[check] /\ last \in BlockId
                           /\ Number[last] + 1 = Number[check]
  BY <1>1, RollbackTarget
<1>3. check \notin Path(tip)
  BY <1>1, RolledBackIsLost
<1>4. Path(settled) \subseteq Path(tip)
  BY SettledOnTip DEF SettledInv, L1Inv
<1>5. /\ Len(versions) \in Nat /\ Len(versions) >= 1
      /\ versions \in Seq(BlockId \cup {NoBlock})
  BY <1>2, VersionsTyped
<1>6. /\ Len(versions') = Len(versions) - 1
      /\ \A i \in 1 .. Len(versions) - 1 : versions'[i] = versions[i]
  <2>1. Len(versions) - 1 \in 0 .. Len(versions)
    BY <1>5
  <2> QED BY <1>1, <1>5, <2>1, PrefixOfSeq
<1>7. last # NoBlock =>
        /\ Anc[check] = Path(last) /\ Number[last] \in Nat /\ Number[check] \in Nat
  <2> SUFFICES ASSUME last # NoBlock PROVE Anc[check] = Path(last)
    BY <1>2, Typing
  <2>1. last = Parent[check] /\ Number[last] + 1 = Number[check] /\ Number[last] \in Nat
    BY <1>2, Typing
  <2> HIDE DEF last
  <2>2. Number[check] # 0
    BY <2>1
  <2> QED BY <1>2, <2>1, <2>2, PathOfParent
<1> HIDE DEF last
<1>8. check' # NoBlock => NearSettled(check)'
  <2> SUFFICES ASSUME last # NoBlock
               PROVE  \E f \in Path(settled) \cap Path(last) :
                         Number[last] + Buffer <= Number[f] + MaxReorg
    BY <1>1 DEF NearSettled, Path
  <2>1. PICK f \in Path(settled) \cap Path(check) :
          f = check \/ Number[check] + Buffer <= Number[f] + MaxReorg
    BY <1>2 DEF SettledInv, NearSettled
  <2>2. f # check
    BY <1>3, <1>4, <2>1
  <2>3. f \in Path(last)
    BY <1>7, <2>1, <2>2 DEF Path
  <2>4. Number[f] \in Nat
    BY <1>2, <2>1, PathsContain, Typing
  <2>5. Number[last] + Buffer <= Number[f] + MaxReorg
    BY <1>2, <1>7, <2>1, <2>2, <2>4, ReorgIs
  <2> QED BY <2>1, <2>3, <2>5
<1>9. VersionsBelow'
  <2> SUFFICES ASSUME NEW i \in 1 .. Len(versions) - 1, versions[i] # NoBlock
               PROVE  /\ last # NoBlock /\ versions[i] \in Path(last)
                      /\ Number[versions[i]] + (Len(versions) - i) = Number[last]
    <3>1. \A i \in 1 .. Len(versions') :
             Len(versions') + 1 - i = Len(versions) - i /\ i \in 1 .. Len(versions) - 1
      BY <1>5, <1>6
    <3>2. check' = last
      BY <1>1
    <3>3. ASSUME NEW i \in 1 .. Len(versions'), versions'[i] # NoBlock
          PROVE  /\ versions'[i] \in Path(check')
                 /\ Number[versions'[i]] + (Len(versions') + 1 - i) = Number[check']
      BY <1>6, <3>1, <3>2, <3>3
    <3> QED BY <3>3 DEF VersionsBelow, Path
  <2>1. i \in 1 .. Len(versions) /\ Len(versions) # 1 /\ i # Len(versions)
    <3>1. \A n \in Nat : \A j \in 1 .. n - 1 : j \in 1 .. n /\ n # 1 /\ j # n
      OBVIOUS
    <3> QED BY <1>5, <3>1
  <2>2. last # NoBlock
    BY <1>2, <2>1, VersionsTyped DEF last
  <2>3. /\ versions[i] \in Path(check)
        /\ Number[versions[i]] + (Len(versions) + 1 - i) = Number[check]
    BY <2>1 DEF SettledInv, VersionsBelow
  <2>4. versions[i] \in BlockId /\ Number[versions[i]] \in Nat
    BY <1>2, <2>3, PathsContain, Typing
  <2>5. Number[versions[i]] + (Len(versions) - i) = Number[last]
    BY <1>2, <1>5, <1>7, <2>1, <2>2, <2>3, <2>4
  <2>6. versions[i] # check
    BY <1>5, <1>7, <2>1, <2>2, <2>3, <2>4
  <2> QED BY <1>7, <2>2, <2>3, <2>5, <2>6 DEF Path
<1>10. Base' = Base
  <2>1. CASE Len(versions) = 1
    <3>1. versions' = << >>
      BY <1>1, <1>5, <2>1
    <3>2. Base' = last
      BY <1>1, <3>1 DEF Base
    <3>3. Base = versions[1]
      BY <1>1 DEF Base
    <3>4. last = versions[1]
      BY <2>1 DEF last
    <3> QED BY <3>2, <3>3, <3>4
  <2>2. CASE Len(versions) # 1
    <3>1. 1 \in 1 .. Len(versions) - 1
      <4>1. \A n \in Nat : n >= 1 /\ n # 1 => 1 \in 1 .. n - 1
        OBVIOUS
      <4> QED BY <1>5, <2>2, <4>1
    <3>2. versions' # << >>
      <4>1. Len(versions') # 0
        BY <1>5, <1>6, <2>2
      <4> QED BY <4>1
    <3> QED BY <1>1, <1>6, <3>1, <3>2 DEF Base
  <2> QED BY <2>1, <2>2
<1> QED
  BY <1>1, <1>8, <1>9, <1>10 DEF SettledInv, TipNear, NearSettled, Path

\* The import of a block puts a version on top of the others.
LEMMA UpdateSettled ==
    ASSUME L1Inv, SettledInv, UpdateCheckInfo, settled' = settled
    PROVE  SettledInv'
<1>1. PICK c \in BlockId : Holding(c)
  BY DEF UpdateCheckInfo, L1Inv, L1WorkerInv
<1>2. /\ check' = c /\ versions' = Append(versions, check) /\ l1batch' = {}
      /\ l1batch = {c} /\ tip' = tip
      /\ check # NoBlock => /\ check = Parent[c] /\ check \in BlockId
                            /\ Number[c] = Number[check] + 1 /\ Number[c] # 0
  BY <1>1, HeldIsNext DEF UpdateCheckInfo, Holding
<1>3. /\ Len(versions) \in Nat /\ versions \in Seq(BlockId \cup {NoBlock})
      /\ check \in BlockId \cup {NoBlock} /\ Number[c] \in Nat
      /\ check # NoBlock => Number[check] \in Nat /\ Anc[c] = Path(check)
  BY <1>2, VersionsTyped, PathOfParent, Typing DEF L1Inv, L1TypeOK
<1>4. /\ Len(versions') = Len(versions) + 1 /\ versions'[Len(versions) + 1] = check
      /\ \A i \in 1 .. Len(versions) : versions'[i] = versions[i]
  BY <1>2, <1>3
<1>5. NearSettled(c)
  BY <1>2 DEF SettledInv
<1>6. ASSUME NEW i \in 1 .. Len(versions'), versions'[i] # NoBlock
      PROVE  /\ versions'[i] \in Path(c)
             /\ Number[versions'[i]] + (Len(versions') + 1 - i) = Number[c]
  <2>1. CASE i = Len(versions')
    BY <1>2, <1>3, <1>4, <1>6, <2>1, TopOfPath DEF Path
  <2>2. CASE i # Len(versions')
    <3>1. i \in 1 .. Len(versions) /\ versions'[i] = versions[i]
      BY <1>3, <1>4, <2>2
    <3>2. check # NoBlock
      BY <1>3, <3>1, VersionsTyped
    <3>3. /\ versions[i] \in Path(check)
          /\ Number[versions[i]] + (Len(versions) + 1 - i) = Number[check]
      BY <1>6, <3>1 DEF SettledInv, VersionsBelow
    <3>4. Number[versions[i]] \in Nat
      BY <1>2, <3>2, <3>3, PathsContain, Typing
    <3>5. versions'[i] \in Path(c)
      BY <1>3, <3>1, <3>2, <3>3 DEF Path
    <3>6. Number[versions'[i]] + (Len(versions') + 1 - i) = Number[c]
      <4>1. Number[c] = Number[check] + 1 /\ Number[check] \in Nat
        BY <1>2, <1>3, <3>2
      <4>2. Len(versions') = Len(versions) + 1 /\ Len(versions) \in Nat /\ i \in Nat
        BY <1>3, <1>4, <3>1
      <4>3. Number[versions[i]] + (Len(versions') + 1 - i) = Number[c]
        BY <3>3, <3>4, <4>1, <4>2
      <4> QED BY <3>1, <4>3
    <3> QED BY <3>5, <3>6
  <2> QED BY <2>1, <2>2
<1>7. Base' = Base
  <2>1. CASE versions = << >>
    <3>1. Len(versions) = 0
      BY <2>1
    <3>2. Len(versions') = 1 /\ versions'[1] = check
      BY <1>4, <3>1
    <3>3. versions' # << >>
      BY <3>2
    <3> QED BY <2>1, <3>2, <3>3 DEF Base
  <2>2. CASE versions # << >>
    <3>1. 1 \in 1 .. Len(versions)
      BY <1>3, <2>2
    <3>2. Len(versions') # 0
      BY <1>3, <1>4
    <3>3. versions' # << >>
      BY <3>2
    <3> QED BY <1>4, <2>2, <3>1, <3>3 DEF Base
  <2> QED BY <2>1, <2>2
<1>8. VersionsBelow'
  BY <1>2, <1>6 DEF VersionsBelow, Path
<1> QED
  BY <1>2, <1>5, <1>7, <1>8 DEF SettledInv, TipNear, NearSettled, Path

LEMMA SettledInvStep ==
    ASSUME MaxReorg <= Buffer + Retention, ~ MultiL1,
           L1Inv, SettledInv, [L1SettledNext]_settledVars
    PROVE  SettledInv'
<1>1. ASSUME UNCHANGED <<check, versions, l1batch>>, settled' \in BlockId, TipNear',
             settled \in Path(settled')
      PROVE  SettledInv'
  <2>1. Path(settled) \subseteq Path(settled')
    BY <1>1, PathsContain
  <2> QED BY <1>1, <2>1
      DEF SettledInv, NearSettled, VersionsBelow, Base, Path
<1>2. CASE L1SettledNode
  <2>1. settled' \in BlockId /\ TipNear' /\ settled \in Path(settled')
    BY <1>2, SettledStep DEF L1SettledNode, SettledInv, L1Inv
  <2> QED BY <1>1, <1>2, <2>1 DEF L1SettledNode, l1db, l1worker
<1>3. ASSUME UNCHANGED <<tip, settled>>
      PROVE  settled' \in BlockId /\ TipNear' /\ settled \in Path(settled')
  BY <1>3, TopOfPath DEF SettledInv, TipNear, Path
<1>4. ASSUME UNCHANGED <<tip, settled, check, versions, l1batch>> PROVE SettledInv'
  BY <1>1, <1>3, <1>4
<1>5. CASE L1Fetch /\ settled' = settled
  <2>1. /\ l1batch' = L1Fetched /\ UNCHANGED <<tip, check, versions>> /\ L1Ready
    BY <1>5 DEF L1Fetch, l1db
  <2>2. \A c \in L1Fetched : NearSettled(c)
    BY <2>1, FetchedIsNear DEF SettledInv, L1Inv
  <2> QED
    BY <1>5, <2>1, <2>2
       DEF SettledInv, TipNear, NearSettled, VersionsBelow, Base, Path
<1>6. CASE CleanVersions /\ settled' = settled
  <2>1. UNCHANGED <<tip, check, l1batch>>
    BY <1>6 DEF CleanVersions, l1worker
  <2>2. (VersionsBelow /\ (Base # NoBlock => Base \in Path(settled)))'
    BY <1>6, CleanSettled
  <2> QED BY <1>6, <2>1, <2>2 DEF SettledInv, TipNear, NearSettled, Path
<1>7. CASE L1Crash /\ settled' = settled
  <2>1. UNCHANGED <<tip, check, versions>> /\ l1batch' = {}
    BY <1>7 DEF L1Crash, l1db
  <2> QED
    BY <1>7, <2>1 DEF SettledInv, TipNear, NearSettled, VersionsBelow, Base, Path
<1> QED
  BY <1>2, <1>4, <1>5, <1>6, <1>7, RollbackSettled, UpdateSettled
     DEF L1SettledNext, SettledWork, SettledOther, L1Work, L1Wait, L1RollbackRaises,
         ImportDeposits, ImportEoaAccounts, ImportWithdrawals,
         ImportAccountElsewhere, settledVars, l1vars, l1db, l1worker

LEMMA SettledInvInit == L1SettledInit => SettledInv
<1> SUFFICES ASSUME L1SettledInit PROVE SettledInv
  OBVIOUS
<1>1. tip = Genesis /\ settled = Genesis /\ check = NoBlock /\ versions = << >>
      /\ l1batch = {}
  BY DEF L1SettledInit, SettledInit, L1Init, NodeInit
<1>2. TipNear
  BY <1>1, Typing, ReorgIs DEF TipNear, Path
<1> QED BY <1>1, <1>2, Typing DEF SettledInv, VersionsBelow, Base

\* A step on a bounded chain is a step of L1Sync.
LEMMA SettledStepIsStep == [L1SettledNext]_settledVars => [L1Next]_l1vars
BY DEF L1SettledNext, SettledWork, SettledOther, L1SettledNode, SettledGrow,
       SettledRevert, NodeStep, L1Next, L1Node, settledVars

\* What holds of the worker on any chain holds on a bounded one.
THEOREM SettledImplements == L1SettledSpec => L1Spec
<1>1. L1SettledInit => L1Init
  BY DEF L1SettledInit
<1> QED
  BY <1>1, SettledStepIsStep, PTL DEF L1SettledSpec, L1Spec

LEMMA SettledInvariance ==
    ASSUME ~ MultiL1, MaxReorg <= Buffer + Retention
    PROVE  L1SettledSpec => []SettledInv
<1>1. L1Inv /\ SettledInv /\ [L1SettledNext]_settledVars => SettledInv'
  BY SettledInvStep
<1> QED
  BY <1>1, SettledInvInit, SettledImplements, L1Invariance, PTL DEF L1SettledSpec

\* When the kept versions and the buffer are together as deep as the deepest
\* reorganisation, a version to revert is always left, whatever rollbacks,
\* deaths in an import and purges came before.
THEOREM VersionLeftAlways ==
    ASSUME ~ MultiL1, MaxReorg <= Buffer + Retention
    PROVE  L1SettledSpec => []VersionLeft
<1>1. L1Inv /\ SettledInv => VersionLeft
  BY BaseIsNotLost
<1> QED
  BY <1>1, SettledInvariance, SettledImplements, L1Invariance, PTL

\* When the worker moreover never dies inside an import, no rollback raises.
THEOREM ForkResolvedAlways ==
    ASSUME ~ MultiL1, ~ Dies, MaxReorg <= Buffer + Retention
    PROVE  L1SettledSpec => []ForkResolved
<1>1. VersionLeft /\ OwnersKnown => ForkResolved
  BY DEF VersionLeft, OwnersKnown, ForkResolved, RollbackPossible, L1Ready
<1>2. L1Init => OwnersKnown
  BY DEF L1Init, OwnersKnown
<1>3. L1Inv /\ OwnersKnown /\ [L1Next]_l1vars => OwnersKnown'
  BY OwnersStep
<1> QED
  BY <1>1, <1>2, <1>3, VersionLeftAlways, SettledImplements, L1Invariance, PTL
     DEF L1Spec
-----------------------------------------------------------------------------
(* Refinement *)

Position == INSTANCE ChainPosition WITH position <- check

\* check_infos moves through the chain block by block, whatever forks, deaths
\* and purges of versions there are: a block is followed by a child of it, or
\* by its parent, which is where the version reverted to leads.
THEOREM L1ImplementsChainPosition ==
    ASSUME ~ MultiL1 PROVE L1Spec => Position!PositionSpec
<1>1. L1Init => Position!PositionInit
  BY DEF L1Init, Position!PositionInit
<1>2. ASSUME L1Inv, [L1Next]_l1vars PROVE [Position!PositionNext]_check
  <2>1. CASE UpdateCheckInfo
    <3>1. PICK c \in BlockId : Holding(c)
      BY <1>2, <2>1 DEF UpdateCheckInfo, L1Inv, L1WorkerInv
    <3>2. /\ check' = c
          /\ check = NoBlock => Number[c] = InitNumber
          /\ check # NoBlock => Parent[c] = check /\ Number[c] # 0
      BY <1>2, <2>1, <3>1, HeldIsNext DEF UpdateCheckInfo, Holding
    <3>3. Number[Genesis] = 0
      BY TreeAssumption
    <3> QED
      BY <3>1, <3>2, <3>3 DEF Position!PositionNext, Position!Start, Position!Forward
  <2>2. CASE L1Rollback
    <3>1. versions # << >> /\ check' = versions[Len(versions)]
      BY <2>2 DEF L1Rollback, RollbackPossible
    <3>2. /\ check # NoBlock
          /\ check' = NoBlock => Number[check] = InitNumber
          /\ check' # NoBlock => check' = Parent[check] /\ Number[check] # InitNumber
      BY <1>2, <3>1, RollbackTarget, Typing
    <3> QED BY <3>2 DEF Position!PositionNext, Position!Back
  <2>3. CASE ~ UpdateCheckInfo /\ ~ L1Rollback
    BY <1>2, <2>3
       DEF L1Next, L1Work, L1Fetch, L1RollbackRaises, ImportDeposits,
           ImportEoaAccounts, ImportWithdrawals, L1Wait, L1Crash, CleanVersions,
           ImportAccountElsewhere, L1Node, l1vars, l1db
  <2> QED BY <2>1, <2>2, <2>3
<1> QED BY <1>1, <1>2, L1Invariance, PTL DEF L1Spec, Position!PositionSpec
=============================================================================

------------------------------ MODULE L1L2Bind ------------------------------
(***************************************************************************)
(* Which layer 1 block a layer 2 block was submitted in, and whether it is *)
(* final.  Four workers write these columns of the block table, each with  *)
(* a position of its own in the layer 1 chain:                             *)
(*   BindL1L2Worker binds, BindBuffer blocks behind the tip;               *)
(*   SyncL1BlockWorker unbinds the blocks of a layer 1 block that it rolls *)
(*     back, SyncBuffer blocks behind the tip (L1Sync is its whole);       *)
(*   GlobalStateWorker finalizes, reading the rollup cell at the tip;      *)
(*   SyncWorker inserts and deletes the rows (L2Sync is its whole).        *)
(* Layer 2 blocks are their numbers here: StoredChain of L2Sync says that  *)
(* the stored ones are 0 .. l2top.                                         *)
(***************************************************************************)
EXTENDS SettledChain, FiniteSetsExt

CONSTANTS
    Commits,       \* Commits[b]: the layer 2 blocks submitted in layer 1 block b
    FinalOf,       \* FinalOf[b]: last_finalized_block_number as of b
    Wd, WdsAt,     \* withdrawal cells, and those of layer 1 block b
    WdNumber,      \* WdNumber[w]: the layer 2 block of withdrawal w
    MaxL2,         \* bound: the highest layer 2 block number
    InitNumber,    \* init_godwoken_l1_block_number
    BindBuffer,    \* @buffer_block_number (30 in the code)
    SyncBuffer,    \* @buffer_block_for_create_account (15 in the code)
    RangeSize,     \* the 100 of cal_block_range
    MaxLag,        \* how far the chain grows before SyncL1BlockWorker sees one
    Flaky,         \* whether fetch_l1_tx may fail
    Dies,          \* of "binder" and "global", the workers that may die
    Ahead          \* whether layer 2 blocks are stored before they are submitted

Numbers == 0 .. MaxL2

ASSUME BindAssumption ==
    /\ {MaxL2, MaxLag, InitNumber} \subseteq Nat
    /\ BindBuffer \in Nat /\ SyncBuffer \in Nat /\ RangeSize \in Nat \ {0}
    /\ {Flaky, Ahead} \subseteq BOOLEAN /\ Dies \subseteq {"binder", "global"}
    /\ Commits \in [BlockId -> SUBSET Numbers]
    /\ FinalOf \in [BlockId -> Nat]
    /\ WdsAt \in [BlockId -> SUBSET Wd] /\ WdNumber \in [Wd -> Numbers]

\* A layer 2 block is final only when it was submitted so long ago that every
\* worker knows of the chain it is in: the challenge period is days long, and
\* SyncL1BlockWorker looks every second.
ASSUME ChallengeAssumption ==
    \A b \in BlockId : \A k \in 1 .. FinalOf[b] :
        \E a \in Anc[b] : k \in Commits[a] /\ Number[a] + MaxReorg + MaxLag < Number[b]

\* A chain has one submission of a layer 2 block (a second one would follow a
\* successful challenge).
ASSUME SubmissionAssumption ==
    \A b \in BlockId : \A a, c \in Anc[b] \cup {b} :
        Commits[a] \cap Commits[c] # {} => a = c

Unbound == -1

VARIABLES
    l2top,        \* blocks: the stored numbers are 0 .. l2top
    bound,        \* blocks.layer1_block_number
    status,       \* blocks.status
    seen,         \* the position of SyncL1BlockWorker
    pending,      \* withdrawal_histories in state pending: <<w, L1 number>>
    available,    \* ... and in state available
    bpc, bnext,   \* BindL1L2Worker: its step, and the number in its mailbox
    bto,          \* ... the number where those old enough end
    btodo,        \* ... the submissions still to bind: <<L1 number, L2 number>>
    bdone,        \* ... the L1 numbers it bound
    gpc, gfinal,  \* GlobalStateWorker: its step, the finalized number read
    glast,        \* ... the last finalized row read
    meta          \* account 0: last_finalized_block_number

blocks   == <<l2top, bound, status>>
histories == <<pending, available>>
binder   == <<bpc, bnext, bto, btodo, bdone>>
global   == <<gpc, gfinal, glast>>
bvars    == <<node, blocks, seen, histories, binder, global, meta>>

-----------------------------------------------------------------------------
(* Helpers *)

\* find_last_bind_l1_block, and init/1 of BindL1L2Worker.
ResumeNumber ==
    LET b == {k \in Numbers : bound[k] # Unbound}
    IN IF b = {} THEN InitNumber ELSE bound[Max(b)] + 1

\* cal_block_range: the end of the range.
RangeEnd == IF bnext + RangeSize < bto THEN bnext + RangeSize ELSE bto

\* fetch_l1_txs_by_range: the rollup cells put into the blocks of the range,
\* whose end the indexer leaves out.
Submissions ==
    UNION {{<<Number[b], k>> : k \in Commits[b]} :
              b \in {d \in Canonical : bnext <= Number[d] /\ Number[d] < RangeEnd}}

\* order: "asc"
FirstOf(S) == CHOOSE x \in S : \A y \in S :
                 x[1] < y[1] \/ (x[1] = y[1] /\ x[2] <= y[2])

SubmittedBy(b) == UNION {Commits[a] : a \in Path(b)}

-----------------------------------------------------------------------------
(* The node and the rows *)

BindInit ==
    /\ SettledInit
    /\ l2top = -1
    /\ bound = [k \in Numbers |-> Unbound]
    /\ status = [k \in Numbers |-> "committed"]
    /\ seen = NoBlock /\ pending = {} /\ available = {}
    /\ bpc = "idle" /\ bnext = InitNumber /\ bto = 0
    /\ btodo = {} /\ bdone = {}
    /\ gpc = "idle" /\ gfinal = 0 /\ glast = 0 /\ meta = 0

Grow ==
    /\ SettledGrow
    /\ Ahead => Commits[tip'] \subseteq 0 .. l2top
    /\ seen \notin {NoBlock} \cup Canonical => Number[tip'] <= Number[seen] + MaxLag
    /\ UNCHANGED <<blocks, seen, histories, binder, global, meta>>

Revert ==
    /\ SettledRevert
    /\ UNCHANGED <<blocks, seen, histories, binder, global, meta>>

\* SyncWorker.import_block: the new row is committed and unbound.
ImportL2 ==
    /\ l2top < MaxL2
    /\ l2top' = l2top + 1
    /\ bound' = [bound EXCEPT ![l2top + 1] = Unbound]
    /\ status' = [status EXCEPT ![l2top + 1] = "committed"]
    /\ UNCHANGED <<node, seen, histories, binder, global, meta>>

\* Mutant: an empty table is rolled back.
RollbackL2Empty ==
    /\ l2top \notin SubmittedBy(tip)
    /\ l2top' = l2top - 1
    /\ bound' = [k \in Numbers |-> IF k = l2top THEN Unbound ELSE bound[k]]
    /\ status' = [k \in Numbers |-> IF k = l2top THEN "committed" ELSE status[k]]
    /\ UNCHANGED <<node, seen, histories, binder, global, meta>>

\* Block.rollback!.  The layer 2 node only takes back blocks that are not
\* submitted (a successful challenge is left out).
RollbackL2 ==
    /\ l2top >= 0 /\ l2top \notin SubmittedBy(tip)
    /\ l2top' = l2top - 1
    /\ bound' = [bound EXCEPT ![l2top] = Unbound]
    /\ status' = [status EXCEPT ![l2top] = "committed"]
    /\ UNCHANGED <<node, seen, histories, binder, global, meta>>

-----------------------------------------------------------------------------
(* SyncL1BlockWorker, as L1Sync shows it: one block forward, or one back *)

SeenNext == {b \in Canonical :
    /\ Number[b] = IF seen = NoBlock THEN InitNumber ELSE Number[seen] + 1
    /\ Number[b] + SyncBuffer <= Number[tip]}

SyncForward ==
    /\ \E b \in SeenNext :
          /\ seen = NoBlock \/ Parent[b] = seen
          /\ seen' = b
          /\ pending' = pending \cup ({<<w, Number[b]>> : w \in WdsAt[b]} \ available)
    /\ UNCHANGED <<node, blocks, available, binder, global, meta>>

\* Mutant: the reset takes every binding up to the block.
SyncBackUpTo ==
    /\ seen # NoBlock /\ \E b \in SeenNext : Parent[b] # seen
    /\ LET reset == {k \in Numbers : bound[k] <= Number[seen]}
       IN /\ bound' = [k \in Numbers |-> IF k \in reset THEN Unbound ELSE bound[k]]
          /\ status' = [k \in Numbers |->
                          IF k \in reset THEN "committed" ELSE status[k]]
    /\ pending' = {r \in pending : r[2] # Number[seen]}
    /\ available' = {r \in available : r[2] # Number[seen]}
    /\ seen' = IF Number[seen] = InitNumber THEN NoBlock ELSE Parent[seen]
    /\ UNCHANGED <<node, l2top, binder, global, meta>>

\* The transaction on a fork: reset_layer1_bind_info! and the histories.
SyncBack ==
    /\ seen # NoBlock /\ \E b \in SeenNext : Parent[b] # seen
    /\ LET reset == {k \in Numbers : bound[k] = Number[seen]}
       IN /\ bound' = [k \in Numbers |-> IF k \in reset THEN Unbound ELSE bound[k]]
          /\ status' = [k \in Numbers |->
                          IF k \in reset THEN "committed" ELSE status[k]]
    /\ pending' = {r \in pending : r[2] # Number[seen]}
    /\ available' = {r \in available : r[2] # Number[seen]}
    /\ seen' = IF Number[seen] = InitNumber THEN NoBlock ELSE Parent[seen]
    /\ UNCHANGED <<node, l2top, binder, global, meta>>

-----------------------------------------------------------------------------
(* BindL1L2Worker *)

\* Mutant: the buffer is forgotten.
BindTipNoBuffer ==
    /\ bpc = "idle"
    /\ bto' = Number[tip]
    /\ bpc' = IF bnext > bto' THEN "idle" ELSE "range"
    /\ UNCHANGED <<node, blocks, seen, histories, bnext, btodo, bdone, global, meta>>

\* handle_info: the tip is read first.
BindTip ==
    /\ bpc = "idle"
    /\ bto' = Number[tip] - BindBuffer
    /\ bpc' = IF bnext > bto' THEN "idle" ELSE "range"
    /\ UNCHANGED <<node, blocks, seen, histories, bnext, btodo, bdone, global, meta>>

\* The answer of fetch_l1_txs_by_range; without a rollup cell the worker
\* goes on from the end of the range.
BindFetch ==
    /\ bpc = "range"
    /\ btodo' = Submissions /\ bdone' = {}
    /\ bpc' = IF Submissions = {} THEN "idle" ELSE "bind"
    /\ bnext' = IF Submissions = {} THEN RangeEnd ELSE bnext
    /\ UNCHANGED <<node, blocks, seen, histories, bto, global, meta>>

\* {:error, _}: the same range again.
BindRetry ==
    /\ "binder" \in Dies /\ bpc = "range"
    /\ bpc' = "idle"
    /\ UNCHANGED <<node, blocks, seen, histories, bnext, bto, btodo, bdone, global, meta>>

\* fetch_l1_tx and Block.bind_l1_l2_block of the next submission.
BindTx ==
    /\ bpc = "bind" /\ btodo # {}
    /\ LET x == FirstOf(btodo)
       IN /\ btodo' = btodo \ {x}
          /\ \/ /\ x[2] <= l2top
                /\ bound' = [bound EXCEPT ![x[2]] = x[1]]
                /\ bdone' = bdone \cup {x[1]}
             \/ /\ Flaky \/ x[2] > l2top
                /\ UNCHANGED <<bound, bdone>>
    /\ UNCHANGED <<node, l2top, status, seen, histories, bpc, bnext, bto,
                   global, meta>>

\* Mutant: go on after a full range, also when the range ended before.
BindDoneFullRange ==
    /\ bpc = "bind" /\ btodo = {}
    /\ bnext' = bnext + RangeSize + 1
    /\ bpc' = "idle" /\ bdone' = {}
    /\ UNCHANGED <<node, blocks, seen, histories, bto, btodo, global, meta>>

\* The next number: after the highest one bound, or the same range again.
BindDone ==
    /\ bpc = "bind" /\ btodo = {}
    /\ bnext' = IF bdone = {} THEN bnext ELSE Max(bdone) + 1
    /\ bpc' = "idle" /\ bdone' = {}
    /\ UNCHANGED <<node, blocks, seen, histories, bto, btodo, global, meta>>

\* The worker dies and is restarted.
BindCrash ==
    /\ "binder" \in Dies
    /\ bpc' = "idle" /\ bnext' = ResumeNumber
    /\ btodo' = {} /\ bdone' = {}
    /\ UNCHANGED <<node, blocks, seen, histories, bto, global, meta>>

-----------------------------------------------------------------------------
(* GlobalStateWorker *)

\* fetch_global_state_info: the live rollup cell.
GlobalFetch ==
    /\ gpc = "idle"
    /\ gfinal' = FinalOf[tip]
    /\ gpc' = "last"
    /\ UNCHANGED <<node, blocks, seen, histories, binder, glast, meta>>

\* update_blocks_finalized: the highest finalized row, 0 without one ...
GlobalReadLast ==
    /\ gpc = "last"
    /\ glast' = Max({0} \cup {k \in Numbers : status[k] = "finalized"})
    /\ gpc' = "blocks"
    /\ UNCHANGED <<node, blocks, seen, histories, binder, gfinal, meta>>

\* Mutant: only the row of the finalized number itself.
GlobalBlocksOne ==
    /\ gpc = "blocks"
    /\ status' = [k \in Numbers |->
                    IF k <= l2top /\ glast < k /\ k = gfinal
                    THEN "finalized" ELSE status[k]]
    /\ gpc' = "meta"
    /\ UNCHANGED <<node, l2top, bound, seen, histories, binder, gfinal, glast, meta>>

\* ... and the rows above it up to the finalized number.
GlobalBlocks ==
    /\ gpc = "blocks"
    /\ status' = [k \in Numbers |->
                    IF k <= l2top /\ glast < k /\ k <= gfinal
                    THEN "finalized" ELSE status[k]]
    /\ gpc' = "meta"
    /\ UNCHANGED <<node, l2top, bound, seen, histories, binder, gfinal, glast, meta>>

\* Account.update_meta_contract.  Without account 0 it may raise while it
\* creates the account: then the worker dies here, as in GlobalCrash.
GlobalMeta ==
    /\ gpc = "meta"
    /\ meta' = gfinal
    /\ gpc' = "withdrawals"
    /\ UNCHANGED <<node, blocks, seen, histories, binder, gfinal, glast>>

\* Mutant: the withdrawals of the last finalized block are left pending.
GlobalWithdrawalsBelow ==
    /\ gpc = "withdrawals"
    /\ LET ready == {r \in pending : WdNumber[r[1]] < gfinal}
       IN pending' = pending \ ready /\ available' = available \cup ready
    /\ gpc' = "idle"
    /\ UNCHANGED <<node, blocks, seen, binder, gfinal, glast, meta>>

\* WithdrawalHistory.update_available_state
GlobalWithdrawals ==
    /\ gpc = "withdrawals"
    /\ LET ready == {r \in pending : WdNumber[r[1]] <= gfinal}
       IN pending' = pending \ ready /\ available' = available \cup ready
    /\ gpc' = "idle"
    /\ UNCHANGED <<node, blocks, seen, binder, gfinal, glast, meta>>

\* The worker dies and is restarted.
GlobalCrash ==
    /\ "global" \in Dies
    /\ gpc' = "idle"
    /\ UNCHANGED <<node, blocks, seen, histories, binder, gfinal, glast, meta>>

-----------------------------------------------------------------------------

BindWork == BindTip \/ BindFetch \/ BindTx \/ BindDone

GlobalWork ==
    GlobalFetch \/ GlobalReadLast \/ GlobalBlocks \/ GlobalMeta \/ GlobalWithdrawals

SyncWork == SyncForward \/ SyncBack

BindNext ==
    \/ Grow \/ Revert \/ ImportL2 \/ RollbackL2
    \/ SyncWork
    \/ BindWork \/ BindRetry \/ BindCrash
    \/ GlobalWork \/ GlobalCrash

BindSpec == BindInit /\ [][BindNext]_bvars

\* Each worker's timer fires and its calls return.  The binder may die for
\* ever, but not each time that it sends the same request.
BindFairSpec ==
    /\ BindSpec
    /\ WF_bvars(BindWork) /\ SF_bvars(BindFetch) /\ SF_bvars(BindTx)
    /\ WF_bvars(GlobalWork) /\ WF_bvars(SyncWork)

-----------------------------------------------------------------------------
(* Properties *)

BindTypeOK ==
    /\ tip \in BlockId /\ settled \in BlockId
    /\ l2top \in Numbers \cup {-1}
    /\ bound \in [Numbers -> Nat \cup {Unbound}]
    /\ status \in [Numbers -> {"committed", "finalized"}]
    /\ seen \in BlockId \cup {NoBlock}
    /\ pending \in SUBSET (Wd \X Nat) /\ available \in SUBSET (Wd \X Nat)
    /\ bpc \in {"idle", "range", "bind"} /\ bnext \in Nat /\ bto \in Int
    /\ btodo \in SUBSET (Nat \X Numbers) /\ bdone \in SUBSET Nat
    /\ gpc \in {"idle", "last", "blocks", "meta", "withdrawals"}
    /\ gfinal \in Nat /\ glast \in Nat /\ meta \in Nat

\* A bound block names the block of the node's chain that it was submitted
\* in, as long as reorganisations take back at most one block more than the
\* buffer (a range leaves its end out): whatever the binder read before one
\* and wrote after it.
BoundToCanonical ==
    \A k \in Numbers : bound[k] # Unbound =>
        \E b \in Canonical : Number[b] = bound[k] /\ k \in Commits[b]

\* Only a reset of SyncL1BlockWorker ever takes a binding away, and only while
\* it leaves a lost block of the same number and before the layer 2 block is
\* final.  No rollback deletes a bound row, no import clears one, and no
\* later range, restart or retry binds a block again to another number.
OnlyResetsUnbind ==
    [][\A k \in Numbers :
          bound[k] # Unbound /\ bound'[k] # bound[k] =>
              /\ bound'[k] = Unbound /\ k <= l2top' /\ status[k] = "committed"
              /\ seen \notin {NoBlock} \cup Canonical
              /\ bound[k] = Number[seen] /\ seen' \in {NoBlock, Parent[seen]}]_bvars

\* "Fetch layer1 rollup cell and bind layer2 block to layer1 block": the binder
\* has left no stored block behind that was submitted below its position.
SubmittedAreBound ==
    bpc = "idle" =>
        \A b \in Path(settled) : \A k \in Commits[b] :
            InitNumber <= Number[b] /\ Number[b] < bnext /\ k <= l2top
                => bound[k] # Unbound

\* The finalized rows are all rows from the first block to some number: the
\* worker goes on from the highest of them and never looks back.
FinalizedPrefix ==
    \A k \in Numbers : status[k] = "finalized" =>
        k <= l2top /\ \A j \in 1 .. k : status[j] = "finalized"

\* "Finalized means block can't be challenged": it is not taken back, neither
\* by a reset of its binding nor with its row.
FinalityKept ==
    [][\A k \in Numbers : status[k] = "finalized" => status'[k] = "finalized"]_bvars

\* When the node's chain stays and the blocks submitted in it are stored, every
\* submission that is old enough is bound.
OldSubmissions(b) ==
    UNION {{<<Number[a], k>> : k \in Commits[a]} :
              a \in {d \in Path(b) : /\ InitNumber <= Number[d]
                                     /\ Number[d] + BindBuffer < Number[b]}}

EventuallyBound ==
    \A b \in BlockId :
        (tip = b /\ SubmittedBy(b) \subseteq 0 .. l2top)
            ~> (tip # b \/ \A x \in OldSubmissions(b) : bound[x[2]] = x[1])

\* When the node's chain stays, the stored blocks above the first that its
\* rollup cell calls final become finalized, and their withdrawals available.
EventuallyFinal ==
    \A b \in BlockId :
        (tip = b /\ FinalOf[b] <= l2top)
            ~> (tip # b \/ /\ \A k \in 1 .. FinalOf[b] : status[k] = "finalized"
                           /\ \A r \in pending : WdNumber[r[1]] > FinalOf[b])
=============================================================================

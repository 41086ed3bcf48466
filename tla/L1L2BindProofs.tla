--------------------------- MODULE L1L2BindProofs ---------------------------
(***************************************************************************)
(* Bindings and finality of module L1L2Bind, for every tree of layer 1     *)
(* blocks in which a block is settled before the binder reads it.          *)
(***************************************************************************)
EXTENDS L1L2Bind, ChainTreeLemmas, FiniteSetTheorems, TLAPS

-----------------------------------------------------------------------------
(* The inductive invariant *)

\* The worker's next numbers stay numbers.
Counts ==
    /\ IsFiniteSet(bdone)
    /\ bpc = "range" => bnext <= bto

\* The settled block is on the chain and near its tip.
Settling ==
    /\ settled \in Path(tip)
    /\ Number[tip] <= Number[settled] + MaxReorg

\* Layer 2 block k was submitted in the settled block with number n.
SubmittedAt(n, k) == \E b \in Path(settled) : Number[b] = n /\ k \in Commits[b]

Bindings ==
    /\ bto <= Number[settled] + 1
    /\ \A x \in btodo : SubmittedAt(x[1], x[2])
    /\ \A k \in Numbers : bound[k] # Unbound => SubmittedAt(bound[k], k)

TInv == BindTypeOK /\ Counts

BInv == TInv /\ Settling /\ Bindings

\* A position on a lost branch is near the point where the branches part.
NearFork ==
    seen \notin {NoBlock} \cup Canonical =>
        \E f \in Path(settled) \cap Path(seen) :
            /\ Number[seen] <= Number[f] + MaxReorg
            /\ Number[tip] <= Number[f] + MaxReorg + MaxLag

\* No step back of SyncL1BlockWorker reaches the block that k was submitted in.
Safe(k) ==
    \E a \in Path(settled) :
        /\ k \in Commits[a]
        /\ seen \in {NoBlock} \cup Path(settled) \/ a \in Path(seen)

Final(k) == status[k] = "finalized"

Finals ==
    /\ \A k \in Numbers : Final(k) =>
          k \in 1 .. l2top /\ Safe(k) /\ \A j \in 1 .. k : Final(j)
    /\ gpc \in {"last", "blocks"} => \A k \in 1 .. gfinal : Safe(k)
    /\ gpc = "blocks" => glast = 0 \/ (glast \in Numbers /\ Final(glast))

FInv == BInv /\ NearFork /\ Finals

-----------------------------------------------------------------------------
(* Numbers *)

LEMMA Types ==
    /\ Number \in [BlockId -> Nat] /\ Anc \in [BlockId -> SUBSET BlockId]
    /\ Parent \in [BlockId -> BlockId]
    /\ Genesis \in BlockId /\ NoBlock \notin BlockId
    /\ MaxL2 \in Nat /\ MaxReorg \in Nat /\ MaxLag \in Nat /\ InitNumber \in Nat
    /\ BindBuffer \in Nat /\ SyncBuffer \in Nat /\ RangeSize \in Nat \ {0}
    /\ Commits \in [BlockId -> SUBSET Numbers] /\ FinalOf \in [BlockId -> Nat]
    /\ Numbers \subseteq Nat /\ IsFiniteSet(Numbers)
<1>1. IsFiniteSet(0 .. MaxL2)
  BY BindAssumption, FS_Interval
<1> QED
  BY <1>1, TreeAssumption, BindAssumption, ReorgAssumption DEF Numbers

\* Max of a finite set of numbers.
LEMMA MaxIs ==
    ASSUME NEW S \in SUBSET Nat, IsFiniteSet(S), S # {}
    PROVE  Max(S) \in S /\ \A y \in S : y <= Max(S)
<1>1. PICK x \in S : \A y \in S : y <= x
  BY GreatestExists
<1>2. x \in S /\ \A y \in S : x >= y
  BY <1>1
<1>3. Max(S) \in S /\ \A y \in S : Max(S) >= y
  BY <1>2 DEF Max
<1> QED BY <1>3

\* The block MaxReorg below a block of the chain.
LEMMA SettledIs ==
    ASSUME NEW b \in BlockId
    PROVE  /\ SettledBelow(b) \in Path(b)
           /\ Number[b] <= Number[SettledBelow(b)] + MaxReorg
<1> DEFINE c == SettledBelow(b)
<1>1. c = CHOOSE a \in Path(b) :
             Number[a] = IF Number[b] > MaxReorg THEN Number[b] - MaxReorg ELSE 0
  BY DEF SettledBelow
<1> HIDE DEF c
<1>2. c \in Path(b) /\ Number[b] <= Number[c] + MaxReorg
  BY <1>1, BlockBelow, ReorgAssumption
<1> QED BY <1>2 DEF c

\* The binder takes the oldest submission first.
LEMMA FirstIs ==
    ASSUME NEW S \in SUBSET (Nat \X Numbers), S # {}
    PROVE  FirstOf(S) \in S /\ \A y \in S : FirstOf(S)[1] <= y[1]
<1> DEFINE L == {x[1] : x \in S}
<1>1. PICK l \in L : \A m \in L : l <= m
  <2>1. L \in SUBSET Nat /\ L # {}
    OBVIOUS
  <2> HIDE DEF L
  <2> QED BY <2>1, LeastExists
<1> DEFINE K == {k \in Numbers : <<l, k>> \in S}
<1>2. PICK k \in K : \A m \in K : k <= m
  <2>1. K \in SUBSET Nat /\ K # {}
    <3>1. PICK x \in S : x[1] = l
      BY <1>1
    <3>2. x = <<x[1], x[2]>> /\ x[2] \in Numbers
      OBVIOUS
    <3> QED BY <3>1, <3>2, Types
  <2> HIDE DEF K
  <2> QED BY <2>1, LeastExists
<1>3. <<l, k>> \in S /\ l \in Nat /\ k \in Nat
  BY <1>2, <1>1, Types
<1>4. ASSUME NEW y \in S
      PROVE  l < y[1] \/ (l = y[1] /\ k <= y[2])
  <2>1. y = <<y[1], y[2]>> /\ y[1] \in Nat /\ y[2] \in Numbers /\ l <= y[1]
    BY <1>1
  <2>2. CASE l = y[1]
    BY <2>1, <2>2, <1>2
  <2> QED BY <1>3, <2>1, <2>2
<1>5. \E x \in S : \A y \in S : x[1] < y[1] \/ (x[1] = y[1] /\ x[2] <= y[2])
  <2> DEFINE x == <<l, k>>
  <2>1. x[1] = l /\ x[2] = k
    OBVIOUS
  <2>2. \A y \in S : x[1] < y[1] \/ (x[1] = y[1] /\ x[2] <= y[2])
    BY <1>4, <2>1
  <2> QED BY <1>3, <2>2
<1>6. /\ FirstOf(S) \in S
      /\ \A y \in S : FirstOf(S)[1] < y[1] \/ FirstOf(S)[1] = y[1]
  BY <1>5 DEF FirstOf
<1>7. \A y \in S : y[1] \in Nat
  OBVIOUS
<1> QED BY <1>6, <1>7

-----------------------------------------------------------------------------
(* Types *)

LEMMA InitT == BindInit => TInv
<1> SUFFICES ASSUME BindInit PROVE TInv
  OBVIOUS
<1>1. BindTypeOK
  BY Types DEF BindInit, SettledInit, NodeInit, BindTypeOK, Numbers, Unbound
<1>2. Counts
  BY FS_EmptySet DEF BindInit, Counts
<1> QED BY <1>1, <1>2 DEF TInv

LEMMA NodeT == ASSUME TInv, Grow \/ Revert PROVE TInv'
<1>1. UNCHANGED <<blocks, seen, histories, binder, global, meta>>
  BY DEF Grow, Revert
<1>2. tip' \in BlockId /\ settled' \in BlockId
  <2>1. CASE Grow
    <3>1. tip' \in BlockId
      BY <2>1 DEF Grow, SettledGrow, NodeGrow
    <3>2. SettledBelow(tip') \in BlockId
      BY <3>1, SettledIs, TopOfPath
    <3> QED BY <2>1, <3>1, <3>2 DEF Grow, SettledGrow, TInv, BindTypeOK
  <2>2. CASE Revert
    BY <2>2, Types DEF Revert, SettledRevert, NodeRevert, TInv, BindTypeOK
  <2> QED BY <2>1, <2>2
<1> QED
  BY <1>1, <1>2 DEF TInv, BindTypeOK, Counts, blocks, histories, binder, global

LEMMA RowsT == ASSUME TInv, ImportL2 \/ RollbackL2 PROVE TInv'
<1>1. UNCHANGED <<node, seen, histories, binder, global, meta>>
  BY DEF ImportL2, RollbackL2
<1>2. /\ l2top' \in Numbers \cup {-1}
      /\ bound' \in [Numbers -> Nat \cup {Unbound}]
      /\ status' \in [Numbers -> {"committed", "finalized"}]
  <2> USE DEF TInv, BindTypeOK
  <2>1. CASE ImportL2
    BY <2>1, Types DEF ImportL2, Numbers
  <2>2. CASE RollbackL2
    BY <2>2, Types DEF RollbackL2, Numbers
  <2> QED BY <2>1, <2>2
<1> QED
  BY <1>1, <1>2 DEF TInv, BindTypeOK, Counts, node, histories, binder, global

LEMMA SyncT == ASSUME TInv, SyncWork PROVE TInv'
<1> USE DEF TInv, BindTypeOK
<1>1. CASE SyncForward
  <2>1. PICK b \in SeenNext :
          seen' = b /\ pending' = pending \cup ({<<w, Number[b]>> : w \in WdsAt[b]} \ available)
    BY <1>1 DEF SyncForward
  <2>2. b \in BlockId
    BY <2>1, Types DEF SeenNext, Canonical, Path
  <2>3. \A w \in WdsAt[b] : w \in Wd
    BY <2>2, BindAssumption
  <2>4. pending' \in SUBSET (Wd \X Nat)
    BY <2>1, <2>2, <2>3, Types
  <2> QED
    BY <1>1, <2>1, <2>2, <2>4
       DEF SyncForward, Counts, node, blocks, binder, global
<1>2. CASE SyncBack
  <2>1. seen' \in BlockId \cup {NoBlock}
    BY <1>2, Types DEF SyncBack
  <2>2. /\ bound' \in [Numbers -> Nat \cup {Unbound}]
        /\ status' \in [Numbers -> {"committed", "finalized"}]
    BY <1>2 DEF SyncBack
  <2>3. pending' \subseteq pending /\ available' \subseteq available
    BY <1>2 DEF SyncBack
  <2> QED
    BY <1>2, <2>1, <2>2, <2>3 DEF SyncBack, Counts, node, binder, global
<1> QED BY <1>1, <1>2 DEF SyncWork

\* The highest bound row has a number to resume from.
LEMMA ResumeIs == ASSUME BindTypeOK PROVE ResumeNumber \in Nat
<1> DEFINE b == {k \in Numbers : bound[k] # Unbound}
<1>1. CASE b = {}
  BY <1>1, Types DEF ResumeNumber
<1>2. CASE b # {}
  <2>1. b \in SUBSET Nat /\ IsFiniteSet(b)
    BY Types, FS_Subset
  <2>2. Max(b) \in b
    <3> HIDE DEF b
    <3> QED BY <1>2, <2>1, MaxIs
  <2>3. bound[Max(b)] \in Nat
    BY <2>2 DEF BindTypeOK
  <2> QED BY <1>2, <2>3 DEF ResumeNumber
<1> QED BY <1>1, <1>2

LEMMA RangeIs ==
    ASSUME TInv, bpc = "range"
    PROVE  RangeEnd \in Nat /\ RangeEnd <= bto
BY Types DEF TInv, BindTypeOK, Counts, RangeEnd

\* What the binder reads is in its range, and in the chain.
LEMMA SubmissionsIs ==
    \A x \in Submissions : \E b \in Canonical : \E k \in Commits[b] :
        x = <<Number[b], k>> /\ Number[b] < RangeEnd
BY DEF Submissions

LEMMA BinderT ==
    ASSUME TInv, BindWork \/ BindRetry \/ BindCrash
    PROVE  TInv'
<1> USE DEF TInv, BindTypeOK, Counts
<1>1. CASE BindTip
  BY <1>1, Types DEF BindTip, node, blocks, histories, global
<1>2. CASE BindFetch
  <2>1. RangeEnd \in Nat
    BY <1>2, RangeIs DEF BindFetch
  <2>2. Submissions \subseteq Nat \X Numbers
    <3>1. \A b \in Canonical : Number[b] \in Nat /\ Commits[b] \subseteq Numbers
      BY Types DEF Canonical, Path
    <3> QED BY <3>1, SubmissionsIs
  <2>3. IsFiniteSet(bdone')
    BY <1>2, FS_EmptySet DEF BindFetch
  <2> QED
    BY <1>2, <2>1, <2>2, <2>3 DEF BindFetch, node, blocks, histories, global
<1>3. CASE BindRetry
  BY <1>3 DEF BindRetry, node, blocks, histories, global
<1>4. CASE BindTx
  <2>1. FirstOf(btodo) \in Nat \X Numbers
    BY <1>4, FirstIs DEF BindTx
  <2> DEFINE x == FirstOf(btodo)
  <2>2. x[1] \in Nat /\ x[2] \in Numbers
    BY <2>1
  <2>3. /\ btodo' = btodo \ {x}
        /\ \/ /\ bound' = [bound EXCEPT ![x[2]] = x[1]] /\ bdone' = bdone \cup {x[1]}
           \/ UNCHANGED <<bound, bdone>>
        /\ UNCHANGED <<node, l2top, status, seen, histories, bpc, bnext, bto, global, meta>>
    BY <1>4 DEF BindTx
  <2> HIDE DEF x
  <2>4. IsFiniteSet(bdone') /\ bdone' \in SUBSET Nat
    <3>1. IsFiniteSet(bdone \cup {x[1]})
      BY FS_AddElement
    <3>2. bdone' = bdone \cup {x[1]} \/ bdone' = bdone
      BY <2>3
    <3>3. IsFiniteSet(bdone')
      BY <3>1, <3>2
    <3> QED BY <2>2, <3>2, <3>3
  <2>5. bound' \in [Numbers -> Nat \cup {Unbound}]
    BY <2>2, <2>3
  <2>6. bpc' = "bind" /\ btodo' \in SUBSET (Nat \X Numbers)
    BY <1>4, <2>3 DEF BindTx
  <2> QED BY <2>3, <2>4, <2>5, <2>6 DEF node, histories, global
<1>5. CASE BindDone
  <2>1. bdone # {} => Max(bdone) \in Nat
    BY MaxIs
  <2>2. bnext' \in Nat
    BY <1>5, <2>1 DEF BindDone
  <2>3. IsFiniteSet(bdone')
    BY <1>5, FS_EmptySet DEF BindDone
  <2> QED BY <1>5, <2>2, <2>3 DEF BindDone, node, blocks, histories, global
<1>6. CASE BindCrash
  BY <1>6, ResumeIs, FS_EmptySet DEF BindCrash, node, blocks, histories, global
<1> QED BY <1>1, <1>2, <1>3, <1>4, <1>5, <1>6 DEF BindWork

\* The highest finalized row, or 0.
LEMMA LastFinal ==
    LET S == {0} \cup {k \in Numbers : status[k] = "finalized"}
    IN  Max(S) \in S /\ Max(S) \in Nat
<1> DEFINE A == {k \in Numbers : status[k] = "finalized"}
           S == {0} \cup A
<1>1. IsFiniteSet(A) /\ A \subseteq Nat
  BY Types, FS_Subset
<1> HIDE DEF A
<1>2. IsFiniteSet({0})
  BY FS_Singleton
<1>3. IsFiniteSet({0} \cup A)
  BY <1>1, <1>2, FS_Union
<1>4. S \in SUBSET Nat /\ S # {} /\ IsFiniteSet(S)
  BY <1>1, <1>3
<1> HIDE DEF S
<1>5. Max(S) \in S /\ Max(S) \in Nat
  BY <1>4, MaxIs
<1> QED BY <1>5 DEF S, A

LEMMA GlobalT == ASSUME TInv, GlobalWork \/ GlobalCrash PROVE TInv'
<1> USE DEF TInv, BindTypeOK, Counts
<1>1. CASE GlobalFetch
  BY <1>1, Types DEF GlobalFetch, node, blocks, histories, binder
<1>2. CASE GlobalReadLast
  BY <1>2, LastFinal DEF GlobalReadLast, node, blocks, histories, binder
<1>3. CASE GlobalBlocks
  BY <1>3 DEF GlobalBlocks, node, histories, binder
<1>4. CASE GlobalMeta
  BY <1>4 DEF GlobalMeta, node, blocks, histories, binder
<1>5. CASE GlobalWithdrawals
  <2>1. /\ pending' \subseteq pending \cup available
        /\ available' \subseteq pending \cup available
    BY <1>5 DEF GlobalWithdrawals
  <2> QED BY <1>5, <2>1 DEF GlobalWithdrawals, node, blocks, binder
<1>6. CASE GlobalCrash
  BY <1>6 DEF GlobalCrash, node, blocks, histories, binder
<1> QED BY <1>1, <1>2, <1>3, <1>4, <1>5, <1>6 DEF GlobalWork

LEMMA NextT == TInv /\ [BindNext]_bvars => TInv'
<1> SUFFICES ASSUME TInv, [BindNext]_bvars PROVE TInv'
  OBVIOUS
<1>1. CASE UNCHANGED bvars
  BY <1>1 DEF bvars, node, blocks, histories, binder, global, TInv, BindTypeOK, Counts
<1> QED
  BY <1>1, NodeT, RowsT, SyncT, BinderT, GlobalT DEF BindNext

-----------------------------------------------------------------------------
(* Bindings *)

\* What is settled stays on the chain and near its tip.
LEMMA NodeSettles ==
    ASSUME TInv, Settling, Grow \/ Revert
    PROVE  Settling' /\ settled \in Path(settled')
<1> USE DEF TInv, BindTypeOK, Settling
<1>1. CASE Grow
  <2>1. /\ tip' \in BlockId \ {Genesis} /\ Parent[tip'] = tip
        /\ settled' = IF Number[SettledBelow(tip')] > Number[settled]
                      THEN SettledBelow(tip') ELSE settled
    BY <1>1 DEF Grow, SettledGrow, NodeGrow
  <2> DEFINE c == SettledBelow(tip')
  <2>2. c \in Path(tip') /\ Number[tip'] <= Number[c] + MaxReorg
    BY <2>1, SettledIs
  <2>3. settled' = IF Number[c] > Number[settled] THEN c ELSE settled
    BY <2>1
  <2> HIDE DEF c
  <2>4. /\ settled' \in Path(tip') /\ Number[tip'] <= Number[settled'] + MaxReorg
        /\ settled \in Path(settled')
    BY <2>1, <2>2, <2>3, HigherSettled, ReorgAssumption
  <2> QED BY <2>4 DEF Path
<1>2. CASE Revert
  <2>1. tip' \in Anc[tip] /\ settled \in Path(tip') /\ settled' = settled
    BY <1>2 DEF Revert, SettledRevert, NodeRevert
  <2>2. Number[tip'] < Number[tip] /\ Number[tip'] \in Nat /\ Number[tip] \in Nat
        /\ Number[settled] \in Nat /\ MaxReorg \in Nat
    BY <2>1, TreeAssumption, Types
  <2> QED BY <2>1, <2>2 DEF Path
<1> QED BY <1>1, <1>2

LEMMA Settles ==
    ASSUME TInv, Settling, [BindNext]_bvars
    PROVE  Settling' /\ settled \in Path(settled')
<1>1. CASE Grow \/ Revert
  BY <1>1, NodeSettles
<1>2. CASE UNCHANGED node
  BY <1>2, TopOfPath DEF node, Settling, TInv, BindTypeOK, Path
<1> QED
  BY <1>1, <1>2
     DEF BindNext, bvars, ImportL2, RollbackL2, SyncWork, SyncForward, SyncBack,
         BindWork, BindTip, BindFetch, BindTx, BindDone, BindRetry, BindCrash,
         GlobalWork, GlobalFetch, GlobalReadLast, GlobalBlocks, GlobalMeta,
         GlobalWithdrawals, GlobalCrash

\* Settled submissions stay settled.
LEMMA StaysSubmitted ==
    ASSUME TInv, TInv', settled \in Path(settled'), NEW n, NEW k, SubmittedAt(n, k)
    PROVE  SubmittedAt(n, k)'
<1>1. Path(settled) \subseteq Path(settled')
  BY PathsContain DEF TInv, BindTypeOK
<1> QED BY <1>1 DEF SubmittedAt, Path

\* What the binder reads is settled.
LEMMA ReadIsSettled ==
    ASSUME TInv, Settling, Bindings, bpc = "range", NEW x \in Submissions
    PROVE  SubmittedAt(x[1], x[2])
<1> USE DEF TInv, BindTypeOK
<1>1. PICK c \in Canonical : \E k \in Commits[c] :
        x = <<Number[c], k>> /\ Number[c] < RangeEnd
  BY SubmissionsIs
<1>2. c \in BlockId /\ Number[c] \in Nat /\ Number[settled] \in Nat
  BY <1>1, Types DEF Canonical, Path
<1>3. Number[c] <= Number[settled]
  <2>1. RangeEnd \in Nat /\ RangeEnd <= bto /\ bto <= Number[settled] + 1 /\ bto \in Int
    BY RangeIs DEF Bindings
  <2> QED BY <1>1, <1>2, <2>1
<1>4. c \in Path(settled)
  BY <1>1, <1>3, PathsNest DEF Settling, Canonical
<1> QED BY <1>1, <1>4 DEF SubmittedAt

LEMMA NextBindings ==
    ASSUME MaxReorg <= BindBuffer + 1, BInv, TInv', [BindNext]_bvars
    PROVE  Bindings'
<1> USE DEF BInv
<1>1. Settling' /\ settled \in Path(settled')
  BY Settles
<1>2. Number[settled] <= Number[settled'] /\ Number[settled] \in Nat
      /\ Number[settled'] \in Nat /\ bto \in Int
  BY <1>1, PathsContain, Types DEF TInv, BindTypeOK
<1>3. \A n, k : SubmittedAt(n, k) => SubmittedAt(n, k)'
  BY <1>1, StaysSubmitted
<1>4. ASSUME bto' = bto, btodo' \subseteq btodo,
             \A k \in Numbers : bound'[k] # Unbound => bound'[k] = bound[k]
      PROVE  Bindings'
  BY <1>2, <1>3, <1>4 DEF Bindings
<1>5. CASE Grow \/ Revert \/ UNCHANGED bvars
  BY <1>4, <1>5 DEF Grow, Revert, bvars, blocks, binder
<1>6. CASE ImportL2 \/ RollbackL2
  <2>1. \A k \in Numbers : bound'[k] # Unbound => bound'[k] = bound[k]
    BY <1>6 DEF ImportL2, RollbackL2, TInv, BindTypeOK
  <2> QED BY <1>4, <1>6, <2>1 DEF ImportL2, RollbackL2, binder
<1>7. CASE SyncWork
  <2>1. \A k \in Numbers : bound'[k] # Unbound => bound'[k] = bound[k]
    BY <1>7 DEF SyncWork, SyncForward, SyncBack, blocks
  <2> QED BY <1>4, <1>7, <2>1 DEF SyncWork, SyncForward, SyncBack, binder
<1>8. CASE BindTip
  <2>1. bto' = Number[tip] - BindBuffer /\ Number[tip] <= Number[settled] + MaxReorg
    BY <1>8 DEF BindTip, Settling
  <2>2. Number[tip] \in Nat /\ BindBuffer \in Nat /\ MaxReorg \in Nat
    BY Types DEF TInv, BindTypeOK
  <2>3. bto' <= Number[settled'] + 1
    BY <1>2, <2>1, <2>2
  <2> QED BY <1>3, <1>8, <2>3 DEF BindTip, Bindings, blocks
<1>9. CASE BindFetch
  <2>1. bpc = "range" /\ btodo' = Submissions /\ bto' = bto /\ bound' = bound
    BY <1>9 DEF BindFetch, blocks
  <2>2. \A x \in btodo' : SubmittedAt(x[1], x[2])'
    BY <1>3, <2>1, ReadIsSettled
  <2> QED BY <1>2, <1>3, <2>1, <2>2 DEF Bindings
<1>10. CASE BindTx
  <2>1. PICK x \in btodo : x = FirstOf(btodo)
    BY <1>10, FirstIs DEF BindTx, TInv, BindTypeOK
  <2>2. /\ btodo' = btodo \ {x} /\ bto' = bto
        /\ bound' = [bound EXCEPT ![x[2]] = x[1]] \/ bound' = bound
    BY <1>10, <2>1 DEF BindTx
  <2>3. SubmittedAt(x[1], x[2])' /\ x[2] \in Numbers
    BY <1>3, <2>1 DEF Bindings, TInv, BindTypeOK
  <2>4. ASSUME NEW k \in Numbers, NEW n, n = bound'[k], n # Unbound
        PROVE  SubmittedAt(n, k)'
    <3>1. CASE k = x[2] /\ bound' = [bound EXCEPT ![x[2]] = x[1]]
      BY <2>3, <2>4, <3>1 DEF TInv, BindTypeOK
    <3>2. CASE k # x[2] \/ bound' = bound
      <4>1. n = bound[k]
        BY <2>2, <2>4, <3>2 DEF TInv, BindTypeOK
      <4> QED BY <1>3, <2>4, <4>1 DEF Bindings
    <3> QED BY <2>2, <3>1, <3>2
  <2>5. \A y \in btodo' : SubmittedAt(y[1], y[2])'
    BY <1>3, <2>2 DEF Bindings
  <2> QED BY <1>2, <2>2, <2>4, <2>5 DEF Bindings
<1>11. CASE BindDone \/ BindRetry \/ BindCrash
  BY <1>4, <1>11 DEF BindDone, BindRetry, BindCrash, blocks
<1>12. CASE GlobalWork \/ GlobalCrash
  BY <1>4, <1>12
     DEF GlobalWork, GlobalFetch, GlobalReadLast, GlobalBlocks, GlobalMeta,
         GlobalWithdrawals, GlobalCrash, blocks, binder
<1> QED
  BY <1>5, <1>6, <1>7, <1>8, <1>9, <1>10, <1>11, <1>12 DEF BindNext, BindWork

LEMMA InitB == BindInit => BInv
<1> SUFFICES ASSUME BindInit PROVE BInv
  OBVIOUS
<1>1. TInv
  BY InitT
<1>2. Settling /\ Bindings
  BY TreeAssumption, Types DEF BindInit, SettledInit, NodeInit, Settling, Bindings, Path, Unbound
<1> QED BY <1>1, <1>2 DEF BInv

LEMMA NextB ==
    ASSUME MaxReorg <= BindBuffer + 1, BInv, [BindNext]_bvars
    PROVE  BInv'
BY NextT, Settles, NextBindings DEF BInv

\* The path of the settled block is part of the chain.
LEMMA BoundIsCanonical == BInv => BoundToCanonical
<1> SUFFICES ASSUME BInv PROVE BoundToCanonical
  OBVIOUS
<1>1. Path(settled) \subseteq Canonical
  BY PathsContain DEF BInv, Settling, TInv, BindTypeOK, Canonical
<1> QED BY <1>1 DEF BoundToCanonical, BInv, Bindings, SubmittedAt

-----------------------------------------------------------------------------
(* Finality *)

\* SyncL1BlockWorker steps back from a lost block only.
LEMMA BackFromLost ==
    ASSUME TInv, SyncBack
    PROVE  /\ seen \in BlockId /\ seen \notin Canonical /\ seen # Genesis
           /\ seen' \in {NoBlock, Parent[seen]} /\ Parent[seen] \in BlockId
           /\ Anc[seen] = Path(Parent[seen]) /\ Number[seen] = Number[Parent[seen]] + 1
<1> USE DEF TInv, BindTypeOK
<1>1. PICK b \in SeenNext : Parent[b] # seen
  BY DEF SyncBack
<1>2. /\ seen \in BlockId /\ b \in Canonical /\ Number[b] = Number[seen] + 1
      /\ b \in BlockId /\ Number[seen] \in Nat
  BY <1>1, Types DEF SyncBack, SeenNext, Canonical, Path
<1>3. seen \notin Canonical /\ seen # Genesis
  BY <1>1, <1>2, ForkIsLost DEF Canonical
<1>4. seen' \in {NoBlock, Parent[seen]}
  BY DEF SyncBack
<1> QED BY <1>2, <1>3, <1>4, Types, TreeAssumption DEF Path

\* Two settled blocks, or a settled one and one of the chain.
LEMMA SettledOrAbove ==
    ASSUME TInv, Settling, NEW b \in Canonical
    PROVE  \/ b \in Path(settled)
           \/ settled \in Path(b) /\ Number[settled] < Number[b]
BY OnOrAbove DEF TInv, BindTypeOK, Settling, Canonical

LEMMA NextNear ==
    ASSUME TInv, Settling, NearFork, [BindNext]_bvars
    PROVE  NearFork'
<1>1. Settling' /\ settled \in Path(settled') /\ TInv'
  BY Settles, NextT
<1>2. Path(settled) \subseteq Path(settled')
  BY <1>1, PathsContain DEF TInv, BindTypeOK
<1> USE DEF TInv, BindTypeOK
<1>3. CASE UNCHANGED node /\ seen' = seen
  BY <1>3 DEF node, NearFork, Canonical, Path
<1>4. CASE Grow
  <2>1. /\ tip' \in BlockId /\ tip' # Genesis /\ Parent[tip'] = tip /\ seen' = seen
        /\ seen \notin {NoBlock} \cup Canonical => Number[tip'] <= Number[seen] + MaxLag
    BY <1>4 DEF Grow, SettledGrow, NodeGrow
  <2>2. Path(tip) \subseteq Path(tip')
    BY <2>1, TreeAssumption DEF Path
  <2>3. ASSUME seen \notin {NoBlock} \cup Path(tip') PROVE NearFork'
    <3>1. PICK f \in Path(settled) \cap Path(seen) : Number[seen] <= Number[f] + MaxReorg
      BY <2>2, <2>3 DEF NearFork, Canonical
    <3>2. Number[tip'] <= Number[seen] + MaxLag
      BY <2>1, <2>2, <2>3 DEF Canonical
    <3>3. /\ Number[tip'] \in Nat /\ Number[seen] \in Nat /\ Number[f] \in Nat
          /\ MaxLag \in Nat /\ MaxReorg \in Nat
      BY <2>1, <2>3, <3>1, Types DEF Path
    <3>4. Number[tip'] <= Number[f] + MaxReorg + MaxLag
      BY <3>1, <3>2, <3>3
    <3>5. f \in Path(settled') \cap Path(seen)
      BY <1>2, <3>1
    <3> QED BY <2>1, <3>1, <3>4, <3>5 DEF NearFork, Path
  <2> QED BY <2>1, <2>3 DEF NearFork, Canonical, Path
<1>5. CASE Revert
  <2>1. tip' \in Anc[tip] /\ settled' = settled /\ seen' = seen
        /\ settled \in Path(tip')
    BY <1>5 DEF Revert, SettledRevert, NodeRevert
  <2>2. /\ Number[tip'] < Number[tip] /\ Number[tip'] \in Nat /\ Number[tip] \in Nat
        /\ Number[settled] \in Nat /\ MaxReorg \in Nat /\ MaxLag \in Nat
        /\ tip' \in BlockId
    BY <2>1, TreeAssumption, Types
  <2>3. CASE seen \in Canonical \ Path(tip')
    <3>1. seen \in BlockId /\ Number[seen] \in Nat /\ Number[seen] <= Number[tip]
      BY <2>3, PathsContain, Types DEF Canonical
    <3>2. settled \in Path(seen)
      BY <2>1, <2>3, SettledOrAbove, <2>2, PathsContain
    <3>3. /\ Number[seen] <= Number[settled] + MaxReorg
          /\ Number[tip'] <= Number[settled] + MaxReorg + MaxLag
      BY <2>2, <3>1 DEF Settling
    <3>4. settled \in Path(settled) \cap Path(seen)
      BY <3>2 DEF Path
    <3> QED BY <2>1, <3>3, <3>4 DEF NearFork, Path
  <2>4. CASE seen \notin {NoBlock} \cup Canonical
    <3>1. PICK f \in Path(settled) \cap Path(seen) :
            /\ Number[seen] <= Number[f] + MaxReorg
            /\ Number[tip] <= Number[f] + MaxReorg + MaxLag
      BY <2>4 DEF NearFork
    <3>2. Number[f] \in Nat
      BY <3>1, Types DEF Path
    <3>3. Number[tip'] <= Number[f] + MaxReorg + MaxLag
      BY <2>2, <3>1, <3>2
    <3> QED BY <2>1, <3>1, <3>3 DEF NearFork, Path
  <2>5. CASE seen \in {NoBlock} \cup Path(tip')
    BY <2>1, <2>5 DEF NearFork, Canonical, Path
  <2> QED BY <2>3, <2>4, <2>5 DEF Canonical
<1>6. CASE SyncForward
  <2>1. seen' \in Canonical /\ tip' = tip
    BY <1>6 DEF SyncForward, SeenNext, node
  <2> QED BY <2>1 DEF NearFork, Canonical, Path
<1>7. CASE SyncBack
  <2>1. /\ seen \in BlockId /\ seen \notin Canonical
        /\ seen' \in {NoBlock, Parent[seen]} /\ Parent[seen] \in BlockId
        /\ Anc[seen] = Path(Parent[seen]) /\ Number[seen] = Number[Parent[seen]] + 1
        /\ tip' = tip /\ settled' = settled
    BY <1>7, BackFromLost DEF SyncBack, node
  <2>2. CASE seen' = NoBlock
    BY <2>2 DEF NearFork
  <2>3. CASE seen' = Parent[seen]
    <3>1. PICK f \in Path(settled) \cap Path(seen) :
            /\ Number[seen] <= Number[f] + MaxReorg
            /\ Number[tip] <= Number[f] + MaxReorg + MaxLag
      BY <2>1, Types DEF NearFork
    <3>2. f # seen
      BY <2>1, <3>1, PathsContain DEF Settling, Canonical
    <3>3. f \in Path(settled) \cap Path(Parent[seen])
      BY <2>1, <3>1, <3>2 DEF Path
    <3>4. Number[Parent[seen]] <= Number[f] + MaxReorg
      <4>1. Number[Parent[seen]] \in Nat /\ Number[f] \in Nat /\ MaxReorg \in Nat
        BY <2>1, <3>1, Types DEF Path
      <4> QED BY <2>1, <3>1, <4>1
    <3> QED BY <2>1, <2>3, <3>1, <3>3, <3>4 DEF NearFork, Path
  <2> QED BY <2>1, <2>2, <2>3
<1> QED
  BY <1>3, <1>4, <1>5, <1>6, <1>7
     DEF BindNext, bvars, ImportL2, RollbackL2, SyncWork, BindWork, BindTip,
         BindFetch, BindTx, BindDone, BindRetry, BindCrash, GlobalWork, GlobalFetch,
         GlobalReadLast, GlobalBlocks, GlobalMeta, GlobalWithdrawals, GlobalCrash

\* No step makes a submission unsafe.
LEMMA StaysSafe ==
    ASSUME TInv, Settling, [BindNext]_bvars, NEW k, Safe(k)
    PROVE  Safe(k)'
<1>1. Settling' /\ settled \in Path(settled') /\ TInv'
  BY Settles, NextT
<1>2. Path(settled) \subseteq Path(settled')
  BY <1>1, PathsContain DEF TInv, BindTypeOK
<1> USE DEF TInv, BindTypeOK
<1>3. PICK a \in Path(settled) :
        k \in Commits[a] /\ (seen \in {NoBlock} \cup Path(settled) \/ a \in Path(seen))
  BY DEF Safe
<1>4. CASE seen' = seen
  BY <1>2, <1>3, <1>4 DEF Safe, Path
<1>5. CASE SyncForward
  <2>1. /\ seen' \in Canonical /\ seen' \in BlockId /\ settled' = settled
        /\ \/ seen = NoBlock
           \/ Parent[seen'] = seen /\ Number[seen'] = Number[seen] + 1
    <3>1. PICK b \in SeenNext : (seen = NoBlock \/ Parent[b] = seen) /\ seen' = b
      BY <1>5 DEF SyncForward
    <3>2. settled' = settled
      BY <1>5 DEF SyncForward, node
    <3>3. b \in Canonical /\ b \in BlockId /\ (seen # NoBlock => Number[b] = Number[seen] + 1)
      BY <3>1, Types DEF SeenNext, Canonical, Path
    <3> QED BY <3>1, <3>2, <3>3
  <2>2. CASE seen \notin {NoBlock} \cup Path(settled)
    <3>1. a \in Path(seen) /\ seen \in BlockId /\ Number[seen] \in Nat
      BY <1>3, <2>2, Types
    <3>2. Number[seen'] # 0
      BY <2>1, <2>2, <3>1
    <3>3. a \in Path(seen')
      BY <2>1, <2>2, <3>1, <3>2, PathOfParent
    <3> QED BY <1>3, <2>1, <3>3 DEF Safe, Path
  <2>3. CASE settled \in Path(seen')
    <3>1. a \in Path(seen')
      BY <1>3, <2>1, <2>3, PathsContain
    <3> QED BY <1>3, <2>1, <3>1 DEF Safe, Path
  <2>4. CASE seen' \in Path(settled)
    BY <1>3, <2>1, <2>4 DEF Safe, Path
  <2> QED BY <2>1, <2>3, <2>4, SettledOrAbove
<1>6. CASE SyncBack
  <2>1. /\ seen \in BlockId /\ seen \notin Canonical
        /\ seen' \in {NoBlock, Parent[seen]}
        /\ Anc[seen] = Path(Parent[seen]) /\ settled' = settled
    BY <1>6, BackFromLost DEF SyncBack, node
  <2>2. Path(settled) \subseteq Canonical
    BY PathsContain DEF Settling, Canonical
  <2>3. a \in Path(seen) /\ a # seen
    BY <1>3, <2>1, <2>2, Types
  <2>4. a \in Path(Parent[seen])
    BY <2>1, <2>3 DEF Path
  <2> QED BY <1>3, <2>1, <2>4 DEF Safe, Path
<1> QED
  BY <1>4, <1>5, <1>6
     DEF BindNext, bvars, Grow, Revert, ImportL2, RollbackL2, SyncWork, BindWork,
         BindTip, BindFetch, BindTx, BindDone, BindRetry, BindCrash, GlobalWork,
         GlobalFetch, GlobalReadLast, GlobalBlocks, GlobalMeta, GlobalWithdrawals,
         GlobalCrash

\* What the rollup cell at the tip calls final is safe: it was submitted
\* below every place where a branch may part.
LEMMA FinalIsSafe ==
    ASSUME TInv, Settling, NearFork, NEW k \in 1 .. FinalOf[tip]
    PROVE  Safe(k)
<1> USE DEF TInv, BindTypeOK
<1>1. PICK a \in Anc[tip] :
        k \in Commits[a] /\ Number[a] + MaxReorg + MaxLag < Number[tip]
  BY ChallengeAssumption
<1>2. /\ a \in BlockId /\ Number[a] \in Nat /\ Number[tip] \in Nat
      /\ Number[settled] \in Nat /\ MaxReorg \in Nat /\ MaxLag \in Nat
      /\ a \in Path(tip)
  BY <1>1, Types DEF Path
<1>3. Number[a] <= Number[settled]
  BY <1>1, <1>2 DEF Settling
<1>4. a \in Path(settled)
  BY <1>2, <1>3, PathsNest DEF Settling
<1>5. CASE seen \in {NoBlock} \cup Path(settled)
  BY <1>1, <1>4, <1>5 DEF Safe
<1>6. CASE seen \in Canonical \ Path(settled)
  <2>1. settled \in Path(seen) /\ seen \in BlockId
    BY <1>6, SettledOrAbove, PathsContain DEF Canonical
  <2>2. a \in Path(seen)
    BY <1>4, <2>1, PathsContain
  <2> QED BY <1>1, <1>4, <2>2 DEF Safe
<1>7. CASE seen \notin {NoBlock} \cup Canonical
  <2>1. PICK f \in Path(settled) \cap Path(seen) :
          Number[tip] <= Number[f] + MaxReorg + MaxLag
    BY <1>7 DEF NearFork
  <2>2. Number[f] \in Nat /\ seen \in BlockId
    BY <1>7, <2>1, Types DEF Path
  <2>3. Number[a] <= Number[f]
    BY <1>1, <1>2, <2>1, <2>2
  <2>4. a \in Path(f)
    BY <1>4, <2>1, <2>3, PathsNest
  <2>5. a \in Path(seen)
    BY <2>1, <2>2, <2>4, PathsContain
  <2> QED BY <1>1, <1>4, <2>5 DEF Safe
<1> QED BY <1>5, <1>6, <1>7

\* A reset does not take a final row: its binding names the block of its only
\* submission, which SyncL1BlockWorker does not step back from.
LEMMA ResetSparesFinal ==
    ASSUME BInv, SyncBack, NEW k \in Numbers, Safe(k)
    PROVE  bound[k] # Number[seen]
<1> USE DEF BInv, TInv, BindTypeOK
<1>1. seen \in BlockId /\ seen \notin Canonical /\ Number[seen] \in Nat
  BY BackFromLost, Types
<1>2. Path(settled) \subseteq Canonical
  BY PathsContain DEF Settling, Canonical
<1>3. PICK a \in Path(settled) : k \in Commits[a] /\ a \in Path(seen)
  BY <1>1, <1>2, Types DEF Safe
<1>4. SUFFICES ASSUME bound[k] = Number[seen] PROVE FALSE
  OBVIOUS
<1>5. PICK b \in Path(settled) : Number[b] = Number[seen] /\ k \in Commits[b]
  BY <1>1, <1>4 DEF Bindings, SubmittedAt, Unbound
<1>6. a = b
  BY <1>3, <1>5, SubmissionAssumption DEF Path
<1>7. a = seen
  BY <1>1, <1>3, <1>5, <1>6, TopOfPath
<1> QED BY <1>1, <1>2, <1>3, <1>7

\* A final row is submitted, and the layer 2 node does not take it back.
LEMMA RollbackSparesFinal ==
    ASSUME BInv, RollbackL2, NEW k \in Numbers, Safe(k)
    PROVE  k # l2top
<1>1. Path(settled) \subseteq Path(tip)
  BY PathsContain DEF BInv, TInv, BindTypeOK, Settling
<1>2. k \in SubmittedBy(tip)
  BY <1>1 DEF Safe, SubmittedBy
<1> QED BY <1>2 DEF RollbackL2

\* No step takes finality back.
LEMMA StaysFinal ==
    ASSUME FInv, [BindNext]_bvars, NEW k \in Numbers, Final(k)
    PROVE  Final(k)'
<1> USE DEF FInv, BInv, TInv, BindTypeOK
<1>1. k \in 1 .. l2top /\ Safe(k)
  BY DEF Finals
<1>2. CASE status' = status
  BY <1>2 DEF Final
<1>3. CASE ImportL2
  BY <1>1, <1>3, Types DEF ImportL2, Final
<1>4. CASE RollbackL2
  BY <1>1, <1>4, RollbackSparesFinal DEF RollbackL2, Final
<1>5. CASE SyncBack
  BY <1>1, <1>5, ResetSparesFinal DEF SyncBack, Final
<1>6. CASE GlobalBlocks
  BY <1>6 DEF GlobalBlocks, Final
<1> QED
  BY <1>2, <1>3, <1>4, <1>5, <1>6
     DEF BindNext, bvars, blocks, Grow, Revert, SyncWork, SyncForward, BindWork,
         BindTip, BindFetch, BindTx, BindDone, BindRetry, BindCrash, GlobalWork,
         GlobalFetch, GlobalReadLast, GlobalMeta, GlobalWithdrawals, GlobalCrash

LEMMA NextFinals ==
    ASSUME FInv, [BindNext]_bvars
    PROVE  Finals'
<1> USE DEF FInv, BInv
<1>1. \A k : Safe(k) => Safe(k)'
  BY StaysSafe
<1>2. \A k \in Numbers : Final(k) => Final(k)'
  BY StaysFinal
<1>3. ASSUME \A k \in Numbers : Final(k)' => Final(k) /\ k \in 1 .. l2top',
             UNCHANGED <<gpc, gfinal, glast>> \/ gpc' \notin {"last", "blocks"}
      PROVE  Finals'
  <2>1. \A k \in Numbers : Final(k)' =>
          k \in 1 .. l2top' /\ Safe(k)' /\ \A j \in 1 .. k : Final(j)'
    <3>1. ASSUME NEW k \in Numbers, Final(k)'
          PROVE  k \in 1 .. l2top' /\ Safe(k)'
      BY <1>1, <1>3, <3>1 DEF Finals
    <3>2. ASSUME NEW k \in Numbers, Final(k)', NEW j \in 1 .. k
          PROVE  Final(j)'
      <4>1. j \in Numbers
        BY <3>2, Types DEF Numbers
      <4>2. Final(j)
        BY <1>3, <3>2 DEF Finals
      <4> QED BY <1>2, <4>1, <4>2
    <3> QED BY <3>1, <3>2
  <2>2. gpc' \in {"last", "blocks"} => \A k \in 1 .. gfinal' : Safe(k)'
    BY <1>1, <1>3 DEF Finals
  <2>3. gpc' = "blocks" => glast' = 0 \/ (glast' \in Numbers /\ Final(glast)')
    <3>1. CASE UNCHANGED <<gpc, gfinal, glast>> /\ glast \in Numbers
      BY <1>2, <3>1 DEF Finals, Final
    <3>2. CASE ~(UNCHANGED <<gpc, gfinal, glast>> /\ glast \in Numbers)
      BY <1>3, <3>2 DEF Finals
    <3> QED BY <3>1, <3>2
  <2> QED BY <2>1, <2>2, <2>3 DEF Finals
<1>4. ASSUME status' = status, l2top' = l2top,
             UNCHANGED <<gpc, gfinal, glast>> \/ gpc' \notin {"last", "blocks"}
      PROVE  Finals'
  <2>1. \A k \in Numbers : Final(k)' => Final(k) /\ k \in 1 .. l2top'
    BY <1>4 DEF Finals, Final
  <2> QED BY <1>3, <1>4, <2>1
<1>5. CASE ImportL2
  <2>1. \A k \in Numbers : Final(k)' => Final(k) /\ k \in 1 .. l2top'
    BY <1>5, Types DEF ImportL2, Finals, Final, TInv, BindTypeOK, Numbers
  <2> QED BY <1>3, <1>5, <2>1 DEF ImportL2, global
<1>6. CASE RollbackL2
  <2>1. ASSUME NEW k \in Numbers, Final(k)' PROVE Final(k) /\ k \in 1 .. l2top'
    <3>1. Final(k)
      BY <1>6, <2>1 DEF RollbackL2, Final, TInv, BindTypeOK
    <3>2. k # l2top /\ k \in 1 .. l2top
      BY <1>6, <3>1, RollbackSparesFinal DEF Finals
    <3> QED BY <1>6, <3>1, <3>2, Types DEF RollbackL2, TInv, BindTypeOK, Numbers
  <2> QED BY <1>3, <1>6, <2>1 DEF RollbackL2, global
<1>7. CASE SyncBack
  <2>1. \A k \in Numbers : Final(k)' => Final(k) /\ k \in 1 .. l2top'
    BY <1>7 DEF SyncBack, Finals, Final
  <2> QED BY <1>3, <1>7, <2>1 DEF SyncBack, global
<1>8. CASE GlobalFetch
  <2>1. /\ gfinal' = FinalOf[tip] /\ gpc' = "last" /\ status' = status /\ l2top' = l2top
    BY <1>8 DEF GlobalFetch, blocks
  <2>2. \A k \in 1 .. gfinal' : Safe(k)'
    BY <1>1, <2>1, FinalIsSafe
  <2> QED BY <1>1, <1>2, <2>1, <2>2 DEF Finals, Final
<1>9. CASE GlobalReadLast
  <2>1. /\ glast' = Max({0} \cup {k \in Numbers : status[k] = "finalized"})
        /\ gpc = "last" /\ gfinal' = gfinal /\ status' = status /\ l2top' = l2top
    BY <1>9 DEF GlobalReadLast, blocks
  <2>2. glast' = 0 \/ (glast' \in Numbers /\ Final(glast)')
    BY <2>1, LastFinal DEF Final
  <2> QED BY <1>1, <1>2, <2>1, <2>2 DEF Finals, Final
<1>10. CASE GlobalBlocks
  <2>1. /\ gpc = "blocks" /\ gpc' = "meta" /\ l2top' = l2top
        /\ status' = [k \in Numbers |->
                IF k <= l2top /\ glast < k /\ k <= gfinal THEN "finalized" ELSE status[k]]
    BY <1>10 DEF GlobalBlocks
  <2>2. glast \in Nat /\ gfinal \in Nat /\ l2top \in Int
    BY Types DEF TInv, BindTypeOK
  <2>3. ASSUME NEW k \in Numbers, Final(k)', ~Final(k)
        PROVE  k \in 1 .. l2top' /\ Safe(k)' /\ \A j \in 1 .. k : Final(j)'
    <3>1. k <= l2top /\ glast < k /\ k <= gfinal /\ k \in Nat
      BY <2>1, <2>3, Types DEF Final
    <3>2. k \in 1 .. l2top' /\ k \in 1 .. gfinal
      BY <2>1, <2>2, <3>1
    <3>3. Safe(k)'
      BY <1>1, <2>1, <3>2 DEF Finals
    <3>4. ASSUME NEW j \in 1 .. k PROVE Final(j)'
      <4>1. j \in Numbers
        BY <3>1, Types DEF Numbers
      <4>2. CASE glast < j
        BY <2>1, <2>2, <3>1, <4>1, <4>2 DEF Final
      <4>3. CASE j <= glast
        <5>1. glast \in Numbers /\ Final(glast)
          BY <2>1, <2>2, <4>3 DEF Finals
        <5>2. Final(j)
          BY <2>2, <4>3, <5>1 DEF Finals
        <5> QED BY <1>2, <4>1, <5>2
      <4> QED BY <2>2, <3>1, <4>2, <4>3
    <3> QED BY <3>2, <3>3, <3>4
  <2>4. ASSUME NEW k \in Numbers, Final(k)
        PROVE  k \in 1 .. l2top' /\ Safe(k)' /\ \A j \in 1 .. k : Final(j)'
    <3>1. k \in 1 .. l2top' /\ Safe(k)'
      BY <1>1, <2>1, <2>4 DEF Finals
    <3>2. ASSUME NEW j \in 1 .. k PROVE Final(j)'
      <4>1. j \in Numbers
        BY <3>2, Types DEF Numbers
      <4>2. Final(j)
        BY <2>4, <3>2 DEF Finals
      <4> QED BY <1>2, <4>1, <4>2
    <3> QED BY <3>1, <3>2
  <2> QED BY <2>1, <2>3, <2>4 DEF Finals
<1> QED
  BY <1>4, <1>5, <1>6, <1>7, <1>8, <1>9, <1>10
     DEF BindNext, bvars, blocks, global, Grow, Revert, SyncWork, SyncForward,
         BindWork, BindTip, BindFetch, BindTx, BindDone, BindRetry, BindCrash,
         GlobalWork, GlobalMeta, GlobalWithdrawals, GlobalCrash

LEMMA InitF == BindInit => FInv
<1> SUFFICES ASSUME BindInit PROVE FInv
  OBVIOUS
<1>1. NearFork /\ Finals
  BY DEF BindInit, NearFork, Finals, Final, Numbers
<1> QED BY <1>1, InitB DEF FInv

LEMMA NextF ==
    ASSUME MaxReorg <= BindBuffer + 1, FInv, [BindNext]_bvars
    PROVE  FInv'
BY NextB, NextNear, NextFinals DEF FInv, BInv

-----------------------------------------------------------------------------
(* Only resets unbind *)

RowsBound == \A k \in Numbers : bound[k] # Unbound => k <= l2top

KInv == FInv /\ RowsBound

\* A chain has one submission of a layer 2 block.
LEMMA OneSubmission ==
    ASSUME TInv, NEW k, NEW m, SubmittedAt(m, k), NEW n, SubmittedAt(n, k)
    PROVE  m = n
<1>1. PICK a \in Path(settled) : Number[a] = m /\ k \in Commits[a]
  BY DEF SubmittedAt
<1>2. PICK c \in Path(settled) : Number[c] = n /\ k \in Commits[c]
  BY DEF SubmittedAt
<1>3. a = c
  BY <1>1, <1>2, SubmissionAssumption DEF TInv, BindTypeOK, Path
<1> QED BY <1>1, <1>2, <1>3

\* No row that the layer 2 node takes back is bound.
LEMMA RollbackSparesBound ==
    ASSUME BInv, RollbackL2
    PROVE  l2top \in Numbers /\ bound[l2top] = Unbound
<1> USE DEF BInv, TInv, BindTypeOK
<1>1. l2top \in Numbers /\ l2top \notin SubmittedBy(tip)
  BY Types DEF RollbackL2, Numbers
<1>2. Path(settled) \subseteq Path(tip)
  BY PathsContain DEF Settling
<1>3. \A n : ~SubmittedAt(n, l2top)
  BY <1>1, <1>2 DEF SubmittedAt, SubmittedBy
<1> QED BY <1>1, <1>3 DEF Bindings

\* The binding that BindTx makes, if it makes one.
LEMMA TxBinds ==
    ASSUME BInv, BindTx
    PROVE  \E x \in btodo :
              /\ x[1] \in Nat /\ x[2] \in Numbers /\ SubmittedAt(x[1], x[2])
              /\ \/ x[2] <= l2top /\ bound' = [bound EXCEPT ![x[2]] = x[1]]
                 \/ bound' = bound
              /\ l2top' = l2top
<1> USE DEF BInv, TInv, BindTypeOK
<1>1. PICK x \in btodo : x = FirstOf(btodo)
  BY FirstIs DEF BindTx
<1>2. x[1] \in Nat /\ x[2] \in Numbers /\ SubmittedAt(x[1], x[2])
  BY DEF Bindings
<1> QED BY <1>1, <1>2 DEF BindTx

\* What else than a reset happens leaves a binding as it is.
LEMMA KeepsBound ==
    ASSUME KInv, [BindNext]_bvars, ~SyncBack, NEW k \in Numbers, bound[k] # Unbound
    PROVE  bound'[k] = bound[k] /\ k <= l2top'
<1> USE DEF KInv, FInv, BInv, TInv, BindTypeOK
<1>1. k <= l2top
  BY DEF RowsBound
<1>2. CASE ImportL2
  BY <1>1, <1>2, Types DEF ImportL2, Numbers
<1>3. CASE RollbackL2
  BY <1>1, <1>3, RollbackSparesBound, Types DEF RollbackL2
<1>4. CASE BindTx
  <2>1. PICK x \in btodo :
          /\ x[2] \in Numbers /\ SubmittedAt(x[1], x[2]) /\ l2top' = l2top
          /\ bound' = [bound EXCEPT ![x[2]] = x[1]] \/ bound' = bound
    BY <1>4, TxBinds
  <2>2. SubmittedAt(bound[k], k)
    BY DEF Bindings
  <2>3. x[2] = k => bound[k] = x[1]
    BY <2>1, <2>2, OneSubmission
  <2> QED BY <1>1, <2>1, <2>3
<1> QED
  BY <1>1, <1>2, <1>3, <1>4
     DEF BindNext, bvars, blocks, Grow, Revert, SyncWork, SyncForward, BindWork,
         BindTip, BindFetch, BindDone, BindRetry, BindCrash, GlobalWork,
         GlobalFetch, GlobalReadLast, GlobalBlocks, GlobalMeta, GlobalWithdrawals,
         GlobalCrash

LEMMA ResetUnbinds ==
    ASSUME KInv, SyncBack, NEW k \in Numbers, bound[k] # Unbound, bound'[k] # bound[k]
    PROVE  /\ bound'[k] = Unbound /\ k <= l2top' /\ status[k] = "committed"
           /\ seen \notin {NoBlock} \cup Canonical
           /\ bound[k] = Number[seen] /\ seen' \in {NoBlock, Parent[seen]}
<1> USE DEF KInv, FInv, BInv, TInv, BindTypeOK
<1>1. bound'[k] = Unbound /\ bound[k] = Number[seen] /\ l2top' = l2top
  BY DEF SyncBack
<1>2. seen \notin {NoBlock} \cup Canonical /\ seen' \in {NoBlock, Parent[seen]}
  BY BackFromLost, Types
<1>3. ~Final(k)
  BY <1>1, ResetSparesFinal DEF Finals
<1> QED BY <1>1, <1>2, <1>3 DEF RowsBound, Final

\* A new binding is one of a stored row.
LEMMA NextRowsBound ==
    ASSUME KInv, [BindNext]_bvars
    PROVE  RowsBound'
<1> USE DEF KInv, FInv, BInv, TInv, BindTypeOK
<1> SUFFICES ASSUME NEW k \in Numbers, bound'[k] # Unbound PROVE k <= l2top'
  BY DEF RowsBound
<1>1. CASE SyncBack
  <2>1. bound[k] # Unbound /\ l2top' = l2top
    BY <1>1 DEF SyncBack
  <2> QED BY <2>1 DEF RowsBound
<1>2. CASE ~SyncBack /\ bound[k] # Unbound
  BY <1>2, KeepsBound
<1>3. CASE bound[k] = Unbound
  <2>1. CASE BindTx
    <3>1. PICK x \in btodo :
            /\ x[2] \in Numbers /\ l2top' = l2top
            /\ \/ x[2] <= l2top /\ bound' = [bound EXCEPT ![x[2]] = x[1]]
               \/ bound' = bound
      BY <2>1, TxBinds
    <3> QED BY <1>3, <3>1
  <2>2. CASE ~BindTx
    BY <1>3, <2>2
       DEF BindNext, bvars, blocks, Grow, Revert, ImportL2, RollbackL2, SyncWork,
           SyncForward, SyncBack, BindWork, BindTip, BindFetch, BindDone,
           BindRetry, BindCrash, GlobalWork, GlobalFetch, GlobalReadLast,
           GlobalBlocks, GlobalMeta, GlobalWithdrawals, GlobalCrash
  <2> QED BY <2>1, <2>2
<1> QED BY <1>1, <1>2, <1>3

-----------------------------------------------------------------------------
(* Theorems *)

\* The positions and bindings of the four workers keep their types: the
\* binder finds a highest bound row when there is one, and asks for ranges of
\* numbers only.
THEOREM BindTypeCorrect == BindSpec => []BindTypeOK
<1>1. TInv => BindTypeOK
  BY DEF TInv
<1> QED BY <1>1, InitT, NextT, PTL DEF BindSpec

LEMMA FInvAlways == ASSUME MaxReorg <= BindBuffer + 1 PROVE BindSpec => []FInv
<1>1. FInv /\ [BindNext]_bvars => FInv'
  BY NextF
<1> QED BY <1>1, InitF, PTL DEF BindSpec

\* When reorganisations are at most one block deeper than the binder's buffer
\* (its ranges leave their end out), each binding names the block of the
\* chain that the layer 2 block was submitted in.
THEOREM BoundToCanonicalAlways ==
    ASSUME MaxReorg <= BindBuffer + 1 PROVE BindSpec => []BoundToCanonical
<1>1. FInv => BoundToCanonical
  BY BoundIsCanonical DEF FInv
<1> QED BY <1>1, FInvAlways, PTL

\* Then the final rows are always a prefix of the stored ones, although
\* GlobalStateWorker goes on from the highest final row it once read.
THEOREM FinalizedPrefixAlways ==
    ASSUME MaxReorg <= BindBuffer + 1 PROVE BindSpec => []FinalizedPrefix
<1>1. FInv => FinalizedPrefix
  BY Types DEF FInv, Finals, Final, FinalizedPrefix, BInv, TInv, BindTypeOK
<1> QED BY <1>1, FInvAlways, PTL

\* And no reset and no rollback takes a final row back.
THEOREM FinalityKeptAlways ==
    ASSUME MaxReorg <= BindBuffer + 1 PROVE BindSpec => FinalityKept
<1>1. FInv /\ [BindNext]_bvars =>
        [\A k \in Numbers : status[k] = "finalized" => status'[k] = "finalized"]_bvars
  BY StaysFinal DEF Final
<1> QED BY <1>1, FInvAlways, PTL DEF BindSpec, FinalityKept

LEMMA KInvAlways == ASSUME MaxReorg <= BindBuffer + 1 PROVE BindSpec => []KInv
<1>1. BindInit => KInv
  BY InitF DEF BindInit, KInv, RowsBound
<1>2. KInv /\ [BindNext]_bvars => KInv'
  BY NextF, NextRowsBound DEF KInv
<1> QED BY <1>1, <1>2, PTL DEF BindSpec

\* However late SyncL1BlockWorker sees a reorganisation, a binding is taken
\* away only by its reset of a lost block of the same number, never from a
\* final row, and it is never replaced by another one.
THEOREM OnlyResetsUnbindAlways ==
    ASSUME MaxReorg <= BindBuffer + 1 PROVE BindSpec => OnlyResetsUnbind
<1>1. KInv /\ [BindNext]_bvars =>
        [\A k \in Numbers :
            bound[k] # Unbound /\ bound'[k] # bound[k] =>
                /\ bound'[k] = Unbound /\ k <= l2top' /\ status[k] = "committed"
                /\ seen \notin {NoBlock} \cup Canonical
                /\ bound[k] = Number[seen] /\ seen' \in {NoBlock, Parent[seen]}]_bvars
  BY KeepsBound, ResetUnbinds
<1> QED BY <1>1, KInvAlways, PTL DEF BindSpec, OnlyResetsUnbind

-----------------------------------------------------------------------------
(* What stands for the workers that have modules of their own *)

Position == INSTANCE ChainPosition WITH position <- seen

Rows == INSTANCE BlockNumbers WITH top <- l2top

\* What of the actions leaves seen and l2top alone.
LEMMA OthersKeepBoth ==
    ASSUME [BindNext]_bvars, ~ SyncWork, ~ ImportL2, ~ RollbackL2
    PROVE  UNCHANGED <<seen, l2top>>
<1>1. CASE BindWork \/ BindRetry \/ BindCrash
  BY <1>1 DEF BindWork, BindTip, BindFetch, BindTx, BindDone, BindRetry, BindCrash, blocks
<1>2. CASE GlobalWork \/ GlobalCrash
  BY <1>2 DEF GlobalWork, GlobalFetch, GlobalReadLast, GlobalBlocks, GlobalMeta,
              GlobalWithdrawals, GlobalCrash, blocks
<1>3. CASE Grow \/ Revert \/ UNCHANGED bvars
  BY <1>3 DEF Grow, Revert, bvars, blocks
<1> QED BY <1>1, <1>2, <1>3 DEF BindNext

\* SyncL1BlockWorker moves here as check_infos does in L1Sync, which
\* implements the same specification.
THEOREM BindImplementsChainPosition == BindSpec => Position!PositionSpec
<1>1. BindInit => Position!PositionInit
  BY DEF BindInit, Position!PositionInit
<1>2. ASSUME TInv, [BindNext]_bvars PROVE [Position!PositionNext]_seen
  <2>1. CASE SyncForward
    <3>1. PICK b \in SeenNext : (seen = NoBlock \/ Parent[b] = seen) /\ seen' = b
      BY <2>1 DEF SyncForward
    <3>2. /\ b \in BlockId
          /\ Number[b] = IF seen = NoBlock THEN InitNumber ELSE Number[seen] + 1
      BY <1>2, Types DEF SeenNext, Canonical, Path, TInv, BindTypeOK
    <3>3. seen # NoBlock => Number[seen] \in Nat /\ b # Genesis
      BY <1>2, <3>2, Types, TreeAssumption DEF TInv, BindTypeOK
    <3> QED
      BY <3>1, <3>2, <3>3 DEF Position!PositionNext, Position!Start, Position!Forward
  <2>2. CASE SyncBack
    BY <2>2 DEF SyncBack, Position!PositionNext, Position!Back
  <2>3. CASE ~ SyncWork
    <3>1. CASE ImportL2 \/ RollbackL2
      BY <3>1 DEF ImportL2, RollbackL2
    <3> QED BY <1>2, <2>3, <3>1, OthersKeepBoth
  <2> QED BY <2>1, <2>2, <2>3 DEF SyncWork
<1> QED BY <1>1, <1>2, InitT, NextT, PTL DEF BindSpec, Position!PositionSpec

\* Rows come and go here as their numbers do in L2Sync, which implements the
\* same specification.
THEOREM BindImplementsBlockNumbers == BindSpec => Rows!NumbersSpec
<1>1. BindInit => Rows!NumbersInit
  BY DEF BindInit, Rows!NumbersInit
<1>2. ASSUME [BindNext]_bvars PROVE [Rows!Insert \/ Rows!Delete]_l2top
  <2>1. CASE ImportL2 \/ RollbackL2
    BY <2>1 DEF ImportL2, RollbackL2, Rows!Insert, Rows!Delete
  <2>2. CASE SyncWork
    BY <2>2 DEF SyncWork, SyncForward, SyncBack, blocks
  <2> QED BY <1>2, <2>1, <2>2, OthersKeepBoth
<1> QED BY <1>1, <1>2, PTL DEF BindSpec, Rows!NumbersSpec
=============================================================================

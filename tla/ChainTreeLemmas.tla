-------------------------- MODULE ChainTreeLemmas --------------------------
(***************************************************************************)
(* Facts about the tree of blocks that the proofs about the workers share, *)
(* and about the least and the greatest element of a set of numbers, which *)
(* stand behind every CHOOSE of a lowest or a highest number.              *)
(***************************************************************************)
EXTENDS ChainTree, WellFoundedInduction, FiniteSetTheorems, TLAPS

\* A non-empty set of natural numbers has a least element.
LEMMA LeastExists ==
    ASSUME NEW D \in SUBSET Nat, D # {}
    PROVE  \E d \in D : \A c \in D : d <= c
<1> DEFINE R == OpToRel(<, Nat)
<1>1. IsWellFoundedOn(R, Nat)
  BY NatLessThanWellFounded
<1>2. \A a, b \in Nat : a < b => <<a, b>> \in R
  BY DEF OpToRel
<1> HIDE DEF R
<1>3. PICK d \in D : \A c \in D : ~(<<c, d>> \in R)
  BY <1>1, WFMin
<1>4. ASSUME NEW c \in D PROVE d <= c
  <2>1. c \in Nat /\ d \in Nat
    OBVIOUS
  <2>2. ~(c < d)
    BY <1>2, <1>3, <2>1
  <2> QED BY <2>1, <2>2
<1> QED BY <1>4

\* A finite one has a greatest element.
LEMMA GreatestExists ==
    ASSUME NEW S \in SUBSET Nat, IsFiniteSet(S), S # {}
    PROVE  \E n \in S : \A m \in S : m <= n
<1> DEFINE HasGreatest(T) == \E n \in T : \A m \in T : m <= n
           Bad == {T \in SUBSET Nat : IsFiniteSet(T) /\ T # {} /\ ~ HasGreatest(T)}
           Sizes == {Cardinality(T) : T \in Bad}
<1>1. SUFFICES ASSUME Bad # {} PROVE FALSE
  OBVIOUS
<1>2. PICK T \in Bad : \A U \in Bad : Cardinality(T) <= Cardinality(U)
  <2>1. Sizes \in SUBSET Nat /\ Sizes # {}
    BY <1>1, FS_CardinalityType
  <2> HIDE DEF Bad
  <2>2. PICK d \in Sizes : \A c \in Sizes : d <= c
    <3> HIDE DEF Sizes
    <3> QED BY <2>1, LeastExists
  <2> QED BY <2>2
<1>3. PICK x \in T : TRUE
  OBVIOUS
<1>4. /\ x \in Nat /\ T \ {x} \in SUBSET Nat /\ IsFiniteSet(T \ {x})
      /\ Cardinality(T \ {x}) = Cardinality(T) - 1 /\ Cardinality(T) \in Nat
  BY <1>3, FS_RemoveElement, FS_CardinalityType
<1>5. T \ {x} \notin Bad
  <2> SUFFICES ASSUME T \ {x} \in Bad PROVE FALSE
    OBVIOUS
  <2>1. Cardinality(T) <= Cardinality(T \ {x})
    BY <1>2
  <2> QED BY <1>4, <2>1
<1>6. CASE T \ {x} = {}
  <2>1. T = {x}
    BY <1>3, <1>6
  <2> QED BY <1>4, <2>1
<1>7. CASE T \ {x} # {}
  <2>1. PICK y \in T \ {x} : \A z \in T \ {x} : z <= y
    BY <1>4, <1>5, <1>7
  <2>2. CASE x <= y
    BY <2>1, <2>2
  <2>3. CASE ~(x <= y)
    <3>1. \A z \in T : z <= x
      BY <1>4, <2>1, <2>3
    <3> QED BY <3>1
  <2> QED BY <2>2, <2>3
<1> QED BY <1>6, <1>7

-----------------------------------------------------------------------------
(* The tree of blocks *)

\* A path stripped of its top is the path of the parent, or empty.
LEMMA AncIsPath ==
    ASSUME NEW b \in BlockId
    PROVE  Anc[b] = {} \/ \E p \in BlockId : Anc[b] = Path(p)
BY TreeAssumption DEF Path

\* The top of a path has the highest number.
LEMMA TopOfPath ==
    ASSUME NEW b \in BlockId
    PROVE  /\ Path(b) \in SUBSET BlockId /\ b \in Path(b)
           /\ \A a \in Path(b) : a # b => Number[a] < Number[b]
           /\ b \notin Anc[b]
           /\ Path(b) \ {b} = Anc[b]
BY TreeAssumption DEF Path

\* A number at most that of the tip names one block of the path.
LEMMA BlockAt ==
    ASSUME NEW b \in BlockId, NEW n \in 0 .. Number[b]
    PROVE  \E a \in Path(b) : {c \in Path(b) : Number[c] = n} = {a}
<1>1. Number \in [BlockId -> Nat]
  BY TreeAssumption
<1>2. PICK a \in Path(b) : Number[a] = n
  BY TreeAssumption DEF Path
<1>3. ASSUME NEW c \in Path(b), Number[c] = n PROVE c = a
  <2>1. CASE c \in Anc[b] /\ a \in Anc[b]
    BY <2>1, <1>2, <1>3, TreeAssumption
  <2>2. CASE c = b \/ a = b
    BY <2>2, <1>1, <1>2, <1>3, TopOfPath
  <2> QED
    BY <2>1, <2>2 DEF Path
<1> QED
  BY <1>2, <1>3

\* A block above the genesis block is its parent's path and itself.
LEMMA PathOfParent ==
    ASSUME NEW b \in BlockId, Number[b] # 0
    PROVE  /\ Parent[b] \in BlockId
           /\ Number[b] = Number[Parent[b]] + 1
           /\ Anc[b] = Path(Parent[b])
           /\ Path(b) = Path(Parent[b]) \cup {b}
BY TreeAssumption DEF Path

\* The ancestors of an ancestor are ancestors.
LEMMA AncestorsOfAncestors ==
    ASSUME NEW t \in BlockId, NEW a \in Anc[t]
    PROVE  a \in BlockId /\ Anc[a] \subseteq Anc[t]
<1> DEFINE Bad == {u \in BlockId : \E b \in Anc[u] : ~(Anc[b] \subseteq Anc[u])}
           Heights == {Number[u] : u \in Bad}
<1>1. SUFFICES ASSUME Bad # {} PROVE FALSE
  BY TreeAssumption
<1>2. Heights \in SUBSET Nat /\ Heights # {}
  BY <1>1, TreeAssumption
<1>3. PICK u \in Bad : \A v \in Bad : Number[u] <= Number[v]
  <2> HIDE DEF Bad
  <2>1. PICK d \in Heights : \A c \in Heights : d <= c
    <3> HIDE DEF Heights
    <3> QED BY <1>2, LeastExists
  <2> QED BY <2>1
<1>4. PICK b \in Anc[u] : ~(Anc[b] \subseteq Anc[u])
  BY <1>3
<1>5. u \in BlockId /\ u # Genesis
  BY <1>3, <1>4, TreeAssumption
<1>6. /\ Anc[u] = Anc[Parent[u]] \cup {Parent[u]} /\ Parent[u] \in BlockId
      /\ Number[Parent[u]] < Number[u] /\ Number[u] \in Nat /\ Number[Parent[u]] \in Nat
  BY <1>5, TreeAssumption
<1>7. b \in Anc[Parent[u]] /\ ~(Anc[b] \subseteq Anc[Parent[u]])
  BY <1>4, <1>6
<1>8. Parent[u] \in Bad
  BY <1>6, <1>7
<1> QED BY <1>3, <1>6, <1>8

\* Of two blocks of a path, the lower one is on the path of the other.
LEMMA PathsNest ==
    ASSUME NEW t \in BlockId, NEW a \in Path(t), NEW b \in Path(t),
           Number[a] <= Number[b]
    PROVE  a \in Path(b)
<1>1. a \in BlockId /\ b \in BlockId /\ Path(b) \subseteq Path(t)
  BY AncestorsOfAncestors, TreeAssumption DEF Path
<1>2. PICK c \in Path(b) : Number[c] = Number[a]
  BY <1>1, TreeAssumption DEF Path
<1>3. c \in Path(t) /\ a \in Path(t) /\ Number[a] \in 0 .. Number[t]
  <2>1. Number[a] <= Number[t] /\ Number[a] \in Nat /\ Number[t] \in Nat
    BY TreeAssumption DEF Path
  <2> QED BY <1>1, <1>2, <2>1
<1>4. \E d \in Path(t) : {e \in Path(t) : Number[e] = Number[a]} = {d}
  BY <1>3, BlockAt
<1>5. c = a
  BY <1>2, <1>3, <1>4
<1> QED BY <1>2, <1>5

\* The path of a block contains those of its blocks.
LEMMA PathsContain ==
    ASSUME NEW b \in BlockId, NEW a \in Path(b)
    PROVE  a \in BlockId /\ Path(a) \subseteq Path(b) /\ Number[a] <= Number[b]
BY AncestorsOfAncestors, TreeAssumption DEF Path

\* The genesis block is on every path.
LEMMA GenesisOnPath ==
    ASSUME NEW b \in BlockId
    PROVE  Genesis \in Path(b)
<1>1. PICK z \in Path(b) : Number[z] = 0
  BY TreeAssumption DEF Path
<1>2. z \in BlockId
  BY <1>1, PathsContain
<1>3. ASSUME z # Genesis PROVE FALSE
  <2>1. Number[z] = Number[Parent[z]] + 1 /\ Number[Parent[z]] \in Nat
    BY <1>2, <1>3, TreeAssumption
  <2> QED BY <1>1, <2>1
<1> QED BY <1>1, <1>3

\* A number names one block of a path.
LEMMA OneOfANumber ==
    ASSUME NEW t \in BlockId, NEW a \in Path(t), NEW b \in Path(t),
           Number[a] = Number[b]
    PROVE  a = b
<1>1. a \in BlockId /\ b \in BlockId /\ Number[a] \in Nat
  BY PathsContain, TreeAssumption
<1>2. a \in Path(b)
  BY <1>1, PathsNest
<1> QED BY <1>1, <1>2, TopOfPath

\* Of two blocks of a path, one is on the path of the other.
LEMMA OnOrAbove ==
    ASSUME NEW t \in BlockId, NEW s \in Path(t), NEW b \in Path(t)
    PROVE  \/ b \in Path(s)
           \/ s \in Path(b) /\ Number[s] < Number[b]
<1>1. Number[b] \in Nat /\ Number[s] \in Nat
  BY PathsContain, TreeAssumption
<1>2. CASE Number[b] <= Number[s]
  BY <1>2, PathsNest
<1>3. CASE ~(Number[b] <= Number[s])
  BY <1>1, <1>3, PathsNest
<1> QED BY <1>2, <1>3

\* The block of a path with a given number.
LEMMA BlockBelow ==
    ASSUME NEW b \in BlockId, NEW m \in Nat, NEW c,
           c = CHOOSE a \in Path(b) :
                  Number[a] = IF Number[b] > m THEN Number[b] - m ELSE 0
    PROVE  c \in Path(b) /\ Number[b] <= Number[c] + m
<1> DEFINE n == IF Number[b] > m THEN Number[b] - m ELSE 0
<1>1. n \in 0 .. Number[b] /\ Number[b] <= n + m
  <2>1. Number[b] \in Nat
    BY TreeAssumption
  <2> QED BY <2>1
<1> HIDE DEF n
<1>2. \E a \in Path(b) : Number[a] = n
  BY <1>1, TreeAssumption DEF Path
<1>3. c \in Path(b) /\ Number[c] = n
  BY <1>2 DEF n
<1> QED BY <1>1, <1>3

\* When the chain grows, the higher of the settled block and the block m below
\* the tip is near the tip and above what was settled.
LEMMA HigherSettled ==
    ASSUME NEW m \in Nat, NEW t \in BlockId, NEW s \in Path(t),
           NEW u \in BlockId \ {Genesis}, Parent[u] = t,
           NEW c \in Path(u), Number[u] <= Number[c] + m,
           NEW r, r = IF Number[c] > Number[s] THEN c ELSE s
    PROVE  r \in Path(u) /\ Number[u] <= Number[r] + m /\ s \in Path(r)
<1>1. s \in Path(u)
  BY TreeAssumption DEF Path
<1>2. c \in BlockId /\ s \in BlockId
  BY <1>1, PathsContain
<1>3. Number[c] \in Nat /\ Number[s] \in Nat /\ Number[u] \in Nat
  BY <1>2, TreeAssumption
<1>4. CASE Number[c] > Number[s]
  <2>1. s \in Path(c)
    BY <1>1, <1>3, <1>4, PathsNest
  <2> QED BY <1>4, <2>1
<1>5. CASE ~(Number[c] > Number[s])
  BY <1>1, <1>2, <1>3, <1>5, TopOfPath
<1> QED BY <1>4, <1>5

\* A chain has a block above c that does not build on c only when it has lost
\* c: the fork checks of the workers never take back a block that is served.
LEMMA ForkIsLost ==
    ASSUME NEW t \in BlockId, NEW b \in Path(t), NEW c \in BlockId,
           Number[b] = Number[c] + 1, Parent[b] # c
    PROVE  c \notin Path(t) /\ c # Genesis
<1>1. b \in BlockId /\ Number[c] \in Nat
  BY PathsContain, TreeAssumption
<1>2. /\ Parent[b] \in BlockId /\ Number[b] = Number[Parent[b]] + 1
      /\ Anc[b] = Path(Parent[b]) /\ Number[Parent[b]] \in Nat
  BY <1>1, PathOfParent, TreeAssumption
<1>3. Parent[b] \in Path(t)
  BY <1>1, <1>2, PathsContain, TopOfPath DEF Path
<1>4. c \notin Path(t)
  BY <1>1, <1>2, <1>3, OneOfANumber
<1> QED BY <1>4, GenesisOnPath
=============================================================================

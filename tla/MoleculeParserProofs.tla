------------------------ MODULE MoleculeParserProofs ------------------------
(***************************************************************************)
(* Proofs about the molecule encoding and the functions of the parser:     *)
(* for every slice, every value and each of the types.                     *)
(*                                                                         *)
(* The way goes from the bytes up: numbers, slices cut into parts, the     *)
(* header of a table or vector (IsLayout), each kind of type, the types    *)
(* one after another (PackedTypesAreSound), the states of the parser       *)
(* (IInv), and its five properties.                                        *)
(*                                                                         *)
(* The library's induction theorems take the property as an operator, so   *)
(* inductions here are over sets of numbers (SetInduction).                *)
(***************************************************************************)
EXTENDS MoleculeParser, SequenceTheorems, WellFoundedInduction, TLAPS

-----------------------------------------------------------------------------
(* Induction and sequences *)

\* A set with 0 and with the successor of each of its numbers has all numbers.
LEMMA SetInduction ==
    ASSUME NEW S, 0 \in S, \A n \in Nat : n \in S => n + 1 \in S
    PROVE  Nat \subseteq S
<1> DEFINE R == OpToRel(<, Nat)
           D == Nat \ S
<1>1. IsWellFoundedOn(R, Nat)
  BY NatLessThanWellFounded
<1>2. \A a, b \in Nat : a < b => <<a, b>> \in R
  BY DEF OpToRel
<1> HIDE DEF R
<1> SUFFICES ASSUME D # {} PROVE FALSE
  OBVIOUS
<1>3. PICK d \in D : \A c \in D : ~(<<c, d>> \in R)
  BY <1>1, WFMin
<1>4. d \in Nat /\ d # 0 /\ d \notin S
  BY <1>3
<1>5. d - 1 \in Nat /\ d - 1 < d /\ (d - 1) + 1 = d
  BY <1>4
<1>6. d - 1 \notin D
  BY <1>2, <1>3, <1>4, <1>5
<1> QED
  BY <1>4, <1>5, <1>6

\* A function on 1..n is the sequence AsSeq makes of it.
LEMMA AsSeqIs ==
    ASSUME NEW n \in Nat, NEW S, NEW f \in [1..n -> S]
    PROVE  AsSeq(f) = f /\ f \in Seq(S) /\ Len(f) = n
<1>1. f \in Seq(S) /\ Len(f) = n
  BY IsASeq, LenProperties
<1> QED
  BY <1>1, ConcatEmptySeq DEF AsSeq

\* A sequence is its elements.
LEMMA SameElements ==
    ASSUME NEW S, NEW s \in Seq(S), NEW T, NEW t \in Seq(T), Len(s) = Len(t),
           \A i \in 1..Len(s) : s[i] = t[i]
    PROVE  s = t
BY SeqEqual

\* The elements of a concatenation.
LEMMA ConcatElements ==
    ASSUME NEW S, NEW s \in Seq(S), NEW t \in Seq(S)
    PROVE  /\ s \o t \in Seq(S) /\ Len(s \o t) = Len(s) + Len(t)
           /\ \A i \in 1..Len(s) : (s \o t)[i] = s[i]
           /\ \A i \in 1..Len(t) : (s \o t)[Len(s) + i] = t[i]
<1>1. s \o t \in Seq(S) /\ Len(s \o t) = Len(s) + Len(t)
  BY ConcatProperties
<1>2. Len(s) \in Nat /\ Len(t) \in Nat
  BY LenProperties
<1>3. \A i \in 1..(Len(s) + Len(t)) :
        (s \o t)[i] = IF i <= Len(s) THEN s[i] ELSE t[i - Len(s)]
  BY ConcatProperties
<1>4. \A i \in 1..Len(s) : (s \o t)[i] = s[i]
  BY <1>2, <1>3
<1>5. ASSUME NEW i \in 1..Len(t) PROVE (s \o t)[Len(s) + i] = t[i]
  <2>1. Len(s) + i \in 1..(Len(s) + Len(t)) /\ ~(Len(s) + i <= Len(s))
        /\ (Len(s) + i) - Len(s) = i
    BY <1>2
  <2> QED
    BY <1>3, <2>1
<1> QED
  BY <1>1, <1>4, <1>5

\* The elements of a range of a slice.
LEMMA RangeElements ==
    ASSUME NEW s \in Slices, NEW from \in Nat, NEW to \in Nat,
           from <= to, to <= Len(s)
    PROVE  /\ Range0(s, from, to) \in Slices
           /\ Len(Range0(s, from, to)) = to - from
           /\ \A k \in 1..(to - from) : Range0(s, from, to)[k] = s[from + k]
<1>1. Len(s) \in Nat
  BY LenProperties DEF Slices
<1>2. from + 1 \in 1..(Len(s) + 1) /\ to \in 0..Len(s) /\ from + 1 \in Int /\ to \in Int
  BY <1>1
<1>3. /\ SubSeq(s, from + 1, to) \in Seq(Octet)
      /\ Len(SubSeq(s, from + 1, to)) = to - from
      /\ \A k \in 1..(to - from) : SubSeq(s, from + 1, to)[k] = s[from + k]
  BY <1>1, <1>2, SubSeqProperties DEF Slices
<1> QED
  BY <1>3 DEF Range0, Slices

\* The same of slices.
LEMMA ConcatSlices ==
    ASSUME NEW s \in Slices, NEW t \in Slices
    PROVE  /\ s \o t \in Slices /\ Len(s \o t) = Len(s) + Len(t)
           /\ Len(s) \in Nat /\ Len(t) \in Nat
           /\ \A i \in 1..Len(s) : (s \o t)[i] = s[i]
           /\ \A i \in 1..Len(t) : (s \o t)[Len(s) + i] = t[i]
BY ConcatElements, LenProperties DEF Slices

-----------------------------------------------------------------------------
(* Ends and FlattenSeq *)

\* Ends sums up: it begins at 0 and goes on by each length.
LEMMA EndsSums ==
    ASSUME NEW L \in Seq(Nat)
    PROVE  /\ Ends(L) \in [0..Len(L) -> Nat]
           /\ Ends(L)[0] = 0
           /\ \A i \in 1..Len(L) : Ends(L)[i] = Ends(L)[i - 1] + L[i]
<1> DEFINE n == Len(L)
           Sums(f, m) == f[0] = 0 /\ \A i \in 1..m : f[i] = f[i - 1] + L[i]
           S == {m \in Nat : m <= n => \E f \in [0..m -> Nat] : Sums(f, m)}
           Body(f) == [i \in 0..n |-> IF i = 0 THEN 0 ELSE f[i - 1] + L[i]]
<1>1. n \in Nat /\ \A i \in 1..n : L[i] \in Nat
  BY LenProperties, ElementOfSeq
<1> HIDE DEF n
<1>2. 0 \in S
  <2>1. [i \in 0..0 |-> 0] \in [0..0 -> Nat] /\ Sums([i \in 0..0 |-> 0], 0)
    OBVIOUS
  <2> QED
    BY <2>1
<1>3. ASSUME NEW m \in Nat, m \in S PROVE m + 1 \in S
  <2>0. m + 1 \in Nat
    OBVIOUS
  <2> SUFFICES ASSUME m + 1 <= n
               PROVE  \E f \in [0..(m + 1) -> Nat] : Sums(f, m + 1)
    <3> HIDE DEF Sums
    <3> QED
      BY <2>0
  <2>1. PICK f \in [0..m -> Nat] : Sums(f, m)
    BY <1>1, <1>3
  <2> DEFINE g == [i \in 0..(m + 1) |-> IF i <= m THEN f[i] ELSE f[m] + L[m + 1]]
  <2>2. g \in [0..(m + 1) -> Nat]
    BY <1>1, <2>1
  <2>3. g[0] = 0
    BY <2>1
  <2>4. ASSUME NEW i \in 1..(m + 1) PROVE g[i] = g[i - 1] + L[i]
    <3>1. CASE i <= m
      BY <2>1, <3>1
    <3>2. CASE i = m + 1
      BY <2>1, <3>2
    <3> QED
      BY <3>1, <3>2
  <2> QED
    BY <2>2, <2>3, <2>4
<1>4. n \in S
  <2>1. Nat \subseteq S
    <3> HIDE DEF S
    <3> QED
      BY <1>2, <1>3, SetInduction
  <2> QED
    BY <1>1, <2>1
<1>5. PICK f \in [0..n -> Nat] : Sums(f, n)
  BY <1>1, <1>4
<1>6. f = Body(f)
  BY <1>5
<1>7. Ends(L) = CHOOSE e : e = Body(e)
  BY DEF Ends, n
<1> HIDE DEF Body
<1>8. Ends(L) = Body(Ends(L))
  BY <1>6, <1>7
<1> DEFINE E == Ends(L)
<1> HIDE DEF E
<1>9. E = [i \in 0..n |-> IF i = 0 THEN 0 ELSE E[i - 1] + L[i]]
  BY <1>8 DEF Body, E
<1>10. E[0] = 0 /\ \A i \in 1..n : E[i] = E[i - 1] + L[i]
  BY <1>1, <1>9
<1> DEFINE T == {m \in Nat : m <= n => E[m] \in Nat}
<1>11. 0 \in T
  BY <1>1, <1>10
<1>12. ASSUME NEW m \in Nat, m \in T PROVE m + 1 \in T
  <2> SUFFICES ASSUME m + 1 <= n PROVE E[m + 1] \in Nat
    OBVIOUS
  <2>1. m + 1 \in 1..n /\ (m + 1) - 1 = m /\ E[m] \in Nat
    BY <1>1, <1>12
  <2>2. E[m + 1] = E[m] + L[m + 1] /\ L[m + 1] \in Nat
    BY <1>1, <1>10, <2>1
  <2> QED
    BY <2>1, <2>2
<1>13. Nat \subseteq T
  <2> HIDE DEF T
  <2> QED
    BY <1>11, <1>12, SetInduction
<1>14. \A m \in 0..n : E[m] \in Nat
  BY <1>1, <1>13
<1>15. E \in [0..n -> Nat]
  BY <1>9, <1>14
<1> QED
  BY <1>10, <1>15 DEF E, n

\* Sums of lengths do not go back.
LEMMA EndsAscend ==
    ASSUME NEW L \in Seq(Nat), NEW i \in 0..Len(L), NEW j \in 0..Len(L), i <= j
    PROVE  Ends(L)[i] <= Ends(L)[j]
<1> DEFINE S == {m \in Nat : i + m <= Len(L) => Ends(L)[i] <= Ends(L)[i + m]}
<1>1. Len(L) \in Nat /\ i \in Nat /\ \A k \in 1..Len(L) : L[k] \in Nat
  BY LenProperties, ElementOfSeq
<1>2. 0 \in S
  <2>1. i + 0 = i /\ Ends(L)[i] \in Nat
    BY SMTT(60), <1>1, EndsSums
  <2> QED
    BY <2>1
<1>3. ASSUME NEW m \in Nat, m \in S PROVE m + 1 \in S
  <2> SUFFICES ASSUME i + (m + 1) <= Len(L)
               PROVE  Ends(L)[i] <= Ends(L)[i + (m + 1)]
    OBVIOUS
  <2>1. i + m \in 0..Len(L) /\ i + (m + 1) \in 1..Len(L) /\ (i + (m + 1)) - 1 = i + m
    BY <1>1
  <2>2. Ends(L)[i + (m + 1)] = Ends(L)[i + m] + L[i + (m + 1)]
    BY <2>1, EndsSums
  <2>3. Ends(L)[i] \in Nat /\ Ends(L)[i + m] \in Nat /\ L[i + (m + 1)] \in Nat
    BY <1>1, <2>1, EndsSums
  <2>4. Ends(L)[i] <= Ends(L)[i + m]
    BY <1>1, <1>3, <2>1
  <2> QED
    BY <2>2, <2>3, <2>4
<1>4. Nat \subseteq S
  <2> HIDE DEF S
  <2> QED
    BY <1>2, <1>3, SetInduction
<1>5. j - i \in Nat /\ i + (j - i) = j
  BY <1>1
<1>6. j - i \in S
  BY <1>4, <1>5
<1>7. i + (j - i) <= Len(L) => Ends(L)[i] <= Ends(L)[i + (j - i)]
  BY <1>6
<1> QED
  BY <1>1, <1>5, <1>7

\* Every position up to the last end is in one of the parts.
LEMMA EndsCover ==
    ASSUME NEW L \in Seq(Nat), NEW p \in 1..Ends(L)[Len(L)]
    PROVE  \E i \in 1..Len(L) : \E k \in 1..L[i] : p = Ends(L)[i - 1] + k
<1> DEFINE E == Ends(L)
           Covered(m) == p <= E[m] => \E i \in 1..m : \E k \in 1..L[i] : p = E[i - 1] + k
           S == {m \in Nat : m <= Len(L) => Covered(m)}
<1>1. /\ Len(L) \in Nat /\ p \in Nat /\ p # 0
      /\ E[0] = 0 /\ \A i \in 0..Len(L) : E[i] \in Nat
      /\ \A i \in 1..Len(L) : L[i] \in Nat /\ E[i] = E[i - 1] + L[i]
  BY LenProperties, ElementOfSeq, EndsSums
<1> HIDE DEF E
<1>2. 0 \in S
  BY <1>1
<1>3. ASSUME NEW m \in Nat, m \in S PROVE m + 1 \in S
  <2> SUFFICES ASSUME m + 1 <= Len(L), p <= E[m + 1]
               PROVE  \E i \in 1..(m + 1) : \E k \in 1..L[i] : p = E[i - 1] + k
    OBVIOUS
  <2>1. m + 1 \in 1..Len(L) /\ (m + 1) - 1 = m /\ m \in 0..Len(L)
    BY <1>1
  <2>2. E[m + 1] = E[m] + L[m + 1] /\ E[m] \in Nat /\ L[m + 1] \in Nat
    BY <1>1, <2>1
  <2>3. CASE p <= E[m]
    BY <1>1, <1>3, <2>3
  <2>4. CASE ~(p <= E[m])
    <3>1. p - E[m] \in 1..L[m + 1] /\ p = E[m] + (p - E[m])
      BY SMTT(60), <1>1, <2>2, <2>4
    <3> QED
      BY <2>1, <3>1
  <2> QED
    BY <2>3, <2>4
<1>4. Nat \subseteq S
  <2> HIDE DEF S
  <2> QED
    BY <1>2, <1>3, SetInduction
<1>5. Len(L) \in S /\ Len(L) <= Len(L)
  <2> HIDE DEF S
  <2> QED
    BY <1>1, <1>4
<1>6. Covered(Len(L))
  BY <1>5
<1>7. p <= E[Len(L)]
  BY <1>1 DEF E
<1> QED
  BY <1>6, <1>7 DEF E


\* Lengths has the length of each part.
LEMMA LengthsAre ==
    ASSUME NEW parts \in Seq(Slices)
    PROVE  /\ Lengths(parts) \in Seq(Nat) /\ Len(Lengths(parts)) = Len(parts)
           /\ \A i \in 1..Len(parts) : Lengths(parts)[i] = Len(parts[i])
<1>1. Len(parts) \in Nat /\ \A i \in 1..Len(parts) : Len(parts[i]) \in Nat
  BY LenProperties, ElementOfSeq DEF Slices
<1> DEFINE f == [i \in 1..Len(parts) |-> Len(parts[i])]
<1>2. f \in [1..Len(parts) -> Nat]
  BY <1>1
<1>3. f \in Seq(Nat) /\ Len(f) = Len(parts) /\ AsSeq(f) = f
  <2> HIDE DEF f
  <2> QED
    BY <1>1, <1>2, AsSeqIs
<1> QED
  BY <1>3 DEF Lengths

\* Where parts end that stand one after another.
LEMMA PartEnds ==
    ASSUME NEW parts \in Seq(Slices)
    PROVE  /\ Len(parts) \in Nat
           /\ Ends(Lengths(parts))[0] = 0
           /\ \A i \in 0..Len(parts) : Ends(Lengths(parts))[i] \in Nat
           /\ \A i \in 1..Len(parts) :
                /\ i - 1 \in 0..Len(parts) /\ parts[i] \in Slices /\ Len(parts[i]) \in Nat
                /\ Ends(Lengths(parts))[i] = Ends(Lengths(parts))[i - 1] + Len(parts[i])
           /\ \A i, j \in 0..Len(parts) :
                i <= j => Ends(Lengths(parts))[i] <= Ends(Lengths(parts))[j]
<1> DEFINE n == Len(parts)
           L == Lengths(parts)
           E == Ends(L)
<1>1. n \in Nat /\ \A i \in 1..n : parts[i] \in Slices
  BY LenProperties, ElementOfSeq
<1>2. \A i \in 1..n : Len(parts[i]) \in Nat
  BY <1>1, LenProperties DEF Slices
<1>3. L \in Seq(Nat) /\ Len(L) = n /\ \A i \in 1..n : L[i] = Len(parts[i])
  BY LengthsAre
<1> HIDE DEF n, L
<1>4. E \in [0..n -> Nat] /\ E[0] = 0 /\ \A i \in 1..n : E[i] = E[i - 1] + L[i]
  BY <1>3, EndsSums
<1>5. \A i, j \in 0..n : i <= j => E[i] <= E[j]
  BY <1>3, EndsAscend
<1> HIDE DEF E
<1>6. \A i \in 0..n : E[i] \in Nat
  BY <1>4
<1>7. \A i \in 1..n : i - 1 \in 0..n /\ E[i] = E[i - 1] + Len(parts[i])
  BY SMTT(60), <1>1, <1>3, <1>4
<1> QED
  BY <1>1, <1>2, <1>4, <1>5, <1>6, <1>7 DEF n, L, E

\* The layout of parts that stand one after another from position p on.
Laid(s, p, parts) ==
    \A i \in 1..Len(parts) : \A k \in 1..Len(parts[i]) :
        s[p + Ends(Lengths(parts))[i - 1] + k] = parts[i][k]

\* The recursive function by which FlattenSeq is defined.
LEMMA FlattenSteps ==
    ASSUME NEW parts \in Seq(Slices), Len(parts) # 0
    PROVE  \E F : /\ FlattenSeq(parts) = F[Len(parts)]
                  /\ F[1] = parts[1]
                  /\ \A i \in 2..Len(parts) : F[i] = F[i - 1] \o parts[i]
<1> DEFINE n == Len(parts)
           Flat(f, m) == /\ f[1] = parts[1]
                         /\ \A i \in 2..m : f[i] = f[i - 1] \o parts[i]
           Body(f) == [i \in 1..n |-> IF i = 1 THEN parts[i] ELSE f[i - 1] \o parts[i]]
           F == CHOOSE g : g = Body(g)
           S == {m \in Nat : m + 1 <= n => \E f : DOMAIN f = 1..(m + 1) /\ f = [i \in DOMAIN f |-> f[i]] /\ Flat(f, m + 1)}
<1>1. n \in Nat /\ n # 0
  BY LenProperties
<1>2. FlattenSeq(parts) = F[n]
  BY <1>1 DEF FlattenSeq
<1> HIDE DEF n
<1>3. 0 \in S
  <2> DEFINE g == [i \in 1..1 |-> parts[1]]
  <2>1. DOMAIN g = 1..(0 + 1) /\ g = [i \in DOMAIN g |-> g[i]] /\ g[1] = parts[1]
    OBVIOUS
  <2>2. 2..(0 + 1) = {}
    OBVIOUS
  <2> HIDE DEF g
  <2>3. Flat(g, 0 + 1)
    BY <2>1, <2>2
  <2> HIDE DEF Flat
  <2> QED
    BY <2>1, <2>3
<1>4. ASSUME NEW m \in Nat, m \in S PROVE m + 1 \in S
  <2> DEFINE l == (m + 1) + 1
  <2>1. l \in Nat /\ m + 1 \in Nat /\ l - 1 = m + 1 /\ m + 1 < l
    OBVIOUS
  <2> SUFFICES ASSUME l <= n
               PROVE  \E f : DOMAIN f = 1..l /\ f = [i \in DOMAIN f |-> f[i]] /\ Flat(f, l)
    <3> HIDE DEF Flat
    <3> QED
      BY <2>1
  <2>2. m + 1 <= n
    BY <1>1, <2>1
  <2>3. PICK f : DOMAIN f = 1..(m + 1) /\ Flat(f, m + 1)
    <3> HIDE DEF Flat
    <3> QED
      BY <1>4, <2>2
  <2> HIDE DEF l
  <2> DEFINE g == [i \in 1..l |-> IF i < l THEN f[i] ELSE f[m + 1] \o parts[l]]
  <2>4. DOMAIN g = 1..l /\ g = [i \in DOMAIN g |-> g[i]]
    OBVIOUS
  <2>5. \A i \in 1..(m + 1) : g[i] = f[i]
    BY <2>1
  <2>6. g[l] = f[m + 1] \o parts[l]
    <3>1. l \in 1..l /\ ~(l < l)
      BY <2>1
    <3> QED
      BY <3>1, Zenon
  <2> HIDE DEF g
  <2>7. g[1] = parts[1]
    BY <2>3, <2>5
  <2>8. ASSUME NEW i \in 2..l PROVE g[i] = g[i - 1] \o parts[i]
    <3>1. CASE i = l
      <4>1. i - 1 = m + 1 /\ m + 1 \in 1..(m + 1)
        BY <2>1, <3>1
      <4>2. g[m + 1] = f[m + 1]
        BY <2>5, <4>1
      <4> QED
        BY <2>6, <3>1, <4>1, <4>2
    <3>2. CASE i # l
      <4>1. i \in 2..(m + 1) /\ i \in 1..(m + 1) /\ i - 1 \in 1..(m + 1)
        BY <2>1, <3>2
      <4>2. g[i] = f[i] /\ g[i - 1] = f[i - 1] /\ f[i] = f[i - 1] \o parts[i]
        BY <2>3, <2>5, <4>1
      <4> QED
        BY <4>2
    <3> QED
      BY <3>1, <3>2
  <2>9. Flat(g, l)
    BY <2>7, <2>8
  <2> HIDE DEF Flat
  <2> QED
    BY <2>4, <2>9
<1>5. Nat \subseteq S
  <2> HIDE DEF S
  <2> QED
    BY <1>3, <1>4, SetInduction
<1>6. n - 1 \in Nat /\ (n - 1) + 1 = n /\ n <= n
  BY <1>1
<1>7. \E f : DOMAIN f = 1..n /\ f = [i \in DOMAIN f |-> f[i]] /\ Flat(f, n)
  <2>1. n - 1 \in S
    <3> HIDE DEF S
    <3> QED
      BY <1>5, <1>6
  <2> HIDE DEF Flat
  <2> QED
    BY <1>6, <2>1
<1>8. PICK f : DOMAIN f = 1..n /\ f = [i \in DOMAIN f |-> f[i]] /\ Flat(f, n)
  BY <1>7
<1>9. \A i \in 1..n : f[i] = IF i = 1 THEN parts[i] ELSE f[i - 1] \o parts[i]
  <2> TAKE i \in 1..n
  <2>1. CASE i = 1
    BY <1>8, <2>1
  <2>2. CASE i # 1
    <3>1. i \in 2..n
      BY <1>1, <2>2
    <3> QED
      BY <1>8, <2>2, <3>1
  <2> QED
    BY <2>1, <2>2
<1>10. f = Body(f)
  <2>1. f = [i \in 1..n |-> f[i]]
    BY <1>8
  <2> QED
    BY <1>9, <2>1, Zenon
<1>11. F = Body(F)
  <2> HIDE DEF Body
  <2> QED
    BY <1>10
<1> HIDE DEF F
<1>12. \A i \in 1..n : F[i] = IF i = 1 THEN parts[i] ELSE F[i - 1] \o parts[i]
  BY <1>11, Zenon
<1>13. F[1] = parts[1] /\ \A i \in 2..n : F[i] = F[i - 1] \o parts[i]
  <2>1. 1 \in 1..n /\ \A i \in 2..n : i \in 1..n /\ i # 1
    BY <1>1
  <2> QED
    BY <1>12, <2>1
<1> QED
  BY <1>2, <1>13 DEF n

\* FlattenSeq puts the parts one after another.
LEMMA FlattenLays ==
    ASSUME NEW parts \in Seq(Slices)
    PROVE  /\ FlattenSeq(parts) \in Slices
           /\ Len(FlattenSeq(parts)) = Ends(Lengths(parts))[Len(parts)]
           /\ Laid(FlattenSeq(parts), 0, parts)
<1> DEFINE n == Len(parts)
           E == Ends(Lengths(parts))
<1>1. /\ n \in Nat /\ E[0] = 0
      /\ \A i \in 0..n : E[i] \in Nat
      /\ \A i \in 1..n : /\ i - 1 \in 0..n /\ parts[i] \in Slices /\ Len(parts[i]) \in Nat
                         /\ E[i] = E[i - 1] + Len(parts[i])
      /\ \A i, j \in 0..n : i <= j => E[i] <= E[j]
  BY PartEnds
<1>2. CASE n = 0
  <2>1. parts = <<>> /\ FlattenSeq(parts) = parts
    BY <1>2, EmptySeq DEF FlattenSeq
  <2>2. <<>> \in Slices /\ Len(<<>>) = 0
    BY EmptySeq DEF Slices
  <2>3. Laid(FlattenSeq(parts), 0, parts)
    BY <1>2 DEF Laid
  <2> QED
    BY <1>1, <1>2, <2>1, <2>2, <2>3
<1>3. CASE n # 0
  <2>1. PICK F : /\ FlattenSeq(parts) = F[n]
                 /\ F[1] = parts[1]
                 /\ \A i \in 2..n : F[i] = F[i - 1] \o parts[i]
    BY <1>3, FlattenSteps
  <2> HIDE DEF n, E
  <2> DEFINE Good(m) == /\ F[m] \in Slices /\ Len(F[m]) = E[m]
                        /\ \A i \in 1..m : \A k \in 1..Len(parts[i]) :
                              F[m][E[i - 1] + k] = parts[i][k]
             T == {m \in Nat : m + 1 <= n => Good(m + 1)}
  <2>10. 0 \in T
    <3>1. 0 + 1 = 1 /\ 1 \in 1..n /\ 1 - 1 = 0 /\ E[0] = 0 /\ parts[1] \in Slices /\ Len(parts[1]) \in Nat
      BY <1>1, <1>3
    <3>2. F[1] \in Slices /\ Len(F[1]) = E[1]
      BY <1>1, <2>1, <3>1
    <3>3. \A k \in 1..Len(parts[1]) : E[1 - 1] + k = k
      BY <3>1
    <3>4. \A i \in 1..1 : \A k \in 1..Len(parts[i]) : F[1][E[i - 1] + k] = parts[i][k]
      BY <2>1, <3>3
    <3> QED
      BY <3>1, <3>2, <3>4
  <2>11. ASSUME NEW m \in Nat, m \in T PROVE m + 1 \in T
    <3>0. m + 1 \in Nat
      OBVIOUS
    <3> DEFINE l == (m + 1) + 1
    <3> SUFFICES ASSUME l <= n PROVE Good(l)
      <4> HIDE DEF Good
      <4> QED
        BY <3>0
    <3>1. /\ l \in 2..n /\ l \in 1..n /\ l \in Nat /\ l - 1 = m + 1 /\ m + 1 <= n
          /\ m + 1 \in 0..n /\ m + 1 < l /\ l \in 0..n
      BY <1>1
    <3>2. Good(m + 1)
      <4> HIDE DEF Good
      <4> QED
        BY <2>11, <3>1
    <3> HIDE DEF l
    <3>3. F[l] = F[m + 1] \o parts[l]
      BY <2>1, <3>1
    <3>4. parts[l] \in Slices /\ E[l] = E[m + 1] + Len(parts[l]) /\ E[m + 1] \in Nat
      BY <1>1, <3>1
    <3>5. /\ F[m + 1] \o parts[l] \in Slices
          /\ Len(F[m + 1] \o parts[l]) = E[m + 1] + Len(parts[l])
          /\ \A j \in 1..E[m + 1] : (F[m + 1] \o parts[l])[j] = F[m + 1][j]
          /\ \A k \in 1..Len(parts[l]) : (F[m + 1] \o parts[l])[E[m + 1] + k] = parts[l][k]
      <4>1. F[m + 1] \in Slices /\ Len(F[m + 1]) = E[m + 1]
        BY <3>2
      <4> DEFINE a == F[m + 1]
                 b == parts[l]
      <4>2. a \in Slices /\ b \in Slices /\ Len(a) = E[m + 1]
        BY <3>4, <4>1
      <4> HIDE DEF Good, a, b
      <4>3. /\ a \o b \in Slices /\ Len(a \o b) = E[m + 1] + Len(b)
            /\ \A j \in 1..E[m + 1] : (a \o b)[j] = a[j]
            /\ \A k \in 1..Len(b) : (a \o b)[E[m + 1] + k] = b[k]
        <5>1. /\ a \o b \in Slices /\ Len(a \o b) = Len(a) + Len(b)
              /\ \A j \in 1..Len(a) : (a \o b)[j] = a[j]
              /\ \A k \in 1..Len(b) : (a \o b)[Len(a) + k] = b[k]
          BY <4>2, ConcatSlices
        <5> QED
          BY <4>2, <5>1
      <4> QED
        BY <4>3 DEF a, b
    <3>6. ASSUME NEW i \in 1..l, NEW k \in 1..Len(parts[i])
          PROVE  F[l][E[i - 1] + k] = parts[i][k]
      <4>1. CASE i = l
        <5>1. i - 1 = m + 1
          BY <3>1, <4>1
        <5> QED
          BY <3>3, <3>5, <4>1, <5>1
      <4>2. CASE i # l
        <5>1. i \in 1..(m + 1) /\ i \in 1..n /\ i \in 0..n /\ i <= m + 1 /\ m + 1 \in 0..n
          BY <1>1, <3>1, <4>2
        <5>2. E[i] <= E[m + 1] /\ E[i] = E[i - 1] + Len(parts[i]) /\ Len(parts[i]) \in Nat
              /\ E[i - 1] \in Nat
          BY <1>1, <5>1
        <5>3. E[i - 1] + k \in 1..E[m + 1]
          BY SMTT(60), <3>4, <5>2
        <5>4. F[l][E[i - 1] + k] = F[m + 1][E[i - 1] + k]
          BY <3>3, <3>5, <5>3
        <5> QED
          BY <3>2, <5>1, <5>4
      <4> QED
        BY <4>1, <4>2
    <3> QED
      BY <3>3, <3>4, <3>5, <3>6
  <2>12. Nat \subseteq T
    <3> HIDE DEF T
    <3> QED
      BY <2>10, <2>11, SetInduction
  <2>13. n - 1 \in Nat /\ (n - 1) + 1 = n /\ n <= n
    BY <1>1, <1>3
  <2>14. Good(n)
    <3>1. n - 1 \in T
      <4> HIDE DEF T
      <4> QED
        BY <2>12, <2>13
    <3> HIDE DEF Good
    <3> QED
      BY <2>13, <3>1
  <2>15. \A i \in 1..n : \A k \in 1..Len(parts[i]) : 0 + E[i - 1] + k = E[i - 1] + k
    BY <1>1
  <2>16. \A i \in 1..n : \A k \in 1..Len(parts[i]) : F[n][0 + E[i - 1] + k] = parts[i][k]
    BY <2>14, <2>15
  <2> QED
    BY <2>1, <2>14, <2>16 DEF Laid, n, E
<1> QED
  BY <1>2, <1>3

\* Only one slice has the parts at these places and nothing else after p.
LEMMA LaidIsUnique ==
    ASSUME NEW parts \in Seq(Slices), NEW p \in Nat, NEW s, NEW t,
           Laid(s, p, parts), Laid(t, p, parts)
    PROVE  \A j \in 1..Ends(Lengths(parts))[Len(parts)] : s[p + j] = t[p + j]
<1> TAKE j \in 1..Ends(Lengths(parts))[Len(parts)]
<1>0. \E i \in 1..Len(Lengths(parts)) : \E k \in 1..Lengths(parts)[i] :
        j = Ends(Lengths(parts))[i - 1] + k
  <2>1. Len(Lengths(parts)) = Len(parts) /\ Lengths(parts) \in Seq(Nat)
    BY LengthsAre
  <2> QED
    BY <2>1, EndsCover
<1>1. PICK i \in 1..Len(parts) : \E k \in 1..Len(parts[i]) :
        j = Ends(Lengths(parts))[i - 1] + k
  BY <1>0, LengthsAre
<1>2. PICK k \in 1..Len(parts[i]) : j = Ends(Lengths(parts))[i - 1] + k
  BY <1>1
<1>4. Ends(Lengths(parts))[i - 1] \in Nat
  BY PartEnds
<1>5. p + Ends(Lengths(parts))[i - 1] + k = p + j
  BY <1>2, <1>4
<1> QED
  BY <1>5 DEF Laid

-----------------------------------------------------------------------------
(* Numbers in a slice *)

\* The four digits of a number, to the base of 256.
LEMMA Digits ==
    ASSUME NEW n \in Nat, n < Unreachable
    PROVE  /\ n % 256 \in 0..255 /\ (n \div 256) % 256 \in 0..255
           /\ (n \div 65536) % 256 \in 0..255
           /\ (n \div 16777216) % 256 \in 0..127
           /\ n = (n % 256) + 256 * ((n \div 256) % 256)
                    + 65536 * ((n \div 65536) % 256) + 16777216 * ((n \div 16777216) % 256)
BY SMTT(60) DEF Unreachable

\* A packed number is four bytes.
LEMMA PackIs ==
    ASSUME NEW n \in Nat
    PROVE  PackNumber(n) \in Slices /\ Len(PackNumber(n)) = 4
<1>1. /\ n % 256 \in Octet /\ (n \div 256) % 256 \in Octet
      /\ (n \div 65536) % 256 \in Octet /\ (n \div 16777216) % 256 \in Octet
  BY SMTT(30) DEF Octet
<1> QED
  BY <1>1, SMT DEF PackNumber, Slices

\* What pack_number writes, unpack_number reads.
LEMMA UnpackPacked ==
    ASSUME NEW s, NEW p \in Nat, NEW n \in Nat, n < Unreachable,
           \A k \in 1..4 : s[p + k] = PackNumber(n)[k]
    PROVE  NumberAt(s, p) = n
<1>1. /\ s[p + 1] = PackNumber(n)[1] /\ s[p + 2] = PackNumber(n)[2]
      /\ s[p + 3] = PackNumber(n)[3] /\ s[p + 4] = PackNumber(n)[4]
  OBVIOUS
<1>2. /\ s[p + 1] = n % 256 /\ s[p + 2] = (n \div 256) % 256
      /\ s[p + 3] = (n \div 65536) % 256 /\ s[p + 4] = (n \div 16777216) % 256
  BY <1>1, SMT DEF PackNumber
<1>3. ~(s[p + 4] >= 128)
  BY <1>2, Digits, SMT
<1> QED
  BY <1>2, <1>3, Digits, SMT DEF NumberAt

\* The number that four digits make.
Weighted(a, b, c, d) == a + 256 * b + 65536 * c + 16777216 * d

\* Four digits are those of the number they make.
LEMMA DigitsOf ==
    ASSUME NEW a \in 0..255, NEW b \in 0..255, NEW c \in 0..255, NEW d \in 0..127
    PROVE  /\ Weighted(a, b, c, d) \in Nat
           /\ PackNumber(Weighted(a, b, c, d)) = <<a, b, c, d>>
<1> DEFINE n == a + 256 * b + 65536 * c + 16777216 * d
<1>0. n = a + 256 * b + 65536 * c + 16777216 * d
  OBVIOUS
<1>6. n = Weighted(a, b, c, d)
  BY SMT DEF Weighted
<1> HIDE DEF n
<1>1. n \in Nat
  BY <1>0, SMT
<1>2. n % 256 = a
  <2> DEFINE m == b + 256 * c + 65536 * d
  <2>1. m \in Nat /\ n = 256 * m + a
    BY <1>0, SMT
  <2> HIDE DEF m
  <2> QED
    BY <2>1
<1>3. (n \div 256) % 256 = b
  <2> DEFINE m == c + 256 * d
             l == b + 256 * m
  <2>1. m \in Nat /\ l \in Nat /\ n = 256 * l + a
    BY <1>0, SMT
  <2> HIDE DEF m
  <2>2. l % 256 = b
    BY <2>1
  <2> HIDE DEF l
  <2>3. n \div 256 = l
    BY <2>1
  <2> QED
    BY <2>2, <2>3
<1>4. (n \div 65536) % 256 = c
  <2> DEFINE l == c + 256 * d
             r == a + 256 * b
  <2>1. l \in Nat /\ r \in Nat /\ r < 65536 /\ n = 65536 * l + r
    BY <1>0, SMT
  <2>2. l % 256 = c
    OBVIOUS
  <2> HIDE DEF l, r
  <2>3. n \div 65536 = l
    BY <1>1, <2>1, SMT
  <2> QED
    BY <2>2, <2>3, SMT
<1>5. (n \div 16777216) % 256 = d
  <2> DEFINE r == a + 256 * b + 65536 * c
  <2>1. r \in Nat /\ r < 16777216 /\ n = 16777216 * d + r
    BY <1>0, SMT
  <2>2. d % 256 = d
    OBVIOUS
  <2> HIDE DEF r
  <2>3. n \div 16777216 = d
    BY <1>1, <2>1, SMT
  <2> QED
    BY <2>2, <2>3, SMT
<1>7. PackNumber(n) = <<a, b, c, d>>
  BY <1>2, <1>3, <1>4, <1>5, SMT DEF PackNumber
<1> QED
  BY <1>1, <1>6, <1>7

\* What unpack_number reads are the bytes that pack_number writes.
LEMMA PackUnpacked ==
    ASSUME NEW s \in Slices, NEW p \in Nat, p + 4 <= Len(s)
    PROVE  /\ NumberAt(s, p) \in Nat
           /\ NumberAt(s, p) < Unreachable =>
                \A k \in 1..4 : PackNumber(NumberAt(s, p))[k] = s[p + k]
<1>1. \A k \in 1..4 : s[p + k] \in 0..255
  <2> TAKE k \in 1..4
  <2>1. p + k \in 1..Len(s)
    BY LenProperties DEF Slices
  <2> QED
    BY <2>1, ElementOfSeq DEF Slices, Octet
<1>2. /\ s[p + 1] \in 0..255 /\ s[p + 2] \in 0..255
      /\ s[p + 3] \in 0..255 /\ s[p + 4] \in 0..255
  BY <1>1
<1>3. CASE s[p + 4] >= 128
  <2>1. NumberAt(s, p) = Unreachable
    BY <1>3, SMT DEF NumberAt
  <2>2. Unreachable \in Nat /\ ~(Unreachable < Unreachable)
    BY SMT DEF Unreachable
  <2> QED
    BY <2>1, <2>2
<1>4. CASE ~(s[p + 4] >= 128)
  <2> DEFINE n == Weighted(s[p + 1], s[p + 2], s[p + 3], s[p + 4])
  <2>1. NumberAt(s, p) = n
    BY <1>4, SMT DEF NumberAt, Weighted
  <2>2. s[p + 4] \in 0..127
    <3>1. \A x \in 0..255 : ~(x >= 128) => x \in 0..127
      OBVIOUS
    <3> QED
      BY ZenonT(60), <1>2, <1>4, <3>1
  <2>3. n \in Nat /\ PackNumber(n) = <<s[p + 1], s[p + 2], s[p + 3], s[p + 4]>>
    BY ZenonT(60), <1>2, <2>2, DigitsOf
  <2> HIDE DEF n
  <2>4. \A k \in 1..4 : PackNumber(n)[k] = s[p + k]
    BY <2>3, SMT
  <2> QED
    BY <2>1, <2>3, <2>4
<1> QED
  BY <1>3, <1>4

-----------------------------------------------------------------------------
(* Cutting a slice *)

\* Parts of one length end at its multiples.
LEMMA EndsOfEqual ==
    ASSUME NEW L \in Seq(Nat), NEW c \in Nat, \A i \in 1..Len(L) : L[i] = c
    PROVE  \A i \in 0..Len(L) : Ends(L)[i] = c * i
<1> DEFINE E == Ends(L)
           n == Len(L)
           S == {m \in Nat : m <= n => E[m] = c * m}
<1>1. n \in Nat /\ E[0] = 0 /\ \A i \in 1..n : E[i] = E[i - 1] + c
  BY LenProperties, EndsSums
<1> HIDE DEF n, E
<1>2. 0 \in S
  BY <1>1
<1>3. ASSUME NEW m \in Nat, m \in S PROVE m + 1 \in S
  <2> SUFFICES ASSUME m + 1 <= n PROVE E[m + 1] = c * (m + 1)
    OBVIOUS
  <2>1. m + 1 \in 1..n /\ (m + 1) - 1 = m /\ E[m] = c * m
    BY <1>1, <1>3
  <2>2. E[m + 1] = c * m + c
    BY <1>1, <2>1
  <2> QED
    BY <2>2
<1>4. Nat \subseteq S
  <2> HIDE DEF S
  <2> QED
    BY <1>2, <1>3, SetInduction
<1>5. \A i \in 0..n : E[i] = c * i
  BY <1>1, <1>4
<1> QED
  BY <1>5 DEF n, E

\* Bounds that never go back are in order.
LEMMA BoundsAscend ==
    ASSUME NEW m \in Nat, NEW b, \A i \in 1..m : b[i] \in Nat,
           \A i \in 1..(m - 1) : b[i] <= b[i + 1],
           NEW i \in 1..m, NEW j \in 1..m, i <= j
    PROVE  b[i] <= b[j]
<1> DEFINE S == {d \in Nat : i + d <= m => b[i] <= b[i + d]}
<1>1. 0 \in S
  <2>1. i + 0 = i /\ b[i] \in Nat
    OBVIOUS
  <2> QED
    BY <2>1
<1>2. ASSUME NEW d \in Nat, d \in S PROVE d + 1 \in S
  <2> SUFFICES ASSUME i + (d + 1) <= m PROVE b[i] <= b[i + (d + 1)]
    OBVIOUS
  <2>1. /\ i + d \in 1..m /\ i + d \in 1..(m - 1) /\ (i + d) + 1 = i + (d + 1)
        /\ i + (d + 1) \in 1..m
    OBVIOUS
  <2>2. b[i] <= b[i + d] /\ b[i + d] <= b[i + (d + 1)]
    BY <1>2, <2>1
  <2>3. b[i] \in Nat /\ b[i + d] \in Nat /\ b[i + (d + 1)] \in Nat
    BY <2>1
  <2> QED
    BY <2>2, <2>3
<1>3. Nat \subseteq S
  <2> HIDE DEF S
  <2> QED
    BY <1>1, <1>2, SetInduction
<1>4. j - i \in Nat /\ i + (j - i) = j /\ j <= m
  OBVIOUS
<1>5. j - i \in S
  BY <1>3, <1>4
<1>6. i + (j - i) <= m => b[i] <= b[i + (j - i)]
  BY <1>5
<1> QED
  BY <1>4, <1>6

\* Bounds that are as far apart as the parts are long are where they end.
LEMMA EndsAreBounds ==
    ASSUME NEW parts \in Seq(Slices), NEW b, b[1] \in Nat,
           \A i \in 1..Len(parts) : b[i + 1] = b[i] + Len(parts[i])
    PROVE  \A i \in 0..Len(parts) : b[i + 1] = b[1] + Ends(Lengths(parts))[i]
<1> DEFINE E == Ends(Lengths(parts))
           n == Len(parts)
           S == {m \in Nat : m <= n => b[m + 1] = b[1] + E[m]}
<1>1. /\ n \in Nat /\ E[0] = 0
      /\ \A i \in 0..n : E[i] \in Nat
      /\ \A i \in 1..n : E[i] = E[i - 1] + Len(parts[i]) /\ Len(parts[i]) \in Nat
  BY PartEnds
<1>2. \A i \in 1..n : b[i + 1] = b[i] + Len(parts[i])
  OBVIOUS
<1> HIDE DEF n, E
<1>3. 0 \in S
  <2>1. 0 + 1 = 1 /\ b[1] + E[0] = b[1]
    BY <1>1
  <2> QED
    BY <2>1
<1>4. ASSUME NEW m \in Nat, m \in S PROVE m + 1 \in S
  <2> SUFFICES ASSUME m + 1 <= n PROVE b[(m + 1) + 1] = b[1] + E[m + 1]
    OBVIOUS
  <2>1. m + 1 \in 1..n /\ (m + 1) - 1 = m /\ m \in 0..n /\ b[m + 1] = b[1] + E[m]
    BY <1>1, <1>4
  <2>2. /\ b[(m + 1) + 1] = b[m + 1] + Len(parts[m + 1])
        /\ E[m + 1] = E[m] + Len(parts[m + 1])
        /\ Len(parts[m + 1]) \in Nat /\ E[m] \in Nat
    BY <1>1, <1>2, <2>1
  <2> QED
    BY <2>1, <2>2
<1>5. Nat \subseteq S
  <2> HIDE DEF S
  <2> QED
    BY <1>3, <1>4, SetInduction
<1>6. \A i \in 0..n : b[i + 1] = b[1] + E[i]
  BY <1>1, <1>5
<1> QED
  BY <1>6 DEF n, E

\* A slice that bounds cut is made of the parts, each where it was.
LEMMA CutLays ==
    ASSUME NEW s \in Slices, NEW b \in Seq(Nat), NEW n \in Nat, Len(b) = n + 1,
           \A i \in 1..n : b[i] <= b[i + 1], b[n + 1] <= Len(s)
    PROVE  /\ Cut(s, b) \in Seq(Slices) /\ Len(Cut(s, b)) = n
           /\ \A i \in 1..n : Len(Cut(s, b)[i]) = b[i + 1] - b[i]
           /\ \A i \in 0..n : b[i + 1] = b[1] + Ends(Lengths(Cut(s, b)))[i]
           /\ Laid(s, b[1], Cut(s, b))
<1> DEFINE f == [i \in 1..n |-> Range0(s, b[i], b[i + 1])]
<1>1. Len(s) \in Nat /\ \A i \in 1..(n + 1) : b[i] \in Nat
  BY LenProperties, ElementOfSeq DEF Slices
<1>2. \A i \in 1..n : i + 1 \in 1..(n + 1) /\ i \in 1..(n + 1) /\ n + 1 \in 1..(n + 1) /\ i + 1 <= n + 1
  OBVIOUS
<1>3. \A i \in 1..n : b[i] \in Nat /\ b[i + 1] \in Nat /\ b[i] <= b[i + 1]
  BY <1>1, <1>2
<1>4. ASSUME NEW i \in 1..n PROVE b[i + 1] <= Len(s)
  <2>1. n + 1 \in Nat /\ (n + 1) - 1 = n
    OBVIOUS
  <2>2. b[i + 1] <= b[n + 1]
    BY <1>1, <1>2, <2>1, BoundsAscend
  <2>3. b[i + 1] \in Nat /\ b[n + 1] \in Nat
    BY <1>1, <1>2
  <2> QED
    BY <1>1, <2>2, <2>3
<1>5. \A i \in 1..n : /\ f[i] \in Slices /\ Len(f[i]) = b[i + 1] - b[i]
                      /\ \A k \in 1..(b[i + 1] - b[i]) : f[i][k] = s[b[i] + k]
  <2> TAKE i \in 1..n
  <2>1. b[i] \in Nat /\ b[i + 1] \in Nat /\ b[i] <= b[i + 1] /\ b[i + 1] <= Len(s)
    BY <1>3, <1>4
  <2>2. f[i] = Range0(s, b[i], b[i + 1])
    OBVIOUS
  <2> HIDE DEF f
  <2>3. /\ Range0(s, b[i], b[i + 1]) \in Slices
        /\ Len(Range0(s, b[i], b[i + 1])) = b[i + 1] - b[i]
        /\ \A k \in 1..(b[i + 1] - b[i]) : Range0(s, b[i], b[i + 1])[k] = s[b[i] + k]
    BY <2>1, RangeElements
  <2> QED
    BY <2>2, <2>3
<1>6. f \in [1..n -> Slices]
  <2>1. f = [i \in 1..n |-> f[i]]
    OBVIOUS
  <2> HIDE DEF f
  <2> QED
    BY <1>5, <2>1
<1>7. Cut(s, b) = AsSeq(f)
  <2>1. Len(b) - 1 = n
    OBVIOUS
  <2> QED
    BY <2>1 DEF Cut
<1> HIDE DEF f
<1>8. Cut(s, b) = f /\ f \in Seq(Slices) /\ Len(f) = n
  BY <1>6, <1>7, AsSeqIs
<1>9. \A i \in 1..n : b[i + 1] = b[i] + Len(f[i])
  BY <1>3, <1>5
<1>10. b[1] \in Nat
  BY <1>1
<1>11. \A i \in 0..n : b[i + 1] = b[1] + Ends(Lengths(f))[i]
  BY <1>8, <1>9, <1>10, EndsAreBounds
<1>12. ASSUME NEW i \in 1..n, NEW k \in 1..Len(f[i])
       PROVE  s[b[1] + Ends(Lengths(f))[i - 1] + k] = f[i][k]
  <2>1. i - 1 \in 0..n /\ (i - 1) + 1 = i
    OBVIOUS
  <2>2. b[1] + Ends(Lengths(f))[i - 1] = b[i]
    BY <1>11, <2>1
  <2> QED
    BY <1>5, <2>2
<1>13. Laid(s, b[1], f)
  BY <1>8, <1>12 DEF Laid
<1> QED
  BY <1>5, <1>8, <1>11, <1>13

\* Cutting where the parts end gets them back.
LEMMA CutReads ==
    ASSUME NEW s \in Slices, NEW parts \in Seq(Slices), NEW p \in Nat,
           Laid(s, p, parts), p + Ends(Lengths(parts))[Len(parts)] <= Len(s),
           NEW b \in Seq(Nat), Len(b) = Len(parts) + 1,
           \A i \in 0..Len(parts) : b[i + 1] = p + Ends(Lengths(parts))[i]
    PROVE  Cut(s, b) = parts
<1> DEFINE n == Len(parts)
           E == Ends(Lengths(parts))
<1>1. /\ n \in Nat /\ \A i \in 0..n : E[i] \in Nat
      /\ \A i \in 1..n : /\ i - 1 \in 0..n /\ parts[i] \in Slices /\ Len(parts[i]) \in Nat
                         /\ E[i] = E[i - 1] + Len(parts[i])
      /\ \A i, j \in 0..n : i <= j => E[i] <= E[j]
  BY PartEnds
<1>2. Laid(s, p, parts) /\ p + E[n] <= Len(s) /\ Len(b) = n + 1 /\ Len(parts) = n
      /\ \A i \in 0..n : b[i + 1] = p + E[i]
  OBVIOUS
<1>3. \A i \in 1..n : \A k \in 1..Len(parts[i]) : s[p + E[i - 1] + k] = parts[i][k]
  BY DEF Laid
<1> HIDE DEF n, E
<1>4. \A i \in 1..n : b[i] = p + E[i - 1] /\ b[i + 1] = p + E[i] /\ b[i] <= b[i + 1]
  <2> TAKE i \in 1..n
  <2>1. i - 1 \in 0..n /\ (i - 1) + 1 = i /\ i \in 0..n
    BY <1>1
  <2>2. b[i] = p + E[i - 1] /\ b[i + 1] = p + E[i]
    BY <1>2, <2>1
  <2> QED
    BY SMTT(60), <1>1, <2>1, <2>2
<1>5. b[n + 1] <= Len(s)
  <2>1. n \in 0..n
    BY <1>1
  <2> QED
    BY <1>2, <2>1
<1>6. /\ Cut(s, b) \in Seq(Slices) /\ Len(Cut(s, b)) = n
      /\ \A i \in 1..n : Len(Cut(s, b)[i]) = b[i + 1] - b[i]
      /\ \A i \in 0..n : b[i + 1] = b[1] + Ends(Lengths(Cut(s, b)))[i]
      /\ Laid(s, b[1], Cut(s, b))
  BY ZenonT(60), <1>1, <1>2, <1>4, <1>5, CutLays
<1> DEFINE c == Cut(s, b)
<1>7. ASSUME NEW i \in 1..n PROVE c[i] = parts[i]
  <2>1. Len(c[i]) = Len(parts[i])
    <3>1. Len(c[i]) = b[i + 1] - b[i]
      BY <1>6
    <3>2. b[i + 1] = p + E[i] /\ b[i] = p + E[i - 1]
      BY <1>4
    <3>3. E[i - 1] \in Nat /\ Len(parts[i]) \in Nat /\ E[i] = E[i - 1] + Len(parts[i])
      BY <1>1
    <3> HIDE DEF c
    <3> QED
      BY <3>1, <3>2, <3>3
  <2>2. ASSUME NEW k \in 1..Len(parts[i]) PROVE c[i][k] = parts[i][k]
    <3>1. s[b[1] + Ends(Lengths(c))[i - 1] + k] = c[i][k]
      BY <1>6, <2>1 DEF Laid
    <3>2. i - 1 \in 0..n /\ (i - 1) + 1 = i
      BY <1>1
    <3>3. b[1] + Ends(Lengths(c))[i - 1] = p + E[i - 1]
      BY <1>4, <1>6, <3>2
    <3> QED
      BY <1>3, <3>1, <3>3
  <2>3. c[i] \in Slices /\ parts[i] \in Slices
    BY <1>1, <1>6, ElementOfSeq
  <2> HIDE DEF c
  <2> QED
    BY <2>1, <2>2, <2>3, SameElements DEF Slices
<1> QED
  BY <1>2, <1>6, <1>7, SameElements

-----------------------------------------------------------------------------
(* Tables and dynamic vectors *)

\* The header, a total size and an offset per part, and the parts.
TotalSize(parts) == 4 * (Len(parts) + 1) + Ends(Lengths(parts))[Len(parts)]

\* The parts are where the header of the slice says, and nothing else is there.
IsLayout(s, parts) ==
    /\ s \in Slices /\ Len(s) = TotalSize(parts)
    /\ NumberAt(s, 0) = Len(s)
    /\ \A i \in 1..Len(parts) :
          NumberAt(s, 4 * i) = 4 * (Len(parts) + 1) + Ends(Lengths(parts))[i - 1]
    /\ Laid(s, 4 * (Len(parts) + 1), parts)

\* What WriteParts writes, byte by byte.
LEMMA WriteLays ==
    ASSUME NEW parts \in Seq(Slices)
    PROVE  /\ WriteParts(parts) \in Slices
           /\ Len(WriteParts(parts)) = TotalSize(parts) /\ TotalSize(parts) \in Nat
           /\ \A k \in 1..4 : WriteParts(parts)[k] = PackNumber(TotalSize(parts))[k]
           /\ \A i \in 1..Len(parts) : \A k \in 1..4 :
                WriteParts(parts)[4 * i + k] =
                    PackNumber(4 * (Len(parts) + 1) + Ends(Lengths(parts))[i - 1])[k]
           /\ Laid(WriteParts(parts), 4 * (Len(parts) + 1), parts)
<1> DEFINE n == Len(parts)
           E == Ends(Lengths(parts))
           h == 4 * (n + 1)
           offs == [i \in 1..n |-> PackNumber(h + E[i - 1])]
           A == PackNumber(h + E[n])
           B == FlattenSeq(offs)
           C == FlattenSeq(parts)
           w == A \o B \o C
<1>1. /\ n \in Nat /\ n \in 0..n
      /\ \A i \in 0..n : E[i] \in Nat
      /\ \A i \in 1..n : i - 1 \in 0..n /\ Len(parts[i]) \in Nat
  BY PartEnds
<1>2. C \in Slices /\ Len(C) = E[n] /\ Laid(C, 0, parts)
  BY FlattenLays
<1>3. h + E[n] = TotalSize(parts) /\ h \in Nat /\ h = 4 + 4 * n
  BY <1>1 DEF TotalSize
<1>4. \A i \in 1..n : \A k \in 1..Len(parts[i]) : C[0 + E[i - 1] + k] = parts[i][k]
  BY <1>2 DEF Laid
<1>5. WriteParts(parts) = PackNumber(h + E[n]) \o FlattenSeq(AsSeq(offs)) \o C
  BY DEF WriteParts, WriteHeader, NumberSize
<1>6. Len(parts) = n
  OBVIOUS
<1> HIDE DEF n, E, h, C
<1>7. \A i \in 1..n : h + E[i - 1] \in Nat
  BY <1>1, <1>3
<1>8. \A i \in 1..n : offs[i] = PackNumber(h + E[i - 1]) /\ offs[i] \in Slices /\ Len(offs[i]) = 4
  <2> TAKE i \in 1..n
  <2>1. offs[i] = PackNumber(h + E[i - 1])
    OBVIOUS
  <2>2. h + E[i - 1] \in Nat
    BY <1>7
  <2> HIDE DEF offs
  <2> QED
    BY <2>1, <2>2, PackIs
<1>9. offs \in [1..n -> Slices]
  <2>1. offs = [i \in 1..n |-> offs[i]]
    OBVIOUS
  <2> HIDE DEF offs
  <2> QED
    BY <1>8, <2>1
<1> HIDE DEF offs
<1>10. AsSeq(offs) = offs /\ offs \in Seq(Slices) /\ Len(offs) = n
  BY <1>1, <1>9, AsSeqIs
<1>11. B \in Slices /\ Len(B) = Ends(Lengths(offs))[n] /\ Laid(B, 0, offs)
  BY <1>10, FlattenLays
<1>12. \A i \in 0..n : Ends(Lengths(offs))[i] = 4 * i
  <2>1. Lengths(offs) \in Seq(Nat) /\ Len(Lengths(offs)) = n
        /\ \A i \in 1..n : Lengths(offs)[i] = 4
    BY <1>8, <1>10, LengthsAre
  <2> QED
    BY <2>1, EndsOfEqual
<1>13. Len(B) = 4 * n
  BY <1>1, <1>11, <1>12
<1>14. \A i \in 1..n : \A k \in 1..4 : B[4 * (i - 1) + k] = offs[i][k]
  <2> TAKE i \in 1..n
  <2> TAKE k \in 1..4
  <2>1. B[0 + Ends(Lengths(offs))[i - 1] + k] = offs[i][k]
    BY <1>8, <1>10, <1>11 DEF Laid
  <2>2. 0 + Ends(Lengths(offs))[i - 1] + k = 4 * (i - 1) + k
    BY <1>1, <1>12
  <2> QED
    BY <2>1, <2>2
<1>15. A \in Slices /\ Len(A) = 4
  <2>1. h + E[n] \in Nat
    BY <1>1, <1>3
  <2> QED
    BY <2>1, PackIs
<1>16. WriteParts(parts) = w
  BY <1>5, <1>10
<1>17. A = PackNumber(TotalSize(parts))
  BY <1>3
<1> HIDE DEF A, B
<1> DEFINE ab == A \o B
<1>18. /\ ab \in Slices /\ Len(ab) = h
       /\ \A k \in 1..4 : ab[k] = A[k]
       /\ \A k \in 1..(4 * n) : ab[4 + k] = B[k]
  <2>1. /\ ab \in Slices /\ Len(ab) = Len(A) + Len(B)
        /\ \A k \in 1..Len(A) : ab[k] = A[k]
        /\ \A k \in 1..Len(B) : ab[Len(A) + k] = B[k]
    BY <1>11, <1>15, ConcatSlices
  <2> HIDE DEF ab
  <2> QED
    BY <1>3, <1>13, <1>15, <2>1
<1> HIDE DEF ab
<1>19. /\ ab \o C \in Slices /\ Len(ab \o C) = h + E[n]
       /\ \A k \in 1..h : (ab \o C)[k] = ab[k]
       /\ \A k \in 1..E[n] : (ab \o C)[h + k] = C[k]
  <2>1. /\ ab \o C \in Slices /\ Len(ab \o C) = Len(ab) + Len(C)
        /\ \A k \in 1..Len(ab) : (ab \o C)[k] = ab[k]
        /\ \A k \in 1..Len(C) : (ab \o C)[Len(ab) + k] = C[k]
    BY <1>2, <1>18, ConcatSlices
  <2> QED
    BY <1>2, <1>18, <2>1
<1>20. w = ab \o C
  BY DEF ab
<1> HIDE DEF w
<1>21. \A k \in 1..4 : w[k] = PackNumber(TotalSize(parts))[k]
  <2>1. \A k \in 1..4 : k \in 1..h
    BY <1>1, <1>3
  <2> QED
    BY <1>17, <1>18, <1>19, <1>20, <2>1
<1>22. ASSUME NEW i \in 1..n, NEW k \in 1..4
       PROVE  w[4 * i + k] = PackNumber(h + E[i - 1])[k]
  <2>1. /\ 4 * (i - 1) + k \in 1..(4 * n) /\ 4 + (4 * (i - 1) + k) = 4 * i + k
        /\ 4 * i + k \in 1..h
    BY <1>1, <1>3
  <2>2. w[4 * i + k] = ab[4 + (4 * (i - 1) + k)]
    BY <1>19, <1>20, <2>1
  <2>3. ab[4 + (4 * (i - 1) + k)] = B[4 * (i - 1) + k]
    BY <1>18, <2>1
  <2> QED
    BY <1>8, <1>14, <2>2, <2>3
<1>23. ASSUME NEW i \in 1..n, NEW k \in 1..Len(parts[i])
       PROVE  w[h + E[i - 1] + k] = parts[i][k]
  <2>1. /\ E[i - 1] \in Nat /\ E[i] \in Nat /\ Len(parts[i]) \in Nat
        /\ E[i] = E[i - 1] + Len(parts[i]) /\ E[i] <= E[n] /\ E[n] \in Nat
    BY <1>6, PartEnds DEF n, E
  <2>2. E[i - 1] + k \in 1..E[n] /\ 0 + E[i - 1] + k = E[i - 1] + k
        /\ h + (E[i - 1] + k) = h + E[i - 1] + k
    BY SMTT(60), <1>3, <2>1
  <2>3. w[h + (E[i - 1] + k)] = C[E[i - 1] + k]
    BY <1>19, <1>20, <2>2
  <2> QED
    BY <1>4, <2>2, <2>3
<1>24. Laid(w, h, parts)
  BY <1>23 DEF Laid, n, E
<1>25. w \in Slices /\ Len(w) = TotalSize(parts) /\ TotalSize(parts) \in Nat
  BY <1>1, <1>3, <1>19, <1>20
<1>26. w = WriteParts(parts)
  BY <1>16
<1> HIDE DEF w
<1> QED
  BY <1>21, <1>22, <1>24, <1>25, <1>26 DEF n, E, h

\* A slice that fits has its sizes and offsets in the numbers of the header.
LEMMA WriteIsLayout ==
    ASSUME NEW parts \in Seq(Slices), Fits(WriteParts(parts))
    PROVE  IsLayout(WriteParts(parts), parts)
<1> DEFINE n == Len(parts)
           E == Ends(Lengths(parts))
           h == 4 * (n + 1)
           w == WriteParts(parts)
<1>1. /\ w \in Slices /\ Len(w) = TotalSize(parts) /\ TotalSize(parts) \in Nat
      /\ \A k \in 1..4 : w[k] = PackNumber(TotalSize(parts))[k]
      /\ \A i \in 1..n : \A k \in 1..4 : w[4 * i + k] = PackNumber(h + E[i - 1])[k]
      /\ Laid(w, h, parts)
  BY WriteLays
<1>2. TotalSize(parts) < Unreachable /\ Unreachable \in Nat
  BY <1>1, SMT DEF Fits, Unreachable
<1>3. NumberAt(w, 0) = TotalSize(parts)
  <2>1. \A k \in 1..4 : w[0 + k] = PackNumber(TotalSize(parts))[k]
    BY <1>1
  <2>2. 0 \in Nat /\ TotalSize(parts) \in Nat /\ TotalSize(parts) < Unreachable
    BY <1>1, <1>2
  <2> HIDE DEF w
  <2> DEFINE m == TotalSize(parts)
  <2> HIDE DEF m
  <2>3. \A k \in 1..4 : w[0 + k] = PackNumber(m)[k]
    BY <2>1 DEF m
  <2>4. m \in Nat /\ m < Unreachable
    BY <2>2 DEF m
  <2>5. NumberAt(w, 0) = m
    BY <2>3, <2>4, UnpackPacked
  <2> QED
    BY <2>5 DEF m
<1>4. ASSUME NEW i \in 1..n PROVE NumberAt(w, 4 * i) = h + E[i - 1]
  <2>1. /\ n \in Nat /\ E[i - 1] \in Nat /\ E[n] \in Nat /\ E[i - 1] <= E[n]
        /\ TotalSize(parts) = h + E[n]
    BY PartEnds DEF TotalSize
  <2>2. h + E[i - 1] \in Nat /\ h + E[i - 1] < Unreachable /\ 4 * i \in Nat
    <3> HIDE DEF n, E
    <3> QED
      BY <1>2, <2>1
  <2>3. \A k \in 1..4 : w[4 * i + k] = PackNumber(h + E[i - 1])[k]
    BY <1>1
  <2> HIDE DEF n, E, h, w
  <2> QED
    BY <2>2, <2>3, UnpackPacked
<1> QED
  BY <1>1, <1>3, <1>4 DEF IsLayout

\* There is one slice with that layout.
LEMMA LayoutIsUnique ==
    ASSUME NEW parts \in Seq(Slices), NEW s, NEW t,
           IsLayout(s, parts), IsLayout(t, parts), Fits(s)
    PROVE  s = t
<1> DEFINE n == Len(parts)
           E == Ends(Lengths(parts))
           h == 4 * (n + 1)
<1>1. /\ n \in Nat /\ E[n] \in Nat /\ h \in Nat /\ h = 4 + 4 * n /\ TotalSize(parts) = h + E[n]
      /\ \A i \in 1..n : E[i - 1] \in Nat /\ E[i - 1] <= E[n]
  BY PartEnds DEF TotalSize
<1>2. /\ s \in Slices /\ Len(s) = h + E[n] /\ t \in Slices /\ Len(t) = h + E[n]
      /\ NumberAt(s, 0) = h + E[n] /\ NumberAt(t, 0) = h + E[n]
      /\ \A i \in 1..n : NumberAt(s, 4 * i) = h + E[i - 1] /\ NumberAt(t, 4 * i) = h + E[i - 1]
  BY <1>1 DEF IsLayout
<1>3. h + E[n] < Unreachable /\ Unreachable \in Nat
  BY <1>2, SMT DEF Fits, Unreachable
<1>4. \A j \in 1..E[n] : s[h + j] = t[h + j]
  <2>1. Laid(s, h, parts) /\ Laid(t, h, parts) /\ h \in Nat
    BY <1>1 DEF IsLayout
  <2> HIDE DEF h
  <2> QED
    BY <2>1, LaidIsUnique
<1> HIDE DEF n, E
<1>5. ASSUME NEW i \in 0..n, NEW k \in 1..4 PROVE s[4 * i + k] = t[4 * i + k]
  <2>1. 4 * i \in Nat /\ 4 * i + 4 <= h + E[n]
    BY <1>1
  <2>2. NumberAt(s, 4 * i) = NumberAt(t, 4 * i) /\ NumberAt(s, 4 * i) < Unreachable
    <3>1. CASE i = 0
      BY <1>2, <1>3, <3>1
    <3>2. CASE i # 0
      <4>1. i \in 1..n
        BY <1>1, <3>2
      <4>2. h + E[i - 1] < Unreachable
        BY <1>1, <1>3, <4>1
      <4> QED
        BY <1>2, <4>1, <4>2
    <3> QED
      BY <3>1, <3>2
  <2>3. PackNumber(NumberAt(s, 4 * i))[k] = s[4 * i + k]
    BY <1>2, <2>1, <2>2, PackUnpacked
  <2>4. PackNumber(NumberAt(t, 4 * i))[k] = t[4 * i + k]
    BY <1>2, <2>1, <2>2, PackUnpacked
  <2> QED
    BY <2>2, <2>3, <2>4
<1>6. ASSUME NEW j \in 1..(h + E[n]) PROVE s[j] = t[j]
  <2>1. CASE j <= h
    <3> DEFINE i == (j - 1) \div 4
               k == ((j - 1) % 4) + 1
    <3>1. i \in 0..n /\ k \in 1..4 /\ j = 4 * i + k
      BY SMTT(60), <1>1, <2>1
    <3> QED
      BY <1>5, <3>1
  <2>2. CASE ~(j <= h)
    <3>1. j - h \in 1..E[n] /\ h + (j - h) = j
      BY <1>1, <2>2
    <3> QED
      BY <1>4, <3>1
  <2> QED
    BY <2>1, <2>2
<1> QED
  BY <1>2, <1>6, SameElements DEF Slices

\* The offsets of a slice are the numbers of its header and its length.
LEMMA OffsetsAre ==
    ASSUME NEW s, NEW n \in Nat, FieldCount(s) = n,
           NEW b \in Seq(Nat), Len(b) = n + 1, b[n + 1] = Len(s),
           \A i \in 1..n : b[i] = NumberAt(s, 4 * i)
    PROVE  Offsets(s) = b
<1> DEFINE g == [i \in 1..n |-> NumberAt(s, 4 * i)]
<1>1. Offsets(s) = Append(AsSeq(g), Len(s))
  BY DEF Offsets, NumberSize
<1>2. \A i \in 1..n : g[i] = b[i]
  OBVIOUS
<1>3. \A i \in 1..(n + 1) : b[i] \in Nat
  BY ElementOfSeq
<1>4. g \in [1..n -> Nat]
  <2>1. g = [i \in 1..n |-> g[i]] /\ \A i \in 1..n : i \in 1..(n + 1)
    OBVIOUS
  <2> HIDE DEF g
  <2> QED
    BY <1>2, <1>3, <2>1
<1> HIDE DEF g
<1>5. AsSeq(g) = g /\ g \in Seq(Nat) /\ Len(g) = n
  BY <1>4, AsSeqIs
<1>6. Len(s) \in Nat
  BY <1>3
<1> DEFINE a == Append(g, Len(s))
<1>7. /\ a \in Seq(Nat) /\ Len(a) = n + 1 /\ a[n + 1] = Len(s)
      /\ \A i \in 1..n : a[i] = g[i]
  BY <1>5, <1>6, AppendProperties
<1> HIDE DEF a
<1>8. \A i \in 1..(n + 1) : a[i] = b[i]
  <2> TAKE i \in 1..(n + 1)
  <2>1. CASE i = n + 1
    BY <1>7, <2>1
  <2>2. CASE i # n + 1
    <3>1. i \in 1..n
      BY <2>2
    <3> QED
      BY <1>2, <1>7, <3>1
  <2> QED
    BY <2>1, <2>2
<1>9. a = b
  BY <1>7, <1>8, SameElements
<1> QED
  BY <1>1, <1>5, <1>9 DEF a

\* The reader finds the parts that are laid out.
LEMMA LayoutReads ==
    ASSUME NEW parts \in Seq(Slices), NEW s, IsLayout(s, parts)
    PROVE  /\ TotalSizeOK(s) /\ FieldCount(s) = Len(parts) /\ Parts(s) = parts
           /\ Len(s) = 4 <=> Len(parts) = 0
           /\ Len(parts) # 0 => OffsetsOK(s)
<1> DEFINE n == Len(parts)
           E == Ends(Lengths(parts))
           h == 4 * (n + 1)
           b == [i \in 1..(n + 1) |-> h + E[i - 1]]
<1>1. /\ n \in Nat /\ E[n] \in Nat /\ E[0] = 0 /\ h \in Nat /\ h = 4 + 4 * n
      /\ TotalSize(parts) = h + E[n]
      /\ \A i \in 0..n : E[i] \in Nat
      /\ \A i, j \in 0..n : i <= j => E[i] <= E[j]
  BY PartEnds DEF TotalSize
<1>2. /\ s \in Slices /\ Len(s) = h + E[n] /\ NumberAt(s, 0) = Len(s)
      /\ \A i \in 1..n : NumberAt(s, 4 * i) = h + E[i - 1]
      /\ Laid(s, h, parts)
  BY <1>1 DEF IsLayout
<1>3. Len(parts) = n
  OBVIOUS
<1>4. TotalSizeOK(s)
  <2> HIDE DEF n, E
  <2> QED
    BY <1>1, <1>2 DEF TotalSizeOK, NumberSize
<1>5. E \in [0..n -> Nat]
  BY LengthsAre, EndsSums
<1>6. n # 0 => NumberAt(s, 4) = h /\ Len(s) >= 8 /\ Len(s) >= h /\ Len(s) # 4
  <2> SUFFICES ASSUME n # 0 PROVE NumberAt(s, 4) = h /\ Len(s) >= 8 /\ Len(s) >= h /\ Len(s) # 4
    OBVIOUS
  <2> HIDE DEF n, E, h
  <2>1. 1 \in 1..n /\ 4 * 1 = 4 /\ 1 - 1 = 0 /\ Len(s) >= 8 /\ Len(s) # 4 /\ Len(s) >= h
    BY <1>1, <1>2
  <2>2. NumberAt(s, 4 * 1) = h + E[1 - 1]
    BY <1>2, <2>1
  <2> QED
    BY <1>1, <2>1, <2>2
<1>7. (Len(s) = 4 <=> n = 0) /\ (n = 0 => parts = <<>>)
  <2>1. n = 0 => parts = <<>>
    BY EmptySeq
  <2> HIDE DEF n, E, h
  <2> QED
    BY <1>1, <1>2, <2>1
<1>8. n # 0 => h \div 4 = n + 1 /\ h % 4 = 0 /\ h >= 8 /\ (n + 1) - 1 = n
  <2> HIDE DEF n, E
  <2> QED
    BY <1>1
<1>9. FieldCount(s) = n
  <2> HIDE DEF n, E, h
  <2>1. CASE n = 0
    BY <1>7, <2>1 DEF FieldCount, NumberSize
  <2>2. CASE n # 0
    BY <1>6, <1>8, <2>2 DEF FieldCount, NumberSize
  <2> QED
    BY <2>1, <2>2
<1> HIDE DEF n, E, h
<1>10. \A i \in 1..(n + 1) : b[i] = h + E[i - 1] /\ b[i] \in Nat
  BY <1>1
<1>11. b \in [1..(n + 1) -> Nat]
  <2>1. b = [i \in 1..(n + 1) |-> b[i]]
    OBVIOUS
  <2> HIDE DEF b
  <2> QED
    BY <1>10, <2>1
<1> HIDE DEF b
<1>12. b \in Seq(Nat) /\ Len(b) = n + 1
  <2>1. n + 1 \in Nat
    BY <1>1
  <2> QED
    BY <1>11, <2>1, AsSeqIs
<1>13. \A i \in 0..n : b[i + 1] = h + E[i]
  <2> TAKE i \in 0..n
  <2>1. i + 1 \in 1..(n + 1) /\ (i + 1) - 1 = i
    BY <1>1
  <2> QED
    BY <1>10, <2>1
<1>14. Offsets(s) = b
  <2>1. b[n + 1] = Len(s) /\ n \in Nat
    <3>1. n \in 0..n
      BY <1>1
    <3> QED
      BY <1>1, <1>2, <1>13, <3>1
  <2>2. \A i \in 1..n : b[i] = NumberAt(s, 4 * i)
    <3>1. \A i \in 1..n : i \in 1..(n + 1)
      BY <1>1
    <3> QED
      BY <1>2, <1>10, <3>1
  <2> QED
    BY <1>9, <1>12, <2>1, <2>2, OffsetsAre
<1>15. Parts(s) = parts
  <2>1. h + E[n] <= Len(s)
    BY <1>1, <1>2
  <2>2. Cut(s, b) = parts
    BY <1>1, <1>2, <1>3, <1>12, <1>13, <2>1, CutReads DEF E
  <2> QED
    BY <1>14, <2>2 DEF Parts
<1>16. n # 0 => OffsetsOK(s)
  <2>1. \A i \in 1..n : b[i] <= b[i + 1]
    <3> TAKE i \in 1..n
    <3>1. /\ i - 1 \in 0..n /\ i \in 0..n /\ i - 1 <= i /\ i \in 1..(n + 1)
          /\ E[i - 1] \in Nat /\ E[i] \in Nat /\ E[i - 1] <= E[i]
      BY <1>1
    <3> QED
      BY <1>1, <1>10, <1>13, <3>1
  <2>2. Len(Offsets(s)) - 1 = n
    BY <1>1, <1>12, <1>14
  <2>3. Ascending(Offsets(s))
    BY <1>14, <2>1, <2>2 DEF Ascending
  <2> QED
    BY <1>6, <1>8, <2>3 DEF OffsetsOK, HeaderEndOK, NumberSize
<1> QED
  BY <1>3, <1>4, <1>7, <1>9, <1>15, <1>16

\* What the reader lets pass is laid out as its header says.
LEMMA ReaderLays ==
    ASSUME NEW s \in Slices, TotalSizeOK(s), OffsetsOK(s)
    PROVE  /\ Parts(s) \in Seq(Slices) /\ Len(Parts(s)) = FieldCount(s)
           /\ FieldCount(s) \in Nat /\ FieldCount(s) # 0 /\ Len(s) # 4
           /\ IsLayout(s, Parts(s))
<1> DEFINE f == NumberAt(s, 4)
           c == f \div 4
           n == c - 1
           o == [i \in 1..(n + 1) |-> IF i < n + 1 THEN NumberAt(s, 4 * i) ELSE Len(s)]
<1>1. /\ Len(s) \in Nat /\ Len(s) >= 8 /\ NumberAt(s, 0) = Len(s)
      /\ f % 4 = 0 /\ f >= 8 /\ Len(s) >= f
  BY LenProperties DEF TotalSizeOK, OffsetsOK, HeaderEndOK, NumberSize, Slices
<1>2. f \in Nat
  <2>1. 4 + 4 <= Len(s) /\ 4 \in Nat
    BY <1>1
  <2> QED
    BY <2>1, PackUnpacked
<1> HIDE DEF f
<1>3. n \in Nat /\ n # 0 /\ f = 4 * (n + 1) /\ n + 1 = c
  BY <1>1, <1>2
<1>4. FieldCount(s) = n /\ Len(s) # 4
  BY <1>1 DEF FieldCount, NumberSize, f
<1> HIDE DEF n
<1>6. \A i \in 1..(n + 1) : o[i] = (IF i < n + 1 THEN NumberAt(s, 4 * i) ELSE Len(s)) /\ o[i] \in Nat
  <2> TAKE i \in 1..(n + 1)
  <2>1. o[i] = IF i < n + 1 THEN NumberAt(s, 4 * i) ELSE Len(s)
    OBVIOUS
  <2> HIDE DEF o
  <2>2. CASE i < n + 1
    <3>1. 4 * i \in Nat /\ 4 * i + 4 <= Len(s)
      BY <1>1, <1>2, <1>3, <2>2
    <3> QED
      BY <2>1, <2>2, <3>1, PackUnpacked
  <2>3. CASE ~(i < n + 1)
    BY <1>1, <2>1, <2>3
  <2> QED
    BY <2>1, <2>2, <2>3
<1>7. o \in [1..(n + 1) -> Nat]
  <2>1. o = [i \in 1..(n + 1) |-> o[i]]
    OBVIOUS
  <2> HIDE DEF o
  <2> QED
    BY <1>6, <2>1
<1> HIDE DEF o
<1>8. Offsets(s) = o /\ o \in Seq(Nat) /\ Len(o) = n + 1
  <2>1. n + 1 \in Nat
    BY <1>3
  <2>2. o \in Seq(Nat) /\ Len(o) = n + 1
    BY <1>7, <2>1, AsSeqIs
  <2>3. n + 1 \in 1..(n + 1) /\ ~(n + 1 < n + 1) /\ \A i \in 1..n : i \in 1..(n + 1) /\ i < n + 1
    BY <1>3
  <2>4. o[n + 1] = Len(s) /\ \A i \in 1..n : o[i] = NumberAt(s, 4 * i)
    BY <1>6, <2>3
  <2> QED
    BY <1>3, <1>4, <2>2, <2>4, OffsetsAre
<1>9. \A i \in 1..n : o[i] <= o[i + 1]
  <2>1. Len(o) - 1 = n
    BY <1>3, <1>8
  <2>2. \A i \in 1..(Len(o) - 1) : o[i] <= o[i + 1]
    BY <1>8 DEF OffsetsOK, Ascending
  <2> QED
    BY <2>1, <2>2
<1>10. o[n + 1] = Len(s) /\ o[1] = f /\ \A i \in 1..n : o[i] = NumberAt(s, 4 * i)
  <2>1. n + 1 \in 1..(n + 1) /\ ~(n + 1 < n + 1)
    BY <1>3
  <2>2. o[n + 1] = Len(s)
    BY <1>6, <2>1
  <2>3. \A i \in 1..n : i \in 1..(n + 1) /\ i < n + 1
    BY <1>3
  <2>4. \A i \in 1..n : o[i] = NumberAt(s, 4 * i)
    BY <1>6, <2>3
  <2>5. 1 \in 1..n /\ 4 * 1 = 4
    BY <1>3
  <2>6. o[1] = NumberAt(s, 4 * 1)
    BY <2>4, <2>5
  <2> QED
    BY <2>2, <2>4, <2>5, <2>6 DEF f
<1>11. Parts(s) = Cut(s, o)
  BY <1>8 DEF Parts
<1>12. Len(s) <= Len(s)
  BY <1>1
<1>13. /\ Parts(s) \in Seq(Slices) /\ Len(Parts(s)) = n
       /\ \A i \in 0..n : o[i + 1] = f + Ends(Lengths(Parts(s)))[i]
       /\ Laid(s, f, Parts(s))
  <2>1. o[n + 1] <= Len(s)
    BY <1>10, <1>12
  <2>2. n \in Nat /\ Len(o) = n + 1 /\ o \in Seq(Nat)
    BY <1>3, <1>8
  <2>3. /\ Cut(s, o) \in Seq(Slices) /\ Len(Cut(s, o)) = n
        /\ \A i \in 0..n : o[i + 1] = o[1] + Ends(Lengths(Cut(s, o)))[i]
        /\ Laid(s, o[1], Cut(s, o))
    BY <1>9, <2>1, <2>2, CutLays
  <2> QED
    BY <1>10, <1>11, <2>3
<1> DEFINE E == Ends(Lengths(Parts(s)))
<1>14. \A i \in 1..n : NumberAt(s, 4 * i) = f + E[i - 1]
  <2> TAKE i \in 1..n
  <2>1. i - 1 \in 0..n /\ (i - 1) + 1 = i
    BY <1>3
  <2> QED
    BY <1>10, <1>13, <2>1
<1>15. Len(s) = f + E[n]
  <2>1. n \in 0..n
    BY <1>3
  <2> QED
    BY <1>10, <1>13, <2>1
<1>16. TotalSize(Parts(s)) = Len(s)
  BY <1>3, <1>13, <1>15 DEF TotalSize
<1>17. f = 4 * (Len(Parts(s)) + 1)
  BY <1>3, <1>13
<1>18. IsLayout(s, Parts(s))
  BY <1>1, <1>13, <1>14, <1>16, <1>17 DEF IsLayout
<1> QED
  BY <1>3, <1>4, <1>13, <1>18

\* A header without offsets is an entity without parts.
LEMMA EmptyLays ==
    ASSUME NEW s \in Slices, TotalSizeOK(s), Len(s) = 4
    PROVE  Parts(s) = <<>> /\ IsLayout(s, <<>>)
<1>1. <<>> \in Seq(Slices) /\ Len(<<>>) = 0
  BY EmptySeq
<1>2. TotalSize(<<>>) = 4
  <2>1. Ends(Lengths(<<>>))[0] = 0
    BY <1>1, PartEnds
  <2> QED
    BY <1>1, <2>1 DEF TotalSize
<1>3. Laid(s, 4 * (Len(<<>>) + 1), <<>>)
  BY <1>1 DEF Laid
<1>4. IsLayout(s, <<>>)
  BY <1>1, <1>2, <1>3 DEF IsLayout, TotalSizeOK, NumberSize
<1> QED
  BY <1>1, <1>4, LayoutReads

\* A slice that is laid out for its parts is what is written for them.
LEMMA LayoutIsWritten ==
    ASSUME NEW parts \in Seq(Slices), NEW s, IsLayout(s, parts), Fits(s)
    PROVE  WriteParts(parts) = s
<1>1. Len(WriteParts(parts)) = Len(s)
  BY WriteLays DEF IsLayout
<1>2. Fits(WriteParts(parts))
  BY <1>1 DEF Fits
<1>3. IsLayout(WriteParts(parts), parts)
  BY <1>2, WriteIsLayout
<1> QED
  BY <1>3, LayoutIsUnique

\* The first parts of a sequence.
LEMMA PrefixIs ==
    ASSUME NEW n \in Nat, NEW v \in Seq(Slices), NEW q \in Seq(Slices),
           Len(v) = n, n <= Len(q), \A i \in 1..n : q[i] = v[i]
    PROVE  SubSeq(q, 1, n) = v
<1>1. Len(q) \in Nat
  BY LenProperties
<1>2. /\ SubSeq(q, 1, n) \in Seq(Slices) /\ Len(SubSeq(q, 1, n)) = n
      /\ \A i \in 1..n : SubSeq(q, 1, n)[i] = q[i]
  BY <1>1, SubSeqProperties
<1> QED
  BY <1>2, SameElements

-----------------------------------------------------------------------------
(* What makes a type sound *)

\* A compatible reader accepts all that a strict one accepts.
Grows(t) == t.accepted[FALSE] \subseteq t.accepted[TRUE] /\ t.accepted[TRUE] \subseteq Slices

\* Entities have one size, which is all that the readers check.
FixedSize(t) ==
    t.size \in Nat \ {0} /\ \A c \in BOOLEAN : t.accepted[c] = Bytewise(t.size)

\* What a builder builds, the accessors return.
ReadsBack(t) ==
    \A c \in BOOLEAN : \A v : IsValue(t, v, c) /\ Fits(Build(t, v)) =>
        Build(t, v) \in t.accepted[c] /\ Read(t, Build(t, v)) = v

\* What the strict reader accepts is what a builder builds.
Exact(t) ==
    \A s \in t.accepted[FALSE] : Fits(s) =>
        Build(t, Read(t, s)) = s /\ IsValue(t, Read(t, s), FALSE)

\* The compatible reader reads what a newer builder builds, the strict one does
\* not accept it.
Evolves(t) ==
    \A v : \A extra \in Seq(Slices) \ {<<>>} :
        IsValue(t, v, TRUE) /\ Fits(BuildNewer(t, v, extra)) =>
            /\ BuildNewer(t, v, extra) \in t.accepted[TRUE]
            /\ Read(t, BuildNewer(t, v, extra)) = v
            /\ BuildNewer(t, v, extra) \in t.accepted[FALSE] =>
                 BuildNewer(t, v, extra) = Build(t, v) /\ IsValue(t, v, FALSE)

Sound(t) == Grows(t) /\ ReadsBack(t) /\ Exact(t) /\ Evolves(t)

\* Only tables get more fields: of the other types a newer entity is one.
LEMMA OthersEvolve ==
    ASSUME NEW t, t.kind # "table", ReadsBack(t), Exact(t)
    PROVE  Evolves(t)
<1> SUFFICES ASSUME NEW v, NEW extra \in Seq(Slices) \ {<<>>}, IsValue(t, v, TRUE),
                    Fits(BuildNewer(t, v, extra))
             PROVE  /\ BuildNewer(t, v, extra) \in t.accepted[TRUE]
                    /\ Read(t, BuildNewer(t, v, extra)) = v
                    /\ BuildNewer(t, v, extra) \in t.accepted[FALSE] =>
                         BuildNewer(t, v, extra) = Build(t, v) /\ IsValue(t, v, FALSE)
  BY DEF Evolves
<1>1. BuildNewer(t, v, extra) = Build(t, v)
  BY DEF BuildNewer
<1>2. Build(t, v) \in t.accepted[TRUE] /\ Read(t, Build(t, v)) = v
  BY <1>1 DEF ReadsBack
<1> QED
  BY <1>1, <1>2 DEF Exact

\* An array is its bytes.
LEMMA ArraySound ==
    ASSUME NEW n \in Nat \ {0}
    PROVE  FixedSize(Array(n)) /\ Sound(Array(n))
<1> DEFINE t == Array(n)
<1>1. t.kind = "array" /\ t.size = n /\ \A c \in BOOLEAN : t.accepted[c] = Bytewise(n)
  BY DEF Array
<1> HIDE DEF t
<1>2. FixedSize(t) /\ Grows(t)
  BY <1>1 DEF FixedSize, Grows, Bytewise
<1>3. \A v : Build(t, v) = v /\ Read(t, v) = v
             /\ \A c \in BOOLEAN : IsValue(t, v, c) <=> v \in Bytewise(n)
  BY <1>1 DEF Build, Read, IsValue
<1>4. ReadsBack(t)
  BY <1>1, <1>3 DEF ReadsBack
<1>5. Exact(t)
  BY <1>1, <1>3 DEF Exact
<1>6. Evolves(t)
  BY <1>1, <1>4, <1>5, OthersEvolve
<1> QED
  BY <1>2, <1>4, <1>5, <1>6 DEF Sound, t

\* The fields of a struct have fixed places.
LEMMA StructSound ==
    ASSUME NEW fields, Len(fields) \in Nat \ {0},
           \A i \in 1..Len(fields) : FixedSize(FieldType(fields[i]))
    PROVE  FixedSize(Struct(fields)) /\ Sound(Struct(fields))
<1> DEFINE t == Struct(fields)
           n == Len(fields)
           z == [i \in 1..n |-> FieldType(fields[i]).size]
           E == Ends(z)
           size == E[n]
           b == [i \in 1..(n + 1) |-> E[i - 1]]
<1>1. z \in Seq(Nat) /\ Len(z) = n /\ AsSeq(z) = z /\ \A i \in 1..n : z[i] \in Nat /\ z[i] # 0
  <2>1. \A i \in 1..n : z[i] \in Nat /\ z[i] # 0
    BY DEF FixedSize
  <2>2. z \in [1..n -> Nat]
    <3>1. z = [i \in 1..n |-> z[i]]
      OBVIOUS
    <3> HIDE DEF z
    <3> QED
      BY <2>1, <3>1
  <2> HIDE DEF z
  <2> QED
    BY <2>1, <2>2, AsSeqIs
<1>2. FieldEnds(fields) = E
  BY <1>1 DEF FieldEnds
<1>3. /\ t.kind = "struct" /\ t.fields = fields /\ t.size = size
      /\ \A c \in BOOLEAN : t.accepted[c] = Bytewise(size)
  BY <1>2 DEF Struct, Sized
<1>4. n \in Nat \ {0} /\ n = Len(fields)
      /\ \A i \in 1..n : \A c \in BOOLEAN : FieldType(fields[i]).accepted[c] = Bytewise(z[i])
  BY DEF FixedSize
<1> HIDE DEF t, n, z
<1>5. E \in [0..n -> Nat] /\ E[0] = 0 /\ \A i \in 1..n : E[i] = E[i - 1] + z[i]
  BY <1>1, EndsSums
<1>6. \A i, j \in 0..n : i <= j => E[i] <= E[j]
  BY <1>1, EndsAscend
<1> HIDE DEF E
<1>7. size \in Nat /\ size # 0
  <2>1. n \in 0..n /\ n - 1 \in 0..n /\ n \in 1..n /\ E[n] \in Nat /\ E[n - 1] \in Nat
    BY <1>4, <1>5
  <2>2. E[n] = E[n - 1] + z[n] /\ z[n] \in Nat /\ z[n] # 0
    BY <1>1, <1>5, <2>1
  <2> QED
    BY <2>1, <2>2
<1>8. FixedSize(t) /\ Grows(t)
  BY <1>3, <1>7 DEF FixedSize, Grows, Bytewise
<1>9. \A i \in 1..(n + 1) : i - 1 \in 0..n /\ b[i] = E[i - 1] /\ E[i - 1] \in Nat
  <2>1. \A i \in 1..(n + 1) : i - 1 \in 0..n
    BY <1>4
  <2>2. \A i \in 0..n : E[i] \in Nat
    BY <1>5
  <2> QED
    BY <2>1, <2>2
<1>10. b \in [1..(n + 1) -> Nat]
  <2>1. b = [i \in 1..(n + 1) |-> b[i]]
    OBVIOUS
  <2> HIDE DEF b
  <2> QED
    BY <1>9, <2>1
<1>11. StructBounds(t) = AsSeq(b)
  BY <1>2, <1>3, <1>4 DEF StructBounds
<1> HIDE DEF b
<1>12. StructBounds(t) = b /\ b \in Seq(Nat) /\ Len(b) = n + 1
  <2>1. n + 1 \in Nat
    BY <1>4
  <2> QED
    BY <1>10, <1>11, <2>1, AsSeqIs
<1>13. \A i \in 0..n : b[i + 1] = E[i]
  <2> TAKE i \in 0..n
  <2>1. i + 1 \in 1..(n + 1) /\ (i + 1) - 1 = i
    BY <1>4
  <2> QED
    BY <1>9, <2>1
<1>14. \A s : Read(t, s) = Cut(s, b)
  BY <1>3, <1>12 DEF Read, ItemSlices
<1>15. \A v : Build(t, v) = FlattenSeq(v)
  BY <1>3 DEF Build
<1>16. \A v : \A c \in BOOLEAN : IsValue(t, v, c) <=>
          v \in Seq(Slices) /\ Len(v) = n /\ \A i \in 1..n : v[i] \in Slices /\ Len(v[i]) = z[i]
  <2> TAKE v
  <2> TAKE c \in BOOLEAN
  <2>1. \A i : PartType(t, i) = FieldType(fields[i])
    BY <1>3 DEF PartType
  <2>2. IsValue(t, v, c) <=>
          v \in Seq(Slices) /\ Len(v) = n
          /\ \A i \in 1..Len(v) : v[i] \in FieldType(fields[i]).accepted[c]
    BY <1>3, <1>4, <2>1 DEF IsValue, Verify
  <2> QED
    BY <1>4, <2>2 DEF Bytewise
<1>17. \A v \in Seq(Slices) : Len(v) = n /\ (\A i \in 1..n : Len(v[i]) = z[i]) => Lengths(v) = z
  <2> TAKE v \in Seq(Slices)
  <2> HAVE Len(v) = n /\ \A i \in 1..n : Len(v[i]) = z[i]
  <2> QED
    <3>1. /\ Lengths(v) \in Seq(Nat) /\ Len(Lengths(v)) = n
          /\ \A i \in 1..n : Lengths(v)[i] = z[i]
      BY LengthsAre
    <3> QED
      BY <1>1, <3>1, SameElements
<1>18. ReadsBack(t)
  <2> SUFFICES ASSUME NEW c \in BOOLEAN, NEW v, IsValue(t, v, c)
               PROVE  Build(t, v) \in t.accepted[c] /\ Read(t, Build(t, v)) = v
    BY DEF ReadsBack
  <2>1. v \in Seq(Slices) /\ Len(v) = n /\ Lengths(v) = z
    BY <1>16, <1>17
  <2> DEFINE s == FlattenSeq(v)
  <2>2. s \in Slices /\ Len(s) = size /\ Laid(s, 0, v)
    BY <2>1, FlattenLays DEF E
  <2> HIDE DEF s
  <2>3. s \in Bytewise(size)
    BY <2>2 DEF Bytewise
  <2>4. Cut(s, b) = v
    <3>1. 0 + Ends(Lengths(v))[Len(v)] <= Len(s) /\ Len(b) = Len(v) + 1 /\ 0 \in Nat
      BY <1>7, <1>12, <2>1, <2>2 DEF E
    <3>2. \A i \in 0..Len(v) : b[i + 1] = 0 + Ends(Lengths(v))[i]
      <4>1. \A i \in 0..n : b[i + 1] = E[i] /\ 0 + E[i] = E[i]
        BY <1>5, <1>13
      <4> QED
        BY <2>1, <4>1 DEF E
    <3> QED
      BY ZenonT(60), <1>12, <2>1, <2>2, <3>1, <3>2, CutReads
  <2> QED
    BY <1>3, <1>14, <1>15, <2>3, <2>4 DEF s
<1>19. Exact(t)
  <2> SUFFICES ASSUME NEW s \in t.accepted[FALSE]
               PROVE  Build(t, Read(t, s)) = s /\ IsValue(t, Read(t, s), FALSE)
    BY DEF Exact
  <2>1. s \in Slices /\ Len(s) = size
    BY <1>3 DEF Bytewise
  <2> DEFINE v == Cut(s, b)
  <2>2. \A i \in 1..n : b[i] <= b[i + 1] /\ b[i] = E[i - 1] /\ b[i + 1] = E[i]
                        /\ E[i - 1] \in Nat /\ E[i] \in Nat
    <3> TAKE i \in 1..n
    <3>1. i - 1 \in 0..n /\ i \in 0..n /\ i - 1 <= i /\ (i - 1) + 1 = i
      BY <1>4
    <3>2. E[i - 1] <= E[i] /\ b[i] = E[i - 1] /\ b[i + 1] = E[i]
      BY <1>6, <1>13, <3>1
    <3> QED
      BY <1>5, <3>1, <3>2
  <2>3. b[n + 1] <= Len(s) /\ b[1] = 0
    <3>1. n \in 0..n /\ 0 \in 0..n /\ 0 + 1 = 1
      BY <1>4
    <3>2. b[n + 1] = E[n] /\ b[1] = E[0]
      BY <1>13, <3>1
    <3> QED
      BY <1>5, <1>7, <2>1, <3>2
  <2>4. v \in Seq(Slices) /\ Len(v) = n /\ (\A i \in 1..n : Len(v[i]) = b[i + 1] - b[i])
        /\ Laid(s, 0, v)
    <3>1. n \in Nat /\ b \in Seq(Nat) /\ Len(b) = n + 1 /\ \A i \in 1..n : b[i] <= b[i + 1]
      BY <1>4, <1>12, <2>2
    <3>2. /\ Cut(s, b) \in Seq(Slices) /\ Len(Cut(s, b)) = n
          /\ \A i \in 1..n : Len(Cut(s, b)[i]) = b[i + 1] - b[i]
          /\ Laid(s, b[1], Cut(s, b))
      BY ZenonT(60), <2>1, <2>3, <3>1, CutLays
    <3> QED
      BY <2>3, <3>2
  <2> HIDE DEF v
  <2>5. \A i \in 1..n : Len(v[i]) = z[i] /\ v[i] \in Slices
    <3> TAKE i \in 1..n
    <3>1. Len(v[i]) = E[i] - E[i - 1] /\ E[i] = E[i - 1] + z[i] /\ z[i] \in Nat /\ E[i - 1] \in Nat
      BY <1>1, <1>5, <2>2, <2>4
    <3> QED
      BY <2>4, <3>1, ElementOfSeq
  <2>6. IsValue(t, v, FALSE)
    BY <1>16, <2>4, <2>5
  <2>7. Lengths(v) = z
    BY <1>17, <2>4, <2>5
  <2> DEFINE w == FlattenSeq(v)
  <2>8. w \in Slices /\ Len(w) = size /\ Laid(w, 0, v)
    BY <2>4, <2>7, FlattenLays DEF E
  <2> HIDE DEF w
  <2>9. \A j \in 1..size : s[0 + j] = w[0 + j]
    <3>1. 0 \in Nat /\ size = Ends(Lengths(v))[Len(v)]
      BY <2>4, <2>7 DEF E
    <3> QED
      BY <2>4, <2>8, <3>1, LaidIsUnique
  <2>10. \A j \in 1..size : s[j] = w[j]
    <3>1. \A j \in 1..size : 0 + j = j
      OBVIOUS
    <3> QED
      BY <2>9, <3>1
  <2>11. s = w
    BY <2>1, <2>8, <2>10, SameElements DEF Slices
  <2> QED
    BY <1>14, <1>15, <2>6, <2>11 DEF v, w
<1>20. Evolves(t)
  BY <1>3, <1>18, <1>19, OthersEvolve
<1> QED
  BY <1>8, <1>18, <1>19, <1>20 DEF Sound, t

\* Multiples, which are not linear.
LEMMA Multiples ==
    ASSUME NEW z \in Nat, z # 0, NEW m \in Nat
    PROVE  /\ z * m \in Nat /\ m <= z * m
           /\ (z * m) % z = 0 /\ (z * m) \div z = m
           /\ z * (m + 1) = z * m + z
<1>1. z * m \in Nat /\ z * (m + 1) = z * m + z
  OBVIOUS
<1>2. m <= z * m
  <2>1. z - 1 \in Nat /\ (z - 1) * m >= 0
    OBVIOUS
  <2>2. z * m = (z - 1) * m + m
    OBVIOUS
  <2> QED
    BY <2>1, <2>2
<1>3. (z * m) % z = 0 /\ (z * m) \div z = m
  OBVIOUS
<1> QED
  BY <1>1, <1>2, <1>3

\* The items of a fixed vector follow its item count.
LEMMA FixVecSound ==
    ASSUME NEW item, FixedSize(item)
    PROVE  Sound(FixVec(item))
<1> DEFINE t == FixVec(item)
           z == item.size
<1>1. /\ t.kind = "fixvec" /\ t.item = item
      /\ \A c \in BOOLEAN : t.accepted[c] = {s \in Slices : FixVecOK(s, z)}
  BY DEF FixVec
<1>2. z \in Nat /\ z # 0 /\ \A c \in BOOLEAN : item.accepted[c] = Bytewise(z)
  BY DEF FixedSize
<1>3. \A v : Build(t, v) = PackNumber(Len(v)) \o FlattenSeq(v)
  BY <1>1 DEF Build
<1>4. \A s : Read(t, s) = FixItems(item, s)
  BY <1>1 DEF Read, ItemSlices
<1>5. \A v : \A c \in BOOLEAN : IsValue(t, v, c) <=>
        v \in Seq(Slices) /\ \A i \in 1..Len(v) : v[i] \in Bytewise(z)
  BY <1>1, <1>2 DEF IsValue, PartType, Verify
<1> HIDE DEF t
<1> DEFINE bounds(m) == [i \in 1..(m + 1) |-> 4 + z * (i - 1)]
<1>6. ASSUME NEW m \in Nat
      PROVE  /\ bounds(m) \in Seq(Nat) /\ Len(bounds(m)) = m + 1
             /\ \A i \in 1..m : bounds(m)[i] = 4 + z * (i - 1) /\ bounds(m)[i + 1] = 4 + z * i
             /\ \A i \in 0..m : bounds(m)[i + 1] = 4 + z * i
  <2> DEFINE b == bounds(m)
  <2>1. \A i \in 1..(m + 1) : b[i] = 4 + z * (i - 1)
    OBVIOUS
  <2>2. \A i \in 1..(m + 1) : b[i] \in Nat
    <3> TAKE i \in 1..(m + 1)
    <3>1. i - 1 \in Nat
      OBVIOUS
    <3>2. z * (i - 1) \in Nat
      BY <1>2, <3>1
    <3> HIDE DEF z, b
    <3> QED
      BY <2>1, <3>2
  <2>3. b \in [1..(m + 1) -> Nat]
    <3>1. b = [i \in 1..(m + 1) |-> b[i]]
      OBVIOUS
    <3> HIDE DEF b
    <3> QED
      BY <2>2, <3>1
  <2> HIDE DEF b
  <2>4. b \in Seq(Nat) /\ Len(b) = m + 1
    <3>1. m + 1 \in Nat
      OBVIOUS
    <3> QED
      BY <2>3, <3>1, AsSeqIs
  <2>5. \A i \in 0..m : b[i + 1] = 4 + z * i
    <3> TAKE i \in 0..m
    <3>1. i + 1 \in 1..(m + 1) /\ (i + 1) - 1 = i
      OBVIOUS
    <3> QED
      BY <2>1, <3>1
  <2>6. \A i \in 1..m : i \in 0..m /\ i \in 1..(m + 1)
    OBVIOUS
  <2>7. \A i \in 1..m : b[i] = 4 + z * (i - 1) /\ b[i + 1] = 4 + z * i
    BY <2>1, <2>5, <2>6
  <2> QED
    BY <2>4, <2>5, <2>7 DEF b
<1>7. ASSUME NEW s \in Slices, NumberAt(s, 0) \in Nat
      PROVE  FixItems(item, s) = Cut(s, bounds(NumberAt(s, 0)))
  <2> DEFINE m == NumberAt(s, 0)
             b == bounds(m)
  <2>1. Len(b) - 1 = m /\ \A i \in 1..m : b[i] = 4 + z * (i - 1) /\ b[i + 1] = 4 + z * i
    <3> HIDE DEF bounds, z
    <3>0. m \in Nat
      BY <1>7
    <3> HIDE DEF m
    <3>1. /\ m \in Nat /\ Len(b) = m + 1
          /\ \A i \in 1..m : b[i] = 4 + z * (i - 1) /\ b[i + 1] = 4 + z * i
      BY <1>6, <3>0
    <3> QED
      BY <3>1
  <2> HIDE DEF b
  <2>2. [i \in 1..m |-> Range0(s, 4 + z * (i - 1), 4 + z * i)]
          = [i \in 1..(Len(b) - 1) |-> Range0(s, b[i], b[i + 1])]
    BY <2>1
  <2>3. FixItems(item, s) = AsSeq([i \in 1..m |-> Range0(s, 4 + z * (i - 1), 4 + z * i)])
    BY DEF FixItems, NumberSize
  <2>4. FixItems(item, s) = Cut(s, b)
    BY <2>2, <2>3 DEF Cut
  <2> QED
    BY <2>4 DEF b
<1> HIDE DEF z, bounds
\* The items stand one after another, all of one size.
<1>8. ASSUME NEW v \in Seq(Slices), \A i \in 1..Len(v) : v[i] \in Bytewise(z)
      PROVE  /\ Len(v) \in Nat /\ \A i \in 0..Len(v) : Ends(Lengths(v))[i] = z * i
             /\ FlattenSeq(v) \in Slices /\ Len(FlattenSeq(v)) = z * Len(v)
             /\ Laid(FlattenSeq(v), 0, v)
  <2>1. Lengths(v) \in Seq(Nat) /\ Len(Lengths(v)) = Len(v)
        /\ \A i \in 1..Len(Lengths(v)) : Lengths(v)[i] = z
    BY <1>8, LengthsAre DEF Bytewise
  <2>2. \A i \in 0..Len(v) : Ends(Lengths(v))[i] = z * i
    BY <1>2, <2>1, EndsOfEqual
  <2>3. Len(v) \in Nat /\ Len(v) \in 0..Len(v)
    BY LenProperties
  <2>4. /\ FlattenSeq(v) \in Slices /\ Len(FlattenSeq(v)) = Ends(Lengths(v))[Len(v)]
        /\ Laid(FlattenSeq(v), 0, v)
    BY FlattenLays
  <2> QED
    BY <2>2, <2>3, <2>4
\* Build is the count and the items.
<1>9. ASSUME NEW v \in Seq(Slices), \A i \in 1..Len(v) : v[i] \in Bytewise(z)
      PROVE  /\ Build(t, v) \in Slices /\ Len(Build(t, v)) = 4 + z * Len(v)
             /\ \A k \in 1..4 : Build(t, v)[k] = PackNumber(Len(v))[k]
             /\ Laid(Build(t, v), 4, v)
  <2> DEFINE a == PackNumber(Len(v))
             f == FlattenSeq(v)
             n == Len(v)
  <2>1. n \in Nat /\ f \in Slices /\ Len(f) = z * n /\ Laid(f, 0, v)
        /\ \A i \in 0..n : Ends(Lengths(v))[i] = z * i
    BY <1>8, <1>9
  <2>2. a \in Slices /\ Len(a) = 4
    BY <2>1, PackIs
  <2>3. Build(t, v) = a \o f /\ a = PackNumber(n)
    BY <1>3
  <2> HIDE DEF a, f
  <2>4. /\ a \o f \in Slices /\ Len(a \o f) = Len(a) + Len(f)
        /\ \A k \in 1..Len(a) : (a \o f)[k] = a[k]
        /\ \A k \in 1..Len(f) : (a \o f)[Len(a) + k] = f[k]
    BY <2>1, <2>2, ConcatSlices
  <2>5. /\ a \o f \in Slices /\ Len(a \o f) = 4 + z * n
        /\ \A k \in 1..4 : (a \o f)[k] = a[k]
        /\ \A k \in 1..(z * n) : (a \o f)[4 + k] = f[k]
    BY <2>1, <2>2, <2>4
  <2>6. ASSUME NEW i \in 1..n, NEW k \in 1..Len(v[i])
        PROVE  (a \o f)[4 + Ends(Lengths(v))[i - 1] + k] = v[i][k]
    <3> DEFINE E == Ends(Lengths(v))
    <3>1. f[0 + E[i - 1] + k] = v[i][k]
      BY <2>1 DEF Laid
    <3>2. /\ E[i - 1] \in Nat /\ E[i] \in Nat /\ Len(v[i]) \in Nat
          /\ E[i] = E[i - 1] + Len(v[i]) /\ E[i] <= E[n] /\ E[n] \in Nat
      BY PartEnds
    <3>3. E[n] = z * n
      BY <2>1
    <3> HIDE DEF E
    <3>4. E[i - 1] + k \in 1..(z * n) /\ 0 + E[i - 1] + k = E[i - 1] + k
          /\ 4 + (E[i - 1] + k) = 4 + E[i - 1] + k
      BY SMTT(60), <3>2, <3>3
    <3>5. (a \o f)[4 + (E[i - 1] + k)] = f[E[i - 1] + k]
      BY <2>5, <3>4
    <3> QED
      BY <3>1, <3>4, <3>5 DEF E
  <2>7. Laid(a \o f, 4, v)
    BY <2>6 DEF Laid
  <2> QED
    BY <2>3, <2>5, <2>7
<1>10. Grows(t)
  BY <1>1 DEF Grows
<1>11. ReadsBack(t)
  <2> SUFFICES ASSUME NEW c \in BOOLEAN, NEW v, IsValue(t, v, c), Fits(Build(t, v))
               PROVE  Build(t, v) \in t.accepted[c] /\ Read(t, Build(t, v)) = v
    BY DEF ReadsBack
  <2> DEFINE s == Build(t, v)
             n == Len(v)
  <2>1. v \in Seq(Slices) /\ \A i \in 1..Len(v) : v[i] \in Bytewise(z)
    BY <1>5
  <2>2. /\ s \in Slices /\ Len(s) = 4 + z * n /\ n \in Nat
        /\ \A k \in 1..4 : s[k] = PackNumber(n)[k]
        /\ Laid(s, 4, v)
        /\ \A i \in 0..n : Ends(Lengths(v))[i] = z * i
    BY <1>8, <1>9, <2>1
  <2>3. Fits(s) /\ n = Len(v)
    OBVIOUS
  <2> HIDE DEF s, n
  <2>4. z * n \in Nat /\ n <= z * n /\ (z * n) % z = 0 /\ (z * n) \div z = n
    BY <1>2, <2>2, Multiples
  <2>5. n < Unreachable
    BY <2>2, <2>3, <2>4, SMT DEF Fits, Unreachable
  <2>6. NumberAt(s, 0) = n
    <3>1. \A k \in 1..4 : s[0 + k] = PackNumber(n)[k]
      BY <2>2
    <3>2. 0 \in Nat
      OBVIOUS
    <3> QED
      BY <2>2, <2>5, <3>1, <3>2, UnpackPacked
  <2>7. FixVecOK(s, z)
    <3>1. Len(s) - 4 = z * n /\ Len(s) >= 4
      BY <2>2, <2>4
    <3> QED
      BY <2>4, <2>6, <3>1 DEF FixVecOK, NumberSize
  <2>8. Read(t, s) = Cut(s, bounds(n))
    BY <1>4, <1>7, <2>2, <2>6
  <2>9. Cut(s, bounds(n)) = v
    <3>1. 4 + Ends(Lengths(v))[Len(v)] <= Len(s)
      BY <2>2, <2>3, <2>4
    <3>2. \A i \in 0..Len(v) : bounds(n)[i + 1] = 4 + Ends(Lengths(v))[i]
      BY <1>6, <2>2, <2>3
    <3>3. bounds(n) \in Seq(Nat) /\ Len(bounds(n)) = Len(v) + 1 /\ 4 \in Nat
      BY <1>6, <2>2, <2>3
    <3> QED
      BY <2>1, <2>2, <3>1, <3>2, <3>3, CutReads
  <2> QED
    BY <1>1, <2>2, <2>7, <2>8, <2>9 DEF s
<1>12. Exact(t)
  <2> SUFFICES ASSUME NEW s \in t.accepted[FALSE], Fits(s)
               PROVE  Build(t, Read(t, s)) = s /\ IsValue(t, Read(t, s), FALSE)
    BY DEF Exact
  <2> DEFINE n == NumberAt(s, 0)
             b == bounds(n)
             v == Cut(s, b)
  <2>1. s \in Slices /\ FixVecOK(s, z) /\ Len(s) \in Nat
    BY <1>1, LenProperties DEF Slices
  <2>2. Len(s) >= 4 /\ (Len(s) - 4) % z = 0 /\ n = (Len(s) - 4) \div z
    BY <2>1 DEF FixVecOK, NumberSize
  <2>3. /\ n \in Nat /\ Len(s) = 4 + z * n
    <3>1. Len(s) - 4 \in Nat
      BY <2>1, <2>2
    <3> HIDE DEF n
    <3> QED
      BY <1>2, <2>1, <2>2, <3>1
  <2>4. Read(t, s) = v
    BY <1>4, <1>7, <2>1, <2>3
  <2>5. n < Unreachable
    <3>1. z * n \in Nat /\ n <= z * n
      BY <1>2, <2>3, Multiples
    <3> HIDE DEF n
    <3> QED
      BY <2>1, <2>3, <3>1, SMT DEF Fits, Unreachable
  <2> HIDE DEF n
  <2>6. /\ b \in Seq(Nat) /\ Len(b) = n + 1
        /\ \A i \in 1..n : b[i] = 4 + z * (i - 1) /\ b[i + 1] = 4 + z * i
        /\ \A i \in 0..n : b[i + 1] = 4 + z * i
    BY <1>6, <2>3
  <2>7. \A i \in 1..n : b[i + 1] = b[i] + z /\ b[i] \in Nat /\ b[i + 1] \in Nat /\ b[i] <= b[i + 1]
    <3> TAKE i \in 1..n
    <3>1. i - 1 \in Nat /\ (i - 1) + 1 = i
      BY <2>3
    <3>2. z * (i - 1) \in Nat /\ z * i = z * (i - 1) + z
      BY <1>2, <3>1, Multiples
    <3> QED
      BY SMTT(60), <1>2, <2>6, <3>2
  <2>8. b[n + 1] = Len(s) /\ b[1] = 4
    <3>1. n \in 0..n /\ 0 \in 0..n /\ 0 + 1 = 1 /\ z * 0 = 0
      BY <1>2, <2>3
    <3>2. b[n + 1] = 4 + z * n /\ b[0 + 1] = 4 + z * 0
      BY <2>6, <3>1
    <3> QED
      BY <2>3, <3>1, <3>2
  <2> HIDE DEF b
  <2>9. /\ v \in Seq(Slices) /\ Len(v) = n
        /\ \A i \in 1..n : Len(v[i]) = b[i + 1] - b[i]
        /\ Laid(s, 4, v)
    <3>1. b[n + 1] <= Len(s) /\ \A i \in 1..n : b[i] <= b[i + 1]
      BY <2>1, <2>7, <2>8
    <3>2. /\ Cut(s, b) \in Seq(Slices) /\ Len(Cut(s, b)) = n
          /\ \A i \in 1..n : Len(Cut(s, b)[i]) = b[i + 1] - b[i]
          /\ Laid(s, b[1], Cut(s, b))
      BY <2>1, <2>3, <2>6, <3>1, CutLays
    <3> QED
      BY <2>8, <3>2
  <2> HIDE DEF v
  <2>10. \A i \in 1..Len(v) : v[i] \in Bytewise(z)
    <3> TAKE i \in 1..Len(v)
    <3>1. Len(v[i]) = z
      <4>1. i \in 1..n
        BY <2>9
      <4>2. Len(v[i]) = b[i + 1] - b[i] /\ b[i + 1] = b[i] + z /\ b[i] \in Nat
        BY <2>7, <2>9, <4>1
      <4> QED
        BY <1>2, <4>2
    <3>2. v[i] \in Slices
      BY <2>9, ElementOfSeq
    <3> QED
      BY <3>1, <3>2 DEF Bytewise
  <2>11. IsValue(t, v, FALSE)
    BY <1>5, <2>9, <2>10
  <2> DEFINE w == Build(t, v)
  <2>12. /\ w \in Slices /\ Len(w) = 4 + z * n
         /\ \A k \in 1..4 : w[k] = PackNumber(n)[k]
         /\ Laid(w, 4, v) /\ Ends(Lengths(v))[Len(v)] = z * n
    <3>1. n \in 0..Len(v)
      BY <2>3, <2>9
    <3> QED
      BY <1>8, <1>9, <2>9, <2>10, <3>1
  <2> HIDE DEF w
  <2>13. \A k \in 1..4 : s[k] = w[k]
    <3>1. 0 \in Nat /\ 0 + 4 <= Len(s) /\ \A k \in 1..4 : 0 + k = k
      BY <2>1, <2>2
    <3>2. \A k \in 1..4 : PackNumber(n)[k] = s[0 + k]
      BY <2>1, <2>5, <3>1, PackUnpacked DEF n
    <3> QED
      BY <2>12, <3>1, <3>2
  <2>14. \A j \in 1..(z * n) : s[4 + j] = w[4 + j]
    <3>1. 4 \in Nat
      OBVIOUS
    <3>2. \A j \in 1..Ends(Lengths(v))[Len(v)] : s[4 + j] = w[4 + j]
      BY <2>9, <2>12, <3>1, LaidIsUnique
    <3> QED
      BY <2>12, <3>2
  <2>15. ASSUME NEW j \in 1..Len(s) PROVE s[j] = w[j]
    <3>1. z * n \in Nat
      BY <1>2, <2>3
    <3>2. CASE j <= 4
      BY <2>13, <3>2
    <3>3. CASE ~(j <= 4)
      <4>1. j - 4 \in 1..(z * n) /\ 4 + (j - 4) = j
        BY <2>3, <3>1, <3>3
      <4> QED
        BY <2>14, <4>1
    <3> QED
      BY <3>2, <3>3
  <2>16. s = w
    BY <2>1, <2>3, <2>12, <2>15, SameElements DEF Slices
  <2> QED
    BY <2>4, <2>11, <2>16 DEF w
<1>13. Evolves(t)
  BY <1>1, <1>11, <1>12, OthersEvolve
<1> QED
  BY <1>10, <1>11, <1>12, <1>13 DEF Sound, t

\* An option is nothing or an item, and no item is nothing.
LEMMA OptSound ==
    ASSUME NEW item, Grows(item), <<>> \notin item.accepted[TRUE]
    PROVE  Sound(Opt(item))
<1> DEFINE t == Opt(item)
<1>1. /\ t.kind = "opt" /\ t.item = item
      /\ \A c \in BOOLEAN : t.accepted[c] = {s \in Slices : s = <<>> \/ s \in item.accepted[c]}
  BY DEF Opt, Verify
<1>2. /\ \A c \in BOOLEAN : item.accepted[c] \subseteq Slices
      /\ item.accepted[FALSE] \subseteq item.accepted[TRUE]
      /\ \A c \in BOOLEAN : <<>> \notin item.accepted[c]
  BY DEF Grows
<1>3. <<>> \in Slices /\ <<>> \in Seq(Slices) /\ Len(<<>>) = 0 /\ FlattenSeq(<<>>) = <<>>
  BY EmptySeq DEF Slices, FlattenSeq
<1>4. ASSUME NEW s \in Slices
      PROVE  <<s>> \in Seq(Slices) /\ Len(<<s>>) = 1 /\ <<s>>[1] = s /\ FlattenSeq(<<s>>) = s
  <2>1. <<s>> \in Seq(Slices) /\ Len(<<s>>) = 1 /\ <<s>>[1] = s
    OBVIOUS
  <2> DEFINE p == <<s>>
  <2> HIDE DEF p
  <2>2. p \in Seq(Slices) /\ Len(p) = 1 /\ p[1] = s
    BY <2>1 DEF p
  <2>3. Len(p) # 0
    BY <2>2
  <2>4. \E F : FlattenSeq(p) = F[Len(p)] /\ F[1] = p[1]
    BY <2>2, <2>3, FlattenSteps
  <2>5. FlattenSeq(p) = s
    BY <2>2, <2>4
  <2> QED
    BY <2>1, <2>5 DEF p
<1>5. \A v : Build(t, v) = FlattenSeq(v)
  BY <1>1 DEF Build
<1>6. \A s : Read(t, s) = IF s = <<>> THEN <<>> ELSE <<s>>
  BY <1>1 DEF Read
<1>7. \A v : \A c \in BOOLEAN : IsValue(t, v, c) <=>
        v \in Seq(Slices) /\ Len(v) <= 1 /\ \A i \in 1..Len(v) : v[i] \in item.accepted[c]
  BY <1>1 DEF IsValue, PartType, Verify
<1> HIDE DEF t
<1>8. Grows(t)
  BY <1>1, <1>2 DEF Grows
<1>9. ReadsBack(t)
  <2> SUFFICES ASSUME NEW c \in BOOLEAN, NEW v, IsValue(t, v, c)
               PROVE  Build(t, v) \in t.accepted[c] /\ Read(t, Build(t, v)) = v
    BY DEF ReadsBack
  <2>1. /\ v \in Seq(Slices) /\ Len(v) \in Nat /\ Len(v) <= 1
        /\ \A i \in 1..Len(v) : v[i] \in item.accepted[c]
    BY <1>7, LenProperties
  <2>2. CASE Len(v) = 0
    <3>1. v = <<>>
      BY <2>1, <2>2, EmptySeq
    <3> QED
      BY <1>1, <1>3, <1>5, <1>6, <3>1
  <2>3. CASE Len(v) # 0
    <3>0. \A m \in Nat : m <= 1 /\ m # 0 => m = 1
      OBVIOUS
    <3>1. Len(v) = 1 /\ 1 \in 1..Len(v)
      <4>1. Len(v) = 1
        BY <2>1, <2>3, <3>0
      <4> QED
        BY <4>1
    <3> DEFINE s == v[1]
    <3>2. s \in item.accepted[c] /\ s \in Slices
      BY <1>2, <2>1, <3>1
    <3>3. <<s>> \in Seq(Slices) /\ Len(<<s>>) = 1 /\ <<s>>[1] = s /\ FlattenSeq(<<s>>) = s
      BY <1>4, <3>2
    <3> HIDE DEF s
    <3>4. v = <<s>>
      <4>1. \A i \in 1..Len(v) : v[i] = <<s>>[i]
        BY <3>1, <3>3 DEF s
      <4> QED
        BY <2>1, <3>1, <3>3, <4>1, SameElements
    <3>5. s # <<>>
      BY <1>2, <3>2
    <3> QED
      BY <1>1, <1>5, <1>6, <3>2, <3>3, <3>4, <3>5
  <2> QED
    BY <2>2, <2>3
<1>10. Exact(t)
  <2> SUFFICES ASSUME NEW s \in t.accepted[FALSE]
               PROVE  Build(t, Read(t, s)) = s /\ IsValue(t, Read(t, s), FALSE)
    BY DEF Exact
  <2>1. s \in Slices /\ (s = <<>> \/ s \in item.accepted[FALSE])
    BY <1>1
  <2>2. CASE s = <<>>
    <3>1. \A i \in 1..Len(<<>>) : <<>>[i] \in item.accepted[FALSE]
      BY <1>3
    <3>2. Len(<<>>) <= 1
      BY <1>3
    <3>3. IsValue(t, <<>>, FALSE)
      BY <1>3, <1>7, <3>1, <3>2
    <3>4. Read(t, s) = <<>> /\ Build(t, <<>>) = <<>>
      BY <1>3, <1>5, <1>6, <2>2
    <3> QED
      BY <2>2, <3>3, <3>4
  <2>3. CASE s # <<>>
    <3>1. <<s>> \in Seq(Slices) /\ Len(<<s>>) = 1 /\ <<s>>[1] = s /\ FlattenSeq(<<s>>) = s
      BY <1>4, <2>1
    <3> DEFINE p == <<s>>
    <3>2. Read(t, s) = p
      BY <1>6, <2>3
    <3> HIDE DEF p
    <3>3. p \in Seq(Slices) /\ Len(p) = 1 /\ p[1] = s /\ Build(t, p) = s
      BY <1>5, <3>1 DEF p
    <3>4. \A i \in 1..Len(p) : p[i] \in item.accepted[FALSE]
      <4>1. \A i \in 1..Len(p) : i = 1
        BY <3>3
      <4>2. p[1] \in item.accepted[FALSE]
        BY <2>1, <2>3, <3>3
      <4> QED
        BY <4>1, <4>2
    <3>5. Len(p) <= 1
      BY <3>3
    <3>6. IsValue(t, p, FALSE)
      BY <1>7, <3>3, <3>4, <3>5
    <3> QED
      BY <3>2, <3>3, <3>6
  <2> QED
    BY <2>2, <2>3
<1>11. Evolves(t)
  BY <1>1, <1>9, <1>10, OthersEvolve
<1> QED
  BY <1>8, <1>9, <1>10, <1>11 DEF Sound, t

\* A union is the number of the item and the item.
LEMMA UnionSound ==
    ASSUME NEW items, Len(items) \in Nat, Len(items) < Unreachable,
           \A i \in 1..Len(items) : Grows(items[i])
    PROVE  Sound(Union(items))
<1> DEFINE t == Union(items)
           n == Len(items)
           rest(s) == Range0(s, 4, Len(s))
<1>1. /\ t.kind = "union" /\ t.items = items
      /\ \A c \in BOOLEAN : t.accepted[c] = {s \in Slices : UnionOK(s, items, c)}
  BY DEF Union
<1>2. \A s : \A c \in BOOLEAN : UnionOK(s, items, c) <=>
        Len(s) >= 4 /\ NumberAt(s, 0) < n /\ rest(s) \in items[NumberAt(s, 0) + 1].accepted[c]
  BY DEF UnionOK, NumberSize, Verify
<1>3. \A v : Build(t, v) = PackNumber(v[1]) \o v[2]
  BY <1>1 DEF Build
<1>4. \A s : Read(t, s) = <<NumberAt(s, 0), rest(s)>>
  BY <1>1 DEF Read, NumberSize
<1>5. \A v : \A c \in BOOLEAN : IsValue(t, v, c) <=>
        v \in (0..(n - 1)) \X Slices /\ v[2] \in items[v[1] + 1].accepted[c]
  BY <1>1 DEF IsValue, Verify
<1>6. n \in Nat /\ n < Unreachable /\ Unreachable \in Nat
      /\ \A i \in 1..n : Grows(items[i])
  BY SMT DEF Unreachable
<1>7. ASSUME NEW s \in Slices, Len(s) >= 4
      PROVE  /\ rest(s) \in Slices /\ Len(rest(s)) = Len(s) - 4 /\ Len(s) \in Nat
             /\ \A k \in 1..(Len(s) - 4) : rest(s)[k] = s[4 + k]
             /\ NumberAt(s, 0) \in Nat
             /\ NumberAt(s, 0) < Unreachable =>
                  \A k \in 1..4 : PackNumber(NumberAt(s, 0))[k] = s[k]
  <2>1. Len(s) \in Nat /\ 4 \in Nat /\ 4 <= Len(s) /\ Len(s) <= Len(s)
        /\ 0 \in Nat /\ 0 + 4 <= Len(s) /\ \A k \in 1..4 : 0 + k = k
    BY <1>7, LenProperties DEF Slices
  <2>2. /\ NumberAt(s, 0) \in Nat
        /\ NumberAt(s, 0) < Unreachable =>
             \A k \in 1..4 : PackNumber(NumberAt(s, 0))[k] = s[0 + k]
    BY <2>1, PackUnpacked
  <2>3. /\ rest(s) \in Slices /\ Len(rest(s)) = Len(s) - 4
        /\ \A k \in 1..(Len(s) - 4) : rest(s)[k] = s[4 + k]
    BY ZenonT(60), <2>1, RangeElements
  <2> QED
    BY <2>1, <2>2, <2>3
<1> HIDE DEF t, n, rest
<1>8. Grows(t)
  <2> SUFFICES ASSUME NEW s \in t.accepted[FALSE] PROVE s \in t.accepted[TRUE]
    BY <1>1 DEF Grows
  <2>1. s \in Slices /\ Len(s) >= 4 /\ NumberAt(s, 0) < n
        /\ rest(s) \in items[NumberAt(s, 0) + 1].accepted[FALSE]
    BY <1>1, <1>2
  <2>2. NumberAt(s, 0) + 1 \in 1..n
    BY <1>6, <1>7, <2>1
  <2>3. rest(s) \in items[NumberAt(s, 0) + 1].accepted[TRUE]
    BY <1>6, <2>1, <2>2 DEF Grows
  <2> QED
    BY <1>1, <1>2, <2>1, <2>3
<1>9. ReadsBack(t)
  <2> SUFFICES ASSUME NEW c \in BOOLEAN, NEW v, IsValue(t, v, c)
               PROVE  Build(t, v) \in t.accepted[c] /\ Read(t, Build(t, v)) = v
    BY DEF ReadsBack
  <2> DEFINE m == v[1]
             x == v[2]
             a == PackNumber(m)
             s == a \o x
  <2>1. m \in 0..(n - 1) /\ x \in Slices /\ v = <<m, x>> /\ x \in items[m + 1].accepted[c]
    BY <1>5
  <2>2. Build(t, v) = s
    BY <1>3
  <2> HIDE DEF m, x
  <2>3. m \in Nat /\ m < n /\ m < Unreachable
    BY <1>6, <2>1
  <2>4. a \in Slices /\ Len(a) = 4
    BY <2>3, PackIs
  <2>5. a = PackNumber(m)
    OBVIOUS
  <2> HIDE DEF a
  <2>6. /\ s \in Slices /\ Len(s) = Len(a) + Len(x) /\ Len(x) \in Nat
        /\ \A k \in 1..Len(a) : s[k] = a[k]
        /\ \A k \in 1..Len(x) : s[Len(a) + k] = x[k]
    BY <2>1, <2>4, ConcatSlices
  <2> HIDE DEF s
  <2>7. /\ Len(s) = 4 + Len(x) /\ Len(s) >= 4
        /\ \A k \in 1..4 : s[k] = a[k]
        /\ \A k \in 1..Len(x) : s[4 + k] = x[k]
    BY <2>4, <2>6
  <2>8. NumberAt(s, 0) = m
    <3>1. \A k \in 1..4 : s[0 + k] = PackNumber(m)[k]
      BY <2>5, <2>7
    <3>2. 0 \in Nat
      OBVIOUS
    <3> QED
      BY <2>3, <3>1, <3>2, UnpackPacked
  <2>9. rest(s) = x
    <3>1. /\ rest(s) \in Slices /\ Len(rest(s)) = Len(s) - 4
          /\ \A k \in 1..(Len(s) - 4) : rest(s)[k] = s[4 + k]
      BY <1>7, <2>6, <2>7
    <3>2. Len(s) - 4 = Len(x)
      BY <2>6, <2>7
    <3>3. Len(rest(s)) = Len(x) /\ \A k \in 1..Len(rest(s)) : rest(s)[k] = x[k]
      BY <2>7, <3>1, <3>2
    <3> QED
      BY <2>1, <3>1, <3>3, SameElements DEF Slices
  <2>10. UnionOK(s, items, c)
    BY <1>2, <2>1, <2>3, <2>7, <2>8, <2>9
  <2> QED
    BY <1>1, <1>4, <2>1, <2>2, <2>6, <2>8, <2>9, <2>10
<1>10. Exact(t)
  <2> SUFFICES ASSUME NEW s \in t.accepted[FALSE]
               PROVE  Build(t, Read(t, s)) = s /\ IsValue(t, Read(t, s), FALSE)
    BY DEF Exact
  <2> DEFINE m == NumberAt(s, 0)
             x == rest(s)
             v == <<m, x>>
             a == PackNumber(m)
             w == a \o x
  <2>1. s \in Slices /\ Len(s) >= 4 /\ m < n /\ x \in items[m + 1].accepted[FALSE]
    BY <1>1, <1>2
  <2>2. /\ x \in Slices /\ Len(x) = Len(s) - 4 /\ Len(s) \in Nat
        /\ \A k \in 1..(Len(s) - 4) : x[k] = s[4 + k]
        /\ m \in Nat
        /\ m < Unreachable => \A k \in 1..4 : PackNumber(m)[k] = s[k]
    BY <1>7, <2>1
  <2> HIDE DEF m, x
  <2>3. m < Unreachable /\ m \in 0..(n - 1)
    BY <1>6, <2>1, <2>2
  <2>4. a \in Slices /\ Len(a) = 4 /\ \A k \in 1..4 : a[k] = s[k]
    BY <2>2, <2>3, PackIs
  <2>5. Build(t, v) = w /\ Read(t, s) = v /\ IsValue(t, v, FALSE)
    <3>1. Read(t, s) = v
      BY <1>4 DEF m, x
    <3>2. v[1] = m /\ v[2] = x /\ v \in (0..(n - 1)) \X Slices
      BY <2>2, <2>3
    <3> HIDE DEF v
    <3>3. Build(t, v) = w
      BY <1>3, <3>2
    <3>4. v[2] \in items[v[1] + 1].accepted[FALSE]
      BY <2>1, <3>2
    <3>5. IsValue(t, v, FALSE)
      BY <1>5, <3>2, <3>4
    <3> QED
      BY <3>1, <3>3, <3>5
  <2> HIDE DEF a
  <2>6. /\ w \in Slices /\ Len(w) = Len(a) + Len(x)
        /\ \A k \in 1..Len(a) : w[k] = a[k]
        /\ \A k \in 1..Len(x) : w[Len(a) + k] = x[k]
    BY <2>2, <2>4, ConcatSlices
  <2> HIDE DEF w
  <2>10. \A k \in 1..(Len(s) - 4) : w[4 + k] = s[4 + k]
    BY <2>2, <2>4, <2>6
  <2>7. ASSUME NEW j \in 1..Len(s) PROVE w[j] = s[j]
    <3>1. CASE j <= 4
      BY <2>4, <2>6, <3>1
    <3>2. CASE ~(j <= 4)
      <4>1. j - 4 \in 1..(Len(s) - 4) /\ 4 + (j - 4) = j
        BY <2>2, <3>2
      <4> QED
        BY <2>10, <4>1
    <3> QED
      BY <3>1, <3>2
  <2>8. Len(w) = Len(s)
    BY <2>1, <2>2, <2>4, <2>6
  <2>9. w = s
    BY <2>1, <2>6, <2>7, <2>8, SameElements DEF Slices
  <2> QED
    BY <2>5, <2>9
<1>11. Evolves(t)
  BY <1>1, <1>9, <1>10, OthersEvolve
<1> QED
  BY <1>8, <1>9, <1>10, <1>11 DEF Sound, t

\* A dynamic vector is laid out by its offsets.
LEMMA DynVecSound ==
    ASSUME NEW item, Grows(item)
    PROVE  Sound(DynVec(item))
<1> DEFINE t == DynVec(item)
<1>1. /\ t.kind = "dynvec" /\ t.item = item
      /\ \A c \in BOOLEAN : t.accepted[c] = {s \in Slices : DynVecOK(s, item, c)}
  BY DEF DynVec
<1>2. \A v : Build(t, v) = WriteParts(v)
  BY <1>1 DEF Build
<1>3. \A s : Read(t, s) = Parts(s)
  BY <1>1 DEF Read, ItemSlices
<1>4. \A v : \A c \in BOOLEAN : IsValue(t, v, c) <=>
        v \in Seq(Slices) /\ \A i \in 1..Len(v) : v[i] \in item.accepted[c]
  BY <1>1 DEF IsValue, PartType, Verify
<1>5. \A s : \A c \in BOOLEAN : DynVecOK(s, item, c) <=>
        /\ TotalSizeOK(s) /\ (Len(s) = 4 \/ OffsetsOK(s))
        /\ \A i \in 1..Len(Parts(s)) : Parts(s)[i] \in item.accepted[c]
  BY DEF DynVecOK, NumberSize, Verify
<1> HIDE DEF t
<1>6. Grows(t)
  BY <1>1, <1>5 DEF Grows
<1>7. ReadsBack(t)
  <2> SUFFICES ASSUME NEW c \in BOOLEAN, NEW v, IsValue(t, v, c), Fits(Build(t, v))
               PROVE  Build(t, v) \in t.accepted[c] /\ Read(t, Build(t, v)) = v
    BY DEF ReadsBack
  <2> DEFINE s == WriteParts(v)
  <2>1. v \in Seq(Slices) /\ \A i \in 1..Len(v) : v[i] \in item.accepted[c]
    BY <1>4
  <2>2. IsLayout(s, v)
    BY <1>2, <2>1, WriteIsLayout
  <2> HIDE DEF s
  <2>3. /\ s \in Slices /\ TotalSizeOK(s) /\ Parts(s) = v
        /\ (Len(s) = 4 <=> Len(v) = 0) /\ (Len(v) # 0 => OffsetsOK(s))
    BY <2>1, <2>2, LayoutReads DEF IsLayout
  <2>4. DynVecOK(s, item, c)
    BY <1>5, <2>1, <2>3
  <2> QED
    BY <1>1, <1>2, <1>3, <2>3, <2>4 DEF s
<1>8. Exact(t)
  <2> SUFFICES ASSUME NEW s \in t.accepted[FALSE], Fits(s)
               PROVE  Build(t, Read(t, s)) = s /\ IsValue(t, Read(t, s), FALSE)
    BY DEF Exact
  <2> DEFINE v == Parts(s)
  <2>1. /\ s \in Slices /\ TotalSizeOK(s) /\ (Len(s) = 4 \/ OffsetsOK(s))
        /\ \A i \in 1..Len(v) : v[i] \in item.accepted[FALSE]
    BY <1>1, <1>5
  <2>2. v \in Seq(Slices) /\ IsLayout(s, v)
    <3>1. CASE Len(s) = 4
      <4>1. Parts(s) = <<>> /\ IsLayout(s, <<>>) /\ <<>> \in Seq(Slices)
        BY <2>1, <3>1, EmptyLays
      <4> QED
        BY <4>1
    <3>2. CASE OffsetsOK(s)
      BY <2>1, <3>2, ReaderLays
    <3> QED
      BY <2>1, <3>1, <3>2
  <2> HIDE DEF v
  <2>3. WriteParts(v) = s
    BY <2>2, LayoutIsWritten
  <2> QED
    BY <1>2, <1>3, <1>4, <2>1, <2>2, <2>3 DEF v
<1>9. Evolves(t)
  BY <1>1, <1>7, <1>8, OthersEvolve
<1> QED
  BY <1>6, <1>7, <1>8, <1>9 DEF Sound, t

\* A table is laid out by its offsets, and may have more fields.
LEMMA TableSound ==
    ASSUME NEW fields, Len(fields) \in Nat,
           \A i \in 1..Len(fields) : Grows(FieldType(fields[i]))
    PROVE  Sound(Table(fields))
<1> DEFINE t == Table(fields)
           n == Len(fields)
           accepts(i, c) == FieldType(fields[i]).accepted[c]
           read(s) == IF n = 0 THEN <<>> ELSE SubSeq(Parts(s), 1, n)
<1>1. /\ t.kind = "table" /\ t.fields = fields
      /\ \A c \in BOOLEAN : t.accepted[c] = {s \in Slices : TableOK(s, fields, c)}
  BY DEF Table
<1>2. \A v : Build(t, v) = WriteParts(v)
  BY <1>1 DEF Build
<1>3. \A s : Read(t, s) = read(s)
  BY <1>1 DEF Read, ItemSlices
<1>4. \A v : \A c \in BOOLEAN : IsValue(t, v, c) <=>
        v \in Seq(Slices) /\ Len(v) = n /\ \A i \in 1..n : v[i] \in accepts(i, c)
  BY <1>1 DEF IsValue, PartType, Verify
<1>5. \A s : \A c \in BOOLEAN : TableOK(s, fields, c) <=>
        /\ TotalSizeOK(s)
        /\ n = 0 => Len(s) = 4 \/ c
        /\ n # 0 => /\ OffsetsOK(s)
                    /\ FieldCount(s) >= n /\ (c \/ FieldCount(s) = n)
                    /\ \A i \in 1..n : Parts(s)[i] \in accepts(i, c)
  BY DEF TableOK, FieldCountOK, NumberSize, Verify
<1>6. n \in Nat /\ \A i \in 1..n : accepts(i, FALSE) \subseteq accepts(i, TRUE)
                                  /\ accepts(i, TRUE) \subseteq Slices
  BY DEF Grows
<1> HIDE DEF t, n, accepts
<1>7. Grows(t)
  <2> SUFFICES ASSUME NEW s \in t.accepted[FALSE] PROVE s \in t.accepted[TRUE]
    BY <1>1 DEF Grows
  <2>1. s \in Slices /\ TableOK(s, fields, FALSE)
    BY <1>1
  <2>2. TableOK(s, fields, TRUE)
    BY <1>5, <1>6, <2>1
  <2> QED
    BY <1>1, <2>1, <2>2
\* A table with n fields or more is read by its first n fields.
<1>8. ASSUME NEW v \in Seq(Slices), NEW p \in Seq(Slices), Len(v) = n,
             Fits(WriteParts(v \o p)), NEW c \in BOOLEAN, c \/ p = <<>>,
             \A i \in 1..n : v[i] \in accepts(i, c)
      PROVE  WriteParts(v \o p) \in t.accepted[c] /\ Read(t, WriteParts(v \o p)) = v
  <2> DEFINE q == v \o p
             s == WriteParts(q)
  <2>1. /\ q \in Seq(Slices) /\ Len(q) = n + Len(p) /\ Len(p) \in Nat
        /\ \A i \in 1..n : q[i] = v[i]
    BY <1>8, ConcatElements, LenProperties
  <2>2. Fits(s)
    BY <1>8
  <2>3. p = <<>> => Len(p) = 0
    BY EmptySeq
  <2> HIDE DEF q
  <2>4. IsLayout(s, q)
    BY <2>1, <2>2, WriteIsLayout
  <2> HIDE DEF s
  <2>5. /\ s \in Slices /\ TotalSizeOK(s) /\ FieldCount(s) = n + Len(p) /\ Parts(s) = q
        /\ (Len(s) = 4 <=> n + Len(p) = 0) /\ (n + Len(p) # 0 => OffsetsOK(s))
    BY <2>1, <2>4, LayoutReads DEF IsLayout
  <2>6. TableOK(s, fields, c)
    <3>1. CASE n = 0
      BY <1>5, <1>8, <2>1, <2>3, <2>5, <3>1
    <3>2. CASE n # 0
      <4>1. n + Len(p) # 0 /\ n + Len(p) >= n /\ (c \/ n + Len(p) = n)
        BY <1>6, <1>8, <2>1, <2>3, <3>2
      <4>2. \A i \in 1..n : Parts(s)[i] \in accepts(i, c)
        BY <1>8, <2>1, <2>5
      <4> QED
        BY <1>5, <2>5, <3>2, <4>1, <4>2
    <3> QED
      BY <3>1, <3>2
  <2>7. read(s) = v
    <3>1. CASE n = 0
      <4>1. v = <<>>
        BY <1>8, <3>1, EmptySeq
      <4> QED
        BY <3>1, <4>1
    <3>2. CASE n # 0
      BY <1>6, <1>8, <2>1, <2>5, <3>2, PrefixIs
    <3> QED
      BY <3>1, <3>2
  <2> QED
    BY <1>1, <1>3, <2>5, <2>6, <2>7 DEF s, q
<1>9. ReadsBack(t)
  <2> SUFFICES ASSUME NEW c \in BOOLEAN, NEW v, IsValue(t, v, c), Fits(Build(t, v))
               PROVE  Build(t, v) \in t.accepted[c] /\ Read(t, Build(t, v)) = v
    BY DEF ReadsBack
  <2>1. v \in Seq(Slices) /\ Len(v) = n /\ \A i \in 1..n : v[i] \in accepts(i, c)
    BY <1>4
  <2>2. v \o <<>> = v /\ <<>> \in Seq(Slices)
    BY <2>1, ConcatEmptySeq, EmptySeq
  <2>3. Build(t, v) = WriteParts(v \o <<>>)
    BY <1>2, <2>2
  <2>4. Fits(WriteParts(v \o <<>>))
    BY <2>3
  <2> QED
    BY <1>8, <2>1, <2>2, <2>3, <2>4
<1>10. Exact(t)
  <2> SUFFICES ASSUME NEW s \in t.accepted[FALSE], Fits(s)
               PROVE  Build(t, Read(t, s)) = s /\ IsValue(t, Read(t, s), FALSE)
    BY DEF Exact
  <2> DEFINE v == Parts(s)
  <2>1. s \in Slices /\ TableOK(s, fields, FALSE)
    BY <1>1
  <2>2. /\ v \in Seq(Slices) /\ IsLayout(s, v) /\ Len(v) = n /\ read(s) = v
        /\ \A i \in 1..n : v[i] \in accepts(i, FALSE)
    <3>1. CASE n = 0
      <4>1. TotalSizeOK(s) /\ Len(s) = 4
        BY <1>5, <2>1, <3>1
      <4>2. v = <<>> /\ IsLayout(s, <<>>) /\ <<>> \in Seq(Slices) /\ Len(<<>>) = 0
        BY <2>1, <4>1, EmptyLays
      <4>3. \A i \in 1..n : v[i] \in accepts(i, FALSE)
        BY <3>1
      <4> QED
        BY <3>1, <4>2, <4>3
    <3>2. CASE n # 0
      <4>1. /\ TotalSizeOK(s) /\ OffsetsOK(s) /\ FieldCount(s) = n
            /\ \A i \in 1..n : v[i] \in accepts(i, FALSE)
        BY <1>5, <2>1, <3>2
      <4>2. v \in Seq(Slices) /\ Len(v) = n /\ IsLayout(s, v)
        BY <2>1, <4>1, ReaderLays
      <4>3. SubSeq(v, 1, n) = v
        BY <4>2, SubSeqFull
      <4> QED
        BY <3>2, <4>1, <4>2, <4>3
    <3> QED
      BY <3>1, <3>2
  <2> HIDE DEF v, read
  <2>3. WriteParts(v) = s
    BY <2>2, LayoutIsWritten
  <2> QED
    BY <1>2, <1>3, <1>4, <2>2, <2>3
<1>11. Evolves(t)
  <2> SUFFICES ASSUME NEW v, NEW extra \in Seq(Slices) \ {<<>>}, IsValue(t, v, TRUE),
                      Fits(BuildNewer(t, v, extra))
               PROVE  /\ BuildNewer(t, v, extra) \in t.accepted[TRUE]
                      /\ Read(t, BuildNewer(t, v, extra)) = v
                      /\ BuildNewer(t, v, extra) \notin t.accepted[FALSE]
    BY DEF Evolves
  <2> DEFINE q == v \o extra
             s == WriteParts(q)
  <2>1. v \in Seq(Slices) /\ Len(v) = n /\ \A i \in 1..n : v[i] \in accepts(i, TRUE)
    BY <1>4
  <2>2. BuildNewer(t, v, extra) = s
    BY <1>1, <1>2 DEF BuildNewer
  <2>3. Fits(s)
    BY <2>2
  <2>4. s \in t.accepted[TRUE] /\ Read(t, s) = v
    BY <1>8, <2>1, <2>3
  <2>5. q \in Seq(Slices) /\ Len(q) = n + Len(extra) /\ Len(extra) \in Nat /\ Len(extra) # 0
    BY <2>1, ConcatElements, LenProperties, EmptySeq
  <2> HIDE DEF q
  <2>6. IsLayout(s, q)
    BY <2>3, <2>5, WriteIsLayout
  <2> HIDE DEF s
  <2>7. FieldCount(s) = n + Len(extra) /\ Len(s) # 4
    <3>1. FieldCount(s) = Len(q) /\ (Len(s) = 4 <=> Len(q) = 0)
      BY <2>5, <2>6, LayoutReads
    <3> QED
      BY <1>6, <2>5, <3>1
  <2>8. ~TableOK(s, fields, FALSE)
    <3>1. FieldCount(s) # n
      BY <1>6, <2>5, <2>7
    <3> QED
      BY <1>5, <2>7, <3>1
  <2>9. s \notin t.accepted[FALSE]
    BY <1>1, <2>8
  <2> QED
    BY <2>2, <2>4, <2>9
<1> QED
  BY <1>7, <1>9, <1>10, <1>11 DEF Sound, t

-----------------------------------------------------------------------------
(* The types *)

\* Entities of a fixed size, as the fields of a struct and the items of a fixed
\* vector have to be.
Fixed(t) == FixedSize(t) /\ Sound(t)

\* A type of a fixed size is sound.
LEMMA FixedIsSound == \A t : Fixed(t) => Sound(t)
BY DEF Fixed

\* Arrays have a fixed size.
LEMMA ArrayIsFixed == ASSUME NEW n \in Nat \ {0} PROVE Fixed(Array(n))
BY ArraySound DEF Fixed

\* So has a struct of such fields.
LEMMA StructOfFixed ==
    ASSUME NEW fields, Len(fields) \in Nat \ {0},
           \A i \in 1..Len(fields) : Fixed(FieldType(fields[i]))
    PROVE  Fixed(Struct(fields))
BY StructSound DEF Fixed

\* A table of sound fields is sound.
LEMMA TableOfSound ==
    ASSUME NEW fields, Len(fields) \in Nat,
           \A i \in 1..Len(fields) : Sound(FieldType(fields[i]))
    PROVE  Sound(Table(fields))
BY TableSound DEF Sound

\* A fixed vector of items of one size is sound.
LEMMA FixVecOfFixed == ASSUME NEW item, Fixed(item) PROVE Sound(FixVec(item))
BY FixVecSound DEF Fixed

\* A dynamic vector of sound items is sound.
LEMMA DynVecOfSound == ASSUME NEW item, Sound(item) PROVE Sound(DynVec(item))
BY DynVecSound DEF Sound

\* An option is sound when its item never has the empty slice.
LEMMA OptOfSound ==
    ASSUME NEW item, Sound(item), <<>> \notin item.accepted[TRUE]
    PROVE  Sound(Opt(item))
BY OptSound DEF Sound

\* A union of sound items is sound.
LEMMA UnionOfSound ==
    ASSUME NEW items, Len(items) \in Nat, Len(items) < 100,
           \A i \in 1..Len(items) : Sound(items[i])
    PROVE  Sound(Union(items))
<1>1. Len(items) < Unreachable
  BY SMT DEF Unreachable
<1> QED
  BY <1>1, UnionSound DEF Sound

\* The same of a type by its fields or items.
StructOf(t) ==
    /\ t = Struct(t.fields) /\ Len(t.fields) \in Nat \ {0}
    /\ \A i \in 1..Len(t.fields) : Fixed(FieldType(t.fields[i]))

TableOf(t) ==
    /\ t = Table(t.fields) /\ Len(t.fields) \in Nat
    /\ \A i \in 1..Len(t.fields) : Sound(FieldType(t.fields[i]))

UnionOf(t) ==
    /\ t = Union(t.items) /\ Len(t.items) \in Nat /\ Len(t.items) < 100
    /\ \A i \in 1..Len(t.items) : Sound(t.items[i])

\* So the types are sound from their fields or items on.
LEMMA OfFields ==
    ASSUME NEW t
    PROVE  /\ StructOf(t) => Fixed(t)
           /\ TableOf(t) => Sound(t)
           /\ UnionOf(t) => Sound(t)
<1>1. ASSUME StructOf(t) PROVE Fixed(t)
  BY <1>1, StructOfFixed DEF StructOf
<1>2. ASSUME TableOf(t) PROVE Sound(t)
  BY <1>2, TableOfSound DEF TableOf
<1>3. ASSUME UnionOf(t) PROVE Sound(t)
  BY <1>3, UnionOfSound DEF UnionOf
<1> QED
  BY <1>1, <1>2, <1>3

\* A fixed vector and a table have a header.
LEMMA NoneIsEmpty ==
    /\ \A item : <<>> \notin FixVec(item).accepted[TRUE]
    /\ \A fields : <<>> \notin Table(fields).accepted[TRUE]
<1>1. ~(Len(<<>>) >= 4)
  BY EmptySeq
<1> QED
  BY <1>1 DEF FixVec, FixVecOK, Table, TableOK, TotalSizeOK, NumberSize

\* The types of layer 1.
LEMMA BlockchainTypesAreSound ==
    /\ Fixed(Byte) /\ Fixed(Uint16) /\ Fixed(Uint32) /\ Fixed(Uint64)
    /\ Fixed(Uint128) /\ Fixed(Byte32) /\ Fixed(Uint256) /\ Sound(Bytes)
    /\ Sound(BytesOpt) /\ Sound(BytesVec) /\ Sound(Byte32Vec)
    /\ Fixed(ProposalShortId) /\ Sound(ProposalShortIdVec) /\ Sound(Script)
    /\ Sound(ScriptOpt) /\ Fixed(OutPoint) /\ Fixed(CellInput)
    /\ Sound(CellInputVec) /\ Sound(CellOutput) /\ Sound(CellOutputVec)
    /\ Fixed(CellDep) /\ Sound(CellDepVec) /\ Sound(RawTransaction)
    /\ Sound(Transaction) /\ Sound(TransactionVec) /\ Fixed(RawHeader)
    /\ Fixed(Header) /\ Sound(UncleBlock) /\ Sound(UncleBlockVec)
    /\ Sound(Block) /\ Sound(BlockV1) /\ Sound(CellbaseWitness)
    /\ Sound(WitnessArgs)
<1>1. /\ Fixed(Byte) /\ Fixed(Uint16) /\ Fixed(Uint32) /\ Fixed(Uint64)
      /\ Fixed(Uint128) /\ Fixed(Byte32) /\ Fixed(Uint256)
      /\ Fixed(ProposalShortId)
  BY ArrayIsFixed DEF Byte, Uint16, Uint32, Uint64, Uint128, Byte32, Uint256,
    ProposalShortId
<1>2. Sound(Bytes)
  BY <1>1, FixVecOfFixed DEF Bytes
<1>3. Sound(BytesOpt)
  BY <1>2, NoneIsEmpty, OptOfSound DEF BytesOpt, Bytes
<1>4. Sound(BytesVec)
  BY <1>2, DynVecOfSound DEF BytesVec
<1>5. Sound(Byte32Vec)
  BY <1>1, FixVecOfFixed DEF Byte32Vec
<1>6. Sound(ProposalShortIdVec)
  BY <1>1, FixVecOfFixed DEF ProposalShortIdVec
<1>7. Sound(Script)
  BY <1>1, <1>2, FixedIsSound, TableOfSound DEF Script, FieldType
<1>8. Sound(ScriptOpt)
  BY <1>7, NoneIsEmpty, OptOfSound DEF ScriptOpt, Script
<1>9. Fixed(OutPoint)
  BY <1>1, StructOfFixed DEF OutPoint, FieldType
<1>10. Fixed(CellInput)
  BY <1>1, <1>9, StructOfFixed DEF CellInput, FieldType
<1>11. Sound(CellInputVec)
  BY <1>10, FixVecOfFixed DEF CellInputVec
<1>12. Sound(CellOutput)
  BY <1>1, <1>7, <1>8, FixedIsSound, TableOfSound DEF CellOutput, FieldType
<1>13. Sound(CellOutputVec)
  BY <1>12, DynVecOfSound DEF CellOutputVec
<1>14. Fixed(CellDep)
  BY <1>9, <1>1, StructOfFixed DEF CellDep, FieldType
<1>15. Sound(CellDepVec)
  BY <1>14, FixVecOfFixed DEF CellDepVec
<1>16. Sound(RawTransaction)
  <2>1. TableOf(RawTransaction)
    BY <1>1, <1>15, <1>5, <1>11, <1>13, <1>4, FixedIsSound DEF RawTransaction,
      Table, TableOf, FieldType
  <2> QED
    BY <2>1, OfFields
<1>17. Sound(Transaction)
  BY <1>16, <1>4, TableOfSound DEF Transaction, FieldType
<1>18. Sound(TransactionVec)
  BY <1>17, DynVecOfSound DEF TransactionVec
<1>19. Fixed(RawHeader)
  <2>1. StructOf(RawHeader)
    BY <1>1 DEF RawHeader, Struct, Sized, StructOf, FieldType
  <2> QED
    BY <2>1, OfFields
<1>20. Fixed(Header)
  BY <1>19, <1>1, StructOfFixed DEF Header, FieldType
<1>21. Sound(UncleBlock)
  BY <1>20, <1>6, FixedIsSound, TableOfSound DEF UncleBlock, FieldType
<1>22. Sound(UncleBlockVec)
  BY <1>21, DynVecOfSound DEF UncleBlockVec
<1>23. Sound(Block)
  <2>1. TableOf(Block)
    BY <1>20, <1>22, <1>18, <1>6, FixedIsSound DEF Block, Table, TableOf,
      FieldType
  <2> QED
    BY <2>1, OfFields
<1>24. Sound(BlockV1)
  <2>1. TableOf(BlockV1)
    BY <1>20, <1>22, <1>18, <1>6, <1>2, FixedIsSound DEF BlockV1, Table,
      TableOf, FieldType
  <2> QED
    BY <2>1, OfFields
<1>25. Sound(CellbaseWitness)
  BY <1>7, <1>2, TableOfSound DEF CellbaseWitness, FieldType
<1>26. Sound(WitnessArgs)
  BY <1>3, TableOfSound DEF WitnessArgs, FieldType
<1> QED
  BY <1>1, <1>2, <1>3, <1>4, <1>5, <1>6, <1>7, <1>8, <1>9, <1>10, <1>11,
    <1>12, <1>13, <1>14, <1>15, <1>16, <1>17, <1>18, <1>19, <1>20, <1>21,
    <1>22, <1>23, <1>24, <1>25, <1>26

\* The types of the rollup.
LEMMA GodwokenTypesAreSound ==
    /\ Sound(Uint32Vec) /\ Fixed(BlockMerkleState)
    /\ Fixed(AccountMerkleState) /\ Fixed(GlobalStateV0) /\ Fixed(GlobalState)
    /\ Fixed(AllowedTypeHash) /\ Sound(AllowedTypeHashVec)
    /\ Sound(RollupConfig) /\ Sound(RawL2Transaction) /\ Sound(L2Transaction)
    /\ Sound(L2TransactionVec) /\ Fixed(SubmitTransactions)
    /\ Fixed(SubmitWithdrawals) /\ Sound(RawL2Block) /\ Sound(RawL2BlockVec)
    /\ Sound(DepositRequest) /\ Sound(DepositRequestVec)
    /\ Fixed(RawWithdrawalRequest) /\ Sound(WithdrawalRequest)
    /\ Sound(WithdrawalRequestVec) /\ Fixed(KVPair) /\ Sound(KVPairVec)
    /\ Sound(L2Block) /\ Sound(BlockInfo) /\ Sound(DepositLockArgs)
    /\ Sound(CustodianLockArgs) /\ Fixed(UnlockCustodianViaRevertWitness)
    /\ Fixed(WithdrawalLockArgs) /\ Sound(UnlockWithdrawalViaFinalize)
    /\ Fixed(UnlockWithdrawalViaRevert) /\ Sound(UnlockWithdrawalWitness)
    /\ Fixed(StakeLockArgs) /\ Fixed(Fee) /\ Sound(CreateAccount)
    /\ Sound(SUDTQuery) /\ Sound(SUDTTransfer) /\ Sound(SUDTArgs)
    /\ Fixed(ChallengeTarget) /\ Sound(ChallengeLockArgs)
    /\ Sound(ChallengeWitness) /\ Sound(ScriptVec)
    /\ Sound(BatchCreateEthAccounts) /\ Sound(MetaContractArgs)
    /\ Fixed(BlockHashEntry) /\ Sound(BlockHashEntryVec)
    /\ Sound(CKBMerkleProof) /\ Sound(CCTransactionWitness)
    /\ Sound(CCTransactionSignatureWitness) /\ Sound(CCWithdrawalWitness)
    /\ Sound(RollupSubmitBlock) /\ Sound(RollupEnterChallenge)
    /\ Sound(RollupCancelChallenge) /\ Sound(RollupRevert)
    /\ Sound(RollupAction) /\ Fixed(Byte20) /\ Fixed(EthToGw)
    /\ Fixed(GwToEth) /\ Fixed(SetMapping) /\ Sound(BatchSetMapping)
    /\ Sound(ETHAddrRegArgs)
<1>1. /\ Fixed(Byte20)
  BY ArrayIsFixed DEF Byte20
<1>2. Sound(Uint32Vec)
  BY BlockchainTypesAreSound, FixVecOfFixed DEF Uint32Vec
<1>3. Fixed(BlockMerkleState)
  BY BlockchainTypesAreSound, StructOfFixed DEF BlockMerkleState, FieldType
<1>4. Fixed(AccountMerkleState)
  BY BlockchainTypesAreSound, StructOfFixed DEF AccountMerkleState, FieldType
<1>5. Fixed(GlobalStateV0)
  <2>1. StructOf(GlobalStateV0)
    BY BlockchainTypesAreSound, <1>4, <1>3 DEF GlobalStateV0, Struct, Sized,
      StructOf, FieldType
  <2> QED
    BY <2>1, OfFields
<1>6. Fixed(GlobalState)
  <2>1. StructOf(GlobalState)
    BY BlockchainTypesAreSound, <1>4, <1>3 DEF GlobalState, Struct, Sized, StructOf,
      FieldType
  <2> QED
    BY <2>1, OfFields
<1>7. Fixed(AllowedTypeHash)
  BY BlockchainTypesAreSound, StructOfFixed DEF AllowedTypeHash, FieldType
<1>8. Sound(AllowedTypeHashVec)
  BY <1>7, FixVecOfFixed DEF AllowedTypeHashVec
<1>9. Sound(RollupConfig)
  <2>1. TableOf(RollupConfig)
    BY BlockchainTypesAreSound, <1>8, FixedIsSound DEF RollupConfig, Table,
      TableOf, FieldType
  <2> QED
    BY <2>1, OfFields
<1>10. Sound(RawL2Transaction)
  <2>1. TableOf(RawL2Transaction)
    BY BlockchainTypesAreSound, FixedIsSound DEF RawL2Transaction, Table,
      TableOf, FieldType
  <2> QED
    BY <2>1, OfFields
<1>11. Sound(L2Transaction)
  BY <1>10, BlockchainTypesAreSound, TableOfSound DEF L2Transaction, FieldType
<1>12. Sound(L2TransactionVec)
  BY <1>11, DynVecOfSound DEF L2TransactionVec
<1>13. Fixed(SubmitTransactions)
  BY BlockchainTypesAreSound, StructOfFixed DEF SubmitTransactions, FieldType
<1>14. Fixed(SubmitWithdrawals)
  BY BlockchainTypesAreSound, StructOfFixed DEF SubmitWithdrawals, FieldType
<1>15. Sound(RawL2Block)
  <2>1. TableOf(RawL2Block)
    BY BlockchainTypesAreSound, <1>4, <1>14, <1>13,
      FixedIsSound DEF RawL2Block, Table, TableOf, FieldType
  <2> QED
    BY <2>1, OfFields
<1>16. Sound(RawL2BlockVec)
  BY <1>15, DynVecOfSound DEF RawL2BlockVec
<1>17. Sound(DepositRequest)
  <2>1. TableOf(DepositRequest)
    BY BlockchainTypesAreSound, FixedIsSound DEF DepositRequest, Table,
      TableOf, FieldType
  <2> QED
    BY <2>1, OfFields
<1>18. Sound(DepositRequestVec)
  BY <1>17, DynVecOfSound DEF DepositRequestVec
<1>19. Fixed(RawWithdrawalRequest)
  <2>1. StructOf(RawWithdrawalRequest)
    BY BlockchainTypesAreSound DEF RawWithdrawalRequest, Struct, Sized, StructOf,
      FieldType
  <2> QED
    BY <2>1, OfFields
<1>20. Sound(WithdrawalRequest)
  BY SMTT(60), <1>19, BlockchainTypesAreSound, FixedIsSound,
    TableOfSound DEF WithdrawalRequest, FieldType
<1>21. Sound(WithdrawalRequestVec)
  BY <1>20, DynVecOfSound DEF WithdrawalRequestVec
<1>22. Fixed(KVPair)
  BY BlockchainTypesAreSound, StructOfFixed DEF KVPair, FieldType
<1>23. Sound(KVPairVec)
  BY <1>22, FixVecOfFixed DEF KVPairVec
<1>24. Sound(L2Block)
  <2>1. TableOf(L2Block)
    BY <1>15, <1>23, BlockchainTypesAreSound, <1>12, <1>21 DEF L2Block, Table,
      TableOf, FieldType
  <2> QED
    BY <2>1, OfFields
<1>25. Sound(BlockInfo)
  BY BlockchainTypesAreSound, FixedIsSound, TableOfSound DEF BlockInfo,
    FieldType
<1>26. Sound(DepositLockArgs)
  <2>1. TableOf(DepositLockArgs)
    BY BlockchainTypesAreSound, FixedIsSound DEF DepositLockArgs, Table,
      TableOf, FieldType
  <2> QED
    BY <2>1, OfFields
<1>27. Sound(CustodianLockArgs)
  BY SMTT(60), BlockchainTypesAreSound, <1>26, FixedIsSound,
    TableOfSound DEF CustodianLockArgs, FieldType
<1>28. Fixed(UnlockCustodianViaRevertWitness)
  BY SMTT(60), BlockchainTypesAreSound,
    StructOfFixed DEF UnlockCustodianViaRevertWitness, FieldType
<1>29. Fixed(WithdrawalLockArgs)
  BY SMTT(60), BlockchainTypesAreSound, StructOfFixed DEF WithdrawalLockArgs, FieldType
<1>30. Sound(UnlockWithdrawalViaFinalize)
  BY TableOfSound DEF UnlockWithdrawalViaFinalize, FieldType
<1>31. Fixed(UnlockWithdrawalViaRevert)
  <2>1. StructOf(UnlockWithdrawalViaRevert)
    BY BlockchainTypesAreSound DEF UnlockWithdrawalViaRevert, Struct, Sized,
      StructOf, FieldType
  <2> QED
    BY <2>1, OfFields
<1>32. Sound(UnlockWithdrawalWitness)
  <2>1. UnionOf(UnlockWithdrawalWitness)
    BY <1>30, <1>31, FixedIsSound DEF UnlockWithdrawalWitness, Union, UnionOf
  <2> QED
    BY <2>1, OfFields
<1>33. Fixed(StakeLockArgs)
  BY BlockchainTypesAreSound, StructOfFixed DEF StakeLockArgs, FieldType
<1>34. Fixed(Fee)
  BY BlockchainTypesAreSound, StructOfFixed DEF Fee, FieldType
<1>35. Sound(CreateAccount)
  BY BlockchainTypesAreSound, <1>34, FixedIsSound,
    TableOfSound DEF CreateAccount, FieldType
<1>36. Sound(SUDTQuery)
  BY BlockchainTypesAreSound, TableOfSound DEF SUDTQuery, FieldType
<1>37. Sound(SUDTTransfer)
  BY BlockchainTypesAreSound, <1>34, FixedIsSound,
    TableOfSound DEF SUDTTransfer, FieldType
<1>38. Sound(SUDTArgs)
  <2>1. UnionOf(SUDTArgs)
    BY <1>36, <1>37 DEF SUDTArgs, Union, UnionOf
  <2> QED
    BY <2>1, OfFields
<1>39. Fixed(ChallengeTarget)
  BY SMTT(60), BlockchainTypesAreSound, StructOfFixed DEF ChallengeTarget, FieldType
<1>40. Sound(ChallengeLockArgs)
  BY <1>39, BlockchainTypesAreSound, FixedIsSound,
    TableOfSound DEF ChallengeLockArgs, FieldType
<1>41. Sound(ChallengeWitness)
  BY <1>15, BlockchainTypesAreSound, TableOfSound DEF ChallengeWitness,
    FieldType
<1>42. Sound(ScriptVec)
  BY BlockchainTypesAreSound, DynVecOfSound DEF ScriptVec
<1>43. Sound(BatchCreateEthAccounts)
  BY <1>42, <1>34, FixedIsSound, TableOfSound DEF BatchCreateEthAccounts,
    FieldType
<1>44. Sound(MetaContractArgs)
  <2>1. UnionOf(MetaContractArgs)
    BY <1>35, <1>43 DEF MetaContractArgs, Union, UnionOf
  <2> QED
    BY <2>1, OfFields
<1>45. Fixed(BlockHashEntry)
  BY BlockchainTypesAreSound, StructOfFixed DEF BlockHashEntry, FieldType
<1>46. Sound(BlockHashEntryVec)
  BY <1>45, FixVecOfFixed DEF BlockHashEntryVec
<1>47. Sound(CKBMerkleProof)
  BY SMTT(60), <1>2, BlockchainTypesAreSound, TableOfSound DEF CKBMerkleProof, FieldType
<1>48. Sound(CCTransactionWitness)
  <2>1. TableOf(CCTransactionWitness)
    BY <1>11, <1>15, <1>47, BlockchainTypesAreSound, <1>23, <1>42, <1>46,
      FixedIsSound DEF CCTransactionWitness, Table, TableOf, FieldType
  <2> QED
    BY <2>1, OfFields
<1>49. Sound(CCTransactionSignatureWitness)
  <2>1. TableOf(CCTransactionSignatureWitness)
    BY <1>15, <1>11, <1>47, <1>23, BlockchainTypesAreSound,
      FixedIsSound DEF CCTransactionSignatureWitness, Table, TableOf,
      FieldType
  <2> QED
    BY <2>1, OfFields
<1>50. Sound(CCWithdrawalWitness)
  <2>1. TableOf(CCWithdrawalWitness)
    BY <1>15, <1>20, BlockchainTypesAreSound, <1>47, <1>23,
      FixedIsSound DEF CCWithdrawalWitness, Table, TableOf, FieldType
  <2> QED
    BY <2>1, OfFields
<1>51. Sound(RollupSubmitBlock)
  BY <1>24, BlockchainTypesAreSound, TableOfSound DEF RollupSubmitBlock,
    FieldType
<1>52. Sound(RollupEnterChallenge)
  BY <1>41, TableOfSound DEF RollupEnterChallenge, FieldType
<1>53. Sound(RollupCancelChallenge)
  BY TableOfSound DEF RollupCancelChallenge, FieldType
<1>54. Sound(RollupRevert)
  BY <1>16, BlockchainTypesAreSound, <1>15, TableOfSound DEF RollupRevert,
    FieldType
<1>55. Sound(RollupAction)
  <2>1. UnionOf(RollupAction)
    BY <1>51, <1>52, <1>53, <1>54 DEF RollupAction, Union, UnionOf
  <2> QED
    BY <2>1, OfFields
<1>56. Fixed(EthToGw)
  BY <1>1, StructOfFixed DEF EthToGw, FieldType
<1>57. Fixed(GwToEth)
  <2>1. StructOf(GwToEth)
    BY BlockchainTypesAreSound DEF GwToEth, Struct, Sized, StructOf, FieldType
  <2> QED
    BY <2>1, OfFields
<1>58. Fixed(SetMapping)
  BY BlockchainTypesAreSound, <1>34, StructOfFixed DEF SetMapping, FieldType
<1>59. Sound(BatchSetMapping)
  BY SMTT(60), BlockchainTypesAreSound, <1>34, FixedIsSound,
    TableOfSound DEF BatchSetMapping, FieldType
<1>60. Sound(ETHAddrRegArgs)
  <2>1. UnionOf(ETHAddrRegArgs)
    BY <1>56, <1>57, <1>58, <1>59, FixedIsSound DEF ETHAddrRegArgs, Union,
      UnionOf
  <2> QED
    BY <2>1, OfFields
<1> QED
  BY <1>1, <1>2, <1>3, <1>4, <1>5, <1>6, <1>7, <1>8, <1>9, <1>10, <1>11,
    <1>12, <1>13, <1>14, <1>15, <1>16, <1>17, <1>18, <1>19, <1>20, <1>21,
    <1>22, <1>23, <1>24, <1>25, <1>26, <1>27, <1>28, <1>29, <1>30, <1>31,
    <1>32, <1>33, <1>34, <1>35, <1>36, <1>37, <1>38, <1>39, <1>40, <1>41,
    <1>42, <1>43, <1>44, <1>45, <1>46, <1>47, <1>48, <1>49, <1>50, <1>51,
    <1>52, <1>53, <1>54, <1>55, <1>56, <1>57, <1>58, <1>59, <1>60

\* Each of the types that generated::packed exports is sound.
THEOREM PackedTypesAreSound == \A name \in DOMAIN packed : Sound(packed[name])
<1>1. DOMAIN packed = {"Uint16", "Uint32", "Uint64", "Uint128", "Byte32",
        "Uint256", "Bytes", "BytesOpt", "BytesVec", "Byte32Vec", "ScriptOpt",
        "ProposalShortId", "UncleBlockVec", "TransactionVec",
        "ProposalShortIdVec", "CellDepVec", "CellInputVec", "CellOutputVec",
        "Script", "OutPoint", "CellInput", "CellOutput", "CellDep",
        "RawTransaction", "Transaction", "RawHeader", "Header", "UncleBlock",
        "Block", "BlockV1", "CellbaseWitness", "WitnessArgs", "Uint32Vec",
        "BlockMerkleState", "AccountMerkleState", "GlobalStateV0",
        "GlobalState", "AllowedTypeHash", "AllowedTypeHashVec",
        "RollupConfig", "RawL2Transaction", "L2Transaction",
        "L2TransactionVec", "SubmitTransactions", "SubmitWithdrawals",
        "RawL2Block", "RawL2BlockVec", "L2Block", "DepositRequest",
        "DepositRequestVec", "RawWithdrawalRequest", "WithdrawalRequestVec",
        "WithdrawalRequest", "KVPair", "KVPairVec", "BlockInfo",
        "DepositLockArgs", "CustodianLockArgs",
        "UnlockCustodianViaRevertWitness", "WithdrawalLockArgs",
        "UnlockWithdrawalWitness", "UnlockWithdrawalViaFinalize",
        "UnlockWithdrawalViaRevert", "StakeLockArgs", "MetaContractArgs",
        "Fee", "CreateAccount", "BatchCreateEthAccounts", "SUDTArgs",
        "SUDTQuery", "SUDTTransfer", "ChallengeTarget", "ChallengeLockArgs",
        "ChallengeWitness", "ScriptVec", "BlockHashEntry",
        "BlockHashEntryVec", "CKBMerkleProof", "CCTransactionWitness",
        "CCTransactionSignatureWitness", "CCWithdrawalWitness",
        "RollupSubmitBlock", "RollupEnterChallenge", "RollupCancelChallenge",
        "RollupRevert", "RollupAction", "Byte20", "ETHAddrRegArgs", "EthToGw",
        "GwToEth", "SetMapping", "BatchSetMapping"}
  BY SMTT(60) DEF packed
<1>2. /\ packed.Uint16 = Uint16 /\ packed.Uint32 = Uint32
      /\ packed.Uint64 = Uint64 /\ packed.Uint128 = Uint128
      /\ packed.Byte32 = Byte32 /\ packed.Uint256 = Uint256
      /\ packed.Bytes = Bytes /\ packed.BytesOpt = BytesOpt
  BY SMTT(60) DEF packed
<1>3. /\ packed.BytesVec = BytesVec /\ packed.Byte32Vec = Byte32Vec
      /\ packed.ScriptOpt = ScriptOpt
      /\ packed.ProposalShortId = ProposalShortId
      /\ packed.UncleBlockVec = UncleBlockVec
      /\ packed.TransactionVec = TransactionVec
      /\ packed.ProposalShortIdVec = ProposalShortIdVec
      /\ packed.CellDepVec = CellDepVec
  BY SMTT(60) DEF packed
<1>4. /\ packed.CellInputVec = CellInputVec
      /\ packed.CellOutputVec = CellOutputVec /\ packed.Script = Script
      /\ packed.OutPoint = OutPoint /\ packed.CellInput = CellInput
      /\ packed.CellOutput = CellOutput /\ packed.CellDep = CellDep
      /\ packed.RawTransaction = RawTransaction
  BY SMTT(60) DEF packed
<1>5. /\ packed.Transaction = Transaction /\ packed.RawHeader = RawHeader
      /\ packed.Header = Header /\ packed.UncleBlock = UncleBlock
      /\ packed.Block = Block /\ packed.BlockV1 = BlockV1
      /\ packed.CellbaseWitness = CellbaseWitness
      /\ packed.WitnessArgs = WitnessArgs
  BY SMTT(60) DEF packed
<1>6. /\ packed.Uint32Vec = Uint32Vec
      /\ packed.BlockMerkleState = BlockMerkleState
      /\ packed.AccountMerkleState = AccountMerkleState
      /\ packed.GlobalStateV0 = GlobalStateV0
      /\ packed.GlobalState = GlobalState
      /\ packed.AllowedTypeHash = AllowedTypeHash
      /\ packed.AllowedTypeHashVec = AllowedTypeHashVec
      /\ packed.RollupConfig = RollupConfig
  BY SMTT(60) DEF packed
<1>7. /\ packed.RawL2Transaction = RawL2Transaction
      /\ packed.L2Transaction = L2Transaction
      /\ packed.L2TransactionVec = L2TransactionVec
      /\ packed.SubmitTransactions = SubmitTransactions
      /\ packed.SubmitWithdrawals = SubmitWithdrawals
      /\ packed.RawL2Block = RawL2Block
      /\ packed.RawL2BlockVec = RawL2BlockVec /\ packed.L2Block = L2Block
  BY SMTT(60) DEF packed
<1>8. /\ packed.DepositRequest = DepositRequest
      /\ packed.DepositRequestVec = DepositRequestVec
      /\ packed.RawWithdrawalRequest = RawWithdrawalRequest
      /\ packed.WithdrawalRequestVec = WithdrawalRequestVec
      /\ packed.WithdrawalRequest = WithdrawalRequest
      /\ packed.KVPair = KVPair /\ packed.KVPairVec = KVPairVec
      /\ packed.BlockInfo = BlockInfo
  BY SMTT(60) DEF packed
<1>9. /\ packed.DepositLockArgs = DepositLockArgs
      /\ packed.CustodianLockArgs = CustodianLockArgs
      /\ packed.UnlockCustodianViaRevertWitness = UnlockCustodianViaRevertWitness
      /\ packed.WithdrawalLockArgs = WithdrawalLockArgs
      /\ packed.UnlockWithdrawalWitness = UnlockWithdrawalWitness
      /\ packed.UnlockWithdrawalViaFinalize = UnlockWithdrawalViaFinalize
      /\ packed.UnlockWithdrawalViaRevert = UnlockWithdrawalViaRevert
      /\ packed.StakeLockArgs = StakeLockArgs
  BY SMTT(60) DEF packed
<1>10. /\ packed.MetaContractArgs = MetaContractArgs /\ packed.Fee = Fee
       /\ packed.CreateAccount = CreateAccount
       /\ packed.BatchCreateEthAccounts = BatchCreateEthAccounts
       /\ packed.SUDTArgs = SUDTArgs /\ packed.SUDTQuery = SUDTQuery
       /\ packed.SUDTTransfer = SUDTTransfer
       /\ packed.ChallengeTarget = ChallengeTarget
  BY SMTT(60) DEF packed
<1>11. /\ packed.ChallengeLockArgs = ChallengeLockArgs
       /\ packed.ChallengeWitness = ChallengeWitness
       /\ packed.ScriptVec = ScriptVec
       /\ packed.BlockHashEntry = BlockHashEntry
       /\ packed.BlockHashEntryVec = BlockHashEntryVec
       /\ packed.CKBMerkleProof = CKBMerkleProof
       /\ packed.CCTransactionWitness = CCTransactionWitness
       /\ packed.CCTransactionSignatureWitness = CCTransactionSignatureWitness
  BY SMTT(60) DEF packed
<1>12. /\ packed.CCWithdrawalWitness = CCWithdrawalWitness
       /\ packed.RollupSubmitBlock = RollupSubmitBlock
       /\ packed.RollupEnterChallenge = RollupEnterChallenge
       /\ packed.RollupCancelChallenge = RollupCancelChallenge
       /\ packed.RollupRevert = RollupRevert
       /\ packed.RollupAction = RollupAction /\ packed.Byte20 = Byte20
       /\ packed.ETHAddrRegArgs = ETHAddrRegArgs
  BY SMTT(60) DEF packed
<1>13. /\ packed.EthToGw = EthToGw /\ packed.GwToEth = GwToEth
       /\ packed.SetMapping = SetMapping
       /\ packed.BatchSetMapping = BatchSetMapping
  BY SMTT(60) DEF packed
<1>14. /\ Sound(Uint16) /\ Sound(Uint32) /\ Sound(Uint64) /\ Sound(Uint128)
       /\ Sound(Byte32) /\ Sound(Uint256) /\ Sound(Bytes) /\ Sound(BytesOpt)
       /\ Sound(BytesVec) /\ Sound(Byte32Vec) /\ Sound(ScriptOpt)
       /\ Sound(ProposalShortId) /\ Sound(UncleBlockVec)
       /\ Sound(TransactionVec) /\ Sound(ProposalShortIdVec)
       /\ Sound(CellDepVec) /\ Sound(CellInputVec) /\ Sound(CellOutputVec)
       /\ Sound(Script) /\ Sound(OutPoint) /\ Sound(CellInput)
       /\ Sound(CellOutput) /\ Sound(CellDep) /\ Sound(RawTransaction)
       /\ Sound(Transaction) /\ Sound(RawHeader) /\ Sound(Header)
       /\ Sound(UncleBlock) /\ Sound(Block) /\ Sound(BlockV1)
       /\ Sound(CellbaseWitness) /\ Sound(WitnessArgs) /\ Sound(Uint32Vec)
       /\ Sound(BlockMerkleState) /\ Sound(AccountMerkleState)
       /\ Sound(GlobalStateV0) /\ Sound(GlobalState) /\ Sound(AllowedTypeHash)
       /\ Sound(AllowedTypeHashVec) /\ Sound(RollupConfig)
       /\ Sound(RawL2Transaction) /\ Sound(L2Transaction)
       /\ Sound(L2TransactionVec) /\ Sound(SubmitTransactions)
       /\ Sound(SubmitWithdrawals) /\ Sound(RawL2Block)
       /\ Sound(RawL2BlockVec) /\ Sound(L2Block) /\ Sound(DepositRequest)
       /\ Sound(DepositRequestVec) /\ Sound(RawWithdrawalRequest)
       /\ Sound(WithdrawalRequestVec) /\ Sound(WithdrawalRequest)
       /\ Sound(KVPair) /\ Sound(KVPairVec) /\ Sound(BlockInfo)
       /\ Sound(DepositLockArgs) /\ Sound(CustodianLockArgs)
       /\ Sound(UnlockCustodianViaRevertWitness) /\ Sound(WithdrawalLockArgs)
       /\ Sound(UnlockWithdrawalWitness) /\ Sound(UnlockWithdrawalViaFinalize)
       /\ Sound(UnlockWithdrawalViaRevert) /\ Sound(StakeLockArgs)
       /\ Sound(MetaContractArgs) /\ Sound(Fee) /\ Sound(CreateAccount)
       /\ Sound(BatchCreateEthAccounts) /\ Sound(SUDTArgs) /\ Sound(SUDTQuery)
       /\ Sound(SUDTTransfer) /\ Sound(ChallengeTarget)
       /\ Sound(ChallengeLockArgs) /\ Sound(ChallengeWitness)
       /\ Sound(ScriptVec) /\ Sound(BlockHashEntry)
       /\ Sound(BlockHashEntryVec) /\ Sound(CKBMerkleProof)
       /\ Sound(CCTransactionWitness) /\ Sound(CCTransactionSignatureWitness)
       /\ Sound(CCWithdrawalWitness) /\ Sound(RollupSubmitBlock)
       /\ Sound(RollupEnterChallenge) /\ Sound(RollupCancelChallenge)
       /\ Sound(RollupRevert) /\ Sound(RollupAction) /\ Sound(Byte20)
       /\ Sound(ETHAddrRegArgs) /\ Sound(EthToGw) /\ Sound(GwToEth)
       /\ Sound(SetMapping) /\ Sound(BatchSetMapping)
  BY BlockchainTypesAreSound, GodwokenTypesAreSound, FixedIsSound
<1>15. /\ Sound(packed.Uint16) /\ Sound(packed.Uint32) /\ Sound(packed.Uint64)
       /\ Sound(packed.Uint128) /\ Sound(packed.Byte32)
       /\ Sound(packed.Uint256) /\ Sound(packed.Bytes)
       /\ Sound(packed.BytesOpt)
  BY <1>2, <1>14
<1>16. /\ Sound(packed.BytesVec) /\ Sound(packed.Byte32Vec)
       /\ Sound(packed.ScriptOpt) /\ Sound(packed.ProposalShortId)
       /\ Sound(packed.UncleBlockVec) /\ Sound(packed.TransactionVec)
       /\ Sound(packed.ProposalShortIdVec) /\ Sound(packed.CellDepVec)
  BY <1>3, <1>14
<1>17. /\ Sound(packed.CellInputVec) /\ Sound(packed.CellOutputVec)
       /\ Sound(packed.Script) /\ Sound(packed.OutPoint)
       /\ Sound(packed.CellInput) /\ Sound(packed.CellOutput)
       /\ Sound(packed.CellDep) /\ Sound(packed.RawTransaction)
  BY <1>4, <1>14
<1>18. /\ Sound(packed.Transaction) /\ Sound(packed.RawHeader)
       /\ Sound(packed.Header) /\ Sound(packed.UncleBlock)
       /\ Sound(packed.Block) /\ Sound(packed.BlockV1)
       /\ Sound(packed.CellbaseWitness) /\ Sound(packed.WitnessArgs)
  BY <1>5, <1>14
<1>19. /\ Sound(packed.Uint32Vec) /\ Sound(packed.BlockMerkleState)
       /\ Sound(packed.AccountMerkleState) /\ Sound(packed.GlobalStateV0)
       /\ Sound(packed.GlobalState) /\ Sound(packed.AllowedTypeHash)
       /\ Sound(packed.AllowedTypeHashVec) /\ Sound(packed.RollupConfig)
  BY <1>6, <1>14
<1>20. /\ Sound(packed.RawL2Transaction) /\ Sound(packed.L2Transaction)
       /\ Sound(packed.L2TransactionVec) /\ Sound(packed.SubmitTransactions)
       /\ Sound(packed.SubmitWithdrawals) /\ Sound(packed.RawL2Block)
       /\ Sound(packed.RawL2BlockVec) /\ Sound(packed.L2Block)
  BY <1>7, <1>14
<1>21. /\ Sound(packed.DepositRequest) /\ Sound(packed.DepositRequestVec)
       /\ Sound(packed.RawWithdrawalRequest)
       /\ Sound(packed.WithdrawalRequestVec)
       /\ Sound(packed.WithdrawalRequest) /\ Sound(packed.KVPair)
       /\ Sound(packed.KVPairVec) /\ Sound(packed.BlockInfo)
  BY <1>8, <1>14
<1>22. /\ Sound(packed.DepositLockArgs) /\ Sound(packed.CustodianLockArgs)
       /\ Sound(packed.UnlockCustodianViaRevertWitness)
       /\ Sound(packed.WithdrawalLockArgs)
       /\ Sound(packed.UnlockWithdrawalWitness)
       /\ Sound(packed.UnlockWithdrawalViaFinalize)
       /\ Sound(packed.UnlockWithdrawalViaRevert)
       /\ Sound(packed.StakeLockArgs)
  BY <1>9, <1>14
<1>23. /\ Sound(packed.MetaContractArgs) /\ Sound(packed.Fee)
       /\ Sound(packed.CreateAccount) /\ Sound(packed.BatchCreateEthAccounts)
       /\ Sound(packed.SUDTArgs) /\ Sound(packed.SUDTQuery)
       /\ Sound(packed.SUDTTransfer) /\ Sound(packed.ChallengeTarget)
  BY <1>10, <1>14
<1>24. /\ Sound(packed.ChallengeLockArgs) /\ Sound(packed.ChallengeWitness)
       /\ Sound(packed.ScriptVec) /\ Sound(packed.BlockHashEntry)
       /\ Sound(packed.BlockHashEntryVec) /\ Sound(packed.CKBMerkleProof)
       /\ Sound(packed.CCTransactionWitness)
       /\ Sound(packed.CCTransactionSignatureWitness)
  BY <1>11, <1>14
<1>25. /\ Sound(packed.CCWithdrawalWitness) /\ Sound(packed.RollupSubmitBlock)
       /\ Sound(packed.RollupEnterChallenge)
       /\ Sound(packed.RollupCancelChallenge) /\ Sound(packed.RollupRevert)
       /\ Sound(packed.RollupAction) /\ Sound(packed.Byte20)
       /\ Sound(packed.ETHAddrRegArgs)
  BY <1>12, <1>14
<1>26. /\ Sound(packed.EthToGw) /\ Sound(packed.GwToEth)
       /\ Sound(packed.SetMapping) /\ Sound(packed.BatchSetMapping)
  BY <1>13, <1>14
<1> HIDE DEF packed
<1> QED
  BY <1>1, <1>15, <1>16, <1>17, <1>18, <1>19,
     <1>20, <1>21, <1>22, <1>23, <1>24, <1>25, <1>26, ZenonT(60)

-----------------------------------------------------------------------------
(* The states of the parser *)

\* What the readers of the written type answer.
Decoded(call, compatible) ==
    IF Verify(Schema, slice, compatible)
    THEN Replied(call, Read(Schema, slice)) ELSE Raised(call)

\* The slice is one, of the length that numbers of 32 bits allow.
SliceOK == type \in TypeNames /\ slice \in Slices /\ Fits(slice)

\* A slice that is not damaged is what a writer built of a value.
FateOK ==
    /\ fate \in {"written", "newer", "damaged"}
    /\ fate = "written" => IsValue(Schema, value, FALSE) /\ slice = Build(Schema, value)
    /\ fate = "newer" =>
         /\ IsValue(Schema, value, TRUE)
         /\ \E extra \in Extras : slice = BuildNewer(Schema, value, extra)

\* An answer is what one of the functions makes of the slice as it is now.
AnswerOf(a) ==
    \/ a = NoAnswer
    \/ a = Decoded("from_slice", FALSE)
    \/ a = Decoded("from_compatible_slice", TRUE)
    \/ type = "MetaContractArgs" /\ a = parse_meta_contract_args(slice)
    \/ type = "ETHAddrRegArgs" /\ a = parse_eth_address_registry_args(slice)
    \/ type \in {"GlobalState", "GlobalStateV0"} /\ a = parse_outputs_data(slice)
    \/ type \in {"GlobalState", "GlobalStateV0"} /\ a = fetch_global_state_info(slice)
    \/ type = "DepositLockArgs" /\ a = parse_deposition_lock_args(LockArgs)
    \/ type = "WithdrawalLockArgs"
         /\ \E t \in Trailers : a = parse_withdrawal_lock_args(CutArgs(LockArgs \o t))

\* The inductive invariant.
IInv == SliceOK /\ FateOK /\ AnswerOf(answer)

\* The schema of every written type is sound.
LEMMA SchemaIsSound == ASSUME type \in TypeNames PROVE Sound(Schema)
<1>1. type \in DOMAIN packed
  BY WriterAssumption
<1> QED
  BY <1>1, PackedTypesAreSound DEF Schema

\* What the assumption on the writers says of the schema at hand.
LEMMA WritersAre ==
    ASSUME type \in TypeNames
    PROVE  /\ \A v \in {Initial(Schema)} \cup Values(Schema) :
                IsValue(Schema, v, FALSE) /\ Fits(Build(Schema, v))
           /\ \A v \in NewerValues(Schema) :
                /\ IsValue(Schema, v, TRUE)
                /\ \A extra \in Extras : Fits(BuildNewer(Schema, v, extra))
  BY WriterAssumption DEF Schema

\* What is built of a value is a slice that the strict reader accepts.
LEMMA BuiltIsAccepted ==
    ASSUME NEW t, Sound(t), NEW v, IsValue(t, v, FALSE), Fits(Build(t, v))
    PROVE  /\ Build(t, v) \in Slices /\ Read(t, Build(t, v)) = v
           /\ \A c \in BOOLEAN : Build(t, v) \in t.accepted[c]
<1>1. Build(t, v) \in t.accepted[FALSE] /\ Read(t, Build(t, v)) = v
  BY DEF Sound, ReadsBack
<1> QED
  BY <1>1 DEF Sound, Grows

\* What a newer writer builds is a slice that the compatible reader accepts.
LEMMA NewerIsAccepted ==
    ASSUME NEW t, Sound(t), NEW v, NEW extra \in Extras,
           IsValue(t, v, TRUE), Fits(BuildNewer(t, v, extra))
    PROVE  /\ BuildNewer(t, v, extra) \in Slices
           /\ BuildNewer(t, v, extra) \in t.accepted[TRUE]
           /\ Read(t, BuildNewer(t, v, extra)) = v
           /\ BuildNewer(t, v, extra) \in t.accepted[FALSE] =>
                BuildNewer(t, v, extra) = Build(t, v) /\ IsValue(t, v, FALSE)
<1>1. extra \in Seq(Slices) \ {<<>>}
  BY WriterAssumption
<1>2. /\ BuildNewer(t, v, extra) \in t.accepted[TRUE]
      /\ Read(t, BuildNewer(t, v, extra)) = v
      /\ BuildNewer(t, v, extra) \in t.accepted[FALSE] =>
           BuildNewer(t, v, extra) = Build(t, v) /\ IsValue(t, v, FALSE)
  BY <1>1 DEF Sound, Evolves
<1> QED
  BY <1>2 DEF Sound, Grows

\* The invariant is inductive.
THEOREM ParserInvariant == Spec => []IInv
<1>1. Init => IInv
  <2> SUFFICES ASSUME Init PROVE IInv
    OBVIOUS
  <2>1. type \in TypeNames /\ value = Initial(Schema) /\ fate = "written"
        /\ slice = Build(Schema, value) /\ answer = NoAnswer
    BY DEF Init
  <2>2. IsValue(Schema, value, FALSE) /\ Fits(slice)
    BY <2>1, WritersAre
  <2>3. slice \in Slices
    BY <2>1, <2>2, SchemaIsSound, BuiltIsAccepted
  <2> QED
    BY <2>1, <2>2, <2>3 DEF IInv, SliceOK, FateOK, AnswerOf
<1>2. IInv /\ [Next]_vars => IInv'
  <2> SUFFICES ASSUME IInv, [Next]_vars PROVE IInv'
    OBVIOUS
  <2>1. ASSUME NEW a, AnswerOf(a), Answer(a) PROVE IInv'
    <3>1. answer' = a /\ UNCHANGED <<type, value, fate, slice>>
      BY <2>1 DEF Answer
    <3>2. SliceOK' /\ FateOK'
      BY <3>1 DEF IInv, SliceOK, FateOK, Schema
    <3>3. AnswerOf(answer)'
      BY <2>1, <3>1 DEF AnswerOf, Decoded, Schema, LockArgs
    <3> QED
      BY <3>2, <3>3 DEF IInv
  <2>2. CASE Write
    <3>1. /\ value' \in Values(Schema) /\ slice' = Build(Schema, value')
          /\ type' = type /\ fate = "written" /\ fate' = fate
          /\ answer' = NoAnswer
      BY <2>2 DEF Write
    <3>2. type \in TypeNames
      BY DEF IInv, SliceOK
    <3>3. IsValue(Schema, value', FALSE) /\ Fits(slice')
      BY <3>1, <3>2, WritersAre
    <3>4. slice' \in Slices
      BY <3>1, <3>2, <3>3, SchemaIsSound, BuiltIsAccepted
    <3> QED
      BY <3>1, <3>2, <3>3, <3>4 DEF IInv, SliceOK, FateOK, AnswerOf, Schema
  <2>3. CASE Upgrade
    <3>1. /\ value' \in NewerValues(Schema) /\ type' = type /\ fate' = "newer"
          /\ answer' = NoAnswer
      BY <2>3 DEF Upgrade
    <3>2. PICK extra \in Extras : slice' = BuildNewer(Schema, value', extra)
      BY <2>3 DEF Upgrade
    <3>3. type \in TypeNames
      BY DEF IInv, SliceOK
    <3>4. IsValue(Schema, value', TRUE) /\ Fits(slice')
      BY <3>1, <3>2, <3>3, WritersAre
    <3>5. slice' \in Slices
      BY <3>2, <3>3, <3>4, SchemaIsSound, NewerIsAccepted
    <3>6. FateOK'
      BY <3>1, <3>2, <3>4 DEF FateOK, Schema
    <3> QED
      BY <3>1, <3>3, <3>4, <3>5, <3>6 DEF IInv, SliceOK, AnswerOf
  <2>4. CASE Damage
    BY <2>4 DEF Damage, IInv, SliceOK, FateOK, AnswerOf
  <2>5. CASE from_slice
    <3>1. Answer(Decoded("from_slice", FALSE))
      BY <2>5 DEF from_slice, Decode, Reading, Decoded
    <3> QED
      BY <2>1, <3>1 DEF AnswerOf
  <2>6. CASE from_compatible_slice
    <3>1. Answer(Decoded("from_compatible_slice", TRUE))
      BY <2>6 DEF from_compatible_slice, Decode, Reading, Decoded
    <3> QED
      BY <2>1, <3>1 DEF AnswerOf
  <2>7. CASE ReadTransaction
    BY <2>1, <2>7 DEF ReadTransaction, AnswerOf
  <2>8. CASE ReadRollupCell
    BY <2>1, <2>8 DEF ReadRollupCell, AnswerOf
  <2>9. CASE ReadLockArgs
    <3>1. CASE type = "DepositLockArgs" /\ Answer(parse_deposition_lock_args(LockArgs))
      BY <2>1, <3>1 DEF AnswerOf
    <3>2. CASE type = "WithdrawalLockArgs" /\ \E t \in Trailers :
                 Answer(parse_withdrawal_lock_args(CutArgs(LockArgs \o t)))
      BY <2>1, <3>2 DEF AnswerOf
    <3> QED
      BY <2>9, <3>1, <3>2 DEF ReadLockArgs
  <2>10. CASE UNCHANGED vars
    BY <2>10 DEF vars, IInv, SliceOK, FateOK, AnswerOf, Decoded, Schema, LockArgs
  <2> QED
    BY <2>2, <2>3, <2>4, <2>5, <2>6, <2>7, <2>8, <2>9, <2>10 DEF Next
<1> QED
  BY <1>1, <1>2, PTL DEF Spec

\* The call that an answer names is the function that gave it.
LEMMA Named ==
    /\ NoAnswer.call = "none"
    /\ \A call, compatible : Decoded(call, compatible).call = call
    /\ \A s : parse_meta_contract_args(s).call = "parse_meta_contract_args"
    /\ \A s : parse_eth_address_registry_args(s).call = "parse_eth_address_registry_args"
    /\ \A s : parse_outputs_data(s).call = "parse_outputs_data"
    /\ \A s : fetch_global_state_info(s).call = "fetch_global_state_info"
    /\ \A s : parse_deposition_lock_args(s).call = "parse_deposition_lock_args"
    /\ \A s : parse_withdrawal_lock_args(s).call = "parse_withdrawal_lock_args"
<1>1. \A call, reply : Replied(call, reply).call = call /\ Raised(call).call = call
  BY DEF Replied, Raised
<1>2. NoAnswer.call = "none"
  BY DEF NoAnswer
<1>3. \A call, compatible : Decoded(call, compatible).call = call
  BY <1>1 DEF Decoded
<1>4. \A s : parse_meta_contract_args(s).call = "parse_meta_contract_args"
  BY <1>1 DEF parse_meta_contract_args
<1>5. \A s : parse_eth_address_registry_args(s).call = "parse_eth_address_registry_args"
  BY <1>1 DEF parse_eth_address_registry_args
<1>6. \A s : parse_outputs_data(s).call = "parse_outputs_data"
  BY <1>1 DEF parse_outputs_data
<1>7. \A s : fetch_global_state_info(s).call = "fetch_global_state_info"
  BY <1>1 DEF fetch_global_state_info
<1>8. \A s : parse_deposition_lock_args(s).call = "parse_deposition_lock_args"
  BY <1>1 DEF parse_deposition_lock_args
<1>9. \A s : parse_withdrawal_lock_args(s).call = "parse_withdrawal_lock_args"
  BY <1>1 DEF parse_withdrawal_lock_args
<1> QED
  BY <1>2, <1>3, <1>4, <1>5, <1>6, <1>7, <1>8, <1>9

\* So the name of the call says what the answer is.
LEMMA AnswersAre ==
    ASSUME AnswerOf(answer)
    PROVE  /\ answer.call = "from_slice" => answer = Decoded("from_slice", FALSE)
           /\ answer.call = "from_compatible_slice" =>
                answer = Decoded("from_compatible_slice", TRUE)
           /\ answer.call = "parse_meta_contract_args" =>
                type = "MetaContractArgs" /\ answer = parse_meta_contract_args(slice)
           /\ answer.call = "parse_outputs_data" =>
                type \in {"GlobalState", "GlobalStateV0"} /\ answer = parse_outputs_data(slice)
           /\ answer.call = "parse_deposition_lock_args" =>
                type = "DepositLockArgs" /\ answer = parse_deposition_lock_args(LockArgs)
           /\ answer.call = "parse_withdrawal_lock_args" =>
                type = "WithdrawalLockArgs"
                /\ \E t \in Trailers :
                     answer = parse_withdrawal_lock_args(CutArgs(LockArgs \o t))
<1>1. CASE answer = NoAnswer
  BY <1>1, Named
<1>2. CASE answer = Decoded("from_slice", FALSE)
  <2>1. answer.call = "from_slice"
    <3>1. Decoded("from_slice", FALSE).call = "from_slice"
      BY Named
    <3> QED
      BY <1>2, <3>1
  <2> QED
    BY <1>2, <2>1
<1>3. CASE answer = Decoded("from_compatible_slice", TRUE)
  <2>1. answer.call = "from_compatible_slice"
    <3>1. Decoded("from_compatible_slice", TRUE).call = "from_compatible_slice"
      BY Named
    <3> QED
      BY <1>3, <3>1
  <2> QED
    BY <1>3, <2>1
<1>4. CASE type = "MetaContractArgs" /\ answer = parse_meta_contract_args(slice)
  BY <1>4, Named
<1>5. CASE type = "ETHAddrRegArgs" /\ answer = parse_eth_address_registry_args(slice)
  BY <1>5, Named
<1>6. CASE type \in {"GlobalState", "GlobalStateV0"} /\ answer = parse_outputs_data(slice)
  BY <1>6, Named
<1>7. CASE /\ type \in {"GlobalState", "GlobalStateV0"}
           /\ answer = fetch_global_state_info(slice)
  BY <1>7, Named
<1>8. CASE type = "DepositLockArgs" /\ answer = parse_deposition_lock_args(LockArgs)
  BY <1>8, Named
<1>9. CASE type = "WithdrawalLockArgs" /\ \E t \in Trailers :
             answer = parse_withdrawal_lock_args(CutArgs(LockArgs \o t))
  BY <1>9, Named
<1> QED
  BY <1>1, <1>2, <1>3, <1>4, <1>5, <1>6, <1>7, <1>8, <1>9 DEF AnswerOf

\* The fields of the two forms of an answer.
LEMMA Forms ==
    \A call, reply : /\ Replied(call, reply).ok /\ Replied(call, reply).reply = reply
                     /\ ~Raised(call).ok
BY DEF Replied, Raised

\* A slice that is not damaged has the value, to every compatible reader.
LEMMA Arrives ==
    ASSUME IInv, fate # "damaged"
    PROVE  /\ IsValue(Schema, value, TRUE) \/ IsValue(Schema, value, FALSE)
           /\ slice \in Schema.accepted[TRUE] /\ Read(Schema, slice) = value
<1>1. Sound(Schema) /\ Fits(slice)
  BY SchemaIsSound DEF IInv, SliceOK
<1>2. CASE fate = "written"
  <2>1. IsValue(Schema, value, FALSE) /\ slice = Build(Schema, value)
    BY <1>2 DEF IInv, FateOK
  <2> QED
    BY <1>1, <2>1, BuiltIsAccepted
<1>3. CASE fate = "newer"
  <2>1. IsValue(Schema, value, TRUE)
    BY <1>3 DEF IInv, FateOK
  <2>2. PICK extra \in Extras : slice = BuildNewer(Schema, value, extra)
    BY <1>3 DEF IInv, FateOK
  <2> QED
    BY <1>1, <2>1, <2>2, NewerIsAccepted
<1> QED
  BY <1>2, <1>3 DEF IInv, FateOK

\* What was written, both readers accept and read back.
LEMMA WrittenArrives ==
    ASSUME IInv, fate = "written"
    PROVE  /\ IsValue(Schema, value, FALSE) /\ slice = Build(Schema, value)
           /\ Read(Schema, slice) = value
           /\ \A c \in BOOLEAN : slice \in Schema.accepted[c]
<1>1. Sound(Schema) /\ Fits(slice)
  BY SchemaIsSound DEF IInv, SliceOK
<1>2. IsValue(Schema, value, FALSE) /\ slice = Build(Schema, value)
  BY DEF IInv, FateOK
<1> QED
  BY <1>1, <1>2, BuiltIsAccepted

\* What a builder wrote is read back by both readers, part by part, whatever
\* the type and the value.
THEOREM WrittenIsReadBack == Spec => []WrittenReadsBack
<1>1. IInv => WrittenReadsBack
  <2> SUFFICES ASSUME IInv, fate = "written",
                      answer.call \in {"from_slice", "from_compatible_slice"}
               PROVE  answer.ok /\ answer.reply = value
    BY DEF WrittenReadsBack
  <2>1. \E c \in BOOLEAN : answer = Decoded(answer.call, c)
    <3>1. AnswerOf(answer)
      BY DEF IInv
    <3>2. CASE answer.call = "from_slice"
      BY <3>1, <3>2, AnswersAre
    <3>3. CASE answer.call = "from_compatible_slice"
      BY <3>1, <3>3, AnswersAre
    <3> QED
      BY <3>2, <3>3
  <2>2. PICK c \in BOOLEAN : answer = Decoded(answer.call, c)
    BY <2>1
  <2>3. Verify(Schema, slice, c) /\ Read(Schema, slice) = value
    BY WrittenArrives DEF Verify
  <2>4. answer = Replied(answer.call, value)
    BY <2>2, <2>3 DEF Decoded
  <2> QED
    BY <2>4, Forms
<1> QED
  BY <1>1, ParserInvariant, PTL

\* verify is exact: of each type the strict reader accepts exactly what the
\* builder builds.
THEOREM AcceptedSlicesAreCanonical == Spec => []AcceptedIsCanonical
<1>1. IInv => AcceptedIsCanonical
  <2> SUFFICES ASSUME IInv, answer.call = "from_slice", answer.ok
               PROVE  /\ Build(Schema, answer.reply) = slice
                      /\ IsValue(Schema, answer.reply, FALSE)
    BY DEF AcceptedIsCanonical, WrittenFor
  <2>1. answer = Decoded("from_slice", FALSE)
    BY AnswersAre DEF IInv
  <2>2. Verify(Schema, slice, FALSE) /\ answer.reply = Read(Schema, slice)
    BY <2>1, Forms DEF Decoded
  <2>3. Exact(Schema) /\ Fits(slice)
    BY SchemaIsSound DEF IInv, SliceOK, Sound
  <2> QED
    BY <2>2, <2>3 DEF Exact, Verify
<1> QED
  BY <1>1, ParserInvariant, PTL

\* Compatible readers get every field they know from a newer writer, and a
\* strict reader refuses all that it would not have written.
THEOREM NewerEntitiesAreCompatible == Spec => []NewerIsCompatible
<1>1. IInv => NewerIsCompatible
  <2> SUFFICES ASSUME IInv, fate = "newer"
               PROVE  /\ answer.call = "from_compatible_slice"
                           => answer.ok /\ answer.reply = value
                      /\ answer.call = "from_slice" /\ answer.ok
                           => slice = Build(Schema, value) /\ IsValue(Schema, value, FALSE)
    BY DEF NewerIsCompatible, WrittenFor
  <2>1. Sound(Schema) /\ Fits(slice) /\ AnswerOf(answer)
    BY SchemaIsSound DEF IInv, SliceOK
  <2>2. IsValue(Schema, value, TRUE)
    BY DEF IInv, FateOK
  <2>3. PICK extra \in Extras : slice = BuildNewer(Schema, value, extra)
    BY DEF IInv, FateOK
  <2>4. ASSUME answer.call = "from_compatible_slice"
        PROVE  answer.ok /\ answer.reply = value
    <3>1. answer = Decoded("from_compatible_slice", TRUE)
      BY <2>1, <2>4, AnswersAre
    <3>2. Verify(Schema, slice, TRUE) /\ Read(Schema, slice) = value
      BY <2>1, <2>2, <2>3, NewerIsAccepted DEF Verify
    <3> QED
      BY <3>1, <3>2, Forms DEF Decoded
  <2>5. ASSUME answer.call = "from_slice", answer.ok
        PROVE  slice = Build(Schema, value) /\ IsValue(Schema, value, FALSE)
    <3>1. answer = Decoded("from_slice", FALSE)
      BY <2>1, <2>5, AnswersAre
    <3>2. Verify(Schema, slice, FALSE)
      BY <2>5, <3>1, Forms DEF Decoded
    <3> QED
      BY <2>1, <2>2, <2>3, <3>2, NewerIsAccepted DEF Verify
  <2> QED
    BY <2>4, <2>5
<1> QED
  BY <1>1, ParserInvariant, PTL

-----------------------------------------------------------------------------
(* The entities of a fixed size that lib.rs reads *)

\* A struct is as long as its fields together.
LEMMA StructSize ==
    ASSUME NEW t, StructOf(t)
    PROVE  \E E : /\ E[0] = 0 /\ t.size = E[Len(t.fields)]
                  /\ \A i \in 1..Len(t.fields) :
                       E[i] = E[i - 1] + FieldType(t.fields[i]).size
<1> DEFINE fields == t.fields
           n == Len(fields)
           z == [i \in 1..n |-> FieldType(fields[i]).size]
<1>1. n \in Nat /\ t = Struct(fields) /\ \A i \in 1..n : z[i] \in Nat
  BY DEF StructOf, Fixed, FixedSize
<1>2. z \in [1..n -> Nat]
  <2>1. z = [i \in 1..n |-> z[i]]
    OBVIOUS
  <2> HIDE DEF z
  <2> QED
    BY <1>1, <2>1
<1>3. t.size = FieldEnds(fields)[n] /\ FieldEnds(fields) = Ends(AsSeq(z))
  BY <1>1 DEF Struct, Sized, FieldEnds
<1>4. \A i \in 1..n : z[i] = FieldType(fields[i]).size
  OBVIOUS
<1> HIDE DEF z, n
<1>5. AsSeq(z) = z /\ z \in Seq(Nat) /\ Len(z) = n
  BY <1>1, <1>2, AsSeqIs
<1>6. Ends(z)[0] = 0 /\ \A i \in 1..n : Ends(z)[i] = Ends(z)[i - 1] + z[i]
  BY <1>5, EndsSums
<1> QED
  BY <1>3, <1>4, <1>5, <1>6 DEF n

\* The sizes of the numbers and hashes.
LEMMA ArraySizes ==
    /\ Byte.size = 1 /\ Uint32.size = 4 /\ Uint64.size = 8 /\ Byte32.size = 32
<1>1. \A n : Array(n).size = n
  BY DEF Array
<1> QED
  BY <1>1 DEF Byte, Uint32, Uint64, Byte32

\* The fields of the structs.
LEMMA StateFields ==
    /\ StructOf(BlockMerkleState) /\ StructOf(AccountMerkleState)
    /\ StructOf(GlobalStateV0) /\ StructOf(GlobalState) /\ StructOf(WithdrawalLockArgs)
<1>1. StructOf(BlockMerkleState)
  BY BlockchainTypesAreSound DEF BlockMerkleState, Struct, Sized, FieldType, StructOf
<1>2. StructOf(AccountMerkleState)
  BY BlockchainTypesAreSound DEF AccountMerkleState, Struct, Sized, FieldType, StructOf
<1>3. StructOf(GlobalStateV0)
  BY BlockchainTypesAreSound, GodwokenTypesAreSound DEF GlobalStateV0, Struct, Sized, FieldType, StructOf
<1>4. StructOf(GlobalState)
  BY BlockchainTypesAreSound, GodwokenTypesAreSound DEF GlobalState, Struct, Sized, FieldType, StructOf
<1>5. StructOf(WithdrawalLockArgs)
  BY BlockchainTypesAreSound DEF WithdrawalLockArgs, Struct, Sized, FieldType, StructOf
<1> QED
  BY <1>1, <1>2, <1>3, <1>4, <1>5

\* The two layouts of a global state have different lengths.
LEMMA StateSizes ==
    /\ BlockMerkleState.size = 40 /\ AccountMerkleState.size = 36
    /\ GlobalStateV0.size = 181 /\ GlobalState.size = 190 /\ WithdrawalLockArgs.size = 104
<1>1. BlockMerkleState.size = 40
  <2> DEFINE t == BlockMerkleState
  <2>1. /\ Len(t.fields) = 2
        /\ FieldType(t.fields[1]) = Byte32 /\ FieldType(t.fields[2]) = Uint64
    BY DEF BlockMerkleState, Struct, Sized, FieldType
  <2>2. PICK E : /\ E[0] = 0 /\ t.size = E[Len(t.fields)]
                 /\ \A i \in 1..Len(t.fields) :
                      E[i] = E[i - 1] + FieldType(t.fields[i]).size
    BY StateFields, StructSize
  <2> HIDE DEF t
  <2>3. E[1] = E[0] + 32 /\ E[2] = E[1] + 8
    BY <2>1, <2>2, ArraySizes
  <2> QED
    BY <2>1, <2>2, <2>3 DEF t
<1>2. AccountMerkleState.size = 36
  <2> DEFINE t == AccountMerkleState
  <2>1. /\ Len(t.fields) = 2
        /\ FieldType(t.fields[1]) = Byte32 /\ FieldType(t.fields[2]) = Uint32
    BY DEF AccountMerkleState, Struct, Sized, FieldType
  <2>2. PICK E : /\ E[0] = 0 /\ t.size = E[Len(t.fields)]
                 /\ \A i \in 1..Len(t.fields) :
                      E[i] = E[i - 1] + FieldType(t.fields[i]).size
    BY StateFields, StructSize
  <2> HIDE DEF t
  <2>3. E[1] = E[0] + 32 /\ E[2] = E[1] + 4
    BY <2>1, <2>2, ArraySizes
  <2> QED
    BY <2>1, <2>2, <2>3 DEF t
<1>3. GlobalStateV0.size = 181
  <2> DEFINE t == GlobalStateV0
  <2>1. /\ Len(t.fields) = 7
        /\ FieldType(t.fields[1]) = Byte32 /\ FieldType(t.fields[2]) = AccountMerkleState
        /\ FieldType(t.fields[3]) = BlockMerkleState /\ FieldType(t.fields[4]) = Byte32
        /\ FieldType(t.fields[5]) = Byte32 /\ FieldType(t.fields[6]) = Uint64
        /\ FieldType(t.fields[7]) = Byte
    BY DEF GlobalStateV0, Struct, Sized, FieldType
  <2>2. PICK E : /\ E[0] = 0 /\ t.size = E[Len(t.fields)]
                 /\ \A i \in 1..Len(t.fields) :
                      E[i] = E[i - 1] + FieldType(t.fields[i]).size
    BY StateFields, StructSize
  <2> HIDE DEF t
  <2>3. E[1] = E[0] + 32 /\ E[2] = E[1] + 36 /\ E[3] = E[2] + 40 /\ E[4] = E[3] + 32
    BY <2>1, <2>2, <1>1, <1>2, ArraySizes
  <2>4. E[5] = E[4] + 32 /\ E[6] = E[5] + 8 /\ E[7] = E[6] + 1
    BY <2>1, <2>2, ArraySizes
  <2> QED
    BY <2>1, <2>2, <2>3, <2>4 DEF t
<1>4. GlobalState.size = 190
  <2> DEFINE t == GlobalState
  <2>1. /\ Len(t.fields) = 9
        /\ FieldType(t.fields[1]) = Byte32 /\ FieldType(t.fields[2]) = AccountMerkleState
        /\ FieldType(t.fields[3]) = BlockMerkleState /\ FieldType(t.fields[4]) = Byte32
        /\ FieldType(t.fields[5]) = Byte32 /\ FieldType(t.fields[6]) = Uint64
        /\ FieldType(t.fields[7]) = Uint64 /\ FieldType(t.fields[8]) = Byte
        /\ FieldType(t.fields[9]) = Byte
    BY DEF GlobalState, Struct, Sized, FieldType
  <2>2. PICK E : /\ E[0] = 0 /\ t.size = E[Len(t.fields)]
                 /\ \A i \in 1..Len(t.fields) :
                      E[i] = E[i - 1] + FieldType(t.fields[i]).size
    BY StateFields, StructSize
  <2> HIDE DEF t
  <2>3. E[1] = E[0] + 32 /\ E[2] = E[1] + 36 /\ E[3] = E[2] + 40 /\ E[4] = E[3] + 32
    BY <2>1, <2>2, <1>1, <1>2, ArraySizes
  <2>4. E[5] = E[4] + 32 /\ E[6] = E[5] + 8 /\ E[7] = E[6] + 8 /\ E[8] = E[7] + 1
        /\ E[9] = E[8] + 1
    BY <2>1, <2>2, ArraySizes
  <2> QED
    BY <2>1, <2>2, <2>3, <2>4 DEF t
<1>5. WithdrawalLockArgs.size = 104
  <2> DEFINE t == WithdrawalLockArgs
  <2>1. /\ Len(t.fields) = 4
        /\ FieldType(t.fields[1]) = Byte32 /\ FieldType(t.fields[2]) = Uint64
        /\ FieldType(t.fields[3]) = Byte32 /\ FieldType(t.fields[4]) = Byte32
    BY DEF WithdrawalLockArgs, Struct, Sized, FieldType
  <2>2. PICK E : /\ E[0] = 0 /\ t.size = E[Len(t.fields)]
                 /\ \A i \in 1..Len(t.fields) :
                      E[i] = E[i - 1] + FieldType(t.fields[i]).size
    BY StateFields, StructSize
  <2> HIDE DEF t
  <2>3. E[1] = E[0] + 32 /\ E[2] = E[1] + 8 /\ E[3] = E[2] + 32 /\ E[4] = E[3] + 32
    BY <2>1, <2>2, ArraySizes
  <2> QED
    BY <2>1, <2>2, <2>3 DEF t
<1> QED
  BY <1>1, <1>2, <1>3, <1>4, <1>5

\* The schemas of the types that lib.rs reads.
LEMMA SchemasAre ==
    /\ type = "GlobalState" => Schema = GlobalState
    /\ type = "GlobalStateV0" => Schema = GlobalStateV0
    /\ type = "DepositLockArgs" => Schema = DepositLockArgs
    /\ type = "WithdrawalLockArgs" => Schema = WithdrawalLockArgs
    /\ type = "MetaContractArgs" => Schema = MetaContractArgs
<1>1. /\ packed.GlobalState = GlobalState /\ packed.GlobalStateV0 = GlobalStateV0
      /\ packed.DepositLockArgs = DepositLockArgs
      /\ packed.WithdrawalLockArgs = WithdrawalLockArgs
      /\ packed.MetaContractArgs = MetaContractArgs
  BY SMTT(60) DEF packed
<1> QED
  BY <1>1 DEF Schema

\* An accessor returns the part that the field of its name has.
LEMMA GetIsField ==
    ASSUME NEW t, t.kind \in {"struct", "table"}, NEW s, NEW name
    PROVE  Get(t, s, name) = Field(t, Read(t, s), name)
BY DEF Get, Field, Read

\* Both readers of a type of a fixed size accept the slices of that size.
LEMMA FixedAccepts ==
    ASSUME NEW t, Fixed(t), NEW c \in BOOLEAN, NEW d \in BOOLEAN, NEW s, s \in t.accepted[c]
    PROVE  s \in t.accepted[d] /\ s \in Slices /\ Len(s) = t.size
BY DEF Fixed, FixedSize, Bytewise

\* A count of eight bytes is a number.
LEMMA CountIsNumber ==
    ASSUME NEW b \in BlockMerkleState.accepted[FALSE]
    PROVE  FromLE(Get(BlockMerkleState, b, "count")) \in Int
<1> DEFINE t == BlockMerkleState
           v == Read(t, b)
<1>1. /\ t.kind = "struct" /\ t.fields = <<<<"merkle_root", Byte32>>, <<"count", Uint64>>>>
      /\ FieldType(t.fields[2]) = Uint64
  BY DEF BlockMerkleState, Struct, Sized, FieldType
<1>2. FieldIndex(t, "count") = 2
  <2> HIDE DEF t
  <2> QED
    BY <1>1 DEF FieldIndex
<1>3. Fixed(t) /\ Exact(t)
  BY GodwokenTypesAreSound DEF Fixed, Sound
<1>4. b \in Slices /\ Len(b) = 40
  <2>1. Len(b) = t.size
    BY <1>3, FixedAccepts
  <2> QED
    BY ZenonT(60), <1>3, <2>1, FixedAccepts, StateSizes
<1>5. Fits(b)
  BY <1>4, SMT DEF Fits, Unreachable
<1>6. IsValue(t, v, FALSE)
  BY <1>3, <1>5 DEF Exact
<1>7. Len(v) = 2 /\ Verify(PartType(t, 2), v[2], FALSE)
  <2> HIDE DEF t, v
  <2>1. Len(v) = 2
    BY <1>1, <1>6 DEF IsValue
  <2>2. \A i \in 1..Len(v) : Verify(PartType(t, i), v[i], FALSE)
    BY <1>1, <1>6 DEF IsValue
  <2>3. 2 \in 1..Len(v)
    BY <2>1
  <2> QED
    BY <2>1, <2>2, <2>3
<1>8. v[2] \in Slices /\ Len(v[2]) = 8
  <2>1. Verify(Uint64, v[2], FALSE)
    <3> HIDE DEF t, v
    <3> QED
      BY <1>1, <1>7 DEF PartType
  <2>2. Fixed(Uint64)
    BY BlockchainTypesAreSound
  <2> HIDE DEF v
  <2> QED
    BY <2>1, <2>2, FixedAccepts, ArraySizes DEF Verify
<1>9. Get(t, b, "count") = v[2]
  <2> HIDE DEF t
  <2> QED
    BY <1>1, <1>2, GetIsField DEF Field
<1>10. \A n \in Slices : Len(n) = 8 => FromLE(n) \in Int
  <2> SUFFICES ASSUME NEW n \in Slices, Len(n) = 8 PROVE FromLE(n) \in Int
    OBVIOUS
  <2>1. n[1] \in Octet /\ n[2] \in Octet /\ n[3] \in Octet
    BY ElementOfSeq DEF Slices
  <2>2. n[1] \in Int /\ n[2] \in Int /\ n[3] \in Int
    BY <2>1 DEF Octet
  <2>3. n[1] + 256 * n[2] + 65536 * n[3] \in Int
    BY <2>2, SMT
  <2>4. Unreachable \in Int
    BY SMT DEF Unreachable
  <2>5. FromLE(n) \in {Unreachable, n[1] + 256 * n[2] + 65536 * n[3]}
    BY SMT DEF FromLE
  <2> QED
    BY <2>3, <2>4, <2>5, SMT
<1> HIDE DEF v, t
<1> QED
  BY <1>8, <1>9, <1>10 DEF t

\* The block of a state is the merkle state of the blocks.
LEMMA BlockOfState ==
    ASSUME NEW t \in {GlobalState, GlobalStateV0}, NEW s \in t.accepted[FALSE], Fits(s)
    PROVE  Get(t, s, "block") \in BlockMerkleState.accepted[FALSE]
<1> DEFINE v == Read(t, s)
<1>1. /\ t.kind = "struct" /\ Len(t.fields) \in Nat /\ 3 \in 1..Len(t.fields)
      /\ FieldType(t.fields[3]) = BlockMerkleState
      /\ FieldIndex(t, "block") = 3
  <2>1. CASE t = GlobalState
    <3>1. /\ t.kind = "struct" /\ Len(t.fields) = 9
          /\ t.fields[1][1] = "rollup_config_hash" /\ t.fields[2][1] = "account"
          /\ t.fields[3][1] = "block" /\ t.fields[4][1] = "reverted_block_root"
          /\ t.fields[5][1] = "tip_block_hash" /\ t.fields[6][1] = "tip_block_timestamp"
          /\ t.fields[7][1] = "last_finalized_block_number" /\ t.fields[8][1] = "status"
          /\ t.fields[9][1] = "version" /\ DOMAIN t.fields = 1..9
          /\ FieldType(t.fields[3]) = BlockMerkleState
      BY <2>1 DEF GlobalState, Struct, Sized, FieldType
    <3> HIDE <2>1
    <3>2. FieldIndex(t, "block") = 3
      BY <3>1 DEF FieldIndex
    <3> QED
      BY <3>1, <3>2
  <2>2. CASE t = GlobalStateV0
    <3>1. /\ t.kind = "struct" /\ Len(t.fields) = 7
          /\ t.fields[1][1] = "rollup_config_hash" /\ t.fields[2][1] = "account"
          /\ t.fields[3][1] = "block" /\ t.fields[4][1] = "reverted_block_root"
          /\ t.fields[5][1] = "tip_block_hash"
          /\ t.fields[6][1] = "last_finalized_block_number"
          /\ t.fields[7][1] = "status" /\ DOMAIN t.fields = 1..7
          /\ FieldType(t.fields[3]) = BlockMerkleState
      BY <2>2 DEF GlobalStateV0, Struct, Sized, FieldType
    <3>2. FieldIndex(t, "block") = 3
      BY <3>1 DEF FieldIndex
    <3> QED
      BY <3>1, <3>2
  <2> QED
    BY <2>1, <2>2
<1>2. Exact(t)
  BY GodwokenTypesAreSound DEF Fixed, Sound
<1>3. IsValue(t, v, FALSE)
  BY <1>2 DEF Exact
<1>4. Get(t, s, "block") = v[3]
  BY <1>1, GetIsField DEF Field
<1> HIDE DEF v
<1>5. Verify(PartType(t, 3), v[3], FALSE)
  <2>1. Len(v) = Len(t.fields)
    BY <1>1, <1>3 DEF IsValue
  <2>2. \A i \in 1..Len(v) : Verify(PartType(t, i), v[i], FALSE)
    BY <1>1, <1>3 DEF IsValue
  <2> QED
    BY <1>1, <2>1, <2>2
<1> QED
  BY <1>1, <1>4, <1>5 DEF PartType, Verify

\* From a state of either version that arrives as it was written, the count of
\* its blocks is read, and not taken for another field by the other layout.
THEOREM BindWorkerReadsTheCount == Spec => []BindReadsTheCount
<1>1. IInv => BindReadsTheCount
  <2> DEFINE t == Schema
             count == FromLE(Get(BlockMerkleState, Get(t, slice, "block"), "count"))
  <2> SUFFICES ASSUME IInv, answer.call = "parse_outputs_data", fate # "damaged"
               PROVE  /\ answer.ok
                      /\ answer.reply + 1 = FromLE(
                           Get(BlockMerkleState, Field(Schema, value, "block"), "count"))
    BY DEF BindReadsTheCount
  <2>1. type \in {"GlobalState", "GlobalStateV0"} /\ answer = parse_outputs_data(slice)
    BY AnswersAre DEF IInv
  <2>2. slice \in t.accepted[TRUE] /\ Read(t, slice) = value /\ Fits(slice)
    BY Arrives DEF IInv, SliceOK
  <2>3. t \in {GlobalState, GlobalStateV0}
    BY <2>1, SchemasAre
  <2>4. Fixed(t) /\ t.kind = "struct"
    <3>1. GlobalState.kind = "struct" /\ GlobalStateV0.kind = "struct"
      BY DEF GlobalState, GlobalStateV0, Struct, Sized
    <3> HIDE DEF t
    <3> QED
      BY <2>3, <3>1, GodwokenTypesAreSound
  <2>5. Get(t, slice, "block") = Field(t, value, "block")
    <3> HIDE DEF t
    <3> QED
      BY <2>2, <2>4, GetIsField
  <2>6. Verify(t, slice, FALSE) /\ Len(slice) = t.size
    <3> HIDE DEF t
    <3> QED
      BY <2>2, <2>4, FixedAccepts DEF Verify
  <2>7. count \in Int
    <3> HIDE DEF t
    <3>1. Get(t, slice, "block") \in BlockMerkleState.accepted[FALSE]
      BY <2>2, <2>3, <2>6, BlockOfState DEF Verify
    <3> QED
      BY <3>1, CountIsNumber
  <2>8. StateReply(t, slice)[3][1] = count
    <3> HIDE DEF t
    <3> QED
      BY DEF StateReply
  <2>9. answer = Replied("parse_outputs_data", count - 1)
    <3>1. CASE t = GlobalState
      <4>1. parse_global_state(slice) = Replied("parse_global_state", StateReply(t, slice))
        BY <2>6, <3>1 DEF parse_global_state
      <4> HIDE DEF count
      <4>2. parse_outputs_data(slice) = Replied("parse_outputs_data", count - 1)
        BY <2>8, <4>1, Forms DEF parse_outputs_data
      <4> QED
        BY <2>1, <4>2
    <3>2. CASE t = GlobalStateV0
      <4>1. ~Verify(GlobalState, slice, FALSE)
        <5> SUFFICES ASSUME Verify(GlobalState, slice, FALSE) PROVE FALSE
          OBVIOUS
        <5>1. slice \in GlobalState.accepted[FALSE] /\ Fixed(GlobalState)
          BY GodwokenTypesAreSound DEF Verify
        <5>2. Len(slice) = GlobalState.size
          BY <5>1, FixedAccepts
        <5>3. Len(slice) = 190
          BY <5>2, StateSizes
        <5>4. Len(slice) = GlobalStateV0.size
          BY <2>6, <3>2
        <5>5. Len(slice) = 181
          BY <5>4, StateSizes
        <5> QED
          BY <5>3, <5>5
      <4>2. parse_global_state(slice) = Raised("parse_global_state")
        BY <4>1 DEF parse_global_state
      <4>3. parse_v0_global_state(slice)
              = Replied("parse_v0_global_state", StateReply(t, slice))
        BY <2>6, <3>2 DEF parse_v0_global_state
      <4> HIDE DEF count
      <4>4. parse_outputs_data(slice) = Replied("parse_outputs_data", count - 1)
        BY <2>8, <4>2, <4>3, Forms DEF parse_outputs_data
      <4> QED
        BY <2>1, <4>4
    <3> QED
      BY <2>3, <3>1, <3>2
  <2>10. answer.ok /\ answer.reply = count - 1
    <3> HIDE DEF count
    <3> QED
      BY <2>9, Forms
  <2>11. count = FromLE(Get(BlockMerkleState, Field(Schema, value, "block"), "count"))
    BY <2>5
  <2> HIDE DEF count
  <2>12. (count - 1) + 1 = count
    BY <2>7
  <2> QED
    BY <2>10, <2>11, <2>12
<1> QED
  BY <1>1, ParserInvariant, PTL

-----------------------------------------------------------------------------
(* The arguments of the locks *)

\* The part of a slice behind the hash of the rollup is the entity, also when
\* the slice is cut from one with a trailer.
LEMMA PartOfConcat ==
    ASSUME NEW h \in Slices, NEW s \in Slices, NEW t \in Slices
    PROVE  Range0((h \o s) \o t, Len(h), Len(h) + Len(s)) = s
<1> DEFINE a == (h \o s) \o t
<1>1. /\ h \o s \in Slices /\ Len(h \o s) = Len(h) + Len(s)
      /\ Len(h) \in Nat /\ Len(s) \in Nat
      /\ \A i \in 1..Len(s) : (h \o s)[Len(h) + i] = s[i]
  BY ConcatSlices
<1>2. /\ a \in Slices /\ Len(a) = Len(h \o s) + Len(t) /\ Len(t) \in Nat
      /\ \A i \in 1..Len(h \o s) : a[i] = (h \o s)[i]
  BY <1>1, ConcatSlices
<1> HIDE DEF a
<1> DEFINE r == Range0(a, Len(h), Len(h) + Len(s))
<1>3. Len(h) + Len(s) \in Nat /\ Len(h) <= Len(h) + Len(s) /\ Len(h) + Len(s) <= Len(a)
      /\ (Len(h) + Len(s)) - Len(h) = Len(s)
  BY <1>1, <1>2
<1>4. /\ r \in Slices /\ Len(r) = Len(s)
      /\ \A k \in 1..Len(s) : r[k] = a[Len(h) + k]
  <2>1. ASSUME NEW to \in Nat, Len(h) <= to, to <= Len(a), to - Len(h) = Len(s)
        PROVE  /\ Range0(a, Len(h), to) \in Slices /\ Len(Range0(a, Len(h), to)) = Len(s)
               /\ \A k \in 1..Len(s) : Range0(a, Len(h), to)[k] = a[Len(h) + k]
    <3>1. /\ Range0(a, Len(h), to) \in Slices /\ Len(Range0(a, Len(h), to)) = to - Len(h)
          /\ \A k \in 1..(to - Len(h)) : Range0(a, Len(h), to)[k] = a[Len(h) + k]
      BY ZenonT(60), <1>1, <1>2, <2>1, RangeElements
    <3> QED
      BY <2>1, <3>1
  <2> QED
    BY <1>3, <2>1
<1> HIDE DEF r
<1>5. \A k \in 1..Len(r) : r[k] = s[k]
  <2> TAKE k \in 1..Len(r)
  <2>1. k \in 1..Len(s) /\ Len(h) + k \in 1..Len(h \o s)
    BY <1>1, <1>4
  <2> QED
    BY <1>1, <1>2, <1>4, <2>1
<1>6. r = s
  BY <1>4, <1>5, SameElements DEF Slices
<1> QED
  BY <1>6 DEF r, a

\* The parser gets the entity that follows the hash of the rollup.
LEMMA SkipsTheHash ==
    ASSUME slice \in Slices
    PROVE  /\ SkipRollupHash(LockArgs) = slice
           /\ Len(slice) = 104 =>
                \A t \in Slices : SkipRollupHash(CutArgs(LockArgs \o t)) = slice
<1> DEFINE h == [i \in 1..32 |-> 90]
<1>1. h \in Slices /\ Len(h) = 32
  <2>1. 90 \in Octet /\ 32 \in Nat
    BY DEF Octet
  <2>2. h \in [1..32 -> Octet]
    BY <2>1
  <2> HIDE DEF h
  <2> QED
    BY <2>1, <2>2, AsSeqIs DEF Slices
<1>2. LockArgs = h \o slice
  BY DEF LockArgs
<1> HIDE DEF h
<1>3. <<>> \in Slices /\ Len(<<>>) = 0
  BY DEF Slices
<1>4. /\ LockArgs \in Slices /\ Len(LockArgs) = 32 + Len(slice) /\ Len(slice) \in Nat
  <2>1. h \o slice \in Slices /\ Len(h \o slice) = Len(h) + Len(slice) /\ Len(slice) \in Nat
    BY ZenonT(60), <1>1, ConcatSlices
  <2> QED
    BY <1>1, <1>2, <2>1
<1>5. SkipRollupHash(LockArgs) = slice
  <2>1. LockArgs \o <<>> = LockArgs
    BY <1>4, ConcatEmptySeq DEF Slices
  <2>2. Range0((h \o slice) \o <<>>, Len(h), Len(h) + Len(slice)) = slice
    BY <1>1, <1>3, PartOfConcat
  <2>3. Range0(LockArgs, 32, 32 + Len(slice)) = slice
    BY <1>1, <1>2, <2>1, <2>2
  <2> QED
    BY <1>4, <2>3 DEF SkipRollupHash
<1>6. ASSUME Len(slice) = 104, NEW t \in Slices
      PROVE  SkipRollupHash(CutArgs(LockArgs \o t)) = slice
  <2> DEFINE a == LockArgs \o t
             b == Range0(a, 0, 136)
  <2>1. a \in Slices /\ Len(a) = 136 + Len(t) /\ Len(t) \in Nat
    <3>1. a \in Slices /\ Len(a) = Len(LockArgs) + Len(t) /\ Len(t) \in Nat
      BY <1>4, ConcatSlices
    <3>2. Len(LockArgs) = 136
      BY <1>4, <1>6
    <3> QED
      BY <3>1, <3>2
  <2> HIDE DEF a
  <2>2. CutArgs(a) = b
    <3>1. CASE Len(a) < 136
      BY <2>1, <3>1
    <3>2. CASE ~(Len(a) < 136)
      BY <3>2 DEF CutArgs
    <3> QED
      BY <3>1, <3>2
  <2>3. /\ b \in Slices /\ Len(b) = 136
        /\ \A k \in 1..136 : b[k] = a[k]
    <3>1. ASSUME NEW n \in Nat, n <= Len(a)
          PROVE  /\ Range0(a, 0, n) \in Slices /\ Len(Range0(a, 0, n)) = n
                 /\ \A k \in 1..n : Range0(a, 0, n)[k] = a[k]
      <4>1. 0 \in Nat /\ 0 <= n /\ n - 0 = n /\ \A k \in 1..n : 0 + k = k
        OBVIOUS
      <4>2. ASSUME NEW from \in Nat, from <= n
            PROVE  /\ Range0(a, from, n) \in Slices /\ Len(Range0(a, from, n)) = n - from
                   /\ \A k \in 1..(n - from) : Range0(a, from, n)[k] = a[from + k]
        BY ZenonT(60), <2>1, <3>1, <4>2, RangeElements
      <4>3. /\ Range0(a, 0, n) \in Slices /\ Len(Range0(a, 0, n)) = n - 0
            /\ \A k \in 1..(n - 0) : Range0(a, 0, n)[k] = a[0 + k]
        BY <4>1, <4>2
      <4> QED
        BY <4>1, <4>3
    <3>2. 136 \in Nat /\ 136 <= Len(a)
      BY <2>1
    <3> QED
      BY <3>1, <3>2
  <2> HIDE DEF b
  <2>4. b = LockArgs
    <3>1. /\ Len(LockArgs) = 136 /\ Len(b) = Len(LockArgs)
      BY <1>4, <1>6, <2>3
    <3>2. \A k \in 1..Len(LockArgs) : a[k] = LockArgs[k]
      BY <1>4, ConcatSlices DEF a
    <3>3. \A k \in 1..Len(b) : b[k] = LockArgs[k]
      BY <2>3, <3>1, <3>2
    <3> QED
      BY ZenonT(60), <1>4, <2>3, <3>1, <3>3, SameElements DEF Slices
  <2> QED
    BY <1>5, <2>2, <2>4 DEF a
<1> QED
  BY <1>5, <1>6

\* A deposit is for the lock and of the owner that its arguments name.
LEMMA DepositsAre == ASSUME IInv PROVE DepositNamesItsParties
<1> DEFINE t == DepositLockArgs
           v == IF fate = "written" THEN value ELSE Read(t, slice)
<1> SUFFICES ASSUME answer.call = "parse_deposition_lock_args"
             PROVE  IF answer.ok
                    THEN /\ slice = Build(t, v)
                         /\ answer.reply[1] = blake2b_256(Field(t, v, "layer2_lock"))
                         /\ answer.reply[2] = Field(t, v, "owner_lock_hash")
                    ELSE fate # "written"
  BY DEF DepositNamesItsParties
<1>1. /\ type = "DepositLockArgs" /\ answer = parse_deposition_lock_args(LockArgs)
      /\ slice \in Slices /\ Fits(slice)
  BY AnswersAre DEF IInv, SliceOK
<1>2. Schema = t /\ SkipRollupHash(LockArgs) = slice
  BY <1>1, SchemasAre, SkipsTheHash
<1>3. t.kind = "table" /\ Exact(t)
  <2>1. t.kind = "table"
    BY DEF DepositLockArgs, Table
  <2> QED
    BY <2>1, GodwokenTypesAreSound DEF Sound
<1>4. v = Read(t, slice)
  <2>1. CASE fate = "written"
    BY <1>2, <2>1, WrittenArrives
  <2>2. CASE fate # "written"
    BY <1>2, <2>2
  <2> QED
    BY <2>1, <2>2
<1>5. CASE Verify(t, slice, FALSE)
  <2> DEFINE r == <<blake2b_256(Get(t, slice, "layer2_lock")),
                    Get(t, slice, "owner_lock_hash")>>
  <2>1. answer = Replied("parse_deposition_lock_args", r)
    BY <1>1, <1>2, <1>5 DEF parse_deposition_lock_args
  <2>2. answer.ok /\ answer.reply = r
    <3> HIDE DEF r
    <3> QED
      BY <2>1, Forms
  <2>3. slice = Build(t, v)
    <3>1. Build(t, Read(t, slice)) = slice
      BY <1>1, <1>3, <1>5 DEF Exact, Verify
    <3> HIDE DEF v, t
    <3> QED
      BY <1>4, <3>1
  <2>4. /\ Get(t, slice, "layer2_lock") = Field(t, v, "layer2_lock")
        /\ Get(t, slice, "owner_lock_hash") = Field(t, v, "owner_lock_hash")
    <3> HIDE DEF v, t
    <3> QED
      BY <1>3, <1>4, GetIsField
  <2> HIDE DEF v
  <2> QED
    BY <1>2, <2>2, <2>3, <2>4
<1>6. CASE ~Verify(t, slice, FALSE)
  <2>1. answer = Raised("parse_deposition_lock_args")
    BY <1>1, <1>2, <1>6 DEF parse_deposition_lock_args
  <2>2. ~answer.ok
    BY <2>1, Forms
  <2>3. fate # "written"
    BY <1>2, <1>6, WrittenArrives DEF Verify
  <2> QED
    BY <2>2, <2>3
<1> QED
  BY <1>5, <1>6

\* A withdrawal names its account, its block and its owner.
LEMMA WithdrawalsAre == ASSUME IInv PROVE WithdrawalNamesItsParties
<1> DEFINE t == WithdrawalLockArgs
<1> SUFFICES ASSUME answer.call = "parse_withdrawal_lock_args", fate # "damaged"
             PROVE  /\ answer.ok
                    /\ answer.reply[1] = Field(t, value, "account_script_hash")
                    /\ answer.reply[2] =
                         <<Field(t, value, "withdrawal_block_hash"),
                           FromLE(Field(t, value, "withdrawal_block_number"))>>
                    /\ answer.reply[3] = Field(t, value, "owner_lock_hash")
  BY DEF WithdrawalNamesItsParties
<1>1. type = "WithdrawalLockArgs" /\ slice \in Slices
  BY AnswersAre DEF IInv, SliceOK
<1>2. PICK trailer \in Trailers :
        answer = parse_withdrawal_lock_args(CutArgs(LockArgs \o trailer))
  BY AnswersAre DEF IInv
<1>3. Schema = t
  BY <1>1, SchemasAre
<1>4. t.kind = "struct" /\ Fixed(t)
  <2>1. t.kind = "struct"
    BY DEF WithdrawalLockArgs, Struct, Sized
  <2> QED
    BY <2>1, GodwokenTypesAreSound
<1>5. slice \in t.accepted[TRUE] /\ Read(t, slice) = value
  BY <1>3, Arrives
<1>6. Verify(t, slice, FALSE) /\ Len(slice) = 104
  <2>1. slice \in t.accepted[FALSE] /\ Len(slice) = t.size
    <3> HIDE DEF t
    <3> QED
      BY <1>4, <1>5, FixedAccepts
  <2> QED
    BY <2>1, StateSizes DEF Verify
<1>7. SkipRollupHash(CutArgs(LockArgs \o trailer)) = slice
  BY <1>1, <1>6, TrailersAssumption, SkipsTheHash
<1> DEFINE r == <<Get(t, slice, "account_script_hash"),
                  <<Get(t, slice, "withdrawal_block_hash"),
                    FromLE(Get(t, slice, "withdrawal_block_number"))>>,
                  Get(t, slice, "owner_lock_hash")>>
<1>8. answer = Replied("parse_withdrawal_lock_args", r)
  BY <1>2, <1>6, <1>7 DEF parse_withdrawal_lock_args
<1>9. answer.ok /\ answer.reply = r
  <2> HIDE DEF r
  <2> QED
    BY <1>8, Forms
<1>10. \A name : Get(t, slice, name) = Field(t, value, name)
  <2> HIDE DEF t
  <2> QED
    BY <1>4, <1>5, GetIsField
<1> QED
  BY <1>3, <1>9, <1>10

-----------------------------------------------------------------------------
(* The arguments of the meta contract *)

\* What parse_meta_contract_args replies to each of the two items.
LEMMA MetaReplies ==
    ASSUME NEW s
    PROVE  LET call == "parse_meta_contract_args"
               scripts == ItemSlices(ScriptVec, Get(BatchCreateEthAccounts, RawData(s), "scripts"))
           IN  /\ ~Verify(MetaContractArgs, s, FALSE) =>
                    parse_meta_contract_args(s) = Raised(call)
               /\ Verify(MetaContractArgs, s, FALSE) /\ NumberAt(s, 0) = 0 =>
                    parse_meta_contract_args(s) = Replied(call,
                      <<ScriptReply(Get(CreateAccount, RawData(s), "script")),
                        FeeReply(Get(CreateAccount, RawData(s), "fee"))>>)
               /\ Verify(MetaContractArgs, s, FALSE) /\ NumberAt(s, 0) # 0 =>
                    parse_meta_contract_args(s) =
                      IF scripts = <<>> THEN Raised(call)
                      ELSE Replied(call,
                        <<ScriptReply(scripts[1]),
                          FeeReply(Get(BatchCreateEthAccounts, RawData(s), "fee"))>>)
<1>1. ~Verify(MetaContractArgs, s, FALSE) =>
        parse_meta_contract_args(s) = Raised("parse_meta_contract_args")
  BY DEF parse_meta_contract_args
<1>2. ASSUME Verify(MetaContractArgs, s, FALSE), NumberAt(s, 0) = 0
      PROVE  parse_meta_contract_args(s) = Replied("parse_meta_contract_args",
               <<ScriptReply(Get(CreateAccount, RawData(s), "script")),
                 FeeReply(Get(CreateAccount, RawData(s), "fee"))>>)
  BY <1>2 DEF parse_meta_contract_args
<1>3. ASSUME Verify(MetaContractArgs, s, FALSE), NumberAt(s, 0) # 0,
             NEW scripts,
             scripts = ItemSlices(ScriptVec,
                         Get(BatchCreateEthAccounts, RawData(s), "scripts"))
      PROVE  parse_meta_contract_args(s) =
               IF scripts = <<>> THEN Raised("parse_meta_contract_args")
               ELSE Replied("parse_meta_contract_args",
                 <<ScriptReply(scripts[1]),
                   FeeReply(Get(BatchCreateEthAccounts, RawData(s), "fee"))>>)
  BY <1>3 DEF parse_meta_contract_args
<1> QED
  BY <1>1, <1>2, <1>3

\* The kinds of the arguments and of what is in them.
LEMMA MetaKinds ==
    /\ MetaContractArgs.kind = "union"
    /\ MetaContractArgs.items = <<CreateAccount, BatchCreateEthAccounts>>
    /\ CreateAccount.kind = "table" /\ BatchCreateEthAccounts.kind = "table"
    /\ ScriptVec.kind = "dynvec"
    /\ Exact(MetaContractArgs) /\ Exact(CreateAccount) /\ Exact(BatchCreateEthAccounts)
<1>1. /\ MetaContractArgs.kind = "union"
      /\ MetaContractArgs.items = <<CreateAccount, BatchCreateEthAccounts>>
  BY DEF MetaContractArgs, Union
<1>2. CreateAccount.kind = "table"
  BY DEF CreateAccount, Table
<1>3. BatchCreateEthAccounts.kind = "table"
  BY DEF BatchCreateEthAccounts, Table
<1>4. ScriptVec.kind = "dynvec"
  BY DEF ScriptVec, DynVec
<1>5. Exact(MetaContractArgs) /\ Exact(CreateAccount) /\ Exact(BatchCreateEthAccounts)
  BY GodwokenTypesAreSound DEF Sound
<1> QED
  BY <1>1, <1>2, <1>3, <1>4, <1>5

\* A union that the strict reader accepts is a number and an item that the
\* reader of that number accepts.
LEMMA MetaParts ==
    ASSUME NEW s \in MetaContractArgs.accepted[FALSE], s \in Slices, Fits(s)
    PROVE  LET v == Read(MetaContractArgs, s)
               t == MetaContractArgs.items[v[1] + 1]
           IN  /\ v = <<NumberAt(s, 0), RawData(s)>>
               /\ v[1] \in 0..1
               /\ s = PackNumber(v[1]) \o Build(t, Read(t, v[2]))
<1> DEFINE m == MetaContractArgs
           v == Read(m, s)
           t == m.items[v[1] + 1]
<1>1. v = <<NumberAt(s, 0), RawData(s)>>
  BY MetaKinds DEF Read, RawData
<1>2. Build(m, v) = s /\ IsValue(m, v, FALSE)
  BY MetaKinds DEF Exact
<1>3. Len(m.items) = 2
  BY MetaKinds
<1>4. v[1] \in 0..1 /\ v[2] \in Slices /\ Verify(t, v[2], FALSE)
  <2> HIDE DEF v
  <2>1. v \in (0..(Len(m.items) - 1)) \X Slices /\ Verify(t, v[2], FALSE)
    BY <1>2, MetaKinds DEF IsValue
  <2> HIDE DEF t
  <2>2. v \in (0..1) \X Slices
    BY <1>3, <2>1
  <2> QED
    BY <2>1, <2>2
<1>5. s = PackNumber(v[1]) \o v[2]
  BY <1>2, MetaKinds DEF Build
<1>6. Exact(t)
  <2> HIDE DEF v
  <2>1. CASE v[1] = 0
    BY <2>1, MetaKinds
  <2>2. CASE v[1] = 1
    BY <2>2, MetaKinds
  <2> QED
    BY <1>4, <2>1, <2>2
<1> HIDE DEF v
<1>7. Fits(v[2])
  <2>1. PackNumber(v[1]) \in Slices /\ Len(PackNumber(v[1])) = 4
    BY <1>4, PackIs
  <2>2. Len(s) = 4 + Len(v[2]) /\ Len(v[2]) \in Nat
    <3>1. /\ Len(PackNumber(v[1]) \o v[2]) = Len(PackNumber(v[1])) + Len(v[2])
          /\ Len(v[2]) \in Nat
      BY <1>4, <2>1, ConcatSlices
    <3> QED
      BY <1>5, <2>1, <3>1
  <2>3. Unreachable \in Nat
    BY SMT DEF Unreachable
  <2> QED
    BY <2>2, <2>3 DEF Fits
<1>8. Build(t, Read(t, v[2])) = v[2]
  <2> HIDE DEF t
  <2> QED
    BY <1>4, <1>6, <1>7 DEF Exact, Verify
<1> HIDE DEF t
<1> QED
  BY <1>1, <1>4, <1>5, <1>8 DEF v, t

\* The reply has the script and the fee that the arguments name.
LEMMA MetaArgsAre == ASSUME IInv PROVE MetaArgsNameTheScript
<1> DEFINE m == MetaContractArgs
           v == IF fate = "written" THEN value ELSE Read(m, slice)
           t == m.items[v[1] + 1]
           inner == Read(t, v[2])
           scripts == IF v[1] = 0 THEN <<Field(t, inner, "script")>>
                      ELSE Read(ScriptVec, Field(t, inner, "scripts"))
<1> SUFFICES ASSUME answer.call = "parse_meta_contract_args",
                    answer.ok \/ fate = "written"
             PROVE  /\ slice = PackNumber(v[1]) \o Build(t, inner)
                    /\ answer.ok <=> scripts # <<>>
                    /\ answer.ok =>
                         /\ answer.reply[1] = ScriptReply(scripts[1])
                         /\ answer.reply[2] = FeeReply(Field(t, inner, "fee"))
  BY DEF MetaArgsNameTheScript
<1>1. /\ type = "MetaContractArgs" /\ answer = parse_meta_contract_args(slice)
      /\ slice \in Slices /\ Fits(slice)
  BY AnswersAre DEF IInv, SliceOK
<1>2. Schema = m
  BY <1>1, SchemasAre
<1>3. Verify(m, slice, FALSE)
  <2>1. CASE answer.ok
    <3> SUFFICES ASSUME ~Verify(m, slice, FALSE) PROVE FALSE
      OBVIOUS
    <3>1. answer = Raised("parse_meta_contract_args")
      BY <1>1, MetaReplies
    <3> QED
      BY <2>1, <3>1, Forms
  <2>2. CASE fate = "written"
    BY <1>2, <2>2, WrittenArrives DEF Verify
  <2> QED
    BY <2>1, <2>2
<1>4. v = Read(m, slice)
  <2>1. CASE fate = "written"
    BY <1>2, <2>1, WrittenArrives
  <2>2. CASE fate # "written"
    BY <1>2, <2>2
  <2> QED
    BY <2>1, <2>2
<1> HIDE DEF v
<1>5. /\ v = <<NumberAt(slice, 0), RawData(slice)>> /\ v[1] \in 0..1
      /\ slice = PackNumber(v[1]) \o Build(t, inner)
  <2>1. slice \in m.accepted[FALSE]
    BY <1>3 DEF Verify
  <2> QED
    BY <1>1, <1>2, <1>4, <2>1, MetaParts
<1>6. v[1] = NumberAt(slice, 0) /\ v[2] = RawData(slice)
  BY <1>5
<1>7. ASSUME NEW s, s.kind = "table", NEW name
      PROVE  Get(s, v[2], name) = Field(s, Read(s, v[2]), name)
  BY <1>7, GetIsField
<1>8. CASE v[1] = 0
  <2>1. t = CreateAccount
    BY <1>2, <1>8, MetaKinds
  <2> DEFINE r == <<ScriptReply(Get(CreateAccount, v[2], "script")),
                    FeeReply(Get(CreateAccount, v[2], "fee"))>>
  <2>2. answer = Replied("parse_meta_contract_args", r)
    BY <1>1, <1>3, <1>6, <1>8, MetaReplies
  <2>3. answer.ok /\ answer.reply = r
    <3> HIDE DEF r
    <3> QED
      BY <2>2, Forms
  <2> HIDE DEF t
  <2>4. \A name : Get(CreateAccount, v[2], name) = Field(t, inner, name)
    BY <1>7, <2>1, MetaKinds
  <2>5. scripts = <<Field(t, inner, "script")>>
    BY <1>8
  <2> HIDE DEF inner, scripts
  <2>6. scripts # <<>> /\ scripts[1] = Field(t, inner, "script")
    BY <2>5
  <2>7. /\ answer.reply[1] = ScriptReply(Get(CreateAccount, v[2], "script"))
        /\ answer.reply[2] = FeeReply(Get(CreateAccount, v[2], "fee"))
    BY <2>3
  <2> HIDE DEF r
  <2>8. /\ answer.reply[1] = ScriptReply(scripts[1])
        /\ answer.reply[2] = FeeReply(Field(t, inner, "fee"))
    BY <2>4, <2>6, <2>7
  <2> QED
    BY <1>5, <2>3, <2>6, <2>8
<1>9. CASE v[1] = 1
  <2>1. t = BatchCreateEthAccounts
    BY <1>2, <1>9, MetaKinds
  <2> DEFINE read == ItemSlices(ScriptVec, Get(BatchCreateEthAccounts, v[2], "scripts"))
             r == <<ScriptReply(read[1]), FeeReply(Get(BatchCreateEthAccounts, v[2], "fee"))>>
  <2>2. answer = IF read = <<>> THEN Raised("parse_meta_contract_args")
                 ELSE Replied("parse_meta_contract_args", r)
    <3>1. NumberAt(slice, 0) # 0
      BY <1>6, <1>9
    <3> QED
      BY <1>1, <1>3, <1>6, <3>1, MetaReplies
  <2> HIDE DEF t
  <2>3. \A name : Get(BatchCreateEthAccounts, v[2], name) = Field(t, inner, name)
    BY <1>7, <2>1, MetaKinds
  <2> HIDE DEF inner
  <2>4. scripts = read
    <3>1. scripts = Read(ScriptVec, Field(t, inner, "scripts"))
      BY <1>9
    <3>2. Field(t, inner, "scripts") = Get(BatchCreateEthAccounts, v[2], "scripts")
      BY <2>3
    <3>3. \A s : Read(ScriptVec, s) = ItemSlices(ScriptVec, s)
      BY MetaKinds DEF Read
    <3> HIDE DEF scripts
    <3> QED
      BY <3>1, <3>2, <3>3
  <2> HIDE DEF scripts, read
  <2>5. answer.ok <=> read # <<>>
    <3> HIDE DEF r
    <3>1. CASE read = <<>>
      BY <2>2, <3>1, Forms
    <3>2. CASE read # <<>>
      BY <2>2, <3>2, Forms
    <3> QED
      BY <3>1, <3>2
  <2>6. ASSUME answer.ok
        PROVE  /\ answer.reply[1] = ScriptReply(scripts[1])
               /\ answer.reply[2] = FeeReply(Field(t, inner, "fee"))
    <3>1. answer.reply = r
      <4> HIDE DEF r
      <4>1. answer = Replied("parse_meta_contract_args", r)
        BY <2>2, <2>5, <2>6
      <4> QED
        BY <4>1, Forms
    <3>2. answer.reply[1] = ScriptReply(read[1])
          /\ answer.reply[2] = FeeReply(Get(BatchCreateEthAccounts, v[2], "fee"))
      BY <3>1
    <3> QED
      BY <2>3, <2>4, <3>2
  <2> QED
    BY <1>5, <2>4, <2>5, <2>6 DEF inner
<1>10. v[1] = 0 \/ v[1] = 1
  <2> HIDE DEF t, inner, scripts
  <2>1. v[1] \in 0..1
    BY <1>5
  <2> QED
    BY <2>1
<1> HIDE DEF t, inner, scripts
<1> QED
  BY <1>8, <1>9, <1>10

\* What the functions of lib.rs reply has the fields that the explorer stores
\* under these names, whatever follows the arguments in a lock script.
THEOREM RepliesHaveTheFields == Spec => []RepliesNameTheFields
<1>1. IInv => RepliesNameTheFields
  BY DepositsAre, WithdrawalsAre, MetaArgsAre DEF RepliesNameTheFields
<1> QED
  BY <1>1, ParserInvariant, PTL
=============================================================================

-------------------------- MODULE MCMoleculeParser --------------------------
(* Instances of MoleculeParser for TLC. *)
EXTENDS MoleculeParser

CONSTANTS
    MaxItems,      \* items in the vectors of a value, fewer further inside
    DamagedUpTo    \* damaged positions: the header numbers up to this byte

AllTypes == DOMAIN packed

\* Types that the functions of lib.rs read.
ParsedTypes == {"MetaContractArgs", "ETHAddrRegArgs", "GlobalState",
    "GlobalStateV0", "DepositLockArgs", "WithdrawalLockArgs"}

MCExtras == {<<<<1>>>>, <<<<>>, <<1, 2>>>>}

\* An entity with n items in its vectors, with extra fields in all its tables.
\* The bytes depend on where they are (at), so that no two fields of a value
\* are alike; a number has two digits.
RECURSIVE Sample(_, _, _, _)
SampleParts(t, n, at, extra) ==
    CASE t.kind = "array" /\ t.size \in {4, 8} ->
            AsSeq([i \in 1..t.size |-> IF i > 2 THEN 0 ELSE 1 + ((at + i) % 100)])
      [] t.kind = "array" -> AsSeq([i \in 1..t.size |-> (at + i) % 200])
      [] t.kind \in {"struct", "table"} ->
            AsSeq([i \in DOMAIN t.fields |->
                Sample(FieldType(t.fields[i]), n, 5 * at + 7 * i, extra)])
      [] t.kind \in {"fixvec", "dynvec"} ->
            AsSeq([i \in 1..n |-> Sample(t.item, n - 1, 3 * at + 11 * i, extra)])
      [] t.kind = "opt" ->
            IF n = 0 THEN <<>> ELSE <<Sample(t.item, n - 1, at, extra)>>
      [] t.kind = "union" ->
            LET item == (n + at) % Len(t.items)
            IN  <<item, Sample(t.items[item + 1], n, at, extra)>>
Sample(t, n, at, extra) == BuildNewer(t, SampleParts(t, n, at, extra), extra)

\* Values of a schema: of a union, some of every item.
MCValuesWith(t, extra) ==
    IF t.kind = "union"
    THEN {<<i - 1, Sample(t.items[i], n, i, extra)>> :
            i \in DOMAIN t.items, n \in 0..MaxItems}
    ELSE {SampleParts(t, n, 1, extra) : n \in 0..MaxItems}

MCValues(t) == MCValuesWith(t, <<>>)
MCNewerValues(t) == MCValuesWith(t, <<<<1>>>>)

\* The first byte of one number or of two, or the length, with the number
\* that the slice begins with or without.
MCDamages(s) ==
    LET numbers == {p \in DOMAIN s : p % 4 = 1 /\ p <= DamagedUpTo}
        header  == {p \in numbers : p <= 21}
        deltas  == {1, 4, 252, 255}
        longer  == Append(s, 0)
        Plus(f, p, d) == [f EXCEPT ![p] = (@ + d) % 256]
    IN  {[s EXCEPT ![p] = b] : p \in numbers, b \in {0, 1, 4, 8}}
        \cup {Plus(s, p, d) : p \in numbers, d \in deltas}
        \cup {Plus(Plus(s, p, c), q, d) :
                p \in header, q \in header, c \in deltas, d \in deltas}
        \cup {longer}
        \cup (IF s = <<>> THEN {}
              ELSE {SubSeq(s, 1, Len(s) - 1), Plus(longer, 1, 1)})

MCTrailers == {<<>>, <<0, 0, 0, 4, 1>>}
=============================================================================

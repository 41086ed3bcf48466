------------------------------ MODULE Molecule ------------------------------
(***************************************************************************)
(* The molecule encoding, as the generated code of the parser implements   *)
(* it.  The generator writes one body of code per type: an entity with an  *)
(* accessor per field, a reader whose verify decides which slices are      *)
(* entities, and a builder.  The bodies of one kind of type differ only in *)
(* the sizes and the fields, which here are the parameter t, a schema; the *)
(* schemas are in BlockchainTypes and GodwokenTypes.                       *)
(*                                                                         *)
(* A slice is a sequence of bytes.  A value is what a builder holds and    *)
(* what the accessors of an entity return: bytes for an array, the slices  *)
(* of the parts for a struct, a table or a vector, no slice or one for an  *)
(* option, and an item number with the slice of the item for a union.      *)
(* Each is one level deep, as in the code: a part is an entity of its own  *)
(* type.  Only verify goes further down, from reader to reader; a schema   *)
(* therefore carries the slices that its reader accepts.                   *)
(***************************************************************************)
EXTENDS Integers, Sequences, SequencesExt

Octet  == 0..255
Slices == Seq(Octet)

NumberSize == 4

\* More than the length of any slice: a number the slice does not reach.
Unreachable == 2147483647

\* molecule::unpack_number of the slice from the 0-based position p on.
NumberAt(bytes, p) ==
    IF bytes[p + 4] >= 128 THEN Unreachable
    ELSE bytes[p + 1] + 256 * bytes[p + 2] + 65536 * bytes[p + 3]
            + 16777216 * bytes[p + 4]

\* molecule::pack_number, of a number of 32 bits.
PackNumber(n) ==
    <<n % 256, (n \div 256) % 256, (n \div 65536) % 256, (n \div 16777216) % 256>>

\* A function on 1..n as the sequence it is, evaluated once.
AsSeq(f) == f \o <<>>

\* slice[from..to] of Rust: 0-based, without its end.
Range0(bytes, from, to) == SubSeq(bytes, from + 1, to)

\* Where parts of these lengths end that stand one after another.
Ends(lengths) ==
    LET ends[i \in 0..Len(lengths)] ==
            IF i = 0 THEN 0 ELSE ends[i - 1] + lengths[i]
    IN  ends

Lengths(parts) == AsSeq([i \in 1..Len(parts) |-> Len(parts[i])])

\* The parts that bounds cut a slice into.
Cut(bytes, bounds) ==
    AsSeq([i \in 1..(Len(bounds) - 1) |-> Range0(bytes, bounds[i], bounds[i + 1])])

-----------------------------------------------------------------------------
(* Reader: what verify checks before it goes on to the parts *)

\* verify(slice, compatible) of the reader of type t.
Verify(t, bytes, compatible) == bytes \in t.accepted[compatible]

\* A field is a pair of a name and a schema.
FieldType(field) == field[2]

\* The number of fields or items that the header has room for.
FieldCount(bytes) ==
    IF Len(bytes) = NumberSize THEN 0
    ELSE NumberAt(bytes, NumberSize) \div NumberSize - 1

\* The offsets of a table or a dynamic vector, closed by its total size.
Offsets(bytes) ==
    Append(AsSeq([i \in 1..FieldCount(bytes) |-> NumberAt(bytes, NumberSize * i)]),
           Len(bytes))

\* Mutant: a slice may be longer than it says.
TotalSizeOKAtLeast(bytes) ==
    /\ Len(bytes) >= NumberSize
    /\ NumberAt(bytes, 0) <= Len(bytes)

\* The slice begins with its own length.
TotalSizeOK(bytes) ==
    /\ Len(bytes) >= NumberSize
    /\ NumberAt(bytes, 0) = Len(bytes)

Ascending(numbers) ==
    \A i \in 1..(Len(numbers) - 1) : numbers[i] <= numbers[i + 1]

\* The first offset is where the header ends: a multiple of 4 within the slice
\* that leaves room for one offset.
HeaderEndOK(bytes, end) ==
    /\ end % NumberSize = 0
    /\ end >= 2 * NumberSize
    /\ Len(bytes) >= end

\* The offsets never go back.
OffsetsOK(bytes) ==
    /\ Len(bytes) >= 2 * NumberSize
    /\ HeaderEndOK(bytes, NumberAt(bytes, NumberSize))
    /\ Ascending(Offsets(bytes))

\* Mutant: more fields pass every reader.
FieldCountOKLoose(count, known, compatible) == count >= known

\* A table may have more fields than the schema only for a compatible reader.
FieldCountOK(count, known, compatible) ==
    /\ count >= known
    /\ compatible \/ count = known

\* A fixed vector is its item count and that many items.
FixVecOK(bytes, size) ==
    /\ Len(bytes) >= NumberSize
    /\ (Len(bytes) - NumberSize) % size = 0
    /\ NumberAt(bytes, 0) = (Len(bytes) - NumberSize) \div size

\* The parts of a table or a dynamic vector, by the offsets in its header.
Parts(bytes) == Cut(bytes, Offsets(bytes))

\* The table without fields is generated differently: a longer one is accepted
\* unread by a compatible reader.
TableOK(bytes, fields, compatible) ==
    /\ TotalSizeOK(bytes)
    /\ IF Len(fields) = 0 THEN Len(bytes) = NumberSize \/ compatible
       ELSE /\ OffsetsOK(bytes)
            /\ FieldCountOK(FieldCount(bytes), Len(fields), compatible)
            /\ LET parts == Parts(bytes)
               IN  \A i \in 1..Len(fields) :
                     Verify(FieldType(fields[i]), parts[i], compatible)

DynVecOK(bytes, item, compatible) ==
    /\ TotalSizeOK(bytes)
    /\ Len(bytes) = NumberSize \/ OffsetsOK(bytes)
    /\ LET parts == Parts(bytes)
       IN  \A i \in 1..Len(parts) : Verify(item, parts[i], compatible)

UnionOK(bytes, items, compatible) ==
    /\ Len(bytes) >= NumberSize
    /\ NumberAt(bytes, 0) < Len(items)
    /\ Verify(items[NumberAt(bytes, 0) + 1],
              Range0(bytes, NumberSize, Len(bytes)), compatible)

-----------------------------------------------------------------------------
(* Builder: build() with the parts that were set *)

\* The total size and the offset of each of n parts that end at ends, after
\* a header of that many bytes.
WriteHeader(size, ends, n) ==
    PackNumber(size + ends[n])
        \o FlattenSeq(AsSeq([i \in 1..n |-> PackNumber(size + ends[i - 1])]))

\* The header and the parts.
WriteParts(parts) ==
    WriteHeader(NumberSize * (Len(parts) + 1), Ends(Lengths(parts)), Len(parts))
        \o FlattenSeq(parts)

\* build() of the builder of type t that holds value.
Build(t, held) ==
    CASE t.kind = "array" -> held
      [] t.kind \in {"struct", "opt"} -> FlattenSeq(held)
      [] t.kind \in {"table", "dynvec"} -> WriteParts(held)
      [] t.kind = "fixvec" -> PackNumber(Len(held)) \o FlattenSeq(held)
      [] t.kind = "union" -> PackNumber(held[1]) \o held[2]

\* Default of an entity of type t: bytes that the code spells out.
Default(t) == t.default

Defaults(fields) ==
    AsSeq([i \in 1..Len(fields) |-> Default(FieldType(fields[i]))])

\* What the untouched builder of type t holds.
Initial(t) ==
    CASE t.kind = "array" -> Default(t)
      [] t.kind \in {"struct", "table"} -> Defaults(t.fields)
      [] t.kind \in {"opt", "fixvec", "dynvec"} -> <<>>
      [] t.kind = "union" -> <<0, Default(t.items[1])>>

-----------------------------------------------------------------------------
(* The kinds of types.  accepted has what verify accepts, from a strict and *)
(* from a compatible caller.                                                *)

Bytewise(size) == {s \in Slices : Len(s) = size}

Array(n) ==
    [kind |-> "array", size |-> n,
     accepted |-> [c \in BOOLEAN |-> Bytewise(n)],
     default |-> AsSeq([i \in 1..n |-> 0])]

\* Where the fields of a struct end.  A field has a fixed size.
FieldEnds(fields) ==
    Ends(AsSeq([i \in 1..Len(fields) |-> FieldType(fields[i]).size]))

Sized(fields, size) ==
    [kind |-> "struct", fields |-> fields, size |-> size,
     accepted |-> [c \in BOOLEAN |-> Bytewise(size)],
     default |-> FlattenSeq(Defaults(fields))]

Struct(fields) == Sized(fields, FieldEnds(fields)[Len(fields)])

Table(fields) ==
    [kind |-> "table", fields |-> fields,
     accepted |-> [c \in BOOLEAN |-> {s \in Slices : TableOK(s, fields, c)}],
     default |-> WriteParts(Defaults(fields))]

FixVec(item) ==
    [kind |-> "fixvec", item |-> item,
     accepted |-> [c \in BOOLEAN |-> {s \in Slices : FixVecOK(s, item.size)}],
     default |-> PackNumber(0)]

DynVec(item) ==
    [kind |-> "dynvec", item |-> item,
     accepted |-> [c \in BOOLEAN |-> {s \in Slices : DynVecOK(s, item, c)}],
     default |-> PackNumber(NumberSize)]

Opt(item) ==
    [kind |-> "opt", item |-> item,
     accepted |-> [c \in BOOLEAN |-> {s \in Slices : s = <<>> \/ Verify(item, s, c)}],
     default |-> <<>>]

Union(items) ==
    [kind |-> "union", items |-> items,
     accepted |-> [c \in BOOLEAN |-> {s \in Slices : UnionOK(s, items, c)}],
     default |-> PackNumber(0) \o Default(items[1])]

\* molecule::prelude::Byte
Byte == Array(1)

-----------------------------------------------------------------------------
(* Entity: the accessors, get and to_enum on a verified slice *)

\* Where the fields of a struct begin, and where the last one ends.
StructBounds(t) ==
    LET ends == FieldEnds(t.fields)
    IN  AsSeq([i \in 1..(Len(t.fields) + 1) |-> ends[i - 1]])

\* Mutant: the item count is taken for the first bytes of the items.
FixItemsUnskipped(item, bytes) ==
    AsSeq([i \in 1..NumberAt(bytes, 0) |->
        Range0(bytes, item.size * (i - 1), item.size * i)])

\* The items of a fixed vector: they have one size.
FixItems(item, bytes) ==
    AsSeq([i \in 1..NumberAt(bytes, 0) |->
        Range0(bytes, NumberSize + item.size * (i - 1), NumberSize + item.size * i)])

\* The slice of each field or item.
ItemSlices(t, bytes) ==
    CASE t.kind = "struct" -> Cut(bytes, StructBounds(t))
      [] t.kind = "table"  ->
            IF Len(t.fields) = 0 THEN <<>>
            ELSE SubSeq(Parts(bytes), 1, Len(t.fields))
      [] t.kind = "dynvec" -> Parts(bytes)
      [] t.kind = "fixvec" -> FixItems(t.item, bytes)

\* The position of the field called name.
FieldIndex(t, name) == CHOOSE i \in DOMAIN t.fields : t.fields[i][1] = name

\* The accessor of the field called name.
Get(t, bytes, name) == ItemSlices(t, bytes)[FieldIndex(t, name)]

\* raw_data of Bytes: the bytes after the count.
RawData(bytes) == Range0(bytes, NumberSize, Len(bytes))

\* What the accessors of a verified slice return, as the builder holds it.
Read(t, bytes) ==
    CASE t.kind = "array" -> bytes
      [] t.kind \in {"struct", "table", "fixvec", "dynvec"} -> ItemSlices(t, bytes)
      [] t.kind = "opt" -> IF bytes = <<>> THEN <<>> ELSE <<bytes>>
      [] t.kind = "union" ->
            <<NumberAt(bytes, 0), Range0(bytes, NumberSize, Len(bytes))>>

-----------------------------------------------------------------------------
(* What a builder may hold: its setters take entities of the types of the *)
(* parts, read strictly or not.                                           *)

PartType(t, i) ==
    IF t.kind \in {"struct", "table"} THEN FieldType(t.fields[i]) ELSE t.item

IsValue(t, held, compatible) ==
    CASE t.kind = "array" -> held \in Bytewise(t.size)
      [] t.kind = "union" ->
            /\ held \in (0..(Len(t.items) - 1)) \X Slices
            /\ Verify(t.items[held[1] + 1], held[2], compatible)
      [] OTHER ->
            /\ held \in Seq(Slices)
            /\ t.kind \in {"struct", "table"} => Len(held) = Len(t.fields)
            /\ t.kind = "opt" => Len(held) <= 1
            /\ \A i \in 1..Len(held) : Verify(PartType(t, i), held[i], compatible)

\* Lengths and offsets are numbers of 32 bits.
Fits(bytes) == Len(bytes) < Unreachable
=============================================================================

--------------------------- MODULE MoleculeParser ---------------------------
(***************************************************************************)
(* The native parser (native/molecule_parser) and the Elixir code that     *)
(* calls it.  Somebody writes an entity: the rollup, a depositor, a layer  *)
(* 2 account.  It reaches the explorer as it was written, written by a     *)
(* newer schema with more fields in its tables, or damaged.  Then the      *)
(* generated code or one of the functions of lib.rs reads it.              *)
(*                                                                         *)
(* A function of lib.rs replies or panics; rustler turns the panic into an *)
(* ErlangError in the caller.  A hexadecimal string is its bytes, and the  *)
(* hash of a slice is the slice under a label.                             *)
(***************************************************************************)
EXTENDS GodwokenTypes

CONSTANTS
    TypeNames,       \* the types written, of DOMAIN packed
    Values(_),       \* the values written of a schema
    NewerValues(_),  \* those with parts from a newer writer
    Extras,          \* the further fields of a newer table
    Damages(_),      \* what may become of a slice
    Trailers         \* what may follow the arguments in a lock script

\* The slice that a writer with a newer schema builds: tables got more fields.
BuildNewer(t, held, extra) ==
    Build(t, IF t.kind = "table" THEN held \o extra ELSE held)

\* Builders hold entities of the types of their parts, of which only a newer
\* writer knows more fields, and nothing they build has 2^31 bytes.
ASSUME WriterAssumption ==
    /\ TypeNames \subseteq DOMAIN packed
    /\ Extras \subseteq Seq(Slices) \ {<<>>}
    /\ \A name \in TypeNames :
        LET t == packed[name]
        IN  /\ \A v \in {Initial(t)} \cup Values(t) :
                 IsValue(t, v, FALSE) /\ Fits(Build(t, v))
            /\ \A v \in NewerValues(t) :
                 /\ IsValue(t, v, TRUE)
                 /\ \A extra \in Extras : Fits(BuildNewer(t, v, extra))

\* What follows the arguments in a lock script are bytes.
ASSUME TrailersAssumption == Trailers \subseteq Slices

VARIABLES
    type,      \* the name of the written type
    value,     \* the written value
    fate,      \* "written", "newer" or "damaged"
    slice,     \* the bytes that arrive
    answer     \* of the last call: [call, ok, reply]

vars == <<type, value, fate, slice, answer>>

NoAnswer == [call |-> "none", ok |-> FALSE, reply |-> <<>>]
Replied(call, reply) == [call |-> call, ok |-> TRUE, reply |-> reply]
Raised(call) == [call |-> call, ok |-> FALSE, reply |-> <<>>]

Schema == packed[type]

-----------------------------------------------------------------------------
(* What lib.rs computes *)

\* u32 and u64::from_le_bytes, up to what the third byte gives.
FromLE(bytes) ==
    IF \E i \in 4..Len(bytes) : bytes[i] # 0 THEN Unreachable
    ELSE bytes[1] + 256 * bytes[2] + 65536 * bytes[3]

blake2b_256(bytes) == <<"blake2b_256", bytes>>

\* args[32..]
SkipRollupHash(args) == Range0(args, 32, Len(args))

\* registry id and amount of a fee.
FeeReply(fee) ==
    <<FromLE(Get(Fee, fee, "registry_id")), Get(Fee, fee, "amount")>>

\* What the Elixir side gets of a script.
ScriptReply(script) ==
    <<Get(Script, script, "code_hash"), Get(Script, script, "hash_type"),
      RawData(Get(Script, script, "args"))>>

parse_meta_contract_args(arg) ==
    LET call  == "parse_meta_contract_args"
        inner == RawData(arg)
        create == NumberAt(arg, 0) = 0
        t == IF create THEN CreateAccount ELSE BatchCreateEthAccounts
        scripts == ItemSlices(ScriptVec, Get(t, inner, "scripts"))
        script == IF create THEN Get(t, inner, "script") ELSE scripts[1]
    IN  IF ~Verify(MetaContractArgs, arg, FALSE) THEN Raised(call)
        ELSE IF ~create /\ scripts = <<>> THEN Raised(call)
        ELSE Replied(call, <<ScriptReply(script), FeeReply(Get(t, inner, "fee"))>>)

\* The body that parse_global_state and parse_v0_global_state share.
StateReply(t, arg) ==
    LET block   == Get(t, arg, "block")
        account == Get(t, arg, "account")
    IN  <<FromLE(Get(t, arg, "last_finalized_block_number")),
          Get(t, arg, "reverted_block_root"),
          <<FromLE(Get(BlockMerkleState, block, "count")),
            Get(AccountMerkleState, account, "merkle_root")>>,
          <<FromLE(Get(AccountMerkleState, account, "count")),
            Get(BlockMerkleState, block, "merkle_root")>>,
          Get(t, arg, "status")>>

parse_global_state(arg) ==
    IF Verify(GlobalState, arg, FALSE)
    THEN Replied("parse_global_state", StateReply(GlobalState, arg))
    ELSE Raised("parse_global_state")

parse_v0_global_state(arg) ==
    IF Verify(GlobalStateV0, arg, FALSE)
    THEN Replied("parse_v0_global_state", StateReply(GlobalStateV0, arg))
    ELSE Raised("parse_v0_global_state")

parse_deposition_lock_args(args) ==
    LET arg == SkipRollupHash(args)
    IN  IF Verify(DepositLockArgs, arg, FALSE)
        THEN Replied("parse_deposition_lock_args",
                <<blake2b_256(Get(DepositLockArgs, arg, "layer2_lock")),
                  Get(DepositLockArgs, arg, "owner_lock_hash")>>)
        ELSE Raised("parse_deposition_lock_args")

parse_withdrawal_lock_args(args) ==
    LET arg == SkipRollupHash(args)
        Part(name) == Get(WithdrawalLockArgs, arg, name)
    IN  IF Verify(WithdrawalLockArgs, arg, FALSE)
        THEN Replied("parse_withdrawal_lock_args",
                <<Part("account_script_hash"),
                  <<Part("withdrawal_block_hash"),
                    FromLE(Part("withdrawal_block_number"))>>,
                  Part("owner_lock_hash")>>)
        ELSE Raised("parse_withdrawal_lock_args")

\* The fee of a mapping, 20 bytes, is copied to a buffer of 8, which panics.
parse_eth_address_registry_args(arg) ==
    LET call == "parse_eth_address_registry_args"
    IN  IF ~Verify(ETHAddrRegArgs, arg, FALSE) THEN Raised(call)
        ELSE IF NumberAt(arg, 0) = 0
             THEN Replied(call, <<"EthToGw", RawData(arg), 0>>)
        ELSE IF NumberAt(arg, 0) = 1
             THEN Replied(call, <<"GwToEth", RawData(arg), 0>>)
        ELSE Raised(call)

-----------------------------------------------------------------------------
(* What the Elixir callers make of it *)

\* Mutant: no rescue.
parse_outputs_data_new_only(arg) ==
    LET read == parse_global_state(arg)
    IN  IF read.ok THEN Replied("parse_outputs_data", read.reply[3][1] - 1)
        ELSE Raised("parse_outputs_data")

\* BindL1L2Worker.parse_outputs_data: the rescue tries the older layout.
parse_outputs_data(arg) ==
    LET new  == parse_global_state(arg)
        read == IF new.ok THEN new ELSE parse_v0_global_state(arg)
    IN  IF read.ok THEN Replied("parse_outputs_data", read.reply[3][1] - 1)
        ELSE Raised("parse_outputs_data")

\* GlobalStateWorker.fetch_global_state_info: what goes to the meta account.
fetch_global_state_info(arg) ==
    LET read == parse_global_state(arg)
    IN  IF read.ok
        THEN Replied("fetch_global_state_info",
                [last_finalized_block_number |-> read.reply[1],
                 reverted_block_root |-> read.reply[2],
                 block_count         |-> read.reply[3][1],
                 block_merkle_root   |-> read.reply[3][2],
                 account_count       |-> read.reply[4][1],
                 account_merkle_root |-> read.reply[4][2],
                 status |-> IF read.reply[5] = <<0>> THEN "running" ELSE "halting"])
        ELSE Raised("fetch_global_state_info")

\* Mutant: the arguments are passed as they are.
CutArgsNot(args) == args

\* SyncL1BlockWorker: the arguments of a withdrawal lock are cut to the
\* rollup hash and the fixed part, the 272 digits of String.slice(args, 0..271).
CutArgs(args) == Range0(args, 0, IF Len(args) < 136 THEN Len(args) ELSE 136)

-----------------------------------------------------------------------------
(* Actions *)

Init ==
    /\ type \in TypeNames
    /\ value = Initial(Schema)
    /\ fate = "written"
    /\ slice = Build(Schema, value)
    /\ answer = NoAnswer

\* A writer sets the parts of the builder and builds.
Write ==
    /\ fate = "written" /\ answer = NoAnswer /\ value = Initial(Schema)
    /\ value' \in Values(Schema)
    /\ slice' = Build(Schema, value')
    /\ UNCHANGED <<type, fate, answer>>

Upgrade ==
    /\ fate = "written" /\ answer = NoAnswer
    /\ fate' = "newer"
    /\ value' \in NewerValues(Schema)
    /\ \E extra \in Extras : slice' = BuildNewer(Schema, value', extra)
    /\ UNCHANGED <<type, answer>>

Damage ==
    /\ fate = "written" /\ answer = NoAnswer
    /\ fate' = "damaged"
    /\ slice' \in Damages(slice) \ {slice}
    /\ slice' \in Slices /\ Fits(slice')
    /\ UNCHANGED <<type, value, answer>>

Answer(a) ==
    /\ answer = NoAnswer
    /\ answer' = a
    /\ UNCHANGED <<type, value, fate, slice>>

\* from_slice and from_compatible_slice of the written type.
Reading(t, call, compatible) ==
    IF Verify(t, slice, compatible) THEN Replied(call, Read(t, slice))
    ELSE Raised(call)

Decode(call, compatible) == Answer(Reading(Schema, call, compatible))

from_slice == Decode("from_slice", FALSE)
from_compatible_slice == Decode("from_compatible_slice", TRUE)

\* Godwoken RPC transactions to account 0, and to the address registry.
ReadTransaction ==
    \/ type = "MetaContractArgs" /\ Answer(parse_meta_contract_args(slice))
    \/ type = "ETHAddrRegArgs" /\ Answer(parse_eth_address_registry_args(slice))

\* The data of a rollup cell.
ReadRollupCell ==
    /\ type \in {"GlobalState", "GlobalStateV0"}
    /\ \/ Answer(parse_outputs_data(slice))
       \/ Answer(fetch_global_state_info(slice))

\* The arguments of a lock begin with the hash of the rollup.
LockArgs == [i \in 1..32 |-> 90] \o slice

ReadLockArgs ==
    \/ type = "DepositLockArgs" /\ Answer(parse_deposition_lock_args(LockArgs))
    \/ /\ type = "WithdrawalLockArgs"
       /\ \E t \in Trailers : Answer(parse_withdrawal_lock_args(CutArgs(LockArgs \o t)))

Next ==
    \/ Write \/ Upgrade \/ Damage
    \/ from_slice \/ from_compatible_slice
    \/ ReadTransaction \/ ReadRollupCell \/ ReadLockArgs

Spec == Init /\ [][Next]_vars

-----------------------------------------------------------------------------
(* Properties *)

\* What a builder wrote is read back by both readers, part by part.
WrittenReadsBack ==
    fate = "written" /\ answer.call \in {"from_slice", "from_compatible_slice"}
        => answer.ok /\ answer.reply = value

\* The slice is what a builder of type t writes that may hold v.
WrittenFor(t, v) == slice = Build(t, v) /\ IsValue(t, v, FALSE)

\* verify is exact: a slice that from_slice accepts is the one slice that the
\* builder writes for what the accessors return, and those are entities of the
\* types of their fields.  No gap, overlap or rest that the accessors would
\* skip gets past the checks of the offsets.
AcceptedIsCanonical ==
    answer.call = "from_slice" /\ answer.ok
        => WrittenFor(Schema, answer.reply)

\* Evolution: a compatible reader gets every field it knows from a newer
\* writer, and a strict one refuses as soon as anything was added.
NewerIsCompatible ==
    fate = "newer" =>
        /\ answer.call = "from_compatible_slice"
              => answer.ok /\ answer.reply = value
        /\ answer.call = "from_slice" /\ answer.ok
              => WrittenFor(Schema, value)

\* The part of a value that the field called name has.
Field(t, v, name) == v[FieldIndex(t, name)]

\* Whatever arrives, parse_outputs_data returns the number of the last
\* submitted block of the state that was written, by either version of the
\* rollup, or raises: it never takes one layout for the other.
BindReadsTheCount ==
    answer.call = "parse_outputs_data" /\ fate # "damaged"
        => /\ answer.ok
           /\ answer.reply + 1 =
                FromLE(Get(BlockMerkleState, Field(Schema, value, "block"), "count"))

\* A deposit is for the layer 2 lock and of the owner that its arguments name,
\* and the arguments are exactly one entity, with nothing after it.
DepositNamesItsParties ==
    answer.call = "parse_deposition_lock_args" =>
        IF answer.ok
        THEN LET v == IF fate = "written" THEN value ELSE Read(DepositLockArgs, slice)
             IN  /\ slice = Build(DepositLockArgs, v)
                 /\ answer.reply[1] = blake2b_256(Field(DepositLockArgs, v, "layer2_lock"))
                 /\ answer.reply[2] = Field(DepositLockArgs, v, "owner_lock_hash")
        ELSE fate # "written"

\* A withdrawal names its account, its block and its owner, whether the lock
\* of the owner follows in the arguments or not.
WithdrawalNamesItsParties ==
    answer.call = "parse_withdrawal_lock_args" /\ fate # "damaged" =>
        /\ answer.ok
        /\ answer.reply[1] = Field(WithdrawalLockArgs, value, "account_script_hash")
        /\ answer.reply[2] = <<Field(WithdrawalLockArgs, value, "withdrawal_block_hash"),
                               FromLE(Field(WithdrawalLockArgs, value, "withdrawal_block_number"))>>
        /\ answer.reply[3] = Field(WithdrawalLockArgs, value, "owner_lock_hash")

\* Of the arguments of the meta contract the reply has the script created,
\* the first one of a batch, and the fee, as their builders held them; only a
\* batch of none raises.
MetaArgsNameTheScript ==
    answer.call = "parse_meta_contract_args" /\ (answer.ok \/ fate = "written") =>
        LET v == IF fate = "written" THEN value ELSE Read(MetaContractArgs, slice)
            t == MetaContractArgs.items[v[1] + 1]
            inner == Read(t, v[2])
            scripts == IF v[1] = 0 THEN <<Field(t, inner, "script")>>
                       ELSE Read(ScriptVec, Field(t, inner, "scripts"))
        IN  /\ slice = PackNumber(v[1]) \o Build(t, inner)
            /\ answer.ok <=> scripts # <<>>
            /\ answer.ok =>
                 /\ answer.reply[1] = ScriptReply(scripts[1])
                 /\ answer.reply[2] = FeeReply(Field(t, inner, "fee"))

\* The functions of lib.rs reply with the fields that the explorer stores under
\* these names, whatever follows the arguments in a lock script.
RepliesNameTheFields ==
    /\ DepositNamesItsParties
    /\ WithdrawalNamesItsParties
    /\ MetaArgsNameTheScript

\* The merkle roots that the GraphQL documentation shows for the meta account
\* belong to the accounts and to the blocks.
RootsInPlace ==
    answer.call = "fetch_global_state_info" /\ answer.ok /\ fate = "written" =>
        answer.reply.account_merkle_root =
            Get(AccountMerkleState, Field(Schema, value, "account"), "merkle_root")
=============================================================================

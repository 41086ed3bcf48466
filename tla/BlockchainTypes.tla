-------------------------- MODULE BlockchainTypes ---------------------------
(***************************************************************************)
(* The types of the layer 1 (CKB) chain that the parser has code for, in   *)
(* generated/blockchain.rs: the schema that each body of generated code    *)
(* implements, by the kinds of Molecule.                                   *)
(***************************************************************************)
EXTENDS Molecule

Uint16 == Array(2)
Uint32 == Array(4)
Uint64 == Array(8)
Uint128 == Array(16)
Byte32 == Array(32)
Uint256 == Array(32)
Bytes == FixVec(Byte)
BytesOpt == Opt(Bytes)
BytesVec == DynVec(Bytes)
Byte32Vec == FixVec(Byte32)
ProposalShortId == Array(10)
ProposalShortIdVec == FixVec(ProposalShortId)
Script == Table(<<
    <<"code_hash", Byte32>>, <<"hash_type", Byte>>, <<"args", Bytes>>>>)
ScriptOpt == Opt(Script)
OutPoint == Struct(<<<<"tx_hash", Byte32>>, <<"index", Uint32>>>>)
CellInput == Struct(<<<<"since", Uint64>>, <<"previous_output", OutPoint>>>>)
CellInputVec == FixVec(CellInput)
CellOutput == Table(<<
    <<"capacity", Uint64>>, <<"lock", Script>>, <<"type_", ScriptOpt>>>>)
CellOutputVec == DynVec(CellOutput)
CellDep == Struct(<<<<"out_point", OutPoint>>, <<"dep_type", Byte>>>>)
CellDepVec == FixVec(CellDep)
RawTransaction == Table(<<
    <<"version", Uint32>>, <<"cell_deps", CellDepVec>>,
    <<"header_deps", Byte32Vec>>, <<"inputs", CellInputVec>>,
    <<"outputs", CellOutputVec>>, <<"outputs_data", BytesVec>>>>)
Transaction == Table(<<
    <<"raw", RawTransaction>>, <<"witnesses", BytesVec>>>>)
TransactionVec == DynVec(Transaction)
RawHeader == Struct(<<
    <<"version", Uint32>>, <<"compact_target", Uint32>>,
    <<"timestamp", Uint64>>, <<"number", Uint64>>, <<"epoch", Uint64>>,
    <<"parent_hash", Byte32>>, <<"transactions_root", Byte32>>,
    <<"proposals_hash", Byte32>>, <<"extra_hash", Byte32>>,
    <<"dao", Byte32>>>>)
Header == Struct(<<<<"raw", RawHeader>>, <<"nonce", Uint128>>>>)
UncleBlock == Table(<<
    <<"header", Header>>, <<"proposals", ProposalShortIdVec>>>>)
UncleBlockVec == DynVec(UncleBlock)
Block == Table(<<
    <<"header", Header>>, <<"uncles", UncleBlockVec>>,
    <<"transactions", TransactionVec>>,
    <<"proposals", ProposalShortIdVec>>>>)
BlockV1 == Table(<<
    <<"header", Header>>, <<"uncles", UncleBlockVec>>,
    <<"transactions", TransactionVec>>, <<"proposals", ProposalShortIdVec>>,
    <<"extension", Bytes>>>>)
CellbaseWitness == Table(<<<<"lock", Script>>, <<"message", Bytes>>>>)
WitnessArgs == Table(<<
    <<"lock", BytesOpt>>, <<"input_type", BytesOpt>>,
    <<"output_type", BytesOpt>>>>)
=============================================================================

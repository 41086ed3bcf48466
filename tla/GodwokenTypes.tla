--------------------------- MODULE GodwokenTypes ----------------------------
(***************************************************************************)
(* The types of the Godwoken rollup that the parser has code for, in       *)
(* generated/godwoken.rs, and the names that generated/mod.rs exports.     *)
(***************************************************************************)
EXTENDS BlockchainTypes

Uint32Vec == FixVec(Uint32)
BlockMerkleState == Struct(<<
    <<"merkle_root", Byte32>>, <<"count", Uint64>>>>)
AccountMerkleState == Struct(<<
    <<"merkle_root", Byte32>>, <<"count", Uint32>>>>)
GlobalStateV0 == Struct(<<
    <<"rollup_config_hash", Byte32>>, <<"account", AccountMerkleState>>,
    <<"block", BlockMerkleState>>, <<"reverted_block_root", Byte32>>,
    <<"tip_block_hash", Byte32>>, <<"last_finalized_block_number", Uint64>>,
    <<"status", Byte>>>>)
GlobalState == Struct(<<
    <<"rollup_config_hash", Byte32>>, <<"account", AccountMerkleState>>,
    <<"block", BlockMerkleState>>, <<"reverted_block_root", Byte32>>,
    <<"tip_block_hash", Byte32>>, <<"tip_block_timestamp", Uint64>>,
    <<"last_finalized_block_number", Uint64>>, <<"status", Byte>>,
    <<"version", Byte>>>>)
AllowedTypeHash == Struct(<<<<"type_", Byte>>, <<"hash", Byte32>>>>)
AllowedTypeHashVec == FixVec(AllowedTypeHash)
RollupConfig == Table(<<
    <<"l1_sudt_script_type_hash", Byte32>>,
    <<"custodian_script_type_hash", Byte32>>,
    <<"deposit_script_type_hash", Byte32>>,
    <<"withdrawal_script_type_hash", Byte32>>,
    <<"challenge_script_type_hash", Byte32>>,
    <<"stake_script_type_hash", Byte32>>,
    <<"l2_sudt_validator_script_type_hash", Byte32>>,
    <<"burn_lock_hash", Byte32>>, <<"required_staking_capacity", Uint64>>,
    <<"challenge_maturity_blocks", Uint64>>, <<"finality_blocks", Uint64>>,
    <<"reward_burn_rate", Byte>>, <<"chain_id", Uint64>>,
    <<"allowed_eoa_type_hashes", AllowedTypeHashVec>>,
    <<"allowed_contract_type_hashes", AllowedTypeHashVec>>>>)
RawL2Transaction == Table(<<
    <<"chain_id", Uint64>>, <<"from_id", Uint32>>, <<"to_id", Uint32>>,
    <<"nonce", Uint32>>, <<"args", Bytes>>>>)
L2Transaction == Table(<<
    <<"raw", RawL2Transaction>>, <<"signature", Bytes>>>>)
L2TransactionVec == DynVec(L2Transaction)
SubmitTransactions == Struct(<<
    <<"tx_witness_root", Byte32>>, <<"tx_count", Uint32>>,
    <<"prev_state_checkpoint", Byte32>>>>)
SubmitWithdrawals == Struct(<<
    <<"withdrawal_witness_root", Byte32>>, <<"withdrawal_count", Uint32>>>>)
RawL2Block == Table(<<
    <<"number", Uint64>>, <<"block_producer", Bytes>>,
    <<"parent_block_hash", Byte32>>,
    <<"stake_cell_owner_lock_hash", Byte32>>, <<"timestamp", Uint64>>,
    <<"prev_account", AccountMerkleState>>,
    <<"post_account", AccountMerkleState>>,
    <<"state_checkpoint_list", Byte32Vec>>,
    <<"submit_withdrawals", SubmitWithdrawals>>,
    <<"submit_transactions", SubmitTransactions>>>>)
RawL2BlockVec == DynVec(RawL2Block)
DepositRequest == Table(<<
    <<"capacity", Uint64>>, <<"amount", Uint128>>,
    <<"sudt_script_hash", Byte32>>, <<"script", Script>>,
    <<"registry_id", Uint32>>>>)
DepositRequestVec == DynVec(DepositRequest)
RawWithdrawalRequest == Struct(<<
    <<"nonce", Uint32>>, <<"chain_id", Uint64>>, <<"capacity", Uint64>>,
    <<"amount", Uint128>>, <<"sudt_script_hash", Byte32>>,
    <<"account_script_hash", Byte32>>, <<"registry_id", Uint32>>,
    <<"owner_lock_hash", Byte32>>, <<"fee", Uint128>>>>)
WithdrawalRequest == Table(<<
    <<"raw", RawWithdrawalRequest>>, <<"signature", Bytes>>>>)
WithdrawalRequestVec == DynVec(WithdrawalRequest)
KVPair == Struct(<<<<"k", Byte32>>, <<"v", Byte32>>>>)
KVPairVec == FixVec(KVPair)
L2Block == Table(<<
    <<"raw", RawL2Block>>, <<"kv_state", KVPairVec>>,
    <<"kv_state_proof", Bytes>>, <<"transactions", L2TransactionVec>>,
    <<"block_proof", Bytes>>, <<"withdrawals", WithdrawalRequestVec>>>>)
BlockInfo == Table(<<
    <<"block_producer", Bytes>>, <<"number", Uint64>>,
    <<"timestamp", Uint64>>>>)
DepositLockArgs == Table(<<
    <<"owner_lock_hash", Byte32>>, <<"layer2_lock", Script>>,
    <<"cancel_timeout", Uint64>>, <<"registry_id", Uint32>>>>)
CustodianLockArgs == Table(<<
    <<"deposit_block_hash", Byte32>>, <<"deposit_block_number", Uint64>>,
    <<"deposit_lock_args", DepositLockArgs>>>>)
UnlockCustodianViaRevertWitness == Struct(<<
    <<"deposit_lock_hash", Byte32>>>>)
WithdrawalLockArgs == Struct(<<
    <<"withdrawal_block_hash", Byte32>>,
    <<"withdrawal_block_number", Uint64>>, <<"account_script_hash", Byte32>>,
    <<"owner_lock_hash", Byte32>>>>)
UnlockWithdrawalViaFinalize == Table(<<>>)
UnlockWithdrawalViaRevert == Struct(<<<<"custodian_lock_hash", Byte32>>>>)
UnlockWithdrawalWitness == Union(<<
    UnlockWithdrawalViaFinalize, UnlockWithdrawalViaRevert>>)
StakeLockArgs == Struct(<<
    <<"owner_lock_hash", Byte32>>, <<"stake_block_number", Uint64>>>>)
Fee == Struct(<<<<"registry_id", Uint32>>, <<"amount", Uint128>>>>)
CreateAccount == Table(<<<<"script", Script>>, <<"fee", Fee>>>>)
SUDTQuery == Table(<<<<"address", Bytes>>>>)
SUDTTransfer == Table(<<
    <<"to_address", Bytes>>, <<"amount", Uint256>>, <<"fee", Fee>>>>)
SUDTArgs == Union(<<SUDTQuery, SUDTTransfer>>)
ChallengeTarget == Struct(<<
    <<"block_hash", Byte32>>, <<"target_index", Uint32>>,
    <<"target_type", Byte>>>>)
ChallengeLockArgs == Table(<<
    <<"target", ChallengeTarget>>, <<"rewards_receiver_lock", Script>>>>)
ChallengeWitness == Table(<<
    <<"raw_l2block", RawL2Block>>, <<"block_proof", Bytes>>>>)
ScriptVec == DynVec(Script)
BatchCreateEthAccounts == Table(<<<<"scripts", ScriptVec>>, <<"fee", Fee>>>>)
MetaContractArgs == Union(<<CreateAccount, BatchCreateEthAccounts>>)
BlockHashEntry == Struct(<<<<"number", Uint64>>, <<"hash", Byte32>>>>)
BlockHashEntryVec == FixVec(BlockHashEntry)
CKBMerkleProof == Table(<<
    <<"indices", Uint32Vec>>, <<"lemmas", Byte32Vec>>>>)
CCTransactionWitness == Table(<<
    <<"l2tx", L2Transaction>>, <<"raw_l2block", RawL2Block>>,
    <<"tx_proof", CKBMerkleProof>>, <<"kv_state_proof", Bytes>>,
    <<"block_hashes_proof", Bytes>>, <<"account_count", Uint32>>,
    <<"kv_state", KVPairVec>>, <<"load_data", BytesVec>>,
    <<"scripts", ScriptVec>>, <<"return_data_hash", Byte32>>,
    <<"block_hashes", BlockHashEntryVec>>>>)
CCTransactionSignatureWitness == Table(<<
    <<"raw_l2block", RawL2Block>>, <<"l2tx", L2Transaction>>,
    <<"tx_proof", CKBMerkleProof>>, <<"kv_state", KVPairVec>>,
    <<"kv_state_proof", Bytes>>, <<"account_count", Uint32>>,
    <<"sender", Script>>, <<"receiver", Script>>>>)
CCWithdrawalWitness == Table(<<
    <<"raw_l2block", RawL2Block>>, <<"withdrawal", WithdrawalRequest>>,
    <<"sender", Script>>, <<"owner_lock", Script>>,
    <<"withdrawal_proof", CKBMerkleProof>>, <<"kv_state_proof", Bytes>>,
    <<"kv_state", KVPairVec>>, <<"account_count", Uint32>>>>)
RollupSubmitBlock == Table(<<
    <<"block", L2Block>>, <<"reverted_block_hashes", Byte32Vec>>,
    <<"reverted_block_proof", Bytes>>>>)
RollupEnterChallenge == Table(<<<<"witness", ChallengeWitness>>>>)
RollupCancelChallenge == Table(<<>>)
RollupRevert == Table(<<
    <<"reverted_blocks", RawL2BlockVec>>, <<"block_proof", Bytes>>,
    <<"reverted_block_proof", Bytes>>, <<"new_tip_block", RawL2Block>>>>)
RollupAction == Union(<<
    RollupSubmitBlock, RollupEnterChallenge, RollupCancelChallenge,
    RollupRevert>>)
Byte20 == Array(20)
EthToGw == Struct(<<<<"eth_address", Byte20>>>>)
GwToEth == Struct(<<<<"gw_script_hash", Byte32>>>>)
SetMapping == Struct(<<<<"gw_script_hash", Byte32>>, <<"fee", Fee>>>>)
BatchSetMapping == Table(<<
    <<"gw_script_hashes", Byte32Vec>>, <<"fee", Fee>>>>)
ETHAddrRegArgs == Union(<<EthToGw, GwToEth, SetMapping, BatchSetMapping>>)

\* generated::packed: the types by name.
packed == [
    Uint16 |-> Uint16, Uint32 |-> Uint32, Uint64 |-> Uint64,
    Uint128 |-> Uint128, Byte32 |-> Byte32, Uint256 |-> Uint256,
    Bytes |-> Bytes, BytesOpt |-> BytesOpt, BytesVec |-> BytesVec,
    Byte32Vec |-> Byte32Vec, ScriptOpt |-> ScriptOpt,
    ProposalShortId |-> ProposalShortId, UncleBlockVec |-> UncleBlockVec,
    TransactionVec |-> TransactionVec,
    ProposalShortIdVec |-> ProposalShortIdVec, CellDepVec |-> CellDepVec,
    CellInputVec |-> CellInputVec, CellOutputVec |-> CellOutputVec,
    Script |-> Script, OutPoint |-> OutPoint, CellInput |-> CellInput,
    CellOutput |-> CellOutput, CellDep |-> CellDep,
    RawTransaction |-> RawTransaction, Transaction |-> Transaction,
    RawHeader |-> RawHeader, Header |-> Header, UncleBlock |-> UncleBlock,
    Block |-> Block, BlockV1 |-> BlockV1,
    CellbaseWitness |-> CellbaseWitness, WitnessArgs |-> WitnessArgs,
    Uint32Vec |-> Uint32Vec, BlockMerkleState |-> BlockMerkleState,
    AccountMerkleState |-> AccountMerkleState,
    GlobalStateV0 |-> GlobalStateV0, GlobalState |-> GlobalState,
    AllowedTypeHash |-> AllowedTypeHash,
    AllowedTypeHashVec |-> AllowedTypeHashVec, RollupConfig |-> RollupConfig,
    RawL2Transaction |-> RawL2Transaction, L2Transaction |-> L2Transaction,
    L2TransactionVec |-> L2TransactionVec,
    SubmitTransactions |-> SubmitTransactions,
    SubmitWithdrawals |-> SubmitWithdrawals, RawL2Block |-> RawL2Block,
    RawL2BlockVec |-> RawL2BlockVec, L2Block |-> L2Block,
    DepositRequest |-> DepositRequest,
    DepositRequestVec |-> DepositRequestVec,
    RawWithdrawalRequest |-> RawWithdrawalRequest,
    WithdrawalRequestVec |-> WithdrawalRequestVec,
    WithdrawalRequest |-> WithdrawalRequest, KVPair |-> KVPair,
    KVPairVec |-> KVPairVec, BlockInfo |-> BlockInfo,
    DepositLockArgs |-> DepositLockArgs,
    CustodianLockArgs |-> CustodianLockArgs,
    UnlockCustodianViaRevertWitness |-> UnlockCustodianViaRevertWitness,
    WithdrawalLockArgs |-> WithdrawalLockArgs,
    UnlockWithdrawalWitness |-> UnlockWithdrawalWitness,
    UnlockWithdrawalViaFinalize |-> UnlockWithdrawalViaFinalize,
    UnlockWithdrawalViaRevert |-> UnlockWithdrawalViaRevert,
    StakeLockArgs |-> StakeLockArgs, MetaContractArgs |-> MetaContractArgs,
    Fee |-> Fee, CreateAccount |-> CreateAccount,
    BatchCreateEthAccounts |-> BatchCreateEthAccounts, SUDTArgs |-> SUDTArgs,
    SUDTQuery |-> SUDTQuery, SUDTTransfer |-> SUDTTransfer,
    ChallengeTarget |-> ChallengeTarget,
    ChallengeLockArgs |-> ChallengeLockArgs,
    ChallengeWitness |-> ChallengeWitness, ScriptVec |-> ScriptVec,
    BlockHashEntry |-> BlockHashEntry,
    BlockHashEntryVec |-> BlockHashEntryVec,
    CKBMerkleProof |-> CKBMerkleProof,
    CCTransactionWitness |-> CCTransactionWitness,
    CCTransactionSignatureWitness |-> CCTransactionSignatureWitness,
    CCWithdrawalWitness |-> CCWithdrawalWitness,
    RollupSubmitBlock |-> RollupSubmitBlock,
    RollupEnterChallenge |-> RollupEnterChallenge,
    RollupCancelChallenge |-> RollupCancelChallenge,
    RollupRevert |-> RollupRevert, RollupAction |-> RollupAction,
    Byte20 |-> Byte20, ETHAddrRegArgs |-> ETHAddrRegArgs,
    EthToGw |-> EthToGw, GwToEth |-> GwToEth, SetMapping |-> SetMapping,
    BatchSetMapping |-> BatchSetMapping]
=============================================================================

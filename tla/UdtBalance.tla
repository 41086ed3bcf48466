----------------------------- MODULE UdtBalance -----------------------------
(***************************************************************************)
(* Token balances.  SyncWorker leaves a row for each address, token and    *)
(* block of a transfer in account_udt_balances, without a value, and the   *)
(* new owners in erc721_tokens; the UDTBalance fetcher asks the node for   *)
(* the values and writes them there and, the newest of each address and    *)
(* token, in account_current_udt_balances.                                 *)
(*                                                                         *)
(* A rollback leaves all these rows alone, and a row that exists when a    *)
(* block of another branch wants it keeps the value it has.  "muddled"     *)
(* therefore records the keys that a lost block had touched: what the      *)
(* tables say of the others is right.                                      *)
(***************************************************************************)
EXTENDS ChainTree

CONSTANTS
    Address, Token,
    Erc721,        \* the contracts of type :erc721 among Token
    Burn,          \* minted_burned_address, an element of Address
    TokenId,       \* the ids of ERC721 and ERC1155 tokens
    NoId,          \* token_id of a fungible token
    TransfersOf,   \* TransfersOf[b]: the token transfers in the logs of b
    Bal,           \* Bal[b][k]: what balanceOf answers for k at block b
    NoRow, Unfetched,
    MaxDeaths      \* how often SyncWorker and the fetcher may die

Id == TokenId \cup {NoId}

\* address_hash, token_contract_address_hash and token_id of a balance row.
Key == [address : Address \ {Burn}, token : Token, id : Id]

Transfer == [from : Address, to : Address, token : Token, id : Id, log_index : Nat]

\* TokenBalances.params_set: both sides of each transfer but for the burn address.
KeysOf(b) ==
    {k \in Key : \E x \in TransfersOf[b] :
        k.address \in {x.from, x.to} /\ k.token = x.token /\ k.id = x.id}

\* Mutant: sorted in ascending order.
LastTransferFirst(b, nft) ==
    {x \in TransfersOf[b] :
        /\ x.token = nft.token /\ x.id = nft.id
        /\ \A y \in TransfersOf[b] :
              y.token = nft.token /\ y.id = nft.id => y.log_index >= x.log_index}

\* update_erc721_token: the last transfer of each ERC721 token in the block.
LastTransfer(b, nft) ==
    {x \in TransfersOf[b] :
        /\ x.token = nft.token /\ x.id = nft.id
        /\ \A y \in TransfersOf[b] :
              y.token = nft.token /\ y.id = nft.id => y.log_index <= x.log_index}

Nft == [token : Erc721, id : TokenId]

NftsOf(b) == {nft \in Nft : LastTransfer(b, nft) # {}}

NewOwner(b, nft) == (CHOOSE x \in LastTransfer(b, nft) : TRUE).to

\* A block has finitely many logs, with an index each; only transfers change a balance.  The
\* fetcher asks an ERC721 contract for the number of all tokens of an address,
\* which the transfer of another token changes too.
ASSUME BalanceAssumption ==
    /\ Erc721 \subseteq Token
    /\ Burn \in Address /\ NoId \notin TokenId
    /\ NoRow \notin Address /\ NoRow # Unfetched
    /\ MaxDeaths \in Nat
    /\ TransfersOf \in [BlockId -> SUBSET Transfer]
    /\ \A b \in BlockId : IsFiniteSet(TransfersOf[b])
    /\ \A b \in BlockId : \A x, y \in TransfersOf[b] :
          x.log_index = y.log_index /\ x.token = y.token /\ x.id = y.id => x = y
    /\ Bal \in [BlockId -> [Key -> Nat]]
    /\ NoRow \notin Nat /\ Unfetched \notin Nat
    /\ \A b \in BlockId \ {Genesis} : \A k \in Key \ KeysOf(b) :
          k.token \notin Erc721 => Bal[b][k] = Bal[Parent[b]][k]

Height == {Number[b] : b \in BlockId}

VARIABLES
    muddled,     \* keys and ERC721 tokens of blocks that the chain has lost
    store,       \* table blocks
    history,     \* account_udt_balances: NoRow, Unfetched or the value
    current,     \* account_current_udt_balances: the block_number, or NoRow
    value,       \*    and the value of the row
    owner,       \* erc721_tokens
    pc, cur,     \* SyncWorker: its next statement, the block it works on
    fpc,         \* the fetcher: its next statement,
    entries,     \*    the rows it read, keys with block numbers,
    got,         \*    and the answers it got for some of them
    behind,      \* keys whose current row a death of the fetcher left out
    deaths

tables  == <<store, history, current, value, owner>>
sync    == <<pc, cur>>
fetcher == <<fpc, entries, got>>
vars    == <<tip, muddled, tables, sync, fetcher, behind, deaths>>

-----------------------------------------------------------------------------
(* Layer 2 node *)

Grow ==
    /\ NodeGrow
    /\ UNCHANGED <<muddled, tables, sync, fetcher, behind, deaths>>

Revert ==
    /\ NodeRevert
    /\ muddled' = muddled \cup
            UNION {KeysOf(b) \cup NftsOf(b) : b \in Path(tip) \ Path(tip')}
    /\ UNCHANGED <<tables, sync, fetcher, behind, deaths>>

-----------------------------------------------------------------------------
(* SyncWorker *)

Fetch ==
    /\ pc = "idle"
    /\ \E b \in Canonical : Anc[b] = store /\ cur' = b
    /\ pc' = "fungible"
    /\ UNCHANGED <<tip, muddled, tables, fetcher, behind, deaths>>

\* Mutant: a conflict target without block_number.
InsertOnce(ids) ==
    history' = [k \in Key |-> [n \in Height |->
        IF /\ k \in KeysOf(cur) /\ k.id \in ids
           /\ n = Number[cur] /\ \A m \in Height : history[k][m] = NoRow
        THEN Unfetched ELSE history[k][n]]]

\* The rows of the block with the given token_ids, on_conflict: :nothing.
Insert(ids) ==
    history' = [k \in Key |-> [n \in Height |->
        IF /\ k \in KeysOf(cur) /\ k.id \in ids
           /\ n = Number[cur] /\ history[k][n] = NoRow
        THEN Unfetched ELSE history[k][n]]]

\* update_udt_balance, first statement.
InsertFungible ==
    /\ pc = "fungible" /\ pc' = "nft"
    /\ Insert({NoId})
    /\ UNCHANGED <<tip, muddled, store, current, value, owner, cur, fetcher, behind, deaths>>

\* update_udt_balance, second statement.
InsertNft ==
    /\ pc = "nft" /\ pc' = "owner"
    /\ Insert(TokenId)
    /\ UNCHANGED <<tip, muddled, store, current, value, owner, cur, fetcher, behind, deaths>>

\* update_erc721_token, with on_conflict: :replace_all.
UpdateErc721Token ==
    /\ pc = "owner" /\ pc' = "block"
    /\ owner' = [nft \in Nft |->
            IF nft \in NftsOf(cur) THEN NewOwner(cur, nft) ELSE owner[nft]]
    /\ UNCHANGED <<tip, muddled, store, history, current, value, cur, fetcher, behind, deaths>>

ImportBlock ==
    /\ pc = "block" /\ pc' = "idle"
    /\ store' = store \cup {cur} /\ cur' = NoBlock
    /\ UNCHANGED <<tip, muddled, history, current, value, owner, fetcher, behind, deaths>>

\* Block.rollback! of a forked block: no balance and no owner is touched.
Rollback ==
    /\ pc = "idle"
    /\ \E b \in Canonical, top \in store :
          /\ store = Path(top)
          /\ Number[b] = Number[top] + 1 /\ Parent[b] # top
          /\ store' = Anc[top]
    /\ UNCHANGED <<tip, muddled, history, current, value, owner, sync, fetcher, behind, deaths>>

SyncDies ==
    /\ pc # "idle" /\ deaths < MaxDeaths
    /\ pc' = "idle" /\ cur' = NoBlock /\ deaths' = deaths + 1
    /\ UNCHANGED <<tip, muddled, tables, fetcher, behind>>

-----------------------------------------------------------------------------
(* UDTBalance fetcher *)

\* Mutant: only the newest row of each key.
UnfetchedRowsNewest ==
    {e \in Key \X Height :
        /\ history[e[1]][e[2]] = Unfetched
        /\ \A n \in Height : n > e[2] => history[e[1]][n] = NoRow}

UnfetchedRows == {e \in Key \X Height : history[e[1]][e[2]] = Unfetched}

\* stream_unfetched_udt_balances
Select ==
    /\ fpc = "idle" /\ UnfetchedRows # {}
    /\ entries' = UnfetchedRows
    /\ fpc' = "call"
    /\ UNCHANGED <<tip, muddled, tables, sync, got, behind, deaths>>

\* The rows whose block the node has.
Answerable == {e \in entries : e[2] <= Number[tip]}

\* Mutant: the requests with errors are not filtered out.
CallErrors(S) ==
    /\ fpc = "call" /\ fpc' = "history"
    /\ got' = [e \in entries |->
            IF e \in S THEN Bal[CHOOSE b \in Canonical : Number[b] = e[2]][e[1]]
            ELSE Unfetched]
    /\ UNCHANGED <<tip, muddled, tables, sync, entries, behind, deaths>>

\* balanceOf at the block numbers of the rows in S; the other requests return
\* an error and their rows stay unfetched.
Call(S) ==
    /\ fpc = "call" /\ fpc' = "history"
    /\ got' = [e \in S |-> Bal[CHOOSE b \in Canonical : Number[b] = e[2]][e[1]]]
    /\ UNCHANGED <<tip, muddled, tables, sync, entries, behind, deaths>>

CallSome == \E S \in SUBSET Answerable : Call(S)

\* The two upserts into account_udt_balances, which only fill rows in.
UpsertHistory(ids) ==
    /\ history' = [k \in Key |-> [n \in Height |->
            IF <<k, n>> \in DOMAIN got /\ k.id \in ids /\ history[k][n] = Unfetched
            THEN got[<<k, n>>] ELSE history[k][n]]]
    /\ UNCHANGED <<tip, muddled, store, current, value, owner, sync, entries, got, behind, deaths>>

UpsertHistoryFungible ==
    fpc = "history" /\ fpc' = "history_nft" /\ UpsertHistory({NoId})

UpsertHistoryNft ==
    fpc = "history_nft" /\ fpc' = "current" /\ UpsertHistory(TokenId)

\* to_address_current_token_balances: the newest answer of each key.
NewestOf(rows) == {e \in rows : \A f \in rows : f[1] = e[1] => f[2] <= e[2]}

\* Mutant: on_conflict: {:replace, ...}, as in the line that is commented out.
ReplacesAlways(k, n) == TRUE

\* default_current_token_balance_on_conflict
Replaces(k, n) == current[k] = NoRow \/ current[k] < n

\* The answer that is written to the current row of k.
Written(k, ids) ==
    {e \in NewestOf(DOMAIN got) : e[1] = k /\ k.id \in ids /\ Replaces(k, e[2])}

NewestFetched(k) ==
    LET ns == {n \in Height : history[k][n] \notin {NoRow, Unfetched}}
    IN  {n \in ns : \A m \in ns : m <= n}

UpsertCurrent(ids) ==
    /\ current' = [k \in Key |->
            IF Written(k, ids) = {} THEN current[k]
            ELSE (CHOOSE e \in Written(k, ids) : TRUE)[2]]
    /\ value' = [k \in Key |->
            IF Written(k, ids) = {} THEN value[k]
            ELSE got[CHOOSE e \in Written(k, ids) : TRUE]]
    /\ behind' = {k \in behind : current'[k] \notin NewestFetched(k)}
    /\ UNCHANGED <<tip, muddled, store, history, owner, sync, deaths>>

UpsertCurrentFungible ==
    /\ fpc = "current" /\ fpc' = "current_nft"
    /\ UpsertCurrent({NoId})
    /\ UNCHANGED <<entries, got>>

UpsertCurrentNft ==
    /\ fpc = "current_nft" /\ fpc' = "idle"
    /\ UpsertCurrent(TokenId)
    /\ entries' = {} /\ got' = <<>>

\* An answer that is in account_udt_balances is not asked for again.
FetcherDies ==
    /\ fpc # "idle" /\ deaths < MaxDeaths
    /\ fpc' = "idle" /\ entries' = {} /\ got' = <<>> /\ deaths' = deaths + 1
    /\ behind' = {k \in Key : NewestFetched(k) # {} /\ current[k] \notin NewestFetched(k)}
    /\ UNCHANGED <<tip, muddled, tables, sync>>

-----------------------------------------------------------------------------
Init ==
    /\ NodeInit
    /\ muddled = {} /\ store = {}
    /\ history = [k \in Key |-> [n \in Height |-> NoRow]]
    /\ current = [k \in Key |-> NoRow] /\ value = [k \in Key |-> 0]
    /\ owner = [nft \in Nft |-> NoRow]
    /\ pc = "idle" /\ cur = NoBlock
    /\ fpc = "idle" /\ entries = {} /\ got = <<>>
    /\ behind = {} /\ deaths = 0

SyncWork ==
    \/ Fetch \/ InsertFungible \/ InsertNft \/ UpdateErc721Token
    \/ ImportBlock \/ Rollback

FetcherWork ==
    \/ Select \/ CallSome
    \/ UpsertHistoryFungible \/ UpsertHistoryNft
    \/ UpsertCurrentFungible \/ UpsertCurrentNft

Next ==
    \/ Grow \/ Revert
    \/ SyncWork \/ SyncDies
    \/ FetcherWork \/ FetcherDies

Spec == Init /\ [][Next]_vars

\* The timer of the fetcher fires, and the node answers now and then.
FairSpec ==
    /\ Spec
    /\ WF_vars(FetcherWork) /\ SF_vars(Call(Answerable))

-----------------------------------------------------------------------------
(* Properties *)

TypeOK ==
    /\ tip \in BlockId /\ muddled \subseteq Key \cup Nft /\ store \subseteq BlockId
    /\ history \in [Key -> [Height -> Nat \cup {NoRow, Unfetched}]]
    /\ current \in [Key -> Height \cup {NoRow}] /\ value \in [Key -> Nat]
    /\ owner \in [Nft -> Address \cup {NoRow}]
    /\ pc \in {"idle", "fungible", "nft", "owner", "block"}
    /\ cur \in BlockId \cup {NoBlock} /\ (pc # "idle" => cur \in BlockId)
    /\ fpc \in {"idle", "call", "history", "history_nft", "current", "current_nft"}
    /\ entries \subseteq Key \X Height
    /\ DOMAIN got \subseteq entries /\ \A e \in DOMAIN got : got[e] \in Nat
    /\ behind \subseteq Key /\ deaths \in Nat

\* A current balance is a row of the history with its value, and the newest
\* one that has a value, whatever order the node answered the rows in; only a
\* fetcher that dies between its statements leaves a key behind.
CurrentIsNewest ==
    \A k \in Key :
        /\ current[k] # NoRow => history[k][current[k]] = value[k]
        /\ fpc = "idle" /\ k \notin behind /\ NewestFetched(k) # {}
              => current[k] \in NewestFetched(k)

\* Between two batches, a current balance whose rows are all fetched is the
\* balance at the highest stored block, but for keys of lost blocks and for
\* those of ERC721 contracts.
CurrentIsRight ==
    \A k \in Key \ (muddled \cup behind) : \A top \in store :
        /\ k.token \notin Erc721
        /\ fpc = "idle" /\ store = Path(top) /\ current[k] # NoRow
        /\ \A n \in Height : history[k][n] # Unfetched
        /\ pc = "idle" /\ \A b \in BlockId : Anc[b] = store => k \notin KeysOf(b)
        => value[k] = Bal[top][k]

\* The owner of an ERC721 token is the receiver of its last transfer in the
\* stored blocks, also after deaths that repeat an import; a token of a lost
\* block, or of the next one, whose import may have begun, is exempt.
OwnerIsRight ==
    \A nft \in Nft \ muddled : \A top \in store :
        /\ store = Path(top)
        /\ \A b \in BlockId : Anc[b] = store => nft \notin NftsOf(b)
        => \A b \in store : \A x \in TransfersOf[b] :
              /\ x.token = nft.token /\ x.id = nft.id
              /\ \A c \in store : \A y \in TransfersOf[c] :
                    /\ y.token = nft.token /\ y.id = nft.id
                    => \/ Number[c] < Number[b]
                       \/ c = b /\ y.log_index <= x.log_index
              => owner[nft] = x.to

\* Again and again, each row that has no value is one of a block that the
\* node does not have: rows do not wait for ever, whatever else is fetched.
RowsAreFetched ==
    []<>(\A k \in Key, n \in Height :
            history[k][n] = Unfetched => Number[tip] < n)
=============================================================================

-------------------------- MODULE UdtBalanceProofs --------------------------
(***************************************************************************)
(* The current balances of module UdtBalance follow the history, for every *)
(* tree of blocks, every set of tokens, addresses and transfers, and every *)
(* answer of the node.                                                     *)
(***************************************************************************)
EXTENDS UdtBalance, ChainTreeLemmas, FiniteSetTheorems, TLAPS

-----------------------------------------------------------------------------
(* The inductive invariant *)

\* The block numbers of k that have a value in the history.
Fetched(k) == {n \in Height : history[k][n] \notin {NoRow, Unfetched}}

\* The block numbers of k that the node has answered.
Answered(k) == {n \in Height : <<k, n>> \in DOMAIN got}

\* Whether the history has the answers for k already, and the current row not.
Ahead(k) ==
    \/ fpc = "history_nft" /\ k.id = NoId
    \/ fpc = "current"
    \/ fpc = "current_nft" /\ k.id # NoId

\* The block numbers that the current row of k may know of.
Known(k) == IF Ahead(k) THEN Fetched(k) \ Answered(k) ELSE Fetched(k)

Newest(S) == {n \in S : \A m \in S : m <= n}

\* An answer that is not in the history yet.
Waits(e) == fpc = "history" \/ (fpc = "history_nft" /\ e[1].id # NoId)

\* What the fetcher holds: rows that are still without a value, and answers
\* that are in the history once the statement for their kind of key is done.
HoldsRows ==
    /\ fpc = "idle" => entries = {} /\ got = <<>>
    /\ fpc = "call" => \A e \in entries : history[e[1]][e[2]] = Unfetched
    /\ fpc \notin {"idle", "call"} =>
          \A e \in DOMAIN got :
             history[e[1]][e[2]] = IF Waits(e) THEN Unfetched ELSE got[e]

\* The answers are about blocks up to the tip of their time.
AnswersBounded ==
    fpc \notin {"idle", "call"} =>
        \E b \in BlockId : \A e \in DOMAIN got : e[2] <= Number[b]

\* The current row is one of those it may know of, and the newest of them.
CurrentKnown ==
    \A k \in Key :
        /\ current[k] # NoRow =>
             /\ history[k][current[k]] = value[k]
             /\ current[k] \in Known(k)
        /\ k \notin behind /\ Newest(Known(k)) # {} => current[k] \in Newest(Known(k))

IInv == TypeOK /\ HoldsRows /\ AnswersBounded /\ CurrentKnown

-----------------------------------------------------------------------------
(* Facts about the constants *)

LEMMA Types ==
    /\ Number \in [BlockId -> Nat] /\ Anc \in [BlockId -> SUBSET BlockId]
    /\ Genesis \in BlockId /\ NoBlock \notin BlockId
    /\ Height \in SUBSET Nat
    /\ \A b \in BlockId : Number[b] \in Height
    /\ NoRow \notin Nat /\ Unfetched \notin Nat /\ NoRow # Unfetched
    /\ NoRow \notin Address /\ NoId \notin TokenId
    /\ Bal \in [BlockId -> [Key -> Nat]]
    /\ \A k \in Key : k.id = NoId \/ k.id \in TokenId
    /\ MaxDeaths \in Nat
BY TreeAssumption, BalanceAssumption DEF Height, Key, Id

\* A bounded set of numbers has a greatest one.
LEMMA NewestExists ==
    ASSUME NEW S \in SUBSET Nat, S # {}, NEW m \in Nat, \A n \in S : n <= m
    PROVE  Newest(S) # {}
<1> DEFINE D == {j \in Nat : \E n \in S : n + j = m}
<1>1. D \in SUBSET Nat /\ D # {}
  <2>1. PICK n \in S : n \in Nat /\ n <= m
    OBVIOUS
  <2>2. m - n \in Nat /\ n + (m - n) = m
    BY <2>1
  <2>3. m - n \in D
    BY <2>1, <2>2
  <2> QED BY <2>3
<1>2. PICK d \in D : \A c \in D : d <= c
  <2> HIDE DEF D
  <2> QED BY <1>1, LeastExists
<1>3. PICK n \in S : n + d = m
  BY <1>2
<1>4. ASSUME NEW k \in S PROVE k <= n
  <2>1. k \in Nat /\ k <= m /\ m - k \in Nat /\ k + (m - k) = m
    OBVIOUS
  <2>2. m - k \in D
    BY <2>1
  <2>3. d <= m - k /\ d \in Nat /\ n \in Nat
    BY <1>2, <2>2
  <2> QED BY <1>3, <2>1, <2>3
<1> QED BY <1>4 DEF Newest

\* The new owner of an ERC721 token is an address.
LEMMA OwnerType ==
    ASSUME NEW b \in BlockId, NEW nft \in NftsOf(b)
    PROVE  NewOwner(b, nft) \in Address
<1>1. TransfersOf \in [BlockId -> SUBSET Transfer]
  BY BalanceAssumption
<1>2. LastTransfer(b, nft) # {} /\ LastTransfer(b, nft) \subseteq Transfer
  BY <1>1 DEF NftsOf, LastTransfer
<1> QED BY <1>2 DEF NewOwner, Transfer

-----------------------------------------------------------------------------
(* Types *)

\* The node answers with numbers.
LEMMA AnswerType ==
    ASSUME TypeOK, NEW e \in Answerable
    PROVE  Bal[CHOOSE b \in Canonical : Number[b] = e[2]][e[1]] \in Nat
<1>1. e[1] \in Key /\ e[2] \in 0 .. Number[tip] /\ tip \in BlockId
  <2>1. e \in Key \X Height /\ e[2] <= Number[tip] /\ tip \in BlockId
    BY DEF TypeOK, Answerable
  <2>2. e[2] \in Nat /\ Number[tip] \in Nat
    BY <2>1, Types
  <2> QED BY <2>1, <2>2
<1>2. PICK a \in Path(tip) : {c \in Path(tip) : Number[c] = e[2]} = {a}
  BY <1>1, BlockAt
<1>3. \E b \in Canonical : Number[b] = e[2]
  BY <1>2 DEF Canonical
<1>4. (CHOOSE b \in Canonical : Number[b] = e[2]) \in Canonical
  BY <1>3
<1>5. Canonical \subseteq BlockId
  BY <1>1, TopOfPath DEF Canonical
<1> QED BY <1>1, <1>4, <1>5, Types

LEMMA NodeTypes == TypeOK /\ (Grow \/ Revert) => TypeOK'
<1> SUFFICES ASSUME TypeOK, Grow \/ Revert PROVE TypeOK'
  OBVIOUS
<1> USE Types DEF TypeOK, tables, sync, fetcher
<1>1. CASE Grow
  BY <1>1 DEF Grow, NodeGrow
<1>2. CASE Revert
  <2>1. tip' \in BlockId
    BY <1>2 DEF Revert, NodeRevert
  <2>2. UNION {KeysOf(b) \cup NftsOf(b) : b \in Path(tip) \ Path(tip')} \subseteq Key \cup Nft
    BY DEF KeysOf, NftsOf
  <2>3. muddled' \subseteq Key \cup Nft
    BY <1>2, <2>2 DEF Revert
  <2> QED BY <1>2, <2>1, <2>3 DEF Revert
<1> QED BY <1>1, <1>2

LEMMA InsertType ==
    ASSUME TypeOK, NEW ids, Insert(ids)
    PROVE  history' \in [Key -> [Height -> Nat \cup {NoRow, Unfetched}]]
BY Types DEF Insert, TypeOK

LEMMA SyncTypes == TypeOK /\ (SyncWork \/ SyncDies) => TypeOK'
<1> SUFFICES ASSUME TypeOK, SyncWork \/ SyncDies PROVE TypeOK'
  OBVIOUS
<1>1. CASE Fetch
  <2>1. Canonical \subseteq BlockId
    BY TopOfPath DEF Canonical, TypeOK
  <2> QED BY <1>1, <2>1 DEF Fetch, TypeOK, tables, fetcher
<1>2. CASE InsertFungible
  <2>1. history' \in [Key -> [Height -> Nat \cup {NoRow, Unfetched}]]
    BY <1>2, InsertType DEF InsertFungible
  <2> QED BY <1>2, <2>1 DEF InsertFungible, TypeOK, fetcher
<1>3. CASE InsertNft
  <2>1. history' \in [Key -> [Height -> Nat \cup {NoRow, Unfetched}]]
    BY <1>3, InsertType DEF InsertNft
  <2> QED BY <1>3, <2>1 DEF InsertNft, TypeOK, fetcher
<1>4. CASE UpdateErc721Token
  <2>1. cur \in BlockId
    BY <1>4 DEF UpdateErc721Token, TypeOK
  <2>2. owner' \in [Nft -> Address \cup {NoRow}]
    BY <1>4, <2>1, OwnerType DEF UpdateErc721Token, TypeOK
  <2> QED BY <1>4, <2>2 DEF UpdateErc721Token, TypeOK, fetcher
<1>5. CASE ImportBlock
  BY <1>5 DEF ImportBlock, TypeOK, fetcher
<1>6. CASE Rollback
  BY <1>6, Types DEF Rollback, TypeOK, sync, fetcher
<1>7. CASE SyncDies
  BY <1>7, Types DEF SyncDies, TypeOK, tables, fetcher
<1> QED BY <1>1, <1>2, <1>3, <1>4, <1>5, <1>6, <1>7 DEF SyncWork

LEMMA UpsertHistoryType ==
    ASSUME TypeOK, NEW ids, UpsertHistory(ids)
    PROVE  history' \in [Key -> [Height -> Nat \cup {NoRow, Unfetched}]]
BY Types DEF UpsertHistory, TypeOK

LEMMA WrittenType ==
    ASSUME TypeOK, NEW k \in Key, NEW ids, Written(k, ids) # {}
    PROVE  LET e == CHOOSE x \in Written(k, ids) : TRUE
           IN  /\ e \in Written(k, ids) /\ e \in DOMAIN got
               /\ e[1] = k /\ e[2] \in Height /\ got[e] \in Nat /\ e = <<k, e[2]>>
<1> DEFINE e == CHOOSE x \in Written(k, ids) : TRUE
<1>1. e \in Written(k, ids)
  OBVIOUS
<1> HIDE DEF e
<1>2. e \in DOMAIN got /\ e[1] = k
  BY <1>1 DEF Written, NewestOf
<1>3. e \in Key \X Height /\ got[e] \in Nat
  BY <1>2 DEF TypeOK
<1>4. e[2] \in Height /\ e = <<k, e[2]>>
  BY <1>2, <1>3
<1> QED BY <1>1, <1>2, <1>3, <1>4 DEF e

LEMMA UpsertCurrentType ==
    ASSUME TypeOK, NEW ids, UpsertCurrent(ids)
    PROVE  /\ current' \in [Key -> Height \cup {NoRow}] /\ value' \in [Key -> Nat]
           /\ behind' \subseteq Key
BY WrittenType DEF UpsertCurrent, TypeOK

LEMMA FetcherTypes == TypeOK /\ HoldsRows /\ (FetcherWork \/ FetcherDies) => TypeOK'
<1> SUFFICES ASSUME TypeOK, HoldsRows, FetcherWork \/ FetcherDies PROVE TypeOK'
  OBVIOUS
<1>1. CASE Select
  <2>1. UnfetchedRows \subseteq Key \X Height
    BY DEF UnfetchedRows
  <2>2. got' = <<>> /\ entries' = UnfetchedRows /\ fpc' = "call"
    BY <1>1 DEF Select, HoldsRows
  <2> QED BY <1>1, <2>1, <2>2 DEF Select, TypeOK, tables, sync
<1>2. CASE CallSome
  <2>1. PICK S \in SUBSET Answerable : Call(S)
    BY <1>2 DEF CallSome
  <2>2. DOMAIN got' = S /\ S \subseteq entries
    BY <2>1 DEF Call, Answerable
  <2>3. \A e \in S : got'[e] \in Nat
    BY <2>1, AnswerType DEF Call
  <2> QED BY <2>1, <2>2, <2>3 DEF Call, TypeOK, tables, sync
<1>3. CASE UpsertHistoryFungible
  <2>1. history' \in [Key -> [Height -> Nat \cup {NoRow, Unfetched}]]
    BY <1>3, UpsertHistoryType DEF UpsertHistoryFungible
  <2> QED BY <1>3, <2>1 DEF UpsertHistoryFungible, UpsertHistory, TypeOK, sync
<1>4. CASE UpsertHistoryNft
  <2>1. history' \in [Key -> [Height -> Nat \cup {NoRow, Unfetched}]]
    BY <1>4, UpsertHistoryType DEF UpsertHistoryNft
  <2> QED BY <1>4, <2>1 DEF UpsertHistoryNft, UpsertHistory, TypeOK, sync
<1>5. CASE UpsertCurrentFungible
  <2>1. /\ current' \in [Key -> Height \cup {NoRow}] /\ value' \in [Key -> Nat]
        /\ behind' \subseteq Key
    BY <1>5, UpsertCurrentType DEF UpsertCurrentFungible
  <2> QED BY <1>5, <2>1 DEF UpsertCurrentFungible, UpsertCurrent, TypeOK, sync
<1>6. CASE UpsertCurrentNft
  <2>1. /\ current' \in [Key -> Height \cup {NoRow}] /\ value' \in [Key -> Nat]
        /\ behind' \subseteq Key
    BY <1>6, UpsertCurrentType DEF UpsertCurrentNft
  <2> QED BY <1>6, <2>1 DEF UpsertCurrentNft, UpsertCurrent, TypeOK, sync
<1>7. CASE FetcherDies
  BY <1>7, Types DEF FetcherDies, TypeOK, tables, sync
<1> QED BY <1>1, <1>2, <1>3, <1>4, <1>5, <1>6, <1>7 DEF FetcherWork

LEMMA NextTypes == TypeOK /\ HoldsRows /\ [Next]_vars => TypeOK'
<1> SUFFICES ASSUME TypeOK, HoldsRows, [Next]_vars PROVE TypeOK'
  OBVIOUS
<1>1. CASE UNCHANGED vars
  BY <1>1 DEF vars, tables, sync, fetcher, TypeOK
<1> QED BY <1>1, NodeTypes, SyncTypes, FetcherTypes DEF Next

-----------------------------------------------------------------------------
(* Initial states *)

LEMMA InitIInv == Init => IInv
<1> SUFFICES ASSUME Init PROVE IInv
  OBVIOUS
<1>1. TypeOK
  BY Types DEF Init, NodeInit, TypeOK
<1>2. HoldsRows /\ AnswersBounded
  BY DEF Init, HoldsRows, AnswersBounded
<1>3. \A k \in Key : Known(k) = {} /\ current[k] = NoRow
  BY DEF Init, Known, Fetched, Ahead
<1> QED BY <1>1, <1>2, <1>3 DEF IInv, CurrentKnown, Newest

-----------------------------------------------------------------------------
(* Steps that leave the fetcher alone *)

\* A step that at most adds rows without a value.
LEMMA AddsRows ==
    ASSUME IInv, TypeOK',
           UNCHANGED <<current, value, fetcher, behind>>,
           \A k \in Key, n \in Height :
              IF history[k][n] = NoRow THEN history'[k][n] \in {NoRow, Unfetched}
              ELSE history'[k][n] = history[k][n]
    PROVE  IInv'
<1> USE DEF fetcher
<1>1. \A k \in Key : Fetched(k)' = Fetched(k)
  BY Types DEF Fetched
<1>2. \A k \in Key : Known(k)' = Known(k)
  BY <1>1 DEF Known, Ahead, Answered
<1>3. HoldsRows'
  <2>1. \A e \in entries : e[1] \in Key /\ e[2] \in Height
    BY DEF IInv, TypeOK
  <2>2. \A e \in DOMAIN got : e \in entries /\ got[e] \in Nat
    BY DEF IInv, TypeOK
  <2>3. \A e \in entries : history[e[1]][e[2]] # NoRow =>
            history'[e[1]][e[2]] = history[e[1]][e[2]]
    BY <2>1
  <2>4. \A e \in DOMAIN got : Waits(e)' <=> Waits(e)
    BY DEF Waits
  <2> QED BY <2>1, <2>2, <2>3, <2>4, Types DEF IInv, HoldsRows
<1>4. AnswersBounded'
  BY DEF IInv, AnswersBounded
<1>5. CurrentKnown'
  <2> SUFFICES ASSUME NEW k \in Key
               PROVE  /\ current[k] # NoRow =>
                            /\ history'[k][current[k]] = value[k]
                            /\ current[k] \in Known(k)
                      /\ k \notin behind /\ Newest(Known(k)) # {} => current[k] \in Newest(Known(k))
    BY <1>2 DEF CurrentKnown, Newest
  <2>1. /\ current[k] # NoRow =>
             /\ history[k][current[k]] = value[k]
             /\ current[k] \in Known(k)
        /\ k \notin behind /\ Newest(Known(k)) # {} => current[k] \in Newest(Known(k))
    BY DEF IInv, CurrentKnown
  <2>2. ASSUME current[k] # NoRow PROVE history'[k][current[k]] = value[k]
    <3>1. current[k] \in Height /\ value[k] \in Nat
      BY <2>2 DEF IInv, TypeOK
    <3> QED BY <2>1, <2>2, <3>1, Types
  <2> QED BY <2>1, <2>2
<1> QED BY <1>3, <1>4, <1>5 DEF IInv

LEMMA InsertAdds ==
    ASSUME TypeOK, NEW ids, Insert(ids), NEW k \in Key, NEW n \in Height
    PROVE  IF history[k][n] = NoRow THEN history'[k][n] \in {NoRow, Unfetched}
           ELSE history'[k][n] = history[k][n]
BY DEF Insert

LEMMA OthersIInv ==
    ASSUME IInv, Grow \/ Revert \/ SyncWork \/ SyncDies \/ UNCHANGED vars
    PROVE  IInv'
<1>1. TypeOK /\ TypeOK'
  BY NextTypes DEF IInv, Next
<1>2. UNCHANGED <<current, value, fetcher, behind>>
  BY DEF Grow, Revert, SyncWork, SyncDies, vars, tables, Fetch, InsertFungible,
         InsertNft, UpdateErc721Token, ImportBlock, Rollback
<1>3. history' = history \/ Insert({NoId}) \/ Insert(TokenId)
  BY DEF Grow, Revert, SyncWork, SyncDies, vars, tables, Fetch, InsertFungible,
         InsertNft, UpdateErc721Token, ImportBlock, Rollback
<1>4. \A k \in Key, n \in Height :
         IF history[k][n] = NoRow THEN history'[k][n] \in {NoRow, Unfetched}
         ELSE history'[k][n] = history[k][n]
  BY <1>1, <1>3, InsertAdds
<1> QED BY <1>1, <1>2, <1>4, AddsRows

-----------------------------------------------------------------------------
(* Steps of the fetcher *)

LEMMA SelectIInv == IInv /\ Select => IInv'
<1> SUFFICES ASSUME IInv, Select PROVE IInv'
  OBVIOUS
<1>1. TypeOK'
  BY NextTypes DEF IInv, Next, FetcherWork
<1>2. fpc = "idle" /\ fpc' = "call" /\ entries' = UnfetchedRows
      /\ UNCHANGED <<history, current, value, got, behind>>
  BY DEF Select, tables
<1>3. HoldsRows'
  BY <1>2 DEF HoldsRows, UnfetchedRows
<1>4. \A k \in Key : Known(k)' = Known(k)
  BY <1>2 DEF Known, Fetched, Ahead
<1>5. CurrentKnown'
  BY <1>2, <1>4 DEF IInv, CurrentKnown, Newest
<1> QED BY <1>1, <1>2, <1>3, <1>5 DEF IInv, AnswersBounded

LEMMA CallIInv == IInv /\ CallSome => IInv'
<1> SUFFICES ASSUME IInv, CallSome PROVE IInv'
  OBVIOUS
<1>1. TypeOK'
  BY NextTypes DEF IInv, Next, FetcherWork
<1>2. PICK S \in SUBSET Answerable : Call(S)
  BY DEF CallSome
<1>3. fpc = "call" /\ fpc' = "history" /\ DOMAIN got' = S
      /\ UNCHANGED <<history, current, value, entries, behind, tip>>
  BY <1>2 DEF Call, tables
<1>4. HoldsRows'
  BY <1>3 DEF IInv, HoldsRows, Waits, Answerable
<1>5. AnswersBounded'
  <2>1. tip \in BlockId /\ \A e \in S : e[2] <= Number[tip]
    BY DEF IInv, TypeOK, Answerable
  <2> QED BY <1>3, <2>1 DEF AnswersBounded
<1>6. \A k \in Key : Known(k)' = Known(k)
  BY <1>3 DEF Known, Fetched, Ahead
<1>7. CurrentKnown'
  BY <1>3, <1>6 DEF IInv, CurrentKnown, Newest
<1> QED BY <1>1, <1>4, <1>5, <1>7 DEF IInv

\* The upserts into the history give a value to the rows that were answered.
LEMMA HistoryIInv ==
    ASSUME IInv, UpsertHistoryFungible \/ UpsertHistoryNft
    PROVE  IInv'
<1>1. TypeOK /\ TypeOK'
  BY NextTypes DEF IInv, Next, FetcherWork
<1>2. PICK ids : /\ UpsertHistory(ids)
                 /\ \/ fpc = "history" /\ fpc' = "history_nft" /\ ids = {NoId}
                    \/ fpc = "history_nft" /\ fpc' = "current" /\ ids = TokenId
  BY DEF UpsertHistoryFungible, UpsertHistoryNft
<1>3. UNCHANGED <<current, value, entries, got, behind>>
  BY <1>2 DEF UpsertHistory
<1>4. ASSUME NEW e \in DOMAIN got
      PROVE  /\ e[1] \in Key /\ e[2] \in Height /\ e = <<e[1], e[2]>> /\ got[e] \in Nat
             /\ history[e[1]][e[2]] = IF Waits(e) THEN Unfetched ELSE got[e]
  BY <1>1, <1>2 DEF TypeOK, IInv, HoldsRows
<1>5. ASSUME NEW k \in Key, NEW n \in Height
      PROVE  history'[k][n] =
                IF <<k, n>> \in DOMAIN got /\ k.id \in ids /\ history[k][n] = Unfetched
                THEN got[<<k, n>>] ELSE history[k][n]
  BY <1>2 DEF UpsertHistory
<1>6. HoldsRows'
  <2>1. ASSUME NEW e \in DOMAIN got
        PROVE  history'[e[1]][e[2]] = IF Waits(e)' THEN Unfetched ELSE got[e]
    <3>1. e[1].id = NoId \/ e[1].id \in TokenId
      BY <1>4, Types
    <3>2. history'[e[1]][e[2]] =
             IF e[1].id \in ids /\ history[e[1]][e[2]] = Unfetched
             THEN got[e] ELSE history[e[1]][e[2]]
      BY <1>4, <1>5
    <3>3. CASE fpc = "history"
      BY <1>2, <1>4, <3>1, <3>2, <3>3, Types DEF Waits
    <3>4. CASE fpc = "history_nft"
      BY <1>2, <1>4, <3>1, <3>2, <3>4, Types DEF Waits
    <3> QED BY <1>2, <3>3, <3>4
  <2> QED BY <1>2, <1>3, <2>1 DEF HoldsRows
<1>7. AnswersBounded'
  BY <1>2, <1>3 DEF IInv, AnswersBounded
<1>8. ASSUME NEW k \in Key PROVE Known(k)' = Known(k)
  <2>1. k.id = NoId \/ k.id \in TokenId
    BY Types
  <2>2. CASE k.id \notin ids
    <3>1. Fetched(k)' = Fetched(k)
      BY <1>5, <2>2 DEF Fetched
    <3>2. Ahead(k)' <=> Ahead(k)
      BY <1>2, <2>1, <2>2, Types DEF Ahead
    <3>3. Answered(k)' = Answered(k)
      BY <1>3 DEF Answered
    <3> QED BY <3>1, <3>2, <3>3 DEF Known
  <2>3. CASE k.id \in ids
    <3>1. ~Ahead(k) /\ Ahead(k)'
      BY <1>2, <2>3, Types DEF Ahead
    <3>2. ASSUME NEW n \in Height
          PROVE  /\ <<k, n>> \in DOMAIN got => history[k][n] = Unfetched
                 /\ <<k, n>> \notin DOMAIN got => history'[k][n] = history[k][n]
      <4>1. Waits(<<k, n>>)
        BY <1>2, <2>3, Types DEF Waits
      <4> QED BY <1>4, <1>5, <4>1
    <3>3. Fetched(k)' \ Answered(k)' = Fetched(k)
      BY <1>3, <3>2 DEF Fetched, Answered
    <3> QED BY <3>1, <3>3 DEF Known
  <2> QED BY <2>2, <2>3
<1>9. CurrentKnown'
  <2> SUFFICES ASSUME NEW k \in Key
               PROVE  /\ current[k] # NoRow =>
                            /\ history'[k][current[k]] = value[k]
                            /\ current[k] \in Known(k)
                      /\ k \notin behind /\ Newest(Known(k)) # {} => current[k] \in Newest(Known(k))
    BY <1>3, <1>8 DEF CurrentKnown, Newest
  <2>1. /\ current[k] # NoRow =>
             /\ history[k][current[k]] = value[k]
             /\ current[k] \in Known(k)
        /\ k \notin behind /\ Newest(Known(k)) # {} => current[k] \in Newest(Known(k))
    BY DEF IInv, CurrentKnown
  <2>2. ASSUME current[k] # NoRow PROVE history'[k][current[k]] = value[k]
    <3>1. current[k] \in Height /\ value[k] \in Nat
      BY <1>1, <2>2 DEF TypeOK
    <3> QED BY <1>5, <2>1, <2>2, <3>1, Types
  <2> QED BY <2>1, <2>2
<1> QED BY <1>1, <1>6, <1>7, <1>9 DEF IInv

\* The current row of a key whose answers are written becomes the newest one.
LEMMA KeyUpserted ==
    ASSUME IInv, NEW ids, UpsertCurrent(ids), NEW k \in Key, k.id \in ids,
           Ahead(k), fpc \in {"current", "current_nft"}
    PROVE  /\ current'[k] # NoRow =>
                /\ history[k][current'[k]] = value'[k]
                /\ current'[k] \in Fetched(k)
           /\ k \notin behind /\ Newest(Fetched(k)) # {} => current'[k] \in Newest(Fetched(k))
<1>1. TypeOK
  BY DEF IInv
<1>2. /\ current[k] # NoRow =>
           /\ history[k][current[k]] = value[k]
           /\ current[k] \in Fetched(k) \ Answered(k)
      /\ k \notin behind /\ Newest(Fetched(k) \ Answered(k)) # {}
           => current[k] \in Newest(Fetched(k) \ Answered(k))
  BY DEF IInv, CurrentKnown, Known
<1>3. ASSUME NEW n \in Answered(k)
      PROVE  /\ <<k, n>> \in DOMAIN got /\ n \in Nat /\ n \in Height
             /\ history[k][n] = got[<<k, n>>] /\ got[<<k, n>>] \in Nat
             /\ n \in Fetched(k)
  <2>1. <<k, n>> \in DOMAIN got /\ n \in Height
    BY DEF Answered
  <2>2. ~Waits(<<k, n>>)
    BY DEF Waits
  <2>3. history[k][n] = got[<<k, n>>] /\ got[<<k, n>>] \in Nat
    BY <1>1, <2>1, <2>2 DEF IInv, HoldsRows, TypeOK
  <2> QED BY <2>1, <2>3, Types DEF Fetched
<1>4. Fetched(k) \subseteq Nat /\ Answered(k) \subseteq Fetched(k)
  BY <1>3, Types DEF Fetched
<1>5. ASSUME k \notin behind, Newest(Fetched(k)) # {}, Fetched(k) \ Answered(k) # {}
      PROVE  current[k] \in Newest(Fetched(k) \ Answered(k))
  <2>1. PICK m \in Fetched(k) : \A n \in Fetched(k) : n <= m
    BY <1>5 DEF Newest
  <2>2. m \in Nat /\ Fetched(k) \ Answered(k) \in SUBSET Nat
    BY <1>4
  <2>3. Newest(Fetched(k) \ Answered(k)) # {}
    BY <1>5, <2>1, <2>2, NewestExists
  <2> QED BY <1>2, <1>5, <2>3
<1>6. CASE Written(k, ids) # {}
  <2> DEFINE e == CHOOSE x \in Written(k, ids) : TRUE
  <2>1. /\ e \in Written(k, ids) /\ e \in DOMAIN got
        /\ e[1] = k /\ e[2] \in Height /\ e = <<k, e[2]>>
    BY <1>1, <1>6, WrittenType
  <2>2. current'[k] = e[2] /\ value'[k] = got[e]
    BY <1>1, <1>6 DEF UpsertCurrent, TypeOK
  <2> HIDE DEF e
  <2>3. e[2] \in Answered(k)
    BY <2>1 DEF Answered
  <2>4. \A n \in Answered(k) : n <= e[2]
    BY <1>3, <2>1 DEF Written, NewestOf
  <2>5. current[k] = NoRow \/ current[k] < e[2]
    BY <2>1 DEF Written, Replaces
  <2>6. ASSUME k \notin behind, Newest(Fetched(k)) # {}, NEW n \in Fetched(k)
        PROVE  n <= e[2]
    <3>1. CASE n \in Answered(k)
      BY <2>4, <3>1
    <3>2. CASE n \notin Answered(k)
      <4>1. current[k] \in Newest(Fetched(k) \ Answered(k))
        BY <1>5, <2>6, <3>2
      <4>2. current[k] \in Nat /\ n <= current[k] /\ n \in Nat /\ e[2] \in Nat
        BY <1>3, <1>4, <2>3, <2>6, <3>2, <4>1 DEF Newest
      <4>3. current[k] < e[2]
        BY <2>5, <4>2, Types
      <4> QED BY <4>2, <4>3
    <3> QED BY <3>1, <3>2
  <2>7. history[k][e[2]] = got[e] /\ e[2] \in Fetched(k)
    BY <1>3, <2>1, <2>3
  <2> QED BY <2>2, <2>6, <2>7 DEF Newest
<1>7. CASE Written(k, ids) = {}
  <2>1. current'[k] = current[k] /\ value'[k] = value[k]
    BY <1>7 DEF UpsertCurrent
  <2>2. ASSUME Answered(k) # {}
        PROVE  current[k] # NoRow /\ \A n \in Answered(k) : n <= current[k]
    <3>1. PICK b \in BlockId : \A x \in DOMAIN got : x[2] <= Number[b]
      BY DEF IInv, AnswersBounded
    <3>2. Number[b] \in Nat /\ Answered(k) \in SUBSET Nat
      BY <1>4, Types
    <3>3. \A n \in Answered(k) : n <= Number[b]
      BY <1>3, <3>1
    <3>4. PICK n \in Answered(k) : \A m \in Answered(k) : m <= n
      BY <2>2, <3>2, <3>3, NewestExists DEF Newest
    <3>5. <<k, n>> \in NewestOf(DOMAIN got)
      <4>1. ASSUME NEW x \in DOMAIN got, x[1] = k PROVE x[2] <= n
        BY <1>1, <3>4, <4>1 DEF TypeOK, Answered
      <4> QED BY <1>3, <4>1 DEF NewestOf
    <3>6. ~Replaces(k, n)
      BY <1>7, <3>5 DEF Written
    <3>7. current[k] # NoRow /\ ~(current[k] < n)
      BY <3>6 DEF Replaces
    <3>8. current[k] \in Nat
      BY <1>2, <1>4, <3>7
    <3>9. \A m \in Answered(k) : m \in Nat
      BY <1>3
    <3> QED BY <3>4, <3>7, <3>8, <3>9
  <2>3. ASSUME k \notin behind, Newest(Fetched(k)) # {}
        PROVE  current[k] \in Newest(Fetched(k))
    <3>1. current[k] # NoRow
      <4>1. CASE Fetched(k) \ Answered(k) # {}
        BY <1>4, <1>5, <2>3, <4>1, Types DEF Newest
      <4>2. CASE Fetched(k) \ Answered(k) = {}
        BY <1>4, <2>2, <2>3, <4>2 DEF Newest
      <4> QED BY <4>1, <4>2
    <3>2. current[k] \in Fetched(k) \ Answered(k)
      BY <1>2, <3>1
    <3>3. current[k] \in Newest(Fetched(k) \ Answered(k))
      BY <1>5, <2>3, <3>2
    <3>4. ASSUME NEW n \in Fetched(k) PROVE n <= current[k]
      BY <2>2, <3>3 DEF Newest
    <3> QED BY <3>2, <3>4 DEF Newest
  <2> QED BY <1>2, <2>1, <2>3
<1> QED BY <1>6, <1>7

\* No current row of another kind of key changes.
LEMMA KeyKept ==
    ASSUME TypeOK, NEW ids, UpsertCurrent(ids), NEW k \in Key, k.id \notin ids
    PROVE  current'[k] = current[k] /\ value'[k] = value[k]
BY DEF UpsertCurrent, Written

LEMMA CurrentIInv ==
    ASSUME IInv, UpsertCurrentFungible \/ UpsertCurrentNft
    PROVE  IInv'
<1>1. TypeOK /\ TypeOK'
  BY NextTypes DEF IInv, Next, FetcherWork
<1>2. PICK ids :
        /\ UpsertCurrent(ids)
        /\ \/ /\ fpc = "current" /\ fpc' = "current_nft" /\ ids = {NoId}
              /\ UNCHANGED <<entries, got>>
           \/ /\ fpc = "current_nft" /\ fpc' = "idle" /\ ids = TokenId
              /\ entries' = {} /\ got' = <<>>
  BY DEF UpsertCurrentFungible, UpsertCurrentNft
<1>3. history' = history /\ behind' = {k \in behind : current'[k] \notin NewestFetched(k)}
  BY <1>2 DEF UpsertCurrent
<1>4. HoldsRows'
  BY <1>2, <1>3 DEF IInv, HoldsRows, Waits
<1>5. AnswersBounded'
  BY <1>2 DEF IInv, AnswersBounded
<1>6. ASSUME NEW k \in Key
      PROVE  NewestFetched(k) = Newest(Fetched(k)) /\ Fetched(k)' = Fetched(k)
  BY <1>3 DEF NewestFetched, Fetched, Newest
<1>7. ASSUME NEW k \in Key
      PROVE  /\ current'[k] # NoRow =>
                  /\ history'[k][current'[k]] = value'[k]
                  /\ current'[k] \in Known(k)'
             /\ k \notin behind' /\ Newest(Known(k)') # {} => current'[k] \in Newest(Known(k)')
  <2>1. k.id = NoId \/ k.id \in TokenId
    BY Types
  <2>2. CASE k.id \in ids
    <3>1. Ahead(k) /\ ~Ahead(k)'
      BY <1>2, <2>2, Types DEF Ahead
    <3>2. Known(k)' = Fetched(k)
      BY <1>6, <3>1 DEF Known
    <3>3. /\ current'[k] # NoRow =>
                /\ history[k][current'[k]] = value'[k]
                /\ current'[k] \in Fetched(k)
          /\ k \notin behind /\ Newest(Fetched(k)) # {} => current'[k] \in Newest(Fetched(k))
      BY <1>2, <2>2, <3>1, KeyUpserted
    <3> QED BY <1>3, <1>6, <3>2, <3>3
  <2>3. CASE k.id \notin ids
    <3>1. current'[k] = current[k] /\ value'[k] = value[k]
      BY <1>1, <1>2, <2>3, KeyKept
    <3>2. Known(k)' = Known(k)
      <4>1. CASE fpc = "current"
        BY <1>2, <1>6, <2>1, <2>3, <4>1 DEF Known, Ahead, Answered
      <4>2. CASE fpc = "current_nft"
        BY <1>2, <1>6, <2>1, <2>3, <4>2 DEF Known, Ahead
      <4> QED BY <1>2, <4>1, <4>2
    <3>3. /\ current[k] # NoRow =>
               /\ history[k][current[k]] = value[k]
               /\ current[k] \in Known(k)
          /\ k \notin behind /\ Newest(Known(k)) # {} => current[k] \in Newest(Known(k))
      BY DEF IInv, CurrentKnown
    <3>4. ASSUME k \in behind, k \notin behind', Newest(Known(k)) # {}
          PROVE  current[k] \in Newest(Known(k))
      <4>1. current[k] \in Newest(Fetched(k))
        BY <1>3, <1>6, <3>1, <3>4
      <4>2. current[k] # NoRow
        BY <4>1, Types DEF Newest, Fetched
      <4>3. current[k] \in Known(k) /\ Known(k) \subseteq Fetched(k)
        BY <3>3, <4>2 DEF Known
      <4> QED BY <4>1, <4>3 DEF Newest
    <3> QED BY <1>3, <3>1, <3>2, <3>3, <3>4
  <2> QED BY <2>2, <2>3
<1>8. CurrentKnown'
  BY <1>7 DEF CurrentKnown, Newest
<1> QED BY <1>1, <1>4, <1>5, <1>8 DEF IInv

LEMMA FetcherDiesIInv == IInv /\ FetcherDies => IInv'
<1> SUFFICES ASSUME IInv, FetcherDies PROVE IInv'
  OBVIOUS
<1>1. TypeOK'
  BY NextTypes DEF IInv, Next
<1>2. fpc' = "idle" /\ entries' = {} /\ got' = <<>>
      /\ behind' = {k \in Key : NewestFetched(k) # {} /\ current[k] \notin NewestFetched(k)}
      /\ UNCHANGED <<history, current, value>>
  BY DEF FetcherDies, tables
<1>3. HoldsRows' /\ AnswersBounded'
  BY <1>2 DEF HoldsRows, AnswersBounded
<1>4. ASSUME NEW k \in Key
      PROVE  /\ Known(k)' = Fetched(k) /\ Known(k) \subseteq Fetched(k)
             /\ NewestFetched(k) = Newest(Fetched(k))
  BY <1>2 DEF Known, Ahead, Fetched, NewestFetched, Newest
<1>5. CurrentKnown'
  <2> SUFFICES ASSUME NEW k \in Key
               PROVE  /\ current[k] # NoRow =>
                            /\ history[k][current[k]] = value[k]
                            /\ current[k] \in Fetched(k)
                      /\ k \notin behind' /\ Newest(Fetched(k)) # {}
                            => current[k] \in Newest(Fetched(k))
    BY <1>2, <1>4 DEF CurrentKnown, Newest
  <2>1. current[k] # NoRow =>
             history[k][current[k]] = value[k] /\ current[k] \in Fetched(k)
    BY <1>4 DEF IInv, CurrentKnown
  <2>2. ASSUME k \notin behind', Newest(Fetched(k)) # {}
        PROVE  current[k] \in Newest(Fetched(k))
    BY <1>2, <1>4, <2>2
  <2> QED BY <2>1, <2>2
<1> QED BY <1>1, <1>3, <1>5 DEF IInv

LEMMA NextIInv == IInv /\ [Next]_vars => IInv'
BY OthersIInv, SelectIInv, CallIInv, HistoryIInv, CurrentIInv, FetcherDiesIInv
   DEF Next, FetcherWork

LEMMA CurrentKnownIsNewest == IInv => CurrentIsNewest
<1> SUFFICES ASSUME IInv, NEW k \in Key
             PROVE  /\ current[k] # NoRow => history[k][current[k]] = value[k]
                    /\ fpc = "idle" /\ k \notin behind /\ NewestFetched(k) # {}
                          => current[k] \in NewestFetched(k)
  BY DEF CurrentIsNewest
<1>1. NewestFetched(k) = Newest(Fetched(k))
  BY DEF NewestFetched, Newest, Fetched
<1>2. fpc = "idle" => Known(k) = Fetched(k)
  BY DEF Known, Ahead
<1> QED BY <1>1, <1>2 DEF IInv, CurrentKnown

-----------------------------------------------------------------------------
(* Owners of ERC721 tokens *)

\* The owner is the receiver of the last transfer in the stored blocks.
Right(nft) ==
    \A b \in store : \A x \in TransfersOf[b] :
        /\ x.token = nft.token /\ x.id = nft.id
        /\ \A c \in store : \A y \in TransfersOf[c] :
              /\ y.token = nft.token /\ y.id = nft.id
              => \/ Number[c] < Number[b]
                 \/ c = b /\ y.log_index <= x.log_index
        => owner[nft] = x.to

\* The stored blocks are a path, and SyncWorker works on the block above it.
OnPath ==
    /\ store = {} \/ \E b \in BlockId : store = Path(b)
    /\ pc # "idle" => Anc[cur] = store

\* The blocks that touched a token are on the node's chain, and the owner is
\* that of the stored blocks or that of the next one.
OwnerKnown ==
    \A nft \in Nft \ muddled :
        /\ \A b \in store : nft \in NftsOf(b) => b \in Canonical
        /\ pc # "idle" /\ nft \in NftsOf(cur) => cur \in Canonical
        /\ pc = "block" /\ nft \in NftsOf(cur) => owner[nft] = NewOwner(cur, nft)
        /\ \/ Right(nft)
           \/ \E b \in Canonical :
                 /\ Anc[b] = store /\ nft \in NftsOf(b)
                 /\ pc # "idle" => b = cur

OInv == IInv /\ OnPath /\ OwnerKnown

LEMMA InitOInv == Init => OInv
BY InitIInv DEF Init, OInv, OnPath, OwnerKnown, Right

\* Two blocks of a path do not have the same number.
LEMMA SameNumber ==
    ASSUME NEW t \in BlockId, NEW a \in Path(t), NEW c \in Path(t), Number[a] = Number[c]
    PROVE  a = c
BY TreeAssumption DEF Path

\* Blocks with the same ancestors have the same number.
LEMMA SiblingsNumber ==
    ASSUME NEW a \in BlockId, NEW c \in BlockId, Anc[a] = Anc[c]
    PROVE  Number[a] = Number[c]
<1>1. CASE a = Genesis \/ c = Genesis
  BY <1>1, TreeAssumption
<1>2. CASE a # Genesis /\ c # Genesis
  <2>1. /\ Path(Parent[a]) = Path(Parent[c])
        /\ Parent[a] \in BlockId /\ Parent[c] \in BlockId
        /\ Number[a] = Number[Parent[a]] + 1 /\ Number[c] = Number[Parent[c]] + 1
    BY <1>2, TreeAssumption DEF Path
  <2>2. Parent[a] = Parent[c]
    <3>1. /\ Parent[a] \in Path(Parent[c]) /\ Parent[c] \in Path(Parent[a])
      BY <2>1, TopOfPath
    <3>2. Number[Parent[a]] \in Nat /\ Number[Parent[c]] \in Nat
      BY <2>1, Types
    <3> QED BY <2>1, <3>1, <3>2, TopOfPath
  <2> QED BY <2>1, <2>2
<1> QED BY <1>1, <1>2

\* A lost block has touched only tokens that are muddled now.
LEMMA NodeKeeps ==
    ASSUME TypeOK, Grow \/ Revert, NEW nft \in Nft \ muddled',
           NEW b \in Canonical, nft \in NftsOf(b)
    PROVE  nft \notin muddled /\ b \in Canonical'
<1>1. CASE Grow
  <2>1. PICK c \in BlockId \ {Genesis} : Parent[c] = tip /\ tip' = c
    BY <1>1 DEF Grow, NodeGrow
  <2>2. Path(tip) \subseteq Path(tip')
    BY <2>1, TreeAssumption DEF Path
  <2> QED BY <1>1, <2>2 DEF Grow, Canonical
<1>2. CASE Revert
  <2>1. muddled' = muddled \cup
            UNION {KeysOf(c) \cup NftsOf(c) : c \in Path(tip) \ Path(tip')}
    BY <1>2 DEF Revert
  <2>2. b \in Path(tip')
    BY <2>1 DEF Canonical
  <2> QED BY <2>1, <2>2 DEF Canonical
<1> QED BY <1>1, <1>2

LEMMA NodeOInv ==
    ASSUME OInv, IInv', Grow \/ Revert
    PROVE  OInv'
<1>1. TypeOK /\ UNCHANGED <<store, owner, pc, cur>>
  BY DEF OInv, IInv, Grow, Revert, tables, sync
<1>2. OnPath'
  BY <1>1 DEF OInv, OnPath, Path
<1>3. OwnerKnown'
  <2> SUFFICES ASSUME NEW nft \in Nft \ muddled'
               PROVE  /\ \A b \in store : nft \in NftsOf(b) => b \in Canonical'
                      /\ pc # "idle" /\ nft \in NftsOf(cur) => cur \in Canonical'
                      /\ pc = "block" /\ nft \in NftsOf(cur)
                            => owner[nft] = NewOwner(cur, nft)
                      /\ \/ Right(nft)
                         \/ \E b \in Canonical' :
                               /\ Anc[b] = store /\ nft \in NftsOf(b)
                               /\ pc # "idle" => b = cur
    BY <1>1 DEF OwnerKnown, Right
  <2>1. nft \in Nft \ muddled
    BY DEF Grow, Revert
  <2>2. \A b \in Canonical : nft \in NftsOf(b) => b \in Canonical'
    BY <1>1, NodeKeeps
  <2> QED BY <2>1, <2>2 DEF OInv, OwnerKnown
<1> QED BY <1>2, <1>3 DEF OInv

LEMMA FetchOInv ==
    ASSUME OInv, IInv', Fetch
    PROVE  OInv'
<1>1. TypeOK /\ UNCHANGED <<tip, muddled, store, owner>> /\ pc = "idle"
  BY DEF OInv, IInv, Fetch, tables
<1>2. pc' = "fungible" /\ cur' \in Canonical /\ Anc[cur'] = store
  BY DEF Fetch
<1>3. OnPath'
  BY <1>1, <1>2 DEF OInv, OnPath, Path
<1>4. ASSUME NEW b \in Canonical, Anc[b] = store PROVE b = cur'
  <2>1. tip \in BlockId /\ Canonical \subseteq BlockId
    BY <1>1, TopOfPath DEF TypeOK, Canonical
  <2> QED BY <1>2, <1>4, <2>1, SiblingsNumber, SameNumber DEF Canonical
<1>5. OwnerKnown'
  <2> SUFFICES ASSUME NEW nft \in Nft \ muddled
               PROVE  /\ \A b \in store : nft \in NftsOf(b) => b \in Canonical
                      /\ \/ Right(nft)
                         \/ \E b \in Canonical :
                               Anc[b] = store /\ nft \in NftsOf(b) /\ b = cur'
    BY <1>1, <1>2 DEF OwnerKnown, Right, Canonical
  <2> QED BY <1>1, <1>4 DEF OInv, OwnerKnown
<1> QED BY <1>3, <1>5 DEF OInv

\* Steps that touch neither the blocks nor the owners.
LEMMA KeepsOInv ==
    ASSUME OInv, IInv', UNCHANGED <<tip, muddled, store, owner>>,
           \/ pc' = pc /\ cur' = cur
           \/ pc # "idle" /\ pc' \in {"idle", "nft", "owner"} /\ (pc' = "idle" \/ cur' = cur)
    PROVE  OInv'
<1>1. OnPath'
  BY DEF OInv, OnPath, Path
<1>2. OwnerKnown'
  <2> SUFFICES ASSUME NEW nft \in Nft \ muddled
               PROVE  /\ \A b \in store : nft \in NftsOf(b) => b \in Canonical
                      /\ pc' # "idle" /\ nft \in NftsOf(cur') => cur' \in Canonical
                      /\ pc' = "block" /\ nft \in NftsOf(cur')
                            => owner[nft] = NewOwner(cur', nft)
                      /\ \/ Right(nft)
                         \/ \E b \in Canonical :
                               /\ Anc[b] = store /\ nft \in NftsOf(b)
                               /\ pc' # "idle" => b = cur'
    BY DEF OwnerKnown, Right, Canonical
  <2> QED BY DEF OInv, OwnerKnown
<1> QED BY <1>1, <1>2 DEF OInv

LEMMA UpdateOwnerOInv ==
    ASSUME OInv, IInv', UpdateErc721Token
    PROVE  OInv'
<1>1. TypeOK /\ UNCHANGED <<tip, muddled, store, cur>> /\ pc = "owner" /\ pc' = "block"
  BY DEF OInv, IInv, UpdateErc721Token
<1>2. OnPath'
  BY <1>1 DEF OInv, OnPath, Path
<1>3. ASSUME NEW nft \in Nft
      PROVE  owner'[nft] = IF nft \in NftsOf(cur) THEN NewOwner(cur, nft) ELSE owner[nft]
  BY DEF UpdateErc721Token
<1>4. OwnerKnown'
  <2> SUFFICES ASSUME NEW nft \in Nft \ muddled
               PROVE  /\ \A b \in store : nft \in NftsOf(b) => b \in Canonical
                      /\ nft \in NftsOf(cur) => cur \in Canonical
                      /\ nft \in NftsOf(cur) => owner'[nft] = NewOwner(cur, nft)
                      /\ \/ Right(nft)'
                         \/ \E b \in Canonical :
                               /\ Anc[b] = store /\ nft \in NftsOf(b)
                               /\ b = cur
    BY <1>1 DEF OwnerKnown, Canonical
  <2>1. /\ \A b \in store : nft \in NftsOf(b) => b \in Canonical
        /\ nft \in NftsOf(cur) => cur \in Canonical
        /\ \/ Right(nft)
           \/ \E b \in Canonical :
                 Anc[b] = store /\ nft \in NftsOf(b) /\ b = cur
    BY <1>1 DEF OInv, OwnerKnown
  <2>2. Anc[cur] = store
    BY <1>1 DEF OInv, OnPath
  <2>3. CASE nft \in NftsOf(cur)
    BY <1>3, <2>1, <2>2, <2>3
  <2>4. CASE nft \notin NftsOf(cur)
    <3>1. owner'[nft] = owner[nft] /\ Right(nft)
      BY <1>3, <2>1, <2>4
    <3>2. Right(nft)'
      BY <1>1, <3>1 DEF Right
    <3> QED BY <2>1, <2>4, <3>2
  <2> QED BY <2>3, <2>4
<1> QED BY <1>2, <1>4 DEF OInv

\* The last transfer of a block has the new owner as its receiver.
LEMMA LastIsNewOwner ==
    ASSUME NEW b \in BlockId, NEW nft \in Nft, NEW x \in LastTransfer(b, nft)
    PROVE  nft \in NftsOf(b) /\ NewOwner(b, nft) = x.to
<1>1. /\ TransfersOf \in [BlockId -> SUBSET Transfer]
      /\ \A y, z \in TransfersOf[b] :
            y.log_index = z.log_index /\ y.token = z.token /\ y.id = z.id => y = z
  BY BalanceAssumption
<1>2. ASSUME NEW y \in LastTransfer(b, nft) PROVE y = x
  <2>1. x \in TransfersOf[b] /\ y \in TransfersOf[b] /\ x.token = y.token /\ x.id = y.id
    BY DEF LastTransfer
  <2>2. x.log_index \in Nat /\ y.log_index \in Nat
    BY <1>1, <2>1 DEF Transfer
  <2>3. x.log_index <= y.log_index /\ y.log_index <= x.log_index
    BY <2>1 DEF LastTransfer
  <2> QED BY <1>1, <2>1, <2>2, <2>3
<1> QED BY <1>2 DEF NftsOf, NewOwner

\* A finite set of numbers has a greatest one.
LEMMA FiniteNewestExists ==
    ASSUME NEW S \in SUBSET Nat, IsFiniteSet(S), S # {}
    PROVE  Newest(S) # {}
BY GreatestExists DEF Newest

\* A block that transfers a token has a last transfer of it.
LEMMA HasLastTransfer ==
    ASSUME NEW b \in BlockId, NEW nft \in Nft, nft \notin NftsOf(b),
           NEW x \in TransfersOf[b], x.token = nft.token, x.id = nft.id
    PROVE  FALSE
<1> DEFINE Moving == {y \in TransfersOf[b] : y.token = nft.token /\ y.id = nft.id}
           Logs == {y.log_index : y \in Moving}
<1>1. TransfersOf[b] \subseteq Transfer /\ IsFiniteSet(TransfersOf[b])
  BY BalanceAssumption
<1>2. IsFiniteSet(Moving) /\ x \in Moving
  BY <1>1, FS_Subset
<1>3. IsFiniteSet(Logs)
  <2> HIDE DEF Moving
  <2>1. [y \in Moving |-> y.log_index] \in Surjection(Moving, Logs)
    BY DEF Surjection
  <2> QED BY <1>2, <2>1, FS_Surjection DEF ExistsSurjection
<1>4. Logs \in SUBSET Nat /\ Logs # {}
  BY <1>1, <1>2 DEF Transfer
<1>5. PICK n \in Logs : \A m \in Logs : m <= n
  <2> HIDE DEF Logs
  <2> QED BY <1>3, <1>4, FiniteNewestExists DEF Newest
<1>6. PICK y \in Moving : y.log_index = n
  BY <1>5
<1>7. y \in LastTransfer(b, nft)
  BY <1>5, <1>6 DEF LastTransfer
<1> QED BY <1>7 DEF NftsOf

LEMMA ImportBlockOInv ==
    ASSUME OInv, IInv', ImportBlock
    PROVE  OInv'
<1>1. /\ TypeOK /\ UNCHANGED <<tip, muddled, owner>> /\ pc = "block" /\ pc' = "idle"
      /\ cur \in BlockId /\ Anc[cur] = store /\ store' = Path(cur)
  BY DEF OInv, OnPath, IInv, TypeOK, ImportBlock, Path
<1>2. OnPath'
  BY <1>1 DEF OnPath, Path
<1>3. OwnerKnown'
  <2> SUFFICES ASSUME NEW nft \in Nft \ muddled
               PROVE  /\ \A b \in Path(cur) : nft \in NftsOf(b) => b \in Canonical
                      /\ Right(nft)'
    BY <1>1 DEF OwnerKnown, Canonical
  <2>1. /\ \A b \in store : nft \in NftsOf(b) => b \in Canonical
        /\ nft \in NftsOf(cur) => cur \in Canonical
        /\ nft \in NftsOf(cur) => owner[nft] = NewOwner(cur, nft)
        /\ \/ Right(nft)
           \/ nft \in NftsOf(cur)
    BY <1>1 DEF OInv, OwnerKnown
  <2>2. ASSUME NEW b \in Path(cur), NEW x \in TransfersOf[b],
               x.token = nft.token, x.id = nft.id,
               \A c \in Path(cur) : \A y \in TransfersOf[c] :
                  /\ y.token = nft.token /\ y.id = nft.id
                  => \/ Number[c] < Number[b]
                     \/ c = b /\ y.log_index <= x.log_index
        PROVE  owner[nft] = x.to
    <3>1. CASE b = cur
      <4>1. x \in LastTransfer(cur, nft)
        <5>1. \A y \in TransfersOf[cur] :
                 y.token = nft.token /\ y.id = nft.id => y.log_index <= x.log_index
          BY <1>1, <2>2, <3>1, Types DEF Path
        <5> QED BY <2>2, <3>1, <5>1 DEF LastTransfer
      <4> QED BY <1>1, <2>1, <4>1, LastIsNewOwner
    <3>2. CASE b # cur
      <4>1. b \in store /\ Number[b] < Number[cur] /\ Number[b] \in Nat /\ Number[cur] \in Nat
        BY <1>1, <3>2, TopOfPath, Types
      <4>2. nft \notin NftsOf(cur)
        BY <1>1, <2>2, <3>2, <4>1 DEF NftsOf, LastTransfer, Path
      <4>3. Right(nft)
        BY <2>1, <4>2
      <4>4. \A c \in store : c \in Path(cur)
        BY <1>1 DEF Path
      <4> QED BY <2>2, <4>1, <4>3, <4>4 DEF Right
    <3> QED BY <3>1, <3>2
  <2>3. Right(nft)'
    BY <1>1, <2>2 DEF Right
  <2> QED BY <1>1, <2>1, <2>3 DEF Path
<1> QED BY <1>2, <1>3 DEF OInv

\* A block that fails the fork check is not on the node's chain, and no block
\* of that chain is above it.
LEMMA ForkedIsLost ==
    ASSUME tip \in BlockId, NEW top \in BlockId, NEW b \in Canonical, b \in BlockId,
           Number[b] = Number[top] + 1, Parent[b] # top, store = Path(top)
    PROVE  top \notin Canonical /\ ~ \E c \in Canonical : Anc[c] = store
<1>1. top \notin Canonical
  <2>1. Number[top] \in Nat /\ Number[b] # 0
    BY Types
  <2>2. Parent[b] \in Anc[b] /\ Number[Parent[b]] = Number[top]
    BY <2>1, TreeAssumption
  <2>3. Parent[b] \in Path(tip)
    BY <2>2, AncestorsOfAncestors DEF Canonical, Path
  <2> QED BY <2>2, <2>3, SameNumber DEF Canonical
<1>2. ASSUME NEW c \in Canonical, Anc[c] = store PROVE FALSE
  <2>1. top \in Anc[c] /\ c \in Path(tip)
    BY <1>2 DEF Canonical, Path
  <2>2. top \in Path(tip)
    BY <2>1, AncestorsOfAncestors DEF Path
  <2> QED BY <1>1, <2>2 DEF Canonical
<1> QED BY <1>1, <1>2

LEMMA RollbackOInv ==
    ASSUME OInv, IInv', Rollback
    PROVE  OInv'
<1>1. TypeOK /\ UNCHANGED <<tip, muddled, owner, pc, cur>> /\ pc = "idle"
  BY DEF OInv, IInv, Rollback, sync
<1>2. PICK b \in Canonical, top \in store :
        /\ store = Path(top) /\ store' = Anc[top]
        /\ Number[b] = Number[top] + 1 /\ Parent[b] # top
  BY DEF Rollback
<1>3. top \in BlockId /\ tip \in BlockId /\ b \in BlockId
  BY <1>1, TopOfPath DEF TypeOK, Canonical
<1>4. top \notin Canonical /\ ~ \E c \in Canonical : Anc[c] = store
  BY <1>2, <1>3, ForkedIsLost
<1>5. OnPath'
  <2>1. Anc[top] = {} \/ \E p \in BlockId : Anc[top] = Path(p)
    BY <1>3, AncIsPath
  <2> QED BY <1>1, <1>2, <2>1 DEF OnPath, Path
<1>6. OwnerKnown'
  <2> SUFFICES ASSUME NEW nft \in Nft \ muddled
               PROVE  /\ \A c \in Anc[top] : nft \in NftsOf(c) => c \in Canonical
                      /\ Right(nft)'
    BY <1>1, <1>2 DEF OwnerKnown, Canonical
  <2>1. /\ \A c \in store : nft \in NftsOf(c) => c \in Canonical
        /\ \/ Right(nft)
           \/ \E c \in Canonical : Anc[c] = store
    BY <1>1 DEF OInv, OwnerKnown
  <2>2. nft \notin NftsOf(top)
    BY <1>2, <1>4, <2>1
  <2>4. ASSUME NEW c \in Anc[top], NEW x \in TransfersOf[c],
               x.token = nft.token, x.id = nft.id,
               \A d \in Anc[top] : \A y \in TransfersOf[d] :
                  /\ y.token = nft.token /\ y.id = nft.id
                  => \/ Number[d] < Number[c]
                     \/ d = c /\ y.log_index <= x.log_index
        PROVE  owner[nft] = x.to
    <3>1. Right(nft) /\ c \in store
      BY <1>2, <1>4, <2>1 DEF Path
    <3>2. \A y \in TransfersOf[top] : ~(y.token = nft.token /\ y.id = nft.id)
      BY <1>3, <2>2, HasLastTransfer
    <3>3. \A d \in store : d \in Anc[top] \/ d = top
      BY <1>2 DEF Path
    <3> QED BY <2>4, <3>1, <3>2, <3>3 DEF Right
  <2>5. Right(nft)'
    BY <1>1, <1>2, <2>4 DEF Right
  <2> QED BY <1>2, <2>1, <2>5 DEF Path
<1> QED BY <1>5, <1>6 DEF OInv

LEMMA NextOInv == OInv /\ [Next]_vars => OInv'
<1> SUFFICES ASSUME OInv, [Next]_vars PROVE OInv'
  OBVIOUS
<1>1. IInv'
  BY NextIInv DEF OInv
<1>2. CASE Grow \/ Revert
  BY <1>1, <1>2, NodeOInv
<1>3. CASE Fetch
  BY <1>1, <1>3, FetchOInv
<1>4. CASE InsertFungible \/ InsertNft \/ SyncDies
  BY <1>1, <1>4, KeepsOInv DEF InsertFungible, InsertNft, SyncDies, tables
<1>5. CASE UpdateErc721Token
  BY <1>1, <1>5, UpdateOwnerOInv
<1>6. CASE ImportBlock
  BY <1>1, <1>6, ImportBlockOInv
<1>7. CASE Rollback
  BY <1>1, <1>7, RollbackOInv
<1>8. CASE FetcherWork \/ FetcherDies \/ UNCHANGED vars
  <2>1. UNCHANGED <<tip, muddled, store, owner, pc, cur>>
    BY <1>8 DEF FetcherWork, FetcherDies, vars, tables, sync, Select, CallSome, Call,
                UpsertHistoryFungible, UpsertHistoryNft, UpsertHistory,
                UpsertCurrentFungible, UpsertCurrentNft, UpsertCurrent
  <2> QED BY <1>1, <2>1, KeepsOInv
<1> QED BY <1>2, <1>3, <1>4, <1>5, <1>6, <1>7, <1>8 DEF Next, SyncWork

LEMMA OwnerKnownIsRight == OInv => OwnerIsRight
<1> SUFFICES ASSUME OInv, NEW nft \in Nft \ muddled,
                    \A b \in BlockId : Anc[b] = store => nft \notin NftsOf(b)
             PROVE  Right(nft)
  BY DEF OwnerIsRight, Right
<1>1. Canonical \subseteq BlockId
  BY TopOfPath DEF OInv, IInv, TypeOK, Canonical
<1> QED BY <1>1 DEF OInv, OwnerKnown

-----------------------------------------------------------------------------
(* Values of fungible tokens *)

\* The statements of the import that insert the rows of k are done.
Inserted(k) == pc \in {"owner", "block"} \/ (pc = "nft" /\ k.id = NoId)

\* The rows of k are those of blocks that touch it, all on the node's chain,
\* stored or about to be, and each value is the balance at its block.
RowsOf(k) ==
    /\ \A n \in Height : history[k][n] # NoRow =>
          \E b \in Canonical :
             /\ Number[b] = n /\ k \in KeysOf(b)
             /\ history[k][n] \in {Unfetched, Bal[b][k]}
             /\ b \in store \/ (Anc[b] = store /\ (pc # "idle" => b = cur))
    /\ \A b \in store : k \in KeysOf(b) =>
          b \in Canonical /\ history[k][Number[b]] # NoRow
    /\ pc # "idle" /\ k \in KeysOf(cur) =>
          /\ cur \in Canonical
          /\ Inserted(k) => history[k][Number[cur]] # NoRow

\* An answer for k is the balance at the block of that number on the chain.
AnswersOf(k) ==
    fpc \notin {"idle", "call"} =>
        \A e \in DOMAIN got : e[1] = k =>
            \A b \in Canonical : Number[b] = e[2] => got[e] = Bal[b][k]

KInv == OInv /\ \A k \in Key \ muddled : RowsOf(k) /\ AnswersOf(k)

\* What a token's balance is at one block, it is at the blocks above it that
\* have no transfer of the key.
LEMMA BalanceStays ==
    ASSUME NEW top \in BlockId, NEW b \in Path(top), NEW k \in Key, k.token \notin Erc721,
           \A c \in Path(top) : Number[b] < Number[c] => k \notin KeysOf(c)
    PROVE  Bal[top][k] = Bal[b][k]
<1> DEFINE Bad == {c \in Path(top) : Number[b] <= Number[c] /\ Bal[c][k] # Bal[b][k]}
           Numbers == {Number[c] : c \in Bad}
<1>1. /\ Path(top) \subseteq BlockId /\ top \in Path(top)
      /\ \A c \in Path(top) : Number[c] \in Nat
  BY TopOfPath, Types
<1>2. SUFFICES ASSUME Bad # {} PROVE FALSE
  <2>1. Number[b] <= Number[top]
    BY <1>1, TopOfPath
  <2> QED BY <1>1, <1>2, <2>1
<1>3. PICK c \in Bad : \A d \in Bad : Number[c] <= Number[d]
  <2>1. Numbers \in SUBSET Nat /\ Numbers # {}
    BY <1>1, <1>2
  <2> HIDE DEF Bad
  <2>2. PICK n \in Numbers : \A m \in Numbers : n <= m
    <3> HIDE DEF Numbers
    <3> QED BY <2>1, LeastExists
  <2> QED BY <2>2
<1>4. c \in BlockId /\ Number[b] < Number[c] /\ c # Genesis
  <2>1. c \in BlockId /\ Number[b] # Number[c]
    BY <1>1, <1>3, SameNumber
  <2>2. Number[b] < Number[c] /\ Number[b] \in Nat
    BY <1>1, <1>3, <2>1
  <2> QED BY <1>1, <2>1, <2>2, TreeAssumption
<1>5. /\ Parent[c] \in Anc[c] /\ Number[c] = Number[Parent[c]] + 1
      /\ Bal[c][k] = Bal[Parent[c]][k]
  <2>1. k \notin KeysOf(c)
    BY <1>3, <1>4
  <2> QED BY <1>4, <2>1, TreeAssumption, BalanceAssumption
<1>6. Parent[c] \in Path(top)
  BY <1>3, <1>5, AncestorsOfAncestors DEF Path
<1>7. Parent[c] \in Bad
  BY <1>1, <1>3, <1>4, <1>5, <1>6
<1> QED BY <1>1, <1>3, <1>5, <1>6, <1>7

LEMMA InitKInv == Init => KInv
BY InitOInv, Types DEF Init, KInv, RowsOf, AnswersOf

\* A row names a block of the chain that touches its key, so that a key that
\* loses such a block is muddled.
LEMMA NodeKeepsKeys ==
    ASSUME TypeOK, Grow \/ Revert, NEW k \in Key \ muddled',
           NEW b \in Canonical, k \in KeysOf(b)
    PROVE  k \notin muddled /\ b \in Canonical'
<1>1. CASE Grow
  <2>1. PICK c \in BlockId \ {Genesis} : Parent[c] = tip /\ tip' = c
    BY <1>1 DEF Grow, NodeGrow
  <2>2. Path(tip) \subseteq Path(tip')
    BY <2>1, TreeAssumption DEF Path
  <2> QED BY <1>1, <2>2 DEF Grow, Canonical
<1>2. CASE Revert
  <2>1. muddled' = muddled \cup
            UNION {KeysOf(c) \cup NftsOf(c) : c \in Path(tip) \ Path(tip')}
    BY <1>2 DEF Revert
  <2>2. b \in Path(tip')
    BY <2>1 DEF Canonical
  <2> QED BY <2>1, <2>2 DEF Canonical
<1> QED BY <1>1, <1>2

\* The rows of the answers exist.
LEMMA AnsweredRow ==
    ASSUME IInv, fpc \notin {"idle", "call"}, NEW e \in DOMAIN got
    PROVE  e[1] \in Key /\ e[2] \in Height /\ history[e[1]][e[2]] # NoRow
<1>1. e[1] \in Key /\ e[2] \in Height /\ got[e] \in Nat
  BY DEF IInv, TypeOK
<1>2. history[e[1]][e[2]] \in {Unfetched, got[e]}
  BY DEF IInv, HoldsRows
<1> QED BY <1>1, <1>2, Types

LEMMA NodeKInv ==
    ASSUME KInv, OInv', Grow \/ Revert
    PROVE  KInv'
<1>1. /\ TypeOK /\ IInv
      /\ UNCHANGED <<store, history, pc, cur, fpc, entries, got>>
  BY DEF KInv, OInv, IInv, Grow, Revert, tables, sync, fetcher
<1>2. SUFFICES ASSUME NEW k \in Key \ muddled'
               PROVE  RowsOf(k)' /\ AnswersOf(k)'
  BY DEF KInv
<1>3. k \in Key \ muddled
  BY DEF Grow, Revert
<1>4. \A b \in Canonical : k \in KeysOf(b) => b \in Canonical'
  BY <1>1, <1>2, NodeKeepsKeys
<1>5. RowsOf(k) /\ AnswersOf(k)
  BY <1>3 DEF KInv
<1>6. RowsOf(k)'
  <2>1. ASSUME NEW n \in Height, history[k][n] # NoRow
        PROVE  \E b \in Canonical' :
                  /\ Number[b] = n /\ k \in KeysOf(b)
                  /\ history[k][n] \in {Unfetched, Bal[b][k]}
                  /\ b \in store \/ (Anc[b] = store /\ (pc # "idle" => b = cur))
    BY <1>4, <1>5, <2>1 DEF RowsOf
  <2>2. \A b \in store : k \in KeysOf(b) => b \in Canonical' /\ history[k][Number[b]] # NoRow
    BY <1>4, <1>5 DEF RowsOf
  <2>3. pc # "idle" /\ k \in KeysOf(cur) =>
            cur \in Canonical' /\ (Inserted(k) => history[k][Number[cur]] # NoRow)
    BY <1>4, <1>5 DEF RowsOf
  <2> QED BY <1>1, <2>1, <2>2, <2>3 DEF RowsOf, Inserted
<1>7. AnswersOf(k)'
  <2> SUFFICES ASSUME fpc \notin {"idle", "call"}, NEW e \in DOMAIN got, e[1] = k,
                      NEW b \in Canonical', Number[b] = e[2]
               PROVE  got[e] = Bal[b][k]
    BY <1>1 DEF AnswersOf
  <2>1. e[2] \in Height /\ history[k][e[2]] # NoRow
    BY <1>1, AnsweredRow
  <2>2. PICK c \in Canonical : Number[c] = e[2] /\ k \in KeysOf(c)
    BY <1>5, <2>1 DEF RowsOf
  <2>3. c \in Canonical' /\ tip' \in BlockId
    BY <1>4, <2>2 DEF OInv, IInv, TypeOK
  <2>4. b = c
    BY <2>2, <2>3, SameNumber DEF Canonical
  <2> QED BY <1>5, <2>2, <2>4 DEF AnswersOf
<1> QED BY <1>6, <1>7

\* Steps that leave the node and the rows alone.
LEMMA KeepsKInv ==
    ASSUME KInv, OInv', UNCHANGED <<tip, muddled, history>>,
           UNCHANGED <<fpc, got>> \/ fpc' \in {"idle", "call"}
              \/ (fpc \notin {"idle", "call"} /\ got' = got),
           \/ UNCHANGED <<store, pc, cur>>
           \/ store' = store /\ pc # "idle" /\ pc' = "idle"
           \/ store' = store /\ pc = "owner" /\ pc' = "block" /\ cur' = cur
    PROVE  KInv'
<1> SUFFICES ASSUME NEW k \in Key \ muddled
             PROVE  RowsOf(k)' /\ AnswersOf(k)'
  BY DEF KInv
<1>1. RowsOf(k) /\ AnswersOf(k)
  BY DEF KInv
<1>2. Canonical' = Canonical
  BY DEF Canonical
<1>3. AnswersOf(k)'
  BY <1>1, <1>2 DEF AnswersOf
<1>4. RowsOf(k)'
  BY <1>1, <1>2 DEF RowsOf, Inserted
<1> QED BY <1>3, <1>4

LEMMA FetchKInv ==
    ASSUME KInv, OInv', Fetch
    PROVE  KInv'
<1>1. /\ TypeOK /\ UNCHANGED <<tip, muddled, store, history, fpc, got>> /\ pc = "idle"
      /\ pc' = "fungible" /\ cur' \in Canonical /\ Anc[cur'] = store
      /\ Canonical' = Canonical
  BY DEF KInv, OInv, IInv, Fetch, tables, fetcher, Canonical
<1>2. ASSUME NEW b \in Canonical, Anc[b] = store PROVE b = cur'
  <2>1. tip \in BlockId /\ Canonical \subseteq BlockId
    BY <1>1, TopOfPath DEF TypeOK, Canonical
  <2> QED BY <1>1, <1>2, <2>1, SiblingsNumber, SameNumber DEF Canonical
<1> SUFFICES ASSUME NEW k \in Key \ muddled
             PROVE  RowsOf(k)' /\ AnswersOf(k)'
  BY <1>1 DEF KInv
<1>3. RowsOf(k) /\ AnswersOf(k)
  BY DEF KInv
<1>4. AnswersOf(k)'
  BY <1>1, <1>3 DEF AnswersOf
<1>5. RowsOf(k)'
  BY <1>1, <1>2, <1>3 DEF RowsOf, Inserted
<1> QED BY <1>4, <1>5

LEMMA InsertKInv ==
    ASSUME KInv, OInv', InsertFungible \/ InsertNft
    PROVE  KInv'
<1>1. PICK ids : /\ Insert(ids)
                 /\ \/ pc = "fungible" /\ pc' = "nft" /\ ids = {NoId}
                    \/ pc = "nft" /\ pc' = "owner" /\ ids = TokenId
  BY DEF InsertFungible, InsertNft
<1>2. /\ TypeOK /\ cur \in BlockId /\ Anc[cur] = store /\ Number[cur] \in Height
      /\ UNCHANGED <<tip, muddled, store, cur, fpc, got>> /\ Canonical' = Canonical
  BY <1>1, Types DEF KInv, OInv, OnPath, IInv, TypeOK, InsertFungible, InsertNft,
                     fetcher, Canonical
<1> SUFFICES ASSUME NEW k \in Key \ muddled
             PROVE  RowsOf(k)' /\ AnswersOf(k)'
  BY <1>2 DEF KInv
<1>3. RowsOf(k) /\ AnswersOf(k)
  BY DEF KInv
<1>4. AnswersOf(k)'
  BY <1>2, <1>3 DEF AnswersOf
<1>5. ASSUME NEW n \in Height
      PROVE  history'[k][n] = IF /\ k \in KeysOf(cur) /\ k.id \in ids
                                 /\ n = Number[cur] /\ history[k][n] = NoRow
                              THEN Unfetched ELSE history[k][n]
  BY <1>1 DEF Insert
<1>6. k \in KeysOf(cur) => cur \in Canonical
  BY <1>1, <1>3 DEF RowsOf
<1>7. ASSUME NEW n \in Height, history'[k][n] # NoRow
      PROVE  \E b \in Canonical :
                /\ Number[b] = n /\ k \in KeysOf(b)
                /\ history'[k][n] \in {Unfetched, Bal[b][k]}
                /\ b \in store \/ (Anc[b] = store /\ b = cur)
  <2>1. CASE history[k][n] = NoRow
    BY <1>2, <1>5, <1>6, <1>7, <2>1
  <2>2. CASE history[k][n] # NoRow
    <3>1. history'[k][n] = history[k][n]
      BY <1>5, <2>2
    <3> QED BY <1>1, <1>3, <2>2, <3>1 DEF RowsOf
  <2> QED BY <2>1, <2>2
<1>8. ASSUME NEW b \in store, k \in KeysOf(b)
      PROVE  b \in Canonical /\ history'[k][Number[b]] # NoRow
  <2>1. Number[b] \in Height
    BY <1>2, <1>8, Types DEF TypeOK
  <2> QED BY <1>3, <1>5, <1>8, <2>1, Types DEF RowsOf
<1>9. ASSUME k \in KeysOf(cur), Inserted(k)' PROVE history'[k][Number[cur]] # NoRow
  <2>1. k.id \in ids \/ Inserted(k)
    BY <1>1, <1>9, Types DEF Inserted
  <2>2. Inserted(k) => history[k][Number[cur]] # NoRow
    BY <1>1, <1>3, <1>9 DEF RowsOf
  <2> QED BY <1>2, <1>5, <1>9, <2>1, <2>2, Types
<1>10. RowsOf(k)'
  BY <1>1, <1>2, <1>6, <1>7, <1>8, <1>9 DEF RowsOf
<1> QED BY <1>4, <1>10

LEMMA ImportBlockKInv ==
    ASSUME KInv, OInv', ImportBlock
    PROVE  KInv'
<1>1. /\ UNCHANGED <<tip, muddled, history, fpc, got>> /\ pc = "block" /\ pc' = "idle"
      /\ Canonical' = Canonical /\ store' = store \cup {cur}
  BY DEF ImportBlock, fetcher, Canonical
<1> SUFFICES ASSUME NEW k \in Key \ muddled
             PROVE  RowsOf(k)' /\ AnswersOf(k)'
  BY <1>1 DEF KInv
<1>2. RowsOf(k) /\ AnswersOf(k)
  BY DEF KInv
<1>3. AnswersOf(k)'
  BY <1>1, <1>2 DEF AnswersOf
<1>4. Inserted(k)
  BY <1>1 DEF Inserted
<1>5. RowsOf(k)'
  BY <1>1, <1>2, <1>4 DEF RowsOf
<1> QED BY <1>3, <1>5

LEMMA RollbackKInv ==
    ASSUME KInv, OInv', Rollback
    PROVE  KInv'
<1>1. /\ TypeOK /\ UNCHANGED <<tip, muddled, history, pc, cur, fpc, got>> /\ pc = "idle"
      /\ Canonical' = Canonical
  BY DEF KInv, OInv, IInv, Rollback, sync, fetcher, Canonical
<1>2. PICK top \in store : /\ store = Path(top) /\ store' = Anc[top]
                           /\ top \notin Canonical
                           /\ ~ \E c \in Canonical : Anc[c] = store
  <2>1. PICK b \in Canonical, top \in store :
          /\ store = Path(top) /\ store' = Anc[top]
          /\ Number[b] = Number[top] + 1 /\ Parent[b] # top
    BY DEF Rollback
  <2>2. top \in BlockId /\ tip \in BlockId /\ b \in BlockId
    BY <1>1, TopOfPath DEF TypeOK, Canonical
  <2>3. top \notin Canonical /\ ~ \E c \in Canonical : Anc[c] = store
    BY <2>1, <2>2, ForkedIsLost
  <2> QED BY <2>1, <2>3
<1> SUFFICES ASSUME NEW k \in Key \ muddled
             PROVE  RowsOf(k)' /\ AnswersOf(k)'
  BY <1>1 DEF KInv
<1>3. RowsOf(k) /\ AnswersOf(k)
  BY DEF KInv
<1>4. AnswersOf(k)'
  BY <1>1, <1>3 DEF AnswersOf
<1>5. \A b \in Canonical : b \in store => b \in store'
  BY <1>2 DEF Path
<1>6. store' \subseteq store
  BY <1>2 DEF Path
<1>7. RowsOf(k)'
  BY <1>1, <1>2, <1>3, <1>5, <1>6 DEF RowsOf
<1> QED BY <1>4, <1>7

LEMMA CallKInv ==
    ASSUME KInv, OInv', CallSome
    PROVE  KInv'
<1>1. PICK S \in SUBSET Answerable : Call(S)
  BY DEF CallSome
<1>2. /\ TypeOK /\ UNCHANGED <<tip, muddled, history, store, pc, cur>>
      /\ Canonical' = Canonical
      /\ got' = [e \in S |-> Bal[CHOOSE b \in Canonical : Number[b] = e[2]][e[1]]]
  BY <1>1 DEF KInv, OInv, IInv, Call, tables, sync, Canonical
<1> SUFFICES ASSUME NEW k \in Key \ muddled
             PROVE  RowsOf(k)' /\ AnswersOf(k)'
  BY <1>2 DEF KInv
<1>3. RowsOf(k)'
  BY <1>2 DEF KInv, RowsOf, Inserted
<1>4. AnswersOf(k)'
  <2> SUFFICES ASSUME NEW e \in S, e[1] = k, NEW b \in Canonical, Number[b] = e[2]
               PROVE  got'[e] = Bal[b][k]
    BY <1>2 DEF AnswersOf
  <2> DEFINE c == CHOOSE x \in Canonical : Number[x] = e[2]
  <2>1. c \in Canonical /\ Number[c] = e[2]
    OBVIOUS
  <2>2. got'[e] = Bal[c][k]
    BY <1>2
  <2> HIDE DEF c
  <2>3. b = c
    BY <1>2, <2>1, SameNumber DEF TypeOK, Canonical
  <2> QED BY <2>2, <2>3
<1> QED BY <1>3, <1>4

LEMMA HistoryKInv ==
    ASSUME KInv, OInv', UpsertHistoryFungible \/ UpsertHistoryNft
    PROVE  KInv'
<1>1. PICK ids : /\ UpsertHistory(ids)
                 /\ fpc \notin {"idle", "call"} /\ fpc' \notin {"idle", "call"}
  BY DEF UpsertHistoryFungible, UpsertHistoryNft
<1>2. /\ TypeOK /\ IInv /\ UNCHANGED <<tip, muddled, store, pc, cur, got>>
      /\ Canonical' = Canonical
  BY <1>1 DEF KInv, OInv, IInv, UpsertHistory, sync, Canonical
<1> SUFFICES ASSUME NEW k \in Key \ muddled
             PROVE  RowsOf(k)' /\ AnswersOf(k)'
  BY <1>2 DEF KInv
<1>3. RowsOf(k) /\ AnswersOf(k)
  BY DEF KInv
<1>4. AnswersOf(k)'
  BY <1>1, <1>2, <1>3 DEF AnswersOf
<1>5. ASSUME NEW n \in Height
      PROVE  history'[k][n] =
                IF <<k, n>> \in DOMAIN got /\ k.id \in ids /\ history[k][n] = Unfetched
                THEN got[<<k, n>>] ELSE history[k][n]
  BY <1>1 DEF UpsertHistory
<1>6. ASSUME NEW n \in Height
      PROVE  history'[k][n] # NoRow <=> history[k][n] # NoRow
  <2>1. <<k, n>> \in DOMAIN got => got[<<k, n>>] \in Nat
    BY <1>2 DEF TypeOK
  <2> QED BY <1>5, <2>1, Types
<1>7. ASSUME NEW n \in Height, history'[k][n] # NoRow
      PROVE  \E b \in Canonical :
                /\ Number[b] = n /\ k \in KeysOf(b)
                /\ history'[k][n] \in {Unfetched, Bal[b][k]}
                /\ b \in store \/ (Anc[b] = store /\ (pc # "idle" => b = cur))
  <2>1. PICK b \in Canonical :
                /\ Number[b] = n /\ k \in KeysOf(b)
                /\ history[k][n] \in {Unfetched, Bal[b][k]}
                /\ b \in store \/ (Anc[b] = store /\ (pc # "idle" => b = cur))
    BY <1>3, <1>6, <1>7 DEF RowsOf
  <2>2. <<k, n>> \in DOMAIN got => got[<<k, n>>] = Bal[b][k]
    BY <1>1, <1>3, <2>1 DEF AnswersOf
  <2>3. history'[k][n] \in {Unfetched, Bal[b][k]}
    BY <1>5, <2>1, <2>2
  <2> QED BY <2>1, <2>3
<1>8. \A b \in BlockId : Number[b] \in Height
  BY Types
<1>9. store \subseteq BlockId /\ (pc # "idle" => cur \in BlockId)
  BY <1>2 DEF TypeOK
<1>10. RowsOf(k)'
  <2>1. \A b \in store : k \in KeysOf(b) => b \in Canonical /\ history'[k][Number[b]] # NoRow
    BY <1>3, <1>6, <1>8, <1>9 DEF RowsOf
  <2>2. pc # "idle" /\ k \in KeysOf(cur) =>
            cur \in Canonical /\ (Inserted(k) => history'[k][Number[cur]] # NoRow)
    BY <1>3, <1>6, <1>8, <1>9 DEF RowsOf
  <2>3. Inserted(k)' <=> Inserted(k)
    BY <1>2 DEF Inserted
  <2> QED BY <1>2, <1>7, <2>1, <2>2, <2>3 DEF RowsOf
<1> QED BY <1>4, <1>10

LEMMA NextKInv == KInv /\ [Next]_vars => KInv'
<1> SUFFICES ASSUME KInv, [Next]_vars PROVE KInv'
  OBVIOUS
<1>1. OInv'
  BY NextOInv DEF KInv
<1>2. CASE Grow \/ Revert
  BY <1>1, <1>2, NodeKInv
<1>3. CASE Fetch
  BY <1>1, <1>3, FetchKInv
<1>4. CASE InsertFungible \/ InsertNft
  BY <1>1, <1>4, InsertKInv
<1>5. CASE UpdateErc721Token \/ SyncDies \/ UNCHANGED vars
  <2>1. UNCHANGED <<tip, muddled, history, store, fpc, got>>
    BY <1>5 DEF UpdateErc721Token, SyncDies, vars, tables, fetcher
  <2>2. \/ UNCHANGED <<pc, cur>>
        \/ pc # "idle" /\ pc' = "idle"
        \/ pc = "owner" /\ pc' = "block" /\ cur' = cur
    BY <1>5 DEF UpdateErc721Token, SyncDies, vars, sync
  <2> QED BY <1>1, <2>1, <2>2, KeepsKInv
<1>6. CASE ImportBlock
  BY <1>1, <1>6, ImportBlockKInv
<1>7. CASE Rollback
  BY <1>1, <1>7, RollbackKInv
<1>8. CASE CallSome
  BY <1>1, <1>8, CallKInv
<1>9. CASE UpsertHistoryFungible \/ UpsertHistoryNft
  BY <1>1, <1>9, HistoryKInv
<1>10. CASE Select \/ UpsertCurrentFungible \/ UpsertCurrentNft \/ FetcherDies
  <2>1. UNCHANGED <<tip, muddled, history, store, pc, cur>>
    BY <1>10 DEF Select, UpsertCurrentFungible, UpsertCurrentNft, UpsertCurrent,
                 FetcherDies, tables, sync
  <2>2. fpc' \in {"idle", "call"} \/ (fpc \notin {"idle", "call"} /\ got' = got)
    BY <1>10 DEF Select, UpsertCurrentFungible, UpsertCurrentNft, FetcherDies
  <2> QED BY <1>1, <2>1, <2>2, KeepsKInv
<1> QED BY <1>2, <1>3, <1>4, <1>5, <1>6, <1>7, <1>8, <1>9, <1>10
        DEF Next, SyncWork, FetcherWork

LEMMA KInvIsRight == KInv => CurrentIsRight
<1> SUFFICES ASSUME KInv, NEW k \in Key \ (muddled \cup behind), NEW top \in store,
                    k.token \notin Erc721, fpc = "idle", store = Path(top),
                    current[k] # NoRow, \A n \in Height : history[k][n] # Unfetched,
                    \A b \in BlockId : Anc[b] = store => k \notin KeysOf(b)
             PROVE  value[k] = Bal[top][k]
  BY DEF CurrentIsRight
<1>1. /\ TypeOK /\ top \in BlockId /\ Canonical \subseteq BlockId /\ tip \in BlockId
      /\ RowsOf(k)
  BY TopOfPath DEF KInv, OInv, IInv, TypeOK, Canonical
<1>2. /\ current[k] \in Fetched(k) /\ history[k][current[k]] = value[k]
      /\ Newest(Fetched(k)) # {} => current[k] \in Newest(Fetched(k))
  BY DEF KInv, OInv, IInv, CurrentKnown, Known, Ahead
<1>3. \A n \in Fetched(k) : n \in Nat /\ n <= Number[tip]
  <2>1. ASSUME NEW n \in Fetched(k) PROVE \E b \in Canonical : Number[b] = n
    BY <1>1 DEF Fetched, RowsOf
  <2>2. \A b \in Canonical : Number[b] <= Number[tip]
    BY <1>1, TopOfPath, Types DEF Canonical
  <2> QED BY <1>1, <2>1, <2>2, Types
<1>4. current[k] \in Newest(Fetched(k))
  <2>1. Fetched(k) \in SUBSET Nat /\ Number[tip] \in Nat
    BY <1>1, <1>3, Types
  <2> QED BY <1>2, <1>3, <2>1, NewestExists
<1>5. PICK b \in Canonical :
         Number[b] = current[k] /\ history[k][current[k]] = Bal[b][k] /\ b \in store
  <2>1. /\ current[k] \in Height /\ history[k][current[k]] # NoRow
        /\ history[k][current[k]] # Unfetched
    BY <1>2 DEF Fetched
  <2> QED BY <1>1, <2>1 DEF RowsOf
<1>6. ASSUME NEW c \in Path(top), Number[b] < Number[c] PROVE k \notin KeysOf(c)
  <2> SUFFICES ASSUME k \in KeysOf(c) PROVE FALSE
    OBVIOUS
  <2>1. c \in BlockId /\ Number[c] \in Height
    BY <1>1, TopOfPath, Types
  <2>2. history[k][Number[c]] \notin {NoRow, Unfetched}
    BY <1>1, <2>1 DEF RowsOf
  <2>3. Number[c] <= current[k]
    BY <1>4, <2>1, <2>2 DEF Fetched, Newest
  <2> QED BY <1>1, <1>5, <1>6, <2>1, <2>3, Types
<1>7. Bal[top][k] = Bal[b][k]
  BY <1>1, <1>5, <1>6, BalanceStays
<1> QED BY <1>2, <1>5, <1>7

-----------------------------------------------------------------------------
(* Theorems *)

LEMMA IInvAlways == Spec => []IInv
BY InitIInv, NextIInv, PTL DEF Spec

\* The variables keep their types: the node has an answer for each row that
\* the fetcher asks for, and every answer is a number.
THEOREM BalancesTypeCorrect == Spec => []TypeOK
<1>1. IInv => TypeOK
  BY DEF IInv
<1> QED BY <1>1, IInvAlways, PTL

\* A current balance is a row of the history, and after each batch the newest
\* one with a value, in whatever order blocks, answers and reorganisations come.
THEOREM CurrentIsNewestAlways == Spec => []CurrentIsNewest
BY CurrentKnownIsNewest, IInvAlways, PTL

\* The owner of an ERC721 token is the receiver of its last transfer in the
\* stored blocks, whatever forks, deaths and repeated imports came before.
THEOREM OwnerIsRightAlways == Spec => []OwnerIsRight
BY InitOInv, NextOInv, OwnerKnownIsRight, PTL DEF Spec

\* Once its rows are fetched, the current balance of a fungible or ERC1155
\* token is the balance at the highest stored block, but for the keys that a
\* lost block had touched and those a death of the fetcher left behind.
THEOREM CurrentIsRightAlways == Spec => []CurrentIsRight
BY InitKInv, NextKInv, KInvIsRight, PTL DEF Spec
Chain == INSTANCE IndexedChain

\* The stored blocks are those of the indexed chain that L2Sync implements,
\* also when SyncWorker dies before it stores the block it has begun.
THEOREM BalancesImplementIndexedChain == Spec => Chain!StoreSpec
<1>1. Init => Chain!StoreInit
  BY DEF Init, Chain!StoreInit
<1>2. ASSUME OInv, [Next]_vars PROVE [Chain!StoreNext]_store
  <2>1. CASE ImportBlock
    <3>1. cur \in BlockId /\ Anc[cur] = store /\ store' = Path(cur)
      BY <1>2, <2>1 DEF ImportBlock, OInv, OnPath, IInv, TypeOK, Path
    <3> QED BY <3>1 DEF Chain!StoreNext, Chain!Extend, Chain!Path, Path
  <2>2. CASE Rollback
    <3>1. \E b \in BlockId : store = Path(b) /\ store' = Anc[b]
      BY <1>2, <2>2 DEF Rollback, OInv, IInv, TypeOK
    <3> QED BY <3>1 DEF Chain!StoreNext, Chain!Withdraw, Chain!Path, Path
  <2>3. CASE ~ ImportBlock /\ ~ Rollback
    <3>1. CASE SyncWork \/ SyncDies
      BY <2>3, <3>1 DEF SyncWork, Fetch, InsertFungible, InsertNft,
                        UpdateErc721Token, SyncDies, tables
    <3>2. CASE FetcherWork \/ FetcherDies
      BY <3>2 DEF FetcherWork, Select, CallSome, Call, UpsertHistoryFungible,
                  UpsertHistoryNft, UpsertHistory, UpsertCurrentFungible,
                  UpsertCurrentNft, UpsertCurrent, FetcherDies, tables
    <3>3. CASE Grow \/ Revert \/ UNCHANGED vars
      BY <3>3 DEF Grow, Revert, vars, tables
    <3> QED BY <1>2, <3>1, <3>2, <3>3 DEF Next
  <2> QED BY <2>1, <2>2, <2>3
<1> QED BY <1>1, <1>2, InitOInv, NextOInv, PTL DEF Spec, Chain!StoreSpec
=============================================================================

------------------------- MODULE ChainQueriesProofs -------------------------
(***************************************************************************)
(* What the queries of the RPC server and of the command line leave out,   *)
(* for any transactions, chain, limits and search bounds; and, from `The   *)
(* statistics of a chain' on, what the statistics of the server amount to  *)
(* on any chain that is reached.                                           *)
(***************************************************************************)
EXTENDS ChainQueries, Sums, TLAPS

Query == [kind : Kinds \cup {"none"}, tx : Txs \cup {Idle.tx}, off : Nat, limit : Nat,
          known : SUBSET Txs, at : Stages, i : 0..(Word - 1), top : 0..MaxHeight,
          low : 0..MaxHeight, count : Nat, seen : SUBSET (Txs \X (0..MaxHeight)),
          tries : Nat, answer : Answers]

\* The queries by the direction in which they scan the blocks.
ScanDown == {"FindTransaction", "handleGetTransaction", "awaitStake"}
ScanUp == {"GetTransaction", "GetTransactionProof", "monitorTransaction"}
ListDown == {"GetTransactionHistory", "handleGetTransactionHistory", "GetRecentTransactions"}

\* What a query knows is in the mempool or in the chain: a block is appended before its
\* transactions leave the mempool.
KnownThere ==
    /\ q.known \subseteq mempool \cup Mined
    /\ q.kind \in ChainOnly => q.known \subseteq Mined

\* A scan stays in the chain, but for the two that run round the range of a height.
ScanInChain ==
    /\ q.top <= Height /\ q.low <= q.top /\ (q.kind # "SearchByAddress" => q.low = 0)
    /\ q.at = "scan" =>
         /\ q.kind \in ScanDown \cup ListDown => q.i <= q.top
         /\ q.kind \in ScanUp => 1 <= q.i /\ q.i <= q.top + 1
         /\ q.kind = "GetFullTransactionHistory" => q.i <= q.top \/ q.count >= MaxResults
    /\ q.at = "confirm" =>
         /\ q.kind = "awaitStake" => 1 <= q.i /\ q.i <= Height + 1
         /\ q.kind = "shellMonitor" => q.i <= Height

TypeInv == TypeOK /\ q \in Query /\ ScanInChain

\* Some block up to n has t, and none has it.
MinedUpTo(t, n) == \E h \in 1..n : t \in TxsAt(chain, h)
NotUpTo(n) == \A h \in 1..n : q.tx \notin TxsAt(chain, h)

\* A search for one transaction that was known at the call: a scan down has it before it,
\* a scan up has not passed it.
SearchInv ==
    q.tx \in q.known =>
        /\ q.kind \in ScanDown /\ q.at = "height" => q.tx \in Mined
        /\ q.kind \in ScanDown /\ q.at = "scan" =>
             \/ MinedUpTo(q.tx, q.i)
             \/ q.kind = "handleGetTransaction" /\ q.top = SearchCap /\ Late(q.tx)
        /\ q.kind \in ScanUp /\ q.at = "scan" => NotUpTo(q.i - 1)
        /\ q.kind = "awaitStake" /\ q.at = "confirm" => NotUpTo(q.i - 1)
        /\ q.at = "pool" /\ q.kind \in OneTx => NotUpTo(q.top)

\* The blocks from a to b that a list is to have are in it.
Wanted(h) == IF q.kind = "GetRecentTransactions" THEN TxsAt(chain, h) ELSE Matches(h)
Listed(a) == \A h \in 1..q.top : h >= a => Wanted(h) \X {h} \subseteq q.seen
InList(t) == \E h \in 0..MaxHeight : <<t, h>> \in q.seen
Asked == q.known \cap Touching

\* A list that is not full: what was read so far is in it.
NotFull ==
    q.off = 0 /\ q.count < IF q.kind = "GetFullTransactionHistory" THEN MaxResults ELSE q.limit

ListInv ==
    /\ q.kind \notin OneTx /\ q.at = "start" => q.seen = {} /\ q.count = 0
    /\ q.kind \in Paged /\ q.at \in {"scan", "pool", "page"} /\ NotFull => Cardinality(q.seen) <= q.count
    /\ q.kind = "handleGetTransactionHistory" /\ q.at = "height" /\ NotFull => Cardinality(q.seen) <= q.count
    /\ q.kind \in {"GetTransactionHistory", "GetRecentTransactions"} /\ q.at = "scan" /\ NotFull =>
         Listed(q.i + 1)
    /\ q.kind = "GetTransactionHistory" /\ q.at = "pool" /\ NotFull => Listed(1)
    /\ q.kind = "SearchByAddress" /\ q.at = "scan" /\ NotFull =>
         \A h \in 1..q.top : h >= q.low /\ h > q.i => Matches(h) \X {h} \subseteq q.seen
    /\ q.kind = "SearchByAddress" /\ q.at = "pool" /\ NotFull => Listed(q.low)
    /\ q.kind = "SearchByAddress" /\ q.at = "page" /\ NotFull =>
         \A t \in Asked : InList(t) \/ Late(t) \/ Early(t)
    /\ q.kind \in {"handleGetTransactionHistory", "GetFullTransactionHistory"} /\ NotFull =>
         /\ q.at = "height" => \A t \in Asked : InList(t) \/ t \in Mined
         /\ q.at \in {"scan", "page"} => \A t \in Asked :
              \/ InList(t)
              \/ q.at = "scan" /\ MinedUpTo(t, q.i)
              \/ q.kind = "handleGetTransactionHistory" /\ q.top = SearchCap /\ Late(t)

\* GetRecentTransactions, which has no offset, has listed the blocks above the last
\* one it read, and nothing below it.
RecentInv ==
    q.kind = "GetRecentTransactions" =>
        /\ q.off = 0
        /\ q.at = "scan" =>
             /\ \A e \in q.seen : e[2] > q.i
             /\ \A h \in 1..q.top : h > q.i + 1 => TxsAt(chain, h) \X {h} \subseteq q.seen

QueryInv == TypeInv /\ KnownThere /\ SearchInv /\ ListInv /\ RecentInv /\ NothingMissed /\ RecentAreLatest

-----------------------------------------------------------------------------
(* Chains. *)

\* The transactions of a block, and what it means for one to be mined.
ChainView ==
    /\ Height \in Nat /\ Height <= MaxHeight
    /\ \A h : TxsAt(chain, h) \subseteq Txs
    /\ \A h \in 1..Height : TxsAt(chain, h) = chain[h]
    /\ \A t : t \in Mined <=> \E h \in 1..Height : t \in TxsAt(chain, h)
    /\ \A t : Late(t) <=> \E h \in 1..Height : h > q.top /\ t \in TxsAt(chain, h)
    /\ q.low <= Height => \A t : Early(t) <=> \E h \in 1..Height : h < q.low /\ t \in TxsAt(chain, h)

\* The view of a chain of sets of transactions.
LEMMA ChainFacts == TypeOK => ChainView
  <1> SUFFICES ASSUME TypeOK PROVE ChainView
    OBVIOUS
  <1>1. chain \in Seq(SUBSET Txs) /\ Height <= MaxHeight /\ Height \in Nat
    BY DEF TypeOK, Height
  <1>2. \A h \in 1..Height : TxsAt(chain, h) = chain[h] /\ chain[h] \subseteq Txs
    BY <1>1 DEF TxsAt, Height
  <1>3. \A h : h \notin 1..Height => TxsAt(chain, h) = {}
    BY DEF TxsAt, Height
  <1>4. \A t : t \in Mined <=> \E h \in 1..Height : t \in chain[h]
    BY Zenon DEF Mined
  <1>5. \A h : h \in (q.top + 1)..Height <=> h \in 1..Height /\ h > q.top
    BY <1>1, QueriesAssumption DEF TypeOK
  <1>6. \A t : Late(t) <=> \E h \in 1..Height : h > q.top /\ t \in TxsAt(chain, h)
    BY <1>2, <1>5, Zenon DEF Late
  <1>7. ASSUME q.low <= Height
        PROVE  \A t : Early(t) <=> \E h \in 1..Height : h < q.low /\ t \in TxsAt(chain, h)
    <2>1. \A h : h \in 1..(q.low - 1) <=> h \in 1..Height /\ h < q.low
      BY <1>1, <1>7, QueriesAssumption DEF TypeOK
    <2> QED BY <1>2, <2>1, Zenon DEF Early
  <1> QED BY <1>1, <1>2, <1>3, <1>4, <1>6, <1>7 DEF ChainView

\* The same of the next state.
LEMMA ChainFactsNext == TypeOK' => ChainView'
  BY ChainFacts, PTL

\* The chain only grows, by blocks of pending transactions.
Grows ==
    /\ Height <= Height' /\ Height' <= MaxHeight /\ chain' \in Seq(SUBSET Txs)
    /\ \A h \in 1..Height : TxsAt(chain', h) = TxsAt(chain, h)

\* AppendBlock, and a step that leaves the chain alone.
LEMMA ChainGrows ==
    ASSUME TypeOK,
           \/ chain' = chain
           \/ \E S \in SUBSET Txs : Height < MaxHeight /\ chain' = Append(chain, S)
    PROVE  Grows
  <1>1. chain \in Seq(SUBSET Txs) /\ Height <= MaxHeight /\ Height \in Nat /\ MaxHeight \in Nat
    BY QueriesAssumption DEF TypeOK, Height
  <1>2. CASE chain' = chain
    BY <1>1, <1>2 DEF Grows, Height
  <1>3. ASSUME NEW S \in SUBSET Txs, Height < MaxHeight, chain' = Append(chain, S)
        PROVE  Grows
    <2>1. chain' \in Seq(SUBSET Txs) /\ Len(chain') = Len(chain) + 1
          /\ \A h \in 1..Len(chain) : chain'[h] = chain[h]
      BY <1>1, <1>3
    <2> QED BY <1>1, <1>3, <2>1 DEF Grows, Height, TxsAt
  <1> QED BY <1>2, <1>3

\* The bounds are positive numbers.
LEMMA BoundFacts ==
    /\ MaxHeight \in Nat \ {0} /\ SearchCap \in Nat \ {0} /\ ScanBack \in Nat \ {0}
    /\ MaxResults \in Nat \ {0} /\ MonitorTries \in Nat \ {0} /\ StakeTries \in Nat \ {0}
    /\ Limits \subseteq Nat \ {0} /\ Offsets \subseteq Nat /\ Word \in Nat /\ Word > MaxHeight + 1
  BY QueriesAssumption, StatisticsAssumption DEF QueriesAssumption, StatisticsAssumption

\* A query is a record, so its fields can be told apart.
LEMMA QueryFields ==
    ASSUME TypeInv
    PROVE  /\ q.kind \in Kinds \cup {"none"} /\ q.off \in Nat /\ q.limit \in Nat
           /\ q.known \subseteq Txs /\ q.at \in Stages /\ q.i \in 0..(Word - 1) /\ q.i \in Nat
           /\ q.top \in 0..MaxHeight /\ q.top \in Nat /\ q.low \in 0..MaxHeight /\ q.count \in Nat
           /\ q.seen \subseteq Txs \X (0..MaxHeight) /\ q.tries \in Nat /\ q.answer \in Answers
           /\ Word \in Nat /\ Word > MaxHeight + 1 /\ MaxHeight \in Nat
  BY QueriesAssumption, StatisticsAssumption DEF TypeInv, Query

-----------------------------------------------------------------------------
(* The node's own steps. *)

\* Nothing is asked at the start.
LEMMA InitQuery == Init => QueryInv
  <1> SUFFICES ASSUME Init PROVE QueryInv
    OBVIOUS
  <1>1. q \in Query /\ q.at = "idle" /\ q.kind = "none" /\ q.known = {} /\ q.top = 0 /\ q.low = 0
        /\ q.answer = "none" /\ q.i = 0 /\ q.seen = {}
    BY QueriesAssumption, StatisticsAssumption DEF Init, Idle, Query, Stages, Answers
  <1>2. Height = 0 /\ chain \in Seq(SUBSET Txs)
    BY DEF Init, Height
  <1>3. TypeOK
    BY <1>1, <1>2, QueriesAssumption DEF TypeOK, Query, Init
  <1>4. TypeInv
    BY <1>1, <1>2, <1>3 DEF TypeInv, ScanInChain
  <1>5. KnownThere /\ SearchInv /\ NothingMissed /\ RecentAreLatest
    BY <1>1 DEF KnownThere, SearchInv, NothingMissed, RecentAreLatest
  <1>6. ListInv /\ RecentInv
    BY <1>1 DEF ListInv, RecentInv, Paged
  <1> QED BY <1>4, <1>5, <1>6 DEF QueryInv

\* A step of the node extends the chain or changes the mempool, and a query knows at most what it
\* knew: whatever holds of the query goes on to hold.
LEMMA NodeKeeps ==
    ASSUME QueryInv, Grows, mempool' \subseteq Txs,
           NEW K \in SUBSET q.known, q' = [q EXCEPT !.known = K], KnownThere'
    PROVE  QueryInv'
  <1>0. TypeOK /\ TypeInv /\ q \in Query
    BY DEF QueryInv, TypeInv
  <1>1. /\ q' \in Query /\ q'.known = K /\ q'.kind = q.kind /\ q'.tx = q.tx /\ q'.off = q.off
        /\ q'.limit = q.limit /\ q'.at = q.at /\ q'.i = q.i /\ q'.top = q.top /\ q'.low = q.low
        /\ q'.count = q.count /\ q'.seen = q.seen /\ q'.tries = q.tries /\ q'.answer = q.answer
    BY <1>0 DEF Query
  <1>2. TypeOK'
    BY <1>0, <1>1 DEF TypeOK, Grows, Query
  <1>3. ChainView /\ ChainView' /\ Height \in Nat /\ Height' \in Nat
    BY <1>0, <1>2, ChainFacts, ChainFactsNext DEF ChainView
  <1>4. TypeInv'
    <2>1. Height <= Height' /\ q.top \in Nat /\ q.i \in Nat /\ ScanInChain
      BY <1>0, QueryFields DEF Grows, TypeInv
    <2>2. ScanInChain'
      BY <1>1, <1>3, <2>1 DEF ScanInChain
    <2> QED BY <1>1, <1>2, <2>2 DEF TypeInv
  <1>5. \A h \in 1..Height : h \in 1..Height' /\ TxsAt(chain', h) = TxsAt(chain, h)
    BY <1>3 DEF Grows
  <1>6. \A t : Late(t) => Late(t)'
    BY <1>1, <1>3, <1>5 DEF ChainView
  <1>7. \A t : t \in Mined => t \in Mined'
    BY <1>3, <1>5 DEF ChainView
  <1>8. q.low <= Height /\ q'.low <= Height' /\ q.top <= Height
    BY <1>0, <1>1, <1>3, <1>4, QueryFields DEF TypeInv, ScanInChain, Grows
  <1>9. \A t : Early(t) => Early(t)'
    BY <1>1, <1>3, <1>5, <1>8 DEF ChainView
  <1>10. ASSUME NEW n \in Int, n <= Height PROVE \A h \in 1..n : TxsAt(chain', h) = TxsAt(chain, h)
    BY <1>3, <1>5, <1>10
  <1>11. SearchInv'
    <2> SUFFICES ASSUME q.tx \in K
                 PROVE  /\ q.kind \in ScanDown /\ q.at = "height" => q.tx \in Mined'
                        /\ q.kind \in ScanDown /\ q.at = "scan" =>
                             \/ \E h \in 1..q.i : q.tx \in TxsAt(chain', h)
                             \/ q.kind = "handleGetTransaction" /\ q.top = SearchCap /\ Late(q.tx)'
                        /\ q.kind \in ScanUp /\ q.at = "scan" => \A h \in 1..(q.i - 1) : q.tx \notin TxsAt(chain', h)
                        /\ q.kind = "awaitStake" /\ q.at = "confirm" => \A h \in 1..(q.i - 1) : q.tx \notin TxsAt(chain', h)
                        /\ q.at = "pool" /\ q.kind \in OneTx => \A h \in 1..q.top : q.tx \notin TxsAt(chain', h)
      BY <1>1 DEF SearchInv, MinedUpTo, NotUpTo
    <2>1. SearchInv /\ q.tx \in q.known /\ ScanInChain
      BY DEF QueryInv, TypeInv
    <2> QED BY <1>0, <1>3, <1>6, <1>7, <1>8, <1>10, <2>1, QueryFields DEF SearchInv, MinedUpTo, NotUpTo, ScanInChain
  <1>12. \A h \in 1..q.top : Matches(h)' = Matches(h) /\ Wanted(h)' = Wanted(h)
    <2>1. \A h \in 1..q.top : TxsAt(chain', h) = TxsAt(chain, h)
      BY <1>0, <1>8, <1>10, QueryFields
    <2> QED BY <1>1, <2>1, Zenon DEF Matches, Wanted
  <1>13. /\ \A a \in Int : Listed(a) => Listed(a)'
         /\ \A t : InList(t)' <=> InList(t)
         /\ Asked' \subseteq Asked /\ (NotFull' <=> NotFull)
    BY <1>1, <1>12 DEF Listed, InList, Asked, NotFull
  <1>14. ListInv'
    <2>1. ListInv /\ ScanInChain
      BY DEF QueryInv, TypeInv
    <2>2. /\ q.kind \notin OneTx /\ q.at = "start" => q.seen = {} /\ q.count = 0
          /\ q.kind \in Paged /\ q.at \in {"scan", "pool", "page"} /\ NotFull => Cardinality(q.seen) <= q.count
          /\ q.kind = "handleGetTransactionHistory" /\ q.at = "height" /\ NotFull => Cardinality(q.seen) <= q.count
          /\ q.kind \in {"GetTransactionHistory", "GetRecentTransactions"} /\ q.at = "scan" /\ NotFull =>
               Listed(q.i + 1)'
          /\ q.kind = "GetTransactionHistory" /\ q.at = "pool" /\ NotFull => Listed(1)'
          /\ q.kind = "SearchByAddress" /\ q.at = "scan" /\ NotFull =>
               \A h \in 1..q.top : h >= q.low /\ h > q.i => Matches(h)' \X {h} \subseteq q.seen
          /\ q.kind = "SearchByAddress" /\ q.at = "pool" /\ NotFull => Listed(q.low)'
      BY <1>0, <1>1, <1>12, <1>13, <2>1, QueryFields DEF ListInv, Listed
    <2>3. q.kind = "SearchByAddress" /\ q.at = "page" /\ NotFull =>
             \A t \in Asked' : InList(t)' \/ Late(t)' \/ Early(t)'
      BY <1>6, <1>9, <1>13, <2>1 DEF ListInv
    <2>4. q.kind \in {"handleGetTransactionHistory", "GetFullTransactionHistory"} /\ NotFull =>
             /\ q.at = "height" => \A t \in Asked' : InList(t)' \/ t \in Mined'
             /\ q.at \in {"scan", "page"} => \A t \in Asked' :
                  \/ InList(t)'
                  \/ q.at = "scan" /\ \E h \in 1..q.i : t \in TxsAt(chain', h)
                  \/ q.kind = "handleGetTransactionHistory" /\ q.top = SearchCap /\ Late(t)'
      <3>1. ASSUME q.kind \in {"handleGetTransactionHistory", "GetFullTransactionHistory"}, NotFull, q.at = "scan"
            PROVE  \A h \in 1..q.i : TxsAt(chain', h) = TxsAt(chain, h)
        <4>1. q.i <= q.top
          <5>1. CASE q.kind = "handleGetTransactionHistory"
            BY <2>1, <3>1, <5>1 DEF ScanInChain, ListDown
          <5>2. CASE q.kind = "GetFullTransactionHistory"
            BY <1>0, <2>1, <3>1, <5>2, QueryFields, BoundFacts DEF ScanInChain, NotFull
          <5> QED BY <3>1, <5>1, <5>2
        <4> QED BY <1>0, <1>3, <1>8, <1>10, <4>1, QueryFields
      <3> QED BY <1>6, <1>7, <1>13, <2>1, <3>1 DEF ListInv, MinedUpTo
    <2> QED BY <1>1, <1>13, <2>2, <2>3, <2>4 DEF ListInv, MinedUpTo
  <1>15. RecentInv'
    BY <1>0, <1>1, <1>8, <1>10, QueryFields DEF QueryInv, RecentInv
  <1>16. NothingMissed'
    <2>1. \A t \in Missed' : t \in Missed
      BY <1>1 DEF Missed
    <2> QED BY <1>1, <1>6, <1>9, <2>1 DEF QueryInv, NothingMissed
  <1>17. RecentAreLatest'
    <2>1. \A h \in 1..q.top : chain'[h] = chain[h]
      BY <1>0, <1>3, <1>5, <1>8, QueryFields DEF ChainView
    <2> QED BY <1>1, <2>1 DEF QueryInv, RecentAreLatest
  <1> QED BY <1>4, <1>11, <1>14, <1>15, <1>16, <1>17 DEF QueryInv

\* The four steps of the node.  A mined transaction may leave the mempool, one that is evicted is
\* forgotten by the query.
LEMMA NodeStepKeeps ==
    ASSUME QueryInv,
           \/ \E t \in Txs : AddTransaction(t) \/ Evict(t)
           \/ \E S \in SUBSET (mempool \ Mined) : AppendBlock(S)
           \/ RemoveMined
    PROVE  QueryInv'
  <1>0. TypeOK /\ KnownThere /\ q \in Query /\ mempool \subseteq Txs
    BY DEF QueryInv, TypeInv, TypeOK
  <1>1. Grows
    <2>1. ASSUME NEW S \in SUBSET (mempool \ Mined), AppendBlock(S)
          PROVE  \E T \in SUBSET Txs : Height < MaxHeight /\ chain' = Append(chain, T)
      BY <1>0, <2>1 DEF AppendBlock
    <2>2. CASE chain' = chain
      BY <1>0, <2>2, ChainGrows
    <2> QED BY <1>0, <2>1, <2>2, ChainGrows DEF AddTransaction, Evict, RemoveMined
  <1>2. mempool' \subseteq Txs
    BY <1>0 DEF AddTransaction, Evict, RemoveMined, AppendBlock
  <1>3. PICK K \in SUBSET q.known : q' = [q EXCEPT !.known = K] /\ (q' = q \/ \E t \in Txs : Evict(t) /\ K = q.known \ {t})
    <2>1. ASSUME NEW t \in Txs, Evict(t) PROVE q' = [q EXCEPT !.known = q.known \ {t}]
      BY <2>1 DEF Evict
    <2>2. q = [q EXCEPT !.known = q.known]
      BY <1>0 DEF Query
    <2>3. CASE q' = q
      BY <2>2, <2>3
    <2>4. CASE \E t \in Txs : Evict(t)
      BY <2>1, <2>4
    <2> QED BY <2>3, <2>4 DEF AddTransaction, RemoveMined, AppendBlock
  <1>4. q'.known = K /\ q'.kind = q.kind
    BY <1>0, <1>3 DEF Query
  <1>5. \A t : t \in Mined => t \in Mined'
    <2>1. TypeOK'
      <3>1. q' \in Query
        BY <1>0, <1>3 DEF Query
      <3> QED BY <1>0, <1>1, <1>2, <3>1 DEF TypeOK, Grows, Query
    <2>2. ChainView /\ ChainView'
      BY <1>0, <2>1, ChainFacts, ChainFactsNext
    <2>3. \A h \in 1..Height : h \in 1..Height' /\ TxsAt(chain', h) = TxsAt(chain, h)
      BY <1>1, <2>2 DEF Grows, ChainView
    <2> QED BY <2>2, <2>3 DEF ChainView
  <1>6. K \subseteq mempool' \cup Mined'
    <2>1. ASSUME NEW t \in Txs, Evict(t) PROVE K \subseteq mempool' \cup Mined'
      <3>1. q'.known = q.known \ {t} /\ mempool' = mempool \ {t}
        BY <1>0, <2>1 DEF Evict, Query
      <3> QED BY <1>0, <1>4, <1>5, <3>1 DEF KnownThere
    <2>2. ASSUME q' = q, mempool \subseteq mempool' \cup Mined PROVE K \subseteq mempool' \cup Mined'
      BY <1>0, <1>4, <1>5, <2>2 DEF KnownThere
    <2> QED BY <2>1, <2>2 DEF AddTransaction, RemoveMined, AppendBlock
  <1>7. KnownThere'
    BY <1>0, <1>4, <1>5, <1>6 DEF KnownThere
  <1> QED BY <1>1, <1>2, <1>3, <1>7, NodeKeeps

\* A call starts a query that has read nothing.
LEMMA CallKeeps ==
    ASSUME QueryInv, NEW kind \in Kinds, NEW t \in Txs, NEW off \in Offsets, NEW limit \in Limits,
           Call(kind, t, off, limit)
    PROVE  QueryInv'
  <1>0. TypeOK /\ UNCHANGED <<chain, mempool>> /\ ChainView
    BY ChainFacts DEF QueryInv, TypeInv, Call
  <1>1. Mined \subseteq Txs /\ mempool \subseteq Txs
    BY <1>0 DEF TypeOK, ChainView
  <1>2. /\ q'.kind = kind /\ q'.tx = t /\ q'.off = off /\ q'.limit = limit /\ q'.at = "start"
        /\ q'.known = (IF kind \in ChainOnly THEN Mined ELSE Mined \cup mempool)
        /\ q'.i = 0 /\ q'.top = 0 /\ q'.low = 0 /\ q'.count = 0 /\ q'.seen = {} /\ q'.tries = 0
        /\ q'.answer = "none"
    BY DEF Call, Idle
  <1>3. q' \in Query
    <2> DEFINE K == IF kind \in ChainOnly THEN Mined ELSE Mined \cup mempool
    <2>1. q' = [kind |-> kind, tx |-> t, off |-> off, limit |-> limit, known |-> K, at |-> "start",
                i |-> 0, top |-> 0, low |-> 0, count |-> 0, seen |-> {}, tries |-> 0, answer |-> "none"]
      BY DEF Call, Idle
    <2>2. K \subseteq Txs /\ off \in Nat /\ limit \in Nat /\ 0 \in 0..(Word - 1) /\ 0 \in 0..MaxHeight
      BY <1>1, BoundFacts
    <2>3. "start" \in Stages /\ "none" \in Answers
      BY DEF Stages, Answers
    <2> HIDE DEF K
    <2> QED BY <2>1, <2>2, <2>3 DEF Query
  <1>4. TypeOK'
    BY <1>0, <1>3 DEF TypeOK, Query, Height
  <1>5. TypeInv'
    BY <1>0, <1>2, <1>3, <1>4 DEF TypeInv, ScanInChain, Height, ChainView
  <1>6. KnownThere'
    <2>1. Mined' = Mined
      BY <1>0 DEF Mined, Height
    <2> QED BY <1>0, <1>2, <2>1 DEF KnownThere
  <1>7. SearchInv' /\ ListInv' /\ NothingMissed' /\ RecentAreLatest'
    BY <1>2 DEF SearchInv, ListInv, NothingMissed, RecentAreLatest
  <1>8. RecentInv'
    BY <1>2 DEF RecentInv, Call, Paged
  <1> QED BY <1>5, <1>6, <1>7, <1>8 DEF QueryInv

-----------------------------------------------------------------------------
(* The queries about one transaction. *)

\* What a step of such a query has to keep.
SearchGoal ==
    /\ q' \in Query /\ ScanInChain' /\ SearchInv'
    /\ q.tx \in q.known /\ q'.at = "done" /\ q'.answer \in {"missing", "failed"} =>
         /\ q.kind # "FindTransaction" /\ Late(q.tx)'
         /\ q.kind = "handleGetTransaction" => q'.top = SearchCap

\* The rest of the invariant is about lists.
LEMMA SearchFrame ==
    ASSUME QueryInv, q.kind \in OneTx, UNCHANGED <<chain, mempool>>,
           q'.kind = q.kind, q'.tx = q.tx, q'.known = q.known, SearchGoal
    PROVE  QueryInv'
  <1>1. TypeOK'
    BY DEF QueryInv, TypeInv, TypeOK, Height, SearchGoal, Query
  <1>2. TypeInv'
    BY <1>1 DEF TypeInv, SearchGoal
  <1>3. KnownThere'
    BY DEF QueryInv, KnownThere, Mined, Height
  <1>4. ListInv' /\ RecentInv' /\ RecentAreLatest'
    BY DEF OneTx, ListInv, RecentInv, RecentAreLatest, Paged
  <1>5. NothingMissed'
    <2> SUFFICES ASSUME q'.at = "done", NEW t \in Missed'
                 PROVE  /\ q.kind \notin {"FindTransaction", "GetFullTransactionHistory"}
                        /\ Late(t)'
                        /\ q.kind \in {"handleGetTransaction", "handleGetTransactionHistory"} => q'.top = SearchCap
      BY DEF NothingMissed
    <2>1. t = q.tx /\ t \in q.known /\ q'.answer \in {"missing", "failed"}
      BY DEF Missed
    <2>2. Late(q.tx)' => Late(t)'
      BY <2>1 DEF Late
    <2> QED BY <2>1, <2>2 DEF SearchGoal, OneTx
  <1> QED BY <1>2, <1>3, <1>4, <1>5 DEF QueryInv, SearchGoal

\* What the queries read of the state.
LEMMA ReadFacts ==
    ASSUME QueryInv, UNCHANGED <<chain, mempool>>
    PROVE  /\ ChainView /\ TypeInv /\ q \in Query
           /\ Height' = Height /\ Mined' = Mined
           /\ \A t \in q.known : t \in mempool \/ MinedUpTo(t, Height)
           /\ q.kind \in ChainOnly => \A t \in q.known : MinedUpTo(t, Height)
  <1>1. ChainView /\ TypeInv /\ q \in Query
    BY ChainFacts DEF QueryInv, TypeInv
  <1>2. Height' = Height /\ Mined' = Mined
    BY DEF Height, Mined
  <1> QED BY <1>1, <1>2 DEF QueryInv, KnownThere, ChainView, MinedUpTo

\* An answer that reports the transaction misses nothing.
LEMMA AnswerKeeps ==
    ASSUME QueryInv, q.kind \in OneTx, UNCHANGED <<chain, mempool>>,
           NEW a \in Answers, q' = Answer(a),
           q.tx \in q.known /\ a \in {"missing", "failed"} =>
             /\ q.kind # "FindTransaction" /\ Late(q.tx)
             /\ q.kind = "handleGetTransaction" => q.top = SearchCap
    PROVE  QueryInv'
  <1>1. TypeInv /\ q \in Query /\ Height' = Height
    BY ReadFacts
  <1>2. /\ q' \in Query /\ q'.kind = q.kind /\ q'.tx = q.tx /\ q'.known = q.known /\ q'.at = "done"
        /\ q'.answer = a /\ q'.top = q.top /\ q'.low = q.low
    BY <1>1 DEF Query, Answer, Stages
  <1>3. ScanInChain' /\ SearchInv'
    BY <1>1, <1>2 DEF TypeInv, ScanInChain, SearchInv
  <1>4. Late(q.tx) => Late(q.tx)'
    BY <1>1, <1>2 DEF Late
  <1>5. SearchGoal
    BY <1>2, <1>3, <1>4 DEF SearchGoal
  <1> QED BY <1>2, <1>5, SearchFrame

\* A step that does not answer yet, and what it takes for it to lose nothing.
Moves ==
    /\ q' \in Query /\ q'.kind = q.kind /\ q'.tx = q.tx /\ q'.known = q.known /\ q'.low = q.low
    /\ q'.at # "done" /\ q'.top <= Height

MovesInChain ==
    /\ q'.at = "scan" => /\ q.kind \in ScanDown => q'.i <= q'.top
                         /\ q.kind \in ScanUp => 1 <= q'.i /\ q'.i <= q'.top + 1
    /\ q'.at = "confirm" => /\ q.kind = "awaitStake" => 1 <= q'.i /\ q'.i <= Height + 1
                            /\ q.kind = "shellMonitor" => q'.i <= Height

MovesOn ==
    q.tx \in q.known =>
        /\ q.kind \in ScanDown /\ q'.at = "height" => MinedUpTo(q.tx, Height)
        /\ q.kind \in ScanDown /\ q'.at = "scan" =>
             \/ MinedUpTo(q.tx, q'.i)
             \/ /\ q.kind = "handleGetTransaction" /\ q'.top = SearchCap
                /\ \E h \in 1..Height : h > q'.top /\ q.tx \in TxsAt(chain, h)
        /\ q.kind \in ScanUp /\ q'.at = "scan" => NotUpTo(q'.i - 1)
        /\ q.kind = "awaitStake" /\ q'.at = "confirm" => NotUpTo(q'.i - 1)
        /\ q'.at = "pool" => NotUpTo(q'.top)

\* A step of the search that keeps what is known of it keeps the invariant.
LEMMA SearchMoves ==
    ASSUME QueryInv, q.kind \in OneTx, UNCHANGED <<chain, mempool>>, Moves, MovesInChain, MovesOn
    PROVE  QueryInv'
  <1>1. TypeInv /\ q \in Query /\ Height' = Height /\ Mined' = Mined /\ ChainView
    BY ReadFacts
  <1>2. q.low = 0 /\ q'.top \in Nat
    BY <1>1 DEF TypeInv, ScanInChain, OneTx, Moves, Query
  <1>3. ScanInChain'
    <2>1. q.kind \notin ListDown /\ q.kind # "GetFullTransactionHistory"
      BY DEF OneTx, ListDown
    <2> QED BY <1>1, <1>2, <2>1 DEF ScanInChain, Moves, MovesInChain
  <1>4. TypeOK'
    BY <1>1 DEF TypeInv, TypeOK, Query, Height, Moves
  <1>5. (\E h \in 1..Height : h > q'.top /\ q.tx \in TxsAt(chain, h)) => Late(q.tx)'
    <2>1. \A t : Late(t)' <=> \E h \in 1..Height : h > q'.top /\ t \in TxsAt(chain, h)
      BY <1>1, <1>4, ChainFactsNext DEF ChainView
    <2>2. Late(q.tx)' <=> \E h \in 1..Height : h > q'.top /\ q.tx \in TxsAt(chain, h)
      BY <2>1 DEF Moves
    <2> QED BY <2>2
  <1>6. MinedUpTo(q.tx, Height) => q.tx \in Mined'
    BY <1>1 DEF ChainView, MinedUpTo
  <1>7. SearchInv'
    BY <1>1, <1>5, <1>6 DEF SearchInv, MinedUpTo, NotUpTo, Moves, MovesOn
  <1>8. SearchGoal
    BY <1>3, <1>7 DEF SearchGoal, Moves
  <1> QED BY <1>8, SearchFrame DEF Moves

\* A search of the mempool ends there, or what is known is in the chain.
LEMMA SearchPoolKeeps ==
    ASSUME QueryInv, NEW kind \in {"FindTransaction", "handleGetTransaction"}, SearchPool(kind, "start", "height")
    PROVE  QueryInv'
  <1>0. UNCHANGED <<chain, mempool>> /\ q.kind = kind /\ q.kind \in OneTx
    BY DEF SearchPool, At, OneTx
  <1>1. TypeInv /\ q \in Query /\ ScanInChain /\ \A t \in q.known : t \in mempool \/ MinedUpTo(t, Height)
    BY <1>0, ReadFacts DEF TypeInv
  <1>2. CASE q.tx \in mempool
    BY <1>0, <1>2, AnswerKeeps DEF SearchPool, Answers
  <1>3. CASE q.tx \notin mempool
    <2>1. /\ q' \in Query /\ q'.kind = q.kind /\ q'.tx = q.tx /\ q'.known = q.known /\ q'.low = q.low
          /\ q'.at = "height" /\ q'.top = q.top
      BY <1>1, <1>3 DEF SearchPool, Query, Stages
    <2>2. Moves /\ MovesInChain /\ MovesOn
      BY <1>1, <1>3, <2>1 DEF Moves, MovesInChain, MovesOn, ScanInChain
    <2> QED BY <1>0, <2>2, SearchMoves
  <1> QED BY <1>2, <1>3

\* The height is read when what is known and not pending is in the chain.
LEMMA ReadDownKeeps ==
    ASSUME QueryInv, NEW kind \in ScanDown, NEW top \in Nat,
           top = Height \/ (kind = "handleGetTransaction" /\ top = SearchCap /\ top < Height),
           ReadHeightDown(kind, "height", top)
    PROVE  QueryInv'
  <1>0. UNCHANGED <<chain, mempool>> /\ q.kind = kind /\ q.kind \in OneTx /\ q.at = "height"
    BY DEF ReadHeightDown, At, OneTx, ScanDown
  <1>1. TypeInv /\ q \in Query /\ ChainView /\ SearchInv
    BY <1>0, ReadFacts DEF QueryInv
  <1>2. top \in 0..MaxHeight /\ top \in 0..(Word - 1) /\ top <= Height /\ Height \in Nat
    BY <1>1, BoundFacts DEF ChainView
  <1>3. /\ q' \in Query /\ q'.kind = q.kind /\ q'.tx = q.tx /\ q'.known = q.known /\ q'.low = q.low
        /\ q'.at = "scan" /\ q'.top = top /\ q'.i = top
    BY <1>1, <1>2 DEF ReadHeightDown, Query, Stages
  <1>4. Moves /\ MovesInChain
    BY <1>0, <1>2, <1>3 DEF Moves, MovesInChain, ScanDown, ScanUp
  <1>5. MovesOn
    <2> SUFFICES ASSUME q.tx \in q.known
                 PROVE  \/ MinedUpTo(q.tx, top)
                        \/ /\ q.kind = "handleGetTransaction" /\ top = SearchCap
                           /\ \E h \in 1..Height : h > top /\ q.tx \in TxsAt(chain, h)
      BY <1>0, <1>3 DEF MovesOn, ScanDown, ScanUp
    <2>1. PICK h \in 1..Height : q.tx \in TxsAt(chain, h)
      BY <1>0, <1>1 DEF SearchInv, ChainView
    <2>2. CASE h <= top
      BY <1>2, <2>1, <2>2 DEF MinedUpTo
    <2>3. CASE h > top
      BY <1>0, <1>2, <2>1, <2>3
    <2> QED BY <1>2, <2>2, <2>3
  <1> QED BY <1>0, <1>4, <1>5, SearchMoves

\* A block without the transaction is passed.
LEMMA SearchDownKeeps ==
    ASSUME QueryInv, q.kind \in ScanDown, q.at = "scan", UNCHANGED <<chain, mempool>>,
           q.i > 0, q.tx \notin TxsAt(chain, q.i), q' = [q EXCEPT !.i = @ - 1]
    PROVE  QueryInv'
  <1>1. TypeInv /\ q \in Query /\ ChainView /\ SearchInv /\ ScanInChain /\ q.kind \in OneTx
    BY ReadFacts DEF QueryInv, TypeInv, OneTx, ScanDown
  <1>2. q.i \in Nat /\ q.top \in Nat /\ q.i <= q.top /\ Height \in Nat /\ q.top <= Height
    BY <1>1, QueryFields DEF ScanInChain, ChainView
  <1>3. q.i - 1 \in 0..(Word - 1)
    BY <1>1, <1>2, QueryFields
  <1>4. /\ q' \in Query /\ q'.kind = q.kind /\ q'.tx = q.tx /\ q'.known = q.known /\ q'.low = q.low
        /\ q'.at = "scan" /\ q'.top = q.top /\ q'.i = q.i - 1
    BY <1>1, <1>3 DEF Query
  <1>5. Moves /\ MovesInChain
    BY <1>2, <1>4 DEF Moves, MovesInChain, ScanDown, ScanUp
  <1>6. MovesOn
    <2> SUFFICES ASSUME q.tx \in q.known
                 PROVE  \/ MinedUpTo(q.tx, q.i - 1)
                        \/ /\ q.kind = "handleGetTransaction" /\ q.top = SearchCap
                           /\ \E h \in 1..Height : h > q.top /\ q.tx \in TxsAt(chain, h)
      BY <1>4 DEF MovesOn, ScanDown, ScanUp
    <2>1. CASE MinedUpTo(q.tx, q.i)
      <3>1. PICK h \in 1..q.i : q.tx \in TxsAt(chain, h)
        BY <2>1 DEF MinedUpTo
      <3>2. h \in 1..(q.i - 1)
        BY <1>2, <3>1
      <3> QED BY <3>1, <3>2 DEF MinedUpTo
    <2>2. CASE q.kind = "handleGetTransaction" /\ q.top = SearchCap /\ Late(q.tx)
      BY <1>1, <2>2 DEF ChainView
    <2> QED BY <1>1, <2>1, <2>2 DEF SearchInv
  <1> QED BY <1>1, <1>5, <1>6, SearchMoves

\* At block 0 a scan down has found what was known, or it started too low.
LEMMA SearchDownEnds ==
    ASSUME QueryInv, q.kind \in ScanDown, q.at = "scan", q.i = 0, q.tx \in q.known
    PROVE  q.kind = "handleGetTransaction" /\ q.top = SearchCap /\ Late(q.tx)
  BY DEF QueryInv, SearchInv, MinedUpTo

\* Every step of FindTransaction keeps the invariant.
LEMMA FindTransactionKeeps ==
    ASSUME QueryInv, FindTransaction
    PROVE  QueryInv'
  <1>1. CASE SearchPool("FindTransaction", "start", "height")
    BY <1>1, SearchPoolKeeps
  <1>2. CASE ReadHeightDown("FindTransaction", "height", Height)
    <2>1. Height \in Nat
      BY ChainFacts DEF ChainView, QueryInv, TypeInv
    <2> QED BY <1>2, <2>1, ReadDownKeeps DEF ScanDown
  <1>3. CASE SearchDown("FindTransaction", Answer("confirmed"), Answer("missing"))
    <2>1. q.kind = "FindTransaction" /\ q.at = "scan" /\ UNCHANGED <<chain, mempool>> /\ q.i \in Nat
          /\ q.kind \in ScanDown /\ q.kind \in OneTx
      BY <1>3, QueryFields DEF SearchDown, At, QueryInv, ScanDown, OneTx
    <2>2. CASE q.i = 0
      BY <1>3, <2>1, <2>2, SearchDownEnds, AnswerKeeps DEF SearchDown, Answers
    <2>3. CASE q.i > 0 /\ q.tx \in TxsAt(chain, q.i)
      BY <1>3, <2>1, <2>3, AnswerKeeps DEF SearchDown, Answers
    <2>4. CASE q.i > 0 /\ q.tx \notin TxsAt(chain, q.i)
      BY <1>3, <2>1, <2>4, SearchDownKeeps DEF SearchDown
    <2> QED BY <2>1, <2>2, <2>3, <2>4
  <1> QED BY <1>1, <1>2, <1>3 DEF FindTransaction

\* handleGetTransaction differs in the block it starts from.
LEMMA handleGetTransactionKeeps ==
    ASSUME QueryInv, handleGetTransaction
    PROVE  QueryInv'
  <1>1. CASE SearchPool("handleGetTransaction", "start", "height")
    BY <1>1, SearchPoolKeeps
  <1>2. CASE ReadHeightDown("handleGetTransaction", "height", IF Height > SearchCap THEN SearchCap ELSE Height)
    <2>1. Height \in Nat /\ SearchCap \in Nat
      BY ChainFacts, BoundFacts DEF ChainView, QueryInv, TypeInv
    <2>2. CASE Height > SearchCap
      BY <1>2, <2>1, <2>2, ReadDownKeeps DEF ScanDown
    <2>3. CASE ~(Height > SearchCap)
      BY <1>2, <2>1, <2>3, ReadDownKeeps DEF ScanDown
    <2> QED BY <2>2, <2>3
  <1>3. CASE SearchDown("handleGetTransaction", Answer("confirmed"), Answer("missing"))
    <2>1. q.kind = "handleGetTransaction" /\ q.at = "scan" /\ UNCHANGED <<chain, mempool>> /\ q.i \in Nat
          /\ q.kind \in ScanDown /\ q.kind \in OneTx
      BY <1>3, QueryFields DEF SearchDown, At, QueryInv, ScanDown, OneTx
    <2>2. CASE q.i = 0
      BY <1>3, <2>1, <2>2, SearchDownEnds, AnswerKeeps DEF SearchDown, Answers
    <2>3. CASE q.i > 0 /\ q.tx \in TxsAt(chain, q.i)
      BY <1>3, <2>1, <2>3, AnswerKeeps DEF SearchDown, Answers
    <2>4. CASE q.i > 0 /\ q.tx \notin TxsAt(chain, q.i)
      BY <1>3, <2>1, <2>4, SearchDownKeeps DEF SearchDown
    <2> QED BY <2>1, <2>2, <2>3, <2>4
  <1> QED BY <1>1, <1>2, <1>3 DEF handleGetTransaction

\* A scan up starts with the height and has passed nothing.
LEMMA ReadUpKeeps ==
    ASSUME QueryInv, NEW kind \in ScanUp, ReadHeightUp(kind, "start")
    PROVE  QueryInv'
  <1>0. UNCHANGED <<chain, mempool>> /\ q.kind = kind /\ q.kind \in OneTx
    BY DEF ReadHeightUp, At, OneTx, ScanUp
  <1>1. TypeInv /\ q \in Query /\ ChainView
    BY <1>0, ReadFacts
  <1>2. Height \in 0..MaxHeight /\ 1 \in 0..(Word - 1) /\ Height \in Nat
    BY <1>1, BoundFacts DEF ChainView
  <1>3. /\ q' \in Query /\ q'.kind = q.kind /\ q'.tx = q.tx /\ q'.known = q.known /\ q'.low = q.low
        /\ q'.at = "scan" /\ q'.top = Height /\ q'.i = 1
    BY <1>1, <1>2 DEF ReadHeightUp, Query, Stages
  <1>4. Moves /\ MovesInChain /\ MovesOn
    BY <1>0, <1>2, <1>3 DEF Moves, MovesInChain, MovesOn, NotUpTo, ScanDown, ScanUp
  <1> QED BY <1>0, <1>4, SearchMoves

\* It goes up past a block without the transaction.
LEMMA SearchUpKeeps ==
    ASSUME QueryInv, q.kind \in ScanUp, q.at = "scan", UNCHANGED <<chain, mempool>>,
           q.i <= q.top, q.tx \notin TxsAt(chain, q.i), q' = [q EXCEPT !.i = @ + 1]
    PROVE  QueryInv'
  <1>1. TypeInv /\ q \in Query /\ ChainView /\ SearchInv /\ ScanInChain /\ q.kind \in OneTx
    BY ReadFacts DEF QueryInv, TypeInv, OneTx, ScanUp
  <1>2. q.i \in Nat /\ q.top \in Nat /\ q.i >= 1 /\ Height \in Nat /\ q.top <= Height
    BY <1>1, QueryFields DEF ScanInChain, ChainView
  <1>3. q.i + 1 \in 0..(Word - 1)
    BY <1>1, <1>2, QueryFields
  <1>4. /\ q' \in Query /\ q'.kind = q.kind /\ q'.tx = q.tx /\ q'.known = q.known /\ q'.low = q.low
        /\ q'.at = "scan" /\ q'.top = q.top /\ q'.i = q.i + 1
    BY <1>1, <1>3 DEF Query
  <1>5. Moves /\ MovesInChain
    BY <1>2, <1>4 DEF Moves, MovesInChain, ScanDown, ScanUp
  <1>6. MovesOn
    <2>1. q.tx \in q.known => NotUpTo(q.i - 1)
      BY <1>1 DEF SearchInv
    <2>2. \A h \in 1..q.i : h = q.i \/ h \in 1..(q.i - 1)
      BY <1>2
    <2>3. q.tx \in q.known => NotUpTo(q.i)
      BY <2>1, <2>2 DEF NotUpTo
    <2> QED BY <1>2, <1>4, <2>3 DEF MovesOn, ScanDown, ScanUp
  <1> QED BY <1>1, <1>5, <1>6, SearchMoves

\* At its end no block up to the height it read has the transaction.
LEMMA SearchUpEnds ==
    ASSUME QueryInv, q.kind \in ScanUp, q.at = "scan", q.i > q.top, q.tx \in q.known
    PROVE  NotUpTo(q.top)
  <1>1. q.i = q.top + 1
    BY QueryFields DEF QueryInv, TypeInv, ScanInChain
  <1>2. q.i - 1 = q.top
    BY <1>1, QueryFields DEF QueryInv
  <1> QED BY <1>2 DEF QueryInv, SearchInv

\* A transaction in no block up to that height and no longer pending is in a later block.
LEMMA NotPendingLate ==
    ASSUME QueryInv, q.tx \in q.known, NotUpTo(q.top), q.tx \notin mempool \/ q.kind \in ChainOnly
    PROVE  Late(q.tx)
  <1>1. ChainView /\ TypeInv /\ q.tx \in Mined
    BY ChainFacts DEF QueryInv, TypeInv, KnownThere
  <1>2. PICK h \in 1..Height : q.tx \in TxsAt(chain, h)
    BY <1>1 DEF ChainView
  <1>3. h > q.top
    BY <1>1, <1>2, QueryFields DEF NotUpTo, ChainView
  <1> QED BY <1>1, <1>2, <1>3 DEF ChainView

\* From the scan to the mempool.
LEMMA ToPoolKeeps ==
    ASSUME QueryInv, q.kind \in {"GetTransaction", "monitorTransaction"}, UNCHANGED <<chain, mempool>>,
           q.at = "scan", q.i > q.top, q' = [q EXCEPT !.at = "pool"]
    PROVE  QueryInv'
  <1>1. TypeInv /\ q \in Query /\ ScanInChain /\ q.kind \in OneTx /\ q.kind \in ScanUp
    BY ReadFacts DEF TypeInv, OneTx, ScanUp
  <1>2. /\ q' \in Query /\ q'.kind = q.kind /\ q'.tx = q.tx /\ q'.known = q.known /\ q'.low = q.low
        /\ q'.at = "pool" /\ q'.top = q.top
    BY <1>1 DEF Query, Stages
  <1>3. Moves /\ MovesInChain /\ MovesOn
    BY <1>1, <1>2, SearchUpEnds DEF Moves, MovesInChain, MovesOn, ScanInChain
  <1> QED BY <1>1, <1>3, SearchMoves

\* GetTransaction reads the mempool last.
LEMMA GetTransactionKeeps ==
    ASSUME QueryInv, GetTransaction
    PROVE  QueryInv'
  <1>1. CASE ReadHeightUp("GetTransaction", "start")
    BY <1>1, ReadUpKeeps DEF ScanUp
  <1>2. CASE SearchUp("GetTransaction", [q EXCEPT !.at = "pool"])
    <2>1. q.kind = "GetTransaction" /\ q.at = "scan" /\ UNCHANGED <<chain, mempool>> /\ q.i \in Nat /\ q.top \in Nat
          /\ q.kind \in ScanUp /\ q.kind \in OneTx
      BY <1>2, QueryFields DEF SearchUp, At, QueryInv, ScanUp, OneTx
    <2>2. CASE q.i > q.top
      BY <1>2, <2>1, <2>2, ToPoolKeeps DEF SearchUp
    <2>3. CASE q.i <= q.top /\ q.tx \in TxsAt(chain, q.i)
      BY <1>2, <2>1, <2>3, AnswerKeeps DEF SearchUp, Answers
    <2>4. CASE q.i <= q.top /\ q.tx \notin TxsAt(chain, q.i)
      BY <1>2, <2>1, <2>4, SearchUpKeeps DEF SearchUp
    <2> QED BY <2>1, <2>2, <2>3, <2>4
  <1>3. CASE At("GetTransaction", "pool") /\ q' = Answer(IF q.tx \in mempool THEN "pending" ELSE "missing")
    <2>1. UNCHANGED <<chain, mempool>> /\ q.kind \in OneTx /\ q.kind = "GetTransaction" /\ q.at = "pool"
      BY <1>3 DEF At, OneTx
    <2>2. q.tx \in q.known => NotUpTo(q.top)
      BY <2>1 DEF QueryInv, SearchInv
    <2>3. CASE q.tx \in mempool
      BY <1>3, <2>1, <2>3, AnswerKeeps DEF Answers
    <2>4. CASE q.tx \notin mempool
      BY <1>3, <2>1, <2>2, <2>4, NotPendingLate, AnswerKeeps DEF Answers
    <2> QED BY <2>3, <2>4
  <1> QED BY <1>1, <1>2, <1>3 DEF GetTransaction

\* GetTransactionProof reads no mempool, and is asked about mined transactions.
LEMMA GetTransactionProofKeeps ==
    ASSUME QueryInv, GetTransactionProof
    PROVE  QueryInv'
  <1>1. CASE ReadHeightUp("GetTransactionProof", "start")
    BY <1>1, ReadUpKeeps DEF ScanUp
  <1>2. CASE SearchUp("GetTransactionProof", Answer("missing"))
    <2>1. q.kind = "GetTransactionProof" /\ q.at = "scan" /\ UNCHANGED <<chain, mempool>> /\ q.i \in Nat
          /\ q.top \in Nat /\ q.kind \in ScanUp /\ q.kind \in OneTx /\ q.kind \in ChainOnly
      BY <1>2, QueryFields DEF SearchUp, At, QueryInv, ScanUp, OneTx, ChainOnly
    <2>2. CASE q.i > q.top
      BY <1>2, <2>1, <2>2, SearchUpEnds, NotPendingLate, AnswerKeeps DEF SearchUp, Answers
    <2>3. CASE q.i <= q.top /\ q.tx \in TxsAt(chain, q.i)
      BY <1>2, <2>1, <2>3, AnswerKeeps DEF SearchUp, Answers
    <2>4. CASE q.i <= q.top /\ q.tx \notin TxsAt(chain, q.i)
      BY <1>2, <2>1, <2>4, SearchUpKeeps DEF SearchUp
    <2> QED BY <2>1, <2>2, <2>3, <2>4
  <1> QED BY <1>1, <1>2 DEF GetTransactionProof

\* Another attempt starts over.
LEMMA AgainKeeps ==
    ASSUME QueryInv, q.kind \in OneTx, UNCHANGED <<chain, mempool>>,
           q' = [q EXCEPT !.tries = @ + 1, !.at = "start"]
    PROVE  QueryInv'
  <1>1. TypeInv /\ q \in Query /\ ScanInChain
    BY ReadFacts DEF TypeInv
  <1>2. q.tries + 1 \in Nat
    BY <1>1, QueryFields
  <1>3. /\ q' \in Query /\ q'.kind = q.kind /\ q'.tx = q.tx /\ q'.known = q.known /\ q'.low = q.low
        /\ q'.at = "start" /\ q'.top = q.top
    BY <1>1, <1>2 DEF Query, Stages
  <1>4. Moves /\ MovesInChain /\ MovesOn
    BY <1>1, <1>3 DEF Moves, MovesInChain, MovesOn, ScanInChain
  <1> QED BY <1>4, SearchMoves

\* monitorTransaction gives a transaction up for failed as GetTransaction reports it missing.
LEMMA monitorTransactionKeeps ==
    ASSUME QueryInv, monitorTransaction
    PROVE  QueryInv'
  <1>1. CASE ReadHeightUp("monitorTransaction", "start")
    BY <1>1, ReadUpKeeps DEF ScanUp
  <1>2. CASE SearchUp("monitorTransaction", [q EXCEPT !.at = "pool"])
    <2>1. q.kind = "monitorTransaction" /\ q.at = "scan" /\ UNCHANGED <<chain, mempool>> /\ q.i \in Nat /\ q.top \in Nat
          /\ q.kind \in ScanUp /\ q.kind \in OneTx
      BY <1>2, QueryFields DEF SearchUp, At, QueryInv, ScanUp, OneTx
    <2>2. CASE q.i > q.top
      BY <1>2, <2>1, <2>2, ToPoolKeeps DEF SearchUp
    <2>3. CASE q.i <= q.top /\ q.tx \in TxsAt(chain, q.i)
      BY <1>2, <2>1, <2>3, AnswerKeeps DEF SearchUp, Answers
    <2>4. CASE q.i <= q.top /\ q.tx \notin TxsAt(chain, q.i)
      BY <1>2, <2>1, <2>4, SearchUpKeeps DEF SearchUp
    <2> QED BY <2>1, <2>2, <2>3, <2>4
  <1>3. ASSUME At("monitorTransaction", "pool"),
               q' = IF q.tx \notin mempool /\ q.tries > MonitorGrace THEN Answer("failed")
                    ELSE IF q.tries + 1 = MonitorTries THEN Answer("unknown")
                    ELSE [q EXCEPT !.tries = @ + 1, !.at = "start"]
        PROVE  QueryInv'
    <2>1. UNCHANGED <<chain, mempool>> /\ q.kind \in OneTx /\ q.kind = "monitorTransaction" /\ q.at = "pool"
      BY <1>3 DEF At, OneTx
    <2>2. q.tx \in q.known => NotUpTo(q.top)
      BY <2>1 DEF QueryInv, SearchInv
    <2>3. CASE q' = Answer("failed") /\ q.tx \notin mempool
      BY <2>1, <2>2, <2>3, NotPendingLate, AnswerKeeps DEF Answers
    <2>4. CASE q' = Answer("unknown")
      BY <2>1, <2>4, AnswerKeeps DEF Answers
    <2>5. CASE q' = [q EXCEPT !.tries = @ + 1, !.at = "start"]
      BY <2>1, <2>5, AgainKeeps
    <2> QED BY <1>3, <2>3, <2>4, <2>5
  <1> QED BY <1>1, <1>2, <1>3 DEF monitorTransaction

\* The wait of the stake command goes to the second scan.
LEMMA ToConfirmKeeps ==
    ASSUME QueryInv, q.kind = "awaitStake", UNCHANGED <<chain, mempool>>,
           q' = [q EXCEPT !.at = "confirm", !.i = 1]
    PROVE  QueryInv'
  <1>1. TypeInv /\ q \in Query /\ ScanInChain /\ ChainView /\ 1 \in 0..(Word - 1) /\ q.kind \in OneTx
    BY ReadFacts, BoundFacts DEF TypeInv, OneTx
  <1>2. /\ q' \in Query /\ q'.kind = q.kind /\ q'.tx = q.tx /\ q'.known = q.known /\ q'.low = q.low
        /\ q'.at = "confirm" /\ q'.top = q.top /\ q'.i = 1
    BY <1>1 DEF Query, Stages
  <1>3. Moves /\ MovesInChain /\ MovesOn
    BY <1>1, <1>2 DEF Moves, MovesInChain, MovesOn, ScanInChain, NotUpTo, ScanUp, ChainView
  <1> QED BY <1>1, <1>3, SearchMoves

\* In the second scan, which reads the height again at each block.
LEMMA ConfirmKeeps ==
    ASSUME QueryInv, q.kind = "awaitStake", q.at = "confirm", UNCHANGED <<chain, mempool>>,
           \/ q.i > Height /\ q' = [q EXCEPT !.at = "pool", !.top = Height]
           \/ q.i <= Height /\ q.tx \notin TxsAt(chain, q.i) /\ q' = [q EXCEPT !.i = @ + 1]
    PROVE  QueryInv'
  <1>1. TypeInv /\ q \in Query /\ ScanInChain /\ ChainView /\ q.kind \in OneTx /\ q.kind \notin ScanUp
    BY ReadFacts DEF TypeInv, OneTx, ScanUp
  <1>2. /\ q.i \in Nat /\ q.i >= 1 /\ q.i <= Height + 1 /\ Height \in Nat /\ Height \in 0..MaxHeight
        /\ q.top \in Nat /\ q.top <= Height
    BY <1>1, QueryFields DEF ScanInChain, ChainView
  <1>3. q.tx \in q.known => NotUpTo(q.i - 1)
    BY DEF QueryInv, SearchInv
  <1>4. CASE q.i > Height /\ q' = [q EXCEPT !.at = "pool", !.top = Height]
    <2>1. /\ q' \in Query /\ q'.kind = q.kind /\ q'.tx = q.tx /\ q'.known = q.known /\ q'.low = q.low
          /\ q'.at = "pool" /\ q'.top = Height
      BY <1>1, <1>2, <1>4 DEF Query, Stages
    <2>2. q.i - 1 = Height
      BY <1>2, <1>4
    <2>3. Moves /\ MovesInChain /\ MovesOn
      BY <1>1, <1>2, <1>3, <2>1, <2>2 DEF Moves, MovesInChain, MovesOn
    <2> QED BY <1>1, <2>3, SearchMoves
  <1>5. CASE q.i <= Height /\ q.tx \notin TxsAt(chain, q.i) /\ q' = [q EXCEPT !.i = @ + 1]
    <2>1. q.i + 1 \in 0..(Word - 1)
      BY <1>2, <1>5, BoundFacts
    <2>2. /\ q' \in Query /\ q'.kind = q.kind /\ q'.tx = q.tx /\ q'.known = q.known /\ q'.low = q.low
          /\ q'.at = "confirm" /\ q'.top = q.top /\ q'.i = q.i + 1
      BY <1>1, <1>5, <2>1 DEF Query
    <2>3. \A h \in 1..q.i : h = q.i \/ h \in 1..(q.i - 1)
      BY <1>2
    <2>4. q.tx \in q.known => NotUpTo(q.i)
      BY <1>3, <1>5, <2>3 DEF NotUpTo
    <2>5. (q.i + 1) - 1 = q.i
      BY <1>2
    <2>6. Moves /\ MovesInChain /\ MovesOn
      BY <1>1, <1>2, <1>5, <2>2, <2>4, <2>5 DEF Moves, MovesInChain, MovesOn
    <2> QED BY <1>1, <2>6, SearchMoves
  <1> QED BY <1>4, <1>5

\* The wait of the stake command gives up only what is in a block above the last scan.
LEMMA awaitStakeKeeps ==
    ASSUME QueryInv, awaitStake
    PROVE  QueryInv'
  <1>0. /\ UNCHANGED <<chain, mempool>> /\ q.kind = "awaitStake" /\ q.kind \in OneTx /\ q.kind \in ScanDown
        /\ TypeInv /\ q \in Query /\ ScanInChain /\ ChainView
        /\ \A t \in q.known : t \in mempool \/ MinedUpTo(t, Height)
    <2>1. UNCHANGED <<chain, mempool>> /\ q.kind = "awaitStake"
      BY DEF awaitStake, At, ReadHeightDown, SearchDown
    <2> QED BY <2>1, ReadFacts DEF TypeInv, OneTx, ScanDown
  <1>1. ASSUME At("awaitStake", "start"),
               q' = IF q.tx \in mempool THEN [q EXCEPT !.at = "confirm", !.i = 1] ELSE [q EXCEPT !.at = "height"]
        PROVE  QueryInv'
    <2>1. CASE q.tx \in mempool
      BY <1>0, <1>1, <2>1, ToConfirmKeeps
    <2>2. CASE q.tx \notin mempool
      <3>1. /\ q' \in Query /\ q'.kind = q.kind /\ q'.tx = q.tx /\ q'.known = q.known /\ q'.low = q.low
            /\ q'.at = "height" /\ q'.top = q.top
        BY <1>0, <1>1, <2>2 DEF Query, Stages
      <3>2. Moves /\ MovesInChain /\ MovesOn
        BY <1>0, <2>2, <3>1 DEF Moves, MovesInChain, MovesOn, ScanInChain
      <3> QED BY <1>0, <3>2, SearchMoves
    <2> QED BY <2>1, <2>2
  <1>2. CASE ReadHeightDown("awaitStake", "height", Height)
    BY <1>0, <1>2, ReadDownKeeps DEF ChainView
  <1>3. CASE SearchDown("awaitStake", [q EXCEPT !.at = "confirm", !.i = 1], [q EXCEPT !.at = "pool"])
    <2>1. q.at = "scan" /\ q.i \in Nat
      BY <1>0, <1>3, QueryFields DEF SearchDown, At
    <2>2. CASE q.i = 0
      <3>1. q' = [q EXCEPT !.at = "pool"]
        BY <1>3, <2>2 DEF SearchDown
      <3>2. /\ q' \in Query /\ q'.kind = q.kind /\ q'.tx = q.tx /\ q'.known = q.known /\ q'.low = q.low
            /\ q'.at = "pool" /\ q'.top = q.top
        BY <1>0, <3>1 DEF Query, Stages
      <3>3. q.tx \notin q.known
        BY <1>0, <2>1, <2>2, SearchDownEnds
      <3>4. Moves /\ MovesInChain /\ MovesOn
        BY <1>0, <3>2, <3>3 DEF Moves, MovesInChain, MovesOn, ScanInChain
      <3> QED BY <1>0, <3>4, SearchMoves
    <2>3. CASE q.i > 0 /\ q.tx \in TxsAt(chain, q.i)
      BY <1>0, <1>3, <2>1, <2>3, ToConfirmKeeps DEF SearchDown
    <2>4. CASE q.i > 0 /\ q.tx \notin TxsAt(chain, q.i)
      BY <1>0, <1>3, <2>1, <2>4, SearchDownKeeps DEF SearchDown
    <2> QED BY <2>1, <2>2, <2>3, <2>4
  <1>4. ASSUME At("awaitStake", "confirm"),
               q' = CASE q.i > Height -> [q EXCEPT !.at = "pool", !.top = Height]
                      [] q.i <= Height /\ q.tx \in TxsAt(chain, q.i) -> Answer("confirmed")
                      [] OTHER -> [q EXCEPT !.i = @ + 1]
        PROVE  QueryInv'
    <2>1. q.at = "confirm" /\ q.i \in Nat /\ Height \in Nat
      BY <1>0, <1>4, QueryFields DEF At, ChainView
    <2>2. CASE q.i > Height
      BY <1>0, <1>4, <2>1, <2>2, ConfirmKeeps
    <2>3. CASE q.i <= Height /\ q.tx \in TxsAt(chain, q.i)
      BY <1>0, <1>4, <2>1, <2>3, AnswerKeeps DEF Answers
    <2>4. CASE q.i <= Height /\ q.tx \notin TxsAt(chain, q.i)
      BY <1>0, <1>4, <2>1, <2>4, ConfirmKeeps
    <2> QED BY <2>1, <2>2, <2>3, <2>4
  <1>5. ASSUME At("awaitStake", "pool"),
               q' = IF q.tx \notin mempool THEN Answer("failed")
                    ELSE IF q.tries + 1 = StakeTries THEN Answer("unknown")
                    ELSE [q EXCEPT !.tries = @ + 1, !.at = "start"]
        PROVE  QueryInv'
    <2>1. q.tx \in q.known => NotUpTo(q.top)
      BY <1>0, <1>5 DEF At, QueryInv, SearchInv
    <2>2. CASE q' = Answer("failed") /\ q.tx \notin mempool
      BY <1>0, <2>1, <2>2, NotPendingLate, AnswerKeeps DEF Answers
    <2>3. CASE q' = Answer("unknown")
      BY <1>0, <2>3, AnswerKeeps DEF Answers
    <2>4. CASE q' = [q EXCEPT !.tries = @ + 1, !.at = "start"]
      BY <1>0, <2>4, AgainKeeps
    <2> QED BY <1>5, <2>2, <2>3, <2>4
  <1> QED BY <1>1, <1>2, <1>3, <1>4, <1>5 DEF awaitStake

\* The monitor of the TXNS shell reports nothing as missing.
LEMMA shellMonitorKeeps ==
    ASSUME QueryInv, shellMonitor
    PROVE  QueryInv'
  <1>0. /\ UNCHANGED <<chain, mempool>> /\ q.kind = "shellMonitor" /\ q.kind \in OneTx /\ q.kind \notin ScanDown
        /\ q.kind \notin ScanUp /\ TypeInv /\ q \in Query /\ ScanInChain /\ ChainView
    <2>1. UNCHANGED <<chain, mempool>> /\ q.kind = "shellMonitor"
      BY DEF shellMonitor, At
    <2> QED BY <2>1, ReadFacts DEF TypeInv, OneTx, ScanDown, ScanUp
  <1>1. Height \in Nat /\ Height \in 0..MaxHeight /\ Height \in 0..(Word - 1) /\ q.tries + 1 \in Nat
        /\ q.i \in Nat /\ q.top \in Nat /\ q.top <= Height
    BY <1>0, QueryFields DEF ChainView, ScanInChain
  <1>2. ASSUME q' \in Query, q'.kind = q.kind, q'.tx = q.tx, q'.known = q.known, q'.low = q.low,
               q'.at \in {"height", "confirm"}, q'.top <= Height, q'.at = "confirm" => q'.i <= Height
        PROVE  QueryInv'
    <2>1. Moves /\ MovesInChain /\ MovesOn
      BY <1>0, <1>2 DEF Moves, MovesInChain, MovesOn
    <2> QED BY <1>0, <2>1, SearchMoves
  <1>3. CASE At("shellMonitor", "start") /\ q' = [q EXCEPT !.at = "height", !.top = Height]
    <2>1. /\ q' \in Query /\ q'.kind = q.kind /\ q'.tx = q.tx /\ q'.known = q.known /\ q'.low = q.low
          /\ q'.at = "height" /\ q'.top = Height
      BY <1>0, <1>1, <1>3 DEF Query, Stages
    <2> QED BY <1>1, <1>2, <2>1
  <1>4. ASSUME At("shellMonitor", "height"),
               q' = IF q.tries = ShellLooks THEN Answer("unknown")
                    ELSE IF Height > q.top
                    THEN [q EXCEPT !.at = "confirm", !.i = Height, !.tries = @ + 1]
                    ELSE [q EXCEPT !.tries = @ + 1]
        PROVE  QueryInv'
    <2>1. CASE q' = Answer("unknown")
      BY <1>0, <2>1, AnswerKeeps DEF Answers
    <2>2. CASE q' = [q EXCEPT !.at = "confirm", !.i = Height, !.tries = @ + 1]
      <3>1. /\ q' \in Query /\ q'.kind = q.kind /\ q'.tx = q.tx /\ q'.known = q.known /\ q'.low = q.low
            /\ q'.at = "confirm" /\ q'.top = q.top /\ q'.i = Height
        BY <1>0, <1>1, <2>2 DEF Query, Stages
      <3> QED BY <1>1, <1>2, <3>1
    <2>3. CASE q' = [q EXCEPT !.tries = @ + 1]
      <3>1. /\ q' \in Query /\ q'.kind = q.kind /\ q'.tx = q.tx /\ q'.known = q.known /\ q'.low = q.low
            /\ q'.at = "height" /\ q'.top = q.top
        BY <1>0, <1>1, <1>4, <2>3 DEF Query, At
      <3> QED BY <1>1, <1>2, <3>1
    <2> QED BY <1>4, <2>1, <2>2, <2>3
  <1>5. ASSUME At("shellMonitor", "confirm"),
               q' = IF q.tx \in TxsAt(chain, Height) THEN Answer("confirmed")
                    ELSE [q EXCEPT !.at = "height", !.top = q.i]
        PROVE  QueryInv'
    <2>1. CASE q' = Answer("confirmed")
      BY <1>0, <2>1, AnswerKeeps DEF Answers
    <2>2. CASE q' = [q EXCEPT !.at = "height", !.top = q.i]
      <3>1. q.i <= Height /\ q.i \in 0..MaxHeight
        BY <1>0, <1>1, <1>5, BoundFacts DEF At, ScanInChain
      <3>2. /\ q' \in Query /\ q'.kind = q.kind /\ q'.tx = q.tx /\ q'.known = q.known /\ q'.low = q.low
            /\ q'.at = "height" /\ q'.top = q.i
        BY <1>0, <2>2, <3>1 DEF Query, Stages
      <3> QED BY <1>2, <3>1, <3>2
    <2> QED BY <1>5, <2>1, <2>2
  <1> QED BY <1>3, <1>4, <1>5 DEF shellMonitor

-----------------------------------------------------------------------------
(* The queries that list. *)

\* n entries of a finite set are all of them if it has no more than n.
LEMMA SomeFacts ==
    ASSUME NEW S, IsFiniteSet(S), NEW n \in Nat, NEW T \in Some(S, n)
    PROVE  /\ T \subseteq S /\ IsFiniteSet(T) /\ Cardinality(T) \in Nat /\ Cardinality(S) \in Nat
           /\ Cardinality(T) <= n /\ Cardinality(T) <= Cardinality(S)
           /\ Cardinality(S) <= n => T = S
           /\ n < Cardinality(S) => Cardinality(T) = n
  <1>1. T \subseteq S /\ Cardinality(T) = IF n < Cardinality(S) THEN n ELSE Cardinality(S)
    BY DEF Some
  <1>2. Cardinality(S) \in Nat
    BY FS_CardinalityType
  <1>3. IsFiniteSet(T) /\ Cardinality(T) <= Cardinality(S) /\ (Cardinality(S) = Cardinality(T) => S = T)
    BY <1>1, FS_Subset
  <1> QED BY <1>1, <1>2, <1>3

\* A list grows by at most the transactions that are added to it.
LEMMA SeenGrows ==
    ASSUME NEW seen, IsFiniteSet(seen), NEW S, IsFiniteSet(S), NEW h
    PROVE  /\ Cardinality(seen) \in Nat /\ Cardinality(S) \in Nat
           /\ IsFiniteSet(S \X {h}) /\ Cardinality(S \X {h}) = Cardinality(S)
           /\ IsFiniteSet(seen \cup (S \X {h})) /\ Cardinality(seen \cup (S \X {h})) \in Nat
           /\ Cardinality(seen \cup (S \X {h})) <= Cardinality(seen) + Cardinality(S)
  <1>1. Cardinality(seen) \in Nat /\ Cardinality(S) \in Nat
    BY FS_CardinalityType
  <1>2. IsFiniteSet({h}) /\ Cardinality({h}) = 1
    BY FS_Singleton
  <1> DEFINE P == S \X {h}
  <1>3. IsFiniteSet(P) /\ Cardinality(P) = Cardinality(S)
    <2>1. IsFiniteSet(S \X {h}) /\ Cardinality(S \X {h}) = Cardinality(S) * Cardinality({h})
      BY <1>2, FS_Product, Zenon
    <2>2. Cardinality(S) * 1 = Cardinality(S)
      BY <1>1
    <2> QED BY <1>2, <2>1, <2>2
  <1> HIDE DEF P
  <1>4. /\ IsFiniteSet(seen \cup P)
        /\ Cardinality(seen \cup P) = Cardinality(seen) + Cardinality(P) - Cardinality(seen \cap P)
    BY <1>3, FS_Union
  <1>5. Cardinality(seen \cap P) \in Nat
    BY <1>3, FS_Intersection, FS_CardinalityType
  <1>6. Cardinality(seen \cup P) <= Cardinality(seen) + Cardinality(S)
    BY <1>1, <1>3, <1>4, <1>5
  <1>7. Cardinality(seen \cup P) \in Nat
    BY <1>4, FS_CardinalityType
  <1> QED BY <1>1, <1>3, <1>4, <1>6, <1>7 DEF P

\* Everything that is listed or counted is finite.
LEMMA ListsFinite ==
    ASSUME QueryInv
    PROVE  /\ IsFiniteSet(q.seen) /\ Cardinality(q.seen) \in Nat
           /\ \A h : /\ Matches(h) \subseteq Txs /\ IsFiniteSet(Matches(h)) /\ Cardinality(Matches(h)) \in Nat
                     /\ IsFiniteSet(TxsAt(chain, h)) /\ Cardinality(TxsAt(chain, h)) \in Nat
           /\ mempool \cap Touching \subseteq Txs /\ IsFiniteSet(mempool \cap Touching)
           /\ Cardinality(mempool \cap Touching) \in Nat
  <1>1. TypeInv /\ ChainView /\ TypeOK /\ IsFiniteSet(Txs)
    BY ChainFacts, StatisticsAssumption DEF QueryInv, TypeInv
  <1>2. IsFiniteSet(0..MaxHeight)
    BY FS_Interval, BoundFacts
  <1>3. IsFiniteSet(Txs \X (0..MaxHeight))
    BY <1>1, <1>2, FS_Product
  <1>4. IsFiniteSet(q.seen)
    BY <1>1, <1>3, FS_Subset, QueryFields
  <1>5. \A h : TxsAt(chain, h) \subseteq Txs /\ Matches(h) \subseteq Txs
    BY <1>1 DEF ChainView, Matches
  <1>6. mempool \cap Touching \subseteq Txs
    BY <1>1 DEF TypeOK
  <1>7. \A S : S \subseteq Txs => IsFiniteSet(S) /\ Cardinality(S) \in Nat
    BY <1>1, FS_Subset, FS_CardinalityType
  <1>8. Cardinality(q.seen) \in Nat
    BY <1>4, FS_CardinalityType
  <1> QED BY <1>4, <1>5, <1>6, <1>7, <1>8

\* A step of a list that goes on.
LEMMA ListMoves ==
    ASSUME QueryInv, q.kind \notin OneTx, UNCHANGED <<chain, mempool>>,
           q' \in Query, q'.kind = q.kind, q'.known = q.known, q'.at # "done",
           ScanInChain', ListInv', RecentInv'
    PROVE  QueryInv'
  <1>1. TypeOK'
    BY DEF QueryInv, TypeInv, TypeOK, Height, Query
  <1>2. TypeInv'
    BY <1>1 DEF TypeInv
  <1>3. KnownThere'
    BY DEF QueryInv, KnownThere, Mined, Height
  <1>4. SearchInv' /\ NothingMissed' /\ RecentAreLatest'
    BY DEF OneTx, ScanDown, ScanUp, SearchInv, NothingMissed, RecentAreLatest
  <1> QED BY <1>2, <1>3, <1>4 DEF QueryInv

\* The answer of one: an entry that is missing is excused.
LEMMA ListAnswers ==
    ASSUME QueryInv, q.kind \notin OneTx, UNCHANGED <<chain, mempool>>,
           NEW seen \in SUBSET (Txs \X (0..MaxHeight)), NEW count \in Nat,
           q' = [Answer("list") EXCEPT !.seen = seen, !.count = count],
           \/ q.off > 0
           \/ count >= IF q.kind = "GetFullTransactionHistory" THEN MaxResults ELSE q.limit
           \/ \A t \in q.known :
                 (t \in Touching \/ q.kind = "GetRecentTransactions") =>
                    \/ \E h \in 0..MaxHeight : <<t, h>> \in seen
                    \/ /\ q.kind # "GetFullTransactionHistory"
                       /\ Late(t) \/ (q.kind = "SearchByAddress" /\ Early(t))
                       /\ q.kind = "handleGetTransactionHistory" => q.top = SearchCap,
           q.kind = "GetRecentTransactions" =>
              \A e \in seen, h \in 1..q.top : h > e[2] => \A t \in TxsAt(chain, h) : <<t, h>> \in seen
    PROVE  QueryInv'
  <1>0. TypeInv /\ q \in Query /\ ChainView /\ Height' = Height
    BY ReadFacts
  <1>1. /\ q' \in Query /\ q'.kind = q.kind /\ q'.known = q.known /\ q'.at = "done" /\ q'.off = q.off
        /\ q'.limit = q.limit /\ q'.count = count /\ q'.seen = seen /\ q'.top = q.top /\ q'.low = q.low
    BY <1>0 DEF Query, Answer, Stages, Answers
  <1>2. TypeOK'
    BY <1>1 DEF QueryInv, TypeInv, TypeOK, Height, Query
  <1>3. TypeInv'
    BY <1>0, <1>1, <1>2 DEF TypeInv, ScanInChain
  <1>4. KnownThere'
    BY <1>1 DEF QueryInv, KnownThere, Mined, Height
  <1>5. SearchInv'
    BY <1>1 DEF OneTx, ScanDown, ScanUp, SearchInv
  <1>6. ListInv' /\ RecentInv'
    BY <1>1 DEF QueryInv, ListInv, RecentInv
  <1>7. NothingMissed'
    <2> SUFFICES ASSUME NEW t \in Missed'
                 PROVE  /\ q.kind \notin {"FindTransaction", "GetFullTransactionHistory"}
                        /\ Late(t)' \/ (q.kind = "SearchByAddress" /\ Early(t)')
                        /\ q.kind \in {"handleGetTransaction", "handleGetTransactionHistory"} => q.top = SearchCap
      BY <1>1 DEF NothingMissed
    <2>1. /\ ~(q.off > 0) /\ ~(count >= IF q.kind = "GetFullTransactionHistory" THEN MaxResults ELSE q.limit)
          /\ t \in q.known /\ (t \in Touching \/ q.kind = "GetRecentTransactions")
          /\ \A h \in 0..MaxHeight : <<t, h>> \notin seen
      BY <1>1 DEF Missed
    <2>2. (Late(t) => Late(t)') /\ (Early(t) => Early(t)')
      BY <1>0, <1>1 DEF Late, Early
    <2> QED BY <2>1, <2>2 DEF OneTx
  <1>8. RecentAreLatest'
    <2>1. \A h \in 1..q.top : chain[h] = TxsAt(chain, h)
      BY <1>0, QueryFields DEF ChainView, TypeInv, ScanInChain
    <2> QED BY <1>1, <2>1 DEF RecentAreLatest
  <1> QED BY <1>3, <1>4, <1>5, <1>6, <1>7, <1>8 DEF QueryInv

\* The fields of a list query, and the parts of the invariant it reads.
LEMMA ListFields ==
    ASSUME QueryInv, q.kind \notin OneTx, UNCHANGED <<chain, mempool>>
    PROVE  /\ TypeInv /\ q \in Query /\ ChainView /\ ScanInChain /\ ListInv /\ RecentInv
           /\ Height' = Height /\ Mined' = Mined /\ Height \in Nat /\ Height <= MaxHeight
           /\ q.off \in Nat /\ q.limit \in Nat /\ q.count \in Nat /\ q.i \in Nat /\ q.top \in Nat
           /\ q.low \in Nat /\ q.top <= Height /\ q.low <= q.top
           /\ q.seen \subseteq Txs \X (0..MaxHeight)
           /\ \A h : TxsAt(chain, h)' = TxsAt(chain, h) /\ Matches(h)' = Matches(h)
  <1>1. TypeInv /\ q \in Query /\ ChainView /\ ScanInChain /\ ListInv /\ RecentInv
        /\ Height' = Height /\ Mined' = Mined
    BY ReadFacts DEF QueryInv, TypeInv
  <1>2. /\ q.off \in Nat /\ q.limit \in Nat /\ q.count \in Nat /\ q.i \in Nat /\ q.top \in Nat
        /\ q.low \in Nat /\ q.seen \subseteq Txs \X (0..MaxHeight)
    BY <1>1, QueryFields
  <1>3. Height \in Nat /\ Height <= MaxHeight /\ q.top <= Height /\ q.low <= q.top
    BY <1>1 DEF ChainView, ScanInChain
  <1>4. \A h : TxsAt(chain, h)' = TxsAt(chain, h) /\ Matches(h)' = Matches(h)
    BY DEF TxsAt, Matches
  <1> QED BY <1>1, <1>2, <1>3, <1>4

\* GetTransactionHistory reads a block: while the list is not full nothing of it is left out.
LEMMA HistoryScanKeeps ==
    ASSUME QueryInv, At("GetTransactionHistory", "scan"), q.i # 0, q.count < q.limit + q.off,
           NEW T \in Some(Matches(q.i), q.limit + q.off - q.count),
           NEW S \in Some(Matches(q.i), IF q.off > q.count THEN q.off - q.count ELSE 0),
           q' = [q EXCEPT !.i = @ - 1, !.count = @ + Cardinality(T), !.seen = @ \cup ((T \ S) \X {q.i})]
    PROVE  QueryInv'
  <1>0. UNCHANGED <<chain, mempool>> /\ q.kind = "GetTransactionHistory" /\ q.at = "scan" /\ q.kind \notin OneTx
    BY DEF At, OneTx
  <1>1. /\ TypeInv /\ q \in Query /\ ScanInChain /\ ListInv /\ Height' = Height /\ Height <= MaxHeight /\ Height \in Nat
        /\ q.off \in Nat /\ q.limit \in Nat /\ q.count \in Nat /\ q.i \in Nat /\ q.top \in Nat
        /\ q.seen \subseteq Txs \X (0..MaxHeight) /\ q.top <= Height
        /\ \A h : Matches(h)' = Matches(h)
    BY <1>0, ListFields
  <1>2. q.i <= q.top /\ q.i \in 0..MaxHeight /\ q.i - 1 \in 0..(Word - 1) /\ q.i - 1 \in Nat
    BY <1>0, <1>1, BoundFacts DEF ScanInChain, ListDown
  <1>3. /\ Matches(q.i) \subseteq Txs /\ IsFiniteSet(Matches(q.i)) /\ IsFiniteSet(q.seen)
        /\ Cardinality(q.seen) \in Nat
    BY ListsFinite
  <1>4. q.limit + q.off - q.count \in Nat
    BY <1>1
  <1>5. /\ T \subseteq Matches(q.i) /\ IsFiniteSet(T) /\ Cardinality(T) \in Nat
        /\ Cardinality(T) < q.limit + q.off - q.count => T = Matches(q.i)
    BY <1>3, <1>4, SomeFacts
  <1>6. q.seen \cup ((T \ S) \X {q.i}) \subseteq Txs \X (0..MaxHeight) /\ q.count + Cardinality(T) \in Nat
    BY <1>1, <1>2, <1>3, <1>5
  <1>7. /\ q' \in Query /\ q'.kind = q.kind /\ q'.known = q.known /\ q'.at = "scan" /\ q'.off = q.off
        /\ q'.limit = q.limit /\ q'.top = q.top /\ q'.low = q.low /\ q'.i = q.i - 1
        /\ q'.count = q.count + Cardinality(T) /\ q'.seen = q.seen \cup ((T \ S) \X {q.i})
    BY <1>0, <1>1, <1>2, <1>6 DEF Query
  <1>8. ScanInChain'
    BY <1>0, <1>1, <1>2, <1>7 DEF ScanInChain, ListDown, ScanDown, ScanUp
  <1>9. ASSUME NotFull' PROVE Cardinality(q'.seen) <= q'.count /\ Listed(q.i + 1)'
    <2>1. q.off = 0 /\ q.count + Cardinality(T) < q.limit /\ NotFull
      BY <1>0, <1>1, <1>5, <1>7, <1>9 DEF NotFull
    <2>2. T = Matches(q.i)
      BY <1>1, <1>5, <2>1
    <2>3. S = {}
      <3>1. S \in Some(Matches(q.i), 0)
        BY <1>1, <2>1
      <3>2. IsFiniteSet(S) /\ Cardinality(S) <= 0 /\ Cardinality(S) \in Nat
        BY <1>3, <3>1, SomeFacts
      <3> QED BY <3>2, FS_EmptySet
    <2>4. q'.seen = q.seen \cup (Matches(q.i) \X {q.i})
      BY <1>7, <2>2, <2>3
    <2>5. Cardinality(q.seen) <= q.count /\ Listed(q.i + 1)
      BY <1>0, <1>1, <2>1 DEF ListInv, Paged
    <2>6. Cardinality(q'.seen) \in Nat /\ Cardinality(q'.seen) <= Cardinality(q.seen) + Cardinality(Matches(q.i))
      BY <1>3, <2>4, SeenGrows
    <2>7. \A h \in 1..q.top : h >= q.i => Matches(h) \X {h} \subseteq q'.seen
      <3>1. \A h \in 1..q.top : h >= q.i + 1 => Matches(h) \X {h} \subseteq q.seen
        BY <1>0, <2>5 DEF Listed, Wanted
      <3>2. \A h \in 1..q.top : h >= q.i => h = q.i \/ h >= q.i + 1
        BY <1>1
      <3> QED BY <2>4, <3>1, <3>2
    <2>8. Listed(q.i + 1)'
      <3>1. q'.i + 1 = q.i
        BY <1>1, <1>7
      <3> QED BY <1>0, <1>1, <1>7, <2>7, <3>1 DEF Listed, Wanted
    <2> QED BY <1>1, <1>3, <1>5, <1>7, <2>2, <2>5, <2>6, <2>8
  <1>10. ListInv' /\ RecentInv'
    BY <1>0, <1>7, <1>9 DEF ListInv, RecentInv, Paged
  <1> QED BY <1>0, <1>7, <1>8, <1>10, ListMoves

\* A list that starts at the latest block has left nothing out yet.
LEMMA FromTheTopKeeps ==
    ASSUME QueryInv, NEW kind \in {"GetTransactionHistory", "GetRecentTransactions"},
           ReadHeightDown(kind, "start", Height)
    PROVE  QueryInv'
  <1>0. UNCHANGED <<chain, mempool>> /\ q.kind = kind /\ q.at = "start" /\ q.kind \notin OneTx
        /\ q' = [q EXCEPT !.at = "scan", !.top = Height, !.i = Height]
    BY DEF ReadHeightDown, At, OneTx
  <1>1. /\ q \in Query /\ ScanInChain /\ ListInv /\ RecentInv /\ Height' = Height /\ Height <= MaxHeight
        /\ Height \in Nat /\ q.low \in Nat /\ q.low <= q.top /\ q.count \in Nat
    BY <1>0, ListFields
  <1>2. Height \in 0..MaxHeight /\ Height \in 0..(Word - 1)
    BY <1>1, BoundFacts
  <1>3. /\ q' \in Query /\ q'.kind = kind /\ q'.known = q.known /\ q'.at = "scan" /\ q'.off = q.off
        /\ q'.top = Height /\ q'.low = q.low /\ q'.i = Height /\ q'.count = q.count /\ q'.seen = q.seen
    BY <1>0, <1>1, <1>2 DEF Query, Stages
  <1>4. q.seen = {} /\ Cardinality(q.seen) <= q.count
    BY <1>0, <1>1, FS_EmptySet DEF ListInv
  <1>5. q.low = 0
    BY <1>0, <1>1 DEF ScanInChain
  <1>6. ScanInChain'
    BY <1>1, <1>3, <1>5 DEF ScanInChain, ScanUp
  <1>7. Listed(q.i + 1)'
    BY <1>1, <1>3 DEF Listed
  <1>8. ListInv'
    BY <1>3, <1>4, <1>7 DEF ListInv, Paged
  <1>9. RecentInv'
    BY <1>0, <1>1, <1>3, <1>4 DEF RecentInv
  <1> QED BY <1>0, <1>3, <1>6, <1>8, <1>9, ListMoves

\* The end of the scan of GetTransactionHistory: block 1 was read, or the list is full.
LEMMA HistoryScanEnds ==
    ASSUME QueryInv, At("GetTransactionHistory", "scan"), q.i = 0 \/ q.count >= q.limit + q.off,
           q' = [q EXCEPT !.at = "pool"]
    PROVE  QueryInv'
  <1>0. UNCHANGED <<chain, mempool>> /\ q.kind = "GetTransactionHistory" /\ q.at = "scan" /\ q.kind \notin OneTx
    BY DEF At, OneTx
  <1>1. /\ q \in Query /\ ScanInChain /\ ListInv /\ Height' = Height
        /\ q.off \in Nat /\ q.limit \in Nat /\ q.count \in Nat /\ q.i \in Nat /\ q.top \in Nat
        /\ \A h : Matches(h)' = Matches(h)
    BY <1>0, ListFields
  <1>2. /\ q' \in Query /\ q'.kind = q.kind /\ q'.known = q.known /\ q'.at = "pool" /\ q'.off = q.off
        /\ q'.limit = q.limit /\ q'.top = q.top /\ q'.low = q.low /\ q'.count = q.count /\ q'.seen = q.seen
    BY <1>0, <1>1 DEF Query, Stages
  <1>3. ScanInChain'
    BY <1>1, <1>2 DEF ScanInChain
  <1>4. ASSUME NotFull' PROVE Cardinality(q'.seen) <= q'.count /\ Listed(1)'
    <2>1. NotFull /\ q.i = 0
      BY <1>0, <1>1, <1>2, <1>4 DEF NotFull
    <2>2. Cardinality(q.seen) <= q.count /\ Listed(q.i + 1)
      BY <1>0, <1>1, <2>1 DEF ListInv, Paged
    <2>3. q.i + 1 = 1
      BY <2>1
    <2>4. Listed(1)
      BY <2>2, <2>3
    <2> QED BY <1>0, <1>1, <1>2, <2>2, <2>4 DEF Listed, Wanted
  <1>5. ListInv' /\ RecentInv'
    BY <1>0, <1>2, <1>4 DEF ListInv, RecentInv, Paged
  <1> QED BY <1>0, <1>2, <1>3, <1>5, ListMoves

\* A list that ends as it is.
LEMMA AnswerAsIs ==
    ASSUME q \in Query, q' = Answer("list")
    PROVE  q' = [Answer("list") EXCEPT !.seen = q.seen, !.count = q.count]
  BY DEF Query, Answer

\* The last step of GetTransactionHistory: the pending transactions go in front, and a list that is
\* not full keeps all of the mined ones.
LEMMA HistoryPoolKeeps ==
    ASSUME QueryInv, At("GetTransactionHistory", "pool"), ~(q.off > 0),
           NEW T \in Some((mempool \cap Touching) \X {0},
                          IF Cardinality(q.seen) < q.limit THEN q.limit - Cardinality(q.seen) ELSE 1),
           NEW U \in Some(q.seen, q.limit - Cardinality(T)),
           q' = [Answer("list") EXCEPT !.seen = T \cup U,
                                       !.count = @ + Cardinality((mempool \cap Touching) \X {0})]
    PROVE  QueryInv'
  <1> DEFINE P == mempool \cap Touching
             pending == P \X {0}
             room == IF Cardinality(q.seen) < q.limit THEN q.limit - Cardinality(q.seen) ELSE 1
             count == q.count + Cardinality(pending)
  <1>0. UNCHANGED <<chain, mempool>> /\ q.kind = "GetTransactionHistory" /\ q.at = "pool" /\ q.kind \notin OneTx
    BY DEF At, OneTx
  <1>1. /\ q \in Query /\ ListInv /\ ChainView /\ q.off \in Nat /\ q.limit \in Nat /\ q.count \in Nat
        /\ q.seen \subseteq Txs \X (0..MaxHeight) /\ q.top \in Nat /\ q.top <= Height /\ Height <= MaxHeight
        /\ Height \in Nat
    BY <1>0, ListFields
  <1>2. IsFiniteSet(q.seen) /\ Cardinality(q.seen) \in Nat /\ IsFiniteSet(P) /\ P \subseteq Txs
    BY ListsFinite
  <1>3. IsFiniteSet(pending) /\ Cardinality(pending) \in Nat
    BY <1>2, SeenGrows
  <1>4. room \in Nat /\ T \in Some(pending, room)
    BY <1>1, <1>2
  <1>5. T \subseteq pending /\ IsFiniteSet(T) /\ Cardinality(T) \in Nat /\ (Cardinality(pending) <= room => T = pending)
    BY <1>3, <1>4, SomeFacts
  <1>6. U \subseteq q.seen
    BY DEF Some
  <1>7. T \cup U \subseteq Txs \X (0..MaxHeight)
    <2>1. pending \subseteq Txs \X (0..MaxHeight)
      BY <1>2, BoundFacts
    <2> QED BY <1>1, <1>5, <1>6, <2>1
  <1>8. count \in Nat /\ q' = [Answer("list") EXCEPT !.seen = T \cup U, !.count = count]
    <2>1. Answer("list").count = q.count
      BY <1>1 DEF Answer, Query
    <2>2. \A a, b \in Nat : a + b \in Nat
      OBVIOUS
    <2>3. count \in Nat
      BY <1>1, <1>3, <2>2, Zenon
    <2> QED BY <2>1, <2>3
  <1>9. ASSUME ~(count >= q.limit), NEW t \in q.known, t \in Touching
        PROVE  (\E h \in 0..MaxHeight : <<t, h>> \in T \cup U) \/ Late(t)
    <2>1. NotFull /\ q.count + Cardinality(pending) < q.limit
      BY <1>0, <1>1, <1>3, <1>9 DEF NotFull
    <2>2. Cardinality(q.seen) <= q.count /\ Listed(1)
      BY <1>0, <1>1, <2>1 DEF ListInv, Paged
    <2>3. T = pending
      BY <1>1, <1>2, <1>3, <1>5, <2>1, <2>2
    <2>4. U = q.seen
      <3>1. q.limit - Cardinality(T) \in Nat /\ Cardinality(q.seen) <= q.limit - Cardinality(T)
        BY <1>1, <1>2, <1>3, <2>1, <2>2, <2>3
      <3> QED BY <1>2, <3>1, SomeFacts
    <2>5. CASE t \in mempool
      <3>1. <<t, 0>> \in T
        BY <1>9, <2>3, <2>5
      <3> QED BY <3>1, BoundFacts
    <2>6. CASE MinedUpTo(t, Height)
      <3>1. PICK h \in 1..Height : t \in TxsAt(chain, h)
        BY <2>6 DEF MinedUpTo
      <3>2. CASE h <= q.top
        <4>1. h \in 1..q.top /\ h >= 1 /\ h \in 0..MaxHeight
          BY <1>1, <3>2, BoundFacts
        <4>2. Matches(h) \X {h} \subseteq q.seen
          BY <1>0, <2>2, <4>1 DEF Listed, Wanted
        <4>3. <<t, h>> \in q.seen
          BY <1>9, <3>1, <4>2 DEF Matches
        <4> QED BY <2>4, <4>1, <4>3
      <3>3. CASE h > q.top
        BY <1>1, <3>1, <3>3 DEF ChainView
      <3> QED BY <1>1, <3>2, <3>3
    <2> QED BY <1>0, <2>5, <2>6, ReadFacts
  <1> HIDE DEF count
  <1> QED BY <1>0, <1>7, <1>8, <1>9, ListAnswers

\* TransactionAPI.GetTransactionHistory: a first page that is not full has every transaction of the
\* address that is pending or in a block up to the height read at the start.
LEMMA GetTransactionHistoryKeeps ==
    ASSUME QueryInv, GetTransactionHistory
    PROVE  QueryInv'
  <1>1. CASE ReadHeightDown("GetTransactionHistory", "start", Height)
    BY <1>1, FromTheTopKeeps
  <1>2. ASSUME At("GetTransactionHistory", "scan"), q.i = 0 \/ q.count >= q.limit + q.off,
               q' = [q EXCEPT !.at = "pool"]
        PROVE  QueryInv'
    BY <1>2, HistoryScanEnds
  <1>3. ASSUME At("GetTransactionHistory", "scan"), ~(q.i = 0 \/ q.count >= q.limit + q.off),
               NEW T \in Some(Matches(q.i), q.limit + q.off - q.count),
               NEW S \in Some(Matches(q.i), IF q.off > q.count THEN q.off - q.count ELSE 0),
               q' = [q EXCEPT !.i = @ - 1, !.count = @ + Cardinality(T), !.seen = @ \cup ((T \ S) \X {q.i})]
        PROVE  QueryInv'
    <2>1. TypeInv /\ q.count \in Nat /\ q.limit \in Nat /\ q.off \in Nat
      BY QueryFields DEF QueryInv
    <2>2. q.i # 0 /\ q.count < q.limit + q.off
      BY <1>3, <2>1
    <2> QED BY <1>3, <2>2, HistoryScanKeeps
  <1>4. ASSUME At("GetTransactionHistory", "pool"), q.off > 0, q' = Answer("list") PROVE QueryInv'
    <2>1. UNCHANGED <<chain, mempool>> /\ q.kind = "GetTransactionHistory" /\ q.kind \notin OneTx
      BY <1>4 DEF At, OneTx
    <2>2. TypeInv /\ q \in Query /\ q.count \in Nat /\ q.seen \in SUBSET (Txs \X (0..MaxHeight))
      BY QueryFields DEF QueryInv, TypeInv
    <2> QED BY <1>4, <2>1, <2>2, AnswerAsIs, ListAnswers
  <1>5. ASSUME At("GetTransactionHistory", "pool"), ~(q.off > 0),
               NEW T \in Some((mempool \cap Touching) \X {0},
                              IF Cardinality(q.seen) < q.limit THEN q.limit - Cardinality(q.seen) ELSE 1),
               NEW U \in Some(q.seen, q.limit - Cardinality(T)),
               q' = [Answer("list") EXCEPT !.seen = T \cup U,
                                           !.count = @ + Cardinality((mempool \cap Touching) \X {0})]
        PROVE  QueryInv'
    BY <1>5, HistoryPoolKeeps
  <1> QED BY <1>1, <1>2, <1>3, <1>4, <1>5, Zenon DEF GetTransactionHistory

\* The entries of a block are in the chain, also where the height has run round its range.
LEMMA EntriesThere ==
    ASSUME QueryInv
    PROVE  /\ \A h \in Nat : Matches(h) \X {h} \subseteq Txs \X (0..MaxHeight)
           /\ \A h \in Nat : TxsAt(chain, h) \X {h} \subseteq Txs \X (0..MaxHeight)
           /\ \A S : S \subseteq Txs => S \X {0} \subseteq Txs \X (0..MaxHeight)
  <1>1. ChainView /\ MaxHeight \in Nat
    BY ChainFacts, BoundFacts DEF QueryInv, TypeInv
  <1>2. ASSUME NEW h \in Nat PROVE TxsAt(chain, h) = {} \/ h \in 0..MaxHeight
    BY <1>1 DEF TxsAt, ChainView, Height
  <1>3. ASSUME NEW h \in Nat PROVE TxsAt(chain, h) \X {h} \subseteq Txs \X (0..MaxHeight)
    BY <1>1, <1>2 DEF ChainView
  <1>4. ASSUME NEW h \in Nat PROVE Matches(h) \X {h} \subseteq TxsAt(chain, h) \X {h}
    BY DEF Matches
  <1> QED BY <1>1, <1>3, <1>4

\* The two lists that begin with the mempool.
PoolFirst == {"handleGetTransactionHistory", "GetFullTransactionHistory"}

\* What is asked for and not pending is in the chain by now.
LEMMA PoolListed ==
    ASSUME QueryInv, NEW kind \in PoolFirst, ListPool(kind, "start", "height")
    PROVE  QueryInv'
  <1> DEFINE P == mempool \cap Touching
  <1>0. UNCHANGED <<chain, mempool>> /\ q.kind = kind /\ q.at = "start" /\ q.kind \notin OneTx
        /\ q' = [q EXCEPT !.at = "height", !.seen = @ \cup (P \X {0}), !.count = @ + Cardinality(P)]
    BY DEF ListPool, At, OneTx, PoolFirst
  <1>1. /\ q \in Query /\ ScanInChain /\ ListInv /\ ChainView /\ Height' = Height /\ Mined' = Mined /\ q.count \in Nat
        /\ q.seen \subseteq Txs \X (0..MaxHeight)
    BY <1>0, ListFields
  <1>2. /\ IsFiniteSet(P) /\ P \subseteq Txs /\ Cardinality(P) \in Nat /\ IsFiniteSet(q.seen)
        /\ Cardinality(q.seen) \in Nat
    BY ListsFinite
  <1>3. q.seen \cup (P \X {0}) \subseteq Txs \X (0..MaxHeight) /\ q.count + Cardinality(P) \in Nat
    BY <1>1, <1>2, EntriesThere
  <1>4. /\ q' \in Query /\ q'.kind = kind /\ q'.known = q.known /\ q'.at = "height" /\ q'.top = q.top
        /\ q'.low = q.low /\ q'.count = q.count + Cardinality(P) /\ q'.seen = q.seen \cup (P \X {0})
    <2> HIDE DEF P
    <2> QED BY <1>0, <1>1, <1>3 DEF Query, Stages
  <1>5. Cardinality(q'.seen) <= q'.count
    <2>1. q.seen = {} /\ q.count = 0 /\ Cardinality(q.seen) = 0
      BY <1>0, <1>1, FS_EmptySet DEF ListInv
    <2> HIDE DEF P
    <2>2. /\ Cardinality(q.seen \cup (P \X {0})) \in Nat
          /\ Cardinality(q.seen \cup (P \X {0})) <= Cardinality(q.seen) + Cardinality(P)
      BY <1>2, SeenGrows
    <2> QED BY <1>2, <1>4, <2>1, <2>2
  <1>6. \A t \in Asked' : InList(t)' \/ t \in Mined'
    <2> SUFFICES ASSUME NEW t \in q.known, t \in Touching, t \notin Mined
                 PROVE  \E h \in 0..MaxHeight : <<t, h>> \in q'.seen
      BY <1>1, <1>4 DEF Asked, InList
    <2>1. t \in P
      BY DEF QueryInv, KnownThere
    <2>2. <<t, 0>> \in q'.seen /\ 0 \in 0..MaxHeight
      BY <1>4, <2>1, BoundFacts
    <2> QED BY <2>2
  <1>7. ScanInChain'
    BY <1>0, <1>1, <1>4 DEF ScanInChain
  <1>8. ListInv' /\ RecentInv'
    BY <1>4, <1>5, <1>6 DEF ListInv, RecentInv, PoolFirst
  <1> QED BY <1>0, <1>4, <1>7, <1>8, ListMoves

\* The height is read after the mempool: what is not listed is in a block below, or the search is
\* capped below it.
LEMMA PoolHeightRead ==
    ASSUME QueryInv, NEW kind \in PoolFirst, NEW top, ReadHeightDown(kind, "height", top),
           top = Height \/ (kind = "handleGetTransactionHistory" /\ top = SearchCap /\ SearchCap < Height)
    PROVE  QueryInv'
  <1>0. UNCHANGED <<chain, mempool>> /\ q.kind = kind /\ q.at = "height" /\ q.kind \notin OneTx
        /\ q' = [q EXCEPT !.at = "scan", !.top = top, !.i = top]
    BY DEF ReadHeightDown, At, OneTx, PoolFirst
  <1>1. /\ q \in Query /\ ScanInChain /\ ListInv /\ ChainView /\ Height' = Height /\ q.count \in Nat
        /\ Height <= MaxHeight /\ Height \in Nat
        /\ \A h : TxsAt(chain, h)' = TxsAt(chain, h)
    BY <1>0, ListFields
  <1>2. top \in 0..MaxHeight /\ top \in 0..(Word - 1) /\ top <= Height /\ top \in Nat
    BY <1>1, BoundFacts
  <1>3. /\ q' \in Query /\ q'.kind = kind /\ q'.known = q.known /\ q'.at = "scan" /\ q'.off = q.off
        /\ q'.limit = q.limit /\ q'.i = top /\ q'.top = top /\ q'.low = q.low /\ q'.count = q.count
        /\ q'.seen = q.seen
    BY <1>0, <1>1, <1>2 DEF Query, Stages
  <1>4. q.low = 0
    BY <1>0, <1>1 DEF ScanInChain, PoolFirst
  <1>5. ScanInChain'
    BY <1>1, <1>2, <1>3, <1>4 DEF ScanInChain, PoolFirst, ScanUp
  <1>6. ASSUME NotFull', NEW t \in q.known, t \in Touching
        PROVE  \/ InList(t)' \/ MinedUpTo(t, q.i)'
               \/ kind = "handleGetTransactionHistory" /\ top = SearchCap /\ Late(t)'
    <2>1. NotFull
      BY <1>0, <1>3, <1>6 DEF NotFull
    <2>2. InList(t) \/ t \in Mined
      BY <1>0, <1>1, <1>6, <2>1 DEF ListInv, Asked, PoolFirst
    <2>3. CASE InList(t)
      BY <1>3, <2>3 DEF InList
    <2>4. CASE t \in Mined
      <3>1. PICK h \in 1..Height : t \in TxsAt(chain, h)
        BY <1>1, <2>4 DEF ChainView
      <3>2. CASE h <= top
        <4>1. h \in 1..top
          BY <1>2, <3>2
        <4> QED BY <1>1, <1>3, <3>1, <4>1 DEF MinedUpTo
      <3>3. CASE h > top
        <4>1. h \in (top + 1)..Height /\ t \in chain[h]
          BY <1>1, <1>2, <3>1, <3>3 DEF ChainView
        <4>2. Late(t)'
          BY <1>0, <1>1, <1>3, <4>1 DEF Late
        <4> QED BY <1>1, <3>1, <3>3, <4>2
      <3> QED BY <1>2, <3>2, <3>3
    <2> QED BY <2>2, <2>3, <2>4
  <1>7. ASSUME NotFull', kind = "handleGetTransactionHistory" PROVE Cardinality(q'.seen) <= q'.count
    BY <1>0, <1>1, <1>3, <1>7 DEF NotFull, ListInv
  <1>8. ListInv' /\ RecentInv'
    BY <1>3, <1>6, <1>7 DEF ListInv, RecentInv, PoolFirst, Paged, Asked
  <1> QED BY <1>0, <1>3, <1>5, <1>8, ListMoves

\* A transaction of the block at i is listed with it, one further down is still to come.
LEMMA BlockListed ==
    ASSUME QueryInv, q.i \in Nat, q.i > 0, q.i <= q.top, NEW seen, Matches(q.i) \X {q.i} \subseteq seen,
           q.seen \subseteq seen, NEW t \in Touching, InList(t) \/ MinedUpTo(t, q.i)
    PROVE  (\E h \in 0..MaxHeight : <<t, h>> \in seen) \/ MinedUpTo(t, q.i - 1)
  <1>0. TypeInv /\ ChainView
    BY ChainFacts DEF QueryInv, TypeInv
  <1>1. q.top \in Nat /\ q.top <= MaxHeight
    BY <1>0, QueryFields
  <1>2. CASE InList(t)
    BY <1>2 DEF InList
  <1>3. CASE MinedUpTo(t, q.i)
    <2>1. PICK h \in 1..q.i : t \in TxsAt(chain, h)
      BY <1>3 DEF MinedUpTo
    <2>2. CASE h = q.i
      <3>1. <<t, h>> \in seen
        BY <2>1, <2>2 DEF Matches
      <3>2. h \in 0..MaxHeight
        BY <1>1, <2>2, BoundFacts
      <3> QED BY <3>1, <3>2
    <2>3. CASE h # q.i
      <3>1. h \in 1..(q.i - 1)
        BY <2>3
      <3> QED BY <2>1, <3>1 DEF MinedUpTo
    <2> QED BY <2>2, <2>3
  <1> QED BY <1>2, <1>3

\* Such a list takes all of a block and goes on below it.
LEMMA PoolScanKeeps ==
    ASSUME QueryInv, NEW kind \in PoolFirst, At(kind, "scan"), q.i > 0,
           q' = [q EXCEPT !.i = @ - 1, !.count = @ + Cardinality(Matches(q.i)),
                          !.seen = @ \cup (Matches(q.i) \X {q.i})]
    PROVE  QueryInv'
  <1> DEFINE hit == Matches(q.i)
  <1>0. UNCHANGED <<chain, mempool>> /\ q.kind = kind /\ q.at = "scan" /\ q.kind \notin OneTx
    BY DEF At, OneTx, PoolFirst
  <1>1. /\ TypeInv /\ q \in Query /\ ScanInChain /\ ListInv /\ Height' = Height /\ q.count \in Nat /\ q.off \in Nat
        /\ q.limit \in Nat /\ q.i \in Nat /\ q.top \in Nat /\ q.seen \subseteq Txs \X (0..MaxHeight)
        /\ \A h : TxsAt(chain, h)' = TxsAt(chain, h)
    BY <1>0, ListFields
  <1>2. q.i - 1 \in 0..(Word - 1) /\ q.i - 1 \in Nat
    BY <1>1, QueryFields
  <1>3. IsFiniteSet(hit) /\ Cardinality(hit) \in Nat /\ IsFiniteSet(q.seen) /\ Cardinality(q.seen) \in Nat
    BY ListsFinite
  <1>4. q.seen \cup (hit \X {q.i}) \subseteq Txs \X (0..MaxHeight) /\ q.count + Cardinality(hit) \in Nat
    BY <1>1, <1>3, EntriesThere
  <1>5. /\ q' \in Query /\ q'.kind = kind /\ q'.known = q.known /\ q'.at = "scan" /\ q'.off = q.off
        /\ q'.limit = q.limit /\ q'.i = q.i - 1 /\ q'.top = q.top /\ q'.low = q.low
        /\ q'.count = q.count + Cardinality(hit) /\ q'.seen = q.seen \cup (hit \X {q.i})
    <2> DEFINE i == q.i - 1
               count == q.count + Cardinality(hit)
               seen == q.seen \cup (hit \X {q.i})
    <2>1. q' = [q EXCEPT !.i = i, !.count = count, !.seen = seen]
      OBVIOUS
    <2>2. i \in 0..(Word - 1) /\ count \in Nat /\ seen \in SUBSET (Txs \X (0..MaxHeight))
      BY <1>2, <1>4
    <2>3. /\ q' \in Query /\ q'.kind = q.kind /\ q'.known = q.known /\ q'.at = q.at /\ q'.off = q.off
          /\ q'.limit = q.limit /\ q'.top = q.top /\ q'.low = q.low /\ q'.i = i /\ q'.count = count /\ q'.seen = seen
      <3>1. q \in Query
        BY <1>1
      <3> HIDE DEF i, count, seen
      <3> QED BY <2>1, <2>2, <3>1 DEF Query
    <2> QED BY <1>0, <2>3
  <1> HIDE DEF hit
  <1>6. ScanInChain'
    BY <1>0, <1>1, <1>3, <1>5, BoundFacts DEF ScanInChain, PoolFirst, ScanDown, ScanUp, ListDown
  <1>7. ASSUME NotFull'
        PROVE  /\ kind = "handleGetTransactionHistory" => Cardinality(q'.seen) <= q'.count
               /\ \A t \in Asked : \/ InList(t)' \/ MinedUpTo(t, q.i)'
                                   \/ kind = "handleGetTransactionHistory" /\ q.top = SearchCap /\ Late(t)'
    <2>1. NotFull
      BY <1>0, <1>1, <1>3, <1>5, <1>7, BoundFacts DEF NotFull
    <2>2. q.i <= q.top
      BY <1>0, <1>1, <2>1, BoundFacts DEF NotFull, ScanInChain, PoolFirst, ListDown
    <2>3. ASSUME kind = "handleGetTransactionHistory" PROVE Cardinality(q'.seen) <= q'.count
      <3>1. Cardinality(q.seen) <= q.count
        BY <1>0, <1>1, <2>1, <2>3 DEF ListInv, Paged
      <3>2. Cardinality(q'.seen) \in Nat /\ Cardinality(q'.seen) <= Cardinality(q.seen) + Cardinality(hit)
        BY <1>3, <1>5, SeenGrows
      <3> QED BY <1>1, <1>3, <1>5, <3>1, <3>2
    <2>4. ASSUME NEW t \in Asked
          PROVE  \/ InList(t)' \/ MinedUpTo(t, q.i)'
                 \/ kind = "handleGetTransactionHistory" /\ q.top = SearchCap /\ Late(t)'
      <3>1. InList(t) \/ MinedUpTo(t, q.i) \/ (kind = "handleGetTransactionHistory" /\ q.top = SearchCap /\ Late(t))
        BY <1>0, <1>1, <2>1, <2>4 DEF ListInv, PoolFirst
      <3>2. CASE InList(t) \/ MinedUpTo(t, q.i)
        <4>1. (\E h \in 0..MaxHeight : <<t, h>> \in q'.seen) \/ MinedUpTo(t, q.i - 1)
          <5>1. t \in Touching /\ q.seen \subseteq q'.seen /\ Matches(q.i) \X {q.i} \subseteq q'.seen
            BY <1>5, <2>4 DEF Asked, hit
          <5> QED BY <1>1, <2>2, <3>2, <5>1, BlockListed
        <4> QED BY <1>1, <1>5, <4>1 DEF InList, MinedUpTo
      <3>3. CASE kind = "handleGetTransactionHistory" /\ q.top = SearchCap /\ Late(t)
        BY <1>0, <1>1, <1>5, <3>3 DEF Late
      <3> QED BY <3>1, <3>2, <3>3
    <2> QED BY <2>3, <2>4
  <1>8. Asked' = Asked
    BY <1>5 DEF Asked
  <1>9. ListInv' /\ RecentInv'
    BY <1>5, <1>7, <1>8 DEF ListInv, RecentInv, PoolFirst, Paged
  <1> QED BY <1>0, <1>5, <1>6, <1>9, ListMoves

\* handleGetTransactionHistory ends its scan at block 1, or when the list is full.
LEMMA PoolScanEnds ==
    ASSUME QueryInv, At("handleGetTransactionHistory", "scan"),
           NEW seen \in SUBSET (Txs \X (0..MaxHeight)), NEW count \in Nat,
           \/ q.i = 0 /\ seen = q.seen /\ count = q.count
           \/ count >= q.limit + q.off,
           q' = [q EXCEPT !.at = "page", !.count = count, !.seen = seen]
    PROVE  QueryInv'
  <1>0. UNCHANGED <<chain, mempool>> /\ q.kind = "handleGetTransactionHistory" /\ q.at = "scan" /\ q.kind \notin OneTx
    BY DEF At, OneTx
  <1>1. /\ q \in Query /\ ScanInChain /\ ListInv /\ Height' = Height /\ q.off \in Nat /\ q.limit \in Nat
    BY <1>0, ListFields
  <1>2. /\ q' \in Query /\ q'.kind = q.kind /\ q'.known = q.known /\ q'.at = "page" /\ q'.off = q.off
        /\ q'.limit = q.limit /\ q'.top = q.top /\ q'.low = q.low /\ q'.count = count /\ q'.seen = seen
    BY <1>0, <1>1 DEF Query, Stages
  <1>3. ScanInChain'
    BY <1>1, <1>2 DEF ScanInChain
  <1>4. ASSUME NotFull'
        PROVE  /\ Cardinality(q'.seen) <= q'.count
               /\ \A t \in Asked' : InList(t)' \/ (q'.top = SearchCap /\ Late(t)')
    <2>1. NotFull /\ q.i = 0 /\ seen = q.seen /\ count = q.count
      BY <1>0, <1>1, <1>2, <1>4 DEF NotFull
    <2>2. Cardinality(q.seen) <= q.count
      BY <1>0, <1>1, <2>1 DEF ListInv, Paged
    <2>3. ASSUME NEW t \in Asked' PROVE InList(t)' \/ (q'.top = SearchCap /\ Late(t)')
      <3>1. t \in Asked
        BY <1>2 DEF Asked
      <3>2. InList(t) \/ MinedUpTo(t, q.i) \/ (q.top = SearchCap /\ Late(t))
        BY <1>0, <1>1, <2>1, <3>1 DEF ListInv
      <3>3. ~MinedUpTo(t, q.i)
        BY <2>1 DEF MinedUpTo
      <3> QED BY <1>0, <1>1, <1>2, <2>1, <3>2, <3>3 DEF InList, Late
    <2> QED BY <1>2, <2>1, <2>2, <2>3
  <1>5. ListInv' /\ RecentInv'
    BY <1>0, <1>2, <1>4 DEF ListInv, RecentInv, Paged
  <1> QED BY <1>0, <1>2, <1>3, <1>5, ListMoves

\* A page that is not full is the whole list.
LEMMA PageKeeps ==
    ASSUME QueryInv, NEW kind \in {"handleGetTransactionHistory", "SearchByAddress"}, Page(kind)
    PROVE  QueryInv'
  <1>0. UNCHANGED <<chain, mempool>> /\ q.kind = kind /\ q.at = "page" /\ q.kind \notin OneTx
    BY DEF Page, At, OneTx
  <1>1. /\ q \in Query /\ ListInv /\ q.off \in Nat /\ q.limit \in Nat /\ q.count \in Nat
        /\ q.seen \subseteq Txs \X (0..MaxHeight)
    BY <1>0, ListFields
  <1>2. IsFiniteSet(q.seen) /\ Cardinality(q.seen) \in Nat
    BY ListsFinite
  <1> DEFINE left == IF q.off < Cardinality(q.seen) THEN Cardinality(q.seen) - q.off ELSE 0
             size == IF left < q.limit THEN left ELSE q.limit
  <1>3. PICK T \in Some(q.seen, size) : q' = [Answer("list") EXCEPT !.seen = T]
    BY DEF Page
  <1>4. size \in Nat /\ (q.off = 0 /\ Cardinality(q.seen) <= q.limit => Cardinality(q.seen) <= size)
    BY <1>1, <1>2
  <1> HIDE DEF size
  <1>5. T \subseteq q.seen /\ (Cardinality(q.seen) <= size => T = q.seen)
    BY <1>2, <1>3, <1>4, SomeFacts
  <1>6. q' = [Answer("list") EXCEPT !.seen = T, !.count = q.count] /\ T \in SUBSET (Txs \X (0..MaxHeight))
    BY <1>1, <1>3, <1>5 DEF Answer, Query
  <1>7. ASSUME ~(q.off > 0), ~(q.count >= q.limit), NEW t \in q.known, t \in Touching
        PROVE  \/ \E h \in 0..MaxHeight : <<t, h>> \in T
               \/ Late(t) /\ (kind = "handleGetTransactionHistory" => q.top = SearchCap)
               \/ kind = "SearchByAddress" /\ Early(t)
    <2>1. NotFull
      BY <1>0, <1>1, <1>7 DEF NotFull
    <2>2. Cardinality(q.seen) <= q.count
      BY <1>0, <1>1, <2>1 DEF ListInv, Paged
    <2>3. T = q.seen
      BY <1>1, <1>2, <1>4, <1>5, <1>7, <2>2
    <2>4. t \in Asked
      BY <1>7 DEF Asked
    <2> QED BY <1>0, <1>1, <2>1, <2>3, <2>4 DEF ListInv, InList
  <1> QED BY <1>0, <1>1, <1>6, <1>7, ListAnswers

\* RPCServer.handleGetTransactionHistory: a page that is not full leaves out only what is in a block
\* above maxSearchHeight.
LEMMA handleGetTransactionHistoryKeeps ==
    ASSUME QueryInv, handleGetTransactionHistory
    PROVE  QueryInv'
  <1> DEFINE kind == "handleGetTransactionHistory"
             top == IF Height > SearchCap THEN SearchCap ELSE Height
             hit == Matches(q.i)
             done == [q EXCEPT !.at = "page"]
             full == [q EXCEPT !.at = "page", !.count = @ + Cardinality(hit), !.seen = @ \cup (hit \X {q.i})]
             more == [q EXCEPT !.i = @ - 1, !.count = @ + Cardinality(hit), !.seen = @ \cup (hit \X {q.i})]
  <1>0. kind \in PoolFirst /\ TypeInv /\ ChainView
    BY ChainFacts DEF PoolFirst, QueryInv, TypeInv
  <1>1. CASE ListPool(kind, "start", "height")
    BY <1>0, <1>1, PoolListed
  <1>2. CASE ReadHeightDown(kind, "height", top)
    <2>1. top = Height \/ (top = SearchCap /\ SearchCap < Height)
      BY <1>0, BoundFacts DEF ChainView
    <2> QED BY <1>0, <1>2, <2>1, PoolHeightRead
  <1>3. ASSUME At(kind, "scan"),
               q' = CASE q.i = 0 -> done
                      [] q.i > 0 /\ q.count + Cardinality(hit) >= q.limit + q.off -> full
                      [] OTHER -> more
        PROVE  QueryInv'
    <2>1. q \in Query /\ q.i \in Nat /\ q.count \in Nat /\ q.seen \in SUBSET (Txs \X (0..MaxHeight))
      BY <1>0, QueryFields DEF TypeInv
    <2>2. Cardinality(hit) \in Nat
      BY ListsFinite
    <2>3. CASE q.i = 0
      <3>1. q' = [q EXCEPT !.at = "page", !.count = q.count, !.seen = q.seen]
        <4>1. q' = [q EXCEPT !.at = "page"]
          BY <1>3, <2>3
        <4> QED BY <2>1, <4>1 DEF Query
      <3> QED BY <1>3, <2>1, <2>3, <3>1, PoolScanEnds
    <2>4. CASE q.i > 0 /\ q.count + Cardinality(hit) >= q.limit + q.off
      <3>1. q.seen \cup (hit \X {q.i}) \in SUBSET (Txs \X (0..MaxHeight)) /\ q.count + Cardinality(hit) \in Nat
        BY <2>1, <2>2, EntriesThere
      <3>2. q' = [q EXCEPT !.at = "page", !.count = q.count + Cardinality(hit), !.seen = q.seen \cup (hit \X {q.i})]
        BY <1>3, <2>1, <2>4
      <3> HIDE DEF hit
      <3> QED BY <1>3, <2>4, <3>1, <3>2, PoolScanEnds
    <2>5. CASE q.i > 0 /\ ~(q.count + Cardinality(hit) >= q.limit + q.off)
      <3>1. q' = more
        BY <1>3, <2>1, <2>5
      <3> QED BY <1>0, <1>3, <2>5, <3>1, PoolScanKeeps
    <2> QED BY <2>1, <2>3, <2>4, <2>5
  <1>4. CASE Page(kind)
    BY <1>4, PageKeeps
  <1> QED BY <1>1, <1>2, <1>3, <1>4 DEF handleGetTransactionHistory

\* GetFullTransactionHistory reaches MaxResults: from then on it may leave entries out.
LEMMA FullListKeeps ==
    ASSUME QueryInv, At("GetFullTransactionHistory", "scan"), NEW T \in SUBSET Matches(q.i),
           q' = [q EXCEPT !.i = Minus(0, 1), !.count = MaxResults, !.seen = @ \cup (T \X {q.i})]
    PROVE  QueryInv'
  <1>0. UNCHANGED <<chain, mempool>> /\ q.kind = "GetFullTransactionHistory" /\ q.at = "scan" /\ q.kind \notin OneTx
    BY DEF At, OneTx
  <1>1. /\ q \in Query /\ ScanInChain /\ Height' = Height /\ q.seen \subseteq Txs \X (0..MaxHeight) /\ q.i \in Nat
    BY <1>0, ListFields
  <1>2. Minus(0, 1) \in 0..(Word - 1) /\ MaxResults \in Nat
    BY BoundFacts DEF Minus
  <1>3. q.seen \cup (T \X {q.i}) \subseteq Txs \X (0..MaxHeight)
    BY <1>1, EntriesThere
  <1>4. /\ q' \in Query /\ q'.kind = q.kind /\ q'.known = q.known /\ q'.at = "scan" /\ q'.off = q.off
        /\ q'.top = q.top /\ q'.low = q.low /\ q'.count = MaxResults
    BY <1>0, <1>1, <1>2, <1>3 DEF Query
  <1>5. ScanInChain'
    BY <1>0, <1>1, <1>2, <1>4 DEF ScanInChain, ScanDown, ScanUp, ListDown
  <1>6. ~NotFull'
    BY <1>0, <1>2, <1>4 DEF NotFull
  <1>7. ListInv' /\ RecentInv'
    BY <1>0, <1>4, <1>6 DEF ListInv, RecentInv, Paged
  <1> QED BY <1>0, <1>4, <1>5, <1>7, ListMoves

\* TransactionAPI.GetFullTransactionHistory: a list that is not full leaves out nothing.
LEMMA GetFullTransactionHistoryKeeps ==
    ASSUME QueryInv, GetFullTransactionHistory
    PROVE  QueryInv'
  <1> DEFINE kind == "GetFullTransactionHistory"
             hit == Matches(q.i)
             full == hit # {} /\ q.count + Cardinality(hit) >= MaxResults
             room == IF q.count < MaxResults THEN MaxResults - q.count ELSE 1
             size == IF full THEN room ELSE Cardinality(hit)
  <1>0. kind \in PoolFirst /\ TypeInv /\ q \in Query
    BY DEF PoolFirst, QueryInv, TypeInv
  <1>1. CASE ListPool(kind, "start", "height")
    BY <1>0, <1>1, PoolListed
  <1>2. CASE ReadHeightDown(kind, "height", Height)
    BY <1>0, <1>2, PoolHeightRead
  <1>3. ASSUME At(kind, "scan"), q.i = 0, q' = Answer("list") PROVE QueryInv'
    <2>1. UNCHANGED <<chain, mempool>> /\ q.kind = kind /\ q.at = "scan" /\ q.kind \notin OneTx
      BY <1>3 DEF At, OneTx
    <2>2. q.count \in Nat /\ q.off \in Nat /\ q.seen \in SUBSET (Txs \X (0..MaxHeight)) /\ ListInv
      BY <1>0, QueryFields DEF QueryInv
    <2>3. ASSUME ~(q.off > 0), ~(q.count >= MaxResults), NEW t \in q.known, t \in Touching
          PROVE  \E h \in 0..MaxHeight : <<t, h>> \in q.seen
      <3>1. NotFull
        BY <2>1, <2>2, <2>3, BoundFacts DEF NotFull
      <3>2. InList(t) \/ MinedUpTo(t, q.i)
        BY <2>1, <2>2, <2>3, <3>1 DEF ListInv, Asked
      <3> QED BY <1>3, <3>2 DEF InList, MinedUpTo
    <2> QED BY <1>0, <1>3, <2>1, <2>2, <2>3, AnswerAsIs, ListAnswers
  <1>4. ASSUME At(kind, "scan"), q.i # 0, NEW T \in Some(hit, size),
               q' = [q EXCEPT !.i = IF full THEN Minus(0, 1) ELSE @ - 1,
                              !.count = IF full THEN MaxResults ELSE @ + Cardinality(T),
                              !.seen = @ \cup (T \X {q.i})]
        PROVE  QueryInv'
    <2>1. CASE full
      <3>1. T \in SUBSET hit
        BY DEF Some
      <3>2. q' = [q EXCEPT !.i = Minus(0, 1), !.count = MaxResults, !.seen = @ \cup (T \X {q.i})]
        BY <1>4, <2>1
      <3> QED BY <1>4, <3>1, <3>2, FullListKeeps
    <2>2. CASE ~full
      <3>1. IsFiniteSet(hit) /\ Cardinality(hit) \in Nat
        BY ListsFinite
      <3>2. T \in Some(hit, Cardinality(hit))
        BY <1>4, <2>2
      <3>3. T = hit
        BY <3>1, <3>2, SomeFacts
      <3>4. q' = [q EXCEPT !.i = @ - 1, !.count = @ + Cardinality(hit), !.seen = @ \cup (hit \X {q.i})]
        BY <1>4, <2>2, <3>3
      <3>5. q.i > 0
        BY <1>0, <1>4, QueryFields
      <3> QED BY <1>0, <1>4, <3>4, <3>5, PoolScanKeeps
    <2> QED BY <2>1, <2>2
  <1> QED BY <1>1, <1>2, <1>3, <1>4, Zenon DEF GetFullTransactionHistory

\* GetRecentTransactions reads a block: it goes on to the next one only when it took all of this.
LEMMA RecentScanKeeps ==
    ASSUME QueryInv, At("GetRecentTransactions", "scan"), q.i # 0, q.count < q.limit,
           NEW T \in Some(TxsAt(chain, q.i), q.limit - q.count),
           q' = [q EXCEPT !.i = @ - 1, !.count = @ + Cardinality(T), !.seen = @ \cup (T \X {q.i})]
    PROVE  QueryInv'
  <1>0. UNCHANGED <<chain, mempool>> /\ q.kind = "GetRecentTransactions" /\ q.at = "scan" /\ q.kind \notin OneTx
    BY DEF At, OneTx
  <1>1. /\ q \in Query /\ ScanInChain /\ ListInv /\ RecentInv /\ Height' = Height /\ Height <= MaxHeight
        /\ Height \in Nat /\ q.off = 0 /\ q.limit \in Nat /\ q.count \in Nat /\ q.i \in Nat /\ q.top \in Nat
        /\ q.seen \subseteq Txs \X (0..MaxHeight) /\ q.top <= Height
        /\ \A h : TxsAt(chain, h)' = TxsAt(chain, h)
    BY <1>0, ListFields DEF RecentInv
  <1>2. q.i <= q.top /\ q.i - 1 \in 0..(Word - 1) /\ q.i - 1 \in Nat
    BY <1>0, <1>1, BoundFacts DEF ScanInChain, ListDown
  <1>3. IsFiniteSet(TxsAt(chain, q.i))
    BY ListsFinite
  <1>4. q.limit - q.count \in Nat
    BY <1>1
  <1>5. /\ T \subseteq TxsAt(chain, q.i) /\ Cardinality(T) \in Nat
        /\ Cardinality(T) < q.limit - q.count => T = TxsAt(chain, q.i)
    BY <1>3, <1>4, SomeFacts
  <1>6. q.seen \cup (T \X {q.i}) \subseteq Txs \X (0..MaxHeight) /\ q.count + Cardinality(T) \in Nat
    BY <1>1, <1>5, EntriesThere
  <1>7. /\ q' \in Query /\ q'.kind = q.kind /\ q'.known = q.known /\ q'.at = "scan" /\ q'.off = q.off
        /\ q'.limit = q.limit /\ q'.top = q.top /\ q'.low = q.low /\ q'.i = q.i - 1
        /\ q'.count = q.count + Cardinality(T) /\ q'.seen = q.seen \cup (T \X {q.i})
    <2> DEFINE i == q.i - 1
               count == q.count + Cardinality(T)
               seen == q.seen \cup (T \X {q.i})
    <2>1. q' = [q EXCEPT !.i = i, !.count = count, !.seen = seen]
      OBVIOUS
    <2>2. i \in 0..(Word - 1) /\ count \in Nat /\ seen \in SUBSET (Txs \X (0..MaxHeight))
      BY <1>2, <1>6
    <2>3. /\ q' \in Query /\ q'.kind = q.kind /\ q'.known = q.known /\ q'.at = q.at /\ q'.off = q.off
          /\ q'.limit = q.limit /\ q'.top = q.top /\ q'.low = q.low /\ q'.i = i /\ q'.count = count /\ q'.seen = seen
      <3>1. q \in Query
        BY <1>1
      <3> HIDE DEF i, count, seen
      <3> QED BY <2>1, <2>2, <3>1 DEF Query
    <2> QED BY <1>0, <2>3
  <1>8. ScanInChain'
    BY <1>0, <1>1, <1>2, <1>7 DEF ScanInChain, ListDown, ScanDown, ScanUp
  <1>9. \A h \in 1..q.top : h >= q.i + 1 => TxsAt(chain, h) \X {h} \subseteq q.seen
    BY <1>0, <1>1 DEF ListInv, NotFull, Listed, Wanted
  <1>10. q'.i + 1 = q.i
    BY <1>1, <1>7
  <1>11. RecentInv'
    <2>1. \A e \in q'.seen : e[2] > q'.i
      <3>1. \A e \in q.seen : e[2] > q.i /\ e[2] \in Nat
        BY <1>0, <1>1, BoundFacts DEF RecentInv
      <3>2. \A e \in T \X {q.i} : e[2] = q.i
        OBVIOUS
      <3>3. \A e \in q.seen : e[2] > q.i - 1
        BY <1>1, <3>1
      <3>4. \A e \in T \X {q.i} : e[2] > q.i - 1
        BY <1>1, <3>2
      <3> QED BY <1>7, <3>3, <3>4
    <2>2. \A h \in 1..q.top : h > q'.i + 1 => TxsAt(chain, h) \X {h} \subseteq q'.seen
      <3>1. \A h \in 1..q.top : h > q.i => h >= q.i + 1
        BY <1>1
      <3> QED BY <1>7, <1>9, <1>10, <3>1
    <2> QED BY <1>0, <1>1, <1>7, <2>1, <2>2 DEF RecentInv
  <1>12. ASSUME NotFull' PROVE Listed(q.i + 1)'
    <2>1. T = TxsAt(chain, q.i)
      BY <1>0, <1>1, <1>5, <1>7, <1>12 DEF NotFull
    <2>2. \A h \in 1..q.top : h >= q.i => h = q.i \/ h >= q.i + 1
      BY <1>1
    <2>3. \A h \in 1..q.top : h >= q.i => TxsAt(chain, h) \X {h} \subseteq q'.seen
      BY <1>7, <1>9, <2>1, <2>2
    <2> QED BY <1>0, <1>1, <1>7, <1>10, <2>3 DEF Listed, Wanted
  <1>13. ListInv'
    BY <1>0, <1>7, <1>12 DEF ListInv, Paged
  <1> QED BY <1>0, <1>7, <1>8, <1>11, <1>13, ListMoves

\* TransactionAPI.GetRecentTransactions lists the latest ones, and all if there are fewer than asked.
LEMMA GetRecentTransactionsKeeps ==
    ASSUME QueryInv, GetRecentTransactions
    PROVE  QueryInv'
  <1> DEFINE kind == "GetRecentTransactions"
  <1>0. TypeInv /\ q \in Query /\ q.i \in Nat /\ q.count \in Nat /\ q.limit \in Nat /\ q.top \in Nat
        /\ q.seen \in SUBSET (Txs \X (0..MaxHeight))
    BY QueryFields DEF QueryInv, TypeInv
  <1>1. CASE ReadHeightDown(kind, "start", Height)
    BY <1>1, FromTheTopKeeps
  <1>2. ASSUME At(kind, "scan"), q.i = 0 \/ q.count >= q.limit, q' = Answer("list") PROVE QueryInv'
    <2>1. UNCHANGED <<chain, mempool>> /\ q.kind = kind /\ q.at = "scan" /\ q.kind \notin OneTx /\ q.kind \in ChainOnly
      BY <1>2 DEF At, OneTx, ChainOnly
    <2>2. ListInv /\ RecentInv /\ ChainView /\ Height \in Nat /\ Height <= MaxHeight
      BY <2>1, ListFields
    <2>3. ASSUME ~(q.count >= q.limit), NEW t \in q.known
          PROVE  (\E h \in 0..MaxHeight : <<t, h>> \in q.seen) \/ Late(t)
      <3>1. NotFull /\ q.i + 1 = 1
        BY <1>0, <1>2, <2>1, <2>2, <2>3 DEF NotFull, RecentInv
      <3>2. Listed(1)
        BY <2>1, <2>2, <3>1 DEF ListInv
      <3>3. PICK h \in 1..Height : t \in TxsAt(chain, h)
        BY <2>1, <2>3, ReadFacts DEF MinedUpTo
      <3>4. CASE h <= q.top
        <4>1. h \in 1..q.top /\ h >= 1 /\ h \in 0..MaxHeight
          BY <1>0, <2>2, <3>4, BoundFacts
        <4>2. TxsAt(chain, h) \X {h} \subseteq q.seen
          BY <2>1, <3>2, <4>1 DEF Listed, Wanted
        <4> QED BY <3>3, <4>1, <4>2
      <3>5. CASE h > q.top
        BY <2>2, <3>3, <3>5 DEF ChainView
      <3> QED BY <1>0, <3>4, <3>5
    <2>4. ASSUME NEW e \in q.seen, NEW h \in 1..q.top, h > e[2]
          PROVE  \A t \in TxsAt(chain, h) : <<t, h>> \in q.seen
      <3>1. e[2] > q.i /\ e[2] \in Nat
        BY <1>0, <2>1, <2>2, BoundFacts DEF RecentInv
      <3>2. h > q.i + 1
        BY <1>0, <2>4, <3>1
      <3> QED BY <2>1, <2>2, <3>2 DEF RecentInv
    <2> QED BY <1>0, <1>2, <2>1, <2>3, <2>4, AnswerAsIs, ListAnswers
  <1>3. ASSUME At(kind, "scan"), ~(q.i = 0 \/ q.count >= q.limit),
               NEW T \in Some(TxsAt(chain, q.i), q.limit - q.count),
               q' = [q EXCEPT !.i = @ - 1, !.count = @ + Cardinality(T), !.seen = @ \cup (T \X {q.i})]
        PROVE  QueryInv'
    <2>1. q.i # 0 /\ q.count < q.limit
      BY <1>0, <1>3
    <2> QED BY <1>3, <2>1, RecentScanKeeps
  <1> QED BY <1>1, <1>2, <1>3, Zenon DEF GetRecentTransactions

\* One less of a height: the largest one below 0, the one before otherwise.
LEMMA MinusOne ==
    ASSUME NEW i \in 0..(Word - 1)
    PROVE  /\ Minus(i, 1) \in 0..(Word - 1)
           /\ i > 0 => Minus(i, 1) = i - 1
           /\ i = 0 => Minus(i, 1) > MaxHeight
  <1>1. Word \in Nat /\ Word > 1 /\ MaxHeight \in Nat /\ Word > MaxHeight + 1
    BY BoundFacts
  <1>2. 1 % Word = 1
    BY <1>1
  <1>3. Minus(i, 1) = (i + Word - 1) % Word
    BY <1>2 DEF Minus
  <1>4. CASE i = 0
    <2>1. (0 + Word - 1) % Word = Word - 1
      BY <1>1
    <2> QED BY <1>1, <1>3, <1>4, <2>1
  <1>5. CASE i > 0
    <2>1. (i + Word - 1) % Word = i - 1
      <3>1. i - 1 \in 0..(Word - 1) /\ i + Word - 1 = Word + (i - 1)
        BY <1>1, <1>5
      <3>2. \A k \in 0..(Word - 1) : (Word + k) % Word = k
        BY <1>1
      <3> QED BY <3>1, <3>2
    <2> QED BY <1>1, <1>3, <1>5, <2>1
  <1> QED BY <1>4, <1>5

\* SearchByAddress begins at the latest block, with nothing listed.
LEMMA ByAddressStarts ==
    ASSUME QueryInv, At("SearchByAddress", "start"),
           q' = [q EXCEPT !.at = "scan", !.top = Height, !.i = Height, !.low = ScanFloor]
    PROVE  QueryInv'
  <1>0. UNCHANGED <<chain, mempool>> /\ q.kind = "SearchByAddress" /\ q.at = "start" /\ q.kind \notin OneTx
    BY DEF At, OneTx
  <1>1. /\ q \in Query /\ ListInv /\ Height' = Height /\ Height <= MaxHeight /\ Height \in Nat /\ q.count \in Nat
    BY <1>0, ListFields
  <1>2. /\ Height \in 0..MaxHeight /\ Height \in 0..(Word - 1) /\ ScanFloor \in 0..MaxHeight
        /\ ScanFloor <= Height
    BY <1>1, BoundFacts DEF ScanFloor
  <1>3. /\ q' \in Query /\ q'.kind = q.kind /\ q'.known = q.known /\ q'.at = "scan"
        /\ q'.top = Height /\ q'.low = ScanFloor /\ q'.i = Height /\ q'.count = q.count /\ q'.seen = q.seen
    BY <1>0, <1>1, <1>2 DEF Query, Stages
  <1>4. q.seen = {} /\ Cardinality(q.seen) <= q.count
    BY <1>0, <1>1, FS_EmptySet DEF ListInv
  <1>5. ScanInChain'
    BY <1>0, <1>1, <1>2, <1>3 DEF ScanInChain, ScanUp, ScanDown, ListDown
  <1>6. \A h \in 1..q'.top : ~(h > q'.i)
    BY <1>1, <1>3
  <1>7. ListInv' /\ RecentInv'
    BY <1>0, <1>3, <1>4, <1>6 DEF ListInv, RecentInv, Paged
  <1> QED BY <1>0, <1>3, <1>5, <1>7, ListMoves

\* It goes on to another height, with what it listed.
LEMMA ByAddressMoves ==
    ASSUME QueryInv, At("SearchByAddress", "scan"), NEW i \in 0..(Word - 1), NEW count \in Nat,
           NEW seen \in SUBSET (Txs \X (0..MaxHeight)),
           q' = [q EXCEPT !.i = i, !.count = count, !.seen = seen],
           q.off = 0 /\ count < q.limit =>
             /\ Cardinality(seen) <= count
             /\ \A h \in 1..q.top : h >= q.low /\ h > i => Matches(h) \X {h} \subseteq seen
    PROVE  QueryInv'
  <1>0. UNCHANGED <<chain, mempool>> /\ q.kind = "SearchByAddress" /\ q.at = "scan" /\ q.kind \notin OneTx
    BY DEF At, OneTx
  <1>1. q \in Query /\ ScanInChain /\ Height' = Height /\ \A h : Matches(h)' = Matches(h)
    BY <1>0, ListFields
  <1>2. /\ q' \in Query /\ q'.kind = q.kind /\ q'.known = q.known /\ q'.at = "scan" /\ q'.off = q.off
        /\ q'.limit = q.limit /\ q'.top = q.top /\ q'.low = q.low /\ q'.i = i /\ q'.count = count /\ q'.seen = seen
    BY <1>0, <1>1 DEF Query
  <1>3. ScanInChain'
    BY <1>0, <1>1, <1>2 DEF ScanInChain, ScanUp, ScanDown, ListDown
  <1>4. NotFull' <=> q.off = 0 /\ count < q.limit
    BY <1>0, <1>2 DEF NotFull
  <1>5. ListInv' /\ RecentInv'
    BY <1>0, <1>1, <1>2, <1>4 DEF ListInv, RecentInv, Paged
  <1> QED BY <1>0, <1>2, <1>3, <1>5, ListMoves

\* It leaves the loop below the lowest height, or when the list is full.
LEMMA ByAddressEnds ==
    ASSUME QueryInv, At("SearchByAddress", "scan"), NEW count \in Nat,
           NEW seen \in SUBSET (Txs \X (0..MaxHeight)),
           q' = [q EXCEPT !.at = "pool", !.count = count, !.seen = seen],
           \/ q.i < q.low /\ count = q.count /\ seen = q.seen
           \/ count = q.limit + q.off
    PROVE  QueryInv'
  <1>0. UNCHANGED <<chain, mempool>> /\ q.kind = "SearchByAddress" /\ q.at = "scan" /\ q.kind \notin OneTx
    BY DEF At, OneTx
  <1>1. /\ q \in Query /\ ScanInChain /\ ListInv /\ Height' = Height /\ q.off \in Nat /\ q.limit \in Nat
        /\ q.i \in Nat /\ q.low \in Nat /\ q.top \in Nat /\ \A h : Matches(h)' = Matches(h)
    BY <1>0, ListFields
  <1>2. /\ q' \in Query /\ q'.kind = q.kind /\ q'.known = q.known /\ q'.at = "pool" /\ q'.off = q.off
        /\ q'.limit = q.limit /\ q'.top = q.top /\ q'.low = q.low /\ q'.count = count /\ q'.seen = seen
    BY <1>0, <1>1 DEF Query, Stages
  <1>3. ScanInChain'
    BY <1>1, <1>2 DEF ScanInChain
  <1>4. ASSUME NotFull' PROVE Cardinality(q'.seen) <= q'.count /\ Listed(q.low)'
    <2>1. NotFull /\ q.i < q.low /\ count = q.count /\ seen = q.seen
      BY <1>0, <1>1, <1>2, <1>4 DEF NotFull
    <2>2. /\ Cardinality(q.seen) <= q.count
          /\ \A h \in 1..q.top : h >= q.low /\ h > q.i => Matches(h) \X {h} \subseteq q.seen
      BY <1>0, <1>1, <2>1 DEF ListInv, Paged
    <2>3. \A h \in 1..q.top : h >= q.low => h > q.i
      BY <1>1, <2>1
    <2>4. Listed(q.low)'
      BY <1>0, <1>1, <1>2, <2>1, <2>2, <2>3 DEF Listed, Wanted
    <2> QED BY <1>2, <2>1, <2>2, <2>4
  <1>5. ListInv' /\ RecentInv'
    BY <1>0, <1>2, <1>4 DEF ListInv, RecentInv, Paged
  <1> QED BY <1>0, <1>2, <1>3, <1>5, ListMoves

\* The pending transactions come last: one that is not among them is in a block that was read, in a
\* later one or in one below the lowest height.
LEMMA ByAddressPoolKeeps ==
    ASSUME QueryInv, ListPool("SearchByAddress", "pool", "page")
    PROVE  QueryInv'
  <1> DEFINE P == mempool \cap Touching
  <1>0. UNCHANGED <<chain, mempool>> /\ q.kind = "SearchByAddress" /\ q.at = "pool" /\ q.kind \notin OneTx
        /\ q' = [q EXCEPT !.at = "page", !.seen = @ \cup (P \X {0}), !.count = @ + Cardinality(P)]
    BY DEF ListPool, At, OneTx
  <1>1. /\ q \in Query /\ ScanInChain /\ ListInv /\ ChainView /\ Height' = Height /\ q.count \in Nat
        /\ q.off \in Nat /\ q.limit \in Nat /\ q.top \in Nat /\ q.low \in Nat /\ q.low <= q.top /\ q.top <= Height
        /\ q.seen \subseteq Txs \X (0..MaxHeight) /\ Height \in Nat /\ Height <= MaxHeight
    BY <1>0, ListFields
  <1>2. /\ IsFiniteSet(P) /\ P \subseteq Txs /\ Cardinality(P) \in Nat /\ IsFiniteSet(q.seen)
        /\ Cardinality(q.seen) \in Nat
    BY ListsFinite
  <1>3. q.seen \cup (P \X {0}) \subseteq Txs \X (0..MaxHeight) /\ q.count + Cardinality(P) \in Nat
    BY <1>1, <1>2, EntriesThere
  <1>4. /\ q' \in Query /\ q'.kind = q.kind /\ q'.known = q.known /\ q'.at = "page" /\ q'.top = q.top
        /\ q'.off = q.off /\ q'.limit = q.limit /\ q'.low = q.low /\ q'.count = q.count + Cardinality(P)
        /\ q'.seen = q.seen \cup (P \X {0})
    <2> HIDE DEF P
    <2> QED BY <1>0, <1>1, <1>3 DEF Query, Stages
  <1>5. ScanInChain'
    BY <1>0, <1>1, <1>4 DEF ScanInChain
  <1>6. ASSUME NotFull'
        PROVE  Cardinality(q'.seen) <= q'.count /\ \A t \in Asked : InList(t)' \/ Late(t)' \/ Early(t)'
    <2> HIDE DEF P
    <2>1. NotFull
      BY <1>0, <1>1, <1>2, <1>4, <1>6 DEF NotFull
    <2>2. Cardinality(q.seen) <= q.count /\ Listed(q.low)
      BY <1>0, <1>1, <2>1 DEF ListInv, Paged
    <2>3. /\ Cardinality(q'.seen) \in Nat
          /\ Cardinality(q'.seen) <= Cardinality(q.seen) + Cardinality(P)
      BY <1>2, <1>4, SeenGrows
    <2>4. Cardinality(q'.seen) <= q'.count
      BY <1>1, <1>2, <1>4, <2>2, <2>3
    <2>5. ASSUME NEW t \in Asked PROVE InList(t)' \/ Late(t)' \/ Early(t)'
      <3>0. t \in q.known /\ t \in Touching
        BY <2>5 DEF Asked
      <3>1. CASE t \in mempool
        <4>1. <<t, 0>> \in q'.seen /\ 0 \in 0..MaxHeight
          BY <1>4, <3>0, <3>1, BoundFacts DEF P
        <4> QED BY <4>1 DEF InList
      <3>2. CASE MinedUpTo(t, Height)
        <4>1. PICK h \in 1..Height : t \in TxsAt(chain, h)
          BY <3>2 DEF MinedUpTo
        <4>2. CASE h > q.top
          <5>1. Late(t)
            BY <1>1, <4>1, <4>2 DEF ChainView
          <5> QED BY <1>0, <1>1, <1>4, <5>1 DEF Late
        <4>3. CASE h < q.low
          <5>1. Early(t)
            BY <1>1, <4>1, <4>3 DEF ChainView
          <5> QED BY <1>0, <1>4, <5>1 DEF Early
        <4>4. CASE h >= q.low /\ h <= q.top
          <5>1. h \in 1..q.top /\ h \in 0..MaxHeight
            BY <1>1, <4>4, BoundFacts
          <5>2. Matches(h) \X {h} \subseteq q.seen
            BY <1>0, <2>2, <4>4, <5>1 DEF Listed, Wanted
          <5>3. <<t, h>> \in q'.seen
            BY <1>4, <3>0, <4>1, <5>2 DEF Matches
          <5> QED BY <5>1, <5>3 DEF InList
        <4> QED BY <1>1, <4>2, <4>3, <4>4
      <3> QED BY <1>0, <3>0, <3>1, <3>2, ReadFacts
    <2> QED BY <2>4, <2>5
  <1>7. Asked' = Asked
    BY <1>4 DEF Asked
  <1>8. ListInv' /\ RecentInv'
    BY <1>0, <1>4, <1>6, <1>7 DEF ListInv, RecentInv, Paged
  <1> QED BY <1>0, <1>4, <1>5, <1>8, ListMoves

\* A block within the chain: its entries are listed before the height moves on, round its range or
\* down.
LEMMA ByAddressReads ==
    ASSUME QueryInv, At("SearchByAddress", "scan"), q.i >= q.low, q.i <= Height,
           NEW count \in Nat, count = q.count + Cardinality(Matches(q.i)), count < q.limit + q.off,
           q' = [q EXCEPT !.i = Minus(q.i, 1), !.count = count, !.seen = q.seen \cup (Matches(q.i) \X {q.i})]
    PROVE  QueryInv'
  <1> DEFINE hit == Matches(q.i)
             seen == q.seen \cup (hit \X {q.i})
  <1>0. UNCHANGED <<chain, mempool>> /\ q.kind = "SearchByAddress" /\ q.at = "scan" /\ q.kind \notin OneTx
    BY DEF At, OneTx
  <1>1. /\ TypeInv /\ ListInv /\ q.off \in Nat /\ q.limit \in Nat /\ q.count \in Nat /\ q.i \in Nat /\ q.low \in Nat
        /\ q.top \in Nat /\ q.seen \subseteq Txs \X (0..MaxHeight) /\ q.top <= Height /\ Height \in Nat
        /\ Height <= MaxHeight
    BY <1>0, ListFields
  <1>2. IsFiniteSet(hit) /\ Cardinality(hit) \in Nat /\ IsFiniteSet(q.seen) /\ Cardinality(q.seen) \in Nat
    BY ListsFinite
  <1>3. seen \in SUBSET (Txs \X (0..MaxHeight))
    BY <1>1, EntriesThere
  <1>4. q.i \in 0..(Word - 1)
    BY <1>1, QueryFields
  <1>5. Minus(q.i, 1) \in 0..(Word - 1) /\ (q.i > 0 => Minus(q.i, 1) = q.i - 1) /\ (q.i = 0 => Minus(q.i, 1) > MaxHeight)
    BY <1>4, MinusOne
  <1>6. ASSUME q.off = 0, count < q.limit
        PROVE  /\ Cardinality(seen) <= count
               /\ \A h \in 1..q.top : h >= q.low /\ h > Minus(q.i, 1) => Matches(h) \X {h} \subseteq seen
    <2>1. NotFull
      BY <1>0, <1>1, <1>2, <1>6 DEF NotFull
    <2>2. /\ Cardinality(q.seen) <= q.count
          /\ \A h \in 1..q.top : h >= q.low /\ h > q.i => Matches(h) \X {h} \subseteq q.seen
      BY <1>0, <1>1, <2>1 DEF ListInv, Paged
    <2>3. Cardinality(seen) \in Nat /\ Cardinality(seen) <= Cardinality(q.seen) + Cardinality(hit)
      <3> HIDE DEF hit
      <3> QED BY <1>2, SeenGrows
    <2>4. Cardinality(seen) <= count
      <3> HIDE DEF seen
      <3> QED BY <1>1, <1>2, <2>2, <2>3
    <2>5. \A h \in 1..q.top : h > Minus(q.i, 1) => h = q.i \/ h > q.i
      BY <1>1, <1>5, BoundFacts
    <2>6. \A h \in 1..q.top : h >= q.low /\ h > Minus(q.i, 1) => Matches(h) \X {h} \subseteq seen
      BY <2>2, <2>5
    <2> QED BY <2>4, <2>6
  <1>7. q' = [q EXCEPT !.i = Minus(q.i, 1), !.count = count, !.seen = seen]
    OBVIOUS
  <1> HIDE DEF seen
  <1> QED BY <1>3, <1>5, <1>6, <1>7, ByAddressMoves

\* A height without a block, after the height has run round its range: nothing is listed.
LEMMA ByAddressSkips ==
    ASSUME QueryInv, At("SearchByAddress", "scan"), q.i > Height, q' = [q EXCEPT !.i = Minus(q.i, 1)]
    PROVE  QueryInv'
  <1>0. UNCHANGED <<chain, mempool>> /\ q.kind = "SearchByAddress" /\ q.at = "scan" /\ q.kind \notin OneTx
    BY DEF At, OneTx
  <1>1. /\ TypeInv /\ q \in Query /\ ListInv /\ q.count \in Nat /\ q.i \in Nat /\ q.top \in Nat
        /\ q.seen \subseteq Txs \X (0..MaxHeight) /\ q.top <= Height /\ Height \in Nat
    BY <1>0, ListFields
  <1>2. q.i \in 0..(Word - 1) /\ q.i > 0
    BY <1>1, QueryFields
  <1>3. Minus(q.i, 1) \in 0..(Word - 1) /\ Minus(q.i, 1) = q.i - 1
    BY <1>2, MinusOne
  <1>4. \A h \in 1..q.top : ~(h > Minus(q.i, 1))
    BY <1>1, <1>3
  <1>5. q.off = 0 /\ q.count < q.limit => Cardinality(q.seen) <= q.count
    BY <1>0, <1>1 DEF ListInv, Paged, NotFull
  <1>6. q' = [q EXCEPT !.i = Minus(q.i, 1), !.count = q.count, !.seen = q.seen]
    BY <1>1 DEF Query
  <1> QED BY <1>1, <1>3, <1>4, <1>5, <1>6, ByAddressMoves

\* TransactionAPI.SearchByAddress: a first page that is not full leaves out what is in a later block
\* than the first it read, or in one below the last 5000.
LEMMA SearchByAddressKeeps ==
    ASSUME QueryInv, SearchByAddress
    PROVE  QueryInv'
  <1> DEFINE kind == "SearchByAddress"
             hit == Matches(q.i)
             count == q.count + Cardinality(hit)
             enough == IF count < q.limit + q.off THEN count ELSE q.limit + q.off
             read == [q EXCEPT !.seen = @ \cup (hit \X {q.i}), !.count = enough,
                               !.at = IF enough = q.limit + q.off THEN "pool" ELSE @,
                               !.i = IF enough = q.limit + q.off THEN @ ELSE Minus(@, 1)]
  <1>0. /\ TypeInv /\ q \in Query /\ q.count \in Nat /\ q.limit \in Nat /\ q.off \in Nat /\ q.i \in Nat /\ q.low \in Nat
        /\ q.seen \in SUBSET (Txs \X (0..MaxHeight))
    BY QueryFields DEF QueryInv, TypeInv
  <1>1. ASSUME At(kind, "start"), q' = [q EXCEPT !.at = "scan", !.top = Height, !.i = Height, !.low = ScanFloor]
        PROVE  QueryInv'
    BY <1>1, ByAddressStarts
  <1>2. ASSUME At(kind, "scan"),
               q' = CASE q.i < q.low -> [q EXCEPT !.at = "pool"]
                      [] q.i >= q.low /\ q.i > Height -> [q EXCEPT !.i = Minus(@, 1)]
                      [] OTHER -> read
        PROVE  QueryInv'
    <2>1. Height \in Nat /\ Cardinality(hit) \in Nat
      BY ListsFinite, ChainFacts DEF QueryInv, TypeInv, ChainView
    <2>2. count \in Nat /\ enough \in Nat /\ q.limit + q.off \in Nat
      BY <1>0, <2>1
    <2>3. CASE q.i < q.low
      <3>1. q' = [q EXCEPT !.at = "pool"]
        <4> HIDE DEF read
        <4> QED BY <1>0, <1>2, <2>3
      <3>2. q' = [q EXCEPT !.at = "pool", !.count = q.count, !.seen = q.seen]
        BY <1>0, <3>1 DEF Query
      <3> QED BY <1>0, <1>2, <2>3, <3>2, ByAddressEnds
    <2>4. CASE q.i >= q.low /\ q.i > Height
      <3>1. q' = [q EXCEPT !.i = Minus(q.i, 1)]
        BY <1>0, <1>2, <2>1, <2>4
      <3> QED BY <1>2, <2>4, <3>1, ByAddressSkips
    <2>5. CASE q.i >= q.low /\ q.i <= Height
      <3>1. q' = read
        BY <1>0, <1>2, <2>1, <2>5
      <3>2. CASE enough = q.limit + q.off
        <4>1. q' = [q EXCEPT !.at = "pool", !.count = enough, !.seen = q.seen \cup (hit \X {q.i})]
          <5> HIDE DEF enough, hit
          <5>1. q' = [q EXCEPT !.seen = q.seen \cup (hit \X {q.i}), !.count = enough, !.at = "pool", !.i = q.i]
            BY <3>1, <3>2
          <5> QED BY <1>0, <5>1 DEF Query
        <4>2. q.seen \cup (hit \X {q.i}) \in SUBSET (Txs \X (0..MaxHeight))
          BY <1>0, EntriesThere
        <4>3. At("SearchByAddress", "scan")
          BY <1>2
        <4> HIDE DEF enough, hit, read, count
        <4> QED BY <2>2, <3>2, <4>3, <4>1, <4>2, ByAddressEnds
      <3>3. CASE enough # q.limit + q.off
        <4>1. enough = count /\ count < q.limit + q.off
          BY <2>2, <3>3
        <4>2. q' = [q EXCEPT !.i = Minus(q.i, 1), !.count = count, !.seen = q.seen \cup (hit \X {q.i})]
          <5> HIDE DEF enough, hit, count
          <5>1. q' = [q EXCEPT !.seen = q.seen \cup (hit \X {q.i}), !.count = count, !.at = q.at, !.i = Minus(q.i, 1)]
            BY <3>1, <3>3, <4>1
          <5> QED BY <1>0, <5>1 DEF Query
        <4> QED BY <1>2, <2>2, <2>5, <4>1, <4>2, ByAddressReads
      <3> QED BY <3>2, <3>3
    <2> QED BY <1>0, <2>1, <2>3, <2>4, <2>5
  <1>3. CASE ListPool(kind, "pool", "page")
    BY <1>3, ByAddressPoolKeeps
  <1>4. CASE Page(kind)
    BY <1>4, PageKeeps
  <1> QED BY <1>1, <1>2, <1>3, <1>4 DEF SearchByAddress

-----------------------------------------------------------------------------
\* Every step keeps the invariant, in whatever order the node and the query take theirs.
LEMMA NextQuery == QueryInv /\ [Next]_vars => QueryInv'
  <1> SUFFICES ASSUME QueryInv, [Next]_vars PROVE QueryInv'
    OBVIOUS
  <1>1. CASE UNCHANGED vars
    <2>1. chain' = chain /\ mempool' = mempool /\ q' = q
      BY <1>1 DEF vars
    <2>2. TypeInv' /\ KnownThere'
      BY <2>1 DEF QueryInv, TypeInv, TypeOK, ScanInChain, KnownThere, Mined, Height
    <2>3. TypeOK /\ q \in Query /\ mempool' \subseteq Txs
      BY <2>1 DEF QueryInv, TypeInv, TypeOK
    <2>4. Grows
      BY <2>1, <2>3, ChainGrows
    <2>5. q' = [q EXCEPT !.known = q.known]
      BY <2>1, <2>3 DEF Query
    <2> QED BY <2>2, <2>3, <2>4, <2>5, NodeKeeps
  <1>2. CASE \/ \E t \in Txs : AddTransaction(t) \/ Evict(t)
             \/ \E S \in SUBSET (mempool \ Mined) : AppendBlock(S)
             \/ RemoveMined
    BY <1>2, NodeStepKeeps
  <1>3. ASSUME NEW kind \in Kinds, NEW t \in Txs, NEW off \in Offsets, NEW limit \in Limits,
               Call(kind, t, off, limit)
        PROVE  QueryInv'
    BY <1>3, CallKeeps
  <1>4. CASE QueryStep
    BY <1>4, FindTransactionKeeps, handleGetTransactionKeeps, GetTransactionKeeps, GetTransactionProofKeeps,
       monitorTransactionKeeps, awaitStakeKeeps, shellMonitorKeeps, GetTransactionHistoryKeeps,
       handleGetTransactionHistoryKeeps, GetFullTransactionHistoryKeeps, SearchByAddressKeeps,
       GetRecentTransactionsKeeps DEF QueryStep
  <1> QED BY <1>1, <1>2, <1>3, <1>4 DEF Next

\* Whatever the node appends, evicts or removes between the reads of a query (FindTransaction of
\* blockchain.go, the handlers of RPC/server.go and of the transaction API, the monitors of main.go
\* and of the TXNS shell): a transaction that was pending or mined when it was called is reported as
\* missing only if it is in a block above the first one read, above maxSearchHeight, or below the
\* blocks SearchByAddress reads; and GetRecentTransactions leaves none out above one it lists.
THEOREM AnswersAlwaysComplete == Spec => []AnswersComplete
  <1>1. QueryInv => AnswersComplete
    BY DEF QueryInv, TypeInv, AnswersComplete
  <1> QED BY InitQuery, NextQuery, <1>1, PTL DEF Spec

-----------------------------------------------------------------------------
(* The statistics of a chain. *)

\* The constants of the statistics are positive numbers, and a height is far below 2^64.
LEMMA StatisticsFacts ==
    /\ Word \in Nat /\ HashPerDay \in Nat /\ MaxDays \in Nat
    /\ HalvingBlocks \in Nat /\ StatsWindow \in Nat /\ MaxHeight \in Nat
    /\ HashPerDay > 0 /\ HalvingBlocks > 0 /\ StatsWindow > 0
    /\ InitialReward \in Nat /\ MaxStamp \in Nat
    /\ \A l \in Limits : l \in Nat /\ l > 0
    /\ Word > MaxHeight + 1 /\ Word > MaxHeight + MaxDays * HashPerDay
    /\ \A p \in PerDays : p \in Nat /\ p < Word
  <1>1. MaxHeight \in Nat /\ Limits \subseteq Nat \ {0} /\ Word > MaxHeight + 1
        /\ Word > MaxHeight + MaxDays * HashPerDay
    BY QueriesAssumption DEF QueriesAssumption
  <1>2. /\ Word \in Nat \ {0} /\ PerDays \subseteq 0..(Word - 1) /\ HashPerDay \in Nat \ {0} /\ MaxDays \in Nat \ {0}
        /\ HalvingBlocks \in Nat \ {0} /\ StatsWindow \in Nat \ {0}
        /\ InitialReward \in Nat /\ MaxStamp \in Nat
    BY StatisticsAssumption DEF StatisticsAssumption
  <1> QED BY <1>1, <1>2

\* The difference of two heights: exact when the first is the larger one, above both otherwise.
LEMMA MinusFacts ==
    ASSUME NEW a \in 0..(Word - 1), NEW b \in 0..(Word - 1)
    PROVE  /\ a >= b => Minus(a, b) = a - b
           /\ a < b => Minus(a, b) = a + Word - b
  <1>1. Word \in Nat /\ Word > 1
    BY StatisticsFacts
  <1>2. \A k \in 0..(Word - 1) : k % Word = k /\ (k + Word) % Word = k
    BY <1>1
  <1>3. Minus(a, b) = (a + Word - b) % Word
    BY <1>2 DEF Minus
  <1>4. CASE a >= b
    <2>1. a - b \in 0..(Word - 1) /\ a + Word - b = (a - b) + Word
      BY <1>1, <1>4
    <2> QED BY <1>1, <1>2, <1>3, <1>4, <2>1
  <1>5. CASE a < b
    <2>1. a + Word - b \in 0..(Word - 1)
      BY <1>1, <1>5
    <2> QED BY <1>1, <1>2, <1>3, <1>5, <2>1
  <1> QED BY <1>4, <1>5

\* A range that is not longer than half of the heights there are is cut off after max of them.
LEMMA RangeIsCapped == TypeOK => RangeCapped
  <1> SUFFICES ASSUME TypeOK, NEW first \in 0..(Word - 1), NEW last \in 0..(Word - 1), NEW max \in Limits,
                      first <= last
               PROVE  LET cut == last - first + 1 < Word \div 2 /\ first + max <= last
                          asked == {h \in first..last : h <= Height /\ (cut => h < first + max)}
                          answer == [blocks |-> asked, ends |-> cut \/ last < Word - 1]
                      IN /\ GetBlockRange(chain, first, last, max) = answer
                         /\ GetBlockHeaders(chain, first, last, max) = answer
    BY DEF RangeCapped
  <1>1. Word \in Nat /\ Word > 1 /\ max \in Nat /\ max > 0 /\ Height \in Nat
    BY StatisticsFacts, ChainFacts DEF ChainView
  <1>2. \A k \in 0..(Word - 1) : k % Word = k
    BY <1>1
  <1>3. Word \div 2 <= Word /\ Word \div 2 \in Nat /\ Word % Word = 0
    BY <1>1
  <1> DEFINE n == last - first + 1
             cut == n < Word \div 2 /\ first + max <= last
             end == LastOfRange(first, last, max)
             asked == {h \in first..last : h <= Height /\ (cut => h < first + max)}
  <1>4. n \in 1..Word
    BY <1>1
  <1>5. ToInt(n % Word) > max <=> cut
    <2>1. CASE n < Word \div 2
      <3>1. n % Word = n /\ ToInt(n % Word) = n
        BY <1>1, <1>2, <1>3, <1>4, <2>1 DEF ToInt
      <3> QED BY <1>1, <2>1, <3>1
    <2>2. CASE n >= Word \div 2 /\ n < Word
      <3>1. n % Word = n /\ ToInt(n % Word) = n - Word
        BY <1>1, <1>2, <1>3, <1>4, <2>2 DEF ToInt
      <3> QED BY <1>1, <1>3, <1>4, <2>2, <3>1
    <2>3. CASE n = Word
      <3>1. Word \div 2 > 0
        BY <1>1
      <3>2. n % Word = 0 /\ ToInt(n % Word) = 0
        BY <1>3, <2>3, <3>1 DEF ToInt
      <3> QED BY <1>1, <1>3, <2>3, <3>2
    <2> QED BY <1>1, <1>3, <1>4, <2>1, <2>2, <2>3
  <1>6. end = IF cut THEN first + max - 1 ELSE last
    <2>1. cut => first + max - 1 \in 0..(Word - 1)
      BY <1>1
    <2> QED BY <1>2, <1>5, <2>1 DEF LastOfRange
  <1>7. \A h : h \in first..end <=> h \in first..last /\ (cut => h < first + max)
    <2> HIDE DEF end
    <2> QED BY <1>1, <1>6
  <1>8. end < Word - 1 <=> cut \/ last < Word - 1
    <2> HIDE DEF end
    <2> QED BY <1>1, <1>6
  <1>9. {h \in first..end : h <= Len(chain)} = asked
    BY <1>7 DEF Height
  <1>10. ReadRange(chain, first, end) = [blocks |-> asked, ends |-> cut \/ last < Word - 1]
    <2>1. (end < Word - 1) = (cut \/ last < Word - 1)
      <3> HIDE DEF end
      <3> QED BY <1>8
    <2> HIDE DEF end, asked, cut
    <2> QED BY <1>9, <2>1, Zenon DEF ReadRange
  <1> QED BY <1>10 DEF GetBlockRange, GetBlockHeaders

\* A chain that is shorter than the window gives no work; a longer one that of the window, as far
\* as the latest block that was read.
LEMMA HashRateMeasures == TypeOK => HashRateWindow
  <1> SUFFICES ASSUME TypeOK, NEW days \in Days, NEW latest \in 0..Height
               PROVE  LET work == [h \in 0..Height |-> h]
                          rate == GetHashRate(work, work, latest, Height, days)
                          window == days * HashPerDay
                          left == window - (Height - latest)
                      IN /\ Height < window \/ left <= 0 => rate.work = 0
                         /\ Height > window /\ left > 0 => rate.work = left /\ rate.time = left
    BY DEF HashRateWindow
  <1>1. Height \in Nat /\ Height <= MaxHeight /\ latest \in Nat /\ latest <= Height
    BY ChainFacts DEF ChainView
  <1> DEFINE work == [h \in 0..Height |-> h]
             window == days * HashPerDay
             start == HashStart(Height, days)
             left == window - (Height - latest)
             rate == GetHashRate(work, work, latest, Height, days)
  <1>2. /\ days \in Nat /\ days > 0 /\ days <= MaxDays /\ HashPerDay \in Nat /\ HashPerDay > 0
        /\ Word \in Nat /\ MaxHeight \in Nat /\ MaxDays \in Nat /\ Word > MaxHeight + MaxDays * HashPerDay
    BY StatisticsFacts DEF Days
  <1>3. window \in Nat /\ window > 0 /\ window <= MaxDays * HashPerDay /\ MaxDays * HashPerDay \in Int
    <2>1. days * HashPerDay <= MaxDays * HashPerDay /\ days * HashPerDay \in Int /\ MaxDays * HashPerDay \in Int
      BY <1>2, ProductOrder
    <2>2. 0 < days => (0 + 1) * HashPerDay <= days * HashPerDay
      BY <1>2, ProductOrder
    <2>3. (0 + 1) * HashPerDay = HashPerDay
      BY <1>2
    <2> QED BY <1>2, <2>1, <2>2, <2>3
  <1> HIDE DEF window
  <1>4. Height \in 0..(Word - 1) /\ window \in 0..(Word - 1) /\ window < Word - MaxHeight
        /\ latest \in 0..(Word - 1)
    BY <1>1, <1>2, <1>3
  <1>5. \A h \in 0..Height : work[h] = h
    OBVIOUS
  <1>6. rate = IF start > Height THEN [work |-> 0, time |-> 0]
               ELSE IF work[latest] <= work[start] THEN [work |-> 0, time |-> 0]
               ELSE [work |-> Minus(work[latest], work[start]), time |-> work[latest] - work[start]]
    BY DEF GetHashRate
  <1>7. start = IF Minus(Height, window) < 1 THEN 1 ELSE Minus(Height, window)
    BY DEF HashStart, window
  <1> HIDE DEF rate, start, work
  <1>8. ASSUME Height < window PROVE rate.work = 0
    <2>1. Minus(Height, window) = Height + Word - window
      BY <1>4, <1>8, MinusFacts
    <2>2. start > Height
      BY <1>1, <1>2, <1>3, <1>4, <1>7, <2>1
    <2> QED BY <1>6, <2>2
  <1>9. ASSUME Height >= window
        PROVE  /\ start \in 0..Height /\ start >= Height - window /\ start \in 0..(Word - 1)
               /\ Height > window => start = Height - window
    <2>1. Minus(Height, window) = Height - window
      BY <1>1, <1>3, <1>4, <1>9, MinusFacts
    <2>2. start = IF Height - window < 1 THEN 1 ELSE Height - window
      BY <1>7, <2>1
    <2> QED BY <1>1, <1>2, <1>3, <1>9, <2>2
  <1>10. ASSUME Height >= window, left <= 0 PROVE rate.work = 0
    <2>1. latest <= start /\ work[latest] = latest /\ work[start] = start /\ start <= Height
      BY <1>1, <1>3, <1>5, <1>9, <1>10
    <2> QED BY <1>1, <1>6, <1>9, <1>10, <2>1
  <1>11. ASSUME Height > window, left > 0 PROVE rate.work = left /\ rate.time = left
    <2>1. /\ latest > start /\ work[latest] = latest /\ work[start] = start /\ start <= Height
          /\ latest - start = left /\ start \in 0..(Word - 1)
      BY <1>1, <1>3, <1>5, <1>9, <1>11
    <2>2. Minus(latest, start) = latest - start
      BY <1>4, <2>1, MinusFacts
    <2>3. rate = [work |-> left, time |-> left]
      BY <1>1, <1>4, <1>6, <2>1, <2>2
    <2> QED BY <2>3
  <1>12. Height < window \/ Height >= window
    BY <1>1, <1>3
  <1> QED BY <1>8, <1>10, <1>11, <1>12 DEF rate, window, work

\* A window is a number of blocks, and no more than the days have.
LEMMA WindowFacts ==
    ASSUME NEW days \in Days, NEW perDay \in PerDays
    PROVE  Window(days, perDay) \in Nat /\ Window(days, perDay) <= days * perDay /\ days * perDay \in Nat
  <1>1. days \in Nat /\ perDay \in Nat /\ Word \in Nat /\ Word > 0
    BY StatisticsFacts DEF Days
  <1>2. days * perDay \in Nat
    BY <1>1, ProductOrder
  <1> DEFINE x == days * perDay
  <1>3. x % Word \in Nat /\ x % Word <= x
    <2> HIDE DEF x
    <2>1. x \in Nat
      BY <1>2 DEF x
    <2> QED BY <1>1, <2>1
  <1> QED BY <1>2, <1>3 DEF Window

\* The blocks a validator signed are among those of the window, and of the one before it.
LEMMA UptimeIsExact == TypeOK => UptimeExact
  <1> SUFFICES ASSUME TypeOK, NEW days \in Days, NEW perDay \in PerDays, NEW v \in Validators, NEW by \in [1..Height -> Validators]
               PROVE  LET u == GetValidatorUptime(by, v, days, perDay)
                          start == UptimeStart(Height, days, perDay)
                      IN \/ u.missed + u.validated = u.total
                         \/ start > 0 /\ SignedBy(by, v, days, perDay) = start..Height
    BY DEF UptimeExact
  <1>1. Height \in Nat /\ Height <= MaxHeight /\ Word \in Nat /\ MaxHeight \in Nat /\ Word > MaxHeight + 1
    BY StatisticsFacts, ChainFacts DEF ChainView
  <1>2. Len(by) = Height
    BY <1>1
  <1> DEFINE start == UptimeStart(Height, days, perDay)
             S == SignedBy(by, v, days, perDay)
             total == Height - start
  <1>3. start \in Nat /\ start <= Height
    <2>1. Window(days, perDay) \in Nat
      BY WindowFacts
    <2> QED BY <1>1, <2>1 DEF UptimeStart
  <1>4. S = {h \in start..Height : h > 0 /\ by[h] = v}
    BY <1>2 DEF SignedBy
  <1>5. GetValidatorUptime(by, v, days, perDay)
           = [total |-> total, validated |-> Cardinality(S), missed |-> Minus(total, Cardinality(S))]
    BY <1>2 DEF GetValidatorUptime
  <1> HIDE DEF S, start
  <1>6. total \in 0..(Word - 1)
    BY <1>1, <1>3
  <1>7. ASSUME Cardinality(S) \in Nat, Cardinality(S) <= total
        PROVE  Minus(total, Cardinality(S)) + Cardinality(S) = total
    <2>1. Cardinality(S) \in 0..(Word - 1)
      BY <1>1, <1>6, <1>7
    <2>2. Minus(total, Cardinality(S)) = total - Cardinality(S)
      BY <1>6, <1>7, <2>1, MinusFacts
    <2> QED BY <1>6, <1>7, <2>2
  <1>8. CASE start = 0
    <2>1. S \in SUBSET (1..Height)
      BY <1>1, <1>4, <1>8
    <2>2. IsFiniteSet(1..Height) /\ Cardinality(1..Height) = Height
      BY <1>1, FS_Interval
    <2>3. Cardinality(S) \in Nat /\ Cardinality(S) <= Height
      <3>1. IsFiniteSet(S) /\ Cardinality(S) <= Cardinality(1..Height)
        BY <2>1, <2>2, FS_Subset
      <3> QED BY <2>2, <3>1, FS_CardinalityType
    <2>4. total = Height
      BY <1>1, <1>8
    <2> QED BY <1>5, <1>7, <2>3, <2>4
  <1>9. CASE start > 0
    <2>1. S \in SUBSET (start..Height)
      BY <1>4
    <2>2. IsFiniteSet(start..Height) /\ Cardinality(start..Height) = total + 1
      BY <1>1, <1>3, FS_Interval
    <2>3. /\ Cardinality(S) \in Nat /\ Cardinality(S) <= total + 1
          /\ Cardinality(S) = total + 1 => S = start..Height
      <3>1. /\ IsFiniteSet(S) /\ Cardinality(S) <= Cardinality(start..Height)
            /\ Cardinality(start..Height) = Cardinality(S) => start..Height = S
        BY <2>1, <2>2, FS_Subset
      <3> QED BY <2>2, <3>1, FS_CardinalityType
    <2>4. S = start..Height \/ Cardinality(S) <= total
      BY <1>6, <2>3
    <2>5. CASE S = start..Height
      BY <1>9, <2>5 DEF S, start
    <2>6. CASE Cardinality(S) <= total
      BY <1>5, <1>7, <2>3, <2>6
    <2> QED BY <2>4, <2>5, <2>6
  <1> QED BY <1>3, <1>8, <1>9

\* A day that lies in the chain, and the one that the loop breaks at.
LEMMA DayFacts ==
    ASSUME NEW top \in Nat, top < Word, NEW d \in Nat, NEW perDay \in PerDays, perDay > 0,
           d * perDay <= top
    PROVE  /\ (d + 1) * perDay <= top =>
                /\ VolumeDay(top, d, perDay) # {}
                /\ \A h \in Nat : h \in VolumeDay(top, d, perDay) =>
                     h <= top - d * perDay /\ h >= top - (d + 1) * perDay
           /\ (d + 1) * perDay > top => VolumeDay(top, d, perDay) = {}
  <1> DEFINE a == d * perDay
             end == Minus(top, a)
             low == Minus(end, perDay)
             start == IF low < 1 THEN 1 ELSE low
  <1>1. Word \in Nat /\ perDay \in Nat /\ perDay > 0 /\ Word > perDay
    BY StatisticsFacts
  <1>2. a \in Int /\ a >= 0 /\ a <= top /\ (d + 1) * perDay = a + perDay
    BY <1>1, ProductOrder
  <1> HIDE DEF a
  <1>3. a \in 0..(Word - 1) /\ top \in 0..(Word - 1) /\ perDay \in 0..(Word - 1)
    BY <1>1, <1>2
  <1>4. end = top - a
    BY <1>2, <1>3, MinusFacts
  <1>5. VolumeDay(top, d, perDay) = IF end < 1 \/ end < start THEN {} ELSE start..end
    BY DEF VolumeDay, a
  <1>6. end \in 0..(Word - 1)
    BY <1>1, <1>2, <1>3, <1>4
  <1>7. /\ end >= perDay => low = end - perDay
        /\ end < perDay => low = end + Word - perDay
    BY <1>3, <1>6, MinusFacts
  <1> HIDE DEF end, low
  <1>8. ASSUME a + perDay <= top
        PROVE  VolumeDay(top, d, perDay) # {} /\ \A h \in Nat : h \in VolumeDay(top, d, perDay) =>
                     h <= top - a /\ h >= top - (a + perDay)
    <2>1. end >= perDay /\ low = end - perDay /\ low = top - (a + perDay)
      BY <1>1, <1>2, <1>4, <1>7, <1>8
    <2>2. start \in Nat /\ start <= end /\ end >= 1 /\ start >= low /\ end \in Nat
      BY <1>1, <1>6, <2>1
    <2>3. VolumeDay(top, d, perDay) = start..end
      BY <1>5, <1>6, <2>2
    <2> HIDE DEF start
    <2>4. \A h \in Nat : h \in start..end => h <= end /\ h >= start
      BY <2>2
    <2>5. end \in start..end
      BY <2>2
    <2>6. top - (a + perDay) \in Int
      BY <1>1, <1>2
    <2> QED BY <1>4, <2>1, <2>2, <2>3, <2>4, <2>5, <2>6
  <1>9. ASSUME a + perDay > top PROVE VolumeDay(top, d, perDay) = {}
    <2>1. end < perDay /\ low = end + Word - perDay
      BY <1>1, <1>2, <1>4, <1>7, <1>9
    <2>2. start > end
      BY <1>1, <1>6, <2>1
    <2> QED BY <1>5, <1>6, <2>2
  <1> QED BY <1>2, <1>8, <1>9 DEF a

\* The loop shows the days that lie wholly in the chain and no other.
LEMMA VolumeIsCovered == TypeOK => VolumeCovers
  <1> SUFFICES ASSUME TypeOK, NEW days \in Days, NEW perDay \in PerDays
               PROVE  LET shown == DOMAIN GetDailyTransactionVolume(chain, days, perDay)
                      IN /\ \A d \in 0..(days - 1) :
                              Height > 0 /\ Height >= (d + 1) * perDay => d \in shown
                         /\ IF perDay = 0
                            THEN \A d \in shown : VolumeDay(Height, d, perDay) = {Height}
                            ELSE \A h \in 1..Height :
                                   Cardinality({d \in shown : h \in VolumeDay(Height, d, perDay)}) <= 2
    BY DEF VolumeCovers
  <1>1. Height \in Nat /\ Height <= MaxHeight /\ Word \in Nat /\ MaxHeight \in Nat /\ Height < Word
        /\ perDay \in Nat /\ days \in Nat
    BY StatisticsFacts, ChainFacts DEF ChainView, Days
  <1> DEFINE shown == {d \in 0..(days - 1) : \A e \in 0..d : VolumeDay(Height, e, perDay) # {}}
  <1>2. DOMAIN GetDailyTransactionVolume(chain, days, perDay) = shown
    BY DEF GetDailyTransactionVolume, Height
  <1>0. ASSUME perDay = 0, NEW d \in Nat
        PROVE  /\ Height > 0 => VolumeDay(Height, d, perDay) = {Height}
               /\ Height = 0 => VolumeDay(Height, d, perDay) = {}
    <2>1. d * perDay = 0 /\ 0 \in 0..(Word - 1) /\ Height \in 0..(Word - 1)
      BY <1>0, <1>1
    <2>2. Minus(Height, 0) = Height
      BY <1>1, <2>1, MinusFacts
    <2>3. VolumeDay(Height, d, perDay)
            = IF Height < 1 \/ Height < (IF Height < 1 THEN 1 ELSE Height) THEN {}
              ELSE (IF Height < 1 THEN 1 ELSE Height)..Height
      BY <1>0, <2>1, <2>2 DEF VolumeDay
    <2> QED BY <1>1, <2>3
  <1>3. ASSUME NEW d \in 0..(days - 1), perDay > 0, Height >= (d + 1) * perDay PROVE d \in shown
    <2>1. ASSUME NEW e \in 0..d PROVE VolumeDay(Height, e, perDay) # {}
      <3>1. e \in Nat /\ d \in Nat /\ e <= d /\ d \in Int /\ e \in Int /\ e + 1 \in Int /\ d + 1 \in Int
        OBVIOUS
      <3>2. (e + 1) * perDay <= (d + 1) * perDay /\ (e + 1) * perDay = e * perDay + perDay
            /\ (e + 1) * perDay \in Int /\ (d + 1) * perDay \in Int /\ e * perDay \in Int
        BY <1>1, <3>1, ProductOrder
      <3>3. (e + 1) * perDay <= Height /\ e * perDay <= Height
        BY <1>1, <1>3, <3>2
      <3> QED BY <1>1, <1>3, <3>1, <3>3, DayFacts
    <2> QED BY <2>1
  <1>4. ASSUME NEW d \in shown, perDay > 0 PROVE d \in Nat /\ (d + 1) * perDay <= Height /\ d * perDay <= Height
    <2>1. d \in Nat /\ \A e \in 0..d : VolumeDay(Height, e, perDay) # {}
      OBVIOUS
    <2> HIDE DEF shown
    <2> DEFINE Bad == {n \in Nat : n * perDay > Height}
    <2>2. SUFFICES ASSUME (d + 1) * perDay > Height PROVE FALSE
      <3>1. (d + 1) * perDay = d * perDay + perDay /\ d * perDay \in Int
        BY <1>1, <2>1, ProductOrder
      <3> QED BY <1>1, <2>1, <3>1
    <2>3. d + 1 \in Bad /\ Bad \in SUBSET Nat
      BY <2>1, <2>2
    <2> HIDE DEF Bad
    <2>4. PICK n \in Bad : \A m \in Bad : n <= m
      BY <2>3, LeastNatural
    <2>5. n \in Nat /\ n * perDay > Height /\ n <= d + 1
      BY <2>3, <2>4 DEF Bad
    <2>6. n # 0
      <3>1. 0 * perDay = 0
        BY <1>1
      <3> QED BY <1>1, <2>5, <3>1
    <2>7. n - 1 \in Nat /\ n - 1 \notin Bad /\ n - 1 \in 0..d /\ (n - 1) + 1 = n
      BY <2>1, <2>3, <2>4, <2>5, <2>6
    <2>8. (n - 1) * perDay <= Height
      <3>1. (n - 1) * perDay \in Int
        BY <1>1, <2>7, ProductOrder
      <3> QED BY <1>1, <2>7, <3>1 DEF Bad
    <2>9. VolumeDay(Height, n - 1, perDay) = {}
      BY <1>1, <1>4, <2>5, <2>7, <2>8, DayFacts
    <2> QED BY <2>1, <2>7, <2>9
  <1>5. ASSUME NEW h \in 1..Height, perDay > 0 PROVE Cardinality({d \in shown : h \in VolumeDay(Height, d, perDay)}) <= 2
    <2> DEFINE S == {d \in shown : h \in VolumeDay(Height, d, perDay)}
    <2>1. \A d \in S : d \in Nat /\ d \in shown /\ h \in VolumeDay(Height, d, perDay)
      BY <1>4, <1>5
    <2> HIDE DEF shown, S
    <2>2. ASSUME NEW d \in S, NEW e \in S, d < e PROVE e = d + 1
      <3>1. d \in Nat /\ e \in Nat /\ d + 1 \in Nat
        BY <2>1
      <3>2. SUFFICES ASSUME d + 1 < e PROVE FALSE
        BY <2>2, <3>1
      <3>3. (d + 1) * perDay <= Height /\ d * perDay <= Height /\ (e + 1) * perDay <= Height /\ e * perDay <= Height
        BY <1>4, <1>5, <2>1
      <3>4. h >= Height - (d + 1) * perDay /\ h <= Height - e * perDay
        BY <1>1, <1>5, <2>1, <3>1, <3>3, DayFacts
      <3>5. ((d + 1) + 1) * perDay <= e * perDay /\ ((d + 1) + 1) * perDay = (d + 1) * perDay + perDay
            /\ (d + 1) * perDay \in Int /\ e * perDay \in Int
        BY <1>1, <3>1, <3>2, ProductOrder
      <3> QED BY <1>1, <1>5, <3>4, <3>5
    <2>3. S \in SUBSET Nat
      BY <2>1
    <2>4. Cardinality(S) <= 2
      BY <2>2, <2>3, TwoAtMost
    <2> QED BY <2>4 DEF S
  <1>6. CASE perDay = 0
    <2>1. \A d \in 0..(days - 1) : d \in Nat /\ \A e \in 0..d : e \in Nat
      OBVIOUS
    <2>2. \A d \in 0..(days - 1) : Height > 0 => d \in shown
      BY <1>0, <1>6, <2>1
    <2>3. \A d \in shown : VolumeDay(Height, d, perDay) = {Height}
      <3> TAKE d \in shown
      <3>1. d \in Nat /\ d \in 0..d /\ VolumeDay(Height, d, perDay) # {}
        BY <2>1
      <3> QED BY <1>0, <1>1, <1>6, <3>1
    <2> HIDE DEF shown
    <2> QED BY <1>2, <1>6, <2>2, <2>3
  <1>7. CASE perDay > 0
    <2> HIDE DEF shown
    <2> QED BY <1>2, <1>3, <1>5, <1>7
  <1> QED BY <1>1, <1>6, <1>7

\* The least number of a set.
LEMMA MinFacts ==
    ASSUME NEW S \in SUBSET Nat, S # {}
    PROVE  /\ Min(S) \in S /\ Min(S) \in Nat
           /\ \A y \in S : Min(S) <= y
           /\ \A x \in S : (\A y \in S : x <= y) => Min(S) = x
  <1>1. \E x \in S : \A y \in S : x <= y
    BY LeastNatural
  <1>2. Min(S) \in S /\ \A y \in S : Min(S) <= y
    BY <1>1 DEF Min
  <1>3. ASSUME NEW x \in S, \A y \in S : x <= y PROVE Min(S) = x
    <2>1. x <= Min(S) /\ Min(S) <= x /\ x \in Nat /\ Min(S) \in Nat
      BY <1>2, <1>3
    <2> QED BY <2>1
  <1> QED BY <1>2, <1>3

\* The same for the greatest.
LEMMA MaxFacts ==
    ASSUME NEW S \in SUBSET Nat, IsFiniteSet(S), S # {}
    PROVE  /\ Max(S) \in S /\ Max(S) \in Nat
           /\ \A y \in S : y <= Max(S)
           /\ \A x \in S : (\A y \in S : y <= x) => Max(S) = x
  <1>1. PICK z \in S : \A y \in S : y <= z
    BY GreatestNatural
  <1>2. \E x \in S : \A y \in S : x >= y
    <2>1. \A y \in S : z \in Nat /\ y \in Nat /\ y <= z
      BY <1>1
    <2>2. \A y \in S : z >= y
      BY <2>1
    <2> QED BY <2>2
  <1>3. Max(S) \in S /\ \A y \in S : Max(S) >= y
    BY <1>2 DEF Max
  <1>4. \A y \in S : y <= Max(S)
    <2>1. \A y \in S : y \in Nat /\ Max(S) \in Nat
      BY <1>3
    <2> QED BY <1>3, <2>1
  <1>5. ASSUME NEW x \in S, \A y \in S : y <= x PROVE Max(S) = x
    <2>1. x <= Max(S) /\ Max(S) <= x /\ x \in Nat /\ Max(S) \in Nat
      BY <1>3, <1>4, <1>5
    <2> QED BY <2>1
  <1> QED BY <1>3, <1>4, <1>5

\* The two average times read the same blocks; one of them leaves the gaps below 0 out.
LEMMA TimesDoAgree == TypeOK => TimesAgree
  <1> SUFFICES ASSUME TypeOK, NEW stamp \in [1..Height -> 0..MaxStamp], NEW n \in 2..(Height - 1)
               PROVE  LET one == GetBlockTime(stamp, n)
                          other == AvgBlockTime(stamp, n)
                          back == \E h \in (Height - n + 2)..Height : stamp[h] < stamp[h - 1]
                      IN /\ one.gaps = other.gaps
                         /\ IF back THEN one.total < other.total ELSE one.total = other.total
    BY DEF TimesAgree
  <1>1. Height \in Nat /\ n \in Nat /\ n >= 2 /\ n < Height /\ MaxStamp \in Nat
    BY StatisticsFacts, ChainFacts DEF ChainView
  <1>2. Len(stamp) = Height
    BY <1>1
  <1> DEFINE H == (Height - n + 1)..Height
             G == (Height - n + 2)..Height
             f == [h \in G |-> Gap(stamp, h)]
             P == {h \in G : f[h] > 0}
  <1>3. TimeHeights(Height, n) = H
    BY <1>1 DEF TimeHeights
  <1>4. H \in SUBSET Nat /\ Height - n + 1 \in H /\ \A y \in H : Height - n + 1 <= y
    BY <1>1
  <1>5. Min(H) = Height - n + 1
    <2> HIDE DEF H
    <2> QED BY <1>4, MinFacts
  <1>6. H \ {Min(H)} = G
    BY <1>1, <1>5
  <1>7. IsFiniteSet(G) /\ IsFiniteSet(H) /\ Cardinality(G) = n - 1 /\ Cardinality(H) = n
    BY <1>1, FS_Interval
  <1>8. \A h \in G : stamp[h] \in Nat /\ stamp[h - 1] \in Nat /\ Gap(stamp, h) \in Int
        /\ (stamp[h] < stamp[h - 1] <=> Gap(stamp, h) < 0)
    <2>1. \A h \in G : h \in 1..Height /\ h - 1 \in 1..Height
      BY <1>1
    <2>2. \A k \in 1..Height : stamp[k] \in Nat
      BY <1>1
    <2> QED BY <2>1, <2>2 DEF Gap
  <1>9. f \in [G -> Int] /\ \A h \in G : f[h] = Gap(stamp, h)
    BY <1>8
  <1>10. GetBlockTime(stamp, n) = [total |-> SumFunction(f), gaps |-> n - 1]
    BY <1>2, <1>3, <1>6, <1>7 DEF GetBlockTime
  <1>11. AvgBlockTime(stamp, n) = [total |-> Over(f, P), gaps |-> n - 1]
    <2>1. P = {h \in G : Gap(stamp, h) > 0}
      OBVIOUS
    <2>2. [h \in P |-> f[h]] = [h \in P |-> Gap(stamp, h)]
      OBVIOUS
    <2>3. AvgBlockTime(stamp, n) = [total |-> SumFunction([h \in {h \in G : Gap(stamp, h) > 0} |-> Gap(stamp, h)]),
                                    gaps |-> Cardinality(G)]
      <3> HIDE DEF f, P
      <3> QED BY <1>2, <1>6 DEF AvgBlockTime
    <2> HIDE DEF G, f, P
    <2> QED BY <1>7, <2>1, <2>2, <2>3 DEF Over
  <1> HIDE DEF f
  <1>12. /\ (\E h \in G : f[h] < 0) => SumFunction(f) < Over(f, P)
         /\ (\A h \in G : f[h] >= 0) => SumFunction(f) = Over(f, P)
    BY <1>7, <1>9, PositivePart
  <1> HIDE DEF P
  <1>13. CASE \E h \in G : stamp[h] < stamp[h - 1]
    BY <1>8, <1>9, <1>10, <1>11, <1>12, <1>13
  <1>14. CASE ~\E h \in G : stamp[h] < stamp[h - 1]
    <2>1. \A h \in G : f[h] >= 0
      BY <1>8, <1>9, <1>14
    <2> QED BY <1>10, <1>11, <1>12, <1>14, <2>1
  <1> QED BY <1>13, <1>14

-----------------------------------------------------------------------------
(* Rewards. *)

\* g has the first n halvings.
Halvings(g, n) ==
    /\ g \in [0..n -> Nat] /\ g[0] = InitialReward
    /\ \A k \in 1..n : g[k] = g[k - 1] \div 2

\* There are any number of halvings.
LEMMA HalvingsExist == \A n \in Nat : \E g : Halvings(g, n)
  <1> DEFINE Bad == {n \in Nat : ~\E g : Halvings(g, n)}
  <1> SUFFICES ASSUME Bad # {} PROVE FALSE
    OBVIOUS
  <1>0. Bad \in SUBSET Nat /\ \A n : n \in Bad <=> n \in Nat /\ ~\E g : Halvings(g, n)
    OBVIOUS
  <1> HIDE DEF Bad
  <1>1. PICK n \in Bad : \A m \in Bad : n <= m
    BY <1>0, LeastNatural
  <1>2. n \in Nat /\ ~\E g : Halvings(g, n)
    BY <1>0, <1>1
  <1>3. InitialReward \in Nat
    BY StatisticsFacts
  <1>4. CASE n = 0
    <2> DEFINE g == [k \in 0..0 |-> InitialReward]
    <2>1. g \in [0..0 -> Nat] /\ g[0] = InitialReward /\ \A k \in 1..0 : g[k] = g[k - 1] \div 2
      BY <1>3
    <2> QED BY <1>2, <1>4, <2>1 DEF Halvings
  <1>5. CASE n > 0
    <2>1. n - 1 \in Nat /\ n - 1 \notin Bad
      BY <1>1, <1>2, <1>5, <1>0
    <2>2. PICK g : Halvings(g, n - 1)
      BY <1>0, <2>1
    <2> DEFINE k == [m \in 0..n |-> IF m = n THEN g[n - 1] \div 2 ELSE g[m]]
    <2>3. g \in [0..(n - 1) -> Nat] /\ g[0] = InitialReward /\ \A m \in 1..(n - 1) : g[m] = g[m - 1] \div 2
      BY <2>2 DEF Halvings
    <2>4. \A m \in 0..n : m # n => m \in 0..(n - 1)
      BY <1>2
    <2>5. g[n - 1] \in Nat
      BY <2>1, <2>3
    <2>6. g[n - 1] \div 2 \in Nat
      BY <2>5
    <2>7. k \in [0..n -> Nat]
      BY <2>3, <2>4, <2>6
    <2>8. k[0] = InitialReward
      BY <1>2, <1>5, <2>3
    <2>9. ASSUME NEW m \in 1..n PROVE k[m] = k[m - 1] \div 2
      <3>1. m \in 0..n /\ m - 1 \in 0..n /\ m - 1 # n
        BY <1>2
      <3>2. k[m - 1] = g[m - 1]
        BY <3>1
      <3>3. CASE m = n
        BY <3>1, <3>2, <3>3
      <3>4. CASE m # n
        BY <1>2, <2>3, <3>1, <3>2, <3>4
      <3> QED BY <3>3, <3>4
    <2> HIDE DEF k
    <2> QED BY <1>2, <2>7, <2>8, <2>9 DEF Halvings
  <1> QED BY <1>2, <1>4, <1>5

\* Two of them agree as far as both go.
LEMMA HalvingsAgree ==
    ASSUME NEW n \in Nat, NEW m \in Nat, n <= m, NEW g, Halvings(g, n), NEW h, Halvings(h, m)
    PROVE  \A k \in 0..n : g[k] = h[k]
  <1> DEFINE Bad == {k \in 0..n : g[k] # h[k]}
  <1> SUFFICES ASSUME Bad # {} PROVE FALSE
    OBVIOUS
  <1>0. Bad \in SUBSET Nat /\ \A k : k \in Bad <=> k \in 0..n /\ g[k] # h[k]
    OBVIOUS
  <1> HIDE DEF Bad
  <1>1. PICK k \in Bad : \A j \in Bad : k <= j
    BY <1>0, LeastNatural
  <1>2. k \in 0..n /\ g[k] # h[k]
    BY <1>0, <1>1
  <1>3. k # 0
    BY <1>2 DEF Halvings
  <1>4. k - 1 \in 0..n /\ k \in 1..n /\ k \in 1..m /\ k - 1 \notin Bad
    BY <1>0, <1>1, <1>2, <1>3
  <1>5. g[k - 1] = h[k - 1]
    BY <1>0, <1>4
  <1>6. g[k] = g[k - 1] \div 2 /\ h[k] = h[k - 1] \div 2
    BY <1>4 DEF Halvings
  <1> QED BY <1>2, <1>5, <1>6

\* What calculateBlockReward's loop computes: half of the reward before, and the first one.
LEMMA HalvedFacts ==
    /\ Halved \in [Nat -> Nat]
    /\ Halved[0] = InitialReward /\ \A n \in Nat : Halved[n + 1] = Halved[n] \div 2
  <1> DEFINE Of(n) == CHOOSE g : Halvings(g, n)
             F == [n \in Nat |-> Of(n)[n]]
  <1>1. \A n \in Nat : Halvings(Of(n), n)
    BY HalvingsExist
  <1> HIDE DEF Of
  <1>2. ASSUME NEW n \in Nat PROVE F[n] \in Nat
    <2>1. Of(n) \in [0..n -> Nat] /\ n \in 0..n
      BY <1>1 DEF Halvings
    <2> QED BY <2>1
  <1>3. F[0] = InitialReward
    BY <1>1 DEF Halvings
  <1>4. ASSUME NEW n \in Nat, n # 0 PROVE F[n] = F[n - 1] \div 2
    <2>1. n - 1 \in Nat /\ n - 1 <= n /\ n \in 1..n /\ n - 1 \in 0..(n - 1)
      BY <1>4
    <2>2. Of(n)[n] = Of(n)[n - 1] \div 2
      BY <1>1, <2>1 DEF Halvings
    <2>3. Of(n - 1)[n - 1] = Of(n)[n - 1]
      BY <1>1, <2>1, HalvingsAgree
    <2> QED BY <2>1, <2>2, <2>3
  <1>5. F = [n \in Nat |-> IF n = 0 THEN InitialReward ELSE F[n - 1] \div 2]
    <2>1. \A n \in Nat : F[n] = IF n = 0 THEN InitialReward ELSE F[n - 1] \div 2
      BY <1>3, <1>4
    <2>2. F = [n \in Nat |-> F[n]]
      OBVIOUS
    <2> HIDE DEF F
    <2> QED BY <2>1, <2>2
  <1>6. \E f : f = [n \in Nat |-> IF n = 0 THEN InitialReward ELSE f[n - 1] \div 2]
    BY <1>5
  <1>7. Halved = [n \in Nat |-> IF n = 0 THEN InitialReward ELSE Halved[n - 1] \div 2]
    BY <1>6 DEF Halved
  <1>8. Halved[0] = InitialReward
    BY <1>7
  <1>9. ASSUME NEW n \in Nat PROVE Halved[n + 1] = Halved[n] \div 2
    <2>1. n + 1 \in Nat /\ n + 1 # 0 /\ (n + 1) - 1 = n
      OBVIOUS
    <2> QED BY <1>7, <2>1
  <1>10. \A n \in Nat : Halved[n] \in Nat
    <2> DEFINE Bad == {n \in Nat : Halved[n] \notin Nat}
    <2> SUFFICES ASSUME Bad # {} PROVE FALSE
      OBVIOUS
    <2>0. Bad \in SUBSET Nat /\ \A n : n \in Bad <=> n \in Nat /\ Halved[n] \notin Nat
      OBVIOUS
    <2> HIDE DEF Bad
    <2>1. PICK n \in Bad : \A m \in Bad : n <= m
      BY <2>0, LeastNatural
    <2>2. n \in Nat /\ n # 0
      BY <1>8, <2>0, <2>1, StatisticsFacts
    <2>3. n - 1 \in Nat /\ n - 1 \notin Bad /\ (n - 1) + 1 = n
      BY <2>0, <2>1, <2>2
    <2>4. Halved[n - 1] \in Nat
      BY <2>0, <2>3
    <2>5. Halved[n - 1] \div 2 \in Nat
      BY <2>4
    <2> QED BY <1>9, <2>0, <2>1, <2>3, <2>5
  <1> QED BY <1>7, <1>8, <1>9, <1>10

\* The blocks of one level, by the reward they bring.
LEMMA LevelFacts ==
    ASSUME NEW top \in Nat, NEW l \in Nat, top - l * HalvingBlocks > 0
    PROVE  LET left == top - l * HalvingBlocks
           IN Cardinality({n \in 1..top : (n - 1) \div HalvingBlocks = l})
                = IF left > HalvingBlocks THEN HalvingBlocks ELSE left
  <1> DEFINE B == HalvingBlocks
             left == top - l * B
             S == {n \in 1..top : (n - 1) \div B = l}
             high == IF left > B THEN l * B + B ELSE top
  <1>1. B \in Nat /\ B > 0
    BY StatisticsFacts
  <1>2. l * B \in Int /\ l * B >= 0
    BY <1>1, ProductOrder
  <1>3. ASSUME NEW n \in 1..top PROVE (n - 1) \div B = l <=> n \in (l * B + 1)..high
    <2>1. n - 1 \in Nat
      OBVIOUS
    <2>2. (n - 1) \div B = l <=> l * B <= n - 1 /\ n - 1 < l * B + B
      BY <1>1, <2>1, DivFacts
    <2> QED BY <1>1, <1>2, <2>2
  <1>4. (l * B + 1)..high \subseteq 1..top
    BY <1>1, <1>2
  <1>5. S = (l * B + 1)..high
    BY <1>3, <1>4
  <1>6. high \in Int /\ l * B + 1 \in Int /\ l * B + 1 <= high
    BY <1>1, <1>2
  <1>7. Cardinality(S) = high - (l * B + 1) + 1
    <2> HIDE DEF high, S
    <2> QED BY <1>5, <1>6, FS_Interval
  <1> QED BY <1>1, <1>2, <1>7

\* The supply counts every block once, at the level its reward has.
LEMMA SupplyIsRewards == TypeOK => SupplyMatchesRewards
  <1> SUFFICES ASSUME TypeOK
               PROVE  10 * GetCirculatingSupply(Height) =
                        SumFunction([n \in 1..Height |-> RewardTenths(n)])
                          + (IF Height > 0 THEN 3 * InitialReward ELSE 0)
    BY DEF SupplyMatchesRewards
  <1> DEFINE top == Height
             B == HalvingBlocks
             D == 1..top
             f == [n \in D |-> calculateBlockReward(n - 1)]
             K == {l \in 0..top : top - l * B > 0}
             n(l) == IF top - l * B > B THEN B ELSE top - l * B
             g == [l \in K |-> n(l) * Halved[l]]
             P == [l \in K |-> {m \in D : (m - 1) \div B = l}]
  <1>1. top \in Nat /\ B \in Nat /\ B > 0
    BY StatisticsFacts, ChainFacts DEF ChainView
  <1>2. GetCirculatingSupply(top) = SumFunction(g)
    BY DEF GetCirculatingSupply
  <1>3. IsFiniteSet(D) /\ IsFiniteSet(K)
    <2>1. IsFiniteSet(1..top) /\ IsFiniteSet(0..top)
      BY <1>1, FS_Interval
    <2>2. K \in SUBSET (0..top)
      OBVIOUS
    <2> HIDE DEF K
    <2> QED BY <2>1, <2>2, FS_Subset
  <1>4. ASSUME NEW m \in D
        PROVE  (m - 1) \div B \in K /\ f[m] = Halved[(m - 1) \div B] /\ f[m] \in Int
    <2>1. m - 1 \in Nat /\ m - 1 < top
      BY <1>1
    <2>2. (m - 1) \div B \in Nat /\ ((m - 1) \div B) * B <= m - 1 /\ (m - 1) \div B <= m - 1
      BY <1>1, <2>1, DivFacts
    <2>3. ((m - 1) \div B) * B \in Int
      BY <1>1, <2>2, ProductOrder
    <2>4. (m - 1) \div B \in K
      BY <1>1, <2>1, <2>2, <2>3
    <2>5. f[m] = Halved[(m - 1) \div B]
      BY DEF calculateBlockReward
    <2> QED BY <2>2, <2>4, <2>5, HalvedFacts
  <1>5. f \in [D -> Int]
    BY <1>4
  <1>6. ASSUME NEW l \in K
        PROVE  l \in Nat /\ P[l] \in SUBSET D /\ g[l] \in Int /\ g[l] = Over(f, P[l])
    <2>1. l \in Nat /\ top - l * B > 0
      OBVIOUS
    <2>2. P[l] = {m \in D : (m - 1) \div B = l} /\ P[l] \in SUBSET D
      OBVIOUS
    <2>3. Cardinality(P[l]) = n(l)
      BY <1>1, <2>1, <2>2, LevelFacts
    <2>4. \A m \in P[l] : f[m] = Halved[l]
      BY <1>4, <2>2
    <2>5. Halved[l] \in Int
      BY <2>1, HalvedFacts
    <2>6. g[l] = n(l) * Halved[l]
      OBVIOUS
    <2> HIDE DEF f, P, n, g, D, K
    <2>7. Over(f, P[l]) = Cardinality(P[l]) * Halved[l] /\ Cardinality(P[l]) \in Nat
      BY <1>3, <1>5, <2>2, <2>4, <2>5, OverConstant
    <2>8. Cardinality(P[l]) * Halved[l] \in Int
      BY <2>5, <2>7
    <2> QED BY <2>1, <2>2, <2>3, <2>6, <2>7, <2>8
  <1>7. P \in [K -> SUBSET D] /\ \A k, j \in K : k # j => P[k] \cap P[j] = {}
    OBVIOUS
  <1>8. UNION {P[l] : l \in K} = D
    <2>1. \A m \in D : \E l \in K : m \in P[l]
      BY <1>4
    <2>2. \A l \in K : P[l] \subseteq D
      BY <1>6
    <2> HIDE DEF P, K, D
    <2> QED BY <2>1, <2>2
  <1>9. g \in [K -> Int]
    <2> DEFINE v(l) == n(l) * Halved[l]
    <2>1. \A l \in K : g[l] = v(l) /\ v(l) \in Int
      BY <1>6
    <2>2. g = [l \in K |-> g[l]]
      OBVIOUS
    <2> HIDE DEF g, K, v
    <2> QED BY <2>1, <2>2
  <1>10. SumFunction(g) = Over(f, D)
    <2>1. \A k \in K : g[k] = Over(f, P[k])
      BY <1>6
    <2> HIDE DEF f, P, g, D, K, n
    <2> QED BY <1>3, <1>5, <1>7, <1>8, <1>9, <2>1, Regroup
  <1> DEFINE paid == [m \in D |-> RewardTenths(m)]
             full == [m \in D |-> 10 * f[m]]
  <1>11. ASSUME NEW m \in D
         PROVE  /\ full[m] = 10 * f[m] /\ full[m] \in Int /\ paid[m] \in Int
                /\ m # 1 => paid[m] = full[m]
                /\ m = 1 => full[m] = paid[m] + 3 * InitialReward
    <2>1. f[m] = calculateBlockReward(m - 1) /\ f[m] \in Int
      BY <1>4
    <2>2. paid[m] = (IF m > 1 THEN 10 ELSE 7) * f[m]
      BY <2>1 DEF RewardTenths
    <2>3. full[m] = 10 * f[m]
      OBVIOUS
    <2>4. m = 1 => f[m] = InitialReward
      <3>1. 0 \div B = 0
        BY <1>1
      <3>2. Halved[0] = InitialReward
        BY HalvedFacts
      <3> QED BY <1>4, <3>1, <3>2
    <2>5. m \in Nat /\ m >= 1
      BY <1>1
    <2> HIDE DEF f, paid, full
    <2> QED BY <2>1, <2>2, <2>3, <2>4, <2>5
  <1>12. full \in [D -> Int] /\ paid \in [D -> Int]
    BY <1>11
  <1>13. SumFunction(paid) = Over(paid, D)
    <2> HIDE DEF paid, D
    <2> QED BY <1>12, OverAll
  <1> HIDE DEF f, paid, full
  <1>14. Over(full, D) = 10 * Over(f, D)
    <2>1. D \in SUBSET D /\ 10 \in Int /\ \A x \in D : full[x] = 10 * f[x]
      BY <1>11
    <2> HIDE DEF D
    <2> QED BY <1>3, <1>5, <1>12, <2>1, OverTimes
  <1>15. Over(full, D) \in Int /\ Over(paid, D) \in Int
    <2> HIDE DEF D
    <2> QED BY <1>3, <1>12, OverFacts
  <1>16. CASE top = 0
    <2>1. D = {}
      BY <1>16
    <2>2. Over(full, D) = 0 /\ Over(paid, D) = 0
      <3> HIDE DEF D
      <3> QED BY <1>3, <1>12, <2>1, OverFacts
    <2> HIDE DEF g, D
    <2> QED BY <1>2, <1>10, <1>13, <1>14, <1>16, <2>2 DEF paid, D
  <1>17. CASE top > 0
    <2>1. 1 \in D /\ D \ {1} \in SUBSET D
      BY <1>1, <1>17
    <2>2. Over(full, D) = full[1] + Over(full, D \ {1}) /\ Over(paid, D) = paid[1] + Over(paid, D \ {1})
      <3> HIDE DEF D
      <3> QED BY <1>3, <1>12, <2>1, OverFacts
    <2>3. Over(full, D \ {1}) = Over(paid, D \ {1})
      <3>1. \A x \in D \ {1} : full[x] = paid[x]
        BY <1>11
      <3> HIDE DEF D
      <3> QED BY <3>1, OverSame
    <2>4. Over(paid, D \ {1}) \in Int
      <3> HIDE DEF D
      <3> QED BY <1>3, <1>12, <2>1, OverFacts
    <2>5. full[1] = paid[1] + 3 * InitialReward /\ paid[1] \in Int /\ full[1] \in Int
      BY <1>11, <2>1
    <2>6. InitialReward \in Nat
      BY StatisticsFacts
    <2>7. Over(full, D) = Over(paid, D) + 3 * InitialReward
      BY <2>2, <2>3, <2>4, <2>5, <2>6
    <2> HIDE DEF g, D
    <2> QED BY <1>2, <1>10, <1>13, <1>14, <1>17, <2>7 DEF paid, D
  <1> QED BY <1>1, <1>16, <1>17

-----------------------------------------------------------------------------
(* Growth. *)

\* Where period k ends, the periods there are and the blocks of one.
PeriodEnd(k, perDay) == IF Height > k * perDay THEN Height - k * perDay ELSE 0
Periods(days, perDay) == {k \in 1..days : k <= 1 \/ Height > (k - 1) * perDay}
Period(k, perDay) == {h \in 1..Height : PeriodEnd(k, perDay) < h /\ h <= PeriodEnd(k - 1, perDay)}

\* The ends of the periods fall.
LEMMA EndsFall ==
    ASSUME TypeOK, NEW perDay \in PerDays, NEW k \in Nat, NEW j \in Nat, k <= j
    PROVE  PeriodEnd(k, perDay) \in Nat /\ PeriodEnd(k, perDay) <= Height /\ PeriodEnd(j, perDay) \in Nat /\ PeriodEnd(j, perDay) <= PeriodEnd(k, perDay)
  <1>1. Height \in Nat /\ perDay \in Nat
    BY StatisticsFacts, ChainFacts DEF ChainView
  <1>2. k * perDay \in Int /\ j * perDay \in Int /\ k * perDay <= j * perDay /\ k * perDay >= 0
    BY <1>1, ProductOrder
  <1> QED BY <1>1, <1>2 DEF PeriodEnd

\* The periods of GrowthPeriods, which have no block in common.
LEMMA PeriodFacts ==
    ASSUME TypeOK, NEW days \in Days, NEW perDay \in PerDays
    PROVE  /\ GrowthPeriods(chain, days, perDay) = [k \in Periods(days, perDay) |-> Period(k, perDay)]
           /\ IsFiniteSet(Periods(days, perDay)) /\ Periods(days, perDay) \subseteq Nat \ {0}
           /\ \A k \in Periods(days, perDay) : \A j \in 1..(k - 1) : j \in Periods(days, perDay)
           /\ \A k, j \in Periods(days, perDay) : k # j => Period(k, perDay) \cap Period(j, perDay) = {}
           /\ \A k \in Periods(days, perDay) : Period(k, perDay) \subseteq 1..Height
  <1>1. Height \in Nat /\ perDay \in Nat /\ days \in Nat /\ days > 0
    BY StatisticsFacts, ChainFacts DEF ChainView, Days
  <1> DEFINE K0 == {k \in 0..days : k <= 1 \/ Height > (k - 1) * perDay}
  <1>2. DailyHeights(Height, days, perDay) = [k \in K0 |-> PeriodEnd(k, perDay)]
    BY DEF DailyHeights, PeriodEnd
  <1>3. K0 \ {0} = Periods(days, perDay)
    BY <1>1 DEF Periods
  <1>4. ASSUME NEW k \in Periods(days, perDay), NEW j \in Nat, j < k PROVE j \in K0
    <2>1. k \in 1..days /\ (k <= 1 \/ Height > (k - 1) * perDay)
      BY DEF Periods
    <2>2. CASE j <= 1
      BY <1>1, <1>4, <2>1, <2>2
    <2>3. CASE j > 1
      <3>1. j - 1 \in Int /\ k - 1 \in Int /\ j - 1 <= k - 1
        BY <1>4, <2>1
      <3>2. (j - 1) * perDay <= (k - 1) * perDay /\ (j - 1) * perDay \in Int /\ (k - 1) * perDay \in Int
        BY <1>1, <3>1, ProductOrder
      <3> QED BY <1>1, <1>4, <2>1, <2>3, <3>2
    <2> QED BY <2>2, <2>3
  <1>5. Periods(days, perDay) \subseteq Nat \ {0} /\ Periods(days, perDay) \in SUBSET (1..days)
    BY <1>1 DEF Periods
  <1>6. IsFiniteSet(Periods(days, perDay))
    <2>1. IsFiniteSet(1..days)
      BY <1>1, FS_Interval
    <2> QED BY <1>5, <2>1, FS_Subset
  <1>7. \A k \in Periods(days, perDay) : k \in K0 /\ k - 1 \in K0
    <2> TAKE k \in Periods(days, perDay)
    <2>1. k \in Nat /\ k - 1 \in Nat /\ k - 1 < k
      BY <1>5
    <2> QED BY <1>3, <1>4, <2>1
  <1>8. GrowthPeriods(chain, days, perDay) = [k \in Periods(days, perDay) |-> Period(k, perDay)]
    <2> DEFINE E == [k \in K0 |-> PeriodEnd(k, perDay)]
    <2> HIDE DEF K0
    <2>1. GrowthPeriods(chain, days, perDay) = [k \in Periods(days, perDay) |-> {h \in 1..Height : E[k] < h /\ h <= E[k - 1]}]
      BY <1>2, <1>3 DEF GrowthPeriods, Height
    <2>2. \A k \in Periods(days, perDay) : E[k] = PeriodEnd(k, perDay) /\ E[k - 1] = PeriodEnd(k - 1, perDay)
      BY <1>7
    <2> HIDE DEF E
    <2>3. \A k \in Periods(days, perDay) : {h \in 1..Height : E[k] < h /\ h <= E[k - 1]} = Period(k, perDay)
      BY <2>2 DEF Period
    <2> QED BY <2>1, <2>3
  <1>9. ASSUME NEW k \in Periods(days, perDay), NEW j \in Periods(days, perDay), k < j PROVE Period(k, perDay) \cap Period(j, perDay) = {}
    <2>1. k \in Nat /\ j - 1 \in Nat /\ k <= j - 1
      BY <1>5, <1>9
    <2>2. PeriodEnd(k, perDay) \in Nat /\ PeriodEnd(j - 1, perDay) \in Nat /\ PeriodEnd(j - 1, perDay) <= PeriodEnd(k, perDay)
      BY <2>1, EndsFall
    <2> QED BY <2>2 DEF Period
  <1>10. \A k, j \in Periods(days, perDay) : k # j => Period(k, perDay) \cap Period(j, perDay) = {}
    <2>1. \A k, j \in Periods(days, perDay) : k # j => k < j \/ j < k
      BY <1>5
    <2> QED BY <1>9, <2>1
  <1>11. \A k \in Periods(days, perDay) : \A j \in 1..(k - 1) : j \in Periods(days, perDay)
    <2> TAKE k \in Periods(days, perDay)
    <2> TAKE j \in 1..(k - 1)
    <2>1. k \in Nat /\ j \in Nat /\ j # 0 /\ j < k
      BY <1>5
    <2> QED BY <1>3, <1>4, <2>1
  <1>12. \A k \in Periods(days, perDay) : Period(k, perDay) \subseteq 1..Height
    BY DEF Period
  <1> QED BY <1>5, <1>6, <1>8, <1>10, <1>11, <1>12

\* The addresses of all transactions: finitely many.
AllAddresses == {Sender[t] : t \in Txs} \cup {Receiver[t] : t \in Txs}

\* The addresses of any blocks are among them.
LEMMA AddressesFinite ==
    ASSUME TypeOK
    PROVE  IsFiniteSet(AllAddresses) /\ \A H : AddressesOf(chain, H) \subseteq AllAddresses
  <1>1. ASSUME NEW f \in [Txs -> Nat] PROVE IsFiniteSet({f[t] : t \in Txs})
    <2>1. DOMAIN f = Txs /\ f = [t \in Txs |-> f[t]]
      OBVIOUS
    <2> QED BY <2>1, ImageFinite, StatisticsAssumption DEF StatisticsAssumption
  <1>2. Sender \in [Txs -> Nat] /\ Receiver \in [Txs -> Nat]
    BY StatisticsAssumption DEF StatisticsAssumption
  <1>3. IsFiniteSet(AllAddresses)
    BY <1>1, <1>2, FS_Union DEF AllAddresses
  <1>4. \A h : TxsAt(chain, h) \subseteq Txs
    BY ChainFacts DEF ChainView
  <1>5. \A h : AddressesAt(chain, h) \subseteq AllAddresses
    BY <1>4 DEF AddressesAt, AllAddresses
  <1>6. \A H : AddressesOf(chain, H) \subseteq AllAddresses
    BY <1>5 DEF AddressesOf
  <1> QED BY <1>3, <1>6

\* What the sums of GetNetworkGrowth's fields are.
LEMMA GrowthSums ==
    ASSUME TypeOK, NEW days \in Days, NEW perDay \in PerDays
    PROVE  LET growth == GetNetworkGrowth(chain, days, perDay)
               covered == UNION {Period(k, perDay) : k \in Periods(days, perDay)}
           IN /\ DOMAIN GrowthPeriods(chain, days, perDay) = Periods(days, perDay)
              /\ UNION {GrowthPeriods(chain, days, perDay)[k] : k \in Periods(days, perDay)} = covered
              /\ covered \subseteq 1..Height
              /\ SumOf(growth, "blocks") = Cardinality(covered)
              /\ SumOf(growth, "newAddresses") = Cardinality(AddressesOf(chain, covered))
              /\ SumOf(growth, "transactions") = TxCountOf(chain, covered)
  <1> DEFINE K == Periods(days, perDay)
             P == [k \in K |-> Period(k, perDay)]
             A == [k \in K |-> AddressesOf(chain, P[k])]
             growth == GetNetworkGrowth(chain, days, perDay)
             covered == UNION {Period(k, perDay) : k \in K}
             New(k) == UNION {A[j] : j \in 1..(k - 1)}
  <1>1. /\ GrowthPeriods(chain, days, perDay) = P
        /\ IsFiniteSet(K) /\ K \subseteq Nat \ {0}
        /\ \A k \in K : \A j \in 1..(k - 1) : j \in K
        /\ \A k, j \in K : k # j => Period(k, perDay) \cap Period(j, perDay) = {}
        /\ \A k \in K : Period(k, perDay) \subseteq 1..Height
    BY PeriodFacts
  <1>2. DOMAIN P = K /\ \A k \in K : P[k] = Period(k, perDay)
    OBVIOUS
  <1> HIDE DEF K
  <1>3. UNION {P[k] : k \in K} = covered /\ covered \subseteq 1..Height
    BY <1>1
  <1>4. P \in [K -> SUBSET (1..Height)] /\ \A k, j \in K : k # j => P[k] \cap P[j] = {}
    BY <1>1
  <1> HIDE DEF covered
  <1>5. growth = [k \in K |-> [blocks |-> Cardinality(P[k]), transactions |-> TxCountOf(chain, P[k]),
                               newAddresses |-> Cardinality(AddressesOf(chain, P[k])
                                  \ UNION {AddressesOf(chain, P[j]) : j \in 1..(k - 1)})]]
    <2> HIDE DEF P
    <2> QED BY <1>1, <1>2 DEF GetNetworkGrowth
  <1>6. ASSUME NEW k \in K
        PROVE  UNION {AddressesOf(chain, P[j]) : j \in 1..(k - 1)} = UNION {A[j] : j \in 1..(k - 1)}
    <2>1. \A j \in 1..(k - 1) : A[j] = AddressesOf(chain, P[j])
      BY <1>1
    <2> HIDE DEF A, P
    <2> QED BY <2>1
  <1>7. DOMAIN growth = K /\ \A k \in K : /\ growth[k].blocks = Cardinality(P[k])
                                          /\ growth[k].transactions = TxCountOf(chain, P[k])
                                          /\ growth[k].newAddresses = Cardinality(A[k] \ New(k))
    <2>1. \A k \in K : A[k] = AddressesOf(chain, P[k])
      OBVIOUS
    <2>2. \A k \in K : growth[k] = [blocks |-> Cardinality(P[k]), transactions |-> TxCountOf(chain, P[k]),
                                    newAddresses |-> Cardinality(A[k] \ New(k))]
      <3> TAKE k \in K
      <3> HIDE DEF A, P, growth
      <3> QED BY <1>5, <1>6, <2>1
    <2> HIDE DEF A, P, growth, New
    <2>3. DOMAIN growth = K
      BY <1>5
    <2> QED BY <2>2, <2>3
  <1>8. IsFiniteSet(1..Height) /\ Height \in Nat
    BY ChainFacts, FS_Interval DEF ChainView
  <1> HIDE DEF growth
  <1>9. SumOf(growth, "blocks") = Cardinality(covered)
    <2>1. [k \in DOMAIN growth |-> growth[k]["blocks"]] = [k \in K |-> Cardinality(P[k])]
      <3> HIDE DEF P
      <3> QED BY <1>7
    <2>2. SumFunction([k \in K |-> Cardinality(P[k])]) = Cardinality(UNION {P[k] : k \in K})
      <3> HIDE DEF P
      <3> QED BY <1>1, <1>4, <1>8, SizeByParts
    <2> QED BY <1>3, <2>1, <2>2 DEF SumOf
  <1>10. SumOf(growth, "newAddresses") = Cardinality(AddressesOf(chain, covered))
    <2>1. [k \in DOMAIN growth |-> growth[k]["newAddresses"]] = [k \in K |-> Cardinality(A[k] \ New(k))]
      <3> HIDE DEF P, A, New
      <3> QED BY <1>7
    <2>2. IsFiniteSet(AllAddresses) /\ A \in [K -> SUBSET AllAddresses]
      BY AddressesFinite
    <2>3. SumFunction([k \in K |-> Cardinality(A[k] \ New(k))]) = Cardinality(UNION {A[k] : k \in K})
      <3> HIDE DEF A
      <3> QED BY <1>1, <2>2, NewInEach
    <2>4. UNION {A[k] : k \in K} = AddressesOf(chain, covered)
      <3>1. \A k \in K : A[k] = UNION {AddressesAt(chain, h) : h \in P[k]}
        BY DEF AddressesOf
      <3>2. \A x : x \in AddressesOf(chain, covered) <=> \E h \in covered : x \in AddressesAt(chain, h)
        BY DEF AddressesOf
      <3>3. \A h : h \in covered <=> \E k \in K : h \in P[k]
        BY <1>3
      <3>4. \A x : x \in UNION {A[k] : k \in K} <=> \E k \in K : \E h \in P[k] : x \in AddressesAt(chain, h)
        <4> HIDE DEF A, P
        <4> QED BY <3>1
      <3> HIDE DEF A, P
      <3>5. \A x : x \in UNION {A[k] : k \in K} <=> x \in AddressesOf(chain, covered)
        BY <3>2, <3>3, <3>4
      <3> QED BY <3>5
    <2> QED BY <2>1, <2>3, <2>4 DEF SumOf
  <1>11. SumOf(growth, "transactions") = TxCountOf(chain, covered)
    <2> DEFINE f == [h \in 1..Height |-> Cardinality(TxsAt(chain, h))]
               g == [k \in K |-> TxCountOf(chain, P[k])]
    <2>1. [k \in DOMAIN growth |-> growth[k]["transactions"]] = g
      <3> HIDE DEF P
      <3> QED BY <1>7
    <2>2. f \in [1..Height -> Int]
      <3>1. \A h : IsFiniteSet(TxsAt(chain, h))
        BY ChainFacts, StatisticsAssumption, FS_Subset DEF ChainView, StatisticsAssumption
      <3>2. \A h : Cardinality(TxsAt(chain, h)) \in Int
        BY <3>1, FS_CardinalityType
      <3> QED BY <3>2
    <2>3. ASSUME NEW H \in SUBSET (1..Height) PROVE TxCountOf(chain, H) = Over(f, H)
      <3>1. [h \in H |-> f[h]] = [h \in H |-> Cardinality(TxsAt(chain, h))]
        OBVIOUS
      <3> QED BY <3>1 DEF TxCountOf, Over
    <2> HIDE DEF f
    <2>4. \A k \in K : g[k] = Over(f, P[k]) /\ g[k] \in Int
      <3> TAKE k \in K
      <3>1. P[k] \in SUBSET (1..Height)
        BY <1>4
      <3> HIDE DEF P
      <3> QED BY <1>8, <2>2, <2>3, <3>1, OverFacts
    <2>5. g \in [K -> Int]
      BY <2>4
    <2> HIDE DEF g, P
    <2>6. SumFunction(g) = Over(f, UNION {P[k] : k \in K})
      <3>1. IsFiniteSet(K) /\ \A k \in K : g[k] = Over(f, P[k])
        BY <1>1, <2>4
      <3>2. P \in [K -> SUBSET (1..Height)]
        BY <1>4
      <3>3. \A k, j \in K : k # j => P[k] \cap P[j] = {}
        BY <1>4
      <3> DEFINE D == 1..Height
      <3>4. IsFiniteSet(D) /\ f \in [D -> Int] /\ P \in [K -> SUBSET D]
        BY <1>8, <2>2, <3>2
      <3> HIDE DEF D
      <3> QED BY <2>5, <3>1, <3>3, <3>4, Regroup, SMTT(60)
    <2> QED BY <1>3, <2>1, <2>3, <2>6 DEF SumOf
  <1> HIDE DEF P
  <1> QED BY <1>1, <1>2, <1>3, <1>9, <1>10, <1>11 DEF K, covered, growth

\* GrowthCountsOnce of a chain.
LEMMA GrowthCounts == TypeOK => GrowthCountsOnce
  <1> SUFFICES ASSUME TypeOK, NEW days \in Days, NEW perDay \in PerDays
               PROVE  LET P == GrowthPeriods(chain, days, perDay)
                          growth == GetNetworkGrowth(chain, days, perDay)
                          covered == UNION {P[k] : k \in DOMAIN P}
                      IN /\ SumOf(growth, "blocks") = Cardinality(covered)
                         /\ SumOf(growth, "newAddresses") = Cardinality(AddressesOf(chain, covered))
    BY DEF GrowthCountsOnce
  <1> QED BY GrowthSums

\* Days that reach back to the first block cover the chain.
LEMMA AllCovered ==
    ASSUME TypeOK, NEW days \in Days, NEW perDay \in PerDays, days * perDay >= Height
    PROVE  UNION {Period(k, perDay) : k \in Periods(days, perDay)} = 1..Height
  <1>1. Height \in Nat /\ perDay \in Nat /\ days \in Nat /\ days > 0
    BY StatisticsFacts, ChainFacts DEF ChainView, Days
  <1>2. ASSUME NEW h \in 1..Height PROVE \E k \in Periods(days, perDay) : h \in Period(k, perDay)
    <2> DEFINE T == {k \in Nat : PeriodEnd(k, perDay) < h}
    <2>1. T \in SUBSET Nat /\ days \in T
      BY <1>1 DEF PeriodEnd
    <2>2. \A k \in T : k \in Nat /\ PeriodEnd(k, perDay) < h
      OBVIOUS
    <2>3. \A k \in Nat : k \notin T => ~(PeriodEnd(k, perDay) < h)
      OBVIOUS
    <2> HIDE DEF T
    <2>4. PICK k \in T : \A j \in T : k <= j
      BY <2>1, LeastNatural
    <2>5. k \in Nat /\ PeriodEnd(k, perDay) < h /\ k <= days
      BY <2>1, <2>2, <2>4
    <2>6. k # 0
      <3>1. 0 * perDay = 0
        BY <1>1
      <3>2. PeriodEnd(0, perDay) = Height
        BY <1>1, <3>1 DEF PeriodEnd
      <3> QED BY <1>1, <2>5, <3>2
    <2>7. k - 1 \in Nat /\ k - 1 \notin T
      BY <2>1, <2>4, <2>5, <2>6
    <2>8. PeriodEnd(k - 1, perDay) \in Nat
      BY <2>7, EndsFall
    <2>9. h <= PeriodEnd(k - 1, perDay)
      BY <2>3, <2>7, <2>8
    <2>10. h \in Period(k, perDay)
      BY <2>5, <2>9 DEF Period
    <2>11. Height > (k - 1) * perDay
      BY <2>9 DEF PeriodEnd
    <2>12. k \in Periods(days, perDay)
      BY <1>1, <2>5, <2>6, <2>11 DEF Periods
    <2> QED BY <2>10, <2>12
  <1>3. \A k : Period(k, perDay) \subseteq 1..Height
    BY DEF Period
  <1> QED BY <1>2, <1>3

\* Periods that cover the chain count what the loops over the whole chain count.
LEMMA CountsDoAgree == TypeOK => CountsAgree
  <1> SUFFICES ASSUME TypeOK, NEW days \in Days, NEW perDay \in PerDays, Window(days, perDay) >= Height
               PROVE  LET growth == GetNetworkGrowth(chain, days, perDay)
                      IN /\ SumOf(growth, "newAddresses") = Cardinality(GetActiveAddresses(chain, days, perDay).new)
                         /\ Height <= StatsWindow => SumOf(growth, "transactions") = GetBlockchainStats(chain)
    BY DEF CountsAgree
  <1>1. Height \in Nat /\ perDay \in Nat /\ StatsWindow \in Nat /\ days \in Nat
    BY StatisticsFacts, ChainFacts DEF ChainView, Days
  <1>2. UNION {Period(k, perDay) : k \in Periods(days, perDay)} = 1..Height
    <2>1. days * perDay >= Height
      BY <1>1, WindowFacts
    <2> QED BY <2>1, AllCovered
  <1>3. /\ SumOf(GetNetworkGrowth(chain, days, perDay), "newAddresses") = Cardinality(AddressesOf(chain, 1..Height))
        /\ SumOf(GetNetworkGrowth(chain, days, perDay), "transactions") = TxCountOf(chain, 1..Height)
    BY <1>2, GrowthSums
  <1>4. GetActiveAddresses(chain, days, perDay).new = AddressesOf(chain, 1..Height)
    <2>1. Window(days, perDay) \in Int
      BY WindowFacts
    <2>2. ~(Height > Window(days, perDay))
      BY <1>1, <2>1
    <2>3. 1..(1 - 1) = {}
      OBVIOUS
    <2>4. AddressesOf(chain, 1..(1 - 1)) = {}
      BY <2>3 DEF AddressesOf
    <2> DEFINE active == AddressesOf(chain, 1..Height)
    <2>5. GetActiveAddresses(chain, days, perDay) = [active |-> active, new |-> active \ AddressesOf(chain, 1..(1 - 1))]
      <3> DEFINE start == IF Height > Window(days, perDay) THEN Height - Window(days, perDay) ELSE 1
      <3>1. start = 1
        BY <2>2
      <3>2. GetActiveAddresses(chain, days, perDay)
              = [active |-> AddressesOf(chain, start..Height),
                 new |-> AddressesOf(chain, start..Height) \ AddressesOf(chain, 1..(start - 1))]
        BY DEF GetActiveAddresses, Height
      <3> HIDE DEF start
      <3> QED BY <3>1, <3>2
    <2> QED BY <2>4, <2>5
  <1>5. ASSUME Height <= StatsWindow PROVE GetBlockchainStats(chain) = TxCountOf(chain, 1..Height)
    <2>1. ~(Len(chain) > StatsWindow)
      BY <1>1, <1>5 DEF Height
    <2> QED BY <2>1 DEF GetBlockchainStats, Height
  <1> QED BY <1>3, <1>4, <1>5

-----------------------------------------------------------------------------
(* Fees. *)

\* A finite list of fees, what is at most a, and what is below it.
IsFees(F) == IsFiniteSet(F) /\ \A e \in F : e[2] \in Nat
UpTo(F, a) == {e \in F : e[2] <= a}
Below(F, a) == {e \in F : e[2] < a}
From(F, a) == {e \in F : e[2] >= a}

\* M is twice a median of F: half of the fees are on either side.
HalfEachSide(M, F) ==
    /\ 2 * Cardinality({e \in F : 2 * e[2] <= M}) >= Cardinality(F)
    /\ 2 * Cardinality({e \in F : 2 * e[2] >= M}) >= Cardinality(F)

\* The sizes of these parts, and that the first grow with a.
LEMMA PartSizes ==
    ASSUME NEW F, IsFees(F), NEW a \in Nat
    PROVE  /\ Cardinality(UpTo(F, a)) \in Nat /\ Cardinality(Below(F, a)) \in Nat
           /\ Cardinality(F) \in Nat /\ Cardinality(From(F, a)) \in Nat
           /\ Cardinality(From(F, a)) = Cardinality(F) - Cardinality(Below(F, a))
           /\ \A b \in Nat : b < a => Cardinality(UpTo(F, b)) <= Cardinality(Below(F, a))
           /\ \A G \in SUBSET F : Cardinality(G) \in Nat /\ \A H \in SUBSET G : Cardinality(H) <= Cardinality(G)
  <1>0. IsFiniteSet(F) /\ \A e \in F : e[2] \in Nat
    BY DEF IsFees
  <1>1. ASSUME NEW G \in SUBSET F, NEW H \in SUBSET G
        PROVE  IsFiniteSet(G) /\ Cardinality(G) \in Nat /\ Cardinality(H) <= Cardinality(G)
    BY <1>0, FS_Subset, FS_CardinalityType
  <1>2. UpTo(F, a) \in SUBSET F /\ Below(F, a) \in SUBSET F /\ From(F, a) \in SUBSET F /\ F \in SUBSET F
    BY DEF UpTo, Below, From
  <1>3. Below(F, a) \cup From(F, a) = F /\ Below(F, a) \cap From(F, a) = {}
    BY <1>0 DEF Below, From
  <1>4. Cardinality(F) = Cardinality(Below(F, a)) + Cardinality(From(F, a))
    <2>1. IsFiniteSet(Below(F, a)) /\ IsFiniteSet(From(F, a)) /\ Cardinality(Below(F, a)) \in Nat
          /\ Cardinality(From(F, a)) \in Nat
      BY <1>1, <1>2
    <2>2. Cardinality(Below(F, a) \cup From(F, a))
            = Cardinality(Below(F, a)) + Cardinality(From(F, a)) - Cardinality(Below(F, a) \cap From(F, a))
      BY <2>1, FS_Union
    <2>3. Cardinality(Below(F, a) \cap From(F, a)) = 0
      BY <1>3, FS_EmptySet
    <2>4. Cardinality(F) = Cardinality(Below(F, a) \cup From(F, a))
      BY <1>3, Zenon
    <2> QED BY <2>1, <2>2, <2>3, <2>4
  <1>5. ASSUME NEW b \in Nat, b < a PROVE Cardinality(UpTo(F, b)) <= Cardinality(Below(F, a))
    <2>1. UpTo(F, b) \in SUBSET Below(F, a)
      BY <1>0, <1>5 DEF UpTo, Below
    <2> QED BY <1>1, <1>2, <2>1
  <1> QED BY <1>1, <1>2, <1>4, <1>5

\* The amounts of a list of fees.
LEMMA AmountFacts ==
    ASSUME NEW F, IsFees(F)
    PROVE  /\ Amounts(F) \in SUBSET Nat /\ IsFiniteSet(Amounts(F))
           /\ F # {} => Amounts(F) # {}
           /\ \A e \in F : e[2] \in Amounts(F)
  <1>1. IsFiniteSet(F) /\ \A e \in F : e[2] \in Nat
    BY DEF IsFees
  <1> DEFINE f == [e \in F |-> e[2]]
  <1>2. f \in Surjection(F, Amounts(F))
    BY DEF Surjection, Amounts
  <1>3. IsFiniteSet(Amounts(F))
    <2> HIDE DEF f
    <2> QED BY <1>1, <1>2, FS_Surjection
  <1> QED BY <1>1, <1>3 DEF Amounts

\* There is a k-th smallest fee.
LEMMA RankedFacts ==
    ASSUME NEW F, IsFees(F), NEW k \in Nat, k > 0, k <= Cardinality(F)
    PROVE  /\ Ranked(F, k) \in Amounts(F) /\ Ranked(F, k) \in Nat
           /\ Cardinality(Below(F, Ranked(F, k))) < k /\ k <= Cardinality(UpTo(F, Ranked(F, k)))
  <1>1. IsFiniteSet(F) /\ \A e \in F : e[2] \in Nat
    BY DEF IsFees
  <1>2. F # {}
    BY FS_EmptySet
  <1>3. PICK top \in Amounts(F) : \A m \in Amounts(F) : m <= top
    BY <1>2, AmountFacts, GreatestNatural
  <1>4. top \in Nat /\ UpTo(F, top) = F
    <2>1. top \in Nat /\ \A e \in F : e[2] <= top
      BY <1>3, AmountFacts
    <2> QED BY <2>1 DEF UpTo
  <1> DEFINE T == {n \in Nat : k <= Cardinality(UpTo(F, n))}
  <1>5. T \in SUBSET Nat /\ top \in T
    BY <1>4
  <1>6. \A n : n \in T <=> n \in Nat /\ k <= Cardinality(UpTo(F, n))
    OBVIOUS
  <1> HIDE DEF T
  <1>7. PICK n \in T : \A m \in T : n <= m
    BY <1>5, LeastNatural
  <1>8. n \in Nat /\ k <= Cardinality(UpTo(F, n)) /\ Cardinality(UpTo(F, n)) \in Nat /\ Cardinality(Below(F, n)) \in Nat
    BY <1>6, <1>7, PartSizes
  <1>9. Cardinality(Below(F, n)) < k
    <2>1. CASE n = 0
      <3>1. \A e \in F : ~(e[2] < n)
        BY <1>1, <2>1
      <3>2. Below(F, n) = {}
        BY <3>1 DEF Below
      <3> QED BY <3>2, FS_EmptySet
    <2>2. CASE n > 0
      <3>1. n - 1 \in Nat /\ n - 1 \notin T
        BY <1>6, <1>7, <1>8, <2>2
      <3>2. Below(F, n) = UpTo(F, n - 1)
        BY <1>1, <1>8 DEF Below, UpTo
      <3> QED BY <1>6, <1>8, <3>1, <3>2
    <2> QED BY <1>8, <2>1, <2>2
  <1>10. n \in Amounts(F)
    <2>1. UpTo(F, n) # Below(F, n)
      BY <1>8, <1>9
    <2>2. PICK e \in F : e[2] <= n /\ ~(e[2] < n)
      <3>1. Below(F, n) \subseteq UpTo(F, n)
        BY <1>1, <1>8 DEF Below, UpTo
      <3> QED BY <2>1, <3>1 DEF Below, UpTo
    <2>3. e[2] = n
      BY <1>1, <1>8, <2>2
    <2> QED BY <2>3, AmountFacts
  <1>11. \E a \in Amounts(F) : Cardinality(Below(F, a)) < k /\ k <= Cardinality(UpTo(F, a))
    BY <1>8, <1>9, <1>10
  <1>12. Ranked(F, k) = CHOOSE a \in Amounts(F) : Cardinality(Below(F, a)) < k /\ k <= Cardinality(UpTo(F, a))
    BY DEF Ranked, Below, UpTo
  <1>13. Ranked(F, k) \in Amounts(F) /\ Cardinality(Below(F, Ranked(F, k))) < k
         /\ k <= Cardinality(UpTo(F, Ranked(F, k)))
    BY <1>11, <1>12
  <1> QED BY <1>13, AmountFacts

\* TwiceMedian is a median, and lies between the amounts.
LEMMA MedianFacts ==
    ASSUME NEW F, IsFees(F)
    PROVE  /\ HalfEachSide(TwiceMedian(F), F)
           /\ F # {} => 2 * Min(Amounts(F)) <= TwiceMedian(F) /\ TwiceMedian(F) <= 2 * Max(Amounts(F))
  <1>1. IsFiniteSet(F) /\ \A e \in F : e[2] \in Nat
    BY DEF IsFees
  <1> DEFINE n == Cardinality(F)
             m == n \div 2
             M == TwiceMedian(F)
  <1>2. n \in Nat
    BY <1>1, FS_CardinalityType
  <1>3. ASSUME NEW a \in Nat, NEW b \in Nat, M = a + b, a <= b,
               2 * Cardinality(UpTo(F, a)) >= n, 2 * Cardinality(From(F, b)) >= n
        PROVE  HalfEachSide(M, F)
    <2> DEFINE L == {e \in F : 2 * e[2] <= M}
               R == {e \in F : 2 * e[2] >= M}
    <2>1. UpTo(F, a) \in SUBSET L /\ From(F, b) \in SUBSET R
      <3>1. \A e \in F : e[2] <= a => 2 * e[2] <= a + b
        BY <1>1, <1>3
      <3>2. \A e \in F : e[2] >= b => 2 * e[2] >= a + b
        BY <1>1, <1>3
      <3> HIDE DEF M
      <3> QED BY <1>3, <3>1, <3>2 DEF UpTo, From
    <2>2. L \in SUBSET F /\ R \in SUBSET F
      OBVIOUS
    <2> HIDE DEF L, R, M
    <2>3. /\ Cardinality(UpTo(F, a)) <= Cardinality(L) /\ Cardinality(From(F, b)) <= Cardinality(R)
          /\ Cardinality(L) \in Nat /\ Cardinality(R) \in Nat
          /\ Cardinality(UpTo(F, a)) \in Nat /\ Cardinality(From(F, b)) \in Nat
      BY <2>1, <2>2, PartSizes
    <2>4. 2 * Cardinality(L) >= n /\ 2 * Cardinality(R) >= n
      BY <1>2, <1>3, <2>3
    <2> QED BY <2>4 DEF HalfEachSide, L, R
  <1>4. CASE n = 0
    <2>1. F = {}
      BY <1>1, <1>4, FS_EmptySet
    <2>2. \A G : {e \in F : G} = {} /\ 2 * Cardinality({}) >= n
      BY <1>4, <2>1, FS_EmptySet
    <2>3. {e \in F : 2 * e[2] <= M} = {} /\ {e \in F : 2 * e[2] >= M} = {}
      BY <2>1
    <2> QED BY <2>1, <2>2, <2>3 DEF HalfEachSide
  <1>5. ASSUME n > 0
        PROVE  \E a, b \in Amounts(F) : /\ M = a + b /\ a <= b
                                        /\ 2 * Cardinality(UpTo(F, a)) >= n /\ 2 * Cardinality(From(F, b)) >= n
    <2>1. m \in Nat /\ (n % 2 = 0 => n = 2 * m) /\ (n % 2 # 0 => n = 2 * m + 1)
      BY <1>2
    <2>2. M = IF n % 2 = 0 THEN Ranked(F, m) + Ranked(F, m + 1) ELSE 2 * Ranked(F, m + 1)
      BY <1>5 DEF TwiceMedian
    <2> DEFINE a == Ranked(F, m)
               b == Ranked(F, m + 1)
    <2> HIDE DEF M, m
    <2>3. m + 1 <= n
      <3>1. CASE n % 2 = 0
        BY <1>2, <1>5, <2>1, <3>1
      <3>2. CASE n % 2 # 0
        BY <1>2, <2>1, <3>2
      <3> QED BY <3>1, <3>2
    <2>4. b \in Amounts(F) /\ b \in Nat /\ Cardinality(Below(F, b)) < m + 1 /\ m + 1 <= Cardinality(UpTo(F, b))
      BY <2>1, <2>3, RankedFacts
    <2>5. /\ Cardinality(From(F, b)) = n - Cardinality(Below(F, b)) /\ Cardinality(From(F, b)) \in Nat
          /\ Cardinality(Below(F, b)) \in Nat /\ Cardinality(UpTo(F, b)) \in Nat
      BY <2>4, PartSizes
    <2>6. CASE n % 2 = 0
      <3>1. n = 2 * m /\ m > 0 /\ m <= n
        BY <1>2, <1>5, <2>1, <2>6
      <3>2. a \in Amounts(F) /\ a \in Nat /\ Cardinality(Below(F, a)) < m /\ m <= Cardinality(UpTo(F, a))
        BY <2>1, <3>1, RankedFacts
      <3>3. Cardinality(UpTo(F, a)) \in Nat /\ Cardinality(Below(F, a)) \in Nat
            /\ (b < a => Cardinality(UpTo(F, b)) <= Cardinality(Below(F, a)))
        BY <2>4, <3>2, PartSizes
      <3> HIDE DEF a, b
      <3>4. a <= b
        BY <2>1, <2>4, <2>5, <3>2, <3>3
      <3>5. M = a + b
        BY <2>2, <2>6 DEF a, b
      <3>6. 2 * Cardinality(UpTo(F, a)) >= n /\ 2 * Cardinality(From(F, b)) >= n
        BY <2>1, <2>4, <2>5, <3>1, <3>2, <3>3
      <3> QED BY <2>4, <3>2, <3>4, <3>5, <3>6
    <2>7. CASE n % 2 # 0
      <3>1. n = 2 * m + 1
        BY <2>1, <2>7
      <3> HIDE DEF b
      <3>2. M = b + b
        <4>1. M = 2 * b
          BY <2>2, <2>7 DEF b
        <4> QED BY <2>4, <4>1
      <3>3. 2 * Cardinality(UpTo(F, b)) >= n /\ 2 * Cardinality(From(F, b)) >= n
        BY <2>1, <2>4, <2>5, <3>1
      <3>4. b <= b
        BY <2>4
      <3> QED BY <2>4, <3>2, <3>3, <3>4
    <2> QED BY <2>6, <2>7
  <1> HIDE DEF M
  <1>6. CASE n > 0
    <2>1. PICK a, b \in Amounts(F) : /\ M = a + b /\ a <= b
                                     /\ 2 * Cardinality(UpTo(F, a)) >= n /\ 2 * Cardinality(From(F, b)) >= n
      BY <1>5, <1>6
    <2>2. Amounts(F) \in SUBSET Nat /\ IsFiniteSet(Amounts(F)) /\ Amounts(F) # {}
      BY <2>1, AmountFacts
    <2>3. /\ a \in Nat /\ b \in Nat /\ Min(Amounts(F)) \in Nat /\ Max(Amounts(F)) \in Nat
          /\ Min(Amounts(F)) <= a /\ Min(Amounts(F)) <= b /\ a <= Max(Amounts(F)) /\ b <= Max(Amounts(F))
      BY <2>2, MinFacts, MaxFacts
    <2>4. 2 * Min(Amounts(F)) <= M /\ M <= 2 * Max(Amounts(F))
      BY <2>1, <2>3
    <2>5. HalfEachSide(M, F)
      BY <1>3, <2>1, <2>3
    <2> QED BY <2>4, <2>5 DEF M
  <1> QED BY <1>2, <1>4, <1>6 DEF M

\* e is the entry of a transaction of block h.
Entry(e, h) ==
    \/ \E t \in TxsAt(chain, h) : e = <<<<"user", t>>, Fee[t]>>
    \/ h # 0 /\ e = <<<<"coinbase", h>>, 0>>
    \/ h # 0 /\ h # 1 /\ e = <<<<"validator", h>>, 0>>

\* No transaction is in two blocks: a block takes pending ones that no block has.
DisjointBlocks ==
    \A g, h \in 1..Height : g # h => TxsAt(chain, g) \cap TxsAt(chain, h) = {}

\* The fees of some blocks are the entries of each.
LEMMA EntryFacts ==
    ASSUME TypeOK, DisjointBlocks
    PROVE  /\ \A H : \A e : e \in FeesOf(chain, H) <=> \E h \in H : Entry(e, h)
           /\ \A g, h, e : Entry(e, g) /\ Entry(e, h) => g = h
           /\ \A h, e : Entry(e, h) => e[2] \in Nat
  <1>1. /\ Fee \in [Txs -> Nat \ {0}]
        /\ \A h : TxsAt(chain, h) \subseteq Txs
        /\ \A h : h \notin 1..Height => TxsAt(chain, h) = {}
    BY StatisticsAssumption, ChainFacts DEF StatisticsAssumption, ChainView, TxsAt, Height
  <1>2. ASSUME NEW H, NEW e PROVE e \in FeesOf(chain, H) <=> \E h \in H : Entry(e, h)
    <2>1. e \in {<<<<"user", t>>, Fee[t]>> : t \in UNION {TxsAt(chain, h) : h \in H}}
            <=> \E h \in H : \E t \in TxsAt(chain, h) : e = <<<<"user", t>>, Fee[t]>>
      BY Zenon
    <2>2. e \in {<<<<"coinbase", h>>, 0>> : h \in H \ {0}} <=> \E h \in H : h # 0 /\ e = <<<<"coinbase", h>>, 0>>
      BY Zenon
    <2>3. e \in {<<<<"validator", h>>, 0>> : h \in H \ {0, 1}}
            <=> \E h \in H : h # 0 /\ h # 1 /\ e = <<<<"validator", h>>, 0>>
      BY Zenon
    <2>4. e \in FeesOf(chain, H) <=>
            \/ \E h \in H : \E t \in TxsAt(chain, h) : e = <<<<"user", t>>, Fee[t]>>
            \/ \E h \in H : h # 0 /\ e = <<<<"coinbase", h>>, 0>>
            \/ \E h \in H : h # 0 /\ h # 1 /\ e = <<<<"validator", h>>, 0>>
      BY <2>1, <2>2, <2>3, Zenon DEF FeesOf
    <2> QED BY <2>4, Zenon DEF Entry
  <1>3. ASSUME NEW h, NEW e, Entry(e, h)
        PROVE  /\ e[2] \in Nat
               /\ \/ e[1][1] = "user" /\ e[1][2] \in TxsAt(chain, h)
                  \/ e[1][1] # "user" /\ e[1][2] = h
    <2>1. ASSUME NEW t \in TxsAt(chain, h), e = <<<<"user", t>>, Fee[t]>>
          PROVE  e[2] \in Nat /\ e[1][1] = "user" /\ e[1][2] \in TxsAt(chain, h)
      BY <1>1, <2>1
    <2>2. ASSUME e = <<<<"coinbase", h>>, 0>>
          PROVE  e[2] \in Nat /\ e[1][1] # "user" /\ e[1][2] = h
      BY <2>2
    <2>3. ASSUME e = <<<<"validator", h>>, 0>>
          PROVE  e[2] \in Nat /\ e[1][1] # "user" /\ e[1][2] = h
      BY <2>3
    <2> QED BY <1>3, <2>1, <2>2, <2>3 DEF Entry
  <1>4. ASSUME NEW g, NEW h, NEW e, Entry(e, g), Entry(e, h) PROVE g = h
    <2>1. CASE e[1][1] = "user"
      <3>1. e[1][2] \in TxsAt(chain, g) /\ e[1][2] \in TxsAt(chain, h)
        BY <1>3, <1>4, <2>1
      <3>2. g \in 1..Height /\ h \in 1..Height
        BY <1>1, <3>1
      <3> QED BY <3>1, <3>2 DEF DisjointBlocks
    <2>2. CASE e[1][1] # "user"
      BY <1>3, <1>4, <2>2
    <2> QED BY <2>1, <2>2
  <1> QED BY <1>2, <1>3, <1>4

\* The fees of a finite range of blocks are finitely many numbers.
LEMMA FeesFinite ==
    ASSUME TypeOK, DisjointBlocks, NEW H, IsFiniteSet(H)
    PROVE  IsFees(FeesOf(chain, H))
  <1> DEFINE U == UNION {TxsAt(chain, h) : h \in H}
             f1 == [t \in U |-> <<<<"user", t>>, Fee[t]>>]
             f2 == [h \in H \ {0} |-> <<<<"coinbase", h>>, 0>>]
             f3 == [h \in H \ {0, 1} |-> <<<<"validator", h>>, 0>>]
  <1>1. IsFiniteSet(U)
    <2>1. U \in SUBSET Txs
      BY ChainFacts DEF ChainView
    <2> HIDE DEF U
    <2> QED BY <2>1, StatisticsAssumption, FS_Subset DEF StatisticsAssumption
  <1>2. IsFiniteSet(H \ {0}) /\ IsFiniteSet(H \ {0, 1})
    BY FS_Subset
  <1> HIDE DEF U
  <1>3. IsFiniteSet({f1[t] : t \in U})
    <2>1. DOMAIN f1 = U /\ f1 = [t \in U |-> f1[t]]
      OBVIOUS
    <2> HIDE DEF f1
    <2> QED BY <1>1, <2>1, ImageFinite
  <1>4. IsFiniteSet({f2[h] : h \in H \ {0}})
    <2>1. DOMAIN f2 = H \ {0} /\ f2 = [h \in H \ {0} |-> f2[h]]
      OBVIOUS
    <2> HIDE DEF f2
    <2> QED BY <1>2, <2>1, ImageFinite
  <1>5. IsFiniteSet({f3[h] : h \in H \ {0, 1}})
    <2>1. DOMAIN f3 = H \ {0, 1} /\ f3 = [h \in H \ {0, 1} |-> f3[h]]
      OBVIOUS
    <2> HIDE DEF f3
    <2> QED BY <1>2, <2>1, ImageFinite
  <1>6. /\ {f1[t] : t \in U} = {<<<<"user", t>>, Fee[t]>> : t \in U}
        /\ {f2[h] : h \in H \ {0}} = {<<<<"coinbase", h>>, 0>> : h \in H \ {0}}
        /\ {f3[h] : h \in H \ {0, 1}} = {<<<<"validator", h>>, 0>> : h \in H \ {0, 1}}
    OBVIOUS
  <1>7. FeesOf(chain, H) = {f1[t] : t \in U} \cup {f2[h] : h \in H \ {0}} \cup {f3[h] : h \in H \ {0, 1}}
    <2> HIDE DEF f1, f2, f3
    <2> QED BY <1>6 DEF FeesOf, U
  <1> HIDE DEF f1, f2, f3
  <1>8. IsFiniteSet(FeesOf(chain, H))
    <2> DEFINE A == {f1[t] : t \in U}
               B == {f2[h] : h \in H \ {0}}
               C == {f3[h] : h \in H \ {0, 1}}
    <2>1. IsFiniteSet(A) /\ IsFiniteSet(B) /\ IsFiniteSet(C) /\ FeesOf(chain, H) = (A \cup B) \cup C
      BY <1>3, <1>4, <1>5, <1>7
    <2> HIDE DEF A, B, C
    <2>2. IsFiniteSet(A \cup B)
      BY <2>1, FS_Union
    <2> QED BY <2>1, <2>2, FS_Union
  <1>9. \A e \in FeesOf(chain, H) : e[2] \in Nat
    BY EntryFacts
  <1> QED BY <1>8, <1>9 DEF IsFees

\* The blocks of GetAverageFees' list count every transaction of the window once.
LEMMA FeeCountsAdd ==
    ASSUME TypeOK, DisjointBlocks, NEW H, IsFiniteSet(H)
    PROVE  SumFunction([h \in {h \in H : FeesOf(chain, {h}) # {}} |-> Cardinality(FeesOf(chain, {h}))])
             = Cardinality(FeesOf(chain, H))
  <1> DEFINE K == {h \in H : FeesOf(chain, {h}) # {}}
             P == [h \in K |-> FeesOf(chain, {h})]
             D == FeesOf(chain, H)
  <1>1. IsFiniteSet(D)
    BY FeesFinite DEF IsFees
  <1>2. IsFiniteSet(K)
    <2>1. K \in SUBSET H
      OBVIOUS
    <2> HIDE DEF K
    <2> QED BY <2>1, FS_Subset
  <1>3. /\ \A e : e \in D <=> \E h \in H : Entry(e, h)
        /\ \A h, e : e \in FeesOf(chain, {h}) <=> Entry(e, h)
        /\ \A g, h, e : Entry(e, g) /\ Entry(e, h) => g = h
    <2>1. \A e : e \in D <=> \E h \in H : Entry(e, h)
      BY EntryFacts
    <2>2. \A g, h, e : Entry(e, g) /\ Entry(e, h) => g = h
      BY EntryFacts
    <2>3. ASSUME NEW h, NEW e PROVE e \in FeesOf(chain, {h}) <=> Entry(e, h)
      <3>1. e \in FeesOf(chain, {h}) <=> \E g \in {h} : Entry(e, g)
        BY EntryFacts
      <3> QED BY <3>1
    <2> QED BY <2>1, <2>2, <2>3
  <1> HIDE DEF D
  <1>4. \A h \in K : P[h] \in SUBSET D /\ P[h] = FeesOf(chain, {h}) /\ h \in H
    BY <1>3
  <1>5. P \in [K -> SUBSET D]
    BY <1>4
  <1>6. \A k, j \in K : k # j => P[k] \cap P[j] = {}
    BY <1>3
  <1>7. UNION {P[h] : h \in K} = D
    <2>1. ASSUME NEW e \in D PROVE \E h \in K : e \in P[h]
      <3>1. PICK h \in H : Entry(e, h)
        BY <1>3
      <3>2. e \in FeesOf(chain, {h})
        BY <1>3, <3>1
      <3>3. h \in K
        BY <3>2
      <3> QED BY <3>2, <3>3
    <2> HIDE DEF P, K
    <2> QED BY <1>4, <2>1
  <1>8. SumFunction([h \in K |-> Cardinality(P[h])]) = Cardinality(UNION {P[h] : h \in K})
    <2> HIDE DEF P, K
    <2> QED BY <1>1, <1>2, <1>5, <1>6, SizeByParts
  <1>9. [h \in K |-> Cardinality(P[h])] = [h \in K |-> Cardinality(FeesOf(chain, {h}))]
    OBVIOUS
  <1> HIDE DEF P
  <1> QED BY <1>7, <1>8, <1>9 DEF D

\* The fees of the mempool.
LEMMA PendingFees ==
    ASSUME TypeOK
    PROVE  IsFees({<<t, Fee[t]>> : t \in mempool})
  <1> DEFINE f == [t \in mempool |-> <<t, Fee[t]>>]
  <1>1. IsFiniteSet(mempool) /\ mempool \subseteq Txs /\ Fee \in [Txs -> Nat \ {0}]
    BY StatisticsAssumption, FS_Subset DEF StatisticsAssumption, TypeOK
  <1>2. IsFiniteSet({f[t] : t \in mempool})
    <2>1. DOMAIN f = mempool /\ f = [t \in mempool |-> f[t]]
      OBVIOUS
    <2> HIDE DEF f
    <2> QED BY <1>1, <2>1, ImageFinite
  <1>3. {f[t] : t \in mempool} = {<<t, Fee[t]>> : t \in mempool}
    OBVIOUS
  <1>4. \A e \in {<<t, Fee[t]>> : t \in mempool} : e[2] \in Nat
    BY <1>1
  <1> QED BY <1>2, <1>3, <1>4 DEF IsFees

\* The fees of a window of blocks, and of each block in it.
LEMMA AverageInOrder ==
    ASSUME TypeOK, DisjointBlocks, NEW blocks \in 1..MaxHeight
    PROVE  LET fees == GetAverageFees(chain, blocks)
               low == IF Height > blocks THEN Height - blocks ELSE 0
           IN /\ HalfEachSide(fees.twiceMedian, FeesOf(chain, low..Height))
              /\ \A h \in DOMAIN fees.blockFees :
                   LET b == fees.blockFees[h]
                   IN 2 * b.lowest <= b.twiceMedian /\ b.twiceMedian <= 2 * b.highest
              /\ SumOf(fees.blockFees, "txCount") = fees.totalTxs
  <1> DEFINE low == IF Height > blocks THEN Height - blocks ELSE 0
             H == low..Height
             F == FeesOf(chain, H)
             K == {h \in H : FeesOf(chain, {h}) # {}}
             Of(h) == [txCount |-> Cardinality(FeesOf(chain, {h})), totalFees |-> 0,
                       twiceMedian |-> TwiceMedian(FeesOf(chain, {h})),
                       lowest |-> Min(Amounts(FeesOf(chain, {h}))), highest |-> Max(Amounts(FeesOf(chain, {h})))]
             each == [h \in K |-> Of(h)]
             fees == GetAverageFees(chain, blocks)
  <1>1. IsFiniteSet(H)
    <2>1. Height \in Int /\ low \in Int
      BY StatisticsFacts, ChainFacts DEF ChainView
    <2> HIDE DEF low
    <2> QED BY <2>1, FS_Interval
  <1>2. fees = [totalTxs |-> Cardinality(F), totalFees |-> Total(F), twiceMedian |-> TwiceMedian(F),
                blockFees |-> each]
    BY DEF GetAverageFees, Height
  <1>3. HalfEachSide(TwiceMedian(F), F)
    <2> HIDE DEF H
    <2> QED BY <1>1, FeesFinite, MedianFacts
  <1>4. ASSUME NEW h \in K
        PROVE  2 * each[h].lowest <= each[h].twiceMedian /\ each[h].twiceMedian <= 2 * each[h].highest
    <2> DEFINE B == FeesOf(chain, {h})
    <2>1. IsFees(B)
      BY FS_Singleton, FeesFinite
    <2>2. B # {} /\ each[h] = Of(h)
      OBVIOUS
    <2>3. each[h].lowest = Min(Amounts(B)) /\ each[h].highest = Max(Amounts(B)) /\ each[h].twiceMedian = TwiceMedian(B)
      BY <2>2
    <2> HIDE DEF B, each
    <2> QED BY <2>1, <2>2, <2>3, MedianFacts
  <1>5. SumOf(each, "txCount") = Cardinality(F)
    <2>1. [h \in DOMAIN each |-> each[h]["txCount"]] = [h \in K |-> Cardinality(FeesOf(chain, {h}))]
      OBVIOUS
    <2>2. SumOf(each, "txCount") = SumFunction([h \in K |-> Cardinality(FeesOf(chain, {h}))])
      <3> HIDE DEF each, K
      <3> QED BY <2>1 DEF SumOf
    <2> HIDE DEF H, each
    <2> QED BY <1>1, <2>2, FeeCountsAdd
  <1>6. DOMAIN each = K
    OBVIOUS
  <1> HIDE DEF fees, each, K
  <1>7. fees.twiceMedian = TwiceMedian(F) /\ fees.blockFees = each /\ fees.totalTxs = Cardinality(F)
    <2> HIDE DEF F
    <2> QED BY <1>2
  <1> HIDE DEF F
  <1>8. HalfEachSide(fees.twiceMedian, F) /\ SumOf(fees.blockFees, "txCount") = fees.totalTxs
    BY <1>3, <1>5, <1>7
  <1>9. \A h \in DOMAIN fees.blockFees :
            /\ 2 * fees.blockFees[h].lowest <= fees.blockFees[h].twiceMedian
            /\ fees.blockFees[h].twiceMedian <= 2 * fees.blockFees[h].highest
    BY <1>4, <1>6, <1>7
  <1> QED BY <1>8, <1>9, Zenon DEF fees, F, H, low

\* The mempool's fees, as getMempoolInfo and estimateFee report them.
LEMMA PendingInOrder ==
    ASSUME TypeOK
    PROVE  LET info == GetMempoolInfo(mempool)
               hint == handleEstimateFee(mempool, 1)
           IN /\ HalfEachSide(info.twiceMedian, {<<t, Fee[t]>> : t \in mempool})
              /\ info.size > 0 => /\ hint.low = info.minFee /\ hint.high = info.maxFee
                                  /\ hint.count = info.size /\ hint.total = info.totalFees
  <1> DEFINE F == {<<t, Fee[t]>> : t \in mempool}
             info == GetMempoolInfo(mempool)
             hint == handleEstimateFee(mempool, 1)
  <1>1. IsFees(F)
    BY PendingFees
  <1>2. info = [size |-> Cardinality(F), totalFees |-> Total(F), twiceMedian |-> TwiceMedian(F),
                minFee |-> IF F = {} THEN 0 ELSE Min(Amounts(F)), maxFee |-> Max(Amounts(F) \cup {0})]
    BY DEF GetMempoolInfo
  <1>3. hint = IF F = {} THEN [low |-> 80 * 1, total |-> 100 * 1, high |-> 120 * 1, count |-> 1]
               ELSE [low |-> Min(Amounts(F)), total |-> Total(F), high |-> Max(Amounts(F)), count |-> Cardinality(F)]
    BY DEF handleEstimateFee
  <1> HIDE DEF F, info, hint
  <1>4. HalfEachSide(info.twiceMedian, F)
    BY <1>1, <1>2, MedianFacts
  <1>5. ASSUME info.size > 0
        PROVE  /\ hint.low = info.minFee /\ hint.high = info.maxFee
               /\ hint.count = info.size /\ hint.total = info.totalFees
    <2>1. F # {}
      <3>1. Cardinality({}) = 0
        BY FS_EmptySet
      <3>2. info.size = Cardinality(F)
        BY <1>2
      <3> QED BY <1>5, <3>1, <3>2
    <2>2. Max(Amounts(F) \cup {0}) = Max(Amounts(F))
      <3> DEFINE A == Amounts(F)
      <3>1. A \in SUBSET Nat /\ IsFiniteSet(A) /\ A # {}
        BY <1>1, <2>1, AmountFacts
      <3> HIDE DEF A
      <3>2. Max(A) \in A /\ Max(A) \in Nat /\ \A y \in A : y <= Max(A)
        BY <3>1, MaxFacts
      <3>3. A \cup {0} \in SUBSET Nat /\ IsFiniteSet(A \cup {0}) /\ A \cup {0} # {}
        BY <3>1, FS_AddElement
      <3>4. Max(A) \in A \cup {0} /\ \A y \in A \cup {0} : y <= Max(A)
        BY <3>2
      <3>5. Max(A \cup {0}) = Max(A)
        BY <3>3, <3>4, MaxFacts
      <3> QED BY <3>5 DEF A
    <2> QED BY <1>2, <1>3, <2>1, <2>2
  <1> QED BY <1>4, <1>5 DEF F, info, hint

\* FeesInOrder of a chain without a transaction in two blocks.
LEMMA FeesAreInOrder == TypeOK /\ DisjointBlocks => FeesInOrder
  <1> SUFFICES ASSUME TypeOK, DisjointBlocks PROVE FeesInOrder
    OBVIOUS
  <1>1. ASSUME NEW blocks \in 1..MaxHeight
        PROVE  LET fees == GetAverageFees(chain, blocks)
                   low == IF Height > blocks THEN Height - blocks ELSE 0
                   F == FeesOf(chain, low..Height)
                   M == fees.twiceMedian
               IN /\ 2 * Cardinality({e \in F : 2 * e[2] <= M}) >= Cardinality(F)
                  /\ 2 * Cardinality({e \in F : 2 * e[2] >= M}) >= Cardinality(F)
                  /\ \A h \in DOMAIN fees.blockFees :
                       LET b == fees.blockFees[h]
                       IN 2 * b.lowest <= b.twiceMedian /\ b.twiceMedian <= 2 * b.highest
                  /\ SumOf(fees.blockFees, "txCount") = fees.totalTxs
    BY AverageInOrder, Zenon DEF HalfEachSide
  <1>2. LET info == GetMempoolInfo(mempool)
            hint == handleEstimateFee(mempool, 1)
            F == {<<t, Fee[t]>> : t \in mempool}
            M == info.twiceMedian
        IN /\ 2 * Cardinality({e \in F : 2 * e[2] <= M}) >= Cardinality(F)
           /\ 2 * Cardinality({e \in F : 2 * e[2] >= M}) >= Cardinality(F)
           /\ info.size > 0 => /\ hint.low = info.minFee /\ hint.high = info.maxFee
                               /\ hint.count = info.size /\ hint.total = info.totalFees
    BY PendingInOrder, Zenon DEF HalfEachSide
  <1> QED BY <1>1, <1>2, Zenon DEF FeesInOrder

-----------------------------------------------------------------------------
\* No query changes the chain or the mempool.
LEMMA QueryReads == QueryStep => UNCHANGED <<chain, mempool>>
  <1> USE DEF At, ReadHeightDown, ReadHeightUp, SearchPool, SearchDown, SearchUp, ListPool, Page
  <1>1. FindTransaction \/ handleGetTransaction \/ GetTransaction \/ GetTransactionProof
          => UNCHANGED <<chain, mempool>>
    BY Zenon DEF FindTransaction, handleGetTransaction, GetTransaction, GetTransactionProof
  <1>2. monitorTransaction \/ awaitStake \/ shellMonitor => UNCHANGED <<chain, mempool>>
    BY Zenon DEF monitorTransaction, awaitStake, shellMonitor
  <1>3. GetTransactionHistory \/ handleGetTransactionHistory => UNCHANGED <<chain, mempool>>
    BY Zenon DEF GetTransactionHistory, handleGetTransactionHistory
  <1>4. GetFullTransactionHistory \/ SearchByAddress \/ GetRecentTransactions => UNCHANGED <<chain, mempool>>
    BY Zenon DEF GetFullTransactionHistory, SearchByAddress, GetRecentTransactions
  <1> QED BY <1>1, <1>2, <1>3, <1>4 DEF QueryStep

\* A new block has no transaction of another.
LEMMA NextDisjoint == TypeOK /\ DisjointBlocks /\ [Next]_vars => DisjointBlocks'
  <1> SUFFICES ASSUME TypeOK, DisjointBlocks, [Next]_vars PROVE DisjointBlocks'
    OBVIOUS
  <1>1. CASE chain' = chain
    BY <1>1 DEF DisjointBlocks, Height, TxsAt
  <1>2. ASSUME NEW S \in SUBSET (mempool \ Mined), AppendBlock(S) PROVE DisjointBlocks'
    <2>1. chain' = Append(chain, S) /\ chain \in Seq(SUBSET Txs) /\ S \in SUBSET Txs /\ Height \in Nat
      BY <1>2, ChainFacts DEF AppendBlock, TypeOK, ChainView
    <2>2. Height' = Height + 1 /\ \A h \in 1..Height : chain'[h] = chain[h]
      BY <2>1 DEF Height
    <2>3. chain'[Height + 1] = S
      BY <2>1 DEF Height
    <2>4. /\ \A h \in 1..Height : TxsAt(chain', h) = TxsAt(chain, h) /\ TxsAt(chain, h) \cap S = {}
          /\ TxsAt(chain', Height + 1) = S
      <3>1. \A h \in 1..Height : TxsAt(chain, h) = chain[h] /\ chain[h] \subseteq Mined
        BY DEF TxsAt, Mined, Height
      <3>2. \A h \in 1..Height' : TxsAt(chain', h) = chain'[h]
        BY DEF TxsAt, Height
      <3>3. \A h \in 1..Height : h \in 1..Height'
        BY <2>1, <2>2
      <3>4. Height + 1 \in 1..Height'
        BY <2>1, <2>2
      <3> QED BY <2>2, <2>3, <3>1, <3>2, <3>3, <3>4
    <2>5. \A h \in 1..Height' : h \in 1..Height \/ h = Height + 1
      BY <2>1, <2>2
    <2>6. ASSUME NEW g \in 1..Height', NEW h \in 1..Height', g # h
          PROVE  TxsAt(chain', g) \cap TxsAt(chain', h) = {}
      <3>1. CASE g \in 1..Height /\ h \in 1..Height
        BY <2>4, <2>6, <3>1 DEF DisjointBlocks
      <3>2. CASE g \in 1..Height /\ h = Height + 1
        BY <2>4, <3>2
      <3>3. CASE h \in 1..Height /\ g = Height + 1
        BY <2>4, <3>3
      <3> QED BY <2>5, <2>6, <3>1, <3>2, <3>3
    <2> QED BY <2>6 DEF DisjointBlocks
  <1>3. CASE UNCHANGED vars
    BY <1>1, <1>3 DEF vars
  <1>4. ASSUME NEW t \in Txs, AddTransaction(t) \/ Evict(t) PROVE DisjointBlocks'
    BY <1>1, <1>4 DEF AddTransaction, Evict
  <1>5. CASE RemoveMined
    BY <1>1, <1>5 DEF RemoveMined
  <1>6. ASSUME NEW kind \in Kinds, NEW t \in Txs, NEW off \in Offsets, NEW limit \in Limits,
               Call(kind, t, off, limit)
        PROVE  DisjointBlocks'
    BY <1>1, <1>6 DEF Call
  <1>7. CASE QueryStep
    BY <1>1, <1>7, QueryReads
  <1> QED BY <1>2, <1>3, <1>4, <1>5, <1>6, <1>7 DEF Next

\* On any chain, for any constants and any number of blocks a day, 0 and wrapped ones included: the statistics that RPC/server.go and the APIs derive by different
\* loops and unsigned subtractions agree with the blocks and with each other. The periods of
\* GetNetworkGrowth count every block, transaction and address once and agree with
\* GetActiveAddresses and GetBlockchainStats; GetDailyTransactionVolume's wrapped subtractions
\* hide no day; GetValidatorUptime's missed blocks are right but for a validator that signed
\* the whole window and the block before; GetCirculatingSupply is the sum of the rewards paid and of the
\* validator's share of block 1, which is not; the ranges are cut where they should be and end unless
\* they end at 2^64-1; GetHashRate measures the window; and the medians are medians.
THEOREM StatisticsAlwaysExact == Spec => []StatisticsExact
  <1>1. Init => QueryInv /\ DisjointBlocks
    <2>1. Init => DisjointBlocks
      BY DEF Init, DisjointBlocks, Height
    <2> QED BY <2>1, InitQuery
  <1>2. (QueryInv /\ DisjointBlocks) /\ [Next]_vars => (QueryInv /\ DisjointBlocks)'
    BY NextQuery, NextDisjoint DEF QueryInv, TypeInv
  <1>3. QueryInv /\ DisjointBlocks => StatisticsExact
    <2>1. QueryInv => TypeOK
      BY DEF QueryInv, TypeInv
    <2> QED BY <2>1, GrowthCounts, CountsDoAgree, VolumeIsCovered, UptimeIsExact, SupplyIsRewards, RangeIsCapped,
               HashRateMeasures, TimesDoAgree, FeesAreInOrder DEF StatisticsExact
  <1> QED BY <1>1, <1>2, <1>3, PTL DEF Spec
============================================================================

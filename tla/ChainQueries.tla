---------------------------- MODULE ChainQueries ----------------------------
(***************************************************************************)
(* A query of the RPC server, or of the command line, that runs while the  *)
(* node keeps working.  A query reads the mempool, the height and the      *)
(* blocks one at a time, each under a lock of its own, so transactions and *)
(* blocks arrive between two reads; a block is appended first and its      *)
(* transactions leave the mempool afterwards.                              *)
(*                                                                         *)
(* One query runs in a behaviour; it is about the transaction q.tx or      *)
(* about one address, the one that the transactions of Touching name.      *)
(***************************************************************************)
EXTENDS ChainStatistics

CONSTANTS
    Touching,       \* the transactions that name the address asked about
    Kinds,          \* the queries that are called
    MaxHeight,      \* bound: blocks after the genesis block
    SearchCap,      \* maxSearchHeight, 1000
    ScanBack,       \* 5000, the blocks SearchByAddress means to read
    Limits,         \* args.Limit, at most 100
    Offsets,        \* args.Offset
    MaxResults,     \* args.MaxResults
    MonitorTries, MonitorGrace,     \* 180 and 30 attempts
    StakeTries,     \* 30 attempts
    ShellLooks      \* 30, a look every 10 s for 5 minutes

ASSUME QueriesAssumption ==
    /\ Touching \subseteq Txs
    /\ {MaxHeight, SearchCap, ScanBack, MaxResults, MonitorTries, StakeTries, ShellLooks}
         \cup Limits \subseteq Nat \ {0}
    /\ Offsets \subseteq Nat /\ MonitorGrace \in Nat
    /\ Word > MaxHeight + 1 /\ Word > MaxHeight + MaxDays * HashPerDay

VARIABLES
    chain,          \* bc.Chain without the genesis block
    mempool,        \* node.Mempool
    q               \* the query's local variables

vars == <<chain, mempool, q>>

Height == Len(chain)
Mined == UNION {chain[h] : h \in 1..Height}
Matches(h) == TxsAt(chain, h) \cap Touching

\* The queries that never read the mempool.
ChainOnly == {"GetTransactionProof", "GetRecentTransactions"}

\* The queries about one transaction, and the ones with an offset.
OneTx == {"FindTransaction", "handleGetTransaction", "GetTransaction", "GetTransactionProof",
          "monitorTransaction", "awaitStake", "shellMonitor"}
Paged == {"GetTransactionHistory", "handleGetTransactionHistory", "SearchByAddress"}

Idle == [kind |-> "none", tx |-> CHOOSE t \in Txs : TRUE, off |-> 0, limit |-> 0, known |-> {},
         at |-> "idle", i |-> 0, top |-> 0, low |-> 0, count |-> 0,
         seen |-> {}, tries |-> 0, answer |-> "none"]

Stages == {"idle", "start", "pool", "height", "scan", "confirm", "page", "done"}
Answers == {"none", "pending", "confirmed", "missing", "failed", "unknown", "list"}

\* A query holds a stage, the heights it reads between and what it has seen.
TypeOK ==
    /\ chain \in Seq(SUBSET Txs) /\ Height <= MaxHeight
    /\ mempool \subseteq Txs
    /\ q.at \in Stages /\ q.answer \in Answers
    /\ q.i \in 0..(Word - 1) /\ q.top \in 0..MaxHeight /\ q.low \in 0..MaxHeight
    /\ q.seen \subseteq Txs \X (0..MaxHeight) /\ q.known \subseteq Txs

Init == chain = <<>> /\ mempool = {} /\ q = Idle

-----------------------------------------------------------------------------
(* The node meanwhile. *)

\* A transaction reaches the mempool.
AddTransaction(t) ==
    /\ t \notin mempool \cup Mined
    /\ mempool' = mempool \cup {t}
    /\ UNCHANGED <<chain, q>>

\* A block with some of the pending transactions, mined here or received.
AppendBlock(S) ==
    /\ Height < MaxHeight
    /\ chain' = Append(chain, S)
    /\ UNCHANGED <<mempool, q>>

\* The transactions of the blocks leave the mempool.
RemoveMined ==
    /\ mempool \cap Mined # {}
    /\ mempool' = mempool \ Mined
    /\ UNCHANGED <<chain, q>>

\* A full mempool evicts a transaction that no block has: nobody knows it then.
Evict(t) ==
    /\ t \in mempool \ Mined
    /\ mempool' = mempool \ {t}
    /\ q' = [q EXCEPT !.known = @ \ {t}]
    /\ UNCHANGED chain

-----------------------------------------------------------------------------
(* The steps queries are made of. *)

At(kind, stage) == q.kind = kind /\ q.at = stage /\ UNCHANGED <<chain, mempool>>
Answer(a) == [q EXCEPT !.at = "done", !.answer = a]

\* Mempool.GetTransactions, searched for one transaction.
SearchPool(kind, stage, next) ==
    /\ At(kind, stage)
    /\ q' = IF q.tx \in mempool THEN Answer("pending") ELSE [q EXCEPT !.at = next]

\* GetHeight before a scan from the latest block back; top is where it starts.
ReadHeightDown(kind, stage, top) ==
    /\ At(kind, stage)
    /\ q' = [q EXCEPT !.at = "scan", !.top = top, !.i = top]

\* GetHeight before a scan from block 1.
ReadHeightUp(kind, stage) ==
    /\ At(kind, stage)
    /\ q' = [q EXCEPT !.at = "scan", !.top = Height, !.i = 1]

\* for i := top; i >= 1; i--, looking for one transaction.
SearchDown(kind, found, missing) ==
    /\ At(kind, "scan")
    /\ q' = CASE q.i = 0 -> missing
              [] q.i > 0 /\ q.tx \in TxsAt(chain, q.i) -> found
              [] OTHER -> [q EXCEPT !.i = @ - 1]

\* for i := 1; i <= top; i++, looking for one transaction.
SearchUp(kind, next) ==
    /\ At(kind, "scan")
    /\ q' = CASE q.i > q.top -> next
              [] q.i <= q.top /\ q.tx \in TxsAt(chain, q.i) -> Answer("confirmed")
              [] OTHER -> [q EXCEPT !.i = @ + 1]

\* Mempool.GetTransactions, listed with 0 for the block.
ListPool(kind, stage, next) ==
    /\ At(kind, stage)
    /\ LET hit == mempool \cap Touching
       IN q' = [q EXCEPT !.at = next, !.seen = @ \cup (hit \X {0}), !.count = @ + Cardinality(hit)]

\* n of the entries of S: the code takes them in the order of a Go map.
Some(S, n) == {T \in SUBSET S : Cardinality(T) = IF n < Cardinality(S) THEN n ELSE Cardinality(S)}

\* transactions[Offset : Offset+Limit] of the sorted list.
Page(kind) ==
    /\ At(kind, "page")
    /\ LET left == IF q.off < Cardinality(q.seen) THEN Cardinality(q.seen) - q.off ELSE 0
       IN \E T \in Some(q.seen, IF left < q.limit THEN left ELSE q.limit) :
            q' = [Answer("list") EXCEPT !.seen = T]

-----------------------------------------------------------------------------
(* Queries about one transaction. *)

\* Mutant of FindTransaction: the chain before the mempool.
FindTransactionChainFirst ==
    \/ ReadHeightDown("FindTransaction", "start", Height)
    \/ SearchDown("FindTransaction", Answer("confirmed"), [q EXCEPT !.at = "pool"])
    \/ /\ At("FindTransaction", "pool")
       /\ q' = Answer(IF q.tx \in mempool THEN "pending" ELSE "missing")

\* Blockchain.FindTransaction: mempool, height, blocks from the latest back.
FindTransaction ==
    \/ SearchPool("FindTransaction", "start", "height")
    \/ ReadHeightDown("FindTransaction", "height", Height)
    \/ SearchDown("FindTransaction", Answer("confirmed"), Answer("missing"))

\* RPCServer.handleGetTransaction: the same, from block maxSearchHeight at most.
handleGetTransaction ==
    \/ SearchPool("handleGetTransaction", "start", "height")
    \/ ReadHeightDown("handleGetTransaction", "height",
                      IF Height > SearchCap THEN SearchCap ELSE Height)
    \/ SearchDown("handleGetTransaction", Answer("confirmed"), Answer("missing"))

\* TransactionAPI.GetTransaction: height, blocks upwards, mempool.
GetTransaction ==
    \/ ReadHeightUp("GetTransaction", "start")
    \/ SearchUp("GetTransaction", [q EXCEPT !.at = "pool"])
    \/ /\ At("GetTransaction", "pool")
       /\ q' = Answer(IF q.tx \in mempool THEN "pending" ELSE "missing")

\* TransactionAPI.GetTransactionProof reads the chain only.
GetTransactionProof ==
    \/ ReadHeightUp("GetTransactionProof", "start")
    \/ SearchUp("GetTransactionProof", Answer("missing"))

\* Mutant of monitorTransaction: the attempts are not counted.
monitorForever ==
    \/ ReadHeightUp("monitorTransaction", "start")
    \/ SearchUp("monitorTransaction", [q EXCEPT !.at = "pool"])
    \/ /\ At("monitorTransaction", "pool")
       /\ q' = [q EXCEPT !.at = "start"]

\* monitorTransaction: one round is a scan upwards and a look at the mempool;
\* after the grace period a transaction that is in neither has failed.
monitorTransaction ==
    \/ ReadHeightUp("monitorTransaction", "start")
    \/ SearchUp("monitorTransaction", [q EXCEPT !.at = "pool"])
    \/ /\ At("monitorTransaction", "pool")
       /\ q' = IF q.tx \notin mempool /\ q.tries > MonitorGrace THEN Answer("failed")
               ELSE IF q.tries + 1 = MonitorTries THEN Answer("unknown")
               ELSE [q EXCEPT !.tries = @ + 1, !.at = "start"]

\* The wait of the stake command: FindTransaction; if that finds it, the blocks
\* upwards with the height read again at each; then the mempool, and if the
\* transaction is not there the wait is given up.
awaitStake ==
    \/ /\ At("awaitStake", "start")
       /\ q' = IF q.tx \in mempool THEN [q EXCEPT !.at = "confirm", !.i = 1]
               ELSE [q EXCEPT !.at = "height"]
    \/ ReadHeightDown("awaitStake", "height", Height)
    \/ SearchDown("awaitStake", [q EXCEPT !.at = "confirm", !.i = 1], [q EXCEPT !.at = "pool"])
    \/ /\ At("awaitStake", "confirm")
       /\ q' = CASE q.i > Height -> [q EXCEPT !.at = "pool", !.top = Height]
                 [] q.i <= Height /\ q.tx \in TxsAt(chain, q.i) -> Answer("confirmed")
                 [] OTHER -> [q EXCEPT !.i = @ + 1]
    \/ /\ At("awaitStake", "pool")
       /\ q' = IF q.tx \notin mempool THEN Answer("failed")
               ELSE IF q.tries + 1 = StakeTries THEN Answer("unknown")
               ELSE [q EXCEPT !.tries = @ + 1, !.at = "start"]

\* monitorTransaction of the TXNS shell: at each look, if the height has grown
\* since the last one, the latest block by then.
shellMonitor ==
    \/ At("shellMonitor", "start") /\ q' = [q EXCEPT !.at = "height", !.top = Height]
    \/ /\ At("shellMonitor", "height")
       /\ q' = IF q.tries = ShellLooks THEN Answer("unknown")
               ELSE IF Height > q.top
               THEN [q EXCEPT !.at = "confirm", !.i = Height, !.tries = @ + 1]
               ELSE [q EXCEPT !.tries = @ + 1]
    \/ /\ At("shellMonitor", "confirm")
       /\ q' = IF q.tx \in TxsAt(chain, Height) THEN Answer("confirmed")
               ELSE [q EXCEPT !.at = "height", !.top = q.i]

-----------------------------------------------------------------------------
(* Queries about an address. *)

\* TransactionAPI.GetTransactionHistory: from the latest block back until
\* Limit + Offset transactions are counted, the first Offset of them skipped;
\* then, for the first page, pending transactions in front until Limit are
\* listed; when the blocks gave Limit already the first one displaces the last.
GetTransactionHistory ==
    \/ ReadHeightDown("GetTransactionHistory", "start", Height)
    \/ /\ At("GetTransactionHistory", "scan")
       /\ IF q.i = 0 \/ q.count >= q.limit + q.off
          THEN q' = [q EXCEPT !.at = "pool"]
          ELSE LET hit == Matches(q.i)
                   skip == IF q.off > q.count THEN q.off - q.count ELSE 0
                   room == q.limit + q.off - q.count
               IN \E T \in Some(hit, room), S \in Some(hit, skip) :
                    /\ S \subseteq T
                    /\ q' = [q EXCEPT !.i = @ - 1, !.count = @ + Cardinality(T),
                                      !.seen = @ \cup ((T \ S) \X {q.i})]
    \/ /\ At("GetTransactionHistory", "pool")
       /\ IF q.off > 0 THEN q' = Answer("list")
          ELSE LET pending == (mempool \cap Touching) \X {0}
                   listed == Cardinality(q.seen)
                   room == IF listed < q.limit THEN q.limit - listed ELSE 1
               IN \E T \in Some(pending, room) :
                  \E U \in Some(q.seen, q.limit - Cardinality(T)) :
                     q' = [Answer("list") EXCEPT !.seen = T \cup U,
                                                 !.count = @ + Cardinality(pending)]

\* RPCServer.handleGetTransactionHistory: the mempool, then from block
\* maxSearchHeight at most back until Limit + Offset are listed, then a page.
handleGetTransactionHistory ==
    \/ ListPool("handleGetTransactionHistory", "start", "height")
    \/ ReadHeightDown("handleGetTransactionHistory", "height",
                      IF Height > SearchCap THEN SearchCap ELSE Height)
    \/ /\ At("handleGetTransactionHistory", "scan")
       /\ LET hit == Matches(q.i)
          IN q' = CASE q.i = 0 -> [q EXCEPT !.at = "page"]
                    [] q.i > 0 /\ q.count + Cardinality(hit) >= q.limit + q.off ->
                         [q EXCEPT !.at = "page", !.count = @ + Cardinality(hit),
                                   !.seen = @ \cup (hit \X {q.i})]
                    [] OTHER -> [q EXCEPT !.i = @ - 1, !.count = @ + Cardinality(hit),
                                          !.seen = @ \cup (hit \X {q.i})]
    \/ Page("handleGetTransactionHistory")

\* TransactionAPI.GetFullTransactionHistory: the mempool, then every block back
\* to 1.  At MaxResults the height is set to 0 to leave the loop, and the
\* loop's own i-- then makes it the largest number of the type.
GetFullTransactionHistory ==
    \/ ListPool("GetFullTransactionHistory", "start", "height")
    \/ ReadHeightDown("GetFullTransactionHistory", "height", Height)
    \/ /\ At("GetFullTransactionHistory", "scan")
       /\ IF q.i = 0 THEN q' = Answer("list")
          ELSE LET hit == Matches(q.i)
                   full == hit # {} /\ q.count + Cardinality(hit) >= MaxResults
                   room == IF q.count < MaxResults THEN MaxResults - q.count ELSE 1
               IN \E T \in Some(hit, IF full THEN room ELSE Cardinality(hit)) :
                    q' = [q EXCEPT !.i = IF full THEN Minus(0, 1) ELSE @ - 1,
                                   !.count = IF full THEN MaxResults ELSE @ + Cardinality(T),
                                   !.seen = @ \cup (T \X {q.i})]

\* The lowest block SearchByAddress reads.
ScanFloor == IF Height > ScanBack THEN Height - ScanBack ELSE 0

\* TransactionAPI.SearchByAddress: back while height >= heightStart, which is
\* always true of an unsigned height when heightStart is 0; the check that
\* ends the loop early is not reached for a height without a block.
SearchByAddress ==
    \/ /\ At("SearchByAddress", "start")
       /\ q' = [q EXCEPT !.at = "scan", !.top = Height, !.i = Height, !.low = ScanFloor]
    \/ /\ At("SearchByAddress", "scan")
       /\ LET hit == Matches(q.i)
              count == q.count + Cardinality(hit)
              enough == IF count < q.limit + q.off THEN count ELSE q.limit + q.off
          IN q' = CASE q.i < q.low -> [q EXCEPT !.at = "pool"]
                    [] q.i >= q.low /\ q.i > Height -> [q EXCEPT !.i = Minus(@, 1)]
                    [] OTHER ->
                         [q EXCEPT !.seen = @ \cup (hit \X {q.i}), !.count = enough,
                                   !.at = IF enough = q.limit + q.off THEN "pool" ELSE @,
                                   !.i = IF enough = q.limit + q.off THEN @ ELSE Minus(@, 1)]
    \/ ListPool("SearchByAddress", "pool", "page")
    \/ Page("SearchByAddress")

\* TransactionAPI.GetRecentTransactions: every transaction, latest block first,
\* until Limit are listed.
GetRecentTransactions ==
    \/ ReadHeightDown("GetRecentTransactions", "start", Height)
    \/ /\ At("GetRecentTransactions", "scan")
       /\ IF q.i = 0 \/ q.count >= q.limit THEN q' = Answer("list")
          ELSE \E T \in Some(TxsAt(chain, q.i), q.limit - q.count) :
                 q' = [q EXCEPT !.i = @ - 1, !.count = @ + Cardinality(T),
                                !.seen = @ \cup (T \X {q.i})]

-----------------------------------------------------------------------------
\* A query is called: what is known then is in the mempool or in the chain.
Call(kind, t, off, limit) ==
    /\ q.at = "idle"
    /\ kind \in OneTx \/ t = Idle.tx
    /\ kind \in Paged \/ off = 0
    /\ kind \in Paged \cup {"GetRecentTransactions"} \/ limit = Max(Limits)
    /\ q' = [Idle EXCEPT !.kind = kind, !.tx = t, !.off = off, !.limit = limit, !.at = "start",
                         !.known = IF kind \in ChainOnly THEN Mined ELSE Mined \cup mempool]
    /\ UNCHANGED <<chain, mempool>>

QueryStep ==
    \/ FindTransaction \/ handleGetTransaction \/ GetTransaction \/ GetTransactionProof
    \/ monitorTransaction \/ awaitStake \/ shellMonitor
    \/ GetTransactionHistory \/ handleGetTransactionHistory
    \/ GetFullTransactionHistory \/ SearchByAddress \/ GetRecentTransactions

Next ==
    \/ \E t \in Txs : AddTransaction(t) \/ Evict(t)
    \/ \E S \in SUBSET (mempool \ Mined) : AppendBlock(S)
    \/ RemoveMined
    \/ \E kind \in Kinds, t \in Txs, off \in Offsets, limit \in Limits :
            Call(kind, t, off, limit)
    \/ QueryStep

Spec == Init /\ [][Next]_vars

\* The goroutine of a request keeps running: every read it does ends.
FairSpec == Spec /\ WF_vars(QueryStep)

-----------------------------------------------------------------------------
(* Properties of the queries. *)

\* Mined in a block above the one the scan started from, or in one that is older
\* than the blocks SearchByAddress reads.
Late(t) == \E h \in (q.top + 1)..Height : t \in chain[h]
Early(t) == \E h \in 1..(q.low - 1) : t \in chain[h]

\* The transactions that a finished query was to find and did not.
Missed ==
    IF q.kind \in OneTx
    THEN {t \in q.known : t = q.tx /\ q.answer \in {"missing", "failed"}}
    ELSE IF q.off > 0 \/ q.count >= (IF q.kind = "GetFullTransactionHistory" THEN MaxResults ELSE q.limit)
    THEN {}
    ELSE {t \in q.known : /\ t \in Touching \/ q.kind = "GetRecentTransactions"
                          /\ \A h \in 0..MaxHeight : <<t, h>> \notin q.seen}

\* A transaction that was pending or mined when the query was called is never
\* reported as missing by FindTransaction and GetFullTransactionHistory, which
\* read the mempool before the height; by the others only if it was mined in a
\* block above the one their scan started from: appended after they read the
\* height, or above maxSearchHeight; and by SearchByAddress also if its block is
\* older than the last 5000.
NothingMissed ==
    q.at = "done" =>
        \A t \in Missed :
            /\ q.kind \notin {"FindTransaction", "GetFullTransactionHistory"}
            /\ Late(t) \/ (q.kind = "SearchByAddress" /\ Early(t))
            /\ q.kind \in {"handleGetTransaction", "handleGetTransactionHistory"} => q.top = SearchCap

\* GetRecentTransactions leaves no transaction out that is in a higher block
\* than one it lists, of the blocks up to the height it read.
RecentAreLatest ==
    q.kind = "GetRecentTransactions" /\ q.at = "done" =>
        \A e \in q.seen, h \in 1..q.top :
            h > e[2] => \A t \in chain[h] : <<t, h>> \in q.seen

\* The two scans that may run round the range of a height.
Endless ==
    \/ q.kind = "GetFullTransactionHistory" /\ q.count >= MaxResults
    \/ q.kind = "SearchByAddress" /\ q.low = 0 /\ q.at = "scan"

\* Every other query that is called is answered, however the chain grows.
QueryEnds == (q.at \notin {"idle", "done"}) ~> (q.at = "done" \/ Endless)

-----------------------------------------------------------------------------
(* Properties of the statistics, of every chain that is reached; each one is *)
(* also reached before a query is called.                                     *)

Days == 1..MaxDays
SumOf(f, field) == SumFunction([k \in DOMAIN f |-> f[k][field]])

\* The periods of GetNetworkGrowth count every block they cover once, and the
\* new addresses they report add up to the distinct addresses of those blocks.
GrowthCountsOnce ==
    q = Idle => \A days \in Days, perDay \in PerDays :
        LET P == GrowthPeriods(chain, days, perDay)
            growth == GetNetworkGrowth(chain, days, perDay)
            covered == UNION {P[k] : k \in DOMAIN P}
        IN /\ SumOf(growth, "blocks") = Cardinality(covered)
           /\ SumOf(growth, "newAddresses") = Cardinality(AddressesOf(chain, covered))

\* Three functions that count by different loops agree when what they read is
\* the whole chain: the days reach back to the first block, also after the
\* product of days and blocks has wrapped, and the chain is not longer than the
\* window of GetBlockchainStats.
CountsAgree ==
    q = Idle => \A days \in Days, perDay \in PerDays :
        Window(days, perDay) >= Height =>
            LET growth == GetNetworkGrowth(chain, days, perDay)
            IN /\ SumOf(growth, "newAddresses") = Cardinality(GetActiveAddresses(chain, days, perDay).new)
               /\ Height <= StatsWindow => SumOf(growth, "transactions") = GetBlockchainStats(chain)

\* GetDailyTransactionVolume lists every day that lies wholly in the chain, in
\* spite of the wrapped subtractions; a block is in two days at most, but when
\* there is not one block a day every day listed is the latest block.
VolumeCovers ==
    q = Idle => \A days \in Days, perDay \in PerDays :
        LET shown == DOMAIN GetDailyTransactionVolume(chain, days, perDay)
        IN /\ \A d \in 0..(days - 1) :
                Height > 0 /\ Height >= (d + 1) * perDay => d \in shown
           /\ IF perDay = 0
              THEN \A d \in shown : VolumeDay(Height, d, perDay) = {Height}
              ELSE \A h \in 1..Height :
                     Cardinality({d \in shown : h \in VolumeDay(Height, d, perDay)}) <= 2

\* GetValidatorUptime's missed and validated blocks add up to the window unless
\* the validator signed all of it and the block before, where missed wraps;
\* by gives the signer of each block.
UptimeExact ==
    q = Idle => \A days \in Days, perDay \in PerDays, v \in Validators :
        \A by \in [1..Height -> Validators] :
            LET u == GetValidatorUptime(by, v, days, perDay)
                start == UptimeStart(Height, days, perDay)
            IN \/ u.missed + u.validated = u.total
               \/ start > 0 /\ SignedBy(by, v, days, perDay) = start..Height

\* The supply that GetCirculatingSupply derives from the height, level by level,
\* is what the blocks paid to miners and validators, fees left aside, and the
\* validator's three tenths of block 1, which nobody was paid.
SupplyMatchesRewards ==
    q = Idle => 10 * GetCirculatingSupply(Height) =
        SumFunction([n \in 1..Height |-> RewardTenths(n)])
          + (IF Height > 0 THEN 3 * InitialReward ELSE 0)

\* GetBlockRange and GetBlockHeaders answer with exactly the blocks there are
\* among the first max heights asked for, whatever the uint64 arithmetic of the
\* cut does; only a range of 2^63 heights or more, whose length is negative as
\* an int, is not cut off.  They do not answer when the last height left is
\* 2^64-1, where their loops never end, and in no other case.
RangeCapped ==
    q = Idle => \A first, last \in 0..(Word - 1), max \in Limits :
        LET cut == last - first + 1 < Word \div 2 /\ first + max <= last
            asked == {h \in first..last : h <= Height /\ (cut => h < first + max)}
            answer == [blocks |-> asked, ends |-> cut \/ last < Word - 1]
        IN first <= last =>
              /\ GetBlockRange(chain, first, last, max) = answer
              /\ GetBlockHeaders(chain, first, last, max) = answer

\* GetHashRate measures the days asked for, when the chain is as long as that,
\* less the blocks that were appended between its two reads; on a shorter chain
\* the unsigned start lies above the chain, and it answers 0.  A block's
\* difficulty is 1 here, so work counts blocks.
HashRateWindow ==
    q = Idle => \A days \in Days, latest \in 0..Height :
        LET work == [h \in 0..Height |-> h]
            rate == GetHashRate(work, work, latest, Height, days)
            window == days * HashPerDay
            left == window - (Height - latest)
        IN /\ Height < window \/ left <= 0 => rate.work = 0
           /\ Height > window /\ left > 0 => rate.work = left /\ rate.time = left

\* The two average block times of the API agree on a chain whose timestamps do
\* not go back; otherwise that of the network statistics is the longer one.
TimesAgree ==
    q = Idle => \A stamp \in [1..Height -> 0..MaxStamp], n \in 2..(Height - 1) :
        LET one == GetBlockTime(stamp, n)
            other == AvgBlockTime(stamp, n)
            back == \E h \in (Height - n + 2)..Height : stamp[h] < stamp[h - 1]
        IN /\ one.gaps = other.gaps
           /\ IF back THEN one.total < other.total ELSE one.total = other.total

\* A median has half of the fees on either side, in a window of blocks, in one
\* block and in the mempool; it lies between the lowest and the highest fee; and
\* getMempoolInfo and estimateFee report the same lowest and highest.
FeesInOrder ==
    LET IsMedian(M, F) == /\ 2 * Cardinality({e \in F : 2 * e[2] <= M}) >= Cardinality(F)
                          /\ 2 * Cardinality({e \in F : 2 * e[2] >= M}) >= Cardinality(F)
        info == GetMempoolInfo(mempool)
        hint == handleEstimateFee(mempool, 1)
    IN q = Idle =>
        /\ \A blocks \in 1..MaxHeight :
             LET fees == GetAverageFees(chain, blocks)
                 low == IF Height > blocks THEN Height - blocks ELSE 0
             IN /\ IsMedian(fees.twiceMedian, FeesOf(chain, low..Height))
                /\ \A h \in DOMAIN fees.blockFees :
                     LET b == fees.blockFees[h]
                     IN 2 * b.lowest <= b.twiceMedian /\ b.twiceMedian <= 2 * b.highest
                /\ SumOf(fees.blockFees, "txCount") = fees.totalTxs
        /\ IsMedian(info.twiceMedian, {<<t, Fee[t]>> : t \in mempool})
        /\ info.size > 0 => /\ hint.low = info.minFee /\ hint.high = info.maxFee
                            /\ hint.count = info.size /\ hint.total = info.totalFees

\* Lists and lookups leave nothing out but what the code's order of reads does.
AnswersComplete == TypeOK /\ NothingMissed /\ RecentAreLatest

\* The statistics of the RPC server agree with the chain and with each other.
StatisticsExact ==
    /\ GrowthCountsOnce /\ CountsAgree /\ VolumeCovers /\ UptimeExact /\ SupplyMatchesRewards
    /\ RangeCapped /\ HashRateWindow /\ TimesAgree /\ FeesInOrder
============================================================================

-------------------------- MODULE ChainStatistics --------------------------
(***************************************************************************)
(* What the RPC server computes from the chain: the blocks up to a height  *)
(* are never replaced, so a function that reads the height once is an      *)
(* operator on the chain; GetHashRate, which reads it twice, has both.     *)
(* Heights are uint64, so differences are taken modulo Word.               *)
(*                                                                         *)
(* perDay is blocksPerDay as a uint64.  The code divides the seconds of a  *)
(* day by the average time of the last 100 blocks, or by ten seconds: it   *)
(* is 0 when that average is above a day, and when no timestamp grows the  *)
(* average is 0 and what the quotient converts to is up to the machine.    *)
(***************************************************************************)
EXTENDS Integers, Sequences, FiniteSetsExt

CONSTANTS
    Txs,            \* user transactions
    Sender, Receiver,   \* the addresses of each
    Fee,            \* GasFee of each, more than 0
    Validators,     \* addresses that sign blocks
    Word,           \* 2^64 in the code: the modulus of a height
    PerDays,        \* the values of blocksPerDay
    HashPerDay,     \* 24*60*60/5, the blocks GetHashRate takes for a day
    MaxStamp,       \* bound: timestamps
    MaxDays,        \* bound: the longest period asked for, 365 in the code
    StatsWindow,    \* 1000: the blocks GetBlockchainStats reads
    HalvingBlocks,  \* RewardHalvingBlocks
    InitialReward   \* InitialBlockReward, in units that halve exactly

ASSUME StatisticsAssumption ==
    /\ IsFiniteSet(Txs)
    /\ Sender \in [Txs -> Nat] /\ Receiver \in [Txs -> Nat]
    /\ Fee \in [Txs -> Nat \ {0}]
    /\ {Word, HashPerDay, MaxDays, HalvingBlocks, StatsWindow} \subseteq Nat \ {0}
    /\ PerDays \subseteq 0..(Word - 1)
    /\ InitialReward \in Nat /\ MaxStamp \in Nat

\* a - b on uint64.
Minus(a, b) == (a + Word - (b % Word)) % Word

\* GetBlockByHeight: the user transactions of the block numbered h; the
\* genesis block has number 0 and none.
TxsAt(c, h) == IF h \in 1..Len(c) THEN c[h] ELSE {}

AddressesAt(c, h) == {Sender[t] : t \in TxsAt(c, h)} \cup {Receiver[t] : t \in TxsAt(c, h)}
AddressesOf(c, H) == UNION {AddressesAt(c, h) : h \in H}
TxCountOf(c, H) == SumFunction([h \in H |-> Cardinality(TxsAt(c, h))])

-----------------------------------------------------------------------------
(* GetNetworkGrowth. *)

\* The heights at which the periods end, from the latest back: each is a day
\* below the one before, and the loop stops at 0 or after the days asked for;
\* it subtracts perDay step by step, so nothing wraps.
DailyHeights(top, days, perDay) ==
    [k \in {k \in 0..days : k <= 1 \/ top > (k - 1) * perDay} |->
        IF top > k * perDay THEN top - k * perDay ELSE 0]

\* The heights each period counts.
GrowthPeriods(c, days, perDay) ==
    LET E == DailyHeights(Len(c), days, perDay)
    IN [k \in DOMAIN E \ {0} |-> {h \in 1..Len(c) : E[k] < h /\ h <= E[k - 1]}]

\* Its answer: blocks, transactions and addresses not met in a later period.
GetNetworkGrowth(c, days, perDay) ==
    LET P == GrowthPeriods(c, days, perDay)
    IN [k \in DOMAIN P |->
          [blocks |-> Cardinality(P[k]),
           transactions |-> TxCountOf(c, P[k]),
           newAddresses |-> Cardinality(AddressesOf(c, P[k])
                              \ UNION {AddressesOf(c, P[j]) : j \in 1..(k - 1)})]]

\* uint64(args.Days*blocksPerDay).
Window(days, perDay) == (days * perDay) % Word

\* GetActiveAddresses: the addresses of the window and those that no earlier
\* block has.
GetActiveAddresses(c, days, perDay) ==
    LET window == Window(days, perDay)
        start == IF Len(c) > window THEN Len(c) - window ELSE 1
        active == AddressesOf(c, start..Len(c))
    IN [active |-> active, new |-> active \ AddressesOf(c, 1..(start - 1))]

\* GetBlockchainStats: the transactions of the window, extrapolated to the
\* whole chain when the window leaves blocks out.
GetBlockchainStats(c) ==
    LET start == IF Len(c) > StatsWindow THEN Len(c) - StatsWindow ELSE 1
        counted == TxCountOf(c, start..Len(c))
    IN IF start > 1 THEN (counted * Len(c)) \div (Len(c) - start + 1) ELSE counted

-----------------------------------------------------------------------------
(* GetDailyTransactionVolume and GetValidatorUptime. *)

\* Mutant of VolumeDay: the days are counted from one.
VolumeDayLate(top, day, perDay) ==
    LET end == Minus(top, (day + 1) * perDay)
        low == Minus(end, perDay)
        start == IF low < 1 THEN 1 ELSE low
    IN IF end < 1 \/ end < start THEN {} ELSE start..end

\* The heights of one day of the list, {} where the loop breaks: both ends
\* are differences of unsigned numbers.
VolumeDay(top, day, perDay) ==
    LET end == Minus(top, day * perDay)
        low == Minus(end, perDay)
        start == IF low < 1 THEN 1 ELSE low
    IN IF end < 1 \/ end < start THEN {} ELSE start..end

\* The days listed: the loop breaks at the first one it cannot show.
GetDailyTransactionVolume(c, days, perDay) ==
    [d \in {d \in 0..(days - 1) : \A e \in 0..d : VolumeDay(Len(c), e, perDay) # {}} |->
        TxCountOf(c, VolumeDay(Len(c), d, perDay))]

\* GetValidatorUptime: the blocks of the window and those the validator signed
\* in it, where by[h] signed block h; the window starts with block 0 or with
\* the block before it.  The validator must be in bc.Validators, a map
\* that nothing fills: until something does, a caller gets an error.
UptimeStart(top, days, perDay) ==
    IF top > Window(days, perDay) THEN top - Window(days, perDay) ELSE 0

SignedBy(by, v, days, perDay) ==
    {h \in UptimeStart(Len(by), days, perDay)..Len(by) : h > 0 /\ by[h] = v}

GetValidatorUptime(by, v, days, perDay) ==
    LET total == Len(by) - UptimeStart(Len(by), days, perDay)
        validated == Cardinality(SignedBy(by, v, days, perDay))
    IN [total |-> total, validated |-> validated, missed |-> Minus(total, validated)]

-----------------------------------------------------------------------------
(* Rewards. *)

\* calculateBlockReward of the block a miner builds on, without the fees.
Halved[n \in Nat] == IF n = 0 THEN InitialReward ELSE Halved[n - 1] \div 2
calculateBlockReward(previous) == Halved[previous \div HalvingBlocks]

\* What block n pays, in tenths and without the fees: 7 to its miner and, from
\* block 2 on, 3 to the validator of the block before.
RewardTenths(n) == (IF n > 1 THEN 10 ELSE 7) * calculateBlockReward(n - 1)

\* GetCirculatingSupply's supply at a height, level by level while blocks are
\* left; it is the answer unless the UTXO pool has unspent outputs, whose sum is
\* taken then.
GetCirculatingSupply(top) ==
    LET left(level) == top - level * HalvingBlocks
        n(level) == IF left(level) > HalvingBlocks THEN HalvingBlocks ELSE left(level)
    IN SumFunction([level \in {l \in 0..top : left(l) > 0} |-> n(level) * Halved[level]])

-----------------------------------------------------------------------------
(* Ranges of blocks. *)

\* int(x) of a uint64.
ToInt(x) == IF x < Word \div 2 THEN x ELSE x - Word

\* The height at which a range that holds more than max blocks is cut off.
LastOfRange(first, last, max) ==
    IF ToInt((last - first + 1) % Word) > max THEN (first + max - 1) % Word ELSE last

\* for height := first; height <= last; height++: the blocks it finds, and
\* whether it ends, which it does not when last is the largest uint64.
ReadRange(c, first, last) ==
    [blocks |-> {h \in first..last : h <= Len(c)}, ends |-> last < Word - 1]

\* GetBlockRange, where first <= last.
GetBlockRange(c, first, last, max) == ReadRange(c, first, LastOfRange(first, last, max))

\* GetBlockHeaders has a loop of its own, with other limits.
GetBlockHeaders(c, first, last, max) == ReadRange(c, first, LastOfRange(first, last, max))

\* The block that GetHashRate measures from: unsigned, so that the check for a
\* start below 1 finds 0 only.
HashStart(top, days) ==
    LET start == Minus(top, days * HashPerDay) IN IF start < 1 THEN 1 ELSE start

\* GetHashRate as the work and the time it divides, no work where it answers 0;
\* work[h] is CumulativeDifficulty, stamp[h] the timestamp of block h.  It reads
\* the latest block first and the height afterwards.
GetHashRate(work, stamp, latest, top, days) ==
    LET start == HashStart(top, days)
    IN IF start > top THEN [work |-> 0, time |-> 0]
       ELSE IF stamp[latest] <= stamp[start] THEN [work |-> 0, time |-> 0]
       ELSE [work |-> Minus(work[latest], work[start]), time |-> stamp[latest] - stamp[start]]

-----------------------------------------------------------------------------
(* The time between blocks. *)

Gap(stamp, h) == stamp[h] - stamp[h - 1]

\* The blocks GetBlockTime reads: n of them, and never the first one.
TimeHeights(top, n) == (top - (IF n > top - 1 THEN top - 1 ELSE n) + 1)..top

\* GetBlockTime as the total and the number it divides it by, from two blocks on.
GetBlockTime(stamp, n) ==
    LET H == TimeHeights(Len(stamp), n)
    IN [total |-> SumFunction([h \in H \ {Min(H)} |-> Gap(stamp, h)]),
        gaps  |-> Cardinality(H) - 1]

\* avgBlockTime of the network statistics, over the last n blocks, 100 in the
\* code: gaps that are not positive do not add to the total.
AvgBlockTime(stamp, n) ==
    LET H == (Len(stamp) - n + 1)..Len(stamp)
        gaps == H \ {Min(H)}
    IN [total |-> SumFunction([h \in {h \in gaps : Gap(stamp, h) > 0} |-> Gap(stamp, h)]),
        gaps  |-> Cardinality(gaps)]

-----------------------------------------------------------------------------
(* Fees.  A fee rate is the fee divided by 250, which changes no order. *)

\* The transactions of the blocks H with their fees; the reward of the miner, and
\* from the second block on that of a validator, have none.
FeesOf(c, H) ==
    {<<<<"user", t>>, Fee[t]>> : t \in UNION {TxsAt(c, h) : h \in H}}
      \cup {<<<<"coinbase", h>>, 0>> : h \in H \ {0}}
      \cup {<<<<"validator", h>>, 0>> : h \in H \ {0, 1}}

Amounts(F) == {e[2] : e \in F}
Total(F) == SumFunction([e \in F |-> e[2]])

\* The k-th smallest fee of F.
Ranked(F, k) ==
    CHOOSE a \in Amounts(F) : /\ Cardinality({e \in F : e[2] < a}) < k
                             /\ k <= Cardinality({e \in F : e[2] <= a})

\* The median of the sorted list, doubled; 0 of an empty one.
TwiceMedian(F) ==
    LET n == Cardinality(F)
    IN IF n = 0 THEN 0
       ELSE IF n % 2 = 0 THEN Ranked(F, n \div 2) + Ranked(F, n \div 2 + 1)
       ELSE 2 * Ranked(F, n \div 2 + 1)

\* GetAverageFees over the last blocks, and of each block that has transactions;
\* blockTotalFees is never added to.
GetAverageFees(c, blocks) ==
    LET H == (IF Len(c) > blocks THEN Len(c) - blocks ELSE 0)..Len(c)
        F == FeesOf(c, H)
    IN [totalTxs |-> Cardinality(F), totalFees |-> Total(F), twiceMedian |-> TwiceMedian(F),
        blockFees |->
          [h \in {h \in H : FeesOf(c, {h}) # {}} |->
             LET B == FeesOf(c, {h})
             IN [txCount |-> Cardinality(B), totalFees |-> 0, twiceMedian |-> TwiceMedian(B),
                 lowest |-> Min(Amounts(B)), highest |-> Max(Amounts(B))]]]

\* GetMempoolInfo: the maximum starts from 0, the minimum from the first fee.
GetMempoolInfo(mempool) ==
    LET F == {<<t, Fee[t]>> : t \in mempool}
    IN [size |-> Cardinality(F), totalFees |-> Total(F), twiceMedian |-> TwiceMedian(F),
        minFee |-> IF F = {} THEN 0 ELSE Min(Amounts(F)), maxFee |-> Max(Amounts(F) \cup {0})]

\* The recommendations of handleEstimateFee; without pending transactions they
\* are 80, 100 and 120 percent of the fee that the gas price gives.
handleEstimateFee(mempool, fee) ==
    LET F == {<<t, Fee[t]>> : t \in mempool}
    IN IF F = {} THEN [low |-> 80 * fee, total |-> 100 * fee, high |-> 120 * fee, count |-> 1]
       ELSE [low |-> Min(Amounts(F)), total |-> Total(F), high |-> Max(Amounts(F)),
             count |-> Cardinality(F)]
============================================================================

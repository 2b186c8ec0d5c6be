------------------------------ MODULE Mempool ------------------------------
(***************************************************************************)
(* The list of pending transactions of one node, its capacity and what is  *)
(* evicted.  Every operation runs under Mempool.mu, so each is one action; *)
(* the goroutines that call them are the transaction handlers, the miner,  *)
(* handleBlockStream and the start-up code.                                *)
(*                                                                         *)
(* Transactions are valid here: what ValidateTransaction refuses changes   *)
(* nothing.  TransactionPath, which extends this module, says which are.   *)
(***************************************************************************)
EXTENDS Naturals, Sequences, FiniteSets

CONSTANTS
    Txs,            \* transaction IDs
    Fee,            \* GasFee of each
    MaxSize,        \* maxSize, 1000 in the code
    PeerSync,       \* TRUE: Mempool.SyncWithPeer is called
    MaxPeerList     \* bound: length of the list a peer sends

ASSUME MempoolAssumption ==
    /\ Fee \in [Txs -> Nat]
    /\ MaxSize \in Nat \ {0}
    /\ PeerSync \in BOOLEAN
    /\ MaxPeerList \in Nat

VARIABLES
    txs,            \* m.Transactions
    refused         \* history: turned away or evicted since the pool last changed otherwise

poolVars == <<txs, refused>>

PoolTypeOK == txs \in Seq(Txs) /\ refused \subseteq Txs

Pooled(s) == {s[i] : i \in 1..Len(s)}

-----------------------------------------------------------------------------
(* Sorting. *)

\* sort.SliceStable by GasFee, highest first: the order of the indices of s.
StableOrder(s) ==
    {p \in [1..Len(s) -> 1..Len(s)] :
        \A i, j \in 1..Len(s) : i < j =>
            \/ Fee[s[p[i]]] > Fee[s[p[j]]]
            \/ Fee[s[p[i]]] = Fee[s[p[j]]] /\ p[i] < p[j]}

\* The sequence s in the order p.
Arrange(s, p) == [i \in 1..Len(s) |-> s[p[i]]]

\* Mutant of Sorted: the list is taken to be in order already.
Unsorted(s) == {s}

\* The results of the sort; there is exactly one.
Sorted(s) == {Arrange(s, p) : p \in StableOrder(s)}

Lowest(s) == s[Len(s)]
AllButLowest(s) == SubSeq(s, 1, Len(s) - 1)

-----------------------------------------------------------------------------
PoolInit == txs = <<>> /\ refused = {}

\* AddTransaction: a duplicate changes nothing; below capacity the transaction
\* is appended and the list sorted.
AddTransaction(t) ==
    /\ t \notin Pooled(txs)
    /\ Len(txs) < MaxSize
    /\ \E s \in Sorted(Append(txs, t)) : txs' = s
    /\ UNCHANGED refused

\* At capacity the list is sorted, and a transaction that pays more than the
\* last one takes its place.
ReplaceLowest(t) ==
    /\ t \notin Pooled(txs)
    /\ Len(txs) >= MaxSize
    /\ \E s \in Sorted(txs) :
         /\ Fee[t] > Fee[Lowest(s)]
         /\ \E r \in Sorted(Append(AllButLowest(s), t)) : txs' = r
         /\ refused' = refused \cup {Lowest(s)}

\* Otherwise it is refused; the list stays sorted.
RefuseTransaction(t) ==
    /\ t \notin Pooled(txs)
    /\ Len(txs) >= MaxSize
    /\ \E s \in Sorted(txs) :
         /\ Fee[t] <= Fee[Lowest(s)]
         /\ txs' = s
    /\ refused' = refused \cup {t}

\* The elements of s at the positions in S, in their order; there is exactly one
\* such sequence.
Increasing(S) ==
    {p \in [1..Cardinality(S) -> S] : \A i, j \in 1..Cardinality(S) : i < j => p[i] < p[j]}
Select(s, S) == {[i \in 1..Cardinality(S) |-> s[p[i]]] : p \in Increasing(S)}

Without(s, gone) == Select(s, {i \in 1..Len(s) : s[i] \notin gone})

\* MineBlock calls RemoveTransaction for the transactions of its block.
RemoveTransactions(gone) ==
    /\ \E s \in Without(txs, gone) : txs' = s
    /\ refused' = {}

\* The positions of the peer's list at which a transaction is met first.
FirstAt(list) == {i \in 1..Len(list) : \A j \in 1..(i - 1) : list[j] # list[i]}

\* The loop of SyncWithPeer: what is not yet in the list is appended.
Merge(s, list) ==
    {s \o new : new \in Select(list, {i \in FirstAt(list) : list[i] \notin Pooled(s)})}

\* SyncWithPeer appends what the peer sent, without validation or size limit.
\* handleMempoolSync encodes the peer's list without its lock, while it may be
\* sorted in place, so the list can hold a transaction twice.
SyncWithPeer(list) ==
    /\ PeerSync
    /\ ~(Pooled(list) \subseteq Pooled(txs))
    /\ \E s \in Merge(txs, list) : txs' = s
    /\ refused' = {}

Lists == UNION {[1..n -> Txs] : n \in 1..MaxPeerList}

-----------------------------------------------------------------------------
(* Properties *)

\* AddTransaction and SyncWithPeer never leave a transaction twice in the list,
\* even if the peer's list holds it twice.
NoDuplicates ==
    \A i, j \in 1..Len(txs) : txs[i] = txs[j] => i = j

\* Capacity is taken by who pays most: while nothing is removed or merged, no
\* transaction that was refused or evicted pays more than one in the list, in
\* whatever order a merge has left that list.
RicherStay ==
    \A t \in refused : \A i \in 1..Len(txs) : Fee[t] <= Fee[txs[i]]

=============================================================================

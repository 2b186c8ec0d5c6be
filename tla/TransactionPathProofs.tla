------------------------ MODULE TransactionPathProofs ------------------------
(***************************************************************************)
(* Proofs about the way of a payment: MempoolSound,                        *)
(* SpentAgainOnlyIfPooled, ValueKept and ShellRejectedOnlyIfSpent, for any *)
(* transactions, coins, fees, calls and capacities.                        *)
(*                                                                         *)
(* The mempool's list operations first, then the invariant: in             *)
(* CoreInv what every other argument needs (types, pools, calls), in       *)
(* SpendOnce, WorthInv and ShellInv what the second spend, the values and  *)
(* the miner's verdicts need.                                              *)
(***************************************************************************)
EXTENDS TransactionPath, Sums, TLAPS

-----------------------------------------------------------------------------
(* The mempool. *)

\* r holds elements of s, each position of s at most once.
Drawn(r, s) ==
    \E p \in [1..Len(r) -> 1..Len(s)] :
        /\ \A i \in 1..Len(r) : r[i] = s[p[i]]
        /\ \A i, j \in 1..Len(r) : p[i] = p[j] => i = j

Distinct(s) == \A i, j \in 1..Len(s) : s[i] = s[j] => i = j

\* Drawing elements neither adds nor repeats any.
LEMMA DrawnFacts ==
    ASSUME NEW s \in Seq(Txs), NEW r \in Seq(Txs), Drawn(r, s)
    PROVE  Pooled(r) \subseteq Pooled(s) /\ (Distinct(s) => Distinct(r))
  <1>1. PICK p \in [1..Len(r) -> 1..Len(s)] :
            /\ \A i \in 1..Len(r) : r[i] = s[p[i]]
            /\ \A i, j \in 1..Len(r) : p[i] = p[j] => i = j
    BY DEF Drawn
  <1>2. Pooled(r) \subseteq Pooled(s)
    BY <1>1 DEF Pooled
  <1>3. ASSUME Distinct(s), NEW i \in 1..Len(r), NEW j \in 1..Len(r), r[i] = r[j] PROVE i = j
    <2>1. p[i] \in 1..Len(s) /\ p[j] \in 1..Len(s) /\ s[p[i]] = s[p[j]]
      BY <1>1, <1>3
    <2>2. p[i] = p[j]
      BY <1>3, <2>1 DEF Distinct
    <2> QED BY <1>1, <2>2
  <1> QED BY <1>2, <1>3 DEF Distinct

\* sort.SliceStable permutes the list and puts the lowest fee last.
LEMMA SortedFacts ==
    ASSUME NEW s \in Seq(Txs), NEW r \in Sorted(s)
    PROVE  /\ r \in Seq(Txs) /\ Len(r) = Len(s) /\ Drawn(r, s)
           /\ \A i \in 1..Len(s) : Fee[r[i]] >= Fee[Lowest(r)]
  <1>1. PICK p \in StableOrder(s) : r = Arrange(s, p)
    BY DEF Sorted
  <1>2. p \in [1..Len(s) -> 1..Len(s)] /\ Len(s) \in Nat
    BY <1>1 DEF StableOrder
  <1>3. \A i, j \in 1..Len(s) : i < j =>
            \/ Fee[s[p[i]]] > Fee[s[p[j]]]
            \/ Fee[s[p[i]]] = Fee[s[p[j]]] /\ p[i] < p[j]
    BY <1>1 DEF StableOrder
  <1>4. \A i \in 1..Len(s) : s[p[i]] \in Txs /\ Fee[s[p[i]]] \in Nat
    <2>1. \A k \in 1..Len(s) : s[k] \in Txs
      OBVIOUS
    <2>2. \A t \in Txs : Fee[t] \in Nat
      BY MempoolAssumption
    <2>3. \A i \in 1..Len(s) : p[i] \in 1..Len(s)
      BY <1>2
    <2> QED BY <2>1, <2>2, <2>3
  <1>5. r \in Seq(Txs) /\ Len(r) = Len(s) /\ \A i \in 1..Len(s) : r[i] = s[p[i]]
    <2>1. r = [i \in 1..Len(s) |-> s[p[i]]]
      BY <1>1 DEF Arrange
    <2>2. r \in [1..Len(s) -> Txs]
      BY <1>4, <2>1
    <2> QED BY <1>2, <2>1, <2>2
  <1>6. \A i, j \in 1..Len(s) : i < j => p[i] # p[j]
    BY <1>2, <1>3, <1>4
  <1>7. \A i, j \in 1..Len(s) : p[i] = p[j] => i = j
    BY <1>2, <1>6
  <1>8. Drawn(r, s)
    BY <1>2, <1>5, <1>7 DEF Drawn
  <1>9. ASSUME NEW i \in 1..Len(s) PROVE Fee[r[i]] >= Fee[Lowest(r)]
    <2>1. Len(s) \in 1..Len(s) /\ i \in Nat /\ i <= Len(s)
      BY <1>2
    <2>2. CASE i = Len(s)
      BY <1>4, <1>5, <2>1, <2>2 DEF Lowest
    <2>3. CASE i < Len(s)
      BY <1>3, <1>4, <1>5, <2>1, <2>3 DEF Lowest
    <2> QED BY <1>2, <2>1, <2>2, <2>3
  <1> QED BY <1>5, <1>8, <1>9

\* r holds elements of s at positions of S, each at most once.
Taken(r, s, S) ==
    \E p \in [1..Len(r) -> S] :
        /\ \A i \in 1..Len(r) : r[i] = s[p[i]]
        /\ \A i, j \in 1..Len(r) : p[i] = p[j] => i = j

\* What Select takes from a sequence.
LEMMA SelectFacts ==
    ASSUME NEW s \in Seq(Txs), NEW S \in SUBSET (1..Len(s)), NEW r \in Select(s, S)
    PROVE  r \in Seq(Txs) /\ Taken(r, s, S)
  <1>1. PICK p \in Increasing(S) : r = [i \in 1..Cardinality(S) |-> s[p[i]]]
    BY DEF Select
  <1>2. IsFiniteSet(1..Len(s))
    BY FS_Interval
  <1>3. Cardinality(S) \in Nat
    BY <1>2, FS_Subset, FS_CardinalityType
  <1>4. /\ p \in [1..Cardinality(S) -> S]
        /\ \A i, j \in 1..Cardinality(S) : i < j => p[i] < p[j]
    BY <1>1 DEF Increasing
  <1>5. \A i \in 1..Cardinality(S) : p[i] \in S /\ p[i] \in 1..Len(s) /\ s[p[i]] \in Txs
    <2>1. \A k \in 1..Len(s) : s[k] \in Txs
      OBVIOUS
    <2>2. \A i \in 1..Cardinality(S) : p[i] \in S
      BY <1>4
    <2> QED BY <2>1, <2>2
  <1>6. r \in Seq(Txs) /\ Len(r) = Cardinality(S)
    <2>1. r \in [1..Cardinality(S) -> Txs]
      BY <1>1, <1>5
    <2> QED BY <1>3, <2>1
  <1>7. \A i, j \in 1..Cardinality(S) : i < j => p[i] # p[j]
    BY <1>4, <1>5
  <1>8. \A i, j \in 1..Cardinality(S) : p[i] = p[j] => i = j
    BY <1>3, <1>7
  <1>9. p \in [1..Len(r) -> S] /\ \A i, j \in 1..Len(r) : p[i] = p[j] => i = j
    BY <1>4, <1>6, <1>8
  <1>10. \A i \in 1..Len(r) : r[i] = s[p[i]]
    BY <1>1, <1>6
  <1>11. Taken(r, s, S)
    BY <1>9, <1>10 DEF Taken
  <1> QED BY <1>6, <1>11

\* Something was refused only because the list was full, and it still is.
FullWhenRefused == refused # {} => Len(txs) >= MaxSize

MempoolInv == PoolTypeOK /\ NoDuplicates /\ RicherStay /\ FullWhenRefused

\* The list s, with the transaction t appended if it was not there.
LEMMA AppendDistinct ==
    ASSUME NEW s \in Seq(Txs), NEW t \in Txs, Distinct(s), t \notin Pooled(s)
    PROVE  /\ Append(s, t) \in Seq(Txs) /\ Len(Append(s, t)) = Len(s) + 1
           /\ Distinct(Append(s, t)) /\ Pooled(Append(s, t)) \subseteq Pooled(s) \cup {t}
  <1>1. /\ Append(s, t) \in Seq(Txs) /\ Len(Append(s, t)) = Len(s) + 1 /\ Len(s) \in Nat
        /\ \A i \in 1..Len(s) : Append(s, t)[i] = s[i]
        /\ Append(s, t)[Len(s) + 1] = t
    OBVIOUS
  <1>2. \A i \in 1..Len(s) : s[i] # t
    BY DEF Pooled
  <1>3. Distinct(Append(s, t))
    BY <1>1, <1>2 DEF Distinct
  <1>4. Pooled(Append(s, t)) \subseteq Pooled(s) \cup {t}
    BY <1>1 DEF Pooled
  <1> QED BY <1>1, <1>3, <1>4

\* AddTransaction below capacity.
LEMMA AddKeeps ==
    ASSUME MempoolInv, NEW t \in Txs, AddTransaction(t)
    PROVE  MempoolInv' /\ Pooled(txs') \subseteq Pooled(txs) \cup {t}
  <1>1. txs \in Seq(Txs) /\ refused \subseteq Txs /\ Distinct(txs) /\ t \notin Pooled(txs)
    BY DEF MempoolInv, PoolTypeOK, NoDuplicates, Distinct, AddTransaction
  <1>2. Len(txs) < MaxSize /\ txs' \in Sorted(Append(txs, t)) /\ refused' = refused
    BY DEF AddTransaction
  <1>3. /\ Append(txs, t) \in Seq(Txs) /\ Distinct(Append(txs, t))
        /\ Pooled(Append(txs, t)) \subseteq Pooled(txs) \cup {t}
    BY <1>1, AppendDistinct
  <1>4. txs' \in Seq(Txs) /\ Drawn(txs', Append(txs, t))
    BY <1>2, <1>3, SortedFacts
  <1>5. Pooled(txs') \subseteq Pooled(Append(txs, t)) /\ Distinct(txs')
    BY <1>3, <1>4, DrawnFacts
  <1>6. refused = {}
    <2>1. Len(txs) \in Nat /\ MaxSize \in Nat
      BY <1>1, MempoolAssumption
    <2> QED BY <1>2, <2>1 DEF MempoolInv, FullWhenRefused
  <1> QED BY <1>2, <1>3, <1>4, <1>5, <1>6
          DEF MempoolInv, PoolTypeOK, NoDuplicates, Distinct, RicherStay, FullWhenRefused

\* AddTransaction at capacity: the transaction that pays least makes room.
LEMMA ReplaceKeeps ==
    ASSUME MempoolInv, NEW t \in Txs, ReplaceLowest(t)
    PROVE  MempoolInv' /\ Pooled(txs') \subseteq Pooled(txs) \cup {t}
  <1>1. /\ txs \in Seq(Txs) /\ refused \subseteq Txs /\ Distinct(txs) /\ t \notin Pooled(txs)
        /\ Len(txs) >= MaxSize
    BY DEF MempoolInv, PoolTypeOK, NoDuplicates, Distinct, ReplaceLowest
  <1>2. PICK s \in Sorted(txs) : /\ Fee[t] > Fee[Lowest(s)]
                                 /\ txs' \in Sorted(Append(AllButLowest(s), t))
                                 /\ refused' = refused \cup {Lowest(s)}
    BY DEF ReplaceLowest
  <1>3. /\ s \in Seq(Txs) /\ Len(s) = Len(txs) /\ Drawn(s, txs)
        /\ \A i \in 1..Len(txs) : Fee[s[i]] >= Fee[Lowest(s)]
    BY <1>1, SortedFacts
  <1>4. Pooled(s) \subseteq Pooled(txs) /\ Distinct(s)
    BY <1>1, <1>3, DrawnFacts
  <1>5. Len(txs) \in Nat /\ Len(txs) > 0 /\ MaxSize \in Nat
    BY <1>1, MempoolAssumption
  <1> DEFINE a == AllButLowest(s)
  <1>6. /\ a \in Seq(Txs) /\ Len(a) = Len(txs) - 1 /\ \A i \in 1..Len(a) : a[i] = s[i]
    BY <1>3, <1>5 DEF AllButLowest
  <1>7. Distinct(a) /\ Pooled(a) \subseteq Pooled(s)
    BY <1>3, <1>4, <1>5, <1>6 DEF Distinct, Pooled
  <1> HIDE DEF a
  <1>8. /\ Append(a, t) \in Seq(Txs) /\ Distinct(Append(a, t)) /\ Len(Append(a, t)) = Len(a) + 1
        /\ Pooled(Append(a, t)) \subseteq Pooled(a) \cup {t}
    BY <1>1, <1>4, <1>6, <1>7, AppendDistinct
  <1>9. txs' \in Seq(Txs) /\ Drawn(txs', Append(a, t)) /\ Len(txs') = Len(Append(a, t))
    BY <1>2, <1>8, SortedFacts DEF a
  <1>10. Pooled(txs') \subseteq Pooled(Append(a, t)) /\ Distinct(txs')
    BY <1>8, <1>9, DrawnFacts
  <1>11. Len(txs') >= MaxSize
    BY <1>1, <1>5, <1>6, <1>8, <1>9
  <1>12. Lowest(s) \in Txs /\ Lowest(s) \in Pooled(txs)
    <2>1. Lowest(s) \in Txs /\ Lowest(s) \in Pooled(s)
      BY <1>3, <1>5 DEF Lowest, Pooled
    <2> QED BY <1>4, <2>1
  <1>13. \A u \in Txs : Fee[u] \in Nat
    BY MempoolAssumption
  <1>14. ASSUME NEW u \in Pooled(txs') PROVE u \in Txs /\ Fee[u] >= Fee[Lowest(s)]
    <2>1. u = t \/ u \in Pooled(s)
      BY <1>7, <1>8, <1>10
    <2>2. CASE u = t
      BY <1>2, <1>12, <1>13, <2>2
    <2>3. CASE u \in Pooled(s)
      <3>1. PICK i \in 1..Len(txs) : u = s[i]
        BY <1>3, <2>3 DEF Pooled
      <3> QED BY <1>3, <1>5, <3>1
    <2> QED BY <2>1, <2>2, <2>3
  <1>15. ASSUME NEW r \in refused, NEW u \in Pooled(txs') PROVE Fee[r] <= Fee[u]
    <2>1. PICK j \in 1..Len(txs) : Lowest(s) = txs[j]
      BY <1>12 DEF Pooled
    <2>2. Fee[r] <= Fee[Lowest(s)] /\ r \in Txs
      BY <1>1, <2>1 DEF MempoolInv, RicherStay
    <2> QED BY <1>12, <1>13, <1>14, <2>2
  <1>16. RicherStay'
    <2> SUFFICES ASSUME NEW r \in refused', NEW i \in 1..Len(txs') PROVE Fee[r] <= Fee[txs'[i]]
      BY DEF RicherStay
    <2>1. txs'[i] \in Pooled(txs')
      BY DEF Pooled
    <2>2. CASE r = Lowest(s)
      BY <1>12, <1>13, <1>14, <2>1, <2>2
    <2>3. CASE r \in refused
      BY <1>15, <2>1, <2>3
    <2> QED BY <1>2, <2>2, <2>3
  <1>17. Pooled(txs') \subseteq Pooled(txs) \cup {t}
    BY <1>4, <1>7, <1>8, <1>10
  <1> QED BY <1>1, <1>2, <1>9, <1>10, <1>11, <1>12, <1>16, <1>17
          DEF MempoolInv, PoolTypeOK, NoDuplicates, Distinct, FullWhenRefused

\* AddTransaction at capacity: the new transaction pays too little.
LEMMA RefuseKeeps ==
    ASSUME MempoolInv, NEW t \in Txs, RefuseTransaction(t)
    PROVE  MempoolInv' /\ Pooled(txs') \subseteq Pooled(txs)
  <1>1. /\ txs \in Seq(Txs) /\ refused \subseteq Txs /\ Distinct(txs) /\ Len(txs) >= MaxSize
    BY DEF MempoolInv, PoolTypeOK, NoDuplicates, Distinct, RefuseTransaction
  <1>2. /\ txs' \in Sorted(txs) /\ Fee[t] <= Fee[Lowest(txs')] /\ refused' = refused \cup {t}
    BY DEF RefuseTransaction
  <1>3. /\ txs' \in Seq(Txs) /\ Len(txs') = Len(txs) /\ Drawn(txs', txs)
        /\ \A i \in 1..Len(txs) : Fee[txs'[i]] >= Fee[Lowest(txs')]
    BY <1>1, <1>2, SortedFacts
  <1>4. Pooled(txs') \subseteq Pooled(txs) /\ Distinct(txs')
    BY <1>1, <1>3, DrawnFacts
  <1>5. \A u \in Txs : Fee[u] \in Nat
    BY MempoolAssumption
  <1>6. Lowest(txs') \in Txs
    <2>1. Len(txs) \in Nat /\ Len(txs) > 0
      BY <1>1, MempoolAssumption
    <2> QED BY <1>3, <2>1 DEF Lowest
  <1>7. RicherStay'
    <2> SUFFICES ASSUME NEW r \in refused', NEW i \in 1..Len(txs') PROVE Fee[r] <= Fee[txs'[i]]
      BY DEF RicherStay
    <2>0. txs'[i] \in Txs /\ i \in 1..Len(txs)
      BY <1>3
    <2>1. CASE r = t
      BY <1>2, <1>3, <1>5, <1>6, <2>0, <2>1
    <2>2. CASE r \in refused
      <3>1. txs'[i] \in Pooled(txs)
        BY <1>4 DEF Pooled
      <3>2. PICK j \in 1..Len(txs) : txs'[i] = txs[j]
        BY <3>1 DEF Pooled
      <3> QED BY <2>2, <3>2 DEF MempoolInv, RicherStay
    <2> QED BY <1>2, <2>1, <2>2
  <1> QED BY <1>1, <1>2, <1>3, <1>4, <1>7
          DEF MempoolInv, PoolTypeOK, NoDuplicates, Distinct, FullWhenRefused

\* The removal of a block's transactions.
LEMMA RemoveKeeps ==
    ASSUME MempoolInv, NEW gone, RemoveTransactions(gone)
    PROVE  MempoolInv' /\ Pooled(txs') \subseteq Pooled(txs) \ gone
  <1>1. txs \in Seq(Txs) /\ Distinct(txs)
    BY DEF MempoolInv, PoolTypeOK, NoDuplicates, Distinct
  <1> DEFINE S == {i \in 1..Len(txs) : txs[i] \notin gone}
  <1>2. txs' \in Select(txs, S) /\ refused' = {} /\ S \in SUBSET (1..Len(txs))
    BY DEF RemoveTransactions, Without
  <1> HIDE DEF S
  <1>3. txs' \in Seq(Txs)
    BY <1>1, <1>2, SelectFacts
  <1>4. PICK p \in [1..Len(txs') -> S] : /\ \A i \in 1..Len(txs') : txs'[i] = txs[p[i]]
                                         /\ \A i, j \in 1..Len(txs') : p[i] = p[j] => i = j
    <2>1. Taken(txs', txs, S)
      BY <1>1, <1>2, SelectFacts
    <2> QED BY <2>1 DEF Taken
  <1>5. Drawn(txs', txs)
    <2>1. p \in [1..Len(txs') -> 1..Len(txs)]
      BY <1>2, <1>4
    <2> QED BY <1>4, <2>1 DEF Drawn
  <1>6. Distinct(txs') /\ Pooled(txs') \subseteq Pooled(txs)
    BY <1>1, <1>3, <1>5, DrawnFacts
  <1>7. ASSUME NEW i \in 1..Len(txs') PROVE txs'[i] \notin gone
    BY <1>4 DEF S
  <1> QED BY <1>2, <1>3, <1>6, <1>7
          DEF MempoolInv, PoolTypeOK, NoDuplicates, Distinct, RicherStay, FullWhenRefused, Pooled

\* The merge of a peer's list.
LEMMA SyncKeeps ==
    ASSUME MempoolInv, NEW list \in Lists, SyncWithPeer(list)
    PROVE  MempoolInv' /\ Pooled(txs') \subseteq Pooled(txs) \cup Pooled(list)
  <1>1. txs \in Seq(Txs) /\ Distinct(txs)
    BY DEF MempoolInv, PoolTypeOK, NoDuplicates, Distinct
  <1>2. list \in Seq(Txs)
    <2>1. PICK n \in 1..MaxPeerList : list \in [1..n -> Txs]
      BY DEF Lists
    <2> QED BY <2>1, MempoolAssumption
  <1> DEFINE S == {i \in FirstAt(list) : list[i] \notin Pooled(txs)}
  <1>3. PICK new \in Select(list, S) : txs' = txs \o new
    BY DEF SyncWithPeer, Merge
  <1>4. S \in SUBSET (1..Len(list)) /\ refused' = {}
    BY DEF FirstAt, SyncWithPeer
  <1>s. /\ \A i \in S : i \in 1..Len(list) /\ list[i] \notin Pooled(txs)
        /\ \A i, j \in S : i < j => list[i] # list[j]
    <2>1. \A i \in S : i \in 1..Len(list) /\ list[i] \notin Pooled(txs)
      BY DEF FirstAt
    <2>2. ASSUME NEW i \in S, NEW j \in S, i < j PROVE list[i] # list[j]
      <3>1. i \in 1..(j - 1)
        BY <1>2, <2>1, <2>2
      <3> QED BY <3>1 DEF FirstAt
    <2> QED BY <2>1, <2>2
  <1> HIDE DEF S
  <1>5. new \in Seq(Txs)
    BY <1>2, <1>3, <1>4, SelectFacts
  <1>6. PICK p \in [1..Len(new) -> S] : /\ \A i \in 1..Len(new) : new[i] = list[p[i]]
                                        /\ \A i, j \in 1..Len(new) : p[i] = p[j] => i = j
    <2>1. Taken(new, list, S)
      BY <1>2, <1>3, <1>4, SelectFacts
    <2> QED BY <2>1 DEF Taken
  <1>7. Distinct(new)
    <2> SUFFICES ASSUME NEW i \in 1..Len(new), NEW j \in 1..Len(new), new[i] = new[j]
                 PROVE  p[i] = p[j]
      BY <1>6 DEF Distinct
    <2>1. p[i] \in S /\ p[j] \in S /\ list[p[i]] = list[p[j]]
      BY <1>6
    <2>2. p[i] \in 1..Len(list) /\ p[j] \in 1..Len(list)
      BY <1>s, <2>1
    <2>3. ~(p[i] < p[j]) /\ ~(p[j] < p[i])
      BY <1>s, <2>1
    <2> QED BY <2>2, <2>3
  <1>8. \A i \in 1..Len(new) : new[i] \notin Pooled(txs) /\ new[i] \in Pooled(list)
    <2> TAKE i \in 1..Len(new)
    <2>1. new[i] = list[p[i]] /\ p[i] \in S
      BY <1>6
    <2>2. p[i] \in 1..Len(list) /\ list[p[i]] \notin Pooled(txs)
      BY <1>s, <2>1
    <2> QED BY <2>1, <2>2 DEF Pooled
  <1>9. /\ txs' \in Seq(Txs) /\ Len(txs') = Len(txs) + Len(new)
        /\ Len(txs) \in Nat /\ Len(new) \in Nat
        /\ \A i \in 1..Len(txs') : txs'[i] = IF i <= Len(txs) THEN txs[i] ELSE new[i - Len(txs)]
    BY <1>1, <1>3, <1>5
  <1>10. \A i \in 1..Len(txs') : \/ i \in 1..Len(txs) /\ txs'[i] = txs[i]
                                 \/ i - Len(txs) \in 1..Len(new) /\ txs'[i] = new[i - Len(txs)]
    BY <1>9
  <1>11. Distinct(txs')
    <2> SUFFICES ASSUME NEW i \in 1..Len(txs'), NEW j \in 1..Len(txs'), txs'[i] = txs'[j]
                 PROVE  i = j
      BY DEF Distinct
    <2>0. i \in Int /\ j \in Int
      OBVIOUS
    <2>1. \A k \in 1..Len(txs) : txs[k] \in Pooled(txs)
      BY DEF Pooled
    <2>2. CASE i \in 1..Len(txs) /\ txs'[i] = txs[i]
      <3>1. j \in 1..Len(txs) /\ txs'[j] = txs[j]
        BY <1>8, <1>10, <2>1, <2>2
      <3> QED BY <1>1, <2>2, <3>1 DEF Distinct
    <2>3. CASE i - Len(txs) \in 1..Len(new) /\ txs'[i] = new[i - Len(txs)]
      <3>1. j - Len(txs) \in 1..Len(new) /\ txs'[j] = new[j - Len(txs)]
        BY <1>8, <1>10, <2>1, <2>3
      <3>2. i - Len(txs) = j - Len(txs)
        BY <1>7, <2>3, <3>1 DEF Distinct
      <3> QED BY <1>9, <2>0, <3>2
    <2> QED BY <1>10, <2>2, <2>3
  <1>12. Pooled(txs') \subseteq Pooled(txs) \cup Pooled(list)
    <2> SUFFICES ASSUME NEW i \in 1..Len(txs') PROVE txs'[i] \in Pooled(txs) \cup Pooled(list)
      BY DEF Pooled
    <2> QED BY <1>8, <1>10 DEF Pooled
  <1> QED BY <1>4, <1>9, <1>11, <1>12
          DEF MempoolInv, PoolTypeOK, NoDuplicates, Distinct, RicherStay, FullWhenRefused

-----------------------------------------------------------------------------
(* The inductive invariant. *)

OutputRec == [to : {"self", "other"}, amount : Nat \ {0}]
BodyRec == [method : AllMethods \cup {"none"}, sig : Nat \X Nat,
            inputs : SUBSET Outs, outputs : Seq(OutputRec)]

\* Types, and what is finite so that it has a sum.
PathType ==
    /\ body \in [Txs -> BodyRec]
    /\ \A t \in Txs : /\ Len(body[t].outputs) <= 3 /\ IsFiniteSet(body[t].inputs)
                      /\ body[t].method = "system" => body[t].inputs = {}
    /\ call \in [Txs -> {"none", "draft", "error", "sent"}]
    /\ ended \in [Txs -> {"no", "rejected", "refused", "duplicate"}]
    /\ wire \in SUBSET Txs /\ checked \in SUBSET Txs
    /\ merged \in SUBSET Txs /\ waited \in SUBSET Txs /\ late \in SUBSET Txs
    /\ old \in [Txs -> SUBSET Pools]
    /\ minerPool \in Pools /\ apiPool \in Pools
    /\ minerPool.spent \subseteq minerPool.have /\ apiPool.spent \subseteq apiPool.have
    /\ IsFiniteSet(minerPool.have) /\ IsFiniteSet(apiPool.have)
    /\ chain \in Seq(SUBSET Txs) /\ apiHeight \in 0..Len(chain)
    /\ \A i \in DOMAIN chain : IsFiniteSet(chain[i])

\* An output exists: a coin, or made by a transaction that some call has built.
Made(o) ==
    \/ o \in CoinOuts
    \/ o[1] \in Txs /\ call[o[1]] # "none" /\ o[2] \in DOMAIN body[o[1]].outputs

\* The pools hold outputs that exist, the API node's no more than the miner's,
\* which has those of every block and no others; and every input was in it.
PoolsBehind ==
    /\ \A o \in minerPool.have : Made(o) /\ (o \in CoinOuts \/ o[1] \in Mined)
    /\ apiPool.have \subseteq minerPool.have
    /\ \A t \in Mined : OutsOf(t) \subseteq minerPool.have
    /\ \A t \in Txs : body[t].inputs \subseteq minerPool.have

\* Whatever the miner has of a transaction, its caller was told so.
Sent(t) == t \in wire \cup checked \cup Pooled(txs) \cup Mined \/ ended[t] # "no"
SentReplied ==
    /\ \A t \in Txs : Sent(t) => call[t] = "sent"
    /\ \A t \in Txs : call[t] = "draft" => body[t].method = "raw"

\* The inputs of mined transactions are spent but for those made again; what is
\* pooled spends none of them unless it waited, was merged or admitted late.
SpendInv ==
    /\ \A t \in Mined : body[t].inputs \subseteq minerPool.spent \cup Remade
    /\ \A u \in Pooled(txs) :
         u \in waited \cup merged \cup late
            \/ \A t \in Mined : body[t].inputs \cap body[u].inputs \subseteq Remade

\* The calls that select their inputs and know their change; those that write them.
Covered == {"raw", "fields", "key", "shell"}
Unchecked == {"manual", "client", "system"}

-----------------------------------------------------------------------------
(* Outputs and their value. *)

\* An output that exists has an owner and an amount.
LEMMA OutputTyped ==
    ASSUME PathType, NEW o, Made(o)
    PROVE  Output(o) \in OutputRec /\ Output(o).amount \in Nat \ {0}
  <1>1. CASE o \in CoinOuts
    <2>1. PICK k \in DOMAIN Coins : o = <<"coin", k>>
      BY <1>1 DEF CoinOuts
    <2>2. Coins[k] \in Nat \ {0}
      BY PathAssumption
    <2>3. Output(o) = [to |-> "self", amount |-> Coins[k]]
      BY <2>1 DEF Output
    <2> QED BY <2>2, <2>3 DEF OutputRec
  <1>2. CASE o[1] \in Txs /\ call[o[1]] # "none" /\ o[2] \in DOMAIN body[o[1]].outputs
    <2>1. o[1] # "coin"
      BY <1>2, PathAssumption
    <2>2. Output(o) = body[o[1]].outputs[o[2]]
      BY <2>1 DEF Output
    <2>3. body[o[1]].outputs \in Seq(OutputRec)
      BY <1>2 DEF PathType, BodyRec
    <2>4. Output(o) \in OutputRec
      BY <1>2, <2>2, <2>3
    <2> QED BY <2>4 DEF OutputRec
  <1> QED BY <1>1, <1>2 DEF Made

\* The value of existing outputs is a number.
LEMMA ValueTyped ==
    ASSUME PathType, NEW S, IsFiniteSet(S), \A o \in S : Made(o)
    PROVE  Value(S) \in Int
  <1>1. \A o \in S : Output(o).amount \in Int
    BY OutputTyped
  <1> DEFINE f == [o \in S |-> Output(o).amount]
  <1>2. f \in [S -> Int]
    BY <1>1
  <1> HIDE DEF f
  <1>3. SumFunction(f) \in Int
    BY <1>2, SumFacts
  <1> QED BY <1>3 DEF Value, f

\* A step that keeps the outputs of S keeps its value.
LEMMA ValueSame ==
    ASSUME NEW S, \A o \in S : Output(o)' = Output(o)
    PROVE  Value(S)' = Value(S)
  <1>1. [o \in S |-> Output(o)'.amount] = [o \in S |-> Output(o).amount]
    OBVIOUS
  <1>2. Value(S)' = SumFunction([o \in S |-> Output(o)'.amount])
    BY DEF Value
  <1> QED BY <1>1, <1>2 DEF Value

\* The inputs of b suffice, and its outputs are the payment and what is left.
Covers(t, b) ==
    /\ b.outputs = <<Pay(t)>> \o ChangeOutput(Value(b.inputs) - (Amount[t] + Fee[t]))
    /\ Value(b.inputs) >= Amount[t] + Fee[t]

\* What the calls build: typed, of the API node's unspent outputs.
LEMMA BuiltFacts ==
    ASSUME PathType, PoolsBehind, NEW t \in Txs, NEW method \in Calls,
           NEW b \in Built(t, method)
    PROVE  /\ b \in BodyRec /\ b.method = method /\ Len(b.outputs) <= 3
           /\ IsFiniteSet(b.inputs) /\ b.inputs \subseteq apiPool.have
           /\ method = "rpc" => b.inputs = {}
           /\ method \in Covered => Covers(t, b)
  <1>0. /\ Amount[t] \in Nat \ {0} /\ Fee[t] \in Nat
        /\ SigLengths \subseteq Nat \X Nat
    BY PathAssumption, MempoolAssumption
  <1>1. PICK sig \in SigLengths,
             S \in IF method = "rpc" THEN {{}} ELSE SelectUTXOs(apiPool, Needed(t, method)) :
             b = [method |-> method, sig |-> sig, inputs |-> S,
                  outputs |-> Outputs(t, method, Value(S) - Needed(t, method))]
    BY DEF Built
  <1>2. /\ method = "rpc" => S = {}
        /\ method # "rpc" => /\ S \subseteq apiPool.have
                             /\ Value(S) >= Needed(t, method)
    BY DEF SelectUTXOs
  <1>3. S \subseteq apiPool.have
    BY <1>2
  <1>4. IsFiniteSet(S)
    BY <1>3, FS_Subset DEF PathType
  <1>5. S \subseteq Outs /\ \A o \in S : Made(o)
    BY <1>3 DEF PathType, PoolsBehind, Pools
  <1>6. Value(S) \in Int
    BY <1>4, <1>5, ValueTyped
  <1>7. Needed(t, method) \in Nat
    BY <1>0 DEF Needed
  <1> DEFINE change == Value(S) - Needed(t, method)
  <1>8. change \in Int
    BY <1>6, <1>7
  <1> HIDE DEF change
  <1>9. ChangeOutput(change) \in Seq(OutputRec) /\ Len(ChangeOutput(change)) <= 1
    <2>1. CASE change > 0
      <3>1. [to |-> "self", amount |-> change] \in OutputRec
        BY <1>8, <2>1 DEF OutputRec
      <3> QED BY <2>1, <3>1 DEF ChangeOutput
    <2>2. CASE ~(change > 0)
      BY <2>2 DEF ChangeOutput
    <2> QED BY <2>1, <2>2
  <1>10. Pay(t) \in OutputRec /\ [to |-> "self", amount |-> Amount[t]] \in OutputRec
    BY <1>0 DEF Pay, OutputRec
  <1>11. Outputs(t, method, change) \in Seq(OutputRec) /\ Len(Outputs(t, method, change)) <= 3
    <2> DEFINE c == ChangeOutput(change)
    <2>1. c \in Seq(OutputRec) /\ Len(c) <= 1 /\ Len(c) \in Nat
      BY <1>9
    <2> HIDE DEF c
    <2>2. <<Pay(t)>> \in Seq(OutputRec) /\ Len(<<Pay(t)>>) = 1
      BY <1>10
    <2>3. /\ <<[to |-> "self", amount |-> Amount[t]]>> \in Seq(OutputRec)
          /\ Len(<<[to |-> "self", amount |-> Amount[t]]>>) = 1
      BY <1>10
    <2>4. CASE method = "manual"
      <3>1. Outputs(t, method, change) = c \o <<Pay(t)>> \o c
        BY <2>4 DEF Outputs, c
      <3>2. /\ c \o <<Pay(t)>> \in Seq(OutputRec) /\ Len(c \o <<Pay(t)>>) = Len(c) + 1
        BY <2>1, <2>2
      <3> QED BY <2>1, <3>1, <3>2
    <2>5. CASE method = "stake"
      <3>1. Outputs(t, method, change) = <<[to |-> "self", amount |-> Amount[t]]>> \o c
        BY <2>5 DEF Outputs, c
      <3> QED BY <2>1, <2>3, <3>1
    <2>6. CASE method = "rpc"
      BY <2>2, <2>6 DEF Outputs
    <2>7. CASE method \notin {"manual", "stake", "rpc"}
      <3>1. Outputs(t, method, change) = <<Pay(t)>> \o c
        BY <2>7 DEF Outputs, c
      <3> QED BY <2>1, <2>2, <3>1
    <2> QED BY <2>4, <2>5, <2>6, <2>7
  <1>12. sig \in Nat \X Nat
    BY <1>0
  <1>13. /\ b.method = method /\ b.inputs = S /\ b.outputs = Outputs(t, method, change)
         /\ b = [method |-> method, sig |-> sig, inputs |-> S,
                 outputs |-> Outputs(t, method, change)]
    BY <1>1 DEF change
  <1>14. b \in BodyRec
    BY <1>5, <1>11, <1>12, <1>13 DEF BodyRec, AllMethods
  <1>15. ASSUME method \in Covered
         PROVE  /\ b.outputs = <<Pay(t)>> \o ChangeOutput(Value(b.inputs) - (Amount[t] + Fee[t]))
                /\ Value(b.inputs) >= Amount[t] + Fee[t]
    <2>1. method \notin {"manual", "stake", "rpc"}
      BY <1>15 DEF Covered
    <2>2. Needed(t, method) = Amount[t] + Fee[t]
      BY <2>1 DEF Needed
    <2>3. Outputs(t, method, change) = <<Pay(t)>> \o ChangeOutput(change)
      BY <2>1 DEF Outputs
    <2> QED BY <1>2, <1>13, <2>1, <2>2, <2>3 DEF change
  <1>16. method \in Covered => Covers(t, b)
    BY <1>15 DEF Covers
  <1> QED BY <1>2, <1>3, <1>4, <1>11, <1>13, <1>14, <1>16

\* What a client writes, and what the calls build: typed, of outputs that exist.
Writes(t, method, b) ==
    \/ method \in Calls /\ b \in Built(t, method)
    \/ method \in {"client", "system"} /\ b \in ClientMade(t, method)

\* The facts about both.
LEMMA WrittenFacts ==
    ASSUME PathType, PoolsBehind, NEW t \in Txs, NEW method, NEW b, Writes(t, method, b)
    PROVE  /\ method \in AllMethods
           /\ b \in BodyRec /\ b.method = method /\ Len(b.outputs) <= 3
           /\ IsFiniteSet(b.inputs) /\ b.inputs \subseteq minerPool.have
           /\ method \in {"rpc", "system"} => b.inputs = {}
           /\ method \in Covered => Covers(t, b)
  <1>1. CASE method \in Calls /\ b \in Built(t, method)
    <2>1. /\ b \in BodyRec /\ b.method = method /\ Len(b.outputs) <= 3
          /\ IsFiniteSet(b.inputs) /\ b.inputs \subseteq apiPool.have
          /\ method = "rpc" => b.inputs = {}
          /\ method \in Covered => Covers(t, b)
      BY <1>1, BuiltFacts
    <2>2. method # "system" /\ method \in AllMethods
      BY <1>1 DEF Calls, AllMethods
    <2> QED BY <2>1, <2>2 DEF PoolsBehind
  <1>2. CASE method \in {"client", "system"} /\ b \in ClientMade(t, method)
    <2>1. /\ b \in [method : {method}, sig : SigLengths, outputs : ClientOutputs,
                      inputs : IF method = "system" THEN {{}} ELSE SUBSET minerPool.have]
      BY <1>2 DEF ClientMade
    <2>2. /\ b.method = method /\ b.sig \in SigLengths /\ b.outputs \in ClientOutputs
          /\ b.inputs \subseteq minerPool.have /\ (method = "system" => b.inputs = {})
          /\ b = [method |-> b.method, sig |-> b.sig, outputs |-> b.outputs, inputs |-> b.inputs]
      BY <2>1
    <2>3. b.sig \in Nat \X Nat /\ b.outputs \in Seq(OutputRec) /\ Len(b.outputs) <= 3
      BY <2>2, PathAssumption DEF OutputRec
    <2>4. IsFiniteSet(b.inputs)
      BY <2>2, FS_Subset DEF PathType
    <2>5. b.inputs \subseteq Outs
      BY <2>2 DEF PathType, Pools
    <2>6. method \in AllMethods /\ method \notin Covered /\ method # "rpc"
      BY <1>2 DEF AllMethods, Covered
    <2>7. b \in BodyRec
      BY <2>2, <2>3, <2>5, <2>6 DEF BodyRec
    <2> QED BY <2>2, <2>3, <2>4, <2>6, <2>7
  <1> QED BY <1>1, <1>2 DEF Writes

-----------------------------------------------------------------------------
(* The steps. *)

\* What every call leaves alone, and what it tells.
Tells(t, r) ==
    /\ call' = [call EXCEPT ![t] = r]
    /\ r \in {"draft", "error", "sent"}
    /\ \/ wire' = wire
       \/ wire' = wire \cup {t} /\ r = "sent"
    /\ UNCHANGED <<poolVars, checked, old, ended, history, ledgers>>

\* A call that builds b.
Builds(t, method, b, r) ==
    /\ call[t] = "none" /\ Writes(t, method, b)
    /\ body' = [body EXCEPT ![t] = b]
    /\ Tells(t, r)
    /\ r = "draft" => method = "raw"
    /\ method = "shell" /\ r = "sent" => MempoolValid(apiPool, t, b)

\* A call that builds nothing.
Resends(t, r) ==
    /\ body' = body
    /\ Tells(t, r)
    /\ r # "draft"
    /\ call[t] = "draft" \/ (call[t] = "none" /\ r = "error")

\* A call's checks and its broadcast, of what it has built or was given.
LEMMA SendShape ==
    ASSUME NEW t \in Txs, NEW b, Send(t, b)
    PROVE  \E r \in {"error", "sent"} :
              /\ call' = [call EXCEPT ![t] = r]
              /\ wire' = wire \/ (wire' = wire \cup {t} /\ r = "sent")
              /\ b.method = "shell" /\ r = "sent" => MempoolValid(apiPool, t, b)
  <1>1. CASE CheckedHere(t, b)
    <2>1. /\ call' = [call EXCEPT ![t] = "sent"] /\ wire' \in {wire, wire \cup {t}}
      BY <1>1 DEF Send, BroadcastTransaction
    <2>2. b.method = "shell" => MempoolValid(apiPool, t, b)
      BY <1>1 DEF CheckedHere
    <2> QED BY <2>1, <2>2
  <1>2. CASE ~CheckedHere(t, b)
    BY <1>2 DEF Send
  <1> QED BY <1>1, <1>2

\* The calls that build or take a transaction and send it.
LEMMA BuildAndSendShape ==
    ASSUME PathType, PoolsBehind, NEW t \in Txs, NEW method, NEW b, Writes(t, method, b),
           call[t] = "none", body' = [body EXCEPT ![t] = b], Send(t, b),
           UNCHANGED <<poolVars, checked, old, ended, history, ledgers>>
    PROVE  \E r : Builds(t, method, b, r)
  <1>1. PICK r \in {"error", "sent"} :
              /\ call' = [call EXCEPT ![t] = r]
              /\ wire' = wire \/ (wire' = wire \cup {t} /\ r = "sent")
              /\ b.method = "shell" /\ r = "sent" => MempoolValid(apiPool, t, b)
    BY SendShape
  <1>2. b.method = method
    BY WrittenFacts
  <1>3. Tells(t, r)
    BY <1>1 DEF Tells
  <1>4. Builds(t, method, b, r)
    BY <1>1, <1>2, <1>3 DEF Builds
  <1> QED BY <1>4

\* Every step, by what it changes.
LEMMA NextShape ==
    ASSUME PathType, PoolsBehind, Next
    PROVE  \/ \E t \in Txs, method \in AllMethods : \E b, r : Builds(t, method, b, r)
           \/ \E t \in Txs : \E r : Resends(t, r)
           \/ \E t \in Txs : ValidateTransaction(t) \/ RejectTransaction(t)
           \/ \E t \in Txs : \E map \in old[t] \cup {minerPool} : ProcessTransaction(t, map)
           \/ \E list \in Lists : SyncMempool(list)
           \/ MineBlock \/ ReceiveBlock
  <1>1. ASSUME NEW t \in Txs, NEW method \in AllMethods, CreateUnsigned(t, method)
        PROVE  \E b, r : Builds(t, method, b, r)
    <2>1. PICK b \in Built(t, method) : body' = [body EXCEPT ![t] = b]
      BY <1>1 DEF CreateUnsigned
    <2>2. Writes(t, method, b)
      BY <1>1 DEF CreateUnsigned, Writes, Calls
    <2>3. Tells(t, "draft") /\ call[t] = "none" /\ method = "raw"
      BY <1>1 DEF CreateUnsigned, Tells
    <2>4. Builds(t, method, b, "draft")
      BY <2>1, <2>2, <2>3 DEF Builds
    <2> QED BY <2>4
  <1>2. ASSUME NEW t \in Txs, NEW method \in AllMethods,
               \/ SendTransaction(t, method) \/ SendTransactionWithKey(t, method)
               \/ handleSendTransaction(t, method)
               \/ ShellSend(t, method) \/ StakeSend(t, method)
        PROVE  \E b, r : Builds(t, method, b, r)
    <2>1. BuildAndSend(t, method) /\ method \in Calls
      BY <1>2 DEF SendTransaction, SendTransactionWithKey, handleSendTransaction, ShellSend, StakeSend, Calls
    <2>2. PICK b \in Built(t, method) : body' = [body EXCEPT ![t] = b] /\ Send(t, b)
      BY <2>1 DEF BuildAndSend
    <2>3. Writes(t, method, b)
      BY <2>1 DEF Writes
    <2> QED BY <2>1, <2>2, <2>3, BuildAndSendShape DEF BuildAndSend
  <1>3. ASSUME NEW t \in Txs, NEW method \in AllMethods, SendFails(t, method)
        PROVE  Resends(t, "error")
    BY <1>3 DEF SendFails, Resends, Tells
  <1>c. ASSUME NEW t \in Txs, NEW method \in AllMethods, SendClientMade(t, method)
        PROVE  \E b, r : Builds(t, method, b, r)
    <2>1. PICK b \in ClientMade(t, method) : body' = [body EXCEPT ![t] = b] /\ Send(t, b)
      BY <1>c DEF SendClientMade
    <2>2. Writes(t, method, b)
      BY <1>c DEF SendClientMade, Writes
    <2> QED BY <1>c, <2>1, <2>2, BuildAndSendShape DEF SendClientMade
  <1>4. ASSUME NEW t \in Txs, SendRaw(t) PROVE \E r : Resends(t, r)
    <2>1. call[t] = "draft" /\ Send(t, body[t]) /\ body' = body
      BY <1>4 DEF SendRaw
    <2>2. PICK r \in {"error", "sent"} :
              /\ call' = [call EXCEPT ![t] = r]
              /\ wire' = wire \/ (wire' = wire \cup {t} /\ r = "sent")
      BY <2>1, SendShape
    <2>3. Tells(t, r)
      BY <1>4, <2>2 DEF SendRaw, Tells
    <2>4. Resends(t, r)
      BY <2>1, <2>2, <2>3 DEF Resends
    <2> QED BY <2>4
  <1>5. CASE \E t \in Txs, method \in AllMethods :
                \/ CreateUnsigned(t, method) \/ SendTransaction(t, method)
                \/ SendTransactionWithKey(t, method) \/ handleSendTransaction(t, method)
                \/ ShellSend(t, method) \/ StakeSend(t, method) \/ SendFails(t, method)
                \/ SendClientMade(t, method)
    <2>1. PICK t \in Txs, method \in AllMethods :
                \/ CreateUnsigned(t, method) \/ SendTransaction(t, method)
                \/ SendTransactionWithKey(t, method) \/ handleSendTransaction(t, method)
                \/ ShellSend(t, method) \/ StakeSend(t, method) \/ SendFails(t, method)
                \/ SendClientMade(t, method)
      BY <1>5
    <2>2. (\E b, r : Builds(t, method, b, r)) \/ Resends(t, "error")
      BY <1>1, <1>2, <1>3, <1>c, <2>1
    <2> QED BY <2>2
  <1>6. CASE \E t \in Txs : SendRaw(t)
    BY <1>4, <1>6
  <1> QED BY <1>5, <1>6 DEF Next, Handle

\* The transactions of the next block are pooled.
LEMMA TopFacts ==
    ASSUME txs \in Seq(Txs), NEW block \in TopOf(txs)
    PROVE  block \subseteq Pooled(txs) /\ IsFiniteSet(block)
  <1>1. PICK s \in Sorted(txs) :
            block = Pooled(SubSeq(s, 1, IF Len(s) > BlockLimit THEN BlockLimit ELSE Len(s)))
    BY DEF TopOf
  <1>2. s \in Seq(Txs) /\ Len(s) \in Nat /\ Drawn(s, txs)
    BY SortedFacts
  <1>3. Pooled(s) \subseteq Pooled(txs)
    BY <1>2, DrawnFacts
  <1> DEFINE n == IF Len(s) > BlockLimit THEN BlockLimit ELSE Len(s)
  <1>4. n \in Nat /\ n <= Len(s)
    BY <1>2, PathAssumption
  <1> HIDE DEF n
  <1>5. block = {SubSeq(s, 1, n)[i] : i \in 1..Len(SubSeq(s, 1, n))}
    BY <1>1 DEF Pooled, n
  <1>6. Len(SubSeq(s, 1, n)) = n /\ \A i \in 1..n : SubSeq(s, 1, n)[i] = s[i] /\ i \in 1..Len(s)
    BY <1>2, <1>4
  <1>7. block = {s[i] : i \in 1..n}
    BY <1>5, <1>6
  <1>8. block \subseteq Pooled(s)
    BY <1>6, <1>7 DEF Pooled
  <1>9. IsFiniteSet(1..n)
    BY <1>4, FS_Interval
  <1> DEFINE f == [i \in 1..n |-> s[i]]
  <1>10. \A x \in block : \E i \in 1..n : x = s[i]
    BY <1>7
  <1>11. f \in [1..n -> block] /\ \A x \in block : \E i \in 1..n : f[i] = x
    BY <1>7, <1>10
  <1>12. f \in Surjection(1..n, block)
    BY <1>11 DEF Surjection
  <1>13. IsFiniteSet(block)
    BY <1>9, <1>12, FS_Surjection
  <1> QED BY <1>3, <1>8, <1>13

\* The outputs that a block makes, and those that it spends.
LEMMA BlockOuts ==
    ASSUME PathType, NEW block \in SUBSET Txs, IsFiniteSet(block)
    PROVE  /\ \A o : o \in Makes(block) <=> \E t \in block : o \in OutsOf(t)
           /\ \A o : o \in Uses(block) <=> \E t \in block : o \in body[t].inputs
           /\ Makes(block) \subseteq Outs /\ IsFiniteSet(Makes(block))
  <1>2. \A t \in block : OutsOf(t) \subseteq Outs /\ IsFiniteSet(OutsOf(t))
    <2> TAKE t \in block
    <2>1. body[t].outputs \in Seq(OutputRec) /\ Len(body[t].outputs) <= 3 /\ Len(body[t].outputs) \in Nat
      BY DEF PathType, BodyRec
    <2>2. DOMAIN body[t].outputs = 1..Len(body[t].outputs)
      BY <2>1
    <2>3. IsFiniteSet({t}) /\ IsFiniteSet(DOMAIN body[t].outputs)
      <3>1. IsFiniteSet({t})
        BY FS_Singleton, Zenon
      <3>2. IsFiniteSet(1..Len(body[t].outputs))
        BY <2>1, FS_Interval
      <3> QED BY <2>2, <3>1, <3>2
    <2>4. IsFiniteSet(OutsOf(t))
      BY <2>3, FS_Product DEF OutsOf
    <2>5. DOMAIN body[t].outputs \subseteq 1..3
      BY <2>1, <2>2
    <2> QED BY <2>4, <2>5 DEF OutsOf, Outs
  <1>3. \A o : o \in Makes(block) <=> \E t \in block : o \in OutsOf(t)
    BY Zenon DEF Makes
  <1>4. \A o : o \in Uses(block) <=> \E t \in block : o \in body[t].inputs
    BY Zenon DEF Uses
  <1>5. IsFiniteSet(Makes(block))
    <2>1. IsFiniteSet({OutsOf(t) : t \in block})
      <3> DEFINE T == {OutsOf(t) : t \in block}
                 f == [t \in block |-> OutsOf(t)]
      <3>1. f \in [block -> T] /\ \A x \in T : \E t \in block : f[t] = x
        BY Zenon
      <3>2. f \in Surjection(block, T)
        BY <3>1 DEF Surjection
      <3> QED BY <3>2, FS_Surjection
    <2>2. \A T \in {OutsOf(t) : t \in block} : IsFiniteSet(T)
      BY <1>2
    <2> QED BY <2>1, <2>2, FS_UNION DEF Makes
  <1>7. Makes(block) \subseteq Outs
    BY <1>2, <1>3
  <1> QED BY <1>3, <1>4, <1>5, <1>7

\* What a block does to a pool.
LEMMA ApplyFacts ==
    ASSUME PathType, NEW pool \in Pools, pool.spent \subseteq pool.have, IsFiniteSet(pool.have),
           NEW block \in SUBSET Txs, IsFiniteSet(block), NEW kept \in Kept(block)
    PROVE  LET new == Apply(pool, block, kept) IN
           /\ new \in Pools /\ IsFiniteSet(new.have) /\ new.spent \subseteq new.have
           /\ pool.have \subseteq new.have
           /\ \A o \in new.have : o \in pool.have \/ o \in Makes(block)
           /\ Makes(block) \subseteq new.have
           /\ new.spent \subseteq pool.spent \cup Uses(block)
           /\ pool.spent \cup (pool.have \cap Uses(block)) \subseteq new.spent \cup Makes(block)
  <1>1. /\ Makes(block) \subseteq Outs /\ IsFiniteSet(Makes(block))
    BY BlockOuts
  <1>2. kept \subseteq Makes(block) /\ kept \subseteq Uses(block)
    BY DEF Kept
  <1> DEFINE new == Apply(pool, block, kept)
  <1>3. new = [have  |-> pool.have \cup Makes(block),
               spent |-> ((pool.spent \cup (pool.have \cap Uses(block))) \ Makes(block)) \cup kept]
    BY DEF Apply
  <1> HIDE DEF new
  <1>4. /\ new.have = pool.have \cup Makes(block)
        /\ new.spent = ((pool.spent \cup (pool.have \cap Uses(block))) \ Makes(block)) \cup kept
    BY <1>3
  <1>5. pool.have \subseteq Outs /\ pool.spent \subseteq Outs
    BY DEF Pools
  <1>6. IsFiniteSet(new.have)
    BY <1>1, <1>4, FS_Union
  <1>7. new.have \subseteq Outs /\ new.spent \subseteq new.have
    BY <1>1, <1>2, <1>4, <1>5
  <1>8. new \in Pools
    <2>1. new.spent \subseteq Outs
      BY <1>7
    <2> QED BY <1>3, <1>4, <1>7, <2>1 DEF Pools
  <1>9. /\ pool.have \subseteq new.have /\ Makes(block) \subseteq new.have
        /\ \A o \in new.have : o \in pool.have \/ o \in Makes(block)
    BY <1>4
  <1>10. /\ new.spent \subseteq pool.spent \cup Uses(block)
         /\ pool.spent \cup (pool.have \cap Uses(block)) \subseteq new.spent \cup Makes(block)
    BY <1>2, <1>4
  <1> QED BY <1>6, <1>7, <1>8, <1>9, <1>10 DEF new

-----------------------------------------------------------------------------
(* Types, the pools and the replies. *)

CoreInv == MempoolInv /\ PathType /\ PoolsBehind /\ SentReplied

\* A step keeps what the calls have built.
Steady == \A t \in Txs : call[t] # "none" => body'[t] = body[t] /\ call'[t] # "none"

\* What is mined is in a block.
LEMMA MinedFacts ==
    \A t : t \in Mined <=> \E i \in DOMAIN chain : t \in chain[i]
  BY Zenon DEF Mined

\* Outputs that exist stay what they are.
LEMMA SteadyOutputs ==
    ASSUME PathType, Steady, NEW o, Made(o)
    PROVE  Made(o)' /\ Output(o)' = Output(o)
  <1>1. CASE o \in CoinOuts
    <2>1. o[1] = "coin"
      BY <1>1 DEF CoinOuts
    <2> QED BY <1>1, <2>1 DEF Made, Output, CoinOuts
  <1>2. CASE o[1] \in Txs /\ call[o[1]] # "none" /\ o[2] \in DOMAIN body[o[1]].outputs
    <2>1. body'[o[1]] = body[o[1]] /\ call'[o[1]] # "none"
      BY <1>2 DEF Steady
    <2> QED BY <1>2, <2>1 DEF Made, Output
  <1> QED BY <1>1, <1>2 DEF Made

\* A call tells of no transaction that the miner has.
LEMMA UntoldUnsent ==
    ASSUME CoreInv, NEW t \in Txs, call[t] \in {"none", "draft"}
    PROVE  /\ t \notin wire /\ t \notin checked /\ t \notin Pooled(txs) /\ t \notin Mined
           /\ ended[t] = "no"
  BY DEF CoreInv, SentReplied, Sent

\* The replies after a call.
LEMMA TellKeeps ==
    ASSUME CoreInv, NEW t \in Txs, call[t] \in {"none", "draft"}, NEW r, Tells(t, r),
           r = "draft" => body'[t].method = "raw",
           \A u \in Txs : u # t => body'[u] = body[u]
    PROVE  SentReplied'
  <1>1. /\ call' = [call EXCEPT ![t] = r] /\ r \in {"draft", "error", "sent"}
        /\ wire' = wire \/ (wire' = wire \cup {t} /\ r = "sent")
        /\ txs' = txs /\ checked' = checked /\ ended' = ended /\ chain' = chain
    BY DEF Tells, poolVars, ledgers
  <1>2. call \in [Txs -> {"none", "draft", "error", "sent"}]
    BY DEF CoreInv, PathType
  <1>3. /\ t \notin wire /\ t \notin checked /\ t \notin Pooled(txs) /\ t \notin Mined
        /\ ended[t] = "no"
    BY UntoldUnsent
  <1>4. \A u \in Txs : u # t => call'[u] = call[u]
    BY <1>1, <1>2
  <1>5. call'[t] = r
    BY <1>1, <1>2
  <1>6. Mined' = Mined /\ Pooled(txs)' = Pooled(txs)
    BY <1>1 DEF Mined, Pooled
  <1>7. ASSUME NEW u \in Txs, Sent(u)' PROVE call'[u] = "sent"
    <2>1. CASE u = t
      BY <1>1, <1>3, <1>5, <1>6, <1>7, <2>1 DEF Sent
    <2>2. CASE u # t
      <3>1. Sent(u)
        BY <1>1, <1>6, <1>7, <2>2 DEF Sent
      <3> QED BY <1>4, <2>2, <3>1 DEF CoreInv, SentReplied
    <2> QED BY <2>1, <2>2
  <1>8. ASSUME NEW u \in Txs, call'[u] = "draft" PROVE body'[u].method = "raw"
    <2>1. CASE u = t
      BY <1>5, <1>8, <2>1
    <2>2. CASE u # t
      BY <1>4, <1>8, <2>2 DEF CoreInv, SentReplied
    <2> QED BY <2>1, <2>2
  <1> QED BY <1>7, <1>8 DEF SentReplied

\* The pools after a step that changes no pool and no chain.
LEMMA PoolsKeep ==
    ASSUME CoreInv, Steady, minerPool' = minerPool, apiPool' = apiPool, chain' = chain,
           \A u \in Txs : body'[u].inputs \subseteq minerPool.have
    PROVE  PoolsBehind'
  <1>2. Mined' = Mined
    BY DEF Mined
  <1>1. \A o \in minerPool.have : Made(o)' /\ (o \in CoinOuts \/ o[1] \in Mined)
    BY SteadyOutputs DEF CoreInv, PoolsBehind
  <1>3. ASSUME NEW t \in Mined PROVE OutsOf(t)' \subseteq minerPool.have
    <2>1. t \in Txs
      BY MinedFacts DEF CoreInv, PathType
    <2>2. call[t] # "none"
      BY <2>1 DEF CoreInv, SentReplied, Sent
    <2>3. body'[t] = body[t]
      BY <2>1, <2>2 DEF Steady
    <2>4. OutsOf(t)' = OutsOf(t)
      BY <2>3 DEF OutsOf
    <2> QED BY <2>4 DEF CoreInv, PoolsBehind
  <1>4. \A o \in minerPool'.have : Made(o)' /\ (o \in CoinOuts \/ o[1] \in Mined')
    BY <1>1, <1>2
  <1>5. \A t \in Mined' : OutsOf(t)' \subseteq minerPool'.have
    BY <1>2, <1>3
  <1>6. CoinOuts' = CoinOuts
    BY DEF CoinOuts
  <1> QED BY <1>4, <1>5, <1>6 DEF CoreInv, PoolsBehind

\* A call that builds a transaction.
LEMMA BuildsCore ==
    ASSUME CoreInv, NEW t \in Txs, NEW method \in AllMethods, NEW b, NEW r, Builds(t, method, b, r)
    PROVE  CoreInv' /\ Steady
  <1>1. /\ call[t] = "none" /\ Writes(t, method, b) /\ body' = [body EXCEPT ![t] = b]
        /\ Tells(t, r) /\ (r = "draft" => method = "raw")
    BY DEF Builds
  <1>2. /\ b \in BodyRec /\ b.method = method /\ Len(b.outputs) <= 3
        /\ IsFiniteSet(b.inputs) /\ b.inputs \subseteq minerPool.have
        /\ (method = "system" => b.inputs = {})
    BY <1>1, WrittenFacts DEF CoreInv
  <1>3. /\ call' = [call EXCEPT ![t] = r] /\ r \in {"draft", "error", "sent"}
        /\ wire' = wire \/ wire' = wire \cup {t}
        /\ txs' = txs /\ refused' = refused /\ checked' = checked /\ ended' = ended
        /\ merged' = merged /\ waited' = waited /\ late' = late /\ old' = old
        /\ minerPool' = minerPool /\ apiPool' = apiPool /\ chain' = chain /\ apiHeight' = apiHeight
    BY <1>1 DEF Tells, poolVars, history, ledgers
  <1>4. /\ body \in [Txs -> BodyRec]
        /\ \A u \in Txs : /\ Len(body[u].outputs) <= 3 /\ IsFiniteSet(body[u].inputs)
                          /\ body[u].method = "system" => body[u].inputs = {}
        /\ call \in [Txs -> {"none", "draft", "error", "sent"}]
    BY DEF CoreInv, PathType
  <1>5. body'[t] = b /\ \A u \in Txs : u # t => body'[u] = body[u]
    BY <1>1, <1>4
  <1>6. Steady
    <2>1. \A u \in Txs : u # t => call'[u] = call[u]
      BY <1>3, <1>4
    <2> QED BY <1>1, <1>5, <2>1 DEF Steady
  <1>7. PathType'
    <2>1. body' \in [Txs -> BodyRec]
      BY <1>1, <1>2, <1>4
    <2>2. \A u \in Txs : /\ Len(body'[u].outputs) <= 3 /\ IsFiniteSet(body'[u].inputs)
                         /\ body'[u].method = "system" => body'[u].inputs = {}
      BY <1>2, <1>4, <1>5
    <2>3. call' \in [Txs -> {"none", "draft", "error", "sent"}]
      BY <1>3, <1>4
    <2>4. wire' \in SUBSET Txs
      BY <1>3 DEF CoreInv, PathType
    <2> QED BY <1>3, <2>1, <2>2, <2>3, <2>4 DEF CoreInv, PathType
  <1>8. PoolsBehind'
    <2>1. \A u \in Txs : body'[u].inputs \subseteq minerPool.have
      BY <1>2, <1>5 DEF CoreInv, PoolsBehind
    <2> QED BY <1>3, <1>6, <2>1, PoolsKeep
  <1>9. SentReplied'
    <2>1. r = "draft" => body'[t].method = "raw"
      BY <1>1, <1>2, <1>5
    <2> QED BY <1>1, <1>5, <2>1, TellKeeps
  <1>10. MempoolInv'
    BY <1>3 DEF CoreInv, MempoolInv, PoolTypeOK, NoDuplicates, RicherStay, FullWhenRefused
  <1> QED BY <1>6, <1>7, <1>8, <1>9, <1>10 DEF CoreInv

\* A call that sends a draft, or fails.
LEMMA ResendsCore ==
    ASSUME CoreInv, NEW t \in Txs, NEW r, Resends(t, r)
    PROVE  CoreInv' /\ Steady
  <1>1. /\ body' = body /\ Tells(t, r) /\ r # "draft" /\ call[t] \in {"none", "draft"}
    BY DEF Resends
  <1>3. /\ call' = [call EXCEPT ![t] = r] /\ r \in {"draft", "error", "sent"}
        /\ wire' = wire \/ wire' = wire \cup {t}
        /\ txs' = txs /\ refused' = refused /\ checked' = checked /\ ended' = ended
        /\ merged' = merged /\ waited' = waited /\ late' = late /\ old' = old
        /\ minerPool' = minerPool /\ apiPool' = apiPool /\ chain' = chain /\ apiHeight' = apiHeight
    BY <1>1 DEF Tells, poolVars, history, ledgers
  <1>4. call \in [Txs -> {"none", "draft", "error", "sent"}]
    BY DEF CoreInv, PathType
  <1>6. Steady
    <2>1. \A u \in Txs : u # t => call'[u] = call[u]
      BY <1>3, <1>4
    <2>2. call'[t] # "none"
      BY <1>3, <1>4
    <2> QED BY <1>1, <2>1, <2>2 DEF Steady
  <1>7. PathType'
    <2>3. call' \in [Txs -> {"none", "draft", "error", "sent"}]
      BY <1>3, <1>4
    <2>4. wire' \in SUBSET Txs
      BY <1>3 DEF CoreInv, PathType
    <2> QED BY <1>1, <1>3, <2>3, <2>4 DEF CoreInv, PathType
  <1>8. PoolsBehind'
    <2>1. \A u \in Txs : body'[u].inputs \subseteq minerPool.have
      BY <1>1 DEF CoreInv, PoolsBehind
    <2> QED BY <1>3, <1>6, <2>1, PoolsKeep
  <1>9. SentReplied'
    BY <1>1, TellKeeps
  <1>10. MempoolInv'
    BY <1>3 DEF CoreInv, MempoolInv, PoolTypeOK, NoDuplicates, RicherStay, FullWhenRefused
  <1> QED BY <1>6, <1>7, <1>8, <1>9, <1>10 DEF CoreInv

\* A step at the miner that leaves calls and ledgers alone: it is enough that what
\* the miner has afterwards it had before, or was told of.
LEMMA HandlingKeeps ==
    ASSUME CoreInv, MempoolInv', body' = body, call' = call, UNCHANGED ledgers,
           wire' \in SUBSET Txs, checked' \in SUBSET Txs, merged' \in SUBSET Txs, waited' = waited,
           late' \in SUBSET Txs, old' \in [Txs -> SUBSET Pools],
           ended' \in [Txs -> {"no", "rejected", "refused", "duplicate"}],
           \A u \in Txs : Sent(u)' => Sent(u) \/ call[u] = "sent"
    PROVE  CoreInv' /\ Steady
  <1>1. minerPool' = minerPool /\ apiPool' = apiPool /\ chain' = chain /\ apiHeight' = apiHeight
    BY DEF ledgers
  <1>2. Steady
    BY DEF Steady
  <1>3. PathType'
    BY <1>1 DEF CoreInv, PathType
  <1>4. PoolsBehind'
    <2>1. \A u \in Txs : body'[u].inputs \subseteq minerPool.have
      BY DEF CoreInv, PoolsBehind
    <2> QED BY <1>1, <1>2, <2>1, PoolsKeep
  <1>5. SentReplied'
    BY DEF CoreInv, SentReplied
  <1> QED BY <1>2, <1>3, <1>4, <1>5 DEF CoreInv

\* validateTransaction passes a stream.
LEMMA ValidateCore ==
    ASSUME CoreInv, NEW t \in Txs, ValidateTransaction(t)
    PROVE  CoreInv' /\ Steady
  <1>1. /\ t \in wire /\ wire' = wire \ {t} /\ checked' = checked \cup {t}
        /\ txs' = txs /\ refused' = refused /\ body' = body /\ call' = call /\ ended' = ended
        /\ merged' = merged /\ waited' = waited /\ late' = late /\ old' = old
        /\ UNCHANGED ledgers
    BY DEF ValidateTransaction, poolVars, history
  <1>2. MempoolInv'
    BY <1>1 DEF CoreInv, MempoolInv, PoolTypeOK, NoDuplicates, RicherStay, FullWhenRefused
  <1>3. \A u \in Txs : Sent(u)' => Sent(u)
    <2>1. Mined' = Mined /\ Pooled(txs)' = Pooled(txs)
      BY <1>1 DEF Mined, Pooled, ledgers
    <2> QED BY <1>1, <2>1 DEF Sent
  <1>4. /\ wire' \in SUBSET Txs /\ checked' \in SUBSET Txs /\ merged' \in SUBSET Txs
        /\ late' \in SUBSET Txs /\ old' \in [Txs -> SUBSET Pools]
    BY <1>1 DEF CoreInv, PathType
  <1>5. ended' \in [Txs -> {"no", "rejected", "refused", "duplicate"}]
    BY <1>1 DEF CoreInv, PathType
  <1> QED BY <1>1, <1>2, <1>3, <1>4, <1>5, HandlingKeeps

\* validateTransaction turns it away.
LEMMA RejectCore ==
    ASSUME CoreInv, NEW t \in Txs, RejectTransaction(t)
    PROVE  CoreInv' /\ Steady
  <1>1. /\ t \in wire /\ wire' = wire \ {t} /\ checked' = checked
        /\ txs' = txs /\ refused' = refused /\ body' = body /\ call' = call
        /\ merged' = merged /\ waited' = waited /\ late' = late /\ old' = old
        /\ UNCHANGED ledgers
    BY DEF RejectTransaction, poolVars, history
  <1>2. PICK how \in {"duplicate", "rejected"} : ended' = [ended EXCEPT ![t] = how]
    BY DEF RejectTransaction, End
  <1>3. MempoolInv'
    BY <1>1 DEF CoreInv, MempoolInv, PoolTypeOK, NoDuplicates, RicherStay, FullWhenRefused
  <1>4. ended \in [Txs -> {"no", "rejected", "refused", "duplicate"}]
    BY DEF CoreInv, PathType
  <1>5. \A u \in Txs : Sent(u)' => Sent(u)
    <2>1. Mined' = Mined /\ Pooled(txs)' = Pooled(txs)
      BY <1>1 DEF Mined, Pooled, ledgers
    <2>2. Sent(t) /\ \A u \in Txs : u # t => ended'[u] = ended[u]
      BY <1>1, <1>2, <1>4 DEF Sent
    <2> QED BY <1>1, <2>1, <2>2 DEF Sent
  <1>6. /\ wire' \in SUBSET Txs /\ checked' \in SUBSET Txs /\ merged' \in SUBSET Txs
        /\ late' \in SUBSET Txs /\ old' \in [Txs -> SUBSET Pools]
    BY <1>1 DEF CoreInv, PathType
  <1>7. ended' \in [Txs -> {"no", "rejected", "refused", "duplicate"}]
    BY <1>2, <1>4
  <1> QED BY <1>1, <1>3, <1>5, <1>6, <1>7, HandlingKeeps

\* Mempool.AddTransaction, whatever comes of it.
LEMMA ProcessCore ==
    ASSUME CoreInv, NEW t \in Txs, NEW map, ProcessTransaction(t, map)
    PROVE  CoreInv' /\ Steady /\ Pooled(txs') \subseteq Pooled(txs) \cup {t}
  <1>1. /\ t \in checked /\ checked' = checked \ {t} /\ wire' = wire
        /\ body' = body /\ call' = call /\ merged' = merged /\ waited' = waited
        /\ UNCHANGED ledgers /\ old' = [old EXCEPT ![t] = {}]
    BY DEF ProcessTransaction, Leaves
  <1>2. \/ AddTransaction(t) \/ ReplaceLowest(t) \/ RefuseTransaction(t)
        \/ txs' = txs /\ refused' = refused
    BY DEF ProcessTransaction, poolVars
  <1>3. \/ ended' = ended
        \/ \E how \in {"refused", "rejected", "duplicate"} : ended' = [ended EXCEPT ![t] = how]
    BY DEF ProcessTransaction, End
  <1>4. MempoolInv' /\ Pooled(txs') \subseteq Pooled(txs) \cup {t}
    <2>1. MempoolInv
      BY DEF CoreInv
    <2>2. CASE AddTransaction(t)
      BY <2>1, <2>2, AddKeeps
    <2>3. CASE ReplaceLowest(t)
      BY <2>1, <2>3, ReplaceKeeps
    <2>4. CASE RefuseTransaction(t)
      BY <2>1, <2>4, RefuseKeeps
    <2>5. CASE txs' = txs /\ refused' = refused
      BY <2>1, <2>5 DEF MempoolInv, PoolTypeOK, NoDuplicates, RicherStay, FullWhenRefused
    <2> QED BY <1>2, <2>2, <2>3, <2>4, <2>5
  <1>5. ended \in [Txs -> {"no", "rejected", "refused", "duplicate"}]
    BY DEF CoreInv, PathType
  <1>6. \A u \in Txs : Sent(u)' => Sent(u)
    <2>1. Mined' = Mined /\ Pooled(txs)' \subseteq Pooled(txs) \cup {t}
      BY <1>1, <1>4 DEF Mined, ledgers, Pooled
    <2>2. Sent(t) /\ \A u \in Txs : u # t => ended'[u] = ended[u]
      BY <1>1, <1>3, <1>5 DEF Sent
    <2> QED BY <1>1, <2>1, <2>2 DEF Sent
  <1>7. /\ wire' \in SUBSET Txs /\ checked' \in SUBSET Txs /\ merged' \in SUBSET Txs
        /\ late' \in SUBSET Txs /\ old' \in [Txs -> SUBSET Pools]
    <2>1. late' = late \/ late' = late \cup {t}
      BY DEF ProcessTransaction
    <2>2. /\ wire \in SUBSET Txs /\ checked \in SUBSET Txs /\ merged \in SUBSET Txs
          /\ late \in SUBSET Txs /\ old \in [Txs -> SUBSET Pools]
      BY DEF CoreInv, PathType
    <2> QED BY <1>1, <2>1, <2>2
  <1>8. ended' \in [Txs -> {"no", "rejected", "refused", "duplicate"}]
    BY <1>3, <1>5
  <1> QED BY <1>1, <1>4, <1>6, <1>7, <1>8, HandlingKeeps

\* The merge of a peer's list at start-up.
LEMMA SyncCore ==
    ASSUME CoreInv, NEW list \in Lists, SyncMempool(list)
    PROVE  CoreInv' /\ Steady /\ Pooled(txs') \subseteq Pooled(txs) \cup Pooled(list)
  <1>1. /\ SyncWithPeer(list) /\ merged' = merged \cup Pooled(list)
        /\ body' = body /\ call' = call /\ wire' = wire /\ checked' = checked
        /\ ended' = ended /\ waited' = waited /\ late' = late /\ old' = old /\ UNCHANGED ledgers
        /\ \A i \in 1..Len(list) : call[list[i]] = "sent"
    BY DEF SyncMempool
  <1>2. MempoolInv' /\ Pooled(txs') \subseteq Pooled(txs) \cup Pooled(list)
    BY <1>1, SyncKeeps DEF CoreInv
  <1>3. \A u \in Pooled(list) : u \in Txs /\ call[u] = "sent"
    <2>1. PICK n \in 1..MaxPeerList : list \in [1..n -> Txs]
      BY DEF Lists
    <2>2. list \in Seq(Txs)
      BY <2>1, MempoolAssumption
    <2> QED BY <1>1, <2>2 DEF Pooled
  <1>4. \A u \in Txs : Sent(u)' => Sent(u) \/ call[u] = "sent"
    <2>1. Mined' = Mined /\ Pooled(txs)' \subseteq Pooled(txs) \cup Pooled(list)
      BY <1>1, <1>2 DEF Mined, ledgers, Pooled
    <2> QED BY <1>1, <1>3, <2>1 DEF Sent
  <1>5. /\ wire' \in SUBSET Txs /\ checked' \in SUBSET Txs /\ merged' \in SUBSET Txs
        /\ late' \in SUBSET Txs /\ old' \in [Txs -> SUBSET Pools]
    BY <1>1, <1>3 DEF CoreInv, PathType
  <1>6. ended' \in [Txs -> {"no", "rejected", "refused", "duplicate"}]
    BY <1>1 DEF CoreInv, PathType
  <1> QED BY <1>1, <1>2, <1>4, <1>5, <1>6, HandlingKeeps

\* What the next block takes and leaves.
MinesBlock(block) ==
    /\ block \in SUBSET Txs /\ IsFiniteSet(block) /\ block \subseteq Pooled(txs)
    /\ chain' = Append(chain, block)
    /\ \E kept \in Kept(block) : minerPool' = Apply(minerPool, block, kept)
    /\ \/ old' = old
       \/ old' = [t \in Txs |-> IF t \in checked THEN old[t] \cup {minerPool} ELSE old[t]]
    /\ late' = late
    /\ Pooled(txs') \subseteq Pooled(txs) \ block
    /\ waited' = waited \cup (Pooled(txs) \ block)
    /\ body' = body /\ call' = call /\ wire' = wire /\ checked' = checked /\ ended' = ended
    /\ merged' = merged /\ apiPool' = apiPool /\ apiHeight' = apiHeight

\* MineBlock in these terms.
LEMMA MineShape ==
    ASSUME CoreInv, MineBlock
    PROVE  MempoolInv' /\ \E block : MinesBlock(block)
  <1>1. PICK block \in TopOf(txs) : \E kept \in Kept(block) :
            /\ chain' = Append(chain, block)
            /\ minerPool' = Apply(minerPool, block, kept)
            /\ old' = IF Makes(block) \subseteq minerPool.have THEN old
                      ELSE [t \in Txs |-> IF t \in checked THEN old[t] \cup {minerPool} ELSE old[t]]
            /\ RemoveTransactions(block)
            /\ waited' = waited \cup (Pooled(txs) \ block)
    BY DEF MineBlock
  <1>2. txs \in Seq(Txs) /\ MempoolInv
    BY DEF CoreInv, MempoolInv, PoolTypeOK
  <1>3. block \subseteq Pooled(txs) /\ IsFiniteSet(block)
    BY <1>2, TopFacts
  <1>4. Pooled(txs) \subseteq Txs
    BY <1>2 DEF Pooled
  <1>5. MempoolInv' /\ Pooled(txs') \subseteq Pooled(txs) \ block
    BY <1>1, <1>2, RemoveKeeps
  <1>6. MinesBlock(block)
    BY <1>1, <1>3, <1>4, <1>5 DEF MinesBlock, MineBlock
  <1> QED BY <1>5, <1>6

\* The chain with one more block.
LEMMA MinedMore ==
    ASSUME CoreInv, NEW block \in SUBSET Txs, chain' = Append(chain, block)
    PROVE  /\ \A t : t \in Mined' <=> (t \in Mined \/ t \in block)
           /\ Len(chain) \in Nat /\ Len(chain') = Len(chain) + 1
           /\ \A i \in DOMAIN chain : i \in 1..Len(chain) /\ chain'[i] = chain[i]
           /\ chain'[Len(chain) + 1] = block /\ DOMAIN chain' = 1..(Len(chain) + 1)
  <1>1. chain \in Seq(SUBSET Txs)
    BY DEF CoreInv, PathType
  <1>2. /\ Len(chain) \in Nat /\ Len(chain') = Len(chain) + 1 /\ DOMAIN chain = 1..Len(chain)
        /\ \A i \in 1..Len(chain) : chain'[i] = chain[i]
        /\ chain'[Len(chain) + 1] = block /\ DOMAIN chain' = 1..(Len(chain) + 1)
    BY <1>1
  <1>3. \A t : t \in Mined' <=> \E i \in DOMAIN chain' : t \in chain'[i]
    BY Zenon DEF Mined
  <1>4. \A i \in 1..(Len(chain) + 1) : i \in 1..Len(chain) \/ i = Len(chain) + 1
    BY <1>2
  <1>5. \A t : t \in Mined' <=> (t \in Mined \/ t \in block)
    BY <1>2, <1>3, <1>4, MinedFacts
  <1> QED BY <1>2, <1>5

\* A block is mined.
LEMMA MineCore ==
    ASSUME CoreInv, MempoolInv', NEW block, MinesBlock(block)
    PROVE  CoreInv' /\ Steady
  <1>1. /\ block \in SUBSET Txs /\ IsFiniteSet(block) /\ block \subseteq Pooled(txs)
        /\ chain' = Append(chain, block)
        /\ Pooled(txs') \subseteq Pooled(txs) /\ waited' = waited \cup (Pooled(txs) \ block)
        /\ body' = body /\ call' = call /\ wire' = wire /\ checked' = checked /\ ended' = ended
        /\ merged' = merged /\ late' = late /\ apiPool' = apiPool /\ apiHeight' = apiHeight
    BY DEF MinesBlock
  <1>k. PICK kept \in Kept(block) : minerPool' = Apply(minerPool, block, kept)
    BY DEF MinesBlock
  <1>2. Steady
    BY <1>1 DEF Steady
  <1>3. /\ \A t : t \in Mined' <=> (t \in Mined \/ t \in block)
        /\ Len(chain) \in Nat /\ Len(chain') = Len(chain) + 1
        /\ \A i \in DOMAIN chain : i \in 1..Len(chain) /\ chain'[i] = chain[i]
        /\ chain'[Len(chain) + 1] = block /\ DOMAIN chain' = 1..(Len(chain) + 1)
    BY <1>1, MinedMore
  <1>4. /\ minerPool \in Pools /\ minerPool.spent \subseteq minerPool.have
        /\ IsFiniteSet(minerPool.have) /\ PathType
    BY DEF CoreInv, PathType
  <1>5. /\ minerPool' \in Pools /\ IsFiniteSet(minerPool'.have)
        /\ minerPool'.spent \subseteq minerPool'.have
        /\ minerPool.have \subseteq minerPool'.have
        /\ \A o \in minerPool'.have : o \in minerPool.have \/ \E t \in block : o \in OutsOf(t)
        /\ \A t \in block : OutsOf(t) \subseteq minerPool'.have
    <2>1. \A o : o \in Makes(block) <=> \E t \in block : o \in OutsOf(t)
      BY <1>1, <1>4, BlockOuts
    <2> QED BY <1>1, <1>k, <1>4, <2>1, ApplyFacts
  <1>6. Pooled(txs) \subseteq Txs
    BY DEF CoreInv, MempoolInv, PoolTypeOK, Pooled
  <1>7. PathType'
    <2>1. chain \in Seq(SUBSET Txs) /\ apiHeight \in 0..Len(chain)
      BY <1>4 DEF PathType
    <2>2. chain' \in Seq(SUBSET Txs) /\ apiHeight' \in 0..Len(chain')
      BY <1>1, <1>3, <2>1
    <2>3. \A i \in DOMAIN chain' : IsFiniteSet(chain'[i])
      <3>1. \A i \in DOMAIN chain : IsFiniteSet(chain[i])
        BY <1>4 DEF PathType
      <3>2. DOMAIN chain = 1..Len(chain)
        BY <2>1
      <3>3. \A i \in DOMAIN chain' : i \in DOMAIN chain \/ i = Len(chain) + 1
        BY <1>3, <3>2
      <3> QED BY <1>1, <1>3, <3>1, <3>3
    <2>4. waited' \in SUBSET Txs
      BY <1>1, <1>4, <1>6 DEF PathType
    <2>5. old' \in [Txs -> SUBSET Pools]
      <3>1. old \in [Txs -> SUBSET Pools]
        BY <1>4 DEF PathType
      <3>2. CASE old' = [t \in Txs |-> IF t \in checked THEN old[t] \cup {minerPool} ELSE old[t]]
        <4>1. \A t \in Txs : old[t] \subseteq Pools /\ old[t] \cup {minerPool} \subseteq Pools
          BY <1>4, <3>1
        <4> QED BY <3>2, <4>1
      <3> QED BY <3>1, <3>2 DEF MinesBlock
    <2> QED BY <1>1, <1>4, <1>5, <2>2, <2>3, <2>4, <2>5 DEF PathType
  <1>8. \A t \in block : call[t] = "sent"
    BY <1>1 DEF CoreInv, SentReplied, Sent
  <1>9. SentReplied'
    <2>1. ASSUME NEW u \in Txs, Sent(u)' PROVE call'[u] = "sent"
      <3>1. u \in wire \cup checked \cup Pooled(txs) \cup Mined \/ ended[u] # "no"
        <4>1. Pooled(txs)' \subseteq Pooled(txs)
          BY <1>1 DEF Pooled
        <4> QED BY <1>1, <1>3, <2>1, <4>1 DEF Sent
      <3> QED BY <1>1, <3>1 DEF CoreInv, SentReplied, Sent
    <2> QED BY <1>1, <2>1 DEF CoreInv, SentReplied
  <1>10. PoolsBehind'
    <2>1. ASSUME NEW o \in minerPool'.have PROVE Made(o)' /\ (o \in CoinOuts \/ o[1] \in Mined')
      <3>1. CASE o \in minerPool.have
        BY <1>2, <1>3, <1>4, <3>1, SteadyOutputs DEF CoreInv, PoolsBehind
      <3>2. ASSUME NEW t \in block, o \in OutsOf(t)
            PROVE  Made(o)' /\ (o \in CoinOuts \/ o[1] \in Mined')
        <4>1. o[1] = t /\ o[2] \in DOMAIN body[t].outputs
          BY <3>2 DEF OutsOf
        <4>2. call[t] # "none" /\ t \in Txs
          BY <1>1, <1>8
        <4>3. Made(o)'
          BY <1>1, <4>1, <4>2 DEF Made
        <4> QED BY <1>3, <4>1, <4>3
      <3> QED BY <1>5, <3>1, <3>2
    <2>2. apiPool'.have \subseteq minerPool'.have
      BY <1>1, <1>5 DEF CoreInv, PoolsBehind
    <2>3. \A t \in Mined' : OutsOf(t)' \subseteq minerPool'.have
      <3>1. \A t : OutsOf(t)' = OutsOf(t)
        BY <1>1 DEF OutsOf
      <3>2. \A t \in Mined : OutsOf(t) \subseteq minerPool.have
        BY DEF CoreInv, PoolsBehind
      <3> QED BY <1>3, <1>5, <3>1, <3>2
    <2>4. \A t \in Txs : body'[t].inputs \subseteq minerPool'.have
      BY <1>1, <1>5 DEF CoreInv, PoolsBehind
    <2>5. CoinOuts' = CoinOuts
      BY DEF CoinOuts
    <2> QED BY <2>1, <2>2, <2>3, <2>4, <2>5 DEF PoolsBehind
  <1> QED BY <1>2, <1>7, <1>9, <1>10 DEF CoreInv

\* The API node applies a block: it comes to know only what the miner has.
LEMMA ReceiveCore ==
    ASSUME CoreInv, ReceiveBlock
    PROVE  CoreInv' /\ Steady
  <1>1. /\ apiHeight < Len(chain)
        /\ apiHeight' = apiHeight + 1 /\ txs' = txs /\ refused' = refused
        /\ body' = body /\ call' = call /\ wire' = wire /\ checked' = checked /\ ended' = ended
        /\ merged' = merged /\ waited' = waited /\ late' = late /\ old' = old
        /\ minerPool' = minerPool /\ chain' = chain
    BY DEF ReceiveBlock, poolVars, pathVars, history
  <1>k. PICK kept \in Kept(chain[apiHeight + 1]) :
            apiPool' = Apply(apiPool, chain[apiHeight + 1], kept)
    BY DEF ReceiveBlock
  <1>2. Steady
    BY <1>1 DEF Steady
  <1>3. MempoolInv'
    BY <1>1 DEF CoreInv, MempoolInv, PoolTypeOK, NoDuplicates, RicherStay, FullWhenRefused
  <1>4. PathType /\ chain \in Seq(SUBSET Txs) /\ apiHeight \in 0..Len(chain) /\ Len(chain) \in Nat
    BY DEF CoreInv, PathType
  <1>5. apiHeight + 1 \in DOMAIN chain /\ apiHeight' \in 0..Len(chain)
    BY <1>1, <1>4
  <1>6. PICK block \in SUBSET Txs : block = chain[apiHeight + 1] /\ IsFiniteSet(block)
    BY <1>4, <1>5 DEF PathType
  <1>7. /\ apiPool \in Pools /\ apiPool.spent \subseteq apiPool.have /\ IsFiniteSet(apiPool.have)
    BY <1>4 DEF PathType
  <1>8. /\ apiPool' \in Pools /\ IsFiniteSet(apiPool'.have)
        /\ apiPool'.spent \subseteq apiPool'.have
        /\ \A o \in apiPool'.have : o \in apiPool.have \/ \E t \in block : o \in OutsOf(t)
    <2>1. \A o : o \in Makes(block) <=> \E t \in block : o \in OutsOf(t)
      BY <1>4, <1>6, BlockOuts
    <2> QED BY <1>k, <1>4, <1>6, <1>7, <2>1, ApplyFacts
  <1>9. PathType'
    BY <1>1, <1>4, <1>5, <1>8 DEF PathType
  <1>10. SentReplied'
    <2>1. Mined' = Mined /\ Pooled(txs)' = Pooled(txs)
      BY <1>1 DEF Mined, Pooled
    <2>2. \A u \in Txs : Sent(u)' => Sent(u)
      BY <1>1, <2>1 DEF Sent
    <2> QED BY <1>1, <2>2 DEF CoreInv, SentReplied
  <1>11. PoolsBehind'
    <2>1. \A t \in block : t \in Mined
      BY <1>5, <1>6, MinedFacts
    <2>2. apiPool'.have \subseteq minerPool.have
      BY <1>8, <2>1 DEF CoreInv, PoolsBehind
    <2>3. \A o \in minerPool.have : Made(o)' /\ (o \in CoinOuts \/ o[1] \in Mined)
      BY <1>2, <1>4, SteadyOutputs DEF CoreInv, PoolsBehind
    <2>4. Mined' = Mined /\ \A t : OutsOf(t)' = OutsOf(t)
      BY <1>1 DEF Mined, OutsOf
    <2>5. /\ \A t \in Mined' : OutsOf(t)' \subseteq minerPool'.have
          /\ \A t \in Txs : body'[t].inputs \subseteq minerPool'.have
          /\ \A o \in minerPool'.have : Made(o)' /\ (o \in CoinOuts \/ o[1] \in Mined')
      BY <1>1, <2>3, <2>4 DEF CoreInv, PoolsBehind
    <2>6. CoinOuts' = CoinOuts
      BY DEF CoinOuts
    <2> QED BY <1>1, <2>2, <2>5, <2>6 DEF PoolsBehind
  <1> QED BY <1>2, <1>3, <1>9, <1>10, <1>11 DEF CoreInv

\* The initial state.
LEMMA InitCore == Init => CoreInv
  <1> SUFFICES ASSUME Init PROVE CoreInv
    OBVIOUS
  <1>1. /\ txs = <<>> /\ refused = {} /\ body = [t \in Txs |-> NoBody]
        /\ call = [t \in Txs |-> "none"] /\ ended = [t \in Txs |-> "no"]
        /\ wire = {} /\ checked = {} /\ merged = {} /\ waited = {} /\ late = {}
        /\ old = [t \in Txs |-> {}]
        /\ minerPool = [have |-> CoinOuts, spent |-> {}]
        /\ apiPool = [have |-> CoinOuts, spent |-> {}]
        /\ chain = <<>> /\ apiHeight = 0
    BY DEF Init, PoolInit
  <1>2. Pooled(txs) = {} /\ Mined = {}
    BY <1>1 DEF Pooled, Mined
  <1>3. MempoolInv
    BY <1>1 DEF MempoolInv, PoolTypeOK, NoDuplicates, RicherStay, FullWhenRefused
  <1>4. IsFiniteSet(CoinOuts) /\ CoinOuts \subseteq Outs
    <2>1. DOMAIN Coins = 1..Len(Coins) /\ Len(Coins) \in Nat
      BY PathAssumption
    <2>2. IsFiniteSet(1..Len(Coins))
      BY <2>1, FS_Interval
    <2>3. IsFiniteSet({"coin"})
      BY FS_Singleton, Zenon
    <2>4. IsFiniteSet({"coin"} \X (1..Len(Coins)))
      BY <2>2, <2>3, FS_Product
    <2> QED BY <2>1, <2>4 DEF CoinOuts, Outs
  <1>5. /\ minerPool.have = CoinOuts /\ apiPool.have = CoinOuts
        /\ minerPool.spent = {} /\ apiPool.spent = {}
        /\ minerPool \in Pools /\ apiPool \in Pools
    BY <1>1, <1>4 DEF Pools
  <1>6. NoBody \in BodyRec /\ Len(NoBody.outputs) = 0 /\ NoBody.inputs = {} /\ IsFiniteSet({})
    <2>1. IsFiniteSet({})
      BY FS_EmptySet
    <2>2. <<>> \in Seq(OutputRec) /\ <<0, 0>> \in Nat \X Nat
      OBVIOUS
    <2> QED BY <2>1, <2>2 DEF NoBody, BodyRec
  <1>7. \A t \in Txs : body[t] = NoBody /\ call[t] = "none" /\ ended[t] = "no"
    BY <1>1
  <1>8. PathType
    <2>1. body \in [Txs -> BodyRec]
      BY <1>1, <1>6
    <2>2. \A t \in Txs : /\ Len(body[t].outputs) <= 3 /\ IsFiniteSet(body[t].inputs)
                         /\ body[t].method = "system" => body[t].inputs = {}
      <3>1. Len(NoBody.outputs) <= 3 /\ IsFiniteSet(NoBody.inputs) /\ NoBody.inputs = {}
        BY <1>6
      <3> QED BY <1>7, <3>1
    <2>3. /\ call \in [Txs -> {"none", "draft", "error", "sent"}]
          /\ ended \in [Txs -> {"no", "rejected", "refused", "duplicate"}]
          /\ old \in [Txs -> SUBSET Pools]
      BY <1>1
    <2>4. chain \in Seq(SUBSET Txs) /\ apiHeight \in 0..Len(chain) /\ DOMAIN chain = {}
      BY <1>1
    <2> QED BY <1>1, <1>4, <1>5, <2>1, <2>2, <2>3, <2>4 DEF PathType
  <1>9. PoolsBehind
    BY <1>2, <1>5, <1>6, <1>7 DEF PoolsBehind, Made
  <1>10. SentReplied
    BY <1>1, <1>2, <1>7 DEF SentReplied, Sent
  <1> QED BY <1>3, <1>8, <1>9, <1>10 DEF CoreInv

\* Every step keeps types, pools and replies, and what was built.
LEMMA NextCore == CoreInv /\ [Next]_vars => CoreInv' /\ Steady
  <1> SUFFICES ASSUME CoreInv, [Next]_vars PROVE CoreInv' /\ Steady
    OBVIOUS
  <1>1. CASE UNCHANGED vars
    <2>1. /\ txs' = txs /\ refused' = refused /\ body' = body /\ call' = call /\ wire' = wire
          /\ checked' = checked /\ ended' = ended /\ merged' = merged /\ waited' = waited
          /\ late' = late /\ old' = old /\ UNCHANGED ledgers
      BY <1>1 DEF vars, poolVars, pathVars, history
    <2>2. MempoolInv'
      BY <2>1 DEF CoreInv, MempoolInv, PoolTypeOK, NoDuplicates, RicherStay, FullWhenRefused
    <2>3. Mined' = Mined /\ Pooled(txs)' = Pooled(txs)
      BY <2>1 DEF Mined, Pooled, ledgers
    <2>4. \A u \in Txs : Sent(u)' => Sent(u)
      BY <2>1, <2>3 DEF Sent
    <2>5. /\ wire' \in SUBSET Txs /\ checked' \in SUBSET Txs /\ merged' \in SUBSET Txs
          /\ late' \in SUBSET Txs /\ old' \in [Txs -> SUBSET Pools]
          /\ ended' \in [Txs -> {"no", "rejected", "refused", "duplicate"}]
      BY <2>1 DEF CoreInv, PathType
    <2> QED BY <2>1, <2>2, <2>4, <2>5, HandlingKeeps
  <1>2. CASE Next
    <2>1. PathType /\ PoolsBehind
      BY DEF CoreInv
    <2>2. ASSUME NEW t \in Txs, NEW map, ProcessTransaction(t, map) PROVE CoreInv' /\ Steady
      BY <2>2, ProcessCore
    <2>3. ASSUME NEW list \in Lists, SyncMempool(list) PROVE CoreInv' /\ Steady
      BY <2>3, SyncCore
    <2>4. CASE MineBlock
      BY <2>4, MineShape, MineCore
    <2> QED BY <1>2, <2>1, <2>2, <2>3, <2>4, NextShape, BuildsCore, ResendsCore, ValidateCore,
               RejectCore, ReceiveCore
  <1> QED BY <1>1, <1>2

\* The specification's type invariant, and with it the soundness of the mempool.
LEMMA CoreSound == CoreInv => MempoolSound
  <1> SUFFICES ASSUME CoreInv PROVE MempoolSound
    OBVIOUS
  <1>1. ASSUME NEW t \in Txs
        PROVE  /\ body[t].method \in AllMethods \cup {"none"}
               /\ body[t].inputs \subseteq Outs /\ OutsOf(t) \subseteq Outs
               /\ \A k \in DOMAIN body[t].outputs : body[t].outputs[k].amount > 0
               /\ call[t] \in CallStates /\ old[t] \subseteq Pools
               /\ ended[t] \in {"no", "rejected", "refused", "duplicate"}
    <2>1. body[t] \in BodyRec /\ Len(body[t].outputs) <= 3
      BY DEF CoreInv, PathType
    <2>2. /\ body[t].method \in AllMethods \cup {"none"} /\ body[t].inputs \subseteq Outs
          /\ body[t].outputs \in Seq(OutputRec)
      BY <2>1 DEF BodyRec
    <2>3. DOMAIN body[t].outputs \subseteq 1..3
      BY <2>1, <2>2
    <2>4. OutsOf(t) \subseteq Outs
      BY <2>3 DEF OutsOf, Outs
    <2>5. \A k \in DOMAIN body[t].outputs : body[t].outputs[k] \in OutputRec
      BY <2>2
    <2>6. \A q \in OutputRec : q.amount > 0
      BY DEF OutputRec
    <2>7. call[t] \in CallStates /\ old[t] \subseteq Pools
      BY DEF CoreInv, PathType, CallStates
    <2> QED BY <2>2, <2>4, <2>5, <2>6, <2>7 DEF CoreInv, PathType
  <1>2. \A p \in {minerPool, apiPool} : p.spent \subseteq p.have /\ p.have \subseteq Outs
    BY DEF CoreInv, PathType, Pools
  <1>3. TypeOK
    BY <1>1, <1>2 DEF TypeOK, CoreInv, PathType, MempoolInv
  <1> QED BY <1>3 DEF MempoolSound, CoreInv, MempoolInv

\* The mempool is sound whoever adds to it: AddTransaction, the eviction at
\* capacity, a block's removals and SyncWithPeer's merge, in any order, for any
\* capacity, fees and lists.
THEOREM MempoolAlwaysSound == Spec => []MempoolSound
  <1>1. Init => CoreInv
    BY InitCore
  <1>2. CoreInv /\ [Next]_vars => CoreInv'
    BY NextCore
  <1>3. CoreInv => MempoolSound
    BY CoreSound
  <1> QED BY <1>1, <1>2, <1>3, PTL DEF Spec

-----------------------------------------------------------------------------
(* Second spends, and what the shell has checked. *)

\* Everything pooled or mined was built by a call, and stays.
LEMMA HeldSteady ==
    ASSUME CoreInv, Steady, NEW t, t \in Pooled(txs) \cup Mined
    PROVE  t \in Txs /\ call[t] # "none" /\ body'[t] = body[t]
  <1>1. t \in Txs
    <2>1. CASE t \in Pooled(txs)
      BY <2>1 DEF CoreInv, MempoolInv, PoolTypeOK, Pooled
    <2>2. CASE t \in Mined
      BY <2>2, MinedFacts DEF CoreInv, PathType
    <2> QED BY <2>1, <2>2
  <1>2. call[t] # "none"
    BY <1>1 DEF CoreInv, SentReplied, Sent
  <1> QED BY <1>1, <1>2 DEF Steady

\* A step that neither mines nor adds to the mempool.
Quiet ==
    /\ txs' = txs /\ chain' = chain /\ minerPool' = minerPool
    /\ waited' = waited /\ merged' = merged /\ late' = late

SpendOnce == SpendInv /\ SpentAgainOnlyIfPooled

\* Two blocks of the chain have t.
Twice(t) == \E i, j \in DOMAIN chain : i # j /\ t \in chain[i] /\ t \in chain[j]

\* The outputs made again are those of transactions that two blocks have.
RemadeTwice == \A o : o \in Remade <=> \E t \in Txs : Twice(t) /\ o \in OutsOf(t)

\* They are what Remade is defined to be.
LEMMA RemadeFacts == RemadeTwice
  <1> DEFINE S == {t \in Txs : \E i, j \in DOMAIN chain : i # j /\ t \in chain[i] \cap chain[j]}
  <1>1. \A t : t \in S <=> t \in Txs /\ Twice(t)
    BY DEF Twice
  <1>2. Remade = UNION {OutsOf(t) : t \in S}
    BY DEF Remade, Makes
  <1> HIDE DEF S
  <1>3. \A o : o \in Remade <=> \E t \in S : o \in OutsOf(t)
    BY <1>2, Zenon
  <1> QED BY <1>1, <1>3 DEF RemadeTwice

\* What was made again stays so, while the chain keeps its blocks.
LEMMA RemadeStays ==
    ASSUME CoreInv, Steady, \A i \in DOMAIN chain : i \in DOMAIN chain' /\ chain'[i] = chain[i]
    PROVE  Remade \subseteq Remade'
  <1> SUFFICES ASSUME NEW o \in Remade PROVE o \in Remade'
    OBVIOUS
  <1>1. PICK t \in Txs : Twice(t) /\ o \in OutsOf(t)
    BY RemadeFacts DEF RemadeTwice
  <1>2. t \in Mined
    BY <1>1, MinedFacts DEF Twice
  <1>3. body'[t] = body[t]
    BY <1>2, HeldSteady
  <1>4. OutsOf(t)' = OutsOf(t)
    BY <1>3 DEF OutsOf
  <1>5. Twice(t)'
    BY <1>1 DEF Twice
  <1>6. RemadeTwice'
    BY RemadeFacts, PTL
  <1> QED BY <1>1, <1>4, <1>5, <1>6 DEF RemadeTwice

\* The chain's pairs stay as they are while no block is added.
LEMMA PairsKeep ==
    ASSUME CoreInv, Steady, SpentAgainOnlyIfPooled, chain' = chain,
           waited \subseteq waited', merged \subseteq merged', late \subseteq late'
    PROVE  SpentAgainOnlyIfPooled'
  <1> SUFFICES ASSUME NEW i \in DOMAIN chain, NEW j \in DOMAIN chain, i < j,
                      NEW t \in chain[i], NEW u \in chain[j]
               PROVE  \/ body'[t].inputs \cap body'[u].inputs \subseteq Remade'
                      \/ u \in waited' \cup merged' \cup late'
    BY DEF SpentAgainOnlyIfPooled
  <1>1. t \in Mined /\ u \in Mined
    BY MinedFacts
  <1>2. body'[t] = body[t] /\ body'[u] = body[u]
    BY <1>1, HeldSteady
  <1>3. \/ body[t].inputs \cap body[u].inputs \subseteq Remade
        \/ u \in waited \cup merged \cup late
    BY DEF SpentAgainOnlyIfPooled
  <1>4. Remade \subseteq Remade'
    BY RemadeStays
  <1> QED BY <1>2, <1>3, <1>4

\* A step that mines nothing: SpendInv depends on what enters the mempool.
LEMMA SpendKeeps ==
    ASSUME CoreInv, Steady, SpendOnce, chain' = chain, minerPool' = minerPool,
           waited \subseteq waited', merged \subseteq merged', late \subseteq late',
           \A u \in Pooled(txs') :
              \/ u \in Pooled(txs) \/ u \in merged' \cup late'
              \/ u \in Txs /\ call[u] # "none" /\ \A t \in Mined : body[t].inputs \cap body[u].inputs \subseteq Remade
    PROVE  SpendOnce'
  <1>1. Mined' = Mined /\ Remade \subseteq Remade' /\ Pooled(txs)' = Pooled(txs')
    BY RemadeStays DEF Mined, Pooled
  <1>2. \A t \in Pooled(txs) \cup Mined : body'[t] = body[t]
    BY HeldSteady
  <1>3. \A t \in Mined' : body'[t].inputs \subseteq minerPool'.spent \cup Remade'
    BY <1>1, <1>2 DEF SpendOnce, SpendInv
  <1>4. ASSUME NEW u \in Pooled(txs')
        PROVE  \/ u \in waited' \cup merged' \cup late'
               \/ \A t \in Mined' : body'[t].inputs \cap body'[u].inputs \subseteq Remade'
    <2>1. CASE u \in Pooled(txs)
      BY <1>1, <1>2, <2>1 DEF SpendOnce, SpendInv
    <2>2. CASE u \in Txs /\ call[u] # "none" /\ \A t \in Mined : body[t].inputs \cap body[u].inputs \subseteq Remade
      <3>1. body'[u] = body[u]
        BY <2>2 DEF Steady
      <3> QED BY <1>1, <1>2, <2>2, <3>1
    <2> QED BY <2>1, <2>2
  <1>5. SpendInv'
    BY <1>1, <1>3, <1>4 DEF SpendInv
  <1>6. SpentAgainOnlyIfPooled'
    BY PairsKeep DEF SpendOnce
  <1> QED BY <1>5, <1>6 DEF SpendOnce

\* Quiet steps leave spends as they are.
LEMMA QuietSpend ==
    ASSUME CoreInv, Steady, SpendOnce, Quiet
    PROVE  SpendOnce'
  <1>1. Pooled(txs') = Pooled(txs)
    BY DEF Quiet
  <1> QED BY <1>1, SpendKeeps DEF Quiet

\* What is valid against the current map spends nothing of a mined transaction but
\* what was made again.
LEMMA ValidSpends ==
    ASSUME CoreInv, SpendOnce, NEW u \in Txs, MempoolValid(minerPool, u, body[u]), NEW t \in Mined
    PROVE  body[t].inputs \cap body[u].inputs \subseteq Remade
  <1>1. body[t].inputs \subseteq minerPool.spent \cup Remade
    BY DEF SpendOnce, SpendInv
  <1>2. CASE IsSystem(body[u])
    BY <1>2 DEF IsSystem, CoreInv, PathType
  <1>3. CASE PaymentValid(minerPool, u, body[u])
    <2>1. body[u].inputs \cap minerPool.spent = {}
      BY <1>3 DEF PaymentValid
    <2> QED BY <1>1, <2>1
  <1> QED BY <1>2, <1>3 DEF MempoolValid

\* A handler admits only what spends nothing that is spent, or what an old map does.
LEMMA ProcessSpend ==
    ASSUME CoreInv, Steady, SpendOnce, NEW t \in Txs, NEW map, ProcessTransaction(t, map)
    PROVE  SpendOnce'
  <1>1. /\ merged' = merged /\ waited' = waited /\ minerPool' = minerPool /\ chain' = chain
        /\ t \in checked
    BY DEF ProcessTransaction, Leaves, ledgers
  <1>2. Pooled(txs') \subseteq Pooled(txs) \cup {t} /\ call[t] # "none"
    BY <1>1, ProcessCore DEF CoreInv, SentReplied, Sent
  <1>3. CASE late' = IF MempoolValid(minerPool, t, body[t]) THEN late ELSE late \cup {t}
    <2>1. late \subseteq late' /\ (MempoolValid(minerPool, t, body[t]) \/ t \in late')
      BY <1>3
    <2>2. t \in late' \/ \A u \in Mined : body[u].inputs \cap body[t].inputs \subseteq Remade
      BY <2>1, ValidSpends
    <2> QED BY <1>1, <1>2, <2>1, <2>2, SpendKeeps
  <1>4. CASE UNCHANGED poolVars /\ late' = late
    <2>1. txs' = txs
      BY <1>4 DEF poolVars
    <2> QED BY <1>1, <1>4, <2>1, QuietSpend DEF Quiet
  <1>5. CASE RefuseTransaction(t) /\ late' = late
    <2>1. Pooled(txs') \subseteq Pooled(txs)
      BY <1>5, RefuseKeeps DEF CoreInv
    <2> QED BY <1>1, <1>5, <2>1, SpendKeeps
  <1> QED BY <1>3, <1>4, <1>5 DEF ProcessTransaction

\* What a peer's list brings is merged.
LEMMA SyncSpend ==
    ASSUME CoreInv, Steady, SpendOnce, NEW list \in Lists, SyncMempool(list)
    PROVE  SpendOnce'
  <1>1. /\ merged' = merged \cup Pooled(list) /\ waited' = waited /\ late' = late
        /\ minerPool' = minerPool /\ chain' = chain
    BY DEF SyncMempool, ledgers
  <1>2. Pooled(txs') \subseteq Pooled(txs) \cup Pooled(list)
    BY SyncCore
  <1> QED BY <1>1, <1>2, SpendKeeps

\* What a block makes anew, of the outputs that the pool has, it makes again.
LEMMA MadeAgain ==
    ASSUME CoreInv, Steady, NEW block \in SUBSET Txs, IsFiniteSet(block),
           chain' = Append(chain, block), body' = body,
           NEW o \in minerPool.have, o \in Makes(block)
    PROVE  o \in Remade'
  <1>1. PICK t \in block : o \in OutsOf(t)
    BY BlockOuts DEF CoreInv
  <1>2. o[1] = t /\ t \in Txs
    BY <1>1 DEF OutsOf
  <1>3. o \notin CoinOuts
    BY <1>2, PathAssumption DEF CoinOuts
  <1>4. t \in Mined
    BY <1>2, <1>3 DEF CoreInv, PoolsBehind
  <1>5. PICK i \in DOMAIN chain : t \in chain[i]
    BY <1>4, MinedFacts
  <1>6. /\ Len(chain) \in Nat
        /\ \A k \in DOMAIN chain : k \in 1..Len(chain) /\ chain'[k] = chain[k]
        /\ chain'[Len(chain) + 1] = block /\ DOMAIN chain' = 1..(Len(chain) + 1)
    BY MinedMore
  <1>7. /\ i \in DOMAIN chain' /\ Len(chain) + 1 \in DOMAIN chain' /\ i # Len(chain) + 1
        /\ t \in chain'[i] /\ t \in chain'[Len(chain) + 1]
    BY <1>5, <1>6
  <1>8. Twice(t)'
    BY <1>7 DEF Twice
  <1>9. OutsOf(t)' = OutsOf(t)
    BY DEF OutsOf
  <1>10. RemadeTwice'
    BY RemadeFacts, PTL
  <1> QED BY <1>1, <1>2, <1>8, <1>9, <1>10 DEF RemadeTwice

\* A block spends its inputs; what it leaves in the mempool has waited.
LEMMA MineSpend ==
    ASSUME CoreInv, Steady, SpendOnce, NEW block, MinesBlock(block)
    PROVE  SpendOnce'
  <1>1. /\ block \in SUBSET Txs /\ IsFiniteSet(block) /\ block \subseteq Pooled(txs)
        /\ chain' = Append(chain, block)
        /\ Pooled(txs') \subseteq Pooled(txs) \ block
        /\ waited' = waited \cup (Pooled(txs) \ block)
        /\ body' = body /\ merged' = merged /\ late' = late
    BY DEF MinesBlock
  <1>k. PICK kept \in Kept(block) : minerPool' = Apply(minerPool, block, kept)
    BY DEF MinesBlock
  <1>2. /\ \A t : t \in Mined' <=> (t \in Mined \/ t \in block)
        /\ Len(chain) \in Nat
        /\ \A i \in DOMAIN chain : i \in 1..Len(chain) /\ chain'[i] = chain[i]
        /\ chain'[Len(chain) + 1] = block /\ DOMAIN chain' = 1..(Len(chain) + 1)
    BY <1>1, MinedMore
  <1>3. /\ minerPool \in Pools /\ minerPool.spent \subseteq minerPool.have
        /\ IsFiniteSet(minerPool.have) /\ PathType
    BY DEF CoreInv, PathType
  <1>4. minerPool.spent \cup (minerPool.have \cap Uses(block)) \subseteq minerPool'.spent \cup Makes(block)
    BY <1>1, <1>k, <1>3, ApplyFacts
  <1>5. \A t \in Txs : body[t].inputs \subseteq minerPool.have
    BY DEF CoreInv, PoolsBehind
  <1>6. \A o \in minerPool.have \cap Makes(block) : o \in Remade'
    BY <1>1, MadeAgain
  <1>7. Remade \subseteq Remade'
    <2>1. \A i \in DOMAIN chain : i \in DOMAIN chain' /\ chain'[i] = chain[i]
      BY <1>2
    <2> QED BY <2>1, RemadeStays
  <1>8. ASSUME NEW t \in Mined' PROVE body'[t].inputs \subseteq minerPool'.spent \cup Remade'
    <2> SUFFICES ASSUME NEW o \in body[t].inputs, o \notin Remade' PROVE o \in minerPool'.spent
      BY <1>1
    <2>1. t \in Txs
      <3>1. CASE t \in block
        BY <1>1, <3>1
      <3>2. CASE t \in Mined
        BY <3>2, HeldSteady
      <3> QED BY <1>2, <3>1, <3>2
    <2>2. o \in minerPool.have /\ o \notin Makes(block)
      BY <1>5, <1>6, <2>1
    <2>3. o \in minerPool.spent \cup (minerPool.have \cap Uses(block))
      <3>1. CASE t \in Mined
        BY <1>7, <3>1 DEF SpendOnce, SpendInv
      <3>2. CASE t \in block
        <4>1. o \in Uses(block)
          BY <1>1, <1>3, <3>2, BlockOuts
        <4> QED BY <2>2, <4>1
      <3> QED BY <1>2, <3>1, <3>2
    <2> QED BY <1>4, <2>2, <2>3
  <1>9. \A t \in Pooled(txs)' : t \in waited'
    BY <1>1 DEF Pooled
  <1>10. SpendInv'
    BY <1>8, <1>9 DEF SpendInv
  <1>11. ASSUME NEW i \in DOMAIN chain', NEW j \in DOMAIN chain', i < j,
                NEW t \in chain'[i], NEW u \in chain'[j]
         PROVE  \/ body[t].inputs \cap body[u].inputs \subseteq Remade'
                \/ u \in waited' \cup merged' \cup late'
    <2>1. chain \in Seq(SUBSET Txs) /\ DOMAIN chain = 1..Len(chain)
      BY <1>3 DEF PathType
    <2>2. i \in DOMAIN chain
      BY <1>2, <1>11, <2>1
    <2>3. chain'[i] = chain[i]
      BY <1>2, <2>2
    <2>4. CASE j \in DOMAIN chain
      <3>1. chain'[j] = chain[j]
        BY <1>2, <2>4
      <3>2. \/ body[t].inputs \cap body[u].inputs \subseteq Remade
            \/ u \in waited \cup merged \cup late
        BY <1>11, <2>2, <2>3, <2>4, <3>1 DEF SpendOnce, SpentAgainOnlyIfPooled
      <3> QED BY <1>1, <1>7, <3>2
    <2>5. CASE j = Len(chain) + 1
      <3>1. u \in Pooled(txs)
        BY <1>1, <1>2, <1>11, <2>5
      <3>2. t \in Mined
        BY <1>11, <2>2, <2>3, MinedFacts
      <3>3. \/ u \in waited \cup merged \cup late
            \/ body[t].inputs \cap body[u].inputs \subseteq Remade
        BY <3>1, <3>2 DEF SpendOnce, SpendInv
      <3> QED BY <1>1, <1>7, <3>3
    <2> QED BY <1>2, <2>1, <2>4, <2>5
  <1>12. SpentAgainOnlyIfPooled'
    BY <1>1, <1>11 DEF SpentAgainOnlyIfPooled
  <1> QED BY <1>10, <1>12 DEF SpendOnce

\* The steps of the calls, of validation and of the API node are quiet.
LEMMA QuietSteps ==
    /\ \A t, method, b, r : Builds(t, method, b, r) => Quiet
    /\ \A t, r : Resends(t, r) => Quiet
    /\ \A t : ValidateTransaction(t) => Quiet
    /\ \A t : RejectTransaction(t) => Quiet
    /\ ReceiveBlock => Quiet
    /\ UNCHANGED vars => Quiet
  <1>1. \A t, r : Tells(t, r) => Quiet
    BY DEF Tells, Quiet, poolVars, history, ledgers
  <1>2. \A t, method, b, r : Builds(t, method, b, r) => Quiet
    BY <1>1 DEF Builds
  <1>3. \A t, r : Resends(t, r) => Quiet
    BY <1>1 DEF Resends
  <1>4. \A t : ValidateTransaction(t) => Quiet
    BY DEF ValidateTransaction, Quiet, poolVars, history, ledgers
  <1>5. \A t : RejectTransaction(t) => Quiet
    BY DEF RejectTransaction, Quiet, poolVars, history, ledgers
  <1>6. ReceiveBlock => Quiet
    BY DEF ReceiveBlock, Quiet, poolVars, pathVars, history
  <1>7. UNCHANGED vars => Quiet
    BY DEF vars, Quiet, poolVars, pathVars, history, ledgers
  <1> QED BY <1>2, <1>3, <1>4, <1>5, <1>6, <1>7

\* Nothing is pooled or mined at the start.
LEMMA InitSpend == Init => SpendOnce
  <1> SUFFICES ASSUME Init PROVE SpendOnce
    OBVIOUS
  <1>1. chain = <<>> /\ txs = <<>>
    BY DEF Init, PoolInit
  <1>2. DOMAIN chain = {} /\ Mined = {} /\ Pooled(txs) = {}
    BY <1>1 DEF Mined, Pooled
  <1> QED BY <1>2 DEF SpendOnce, SpendInv, SpentAgainOnlyIfPooled

\* Every step keeps the spends.
LEMMA NextSpend == CoreInv /\ SpendOnce /\ [Next]_vars => SpendOnce'
  <1> SUFFICES ASSUME CoreInv, SpendOnce, [Next]_vars PROVE SpendOnce'
    OBVIOUS
  <1>1. Steady
    BY NextCore
  <1>2. CASE Quiet
    BY <1>1, <1>2, QuietSpend
  <1>3. CASE UNCHANGED vars
    BY <1>2, <1>3, QuietSteps
  <1>4. CASE Next
    <2>1. PathType /\ PoolsBehind
      BY DEF CoreInv
    <2>2. ASSUME NEW t \in Txs, NEW map, ProcessTransaction(t, map) PROVE SpendOnce'
      BY <1>1, <2>2, ProcessSpend
    <2>3. ASSUME NEW list \in Lists, SyncMempool(list) PROVE SpendOnce'
      BY <1>1, <2>3, SyncSpend
    <2>4. CASE MineBlock
      BY <1>1, <2>4, MineShape, MineSpend
    <2> QED BY <1>2, <1>4, <2>1, <2>2, <2>3, <2>4, NextShape, QuietSteps
  <1> QED BY <1>3, <1>4

\* No input of a mined transaction is spent by one of a later block, unless that
\* one was in the mempool when the first was mined, came in a peer's list or was
\* admitted by a map that MineBlock had replaced, or the input was made again by a
\* transaction that two blocks have: Mempool.ValidateTransaction suffices against
\* every other stale validation before it.
THEOREM NeverSpentAgain == Spec => []SpentAgainOnlyIfPooled
  <1>1. Init => CoreInv /\ SpendOnce
    BY InitCore, InitSpend
  <1>2. CoreInv /\ SpendOnce /\ [Next]_vars => CoreInv' /\ SpendOnce'
    BY NextCore, NextSpend
  <1>3. SpendOnce => SpentAgainOnlyIfPooled
    BY DEF SpendOnce
  <1> QED BY <1>1, <1>2, <1>3, PTL DEF Spec

-----------------------------------------------------------------------------
(* Values. *)

\* A transaction that a step leaves alone keeps the values of what it spends and
\* makes.
LEMMA SameValues ==
    ASSUME CoreInv, Steady, NEW t \in Txs, body'[t] = body[t]
    PROVE  /\ Value(OutsOf(t))' = Value(OutsOf(t))
           /\ Value(body[t].inputs)' = Value(body[t].inputs)
           /\ \A o \in body[t].inputs : Output(o)' = Output(o)
  <1>1. \A o \in body[t].inputs : Output(o)' = Output(o)
    BY SteadyOutputs DEF CoreInv, PoolsBehind
  <1> DEFINE S == body[t].inputs
             T == OutsOf(t)
  <1>2. PICK I : I = body[t].inputs
    OBVIOUS
  <1>3. PICK O : O = OutsOf(t)
    OBVIOUS
  <1>4. Value(I)' = Value(I)
    BY <1>1, <1>2, ValueSame
  <1>5. Value(body[t].inputs)' = Value(I)'
    BY <1>2 DEF Value
  <1>6. \A o \in O : Output(o)' = Output(o)
    <2> TAKE o \in O
    <2>1. o[1] = t /\ t # "coin"
      BY <1>3, PathAssumption DEF OutsOf
    <2> QED BY <2>1 DEF Output
  <1>7. Value(O)' = Value(O)
    BY <1>6, ValueSame
  <1>8. OutsOf(t)' = O
    BY <1>3 DEF OutsOf
  <1>9. Value(OutsOf(t))' = Value(O)'
    BY <1>8 DEF Value
  <1> QED BY <1>1, <1>2, <1>3, <1>4, <1>5, <1>7, <1>9

\* The value of one output, and of two.
LEMMA ValueOne ==
    ASSUME NEW x, Output(x).amount \in Int
    PROVE  Value({x}) = Output(x).amount
  <1> DEFINE f == [o \in {x} |-> Output(o).amount]
             g == [y \in {x} \ {x} |-> f[y]]
  <1>1. IsFiniteSet({x}) /\ IsFiniteSet({})
    BY FS_Singleton, FS_EmptySet, Zenon
  <1>2. f \in [{x} -> Int] /\ f[x] = Output(x).amount
    OBVIOUS
  <1>3. g \in [{} -> Int]
    OBVIOUS
  <1> HIDE DEF f
  <1>4. SumFunction(f) = f[x] + SumFunction([y \in {x} \ {x} |-> f[y]])
    BY <1>1, <1>2, SumFacts
  <1> HIDE DEF g
  <1>5. SumFunction(g) = 0
    BY <1>1, <1>3, SumFacts
  <1>6. SumFunction(f) = Output(x).amount
    BY <1>2, <1>4, <1>5 DEF g
  <1> QED BY <1>6 DEF Value, f

\* Two outputs.
LEMMA ValueTwo ==
    ASSUME NEW x, NEW y, x # y, Output(x).amount \in Int, Output(y).amount \in Int
    PROVE  Value({x, y}) = Output(x).amount + Output(y).amount
  <1> DEFINE f == [o \in {x, y} |-> Output(o).amount]
             g == [z \in {x, y} \ {x} |-> f[z]]
  <1>1. IsFiniteSet({x, y})
    <2>1. IsFiniteSet({x}) /\ IsFiniteSet({y})
      BY FS_Singleton, Zenon
    <2>2. IsFiniteSet({x} \cup {y})
      BY <2>1, FS_Union
    <2>3. {x} \cup {y} = {x, y}
      OBVIOUS
    <2> QED BY <2>2, <2>3
  <1>2. f \in [{x, y} -> Int] /\ f[x] = Output(x).amount
    OBVIOUS
  <1>3. g = [o \in {y} |-> Output(o).amount]
    <2>1. {x, y} \ {x} = {y}
      OBVIOUS
    <2> QED BY <2>1
  <1> HIDE DEF f
  <1>4. SumFunction(f) = f[x] + SumFunction([z \in {x, y} \ {x} |-> f[z]])
    BY <1>1, <1>2, SumFacts
  <1> HIDE DEF g
  <1>5. SumFunction(g) = Value({y})
    BY <1>3 DEF Value
  <1>6. Value({y}) = Output(y).amount
    BY ValueOne
  <1>7. SumFunction(f) = Output(x).amount + Output(y).amount
    BY <1>2, <1>4, <1>5, <1>6 DEF g
  <1> QED BY <1>7 DEF Value, f

\* Nothing has no value.
LEMMA ValueNone == Value({}) = 0
  <1> DEFINE f == [o \in {} |-> Output(o).amount]
  <1>1. f \in [{} -> Int] /\ IsFiniteSet({})
    BY FS_EmptySet
  <1> HIDE DEF f
  <1>2. SumFunction(f) = 0
    BY <1>1, SumFacts
  <1> QED BY <1>2 DEF Value, f

\* Two outputs, one after the other.
LEMMA ConcatTwo ==
    ASSUME NEW x, NEW y
    PROVE  /\ DOMAIN (<<x>> \o <<y>>) = {1, 2}
           /\ (<<x>> \o <<y>>)[1] = x /\ (<<x>> \o <<y>>)[2] = y
  <1>1. <<x>> \in Seq({x, y}) /\ <<y>> \in Seq({x, y}) /\ Len(<<x>>) = 1 /\ Len(<<y>>) = 1
    OBVIOUS
  <1> DEFINE s == <<x>> \o <<y>>
  <1>2. s \in Seq({x, y}) /\ Len(s) = 2 /\ s[1] = x /\ s[2] = y
    BY <1>1
  <1>3. DOMAIN s = 1..2
    BY <1>2
  <1> QED BY <1>2, <1>3

\* The value of what a transaction makes, where a payment and change are all.
MakesPayment ==
    \A t \in Txs, c \in Nat :
        body[t].outputs = <<Pay(t)>> \o ChangeOutput(c) => Value(OutsOf(t)) = Amount[t] + c

\* It is the amount and the change.
LEMMA MadeValue == MakesPayment
  <1> SUFFICES ASSUME NEW t \in Txs, NEW c \in Nat,
                      body[t].outputs = <<Pay(t)>> \o ChangeOutput(c)
               PROVE  Value(OutsOf(t)) = Amount[t] + c
    BY DEF MakesPayment
  <1>0. Amount[t] \in Nat /\ t # "coin"
    BY PathAssumption
  <1>1. CASE c = 0
    <2>1. body[t].outputs = <<Pay(t)>>
      BY <1>1 DEF ChangeOutput
    <2>2. OutsOf(t) = {<<t, 1>>}
      BY <2>1 DEF OutsOf
    <2>3. Output(<<t, 1>>) = Pay(t)
      BY <1>0, <2>1 DEF Output
    <2>4. Output(<<t, 1>>).amount = Amount[t]
      BY <2>3 DEF Pay
    <2> QED BY <1>0, <1>1, <2>2, <2>4, ValueOne
  <1>2. CASE c # 0
    <2> DEFINE back == [to |-> "self", amount |-> c]
    <2>0. c > 0
      BY <1>2
    <2>1. /\ DOMAIN body[t].outputs = {1, 2}
          /\ body[t].outputs[1] = Pay(t) /\ body[t].outputs[2] = back
      <3>1. ChangeOutput(c) = <<back>>
        BY <2>0 DEF ChangeOutput
      <3> HIDE DEF back
      <3> QED BY <3>1, ConcatTwo
    <2>2. OutsOf(t) = {<<t, 1>>, <<t, 2>>}
      BY <2>1 DEF OutsOf
    <2>3. Output(<<t, 1>>) = Pay(t) /\ Output(<<t, 2>>) = back
      BY <1>0, <2>1 DEF Output
    <2>4. Output(<<t, 1>>).amount = Amount[t] /\ Output(<<t, 2>>).amount = c
      BY <2>3 DEF Pay
    <2>5. <<t, 1>> # <<t, 2>>
      OBVIOUS
    <2> QED BY <1>0, <2>2, <2>4, <2>5, ValueTwo
  <1> QED BY <1>1, <1>2

\* What the invariant says of one transaction.
CoveredAt(t) ==
    /\ body[t].method \in Covered => Value(OutsOf(t)) + Fee[t] <= Value(body[t].inputs)
    /\ body[t].method \in {"rpc", "none"} => body[t].inputs = {}
ShellAt(t) ==
    body[t].method = "shell" /\ call[t] = "sent" =>
        /\ Verifies(body[t].sig)
        /\ \A o \in body[t].inputs : Output(o).to = "self"
        /\ Value(body[t].inputs) >= Amount[t] + MaxGasFee(t, body[t])

EachCovered == \A t \in Txs : CoveredAt(t) /\ ShellAt(t)
PooledPaid ==
    \A t \in Pooled(txs) \cup Mined : t \in merged \/ body[t].method \in Covered \cup Unchecked

\* A transaction that a step leaves alone, its call included, unless it was not
\* sent.
LEMMA CoveredSame ==
    ASSUME CoreInv, Steady, NEW t \in Txs, CoveredAt(t), ShellAt(t), body'[t] = body[t],
           call'[t] = call[t] \/ body[t].method # "shell" \/ call'[t] = "error"
    PROVE  CoveredAt(t)' /\ ShellAt(t)'
  <1>1. /\ Value(OutsOf(t))' = Value(OutsOf(t))
        /\ Value(body[t].inputs)' = Value(body[t].inputs)
        /\ \A o \in body[t].inputs : Output(o)' = Output(o)
    BY SameValues
  <1>2. CoveredAt(t)'
    BY <1>1 DEF CoveredAt
  <1>3. MaxGasFee(t, body[t])' = MaxGasFee(t, body[t])
    BY DEF MaxGasFee
  <1>4. Verifies(body[t].sig)' = Verifies(body[t].sig)
    BY DEF Verifies
  <1>5. \A o \in body'[t].inputs : Output(o)'.to = Output(o).to
    BY <1>1
  <1>6. ShellAt(t)'
    BY <1>1, <1>3, <1>4, <1>5 DEF ShellAt
  <1> QED BY <1>2, <1>6

\* A transaction as a call builds it.
LEMMA BuildsCovered ==
    ASSUME CoreInv, Steady, NEW t \in Txs, NEW method \in AllMethods, NEW b, NEW r,
           Builds(t, method, b, r)
    PROVE  CoveredAt(t)' /\ ShellAt(t)'
  <1>1. /\ call[t] = "none" /\ Writes(t, method, b) /\ body' = [body EXCEPT ![t] = b]
        /\ Tells(t, r)
        /\ (method = "shell" /\ r = "sent" => MempoolValid(apiPool, t, b))
    BY DEF Builds
  <1>2. /\ b \in BodyRec /\ b.method = method /\ IsFiniteSet(b.inputs)
        /\ b.inputs \subseteq minerPool.have /\ (method = "rpc" => b.inputs = {})
        /\ (method \in Covered => Covers(t, b))
    BY <1>1, WrittenFacts DEF CoreInv
  <1>3. body'[t] = b
    BY <1>1 DEF CoreInv, PathType
  <1>4. call'[t] = r
    BY <1>1 DEF Tells, CoreInv, PathType
  <1>5. PICK I : I = b.inputs
    OBVIOUS
  <1>6. \A o \in I : Made(o)
    BY <1>2, <1>5 DEF CoreInv, PoolsBehind
  <1>7. \A o \in I : Output(o)' = Output(o)
    BY <1>6, SteadyOutputs DEF CoreInv
  <1>8. Value(I)' = Value(I) /\ Value(I) \in Int
    BY <1>2, <1>5, <1>6, <1>7, ValueSame, ValueTyped DEF CoreInv
  <1>9. Value(body[t].inputs)' = Value(I)'
    BY <1>3, <1>5 DEF Value
  <1>10. Amount[t] \in Nat /\ Fee[t] \in Nat
    BY PathAssumption, MempoolAssumption
  <1>11. ASSUME method \in Covered
         PROVE  Value(OutsOf(t))' + Fee[t] <= Value(body[t].inputs)'
    <2> DEFINE c == Value(I) - (Amount[t] + Fee[t])
    <2>1. b.outputs = <<Pay(t)>> \o ChangeOutput(c) /\ Value(I) >= Amount[t] + Fee[t]
      BY <1>2, <1>5, <1>11 DEF Covers
    <2>2. c \in Nat
      BY <1>8, <1>10, <2>1
    <2> HIDE DEF c
    <2>3. MakesPayment'
      BY MadeValue, PTL
    <2>4. body'[t].outputs = <<Pay(t)>> \o ChangeOutput(c)
      BY <1>3, <2>1
    <2>5. Value(OutsOf(t))' = Amount[t] + c
      BY <2>2, <2>3, <2>4 DEF MakesPayment, Pay, ChangeOutput
    <2> QED BY <1>8, <1>9, <1>10, <2>2, <2>5 DEF c
  <1>12. CoveredAt(t)'
    <2>1. method # "none"
      BY DEF AllMethods, Calls
    <2> QED BY <1>2, <1>3, <1>11, <2>1 DEF CoveredAt
  <1>13. ASSUME method = "shell", r = "sent"
         PROVE  /\ Verifies(body'[t].sig)
                /\ \A o \in body'[t].inputs : Output(o)'.to = "self"
                /\ Value(body[t].inputs)' >= Amount[t] + MaxGasFee(t, body'[t])
    <2>1. MempoolValid(apiPool, t, b)
      BY <1>1, <1>13
    <2>2. /\ Verifies(b.sig) /\ \A o \in I : Output(o).to = "self"
          /\ Value(I) >= Amount[t] + MaxGasFee(t, b)
      <3>1. ~IsSystem(b)
        BY <1>2, <1>13 DEF IsSystem
      <3>2. PaymentValid(apiPool, t, b)
        BY <2>1, <3>1 DEF MempoolValid
      <3> QED BY <1>5, <3>1, <3>2 DEF PaymentValid, VerifySignature
    <2> QED BY <1>3, <1>5, <1>7, <1>8, <1>9, <2>2
  <1>14. ShellAt(t)'
    <2>1. body'[t].method = method
      BY <1>2, <1>3
    <2>2. /\ Verifies(body[t].sig)' = Verifies(body'[t].sig)
          /\ MaxGasFee(t, body[t])' = MaxGasFee(t, body'[t])
      BY DEF Verifies, MaxGasFee
    <2> QED BY <1>4, <1>13, <2>1, <2>2 DEF ShellAt
  <1> QED BY <1>12, <1>14

\* What the mempool admits is covered, or written by a client.
LEMMA AdmittedPaid ==
    ASSUME CoreInv, NEW t \in Txs, CoveredAt(t), NEW map, MempoolValid(map, t, body[t])
    PROVE  body[t].method \in Covered \cup Unchecked
  <1>0. CASE IsSystem(body[t])
    BY <1>0 DEF IsSystem, Unchecked
  <1>p. CASE PaymentValid(map, t, body[t])
    <2>1. Amount[t] \in Nat \ {0} /\ Fee[t] \in Nat
      BY PathAssumption, MempoolAssumption
    <2>2. body[t].method \in AllMethods \cup {"none"}
      BY DEF CoreInv, PathType, BodyRec
    <2>3. body[t].method # "stake"
      BY <1>p DEF PaymentValid, GasValid
    <2>4. body[t].method \notin {"rpc", "none"}
      <3> SUFFICES ASSUME body[t].method \in {"rpc", "none"} PROVE FALSE
        OBVIOUS
      <3>1. body[t].inputs = {}
        BY DEF CoveredAt
      <3>2. Value(body[t].inputs) = 0
        BY <3>1, ValueNone
      <3>3. Value(body[t].inputs) >= Amount[t] + MaxGasFee(t, body[t])
        BY <1>p DEF PaymentValid
      <3>4. MaxGasFee(t, body[t]) \in Nat
        BY <2>1 DEF MaxGasFee
      <3> QED BY <2>1, <3>2, <3>3, <3>4
    <2> QED BY <2>2, <2>3, <2>4 DEF AllMethods, Calls, Covered, Unchecked
  <1> QED BY <1>0, <1>p DEF MempoolValid

WorthInv == EachCovered /\ PooledPaid

\* Nothing is built at the start.
LEMMA InitWorth == Init => WorthInv
  <1> SUFFICES ASSUME Init PROVE WorthInv
    OBVIOUS
  <1>1. /\ txs = <<>> /\ chain = <<>> /\ \A t \in Txs : body[t] = NoBody
    BY DEF Init, PoolInit
  <1>2. NoBody.method = "none" /\ NoBody.inputs = {}
    BY DEF NoBody
  <1>3. Mined = {} /\ Pooled(txs) = {}
    BY <1>1 DEF Mined, Pooled
  <1>4. "none" \notin Covered
    BY DEF Covered
  <1> QED BY <1>1, <1>2, <1>3, <1>4 DEF WorthInv, EachCovered, PooledPaid, CoveredAt, ShellAt

\* Every step keeps payments covered.
LEMMA NextWorth == CoreInv /\ WorthInv /\ [Next]_vars => WorthInv'
  <1> SUFFICES ASSUME CoreInv, WorthInv, [Next]_vars PROVE WorthInv'
    OBVIOUS
  <1>1. Steady /\ PathType /\ PoolsBehind
    BY NextCore DEF CoreInv
  <1>2. \A t \in Pooled(txs) \cup Mined : t \in Txs /\ body'[t] = body[t]
    BY <1>1, HeldSteady
  <1>4. ASSUME body' = body, call' = call PROVE EachCovered'
    BY <1>1, <1>4, CoveredSame DEF WorthInv, EachCovered
  <1>5. ASSUME Quiet PROVE PooledPaid'
    <2>1. Mined' = Mined /\ Pooled(txs)' = Pooled(txs) /\ merged' = merged
      BY <1>5 DEF Quiet, Mined, Pooled
    <2> QED BY <1>2, <2>1 DEF WorthInv, PooledPaid
  <1>6. ASSUME NEW t \in Txs, NEW method \in AllMethods, NEW b, NEW r, Builds(t, method, b, r)
        PROVE  WorthInv'
    <2>1. \A u \in Txs : u # t => body'[u] = body[u] /\ call'[u] = call[u]
      BY <1>6 DEF Builds, Tells, CoreInv, PathType
    <2>2. ASSUME NEW u \in Txs PROVE CoveredAt(u)' /\ ShellAt(u)'
      <3>1. CASE u = t
        BY <1>1, <1>6, <3>1, BuildsCovered
      <3>2. CASE u # t
        BY <1>1, <2>1, <3>2, CoveredSame DEF WorthInv, EachCovered
      <3> QED BY <3>1, <3>2
    <2>3. EachCovered'
      BY <2>2 DEF EachCovered
    <2> QED BY <1>5, <1>6, <2>3, QuietSteps DEF WorthInv
  <1>7. ASSUME NEW t \in Txs, NEW r, Resends(t, r) PROVE WorthInv'
    <2>1. /\ body' = body /\ \A u \in Txs : u # t => call'[u] = call[u]
          /\ call[t] = "draft" \/ call'[t] = "error"
      BY <1>7 DEF Resends, Tells, CoreInv, PathType
    <2>2. ASSUME NEW u \in Txs PROVE CoveredAt(u)' /\ ShellAt(u)'
      <3>1. call'[u] = call[u] \/ body[u].method # "shell" \/ call'[u] = "error"
        BY <2>1 DEF CoreInv, SentReplied
      <3> QED BY <1>1, <2>1, <3>1, CoveredSame DEF WorthInv, EachCovered
    <2>3. EachCovered'
      BY <2>2 DEF EachCovered
    <2> QED BY <1>5, <1>7, <2>3, QuietSteps DEF WorthInv
  <1>8. ASSUME NEW t \in Txs, NEW map, ProcessTransaction(t, map) PROVE WorthInv'
    <2>1. body' = body /\ call' = call /\ merged' = merged /\ chain' = chain
      BY <1>8 DEF ProcessTransaction, Leaves, ledgers
    <2>2. Pooled(txs') \subseteq Pooled(txs) \cup {t}
      BY <1>8, ProcessCore
    <2>3. txs' = txs \/ MempoolValid(map, t, body[t])
      BY <1>8 DEF ProcessTransaction, poolVars
    <2>4. Mined' = Mined /\ (txs' = txs => Pooled(txs') = Pooled(txs))
      BY <2>1 DEF Mined
    <2>5. MempoolValid(map, t, body[t]) => body[t].method \in Covered \cup Unchecked
      BY AdmittedPaid DEF WorthInv, EachCovered
    <2>6. PooledPaid'
      <3>1. \A u \in Pooled(txs') : u \in Pooled(txs) \/ body[u].method \in Covered \cup Unchecked
        BY <2>2, <2>3, <2>4, <2>5
      <3>2. Pooled(txs)' = Pooled(txs')
        BY DEF Pooled
      <3> QED BY <2>1, <2>4, <3>1, <3>2 DEF WorthInv, PooledPaid
    <2> QED BY <1>4, <2>1, <2>6 DEF WorthInv
  <1>9. ASSUME NEW list \in Lists, SyncMempool(list) PROVE WorthInv'
    <2>1. body' = body /\ call' = call /\ merged' = merged \cup Pooled(list) /\ chain' = chain
      BY <1>9 DEF SyncMempool, ledgers
    <2>2. Pooled(txs') \subseteq Pooled(txs) \cup Pooled(list)
      BY <1>9, SyncCore
    <2>3. Mined' = Mined /\ Pooled(txs)' = Pooled(txs')
      BY <2>1 DEF Mined, Pooled
    <2>4. PooledPaid'
      BY <2>1, <2>2, <2>3 DEF WorthInv, PooledPaid
    <2> QED BY <1>4, <2>1, <2>4 DEF WorthInv
  <1>10. CASE MineBlock
    <2>1. PICK block : MinesBlock(block)
      BY <1>10, MineShape
    <2>2. /\ body' = body /\ call' = call /\ merged' = merged /\ block \subseteq Pooled(txs)
          /\ Pooled(txs') \subseteq Pooled(txs) /\ chain' = Append(chain, block)
          /\ block \in SUBSET Txs
      BY <2>1 DEF MinesBlock
    <2>3. \A t : t \in Mined' <=> (t \in Mined \/ t \in block)
      BY <2>2, MinedMore
    <2>4. Pooled(txs)' = Pooled(txs')
      BY DEF Pooled
    <2>5. PooledPaid'
      BY <2>2, <2>3, <2>4 DEF WorthInv, PooledPaid
    <2> QED BY <1>4, <2>2, <2>5 DEF WorthInv
  <1>11. ASSUME NEW t \in Txs, ValidateTransaction(t) \/ RejectTransaction(t) PROVE WorthInv'
    <2>1. body' = body /\ call' = call
      BY <1>11 DEF ValidateTransaction, RejectTransaction
    <2> QED BY <1>4, <1>5, <1>11, <2>1, QuietSteps DEF WorthInv
  <1>12. CASE ReceiveBlock \/ UNCHANGED vars
    <2>1. body' = body /\ call' = call
      BY <1>12 DEF ReceiveBlock, pathVars, vars
    <2> QED BY <1>4, <1>5, <1>12, <2>1, QuietSteps DEF WorthInv
  <1>13. CASE Next
    BY <1>1, <1>6, <1>7, <1>8, <1>9, <1>10, <1>11, <1>12, <1>13, NextShape
  <1> QED BY <1>12, <1>13

\* What the node's own calls have built is covered: whatever map the mempool admitted
\* it by, and beside what clients write themselves, it makes no more than it spends
\* less the fee, for any coins, amounts and fees, unless a peer's list brought it or
\* the client named its ID.
THEOREM ValueAlwaysKept == Spec => []ValueKept
  <1>1. Init => CoreInv /\ WorthInv
    BY InitCore, InitWorth
  <1>2. CoreInv /\ WorthInv /\ [Next]_vars => CoreInv' /\ WorthInv'
    BY NextCore, NextWorth
  <1>3. CoreInv /\ WorthInv => ValueKept
    <2> SUFFICES ASSUME CoreInv, WorthInv, NEW t \in Pooled(txs) \cup Mined,
                        t \notin merged, body[t].method \notin {"manual", "client", "system"}
                 PROVE  Value(OutsOf(t)) + Fee[t] <= Value(body[t].inputs)
      BY DEF ValueKept
    <2>1. t \in Txs
      <3>1. CASE t \in Pooled(txs)
        BY <3>1 DEF CoreInv, MempoolInv, PoolTypeOK, Pooled
      <3>2. CASE t \in Mined
        BY <3>2, MinedFacts DEF CoreInv, PathType
      <3> QED BY <3>1, <3>2
    <2>2. body[t].method \in Covered
      BY DEF WorthInv, PooledPaid, Unchecked
    <2> QED BY <2>1, <2>2 DEF WorthInv, EachCovered, CoveredAt
  <1> QED BY <1>1, <1>2, <1>3, PTL DEF Spec

-----------------------------------------------------------------------------
(* What the miner makes of the shell's transactions. *)

\* What is spent was used by a mined transaction; a map that was replaced while a
\* handler held it has the inputs of its transaction, and is no further than the chain.
MapsInv ==
    /\ minerPool.spent \subseteq Uses(Mined)
    /\ \A t \in Txs : \A map \in old[t] :
         /\ t \in checked /\ body[t].inputs \subseteq map.have
         /\ map.spent \subseteq Uses(Mined)

ShellInv == MapsInv /\ ShellRejectedOnlyIfSpent

\* An input of a mined transaction.
UsedFacts == \A o : o \in Uses(Mined) <=> \E t \in Mined : o \in body[t].inputs

\* That is what Uses is.
LEMMA UsedByMined == UsedFacts
  BY Zenon DEF UsedFacts, Uses

\* What was used stays so, while the chain keeps its transactions.
LEMMA UsedStays ==
    ASSUME CoreInv, Steady, Mined \subseteq Mined'
    PROVE  Uses(Mined) \subseteq Uses(Mined)'
  <1> SUFFICES ASSUME NEW o \in Uses(Mined) PROVE o \in Uses(Mined)'
    OBVIOUS
  <1>1. PICK t \in Mined : o \in body[t].inputs
    BY UsedByMined DEF UsedFacts
  <1>2. t \in Mined' /\ body'[t] = body[t]
    BY HeldSteady
  <1>3. UsedFacts'
    BY UsedByMined, PTL
  <1> QED BY <1>1, <1>2, <1>3 DEF UsedFacts

\* A step that adds no map: it is enough that the miner's pool and the new verdicts
\* are right.
LEMMA ShellKeeps ==
    ASSUME CoreInv, Steady, ShellInv, Mined \subseteq Mined',
           minerPool'.spent \subseteq Uses(Mined)',
           \A t \in Txs : old'[t] \subseteq old[t] /\ (old'[t] # {} => t \in checked'),
           \A t \in Txs : ended'[t] = "rejected" =>
                \/ ended[t] = "rejected"
                \/ call[t] # "none" /\ (body[t].method = "shell" => body[t].inputs \cap Uses(Mined) # {})
    PROVE  ShellInv'
  <1>1. Uses(Mined) \subseteq Uses(Mined)'
    BY UsedStays
  <1>2. ASSUME NEW t \in Txs, NEW map \in old'[t]
        PROVE  /\ t \in checked' /\ body'[t].inputs \subseteq map.have
               /\ map.spent \subseteq Uses(Mined)'
    <2>1. /\ map \in old[t] /\ t \in checked' /\ t \in checked
          /\ body[t].inputs \subseteq map.have /\ map.spent \subseteq Uses(Mined)
      BY DEF ShellInv, MapsInv
    <2>2. call[t] # "none"
      BY <2>1 DEF CoreInv, SentReplied, Sent
    <2>3. body'[t] = body[t]
      BY <2>2 DEF Steady
    <2> QED BY <1>1, <2>1, <2>3
  <1>3. MapsInv'
    BY <1>2 DEF MapsInv
  <1>4. ASSUME NEW t \in Txs, body'[t].method = "shell", ended'[t] = "rejected"
        PROVE  body'[t].inputs \cap Uses(Mined)' # {}
    <2>1. call[t] # "none"
      BY <1>4 DEF CoreInv, SentReplied, Sent
    <2>2. body'[t] = body[t]
      BY <2>1 DEF Steady
    <2>3. body[t].inputs \cap Uses(Mined) # {}
      BY <1>4, <2>2 DEF ShellInv, ShellRejectedOnlyIfSpent
    <2> QED BY <1>1, <2>2, <2>3
  <1>5. ShellRejectedOnlyIfSpent'
    BY <1>4 DEF ShellRejectedOnlyIfSpent
  <1> QED BY <1>3, <1>5 DEF ShellInv

\* A shell transaction on its way passes validateTransaction, and Mempool's rules
\* but for Spent, whichever map of the handler's they are applied to.
LEMMA ShellPasses ==
    ASSUME CoreInv, EachCovered, MapsInv, NEW t \in Txs, t \in wire \cup checked,
           body[t].method = "shell"
    PROVE  /\ VerifySignature(body[t]) /\ PoolValid(minerPool, t, body[t])
           /\ \A map \in old[t] \cup {minerPool} :
                MempoolValid(map, t, body[t]) \/ body[t].inputs \cap Uses(Mined) # {}
  <1>1. call[t] = "sent"
    BY DEF CoreInv, SentReplied, Sent
  <1>2. /\ Verifies(body[t].sig) /\ \A o \in body[t].inputs : Output(o).to = "self"
        /\ Value(body[t].inputs) >= Amount[t] + MaxGasFee(t, body[t])
    BY <1>1 DEF EachCovered, ShellAt
  <1>3. body[t].inputs \subseteq minerPool.have
    BY DEF CoreInv, PoolsBehind
  <1>4. Amount[t] \in Nat /\ Fee[t] \in Nat
    BY PathAssumption, MempoolAssumption
  <1>5. MaxGasFee(t, body[t]) \in Nat
    BY <1>4 DEF MaxGasFee
  <1>6. Value(body[t].inputs) \in Int
    <2>1. PICK I : I = body[t].inputs
      OBVIOUS
    <2>2. IsFiniteSet(I) /\ \A o \in I : Made(o)
      BY <1>3, <2>1 DEF CoreInv, PathType, PoolsBehind
    <2>3. Value(I) \in Int
      BY <2>2, ValueTyped DEF CoreInv
    <2> QED BY <2>1, <2>3
  <1>7. Value(body[t].inputs) >= Amount[t]
    BY <1>2, <1>4, <1>5, <1>6
  <1>8. PoolValid(minerPool, t, body[t])
    BY <1>2, <1>3, <1>7 DEF PoolValid
  <1>9. GasValid(body[t]) /\ VerifySignature(body[t])
    BY <1>2 DEF GasValid, VerifySignature
  <1>10. ASSUME NEW map \in old[t] \cup {minerPool}
         PROVE  MempoolValid(map, t, body[t]) \/ body[t].inputs \cap Uses(Mined) # {}
    <2>1. body[t].inputs \subseteq map.have /\ map.spent \subseteq Uses(Mined)
      <3>1. CASE map \in old[t]
        BY <3>1 DEF MapsInv
      <3>2. CASE map = minerPool
        BY <1>3, <3>2 DEF MapsInv
      <3> QED BY <3>1, <3>2
    <2>2. CASE body[t].inputs \cap map.spent = {}
      <3>1. body[t].inputs \subseteq map.have \ map.spent
        BY <2>1, <2>2
      <3> QED BY <1>2, <1>9, <3>1 DEF MempoolValid, PaymentValid
    <2>3. CASE body[t].inputs \cap map.spent # {}
      BY <2>1, <2>3
    <2> QED BY <2>2, <2>3
  <1> QED BY <1>8, <1>9, <1>10

\* A block: what it spends is used, and the pool that it replaces stays with the
\* handlers.
LEMMA MineShell ==
    ASSUME CoreInv, Steady, ShellInv, NEW block, MinesBlock(block)
    PROVE  ShellInv'
  <1>1. /\ block \in SUBSET Txs /\ IsFiniteSet(block) /\ chain' = Append(chain, block)
        /\ body' = body /\ ended' = ended /\ checked' = checked
    BY DEF MinesBlock
  <1>2. PICK kept \in Kept(block) : minerPool' = Apply(minerPool, block, kept)
    BY DEF MinesBlock
  <1>3. \A t : t \in Mined' <=> (t \in Mined \/ t \in block)
    BY <1>1, MinedMore
  <1>4. /\ minerPool \in Pools /\ minerPool.spent \subseteq minerPool.have
        /\ IsFiniteSet(minerPool.have) /\ PathType
    BY DEF CoreInv, PathType
  <1>5. minerPool'.spent \subseteq minerPool.spent \cup Uses(block)
    BY <1>1, <1>2, <1>4, ApplyFacts
  <1>6. Uses(Mined) \subseteq Uses(Mined)'
    BY <1>3, UsedStays
  <1>7. Uses(block) \subseteq Uses(Mined)'
    <2>1. UsedFacts'
      BY UsedByMined, PTL
    <2>2. \A o \in Uses(block) : \E t \in block : o \in body[t].inputs
      BY <1>1, <1>4, BlockOuts
    <2> QED BY <1>1, <1>3, <2>1, <2>2 DEF UsedFacts
  <1>8. minerPool'.spent \subseteq Uses(Mined)'
    BY <1>5, <1>6, <1>7 DEF ShellInv, MapsInv
  <1>9. ASSUME NEW t \in Txs, NEW map \in old'[t]
        PROVE  /\ t \in checked' /\ body'[t].inputs \subseteq map.have
               /\ map.spent \subseteq Uses(Mined)'
    <2>1. map \in old[t] \/ (map = minerPool /\ t \in checked)
      BY DEF MinesBlock
    <2>2. CASE map \in old[t]
      BY <1>1, <1>6, <2>2 DEF ShellInv, MapsInv
    <2>3. CASE map = minerPool /\ t \in checked
      BY <1>1, <1>6, <2>3 DEF ShellInv, MapsInv, CoreInv, PoolsBehind
    <2> QED BY <2>1, <2>2, <2>3
  <1>10. MapsInv'
    BY <1>8, <1>9 DEF MapsInv
  <1>11. ShellRejectedOnlyIfSpent'
    BY <1>1, <1>6 DEF ShellInv, ShellRejectedOnlyIfSpent
  <1> QED BY <1>10, <1>11 DEF ShellInv

\* Every step keeps the verdicts on shell transactions justified.
LEMMA NextShell == CoreInv /\ WorthInv /\ ShellInv /\ [Next]_vars => ShellInv'
  <1> SUFFICES ASSUME CoreInv, WorthInv, ShellInv, [Next]_vars
               PROVE  ShellInv'
    OBVIOUS
  <1>1. Steady /\ PathType /\ PoolsBehind /\ EachCovered /\ MapsInv
    BY NextCore DEF CoreInv, WorthInv, ShellInv
  <1>2. /\ ended \in [Txs -> {"no", "rejected", "refused", "duplicate"}]
        /\ old \in [Txs -> SUBSET Pools]
    BY <1>1 DEF PathType
  <1>3. ASSUME chain' = chain, minerPool' = minerPool
        PROVE  Mined \subseteq Mined' /\ minerPool'.spent \subseteq Uses(Mined)'
    <2>1. Mined' = Mined
      BY <1>3 DEF Mined
    <2>2. Uses(Mined) \subseteq Uses(Mined)'
      BY <1>1, <2>1, UsedStays
    <2> QED BY <1>1, <1>3, <2>1, <2>2 DEF MapsInv
  <1>4. ASSUME chain' = chain, minerPool' = minerPool, ended' = ended, old' = old,
               checked \subseteq checked'
        PROVE  ShellInv'
    <2>1. \A t \in Txs : old'[t] \subseteq old[t] /\ (old'[t] # {} => t \in checked')
      BY <1>1, <1>4 DEF MapsInv
    <2> QED BY <1>1, <1>3, <1>4, <2>1, ShellKeeps
  <1>5. ASSUME NEW t \in Txs, RejectTransaction(t) PROVE ShellInv'
    <2>1. /\ t \in wire /\ body' = body /\ minerPool' = minerPool /\ chain' = chain
          /\ old' = old /\ checked' = checked /\ ~Passes(t, body[t])
      BY <1>5 DEF RejectTransaction, ledgers
    <2>2. ended' = [ended EXCEPT ![t] = IF t \in Pooled(txs) THEN "duplicate" ELSE "rejected"]
      BY <1>5 DEF RejectTransaction, End
    <2>3. body[t].method = "shell" => t \in Pooled(txs)
      BY <1>1, <2>1, ShellPasses DEF Passes
    <2>4. call[t] # "none"
      BY <2>1 DEF CoreInv, SentReplied, Sent
    <2>5. \A u \in Txs : ended'[u] = "rejected" =>
                \/ ended[u] = "rejected"
                \/ call[u] # "none" /\ (body[u].method = "shell" => body[u].inputs \cap Uses(Mined) # {})
      BY <1>2, <2>2, <2>3, <2>4
    <2>6. \A u \in Txs : old'[u] \subseteq old[u] /\ (old'[u] # {} => u \in checked')
      BY <1>1, <2>1 DEF MapsInv
    <2> QED BY <1>1, <1>3, <2>1, <2>5, <2>6, ShellKeeps
  <1>6. ASSUME NEW t \in Txs, NEW map \in old[t] \cup {minerPool}, ProcessTransaction(t, map)
        PROVE  ShellInv'
    <2>1. /\ t \in checked /\ minerPool' = minerPool /\ chain' = chain
          /\ checked' = checked \ {t} /\ old' = [old EXCEPT ![t] = {}]
      BY <1>6 DEF ProcessTransaction, Leaves, ledgers
    <2>2. call[t] # "none"
      BY <2>1 DEF CoreInv, SentReplied, Sent
    <2>3. \/ ended' = ended \/ End(t, "refused") \/ End(t, "duplicate")
          \/ ~MempoolValid(map, t, body[t]) /\ End(t, "rejected")
      BY <1>6 DEF ProcessTransaction
    <2>4. ~MempoolValid(map, t, body[t]) /\ body[t].method = "shell" => body[t].inputs \cap Uses(Mined) # {}
      BY <1>1, <2>1, ShellPasses
    <2>5. \A u \in Txs : ended'[u] = "rejected" =>
                \/ ended[u] = "rejected"
                \/ call[u] # "none" /\ (body[u].method = "shell" => body[u].inputs \cap Uses(Mined) # {})
      BY <1>2, <2>2, <2>3, <2>4 DEF End
    <2>6. \A u \in Txs : old'[u] \subseteq old[u] /\ (old'[u] # {} => u \in checked')
      <3>1. \A u \in Txs : u # t => old'[u] = old[u]
        BY <1>2, <2>1
      <3>2. old'[t] = {}
        BY <1>2, <2>1
      <3> QED BY <1>1, <2>1, <3>1, <3>2 DEF MapsInv
    <2> QED BY <1>1, <1>3, <2>1, <2>5, <2>6, ShellKeeps
  <1>7. CASE MineBlock
    BY <1>1, <1>7, MineShape, MineShell
  <1>8. ASSUME NEW t \in Txs, NEW r, Tells(t, r) PROVE ShellInv'
    BY <1>4, <1>8 DEF Tells, ledgers
  <1>9. ASSUME NEW t \in Txs, ValidateTransaction(t) PROVE ShellInv'
    BY <1>4, <1>9 DEF ValidateTransaction, ledgers
  <1>10. ASSUME NEW list \in Lists, SyncMempool(list) PROVE ShellInv'
    BY <1>4, <1>10 DEF SyncMempool, ledgers
  <1>11. CASE ReceiveBlock
    BY <1>4, <1>11 DEF ReceiveBlock, pathVars
  <1>12. CASE UNCHANGED vars
    BY <1>4, <1>12 DEF vars, pathVars, ledgers
  <1>13. ASSUME NEW t \in Txs, NEW method \in AllMethods, NEW b, NEW r, Builds(t, method, b, r)
         PROVE  ShellInv'
    BY <1>8, <1>13 DEF Builds
  <1>14. ASSUME NEW t \in Txs, NEW r, Resends(t, r) PROVE ShellInv'
    BY <1>8, <1>14 DEF Resends
  <1>15. CASE Next
    BY <1>1, <1>5, <1>6, <1>7, <1>9, <1>10, <1>11, <1>13, <1>14, <1>15, NextShape
  <1> QED BY <1>12, <1>15

\* Nothing is spent, checked or ended at the start.
LEMMA InitShell == Init => ShellInv
  <1> SUFFICES ASSUME Init PROVE ShellInv
    OBVIOUS
  <1>1. MapsInv
    BY DEF Init, MapsInv
  <1>2. ShellRejectedOnlyIfSpent
    BY DEF Init, ShellRejectedOnlyIfSpent
  <1> QED BY <1>1, <1>2 DEF ShellInv

\* The shell applies the mempool's rules to its own, older pool; that is enough for
\* the miner to reject none of its transactions, by its pool or an old map of it, but
\* one of whose inputs a mined transaction has spent.
THEOREM ShellOnlySpentRejected == Spec => []ShellRejectedOnlyIfSpent
  <1>1. Init => CoreInv /\ WorthInv /\ ShellInv
    BY InitCore, InitWorth, InitShell
  <1>2. CoreInv /\ WorthInv /\ ShellInv /\ [Next]_vars => CoreInv' /\ WorthInv' /\ ShellInv'
    BY NextCore, NextWorth, NextShell
  <1>3. ShellInv => ShellRejectedOnlyIfSpent
    BY DEF ShellInv
  <1> QED BY <1>1, <1>2, <1>3, PTL DEF Spec
=============================================================================

--------------------------- MODULE StakePoolProofs ---------------------------
(* What holds of the stake pools for any number of nodes, restarts and       *)
(* amounts.  The bounds MaxStarts and MaxStaked are arbitrary numbers here.  *)
EXTENDS StakePool, TLAPS

-----------------------------------------------------------------------------
(* The operators. *)

\* Merging two well-formed pools in SyncWithPeer gives a well-formed pool.
LEMMA MergedType ==
    ASSUME NEW mine \in Pool, NEW theirs \in Pool
    PROVE  Merged(mine, theirs) \in Pool
<1>1. mine.amount \in [Wallets -> Nat] /\ theirs.amount \in [Wallets -> Nat]
  BY DEF Pool
<1>2. mine.host \in [Wallets -> Nat] /\ theirs.host \in [Wallets -> Nat]
  BY DEF Pool
<1>3. mine.known \subseteq Wallets /\ Taken(mine, theirs) \subseteq Wallets
  BY DEF Pool, Taken
<1>. QED
  BY <1>1, <1>2, <1>3 DEF Pool, Merged

\* The host mapping that SyncWithPeer leaves is well-formed.
LEMMA MergedHostsType ==
    ASSUME NEW mine \in Pool, NEW theirs \in Pool, NEW hosts \in [Wallets -> Nat]
    PROVE  MergedHosts(mine, theirs, hosts) \in [Wallets -> Nat]
<1>1. theirs.host \in [Wallets -> Nat]
  BY DEF Pool
<1>. QED
  BY <1>1 DEF MergedHosts

\* The empty stake pool of NewStakePool is well-formed.
LEMMA EmptyPoolType == EmptyPool \in Pool
  BY DEF EmptyPool, Pool

\* Writing or deleting one entry keeps a stake pool well-formed.
LEMMA EntryType ==
    ASSUME NEW p \in Pool, NEW w \in Wallets, NEW a \in Nat, NEW h \in Nat
    PROVE  Entry(p, w, a, h) \in Pool /\ NoEntry(p, w) \in Pool
<1>1. p.amount \in [Wallets -> Nat] /\ p.host \in [Wallets -> Nat] /\ p.known \subseteq Wallets
  BY DEF Pool
<1>. QED
  BY <1>1 DEF Pool, Entry, NoEntry

\* AddValidator, AddStake and RemoveStake keep all pools well-formed: amounts
\* stay natural numbers.
LEMMA PoolOperationsType ==
    ASSUME TypeOK, NEW n \in Nodes, NEW w \in Wallets, NEW a \in Nat, NEW h \in Nat,
           AddValidator(n, w, a, h) \/ AddStake(n, w, a, h) \/ RemoveStake(n, w, a)
    PROVE  /\ pool' \in [Nodes -> Pool]
           /\ toHost' \in [Nodes -> [Wallets -> Nat]]
<1>1. pool \in [Nodes -> Pool] /\ toHost \in [Nodes -> [Wallets -> Nat]]
  BY DEF TypeOK
<1>2. pool[n] \in Pool /\ toHost[n] \in [Wallets -> Nat]
  BY <1>1
<1>3. pool[n].amount[w] \in Nat /\ pool[n].host[w] \in Nat
  BY <1>2 DEF Pool
<1>4. PICK x \in Pool, y \in Nat :
        /\ pool' = [pool EXCEPT ![n] = x]
        /\ toHost' = toHost \/ toHost' = [toHost EXCEPT ![n][w] = y]
  <2>1. CASE AddValidator(n, w, a, h)
    <3>1. Entry(pool[n], w, pool[n].amount[w] + a, h) \in Pool
      BY <1>2, <1>3, EntryType
    <3>. QED
      BY <2>1, <3>1 DEF AddValidator
  <2>2. CASE AddStake(n, w, a, h)
    <3>1. Entry(pool[n], w, pool[n].amount[w] + a, pool[n].host[w]) \in Pool
      BY <1>2, <1>3, EntryType
    <3>. QED
      BY <2>2, <3>1 DEF AddStake
  <2>3. CASE RemoveStake(n, w, a)
    <3>1. CASE a = pool[n].amount[w]
      BY <1>2, <1>3, <2>3, <3>1, EntryType DEF RemoveStake
    <3>2. CASE a # pool[n].amount[w]
      <4>1. pool[n].amount[w] - a \in Nat
        BY <1>3, <2>3 DEF RemoveStake
      <4>. QED
        BY <1>2, <1>3, <2>3, <3>2, <4>1, EntryType DEF RemoveStake
    <3>. QED
      BY <3>1, <3>2
  <2>. QED
    BY <2>1, <2>2, <2>3
<1>5. pool' \in [Nodes -> Pool]
  BY <1>1, <1>4
<1>6. toHost' \in [Nodes -> [Wallets -> Nat]]
  BY <1>1, <1>2, <1>4
<1>. QED
  BY <1>5, <1>6

-----------------------------------------------------------------------------
(* Type correctness. *)

\* The initial stake pools are well-formed.
LEMMA TypeInit == Init => TypeOK
<1>. SUFFICES ASSUME Init PROVE TypeOK
  OBVIOUS
<1>. USE StakeAssumption DEF Init, Wallets
<1>1. pool \in [Nodes -> Pool]
  BY EmptyPoolType DEF Pool
<1>2. answer \in [Nodes -> Pool]
  BY EmptyPoolType
<1>. QED
  BY <1>1, <1>2 DEF TypeOK, Phases

\* Every step of a node, a handler or an RPC call keeps the state well-formed.
LEMMA TypeNext == TypeOK /\ [Next]_vars => TypeOK'
<1>. SUFFICES ASSUME TypeOK, [Next]_vars PROVE TypeOK'
  OBVIOUS
<1>. USE StakeAssumption DEF Wallets
<1>1. CASE UNCHANGED vars
  BY <1>1 DEF TypeOK, vars, pools, syncing, telling
<1>2. ASSUME NEW n \in Nodes, NEW p \in Nodes, StartSync(n, p) PROVE TypeOK'
  BY <1>2 DEF TypeOK, StartSync, pools, telling
<1>3. ASSUME NEW n \in Nodes, Admit(n) PROVE TypeOK'
  BY <1>3 DEF TypeOK, Admit, pools, telling
<1>4. ASSUME NEW n \in Nodes, Encode(n) PROVE TypeOK'
  BY <1>4 DEF TypeOK, Encode, pools, telling
<1>5. ASSUME NEW n \in Nodes, Merge(n) PROVE TypeOK'
  <2>1. pool' \in [Nodes -> Pool]
    BY <1>5, MergedType DEF TypeOK, Merge
  <2>2. toHost' \in [Nodes -> [Wallets -> Nat]]
    BY <1>5, MergedHostsType DEF TypeOK, Merge
  <2>3. answer' \in [Nodes -> Pool]
    BY <1>5, EmptyPoolType DEF TypeOK, Merge
  <2>. QED
    BY <1>5, <2>1, <2>2, <2>3 DEF TypeOK, Merge, AfterSync, Phases, telling
<1>6. ASSUME NEW n \in Nodes, SyncFails(n) PROVE TypeOK'
  BY <1>6, EmptyPoolType DEF TypeOK, SyncFails, AfterSync, Phases, pools, telling
<1>7. ASSUME NEW n \in Nodes, Register(n) PROVE TypeOK'
  <2>1. n \in Wallets /\ starts[n] \in Nat
    BY <1>7 DEF Register, TypeOK
  <2>2. pool' \in [Nodes -> Pool] /\ toHost' \in [Nodes -> [Wallets -> Nat]]
    BY <1>7, <2>1, PoolOperationsType DEF Register
  <2>3. untold' \in [Nodes -> SUBSET Nodes]
    BY <1>7 DEF Register, TypeOK
  <2>4. staked' \in [Wallets -> Nat]
    BY <1>7, <2>1 DEF Register, TypeOK
  <2>. QED
    BY <1>7, <2>1, <2>2, <2>3, <2>4 DEF TypeOK, Register, Phases, syncing
<1>8. ASSUME NEW n \in Nodes, NEW p \in Nodes, TellFails(n, p) \/ Tell(n, p) PROVE TypeOK'
  <2>1. untold[n] \ {p} \in SUBSET Nodes
    BY DEF TypeOK
  <2>2. untold' = [untold EXCEPT ![n] = untold[n] \ {p}]
    BY <1>8 DEF TellFails, Tell
  <2>3. untold' \in [Nodes -> SUBSET Nodes]
    BY <2>1, <2>2 DEF TypeOK
  <2>4. CASE TellFails(n, p)
    BY <2>3, <2>4 DEF TypeOK, TellFails, pools, syncing
  <2>5. CASE Tell(n, p)
    BY <2>3, <2>5 DEF TypeOK, Tell, pools, syncing
  <2>. QED
    BY <1>8, <2>4, <2>5
<1>9. ASSUME NEW n \in Nodes, Disconnect(n) \/ TellEnds(n) \/ BroadcastDone(n) PROVE TypeOK'
  <2>1. CASE Disconnect(n)
    BY <2>1 DEF TypeOK, Disconnect, Phases, pools, syncing, telling
  <2>2. CASE TellEnds(n)
    BY <2>2 DEF TypeOK, TellEnds, Phases, pools, syncing, telling
  <2>3. CASE BroadcastDone(n)
    BY <2>3 DEF TypeOK, BroadcastDone, Phases, pools, syncing, telling
  <2>. QED
    BY <1>9, <2>1, <2>2, <2>3
<1>10. ASSUME NEW n \in Nodes, NEW w \in Wallets, NEW a \in RpcAmounts, StakeTokens(n, w, a)
       PROVE  TypeOK'
  <2>1. pool' \in [Nodes -> Pool] /\ toHost' \in [Nodes -> [Wallets -> Nat]]
    BY <1>10, PoolOperationsType DEF StakeTokens
  <2>. QED
    BY <1>10, <2>1 DEF TypeOK, StakeTokens, syncing, telling
<1>11. ASSUME NEW n \in Nodes, NEW w \in Wallets, NEW a \in RpcAmounts,
              CheckUnstake(n, w, a) \/ UnstakeFails(n, w, a)
       PROVE  TypeOK'
  <2>1. /\ unstaking[n] \cup {<<w, a>>} \in SUBSET (Wallets \X RpcAmounts)
        /\ unstaking[n] \ {<<w, a>>} \in SUBSET (Wallets \X RpcAmounts)
    BY DEF TypeOK
  <2>2. PICK calls \in SUBSET (Wallets \X RpcAmounts) :
          unstaking' = [unstaking EXCEPT ![n] = calls]
    BY <1>11, <2>1 DEF CheckUnstake, UnstakeFails
  <2>3. unstaking' \in [Nodes -> SUBSET (Wallets \X RpcAmounts)]
    BY <2>2 DEF TypeOK
  <2>. QED
    BY <1>11, <2>3 DEF TypeOK, CheckUnstake, UnstakeFails, pools, syncing, telling
<1>12. ASSUME NEW n \in Nodes, NEW w \in Wallets, NEW a \in RpcAmounts, UnstakeTokens(n, w, a)
       PROVE  TypeOK'
  <2>1. pool' \in [Nodes -> Pool] /\ toHost' \in [Nodes -> [Wallets -> Nat]]
    BY <1>12, PoolOperationsType DEF UnstakeTokens
  <2>2. unstaking[n] \ {<<w, a>>} \in SUBSET (Wallets \X RpcAmounts)
    BY DEF TypeOK
  <2>3. unstaking' \in [Nodes -> SUBSET (Wallets \X RpcAmounts)]
    BY <1>12, <2>2 DEF TypeOK, UnstakeTokens
  <2>. QED
    BY <1>12, <2>1, <2>3 DEF TypeOK, UnstakeTokens, syncing, telling
<1>13. ASSUME NEW n \in Nodes, Restart(n) PROVE TypeOK'
  BY <1>13, EmptyPoolType DEF TypeOK, Restart, Phases
<1>. QED
  BY <1>1, <1>2, <1>3, <1>4, <1>5, <1>6, <1>7, <1>8, <1>9, <1>10, <1>11, <1>12, <1>13
     DEF Next, Run, Rpc

\* Every reachable state is well typed; an amount of stake, a uint64 in the
\* code, never falls below zero, however unstakeTokens calls interleave.
THEOREM StakeTypeCorrect == Spec => []TypeOK
<1>. QED
  BY TypeInit, TypeNext, PTL DEF Spec

-----------------------------------------------------------------------------
(* No inflation.  An answer that is on its way counts no more than was       *)
(* staked either: it was read from some pool, and staked never decreases.    *)

AnswersBacked == \A n \in Nodes, w \in Wallets : answer[n].amount[w] <= staked[w]

StakeInv == TypeOK /\ NoInflation /\ AnswersBacked

\* SyncWithPeer takes each amount from one of the two pools it merges.
LEMMA MergedAmount ==
    ASSUME NEW mine, NEW theirs, NEW w \in Wallets
    PROVE  \/ Merged(mine, theirs).amount[w] = mine.amount[w]
           \/ Merged(mine, theirs).amount[w] = theirs.amount[w]
  BY DEF Merged

\* Init, where only the genesis validator has a stake, satisfies the invariant.
LEMMA StakeInvInit == Init => StakeInv
<1>. SUFFICES ASSUME Init PROVE StakeInv
  OBVIOUS
<1>1. TypeOK
  BY TypeInit
<1>2. NoInflation
  BY StakeAssumption DEF Init, NoInflation, EmptyPool, Wallets
<1>3. AnswersBacked
  BY StakeAssumption DEF Init, AnswersBacked, EmptyPool, Wallets
<1>. QED
  BY <1>1, <1>2, <1>3 DEF StakeInv

\* Steps that leave the pools, the answers and the stakes alone.
LEMMA StakeInvIdle ==
    ASSUME StakeInv, TypeOK', UNCHANGED <<pool, answer, staked>>
    PROVE  StakeInv'
  BY DEF StakeInv, NoInflation, AnswersBacked

\* AddValidator and AddStake add to a pool what is added to the stake.
LEMMA StakeInvAdd ==
    ASSUME StakeInv, TypeOK', NEW n \in Nodes, NEW w \in Wallets, NEW a \in Nat, NEW h,
           AddValidator(n, w, a, h) \/ AddStake(n, w, a, h),
           staked' = [staked EXCEPT ![w] = @ + a], UNCHANGED answer
    PROVE  StakeInv'
<1>1. pool \in [Nodes -> Pool] /\ staked \in [Wallets -> Nat] /\ answer \in [Nodes -> Pool]
  BY DEF StakeInv, TypeOK
<1>2. \A v \in Wallets : staked[v] \in Nat /\ staked'[v] \in Nat /\ staked[v] <= staked'[v]
  BY <1>1
<1>3. \A m \in Nodes, v \in Wallets :
        /\ pool[m].amount \in [Wallets -> Nat] /\ answer[m].amount \in [Wallets -> Nat]
        /\ pool[m].amount[v] \in Nat /\ answer[m].amount[v] \in Nat
  BY <1>1 DEF Pool
<1>4. PICK x : pool' = [pool EXCEPT ![n] = Entry(pool[n], w, pool[n].amount[w] + a, x)]
  BY DEF AddValidator, AddStake
<1>5. NoInflation'
  <2>. SUFFICES ASSUME NEW m \in Nodes, NEW v \in Wallets
                PROVE  pool'[m].amount[v] <= staked'[v]
    BY DEF NoInflation
  <2>1. pool[m].amount[v] <= staked[v]
    BY DEF StakeInv, NoInflation
  <2>2. CASE m = n /\ v = w
    <3>1. pool'[m].amount[v] = pool[n].amount[w] + a
      BY <1>1, <1>3, <1>4, <2>2 DEF Entry
    <3>. QED
      BY <1>1, <1>3, <2>1, <2>2, <3>1
  <2>3. CASE ~(m = n /\ v = w)
    <3>1. pool'[m].amount[v] = pool[m].amount[v]
      BY <1>1, <1>3, <1>4, <2>3 DEF Entry
    <3>. QED
      BY <1>2, <1>3, <2>1, <3>1
  <2>. QED
    BY <2>2, <2>3
<1>6. AnswersBacked'
  BY <1>2, <1>3 DEF StakeInv, AnswersBacked
<1>. QED
  BY <1>5, <1>6 DEF StakeInv

\* Every step keeps the invariant.
LEMMA StakeInvNext == StakeInv /\ [Next]_vars => StakeInv'
<1>. SUFFICES ASSUME StakeInv, [Next]_vars PROVE StakeInv'
  OBVIOUS
<1>0. TypeOK /\ TypeOK'
  BY TypeNext DEF StakeInv
<1>a. \A n \in Nodes, w \in Wallets :
        /\ pool[n] \in Pool /\ answer[n] \in Pool
        /\ pool[n].amount \in [Wallets -> Nat]
        /\ pool[n].amount[w] \in Nat /\ answer[n].amount[w] \in Nat /\ staked[w] \in Nat
        /\ pool[n].amount[w] <= staked[w] /\ answer[n].amount[w] <= staked[w]
  BY DEF StakeInv, TypeOK, NoInflation, AnswersBacked, Pool
<1>1. CASE UNCHANGED vars
  BY <1>0, <1>1, StakeInvIdle DEF vars, pools, syncing
<1>2. ASSUME NEW n \in Nodes, NEW p \in Nodes, StartSync(n, p) PROVE StakeInv'
  BY <1>0, <1>2, StakeInvIdle DEF StartSync, pools
<1>3. ASSUME NEW n \in Nodes, Admit(n) PROVE StakeInv'
  BY <1>0, <1>3, StakeInvIdle DEF Admit, pools
<1>4. ASSUME NEW n \in Nodes, Encode(n) PROVE StakeInv'
  <2>1. partner[n] \in Nodes
    BY <1>0 DEF TypeOK
  <2>2. AnswersBacked'
    BY <1>0, <1>4, <1>a, <2>1 DEF AnswersBacked, Encode, TypeOK
  <2>. QED
    BY <1>0, <1>4, <2>2 DEF StakeInv, NoInflation, Encode, pools
<1>5. ASSUME NEW n \in Nodes, Merge(n) PROVE StakeInv'
  <2>1. UNCHANGED staked
    BY <1>5 DEF Merge
  <2>2. \A w \in Wallets : Merged(pool[n], answer[n]).amount[w] <= staked[w]
    BY <1>a, MergedAmount
  <2>3. NoInflation'
    BY <1>0, <1>5, <1>a, <2>1, <2>2 DEF NoInflation, Merge, TypeOK
  <2>4. \A w \in Wallets : EmptyPool.amount[w] = 0
    BY DEF EmptyPool
  <2>5. AnswersBacked'
    BY <1>0, <1>5, <1>a, <2>1, <2>4 DEF AnswersBacked, Merge, TypeOK
  <2>. QED
    BY <1>0, <2>3, <2>5 DEF StakeInv
<1>6. ASSUME NEW n \in Nodes, SyncFails(n) PROVE StakeInv'
  <2>1. \A w \in Wallets : EmptyPool.amount[w] = 0
    BY DEF EmptyPool
  <2>2. AnswersBacked'
    BY <1>0, <1>6, <1>a, <2>1 DEF AnswersBacked, SyncFails, TypeOK
  <2>. QED
    BY <1>0, <1>6, <2>2 DEF StakeInv, NoInflation, SyncFails, pools
<1>7. ASSUME NEW n \in Nodes, Register(n) PROVE StakeInv'
  BY <1>0, <1>7, StakeInvAdd, StakeAssumption DEF Register, syncing, Wallets
<1>8. ASSUME NEW n \in Nodes, NEW p \in Nodes, TellFails(n, p) \/ Tell(n, p) PROVE StakeInv'
  BY <1>0, <1>8, StakeInvIdle DEF TellFails, Tell, pools, syncing
<1>9. ASSUME NEW n \in Nodes, Disconnect(n) \/ TellEnds(n) \/ BroadcastDone(n) PROVE StakeInv'
  BY <1>0, <1>9, StakeInvIdle DEF Disconnect, TellEnds, BroadcastDone, pools, syncing
<1>10. ASSUME NEW n \in Nodes, NEW w \in Wallets, NEW a \in RpcAmounts, StakeTokens(n, w, a)
       PROVE  StakeInv'
  BY <1>0, <1>10, StakeInvAdd, StakeAssumption DEF StakeTokens, syncing
<1>11. ASSUME NEW n \in Nodes, NEW w \in Wallets, NEW a \in RpcAmounts,
              CheckUnstake(n, w, a) \/ UnstakeFails(n, w, a)
       PROVE  StakeInv'
  BY <1>0, <1>11, StakeInvIdle DEF CheckUnstake, UnstakeFails, pools, syncing
<1>12. ASSUME NEW n \in Nodes, NEW w \in Wallets, NEW a \in RpcAmounts, UnstakeTokens(n, w, a)
       PROVE  StakeInv'
  <2>1. a \in Nat
    BY StakeAssumption
  <2>2. PICK x \in Nat, y \in Pool :
          /\ x <= pool[n].amount[w]
          /\ y.amount = [pool[n].amount EXCEPT ![w] = x]
          /\ pool' = [pool EXCEPT ![n] = y]
    <3>1. CASE a = pool[n].amount[w]
      <4>1. NoEntry(pool[n], w) \in Pool
        BY <1>a, <2>1, EntryType
      <4>2. pool' = [pool EXCEPT ![n] = NoEntry(pool[n], w)]
        BY <1>12, <3>1 DEF UnstakeTokens, RemoveStake
      <4>3. NoEntry(pool[n], w).amount = [pool[n].amount EXCEPT ![w] = 0]
        BY DEF NoEntry
      <4>4. 0 <= pool[n].amount[w]
        BY <1>a
      <4>. QED
        BY <4>1, <4>2, <4>3, <4>4
    <3>2. CASE a # pool[n].amount[w]
      <4>1. pool[n].amount[w] - a \in Nat /\ pool[n].host[w] \in Nat
        BY <1>12, <1>a, <2>1 DEF UnstakeTokens, RemoveStake, Pool
      <4>2. Entry(pool[n], w, pool[n].amount[w] - a, pool[n].host[w]) \in Pool
        BY <1>a, <4>1, EntryType
      <4>3. pool' = [pool EXCEPT ![n] = Entry(pool[n], w, pool[n].amount[w] - a, pool[n].host[w])]
        BY <1>12, <3>2 DEF UnstakeTokens, RemoveStake
      <4>4. Entry(pool[n], w, pool[n].amount[w] - a, pool[n].host[w]).amount
              = [pool[n].amount EXCEPT ![w] = pool[n].amount[w] - a]
        BY DEF Entry
      <4>5. pool[n].amount[w] - a <= pool[n].amount[w]
        BY <1>a, <2>1
      <4>. QED
        BY <4>1, <4>2, <4>3, <4>4, <4>5
    <3>. QED
      BY <3>1, <3>2
  <2>3. NoInflation'
    <3>. SUFFICES ASSUME NEW m \in Nodes, NEW v \in Wallets
                  PROVE  pool'[m].amount[v] <= staked[v]
      BY <1>12 DEF NoInflation, UnstakeTokens
    <3>1. CASE m = n
      <4>1. pool'[m].amount = [pool[n].amount EXCEPT ![w] = x]
        BY <1>0, <2>2, <3>1 DEF TypeOK
      <4>2. pool'[m].amount[v] <= pool[m].amount[v]
        BY <1>a, <2>2, <3>1, <4>1
      <4>3. pool'[m].amount[v] \in Nat
        BY <1>0 DEF TypeOK, Pool
      <4>. QED
        BY <1>a, <4>2, <4>3
    <3>2. CASE m # n
      BY <1>0, <1>a, <2>2, <3>2 DEF TypeOK
    <3>. QED
      BY <3>1, <3>2
  <2>. QED
    BY <1>0, <1>12, <2>3 DEF StakeInv, AnswersBacked, UnstakeTokens, syncing
<1>13. ASSUME NEW n \in Nodes, Restart(n) PROVE StakeInv'
  <2>1. \A w \in Wallets : EmptyPool.amount[w] = 0
    BY DEF EmptyPool
  <2>2. AnswersBacked'
    BY <1>0, <1>13, <1>a, <2>1 DEF AnswersBacked, Restart, TypeOK
  <2>3. NoInflation'
    BY <1>0, <1>13, <1>a, <2>1 DEF NoInflation, Restart, TypeOK
  <2>. QED
    BY <1>0, <2>2, <2>3 DEF StakeInv
<1>. QED
  BY <1>1, <1>2, <1>3, <1>4, <1>5, <1>6, <1>7, <1>8, <1>9, <1>10, <1>11, <1>12, <1>13
     DEF Next, Run, Rpc

\* No pool ever counts more for a wallet than was staked for it, for any number
\* of nodes, validators, restarts and RPC calls.
THEOREM NeverInflated == Spec => []NoInflation
<1>1. StakeInv => NoInflation
  BY DEF StakeInv
<1>. QED
  BY <1>1, StakeInvInit, StakeInvNext, PTL DEF Spec

-----------------------------------------------------------------------------
(* Networks in which no node serves stakeTokens and unstakeTokens.           *)
(* A wallet without an entry has amount 0, so that taking over the peer's    *)
(* entry for it cannot lower anything.                                       *)

UnknownIsZero == \A n \in Nodes, w \in Wallets : w \notin pool[n].known => pool[n].amount[w] = 0
NothingUnstaking == \A n \in Nodes : unstaking[n] = {}

PlainInv == TypeOK /\ UnknownIsZero /\ NothingUnstaking /\ HostsAgree

\* The initial state, and the empty pool of a restarted node, satisfy it.
LEMMA PlainInvInit == Init => PlainInv
<1>. SUFFICES ASSUME Init PROVE PlainInv
  OBVIOUS
<1>1. TypeOK
  BY TypeInit
<1>2. UnknownIsZero
  BY StakeAssumption DEF Init, UnknownIsZero, EmptyPool, Wallets
<1>3. HostsAgree
  BY StakeAssumption DEF Init, HostsAgree, EmptyPool, Wallets
<1>. QED
  BY <1>1, <1>2, <1>3 DEF PlainInv, NothingUnstaking, Init

\* What a step may do to the pool of one node m.
PoolStep(m) ==
    /\ UnknownIsZero /\ HostsAgree =>
         \A w \in Wallets : /\ w \notin pool'[m].known => pool'[m].amount[w] = 0
                            /\ w \in pool'[m].known => toHost'[m][w] = pool'[m].host[w]
    /\ starts'[m] = starts[m] => \A w \in Wallets : pool'[m].amount[w] >= pool[m].amount[w]

\* Without RPC every step treats every pool that way: only Merge, Register and
\* Restart touch one.
LEMMA PlainStep ==
    ASSUME RpcNodes = {}, PlainInv, [Next]_vars
    PROVE  NothingUnstaking' /\ \A m \in Nodes : PoolStep(m)
<1>0. TypeOK /\ TypeOK'
  BY TypeNext DEF PlainInv
<1>a. \A n \in Nodes :
        /\ pool[n] \in Pool /\ answer[n] \in Pool /\ toHost[n] \in [Wallets -> Nat]
        /\ pool[n].amount \in [Wallets -> Nat] /\ pool[n].host \in [Wallets -> Nat]
        /\ \A w \in Wallets : pool[n].amount[w] \in Nat /\ answer[n].amount[w] \in Nat
  BY <1>0 DEF TypeOK, Pool
<1>b. ASSUME NEW m \in Nodes, pool'[m] = pool[m], toHost'[m] = toHost[m] PROVE PoolStep(m)
  BY <1>a, <1>b DEF PoolStep, UnknownIsZero, HostsAgree
<1>1. ASSUME UNCHANGED <<pool, toHost, unstaking>>
      PROVE  NothingUnstaking' /\ \A m \in Nodes : PoolStep(m)
  BY <1>1, <1>b DEF PlainInv, NothingUnstaking
<1>2. ASSUME NEW n \in Nodes, Merge(n)
      PROVE  NothingUnstaking' /\ \A m \in Nodes : PoolStep(m)
  <2>1. NothingUnstaking'
    BY <1>2 DEF Merge, PlainInv, NothingUnstaking
  <2>2. /\ pool'[n] = Merged(pool[n], answer[n])
        /\ toHost'[n] = MergedHosts(pool[n], answer[n], toHost[n])
        /\ \A m \in Nodes \ {n} : pool'[m] = pool[m] /\ toHost'[m] = toHost[m]
    BY <1>0, <1>2 DEF Merge, TypeOK
  <2>3. PoolStep(n)
    <3>1. \A w \in Wallets : w \notin pool[n].known => pool[n].amount[w] = 0
      BY DEF PlainInv, UnknownIsZero
    <3>2. \A w \in Wallets : w \in pool[n].known => toHost[n][w] = pool[n].host[w]
      BY DEF PlainInv, HostsAgree
    <3>3. \A w \in Wallets : w \notin pool'[n].known => pool'[n].amount[w] = 0
      BY <2>2, <3>1 DEF Merged
    <3>4. \A w \in Wallets : w \in pool'[n].known => toHost'[n][w] = pool'[n].host[w]
      BY <2>2, <3>2 DEF Merged, MergedHosts
    <3>5. \A w \in Wallets : pool'[n].amount[w] >= pool[n].amount[w]
      BY <1>a, <2>2, <3>1 DEF Merged, Taken
    <3>. QED
      BY <3>3, <3>4, <3>5 DEF PoolStep
  <2>. QED
    BY <1>b, <2>1, <2>2, <2>3
<1>3. ASSUME NEW n \in Nodes, Register(n)
      PROVE  NothingUnstaking' /\ \A m \in Nodes : PoolStep(m)
  <2>1. NothingUnstaking'
    BY <1>3 DEF Register, PlainInv, NothingUnstaking
  <2>2. /\ n \in Wallets
        /\ pool'[n] = Entry(pool[n], n, pool[n].amount[n] + Stake, starts[n])
        /\ toHost'[n] = [toHost[n] EXCEPT ![n] = starts[n]]
        /\ \A m \in Nodes \ {n} : pool'[m] = pool[m] /\ toHost'[m] = toHost[m]
    BY <1>0, <1>3 DEF Register, AddValidator, TypeOK, Wallets
  <2>3. PoolStep(n)
    <3>1. \A w \in Wallets : w \notin pool[n].known => pool[n].amount[w] = 0
      BY DEF PlainInv, UnknownIsZero
    <3>2. \A w \in Wallets : w \in pool[n].known => toHost[n][w] = pool[n].host[w]
      BY DEF PlainInv, HostsAgree
    <3>3. \A w \in Wallets : w \notin pool'[n].known => pool'[n].amount[w] = 0
      BY <1>a, <2>2, <3>1 DEF Entry
    <3>4. \A w \in Wallets : w \in pool'[n].known => toHost'[n][w] = pool'[n].host[w]
      BY <1>a, <2>2, <3>2 DEF Entry
    <3>5. \A w \in Wallets : pool'[n].amount[w] >= pool[n].amount[w]
      BY <1>a, <2>2, StakeAssumption DEF Entry
    <3>. QED
      BY <3>3, <3>4, <3>5 DEF PoolStep
  <2>. QED
    BY <1>b, <2>1, <2>2, <2>3
<1>4. ASSUME NEW n \in Nodes, Restart(n)
      PROVE  NothingUnstaking' /\ \A m \in Nodes : PoolStep(m)
  <2>1. NothingUnstaking'
    BY <1>0, <1>4 DEF Restart, PlainInv, NothingUnstaking, TypeOK
  <2>2. /\ pool'[n] = EmptyPool
        /\ starts'[n] = starts[n] + 1 /\ starts[n] \in Nat
        /\ \A m \in Nodes \ {n} : pool'[m] = pool[m] /\ toHost'[m] = toHost[m]
    BY <1>0, <1>4 DEF Restart, TypeOK
  <2>3. PoolStep(n)
    BY <2>2 DEF PoolStep, EmptyPool
  <2>. QED
    BY <1>b, <2>1, <2>2, <2>3
<1>5. ASSUME NEW n \in Nodes, NEW w \in Wallets, NEW a \in RpcAmounts
      PROVE  /\ ~StakeTokens(n, w, a) /\ ~CheckUnstake(n, w, a)
             /\ ~UnstakeTokens(n, w, a) /\ ~UnstakeFails(n, w, a)
  BY DEF StakeTokens, CheckUnstake, UnstakeTokens, UnstakeFails, PlainInv, NothingUnstaking
<1>6. ASSUME NEW n \in Nodes, NEW p \in Nodes,
             \/ StartSync(n, p) \/ Admit(n) \/ Encode(n) \/ SyncFails(n)
             \/ TellFails(n, p) \/ Tell(n, p) \/ Disconnect(n) \/ TellEnds(n) \/ BroadcastDone(n)
      PROVE  UNCHANGED <<pool, toHost, unstaking>>
  BY <1>6 DEF StartSync, Admit, Encode, SyncFails, TellFails, Tell, Disconnect, TellEnds,
              BroadcastDone, pools
<1>7. CASE UNCHANGED vars
  BY <1>1, <1>7 DEF vars, pools
<1>8. CASE Next
  BY <1>1, <1>2, <1>3, <1>4, <1>5, <1>6, <1>8 DEF Next, Run, Rpc
<1>. QED
  BY <1>7, <1>8

\* Without RPC every step keeps the invariant.
LEMMA PlainInvNext ==
    ASSUME RpcNodes = {}
    PROVE  PlainInv /\ [Next]_vars => PlainInv'
<1>. SUFFICES ASSUME PlainInv, [Next]_vars PROVE PlainInv'
  OBVIOUS
<1>1. TypeOK'
  BY TypeNext DEF PlainInv
<1>2. NothingUnstaking' /\ \A m \in Nodes : PoolStep(m)
  BY PlainStep
<1>3. UnknownIsZero' /\ HostsAgree'
  BY <1>2 DEF PoolStep, PlainInv, UnknownIsZero, HostsAgree
<1>. QED
  BY <1>1, <1>2, <1>3 DEF PlainInv

\* StakeInfo.HostID and WalletToHost always agree, for any number of nodes and
\* restarts, as long as no node serves stakeTokens.
THEOREM HostsAlwaysAgree ==
    ASSUME RpcNodes = {}
    PROVE  Spec => []HostsAgree
<1>1. PlainInv => HostsAgree
  BY DEF PlainInv
<1>2. PlainInv /\ [Next]_vars => PlainInv'
  BY PlainInvNext
<1>. QED
  BY <1>1, <1>2, PlainInvInit, PTL DEF Spec

\* Without unstakeTokens no step but a restart lowers a stake in a pool: a merge
\* with a peer that knows less takes nothing away.
THEOREM StakeAlwaysKept ==
    ASSUME RpcNodes = {}
    PROVE  Spec => StakeKept
<1>1. PlainInv /\ [Next]_vars =>
        [\A n \in Nodes, w \in Wallets :
            starts'[n] = starts[n] => pool'[n].amount[w] >= pool[n].amount[w]]_vars
  BY PlainStep DEF PoolStep
<1>2. PlainInv /\ [Next]_vars => PlainInv'
  BY PlainInvNext
<1>. QED
  BY <1>1, <1>2, PlainInvInit, PTL DEF Spec, StakeKept

-----------------------------------------------------------------------------
(* Every entry that a pool or an answer has carries a host ID.  Without     *)
(* stakeTokens each began as a registration, whose host is a start counted  *)
(* from 1, and handleStakeSync passes entries on as they are.               *)

HostsSet(p) == \A w \in Wallets : w \in p.known => p.host[w] # 0
EntriesHaveHosts == \A n \in Nodes : HostsSet(pool[n]) /\ HostsSet(answer[n])
Started == \A n \in Nodes : starts[n] > 0

ReachInv == PlainInv /\ EntriesHaveHosts /\ Started

\* The genesis validator has a host, and nobody else has an entry.
LEMMA ReachInvInit == Init => ReachInv
<1>. SUFFICES ASSUME Init PROVE ReachInv
  OBVIOUS
<1>1. HostsSet(EmptyPool)
  BY DEF HostsSet, EmptyPool
<1>2. ASSUME NEW n \in Nodes PROVE HostsSet(pool[n])
  <2>1. CASE n # GenesisNode
    BY <1>1, <2>1 DEF Init
  <2>2. CASE n = GenesisNode
    BY <2>2 DEF Init, HostsSet
  <2>. QED
    BY <2>1, <2>2
<1>3. \A n \in Nodes : answer[n] = EmptyPool /\ starts[n] = 1
  BY DEF Init
<1>. QED
  BY <1>1, <1>2, <1>3, PlainInvInit DEF ReachInv, EntriesHaveHosts, Started

\* Without RPC, Merge takes entries from an answer, Encode copies them into one,
\* Register makes one with a host, and a restart forgets them all.
LEMMA ReachInvNext ==
    ASSUME RpcNodes = {}
    PROVE  ReachInv /\ [Next]_vars => ReachInv'
<1>. SUFFICES ASSUME ReachInv, [Next]_vars PROVE ReachInv'
  OBVIOUS
<1>0. PlainInv /\ TypeOK /\ EntriesHaveHosts /\ Started
  BY DEF ReachInv, PlainInv
<1>a. \A n \in Nodes : pool[n] \in Pool /\ answer[n] \in Pool /\ starts[n] \in Nat
  BY <1>0 DEF TypeOK
<1>b. HostsSet(EmptyPool)
  BY DEF HostsSet, EmptyPool
<1>1. PlainInv'
  BY <1>0, PlainInvNext
<1>. SUFFICES EntriesHaveHosts' /\ Started'
  BY <1>1 DEF ReachInv
<1>2. ASSUME UNCHANGED <<pool, answer, starts>>
      PROVE  EntriesHaveHosts' /\ Started'
  BY <1>0, <1>2 DEF EntriesHaveHosts, HostsSet, Started
<1>3. ASSUME NEW n \in Nodes, NEW p \in Nodes,
             \/ StartSync(n, p) \/ Admit(n)
             \/ TellFails(n, p) \/ Tell(n, p) \/ Disconnect(n) \/ TellEnds(n) \/ BroadcastDone(n)
      PROVE  UNCHANGED <<pool, answer, starts>>
  BY <1>3 DEF StartSync, Admit, TellFails, Tell, Disconnect, TellEnds, BroadcastDone,
              pools, syncing
<1>4. ASSUME NEW n \in Nodes, NEW q \in Pool, NEW r \in Pool,
             HostsSet(q), HostsSet(r), Started',
             pool' = [pool EXCEPT ![n] = q], answer' = [answer EXCEPT ![n] = r]
      PROVE  EntriesHaveHosts' /\ Started'
  <2>1. /\ pool'[n] = q /\ answer'[n] = r
        /\ \A m \in Nodes \ {n} : pool'[m] = pool[m] /\ answer'[m] = answer[m]
    BY <1>0, <1>4 DEF TypeOK
  <2>2. ASSUME NEW m \in Nodes PROVE HostsSet(pool'[m]) /\ HostsSet(answer'[m])
    <3>1. CASE m = n
      BY <1>4, <2>1, <3>1 DEF HostsSet
    <3>2. CASE m # n
      <4>1. pool'[m] = pool[m] /\ answer'[m] = answer[m]
        BY <2>1, <3>2
      <4>. QED
        BY <1>0, <4>1 DEF EntriesHaveHosts, HostsSet
    <3>. QED
      BY <3>1, <3>2
  <2>. QED
    BY <1>4, <2>2 DEF EntriesHaveHosts, HostsSet
<1>5. ASSUME NEW n \in Nodes, Encode(n)
      PROVE  EntriesHaveHosts' /\ Started'
  <2>1. partner[n] \in Nodes /\ pool = [pool EXCEPT ![n] = pool[n]]
    BY <1>0 DEF TypeOK
  <2>2. pool' = pool /\ answer' = [answer EXCEPT ![n] = pool[partner[n]]] /\ starts' = starts
    BY <1>5 DEF Encode, pools
  <2>3. HostsSet(pool[partner[n]]) /\ HostsSet(pool[n]) /\ Started'
    BY <1>0, <2>1, <2>2 DEF EntriesHaveHosts, Started
  <2>. QED
    BY <1>4, <1>a, <2>1, <2>2, <2>3
<1>6. ASSUME NEW n \in Nodes, Merge(n)
      PROVE  EntriesHaveHosts' /\ Started'
  <2>1. /\ pool' = [pool EXCEPT ![n] = Merged(pool[n], answer[n])]
        /\ answer' = [answer EXCEPT ![n] = EmptyPool] /\ starts' = starts
    BY <1>6 DEF Merge
  <2>2. HostsSet(Merged(pool[n], answer[n]))
    <3>1. HostsSet(pool[n]) /\ HostsSet(answer[n])
      BY <1>0 DEF EntriesHaveHosts
    <3>. QED
      BY <3>1 DEF HostsSet, Merged, Taken
  <2>3. Merged(pool[n], answer[n]) \in Pool
    BY <1>a, MergedType
  <2>4. Started'
    BY <1>0, <2>1 DEF Started
  <2>. QED
    BY <1>4, <1>b, <2>1, <2>2, <2>3, <2>4, EmptyPoolType
<1>7. ASSUME NEW n \in Nodes, SyncFails(n)
      PROVE  EntriesHaveHosts' /\ Started'
  <2>1. pool' = pool /\ answer' = [answer EXCEPT ![n] = EmptyPool] /\ starts' = starts
    BY <1>7 DEF SyncFails, pools
  <2>2. pool = [pool EXCEPT ![n] = pool[n]] /\ HostsSet(pool[n]) /\ Started'
    BY <1>0, <2>1 DEF TypeOK, EntriesHaveHosts, Started
  <2>. QED
    BY <1>4, <1>a, <1>b, <2>1, <2>2, EmptyPoolType
<1>8. ASSUME NEW n \in Nodes, Register(n)
      PROVE  EntriesHaveHosts' /\ Started'
  <2>1. /\ n \in Wallets
        /\ pool' = [pool EXCEPT ![n] = Entry(pool[n], n, pool[n].amount[n] + Stake, starts[n])]
        /\ answer' = answer /\ starts' = starts
    BY <1>8 DEF Register, AddValidator, syncing, Wallets
  <2>2. answer = [answer EXCEPT ![n] = answer[n]] /\ Started'
    BY <1>0, <2>1 DEF TypeOK, Started
  <2>3. HostsSet(pool[n]) /\ HostsSet(answer[n]) /\ starts[n] # 0
    BY <1>0, <1>a DEF EntriesHaveHosts, Started
  <2>4. pool[n].host \in [Wallets -> Nat] /\ pool[n].amount[n] + Stake \in Nat
    BY <1>a, <2>1, StakeAssumption DEF Pool
  <2>5. HostsSet(Entry(pool[n], n, pool[n].amount[n] + Stake, starts[n]))
    BY <2>1, <2>3, <2>4 DEF HostsSet, Entry
  <2>6. Entry(pool[n], n, pool[n].amount[n] + Stake, starts[n]) \in Pool
    BY <1>a, <2>1, <2>4, EntryType
  <2>. QED
    BY <1>4, <1>a, <2>1, <2>2, <2>3, <2>5, <2>6
<1>9. ASSUME NEW n \in Nodes, Restart(n)
      PROVE  EntriesHaveHosts' /\ Started'
  <2>1. /\ pool' = [pool EXCEPT ![n] = EmptyPool]
        /\ answer' = [answer EXCEPT ![n] = EmptyPool]
        /\ starts' = [starts EXCEPT ![n] = @ + 1]
    BY <1>9 DEF Restart
  <2>2. Started'
    BY <1>0, <1>a, <2>1 DEF TypeOK, Started
  <2>. QED
    BY <1>4, <1>b, <2>1, <2>2, EmptyPoolType
<1>10. ASSUME NEW n \in Nodes, NEW w \in Wallets, NEW a \in RpcAmounts
       PROVE  /\ ~StakeTokens(n, w, a) /\ ~CheckUnstake(n, w, a)
              /\ ~UnstakeTokens(n, w, a) /\ ~UnstakeFails(n, w, a)
  BY <1>0 DEF StakeTokens, CheckUnstake, UnstakeTokens, UnstakeFails, PlainInv, NothingUnstaking
<1>11. CASE UNCHANGED vars
  BY <1>2, <1>11 DEF vars, pools, syncing
<1>12. CASE Next
  BY <1>2, <1>3, <1>5, <1>6, <1>7, <1>8, <1>9, <1>10, <1>12 DEF Next, Run, Rpc
<1>. QED
  BY <1>11, <1>12

\* Whatever node passed an entry on and however often it was restarted since, the
\* validators that GetValidators chooses can be dialled: WalletToHost has a host
\* for each, as long as no node serves stakeTokens.
THEOREM ValidatorsAlwaysReachable ==
    ASSUME RpcNodes = {}
    PROVE  Spec => []ValidatorsReachable
<1>1. ReachInv => ValidatorsReachable
  <2>. SUFFICES ASSUME ReachInv, NEW n \in Nodes, NEW chosen \in GetValidators(n, 3), NEW w \in chosen
                PROVE  toHost[n][w] # 0
    BY DEF ValidatorsReachable
  <2>1. w \in pool[n].known /\ pool[n] \in Pool
    BY DEF GetValidators, ReachInv, PlainInv, TypeOK
  <2>2. w \in Wallets
    BY <2>1 DEF Pool
  <2>. QED
    BY <2>1, <2>2 DEF ReachInv, PlainInv, HostsAgree, EntriesHaveHosts, HostsSet
<1>2. ReachInv /\ [Next]_vars => ReachInv'
  BY ReachInvNext
<1>. QED
  BY <1>1, <1>2, ReachInvInit, PTL DEF Spec
=============================================================================

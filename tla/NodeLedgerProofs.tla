-------------------------- MODULE NodeLedgerProofs --------------------------
(***************************************************************************)
(* The pools, the mempool and the chain of one node agree, for any set of  *)
(* transactions and blocks and whatever the transactions spend.            *)
(***************************************************************************)
EXTENDS NodeLedger, FiniteSetTheorems, TLAPS

\* What transactions spend.
Spends(txs) == UNION {Inputs[t] : t \in txs}

\* The outputs of a block.
OutputsOf(b) == body[b] \cup {b}

OnChain(b) == \E k \in DOMAIN chain : chain[k] = b

-----------------------------------------------------------------------------
(* The invariants. *)

\* The types, and that the pools are two objects once a block was committed.
TypeInv ==
    /\ TypeOK
    /\ temp.spent \subseteq temp.have
    /\ phase \in {"committed", "synced", "appended", "removed"} => ~shared

\* No block is on the chain twice, and no two blocks share a transaction.
ChainDisjoint ==
    \A i, j \in DOMAIN chain : i # j =>
        chain[i] # chain[j] /\ body[chain[i]] \cap body[chain[j]] = {}

CreatedCredited == \A o \in Created : credits[o] > 0

\* A node that mines handles no foreign block.
MinerAlone == mines => overlaps = {} /\ \A b \in Foreign : stage[b] = "none"

\* A node that receives mines nothing, and its pools stay one object that is never
\* replaced.
ReceiverIdle == ~mines => job = {} /\ phase = "idle" /\ shared /\ replaced = {}

\* The node that receives.  A block is on the chain from its stage on; blocks spend
\* what the chain has, and one block at a time waits for its place.
StagesFollow ==
    /\ \A k \in DOMAIN chain : chain[k] \in Foreign
    /\ \A b \in Foreign : OnChain(b) <=> stage[b] \in {"appended", "processed", "done"}
    /\ \A b \in Foreign : stage[b] = "validated" => OutputsOf(b) \cap Created = {}
    /\ \A b, c \in Foreign : stage[b] = "validated" /\ stage[c] = "validated" => b = c
    /\ \A b \in Foreign : stage[b] # "none" => Spends(body[b]) \subseteq Created
    /\ \A b \in overlaps : stage[b] # "none"

\* The pool has what the chain created, and what the chain spent is Spent unless
\* overlapping handlers made it unspent.
PoolFollows ==
    /\ bcPool.have = Created /\ bcPool.spent \subseteq Consumed
    /\ Consumed \ bcPool.spent \subseteq Overlapped

\* A block whose second pass is still to come is one of overlapping handlers as soon
\* as another block spends from it.
OverlapsNoted ==
    \A b, c \in Foreign :
        stage[b] = "appended" /\ stage[c] # "none" /\ Spends(body[c]) \cap OutputsOf(b) # {}
            => b \in overlaps

ReadmittedNoted ==
    \A b \in Foreign : stage[b] = "done" =>
        \A t \in mempool \cap body[b] : t \in merged \/ Inputs[t] \subseteq Overlapped

ReceiverInv ==
    ~mines => /\ ChainDisjoint /\ CreatedCredited /\ StagesFollow /\ PoolFollows
              /\ OverlapsNoted /\ ReadmittedNoted

\* The node that mines.  A pool that is level with the chain, and one that is ahead of
\* it by a block, whose transactions may be mined already.
Level(pool) ==
    /\ pool.have = Created /\ pool.spent \subseteq Consumed
    /\ Consumed \ pool.spent \subseteq Doubtful
Ahead(b, pool) ==
    /\ pool.have = Created \cup OutputsOf(b) /\ pool.spent \subseteq Consumed \cup Spends(body[b])
    /\ (Consumed \cup Spends(body[b])) \ pool.spent \subseteq Doubtful \cup (body[b] \cap Created)

\* Both pools are level until the commit and from the append on; a replaced map has
\* no output that its successor lacks.
MinerPools ==
    /\ phase \in {"idle", "selected", "mining", "appended", "removed"} => Level(bcPool)
    /\ phase \in {"idle", "selected", "mining", "committed", "appended", "removed"} => Level(nodePool)
    /\ \A b \in job :
          /\ phase = "mining" => Ahead(b, temp)
          /\ phase \in {"committed", "synced"} => Ahead(b, bcPool)
          /\ phase = "synced" => Ahead(b, nodePool)
    /\ \A map \in replaced : map.have \subseteq nodePool.have

Unmined == {"selected", "mining", "committed", "synced"}

\* The block at work is new until it is appended; its transactions are in the mempool
\* until they are removed, and spend what was there before it or is in doubt.
JobInv ==
    /\ \A b, c \in job : b = c
    /\ \A b \in job :
          /\ phase \in Unmined => b \notin Created
          /\ Spends(body[b]) \subseteq Created \cup Doubtful
          /\ phase \in Unmined \cup {"appended"} => body[b] \subseteq mempool
          /\ phase \in {"appended", "removed"} => OnChain(b) /\ Consumed \cap OutputsOf(b) \subseteq Doubtful
          /\ phase # "selected" => \A o \in OutputsOf(b) : credits[o] > 0

\* Why a transaction can be mined again.
Excused(t) == t \in merged \cup late \/ Inputs[t] \subseteq Doubtful

\* A mined transaction is in the mempool for such a reason, or until it is removed
\* after the append of its block, or because the block at work, whose append is
\* certain, has what it spends once more.
MayBePooled(t) ==
    \/ Excused(t)
    \/ phase = "appended" /\ \A b \in job : t \in body[b]
    \/ phase = "synced" /\ \A b \in job : Inputs[t] \subseteq Doubtful \cup (body[b] \cap Created)

\* What is pooled spends known outputs or ones in doubt.
MempoolInv ==
    \A t \in mempool :
        /\ Inputs[t] \subseteq nodePool.have \cup Doubtful
        /\ t \in Created => MayBePooled(t)

MinerInv ==
    mines => /\ overlaps = {} /\ CreatedCredited /\ Consumed \ Created \subseteq Doubtful
             /\ JobInv /\ MempoolInv /\ MinerPools /\ MinedOnce

-----------------------------------------------------------------------------
(* The operators. *)

\* An output is spent by some transaction of the set.
LEMMA SpendsElement ==
    ASSUME NEW txs, NEW o
    PROVE  o \in Spends(txs) <=> \E t \in txs : o \in Inputs[t]
  BY Zenon DEF Spends

\* An output is created by some block of the chain.
LEMMA CreatedElement ==
    ASSUME NEW o
    PROVE  o \in Created <=> \E k \in DOMAIN chain : o \in OutputsOf(chain[k])
  BY Zenon DEF Created, OutputsOf

\* An output is consumed by some block of the chain.
LEMMA ConsumedElement ==
    ASSUME NEW o
    PROVE  o \in Consumed <=> \E k \in DOMAIN chain : o \in Spends(body[chain[k]])
  <1>1. o \in Consumed <=> \E t \in UNION {body[chain[k]] : k \in DOMAIN chain} : o \in Inputs[t]
    BY Zenon DEF Consumed
  <1>2. \A t : t \in UNION {body[chain[k]] : k \in DOMAIN chain} <=> \E k \in DOMAIN chain : t \in body[chain[k]]
    BY Zenon
  <1> QED BY <1>1, <1>2, SpendsElement, Zenon

\* What transactions spend are outputs, and every one spends something.
LEMMA SpendsType ==
    ASSUME NEW txs \in SUBSET Txs
    PROVE  /\ Spends(txs) \subseteq Outs
           /\ \A t \in txs : Inputs[t] \subseteq Spends(txs) /\ Inputs[t] # {}
  <1>1. \A t \in Txs : Inputs[t] \subseteq Outs /\ Inputs[t] # {}
    BY LedgerAssumption
  <1> QED BY <1>1, SpendsElement

\* A block appended to the chain adds its outputs and what it spends.
LEMMA AppendBlock ==
    ASSUME TypeOK, NEW b \in Blocks, chain' = Append(chain, b), body' = body
    PROVE  /\ Created' = Created \cup OutputsOf(b)
           /\ Consumed' = Consumed \cup Spends(body[b])
           /\ \A c : OnChain(c)' <=> OnChain(c) \/ c = b
           /\ chain' \in Seq(Blocks)
  <1>1. /\ DOMAIN chain' = 1..(Len(chain) + 1) /\ Len(chain) \in Nat /\ DOMAIN chain = 1..Len(chain)
        /\ \A k \in DOMAIN chain : chain'[k] = chain[k]
        /\ chain'[Len(chain) + 1] = b
        /\ chain' \in Seq(Blocks)
    BY DEF TypeOK
  <1>2. /\ \A k \in DOMAIN chain' : k \in DOMAIN chain \/ k = Len(chain) + 1
        /\ \A k \in DOMAIN chain : k \in DOMAIN chain'
        /\ Len(chain) + 1 \in DOMAIN chain'
    BY <1>1
  <1>3. ASSUME NEW o PROVE o \in Created' <=> o \in Created \cup OutputsOf(b)
    <2>1. o \in Created' <=> \E k \in DOMAIN chain' : o \in body'[chain'[k]] \cup {chain'[k]}
      BY Zenon DEF Created
    <2>2. o \in Created' <=> \E k \in DOMAIN chain' : o \in OutputsOf(chain'[k])
      BY <2>1, Zenon DEF OutputsOf
    <2> QED BY <1>1, <1>2, <2>2, CreatedElement
  <1>4. ASSUME NEW o PROVE o \in Consumed' <=> o \in Consumed \cup Spends(body[b])
    <2>1. o \in Consumed' <=> \E t \in UNION {body'[chain'[k]] : k \in DOMAIN chain'} : o \in Inputs[t]
      BY Zenon DEF Consumed
    <2>2. \A t : t \in UNION {body'[chain'[k]] : k \in DOMAIN chain'} <=> \E k \in DOMAIN chain' : t \in body[chain'[k]]
      BY Zenon
    <2>3. o \in Consumed' <=> \E k \in DOMAIN chain' : o \in Spends(body[chain'[k]])
      <3>1. \A k : o \in Spends(body[chain'[k]]) <=> \E t \in body[chain'[k]] : o \in Inputs[t]
        BY SpendsElement
      <3> QED BY <2>1, <2>2, <3>1
    <2> QED BY <1>1, <1>2, <2>3, ConsumedElement
  <1>5. ASSUME NEW c PROVE OnChain(c)' <=> OnChain(c) \/ c = b
    BY <1>1, <1>2 DEF OnChain
  <1> QED BY <1>1, <1>3, <1>4, <1>5

\* Choosing the transactions of a block that is not on the chain leaves the chain's.
LEMMA FillBlock ==
    ASSUME TypeOK, NEW b \in Blocks, ~OnChain(b), NEW txs \in SUBSET Txs,
           chain' = chain, body' = [body EXCEPT ![b] = txs]
    PROVE  /\ Created' = Created /\ Consumed' = Consumed
           /\ \A k \in DOMAIN chain : body'[chain[k]] = body[chain[k]]
           /\ body' \in [Blocks -> SUBSET Txs] /\ body'[b] = txs
           /\ \A c \in Blocks : c # b => body'[c] = body[c]
           /\ \A c : OnChain(c)' <=> OnChain(c)
  <1>1. /\ body' \in [Blocks -> SUBSET Txs] /\ body'[b] = txs
        /\ \A c \in Blocks : c # b => body'[c] = body[c]
    BY DEF TypeOK
  <1>2. \A k \in DOMAIN chain : chain[k] \in Blocks /\ chain[k] # b
    BY DEF TypeOK, OnChain
  <1>3. \A k \in DOMAIN chain : body'[chain[k]] = body[chain[k]]
    BY <1>1, <1>2
  <1>4. ASSUME NEW o PROVE o \in Created' <=> o \in Created
    <2>1. o \in Created' <=> \E k \in DOMAIN chain : o \in body'[chain[k]] \cup {chain[k]}
      BY DEF Created
    <2> QED BY <1>3, <2>1, CreatedElement DEF OutputsOf
  <1>5. \A t : t \in UNION {body'[chain'[k]] : k \in DOMAIN chain'} <=> t \in UNION {body[chain[k]] : k \in DOMAIN chain}
    BY <1>3
  <1>6. Consumed' = Consumed
    BY <1>5 DEF Consumed
  <1> QED BY <1>1, <1>3, <1>4, <1>6 DEF OnChain

\* The outputs of the chain as one set, unchanged with it.
LEMMA SameChain ==
    ASSUME UNCHANGED <<chain, body>>
    PROVE  /\ Created' = Created /\ Consumed' = Consumed
           /\ \A c : OnChain(c)' <=> OnChain(c)
           /\ \A c : OutputsOf(c)' = OutputsOf(c)
  BY DEF Created, Consumed, OnChain, OutputsOf

\* The chain's outputs are outputs.
LEMMA CreatedType ==
    ASSUME TypeOK
    PROVE  Created \subseteq Outs
  <1>1. \A k \in DOMAIN chain : chain[k] \in Blocks /\ body[chain[k]] \subseteq Txs
    BY DEF TypeOK
  <1> QED BY <1>1, CreatedElement DEF OutputsOf, Outs

\* A pool that ProcessBlock leaves.
LEMMA ProcessType ==
    ASSUME NEW pool \in Pool, pool.spent \subseteq pool.have, NEW b \in Blocks, NEW txs \in SUBSET Txs,
           NEW kept \in SUBSET InternalInputs(txs)
    PROVE  LET r == ProcessBlock(pool, b, txs, kept) IN r \in Pool /\ r.spent \subseteq r.have
  <1> DEFINE r == ProcessBlock(pool, b, txs, kept)
  <1>1. kept \subseteq txs /\ txs \subseteq Outs /\ b \in Outs
    BY DEF InternalInputs, Outs
  <1>2. pool.have \in SUBSET Outs /\ pool.spent \in SUBSET Outs
    BY DEF Pool
  <1> DEFINE h == pool.have \cup txs \cup {b}
             sp == ((pool.spent \cup (Spends(txs) \cap pool.have)) \ (txs \cup {b})) \cup kept
  <1>a. r = [have |-> h, spent |-> sp]
    BY DEF ProcessBlock, Spends
  <1> HIDE DEF h, sp, r
  <1>b. r.have = h /\ r.spent = sp /\ r = [have |-> r.have, spent |-> r.spent]
    BY <1>a
  <1>3. /\ r.have = pool.have \cup txs \cup {b}
        /\ r.spent = ((pool.spent \cup (Spends(txs) \cap pool.have)) \ (txs \cup {b})) \cup kept
        /\ r = [have |-> r.have, spent |-> r.spent]
    BY <1>b DEF h, sp
  <1> HIDE DEF r
  <1>4. r.have \in SUBSET Outs /\ r.spent \in SUBSET Outs /\ r.spent \subseteq r.have
    BY <1>1, <1>2, <1>3
  <1>5. r \in Pool
    BY <1>3, <1>4 DEF Pool
  <1> QED BY <1>4, <1>5 DEF r

-----------------------------------------------------------------------------
(* Types. *)

\* Types at the start.
LEMMA InitTypeInv == Init => TypeInv
  <1> SUFFICES ASSUME Init PROVE TypeInv
    OBVIOUS
  <1>1. EmptyPool \in Pool /\ EmptyPool.spent = {} /\ EmptyPool.have = {}
    BY DEF EmptyPool, Pool
  <1>2. Cardinality(job) <= 1
    BY FS_EmptySet DEF Init
  <1>3. (phase = "idle") = (job = {})
    BY DEF Init
  <1>4. shared \in BOOLEAN /\ mines \in BOOLEAN
    BY DEF Init
  <1>5. chain \in Seq(Blocks) /\ job \subseteq Own
    BY DEF Init
  <1>6. /\ body \in [Blocks -> SUBSET Txs] /\ credits \in [Outs -> Nat] /\ stage \in [Foreign -> Stages]
        /\ phase \in Phases
    BY DEF Init, Stages, Phases
  <1> QED BY <1>1, <1>2, <1>3, <1>4, <1>5, <1>6 DEF Init, TypeInv, TypeOK

\* Counting up credits keeps them numbers, and forgets none.
LEMMA CreditStep ==
    ASSUME credits \in [Outs -> Nat], NEW outs, Credit(outs)
    PROVE  /\ credits' \in [Outs -> Nat]
           /\ \A o \in Outs : credits[o] > 0 \/ o \in outs => credits'[o] > 0
  BY DEF Credit

\* SetUTXOPool, shared with the node or not, leaves both pools typed.
LEMMA SetBcPoolType ==
    ASSUME TypeOK, NEW new \in Pool, new.spent \subseteq new.have, SetBcPool(new)
    PROVE  /\ bcPool' \in Pool /\ nodePool' \in Pool /\ shared' = shared /\ replaced' = replaced /\ bcPool' = new
           /\ bcPool'.spent \subseteq bcPool'.have /\ nodePool'.spent \subseteq nodePool'.have
           /\ shared' => bcPool' = nodePool'
  BY DEF SetBcPool, TypeOK

\* So does a comparison of roots, whichever pool becomes Node.UTXOPool.
LEMMA SetNodePoolType ==
    ASSUME replaced \subseteq Pool, NEW node \in Pool, node.spent \subseteq node.have,
           NEW bc \in Pool, bc.spent \subseteq bc.have, SetNodePool(node, bc)
    PROVE  /\ nodePool' \in Pool /\ nodePool'.spent \subseteq nodePool'.have
           /\ shared' = shared /\ replaced' \subseteq Pool
  BY DEF SetNodePool

\* What a step of the miner leaves as types.
LEMMA MineType ==
    ASSUME TypeInv, Mine, UNCHANGED mines
    PROVE  TypeInv'
  <1>a. TypeOK /\ temp.spent \subseteq temp.have
        /\ (phase \in {"committed", "synced", "appended", "removed"} => ~shared)
    BY DEF TypeInv
  <1>0. \A b \in job : b \in Own /\ b \in Blocks /\ b \in Outs /\ body[b] \in SUBSET Txs
    BY <1>a DEF TypeOK, Blocks, Outs
  <1>1. ASSUME NEW b \in Own, SelectTransactions(b) PROVE TypeInv'
    <2>0. Cardinality({b}) = 1
      BY FS_Singleton, Zenon
    <2>1. Cardinality({b}) <= 1
      BY <2>0
    <2>2. body' \in [Blocks -> SUBSET Txs]
      BY <1>a, <1>1 DEF TypeOK, SelectTransactions
    <2>3. job' \subseteq Own /\ Cardinality(job') <= 1 /\ (phase' = "idle") = (job' = {})
      BY <1>1, <2>1 DEF SelectTransactions
    <2> QED BY <1>a, <1>1, <2>2, <2>3 DEF SelectTransactions, TypeInv, TypeOK, pools, pending, handlers, Phases
  <1>2. ASSUME NEW b \in job, NEW kept \in Kept(b), CloneUTXOPool(b, kept) PROVE TypeInv'
    <2>1. temp' \in Pool /\ temp'.spent \subseteq temp'.have
      BY <1>a, <1>0, <1>2, ProcessType DEF TypeOK, CloneUTXOPool, Kept
    <2>2. credits' \in [Outs -> Nat]
      BY <1>a, <1>2, CreditStep DEF TypeOK, CloneUTXOPool
    <2>3. job' = job /\ phase' = "mining" /\ job # {}
      BY <1>2 DEF CloneUTXOPool
    <2>4. (phase' = "idle") = (job' = {})
      BY <2>3
    <2> QED BY <1>a, <1>2, <2>1, <2>2, <2>3, <2>4 DEF CloneUTXOPool, TypeInv, TypeOK, pools, pending, handlers, Phases
  <1>3. CASE MiningFailed
    <2>1. Cardinality(job') <= 1 /\ (phase' = "idle") = (job' = {})
      BY <1>3, FS_EmptySet DEF MiningFailed
    <2> QED BY <1>a, <1>3, <2>1 DEF MiningFailed, TypeInv, TypeOK, pools, pending, handlers, Phases
  <1>4. CASE CommitPool
    <2>1. job' = job /\ phase' = "committed" /\ job # {} /\ shared' = FALSE
      BY <1>a, <1>4 DEF CommitPool, TypeOK
    <2>2. (phase' = "idle") = (job' = {})
      BY <2>1
    <2> QED BY <1>a, <1>4, <2>1, <2>2 DEF CommitPool, TypeInv, TypeOK, pending, handlers, Phases
  <1>5. ASSUME NEW b \in job, SyncNodePool(b) PROVE TypeInv'
    <2>1. /\ AddCoinbase(nodePool, b) \in Pool
          /\ AddCoinbase(nodePool, b).spent \subseteq AddCoinbase(nodePool, b).have
      BY <1>a, <1>0 DEF AddCoinbase, Pool, TypeOK
    <2>2. /\ nodePool' \in Pool /\ nodePool'.spent \subseteq nodePool'.have
          /\ shared' = shared /\ replaced' \subseteq Pool
      <3>1. SetNodePool(AddCoinbase(nodePool, b), bcPool)
        BY <1>5 DEF SyncNodePool
      <3> QED BY <1>a, <2>1, <3>1, SetNodePoolType DEF TypeOK
    <2>3. credits' \in [Outs -> Nat]
      BY <1>a, <1>5, CreditStep DEF TypeOK, SyncNodePool
    <2>4. job' = job /\ phase' = "synced" /\ job # {} /\ ~shared
      BY <1>a, <1>5 DEF SyncNodePool
    <2>5. (phase' = "idle") = (job' = {})
      BY <2>4
    <2> QED BY <1>a, <1>5, <2>2, <2>3, <2>4, <2>5 DEF SyncNodePool, TypeInv, TypeOK, pending, handlers, Phases
  <1>6. ASSUME NEW b \in job, AppendMined(b) PROVE TypeInv'
    <2>1. chain' \in Seq(Blocks)
      BY <1>a, <1>0, <1>6 DEF AppendMined, TypeOK
    <2>2. job' = job /\ phase' = "appended" /\ job # {}
      BY <1>6 DEF AppendMined
    <2>3. (phase' = "idle") = (job' = {})
      BY <2>2
    <2> QED BY <1>a, <1>6, <2>1, <2>2, <2>3 DEF AppendMined, TypeInv, TypeOK, pools, pending, handlers, Phases
  <1>7. ASSUME NEW b \in job, RemoveTransactions(b) PROVE TypeInv'
    <2>1. job' = job /\ phase' = "removed" /\ job # {}
      BY <1>7 DEF RemoveTransactions
    <2>2. (phase' = "idle") = (job' = {})
      BY <2>1
    <2> QED BY <1>a, <1>7, <2>1, <2>2 DEF RemoveTransactions, TypeInv, TypeOK, pools, handlers, Phases
  <1>8. ASSUME NEW b \in job, NEW kept \in Kept(b), NEW nodeKept \in Kept(b), UpdateUTXOSet(b, kept, nodeKept)
        PROVE  TypeInv'
    <2>1. /\ bcPool' \in Pool /\ bcPool'.spent \subseteq bcPool'.have
          /\ nodePool' \in Pool /\ nodePool'.spent \subseteq nodePool'.have
          /\ shared' = shared /\ replaced' \subseteq Pool
      <3> DEFINE bc == ProcessBlock(bcPool, b, body[b], kept)
                 node == ProcessBlock(nodePool, b, body[b], nodeKept)
      <3>1. bc \in Pool /\ bc.spent \subseteq bc.have
        BY <1>a, <1>0, ProcessType DEF TypeOK, Kept
      <3>2. node \in Pool /\ node.spent \subseteq node.have
        BY <1>a, <1>0, ProcessType DEF TypeOK, Kept
      <3>3. bcPool' = bc /\ SetNodePool(node, bc)
        BY <1>8 DEF UpdateUTXOSet
      <3> HIDE DEF bc, node
      <3> QED BY <1>a, <3>1, <3>2, <3>3, SetNodePoolType DEF TypeOK
    <2>2. credits' \in [Outs -> Nat]
      <3>1. credits' = [o \in Outs |-> IF o \in body[b] \cup {b} THEN credits[o] + 2 ELSE credits[o]]
        BY <1>8 DEF UpdateUTXOSet
      <3> QED BY <1>a, <3>1 DEF TypeOK
    <2>3. job' = {} /\ phase' = "idle" /\ ~shared
      BY <1>a, <1>8 DEF UpdateUTXOSet
    <2>4. Cardinality(job') <= 1 /\ (phase' = "idle") = (job' = {})
      BY <2>3, FS_EmptySet
    <2> QED BY <1>a, <1>8, <2>1, <2>2, <2>3, <2>4 DEF UpdateUTXOSet, TypeInv, TypeOK, pending, handlers, Phases
  <1> QED BY <1>1, <1>2, <1>3, <1>4, <1>5, <1>6, <1>7, <1>8 DEF Mine

\* What a step of handleBlockStream leaves as types.
LEMMA ReceiveType ==
    ASSUME TypeInv, Receive, UNCHANGED mines
    PROVE  TypeInv'
  <1>a. TypeOK
    BY DEF TypeInv
  <1>0. \A b \in Foreign : b \in Blocks /\ body[b] \in SUBSET Txs
    BY <1>a DEF TypeOK, Blocks
  <1>s. ASSUME NEW b \in Foreign, NEW from, NEW to \in Stages, Advance(b, from, to)
        PROVE  stage' \in [Foreign -> Stages]
    BY <1>a, <1>s DEF Advance, TypeOK
  <1>1. ASSUME NEW b \in Foreign, NEW txs \in SUBSET Txs, ReceiveBlock(b, txs) PROVE TypeInv'
    <2>1. stage' \in [Foreign -> Stages]
      BY <1>1, <1>s DEF ReceiveBlock, Stages
    <2>2. body' \in [Blocks -> SUBSET Txs] /\ overlaps' \subseteq Foreign
      BY <1>a, <1>0, <1>1 DEF ReceiveBlock, TypeOK, InHand
    <2>3. UNCHANGED <<chain, bcPool, nodePool, shared, replaced, mempool, merged, late, credits, job, phase, temp>>
      BY <1>1 DEF ReceiveBlock, pools, pending, miner
    <2> QED BY <2>1, <2>2, <2>3 DEF TypeInv, TypeOK
  <1>2. ASSUME NEW b \in Foreign, NEW kept \in Kept(b),
               AddBlockWithoutValidation(b, kept) \/ ProcessBlockUTXOs(b, kept)
        PROVE  TypeInv'
    <2>1. stage' \in [Foreign -> Stages]
      BY <1>2, <1>s DEF AddBlockWithoutValidation, ProcessBlockUTXOs, Stages
    <2>2. /\ SetBcPool(ProcessBlock(bcPool, b, body[b], kept)) /\ Credit(body[b] \cup {b})
          /\ UNCHANGED <<body, mempool, merged, late, job, phase, temp, overlaps>>
      BY <1>2 DEF AddBlockWithoutValidation, ProcessBlockUTXOs, pending, miner
    <2>3. /\ bcPool' \in Pool /\ nodePool' \in Pool /\ shared' = shared /\ replaced' = replaced
          /\ bcPool'.spent \subseteq bcPool'.have /\ nodePool'.spent \subseteq nodePool'.have
          /\ shared' => bcPool' = nodePool'
      <3> DEFINE new == ProcessBlock(bcPool, b, body[b], kept)
      <3>1. new \in Pool /\ new.spent \subseteq new.have
        BY <1>a, <1>0, ProcessType DEF TypeOK, Kept
      <3>2. SetBcPool(new)
        BY <2>2
      <3> HIDE DEF new
      <3> QED BY <1>a, <3>1, <3>2, SetBcPoolType
    <2>4. credits' \in [Outs -> Nat]
      BY <1>a, <2>2, CreditStep DEF TypeOK
    <2>5. chain' \in Seq(Blocks)
      BY <1>a, <1>0, <1>2, SMTT(30) DEF AddBlockWithoutValidation, ProcessBlockUTXOs, TypeOK
    <2> QED BY <2>1, <2>2, <2>3, <2>4, <2>5 DEF TypeInv, TypeOK
  <1>3. ASSUME NEW b \in Foreign, ClearProcessedTransactions(b) PROVE TypeInv'
    <2>1. stage' \in [Foreign -> Stages]
      BY <1>3, <1>s DEF ClearProcessedTransactions, Stages
    <2> QED BY <1>3, <2>1 DEF ClearProcessedTransactions, pools, miner, TypeInv, TypeOK
  <1> QED BY <1>1, <1>2, <1>3 DEF Receive

\* Every step keeps the types.
LEMMA NextTypeInv ==
    ASSUME TypeInv, [Next]_vars
    PROVE  TypeInv'
  <1>1. CASE UNCHANGED vars
    BY <1>1 DEF vars, pools, pending, miner, handlers, TypeInv, TypeOK
  <1>2. CASE (\E t \in Txs : \E map \in replaced \cup {nodePool} : AddTransaction(t, map)) /\ UNCHANGED mines
    BY <1>2 DEF AddTransaction, pools, miner, handlers, TypeInv, TypeOK
  <1>3. CASE (\E txs \in SUBSET Txs : SyncWithPeer(txs)) /\ UNCHANGED mines
    BY <1>3 DEF SyncWithPeer, pools, miner, handlers, TypeInv, TypeOK
  <1> QED BY <1>1, <1>2, <1>3, MineType, ReceiveType DEF Next

\* The ledger keeps its types: while the two UTXO pools are one object they are
\* equal, no pool marks an output Spent that it does not have, and one block at
\* most is at work in MineBlock.
THEOREM LedgerTypeOK == Spec => []TypeOK
  <1>1. TypeInv => TypeOK
    BY DEF TypeInv
  <1> QED BY <1>1, InitTypeInv, NextTypeInv, PTL DEF Spec

-----------------------------------------------------------------------------
(* The two roles. *)

\* No handler runs at the start.
LEMMA InitRoles == Init => MinerAlone /\ ReceiverIdle
  BY DEF Init, MinerAlone, ReceiverIdle

\* A miner receives no block, and a receiver mines none.
LEMMA NextRoles ==
    ASSUME TypeInv, MinerAlone, ReceiverIdle, [Next]_vars
    PROVE  MinerAlone' /\ ReceiverIdle'
  <1>0. mines' = mines
    BY DEF Next, vars
  <1>1. CASE mines
    <2>1. UNCHANGED <<stage, overlaps>>
      BY <1>1 DEF Next, vars, handlers, Mine, AddTransaction, SyncWithPeer, SelectTransactions, CloneUTXOPool,
         MiningFailed, CommitPool, SyncNodePool, AppendMined, RemoveTransactions, UpdateUTXOSet
    <2> QED BY <1>0, <1>1, <2>1 DEF MinerAlone, ReceiverIdle
  <1>2. CASE ~mines
    <2>1. UNCHANGED <<job, phase, shared, replaced>>
      BY <1>2 DEF Next, vars, pools, miner, Receive, AddTransaction, SyncWithPeer, ReceiveBlock, SetBcPool,
         AddBlockWithoutValidation, ProcessBlockUTXOs, ClearProcessedTransactions
    <2> QED BY <1>0, <1>2, <2>1 DEF MinerAlone, ReceiverIdle
  <1> QED BY <1>1, <1>2

\* A block that spends nothing of its own leaves the order of its transactions
\* without effect: what ProcessBlock computes.
LEMMA ProcessResult ==
    ASSUME NEW pool \in Pool, NEW b \in Blocks, NEW txs \in SUBSET Txs, Spends(txs) \cap txs = {},
           NEW kept \in SUBSET InternalInputs(txs)
    PROVE  ProcessBlock(pool, b, txs, kept) =
             [have |-> pool.have \cup txs \cup {b},
              spent |-> (pool.spent \cup (Spends(txs) \cap pool.have)) \ (txs \cup {b})]
  <1>1. InternalInputs(txs) = {}
    BY SpendsElement DEF InternalInputs
  <1>2. kept = {}
    BY <1>1
  <1> DEFINE sp == (pool.spent \cup ((UNION {Inputs[t] : t \in txs}) \cap pool.have)) \ (txs \cup {b})
  <1>3. sp \cup kept = sp
    BY <1>2
  <1> QED BY <1>3 DEF ProcessBlock, Spends

-----------------------------------------------------------------------------
(* The node that receives. *)

\* An output in doubt belongs to a block whose handlers overlapped.
LEMMA OverlappedElement ==
    ASSUME NEW o
    PROVE  o \in Overlapped <=> \E b \in overlaps : o \in OutputsOf(b)
  BY DEF Overlapped, OutputsOf

\* The next block of the chain: nothing that was there is touched.
LEMMA ReceiveBlockKeeps ==
    ASSUME TypeInv, ~mines, mines' = mines, ReceiverInv,
           NEW b \in Foreign, NEW txs \in SUBSET Txs, ReceiveBlock(b, txs)
    PROVE  ReceiverInv'
  <1>a. TypeOK /\ ChainDisjoint /\ CreatedCredited /\ StagesFollow /\ PoolFollows /\ OverlapsNoted /\ ReadmittedNoted
    BY DEF ReceiverInv, TypeInv
  <1>1. /\ stage[b] = "none" /\ stage' = [stage EXCEPT ![b] = "validated"]
        /\ UNCHANGED <<chain, bcPool, mempool, merged, credits>>
        /\ body' = [body EXCEPT ![b] = txs]
        /\ \A c \in Foreign : stage[c] # "validated"
        /\ Spends(txs) \subseteq Created \ Consumed /\ txs \cap Created = {}
        /\ overlaps' = IF InHand = {} THEN overlaps ELSE overlaps \cup InHand \cup {b}
    BY DEF ReceiveBlock, Advance, pools, pending, Spends
  <1>2. b \in Blocks /\ ~OnChain(b)
    BY <1>a, <1>1 DEF Blocks, StagesFollow
  <1>3. /\ Created' = Created /\ Consumed' = Consumed
        /\ \A k \in DOMAIN chain : body'[chain[k]] = body[chain[k]]
        /\ body'[b] = txs
        /\ \A c \in Blocks : c # b => body'[c] = body[c]
        /\ \A c : OnChain(c)' <=> OnChain(c)
    BY <1>a, <1>1, <1>2, FillBlock
  <1>4. stage'[b] = "validated" /\ \A c \in Foreign : c # b => stage'[c] = stage[c] /\ body'[c] = body[c]
    BY <1>a, <1>1, <1>3 DEF TypeOK, Blocks
  <1>5. ChainDisjoint' /\ CreatedCredited'
    BY <1>a, <1>1, <1>3 DEF ChainDisjoint, CreatedCredited
  <1>6. b \notin Created
    <2>1. \A k \in DOMAIN chain : b # chain[k] /\ b \notin body[chain[k]]
      BY <1>2, <1>a, LedgerAssumption DEF OnChain, TypeOK
    <2> QED BY <2>1, CreatedElement DEF OutputsOf
  <1>7. StagesFollow'
    <2>1. \A k \in DOMAIN chain' : chain'[k] \in Foreign
      BY <1>a, <1>1 DEF StagesFollow
    <2>2. \A c \in Foreign : OnChain(c)' <=> stage'[c] \in {"appended", "processed", "done"}
      BY <1>a, <1>2, <1>3, <1>4 DEF StagesFollow
    <2>3. \A c \in Foreign : stage'[c] = "validated" => c = b
      BY <1>1, <1>4
    <2>4. OutputsOf(b)' \cap Created' = {}
      BY <1>1, <1>3, <1>6 DEF OutputsOf
    <2>5. \A c \in Foreign : stage'[c] # "none" => Spends(body'[c]) \subseteq Created'
      BY <1>a, <1>1, <1>3, <1>4 DEF StagesFollow
    <2>6. \A c \in overlaps' : stage'[c] # "none"
      BY <1>a, <1>1, <1>4 DEF StagesFollow, InHand, TypeOK
    <2>7. \A c \in Foreign : stage'[c] = "validated" => OutputsOf(c)' \cap Created' = {}
      BY <2>3, <2>4
    <2> QED BY <2>1, <2>2, <2>3, <2>5, <2>6, <2>7 DEF StagesFollow
  <1>8. /\ overlaps \subseteq overlaps' /\ b \notin overlaps
        /\ \A c \in overlaps : c \in Foreign /\ OutputsOf(c)' = OutputsOf(c)
    BY <1>a, <1>1, <1>4 DEF StagesFollow, TypeOK, OutputsOf
  <1>9. Overlapped \subseteq Overlapped'
    <2>1. ASSUME NEW o \in Overlapped PROVE o \in Overlapped'
      <3>1. \E c \in overlaps : o \in OutputsOf(c)
        BY OverlappedElement
      <3>2. \E c \in overlaps' : o \in body'[c] \cup {c}
        BY <3>1, <1>8 DEF OutputsOf
      <3> QED BY <3>2 DEF Overlapped
    <2> QED BY <2>1
  <1>10. PoolFollows'
    BY <1>a, <1>1, <1>3, <1>9 DEF PoolFollows
  <1>11. OverlapsNoted'
    <2> SUFFICES ASSUME NEW c \in Foreign, NEW d \in Foreign, stage'[c] = "appended", stage'[d] # "none",
                        Spends(body'[d]) \cap OutputsOf(c)' # {}
                 PROVE  c \in overlaps'
      BY DEF OverlapsNoted
    <2>1. c # b /\ stage[c] = "appended" /\ OutputsOf(c)' = OutputsOf(c)
      BY <1>4 DEF OutputsOf
    <2>2. CASE d = b
      <3>1. c \in InHand
        BY <2>1 DEF InHand
      <3> QED BY <1>1, <3>1
    <2>3. CASE d # b
      BY <1>a, <1>4, <1>8, <2>1, <2>3 DEF OverlapsNoted
    <2> QED BY <2>2, <2>3
  <1>12. ReadmittedNoted'
    <2>1. \A c \in Foreign : stage'[c] = "done" => c # b
      BY <1>4
    <2> QED BY <1>a, <1>1, <1>4, <1>9, <2>1 DEF ReadmittedNoted
  <1>13. ~mines'
    OBVIOUS
  <1> QED BY <1>5, <1>7, <1>10, <1>11, <1>12, <1>13 DEF ReceiverInv

\* A validated block comes to the end of the chain and into the pool.
LEMMA AddBlockKeeps ==
    ASSUME TypeInv, ~mines, mines' = mines, ReceiverInv,
           NEW b \in Foreign, NEW kept \in Kept(b), AddBlockWithoutValidation(b, kept)
    PROVE  ReceiverInv'
  <1>a. TypeOK /\ ChainDisjoint /\ CreatedCredited /\ StagesFollow /\ PoolFollows /\ OverlapsNoted /\ ReadmittedNoted
    BY DEF ReceiverInv, TypeInv
  <1>1. /\ stage[b] = "validated" /\ stage' = [stage EXCEPT ![b] = "appended"]
        /\ chain' = Append(chain, b)
        /\ UNCHANGED <<body, mempool, merged, overlaps>>
        /\ bcPool' = ProcessBlock(bcPool, b, body[b], kept)
        /\ Credit(OutputsOf(b))
    BY DEF AddBlockWithoutValidation, Advance, SetBcPool, pending, OutputsOf
  <1>2. b \in Blocks /\ body[b] \in SUBSET Txs /\ ~OnChain(b)
        /\ OutputsOf(b) \cap Created = {} /\ Spends(body[b]) \subseteq Created
    BY <1>a, <1>1 DEF Blocks, StagesFollow, TypeOK
  <1>3. /\ Created' = Created \cup OutputsOf(b)
        /\ Consumed' = Consumed \cup Spends(body[b])
        /\ \A c : OnChain(c)' <=> OnChain(c) \/ c = b
    BY <1>a, <1>1, <1>2, AppendBlock
  <1>4. stage'[b] = "appended" /\ \A c \in Foreign : c # b => stage'[c] = stage[c]
    BY <1>a, <1>1 DEF TypeOK
  <1>5. \A c : OutputsOf(c)' = OutputsOf(c)
    BY <1>1 DEF OutputsOf
  <1>6. /\ DOMAIN chain' = 1..(Len(chain) + 1) /\ Len(chain) \in Nat /\ DOMAIN chain = 1..Len(chain)
        /\ \A k \in DOMAIN chain : chain'[k] = chain[k]
        /\ chain'[Len(chain) + 1] = b
        /\ \A k \in DOMAIN chain' : k \in DOMAIN chain \/ k = Len(chain) + 1
    BY <1>a, <1>1, <1>2 DEF TypeOK
  <1>7. ChainDisjoint'
    <2>1. \A k \in DOMAIN chain : chain[k] # b /\ body[chain[k]] \cap body[b] = {}
      <3>1. \A k \in DOMAIN chain : OutputsOf(chain[k]) \subseteq Created
        BY CreatedElement
      <3> QED BY <1>2, <3>1 DEF OutputsOf
    <2>2. \A k, l \in DOMAIN chain' : k # l =>
             chain'[k] # chain'[l] /\ body[chain'[k]] \cap body[chain'[l]] = {}
      BY <1>a, <1>6, <2>1 DEF ChainDisjoint
    <2> QED BY <1>1, <2>2 DEF ChainDisjoint
  <1>8. CreatedCredited'
    <2>1. Created \cup OutputsOf(b) \subseteq Outs
      BY <1>a, <1>2, CreatedType DEF OutputsOf, Outs
    <2>2. \A o \in Outs : credits[o] > 0 \/ o \in OutputsOf(b) => credits'[o] > 0
      BY <1>a, <1>1, CreditStep DEF TypeOK
    <2> QED BY <1>a, <1>3, <2>1, <2>2 DEF CreatedCredited
  <1>9. StagesFollow'
    <2>1. \A k \in DOMAIN chain' : chain'[k] \in Foreign
      BY <1>a, <1>6 DEF StagesFollow
    <2>2. \A c \in Foreign : OnChain(c)' <=> stage'[c] \in {"appended", "processed", "done"}
      BY <1>a, <1>3, <1>4 DEF StagesFollow
    <2>3. \A c \in Foreign : stage'[c] # "validated"
      BY <1>a, <1>1, <1>4 DEF StagesFollow
    <2>4. \A c \in Foreign : stage'[c] # "none" => Spends(body[c]) \subseteq Created'
      BY <1>a, <1>1, <1>3, <1>4 DEF StagesFollow
    <2>5. \A c \in overlaps : stage'[c] # "none"
      BY <1>a, <1>4 DEF StagesFollow, TypeOK
    <2> QED BY <1>1, <2>1, <2>2, <2>3, <2>4, <2>5 DEF StagesFollow
  <1>10. Overlapped' = Overlapped
    BY <1>1 DEF Overlapped
  <1>11. PoolFollows'
    <2>1. Spends(body[b]) \cap body[b] = {}
      BY <1>2 DEF OutputsOf
    <2>2. bcPool' = [have |-> bcPool.have \cup body[b] \cup {b},
                     spent |-> (bcPool.spent \cup (Spends(body[b]) \cap bcPool.have)) \ (body[b] \cup {b})]
      <3>1. bcPool \in Pool /\ kept \in SUBSET InternalInputs(body[b])
        BY <1>a DEF Kept, TypeOK
      <3>2. ProcessBlock(bcPool, b, body[b], kept) =
               [have |-> bcPool.have \cup body[b] \cup {b},
                spent |-> (bcPool.spent \cup (Spends(body[b]) \cap bcPool.have)) \ (body[b] \cup {b})]
        BY <1>2, <2>1, <3>1, ProcessResult, Zenon
      <3> QED BY <1>1, <3>2, Zenon
    <2>3. bcPool'.have = bcPool.have \cup OutputsOf(b)
          /\ bcPool'.spent = (bcPool.spent \cup (Spends(body[b]) \cap bcPool.have)) \ OutputsOf(b)
      BY <2>2 DEF OutputsOf
    <2>4. bcPool.spent \subseteq bcPool.have
      BY <1>a DEF TypeOK
    <2> QED BY <1>a, <1>2, <1>3, <1>10, <2>3, <2>4 DEF PoolFollows
  <1>12. OverlapsNoted'
    <2> SUFFICES ASSUME NEW c \in Foreign, NEW d \in Foreign, stage'[c] = "appended", stage'[d] # "none",
                        Spends(body[d]) \cap OutputsOf(c) # {}
                 PROVE  c \in overlaps
      BY <1>1, <1>5 DEF OverlapsNoted
    <2>1. stage[d] # "none"
      BY <1>1, <1>4
    <2>2. Spends(body[d]) \subseteq Created
      BY <1>a, <2>1 DEF StagesFollow
    <2>3. c # b
      BY <1>2, <2>2
    <2> QED BY <1>a, <1>4, <2>1, <2>3 DEF OverlapsNoted
  <1>13. ReadmittedNoted'
    BY <1>a, <1>1, <1>4, <1>10 DEF ReadmittedNoted
  <1>14. ~mines'
    OBVIOUS
  <1> QED BY <1>7, <1>8, <1>9, <1>11, <1>12, <1>13, <1>14 DEF ReceiverInv

\* The second pass over a block: what another block has spent of it meanwhile is
\* unspent again, and the block is one of overlapping handlers.
LEMMA ProcessKeeps ==
    ASSUME TypeInv, ~mines, mines' = mines, ReceiverInv,
           NEW b \in Foreign, NEW kept \in Kept(b), ProcessBlockUTXOs(b, kept)
    PROVE  ReceiverInv'
  <1>a. TypeOK /\ ChainDisjoint /\ CreatedCredited /\ StagesFollow /\ PoolFollows /\ OverlapsNoted /\ ReadmittedNoted
    BY DEF ReceiverInv, TypeInv
  <1>1. /\ stage[b] = "appended" /\ stage' = [stage EXCEPT ![b] = "processed"]
        /\ UNCHANGED <<chain, body, mempool, merged, overlaps>>
        /\ bcPool' = ProcessBlock(bcPool, b, body[b], kept)
        /\ Credit(OutputsOf(b))
    BY DEF ProcessBlockUTXOs, Advance, SetBcPool, pending, OutputsOf
  <1>2. /\ Created' = Created /\ Consumed' = Consumed
        /\ \A c : OnChain(c)' <=> OnChain(c)
        /\ \A c : OutputsOf(c)' = OutputsOf(c)
        /\ Overlapped' = Overlapped
    BY <1>1, SameChain DEF Overlapped
  <1>3. b \in Blocks /\ body[b] \in SUBSET Txs /\ OnChain(b) /\ Spends(body[b]) \subseteq Created
    BY <1>a, <1>1 DEF Blocks, StagesFollow, TypeOK
  <1>4. stage'[b] = "processed" /\ \A c \in Foreign : c # b => stage'[c] = stage[c]
    BY <1>a, <1>1 DEF TypeOK
  <1>5. OutputsOf(b) \subseteq Created /\ Spends(body[b]) \subseteq Consumed
    BY <1>3, CreatedElement, ConsumedElement DEF OnChain
  <1>6. ChainDisjoint'
    BY <1>a, <1>1 DEF ChainDisjoint
  <1>7. CreatedCredited'
    <2>1. Created \subseteq Outs
      BY <1>a, CreatedType
    <2>2. \A o \in Outs : credits[o] > 0 \/ o \in OutputsOf(b) => credits'[o] > 0
      BY <1>a, <1>1, CreditStep DEF TypeOK
    <2> QED BY <1>a, <1>2, <2>1, <2>2 DEF CreatedCredited
  <1>8. StagesFollow'
    <2>1. \A c \in Foreign : OnChain(c)' <=> stage'[c] \in {"appended", "processed", "done"}
      BY <1>a, <1>2, <1>3, <1>4 DEF StagesFollow
    <2>2. \A c \in Foreign : stage'[c] = "validated" => stage[c] = "validated"
      BY <1>4
    <2>3. \A c \in Foreign : stage'[c] # "none" => stage[c] # "none"
      BY <1>1, <1>4
    <2>4. \A c \in overlaps : stage'[c] # "none"
      BY <1>a, <1>4 DEF StagesFollow, TypeOK
    <2>5. /\ \A c \in Foreign : stage'[c] = "validated" => OutputsOf(c)' \cap Created' = {}
          /\ \A c, d \in Foreign : stage'[c] = "validated" /\ stage'[d] = "validated" => c = d
          /\ \A c \in Foreign : stage'[c] # "none" => Spends(body'[c]) \subseteq Created'
      BY <1>a, <1>1, <1>2, <2>2, <2>3 DEF StagesFollow
    <2>6. \A k \in DOMAIN chain' : chain'[k] \in Foreign
      BY <1>a, <1>1 DEF StagesFollow
    <2> QED BY <1>1, <2>1, <2>4, <2>5, <2>6 DEF StagesFollow
  <1>9. b \notin overlaps => Spends(body[b]) \cap OutputsOf(b) = {} /\ Consumed \cap OutputsOf(b) = {}
    <2> SUFFICES ASSUME b \notin overlaps
                 PROVE  Spends(body[b]) \cap OutputsOf(b) = {} /\ Consumed \cap OutputsOf(b) = {}
      OBVIOUS
    <2>1. \A c \in Foreign : stage[c] # "none" => Spends(body[c]) \cap OutputsOf(b) = {}
      BY <1>a, <1>1 DEF OverlapsNoted
    <2>2. ASSUME NEW o \in Consumed PROVE o \notin OutputsOf(b)
      <3>1. PICK k \in DOMAIN chain : o \in Spends(body[chain[k]])
        BY ConsumedElement
      <3>2. chain[k] \in Foreign /\ stage[chain[k]] # "none"
        BY <1>a DEF StagesFollow, OnChain
      <3> QED BY <2>1, <3>1, <3>2
    <2> QED BY <1>1, <2>1, <2>2
  <1>10. PoolFollows'
    <2>1. /\ bcPool'.have = bcPool.have \cup OutputsOf(b)
          /\ bcPool'.spent = ((bcPool.spent \cup (Spends(body[b]) \cap bcPool.have)) \ OutputsOf(b)) \cup kept
      BY <1>1 DEF ProcessBlock, Spends, OutputsOf
    <2>2. kept \subseteq Consumed
      <3>1. kept \subseteq Spends(body[b])
        BY SpendsElement DEF Kept, InternalInputs
      <3> QED BY <1>5, <3>1
    <2>3. bcPool'.have = Created' /\ bcPool'.spent \subseteq Consumed'
      BY <1>a, <1>2, <1>5, <2>1, <2>2 DEF PoolFollows
    <2>4. ASSUME NEW o \in Consumed \ bcPool'.spent PROVE o \in Overlapped
      <3>1. CASE o \in OutputsOf(b)
        <4>1. b \in overlaps
          BY <1>9, <3>1
        <4> QED BY <3>1, <4>1, OverlappedElement
      <3>2. CASE o \notin OutputsOf(b)
        BY <1>a, <2>1, <3>2 DEF PoolFollows
      <3> QED BY <3>1, <3>2
    <2> QED BY <1>2, <2>3, <2>4 DEF PoolFollows
  <1>11. OverlapsNoted'
    <2>1. \A c \in Foreign : stage'[c] = "appended" => stage[c] = "appended"
      BY <1>4
    <2>2. \A c \in Foreign : stage'[c] # "none" => stage[c] # "none"
      BY <1>1, <1>4
    <2> QED BY <1>a, <1>1, <1>2, <2>1, <2>2 DEF OverlapsNoted
  <1>12. ReadmittedNoted'
    BY <1>a, <1>1, <1>2, <1>4 DEF ReadmittedNoted
  <1>13. ~mines'
    OBVIOUS
  <1> QED BY <1>6, <1>7, <1>8, <1>10, <1>11, <1>12, <1>13 DEF ReceiverInv

\* The transactions of a block leave the mempool.
LEMMA ClearKeeps ==
    ASSUME TypeInv, ~mines, mines' = mines, ReceiverInv,
           NEW b \in Foreign, ClearProcessedTransactions(b)
    PROVE  ReceiverInv'
  <1>a. TypeOK /\ ChainDisjoint /\ CreatedCredited /\ StagesFollow /\ PoolFollows /\ OverlapsNoted /\ ReadmittedNoted
    BY DEF ReceiverInv, TypeInv
  <1>1. /\ stage[b] = "processed" /\ stage' = [stage EXCEPT ![b] = "done"]
        /\ UNCHANGED <<chain, body, bcPool, credits, merged, overlaps>>
        /\ mempool' = mempool \ body[b]
    BY DEF ClearProcessedTransactions, Advance, pools
  <1>2. /\ Created' = Created /\ Consumed' = Consumed
        /\ \A c : OnChain(c)' <=> OnChain(c)
        /\ \A c : OutputsOf(c)' = OutputsOf(c)
        /\ Overlapped' = Overlapped
    BY <1>1, SameChain DEF Overlapped
  <1>3. stage'[b] = "done" /\ \A c \in Foreign : c # b => stage'[c] = stage[c]
    BY <1>a, <1>1 DEF TypeOK
  <1>4. ChainDisjoint' /\ CreatedCredited' /\ PoolFollows'
    BY <1>a, <1>1, <1>2 DEF ChainDisjoint, CreatedCredited, PoolFollows
  <1>5. StagesFollow'
    <2>1. \A c \in Foreign : OnChain(c)' <=> stage'[c] \in {"appended", "processed", "done"}
      BY <1>a, <1>1, <1>2, <1>3 DEF StagesFollow
    <2>2. \A c \in Foreign : stage'[c] = "validated" => stage[c] = "validated"
      BY <1>3
    <2>3. \A c \in Foreign : stage'[c] # "none" => stage[c] # "none"
      BY <1>1, <1>3
    <2>4. \A c \in overlaps : stage'[c] # "none"
      BY <1>a, <1>3 DEF StagesFollow, TypeOK
    <2>5. /\ \A c \in Foreign : stage'[c] = "validated" => OutputsOf(c)' \cap Created' = {}
          /\ \A c, d \in Foreign : stage'[c] = "validated" /\ stage'[d] = "validated" => c = d
          /\ \A c \in Foreign : stage'[c] # "none" => Spends(body'[c]) \subseteq Created'
      BY <1>a, <1>1, <1>2, <2>2, <2>3 DEF StagesFollow
    <2>6. \A k \in DOMAIN chain' : chain'[k] \in Foreign
      BY <1>a, <1>1 DEF StagesFollow
    <2> QED BY <1>1, <2>1, <2>4, <2>5, <2>6 DEF StagesFollow
  <1>6. OverlapsNoted'
    <2>1. \A c \in Foreign : stage'[c] = "appended" => stage[c] = "appended"
      BY <1>3
    <2>2. \A c \in Foreign : stage'[c] # "none" => stage[c] # "none"
      BY <1>1, <1>3
    <2> QED BY <1>a, <1>1, <1>2, <2>1, <2>2 DEF OverlapsNoted
  <1>7. ReadmittedNoted'
    BY <1>a, <1>1, <1>2, <1>3 DEF ReadmittedNoted
  <1>8. ~mines'
    OBVIOUS
  <1> QED BY <1>4, <1>5, <1>6, <1>7, <1>8 DEF ReceiverInv

\* Transactions that are offered or merged: a mined one is let in only if its
\* inputs are unspent again, or by a peer's list.
LEMMA PendingKeeps ==
    ASSUME TypeInv, ReceiverIdle, ~mines, mines' = mines, ReceiverInv,
           \/ \E t \in Txs : AddTransaction(t, nodePool)
           \/ \E txs \in SUBSET Txs : SyncWithPeer(txs)
    PROVE  ReceiverInv'
  <1>a. TypeOK /\ ChainDisjoint /\ CreatedCredited /\ StagesFollow /\ PoolFollows /\ OverlapsNoted /\ ReadmittedNoted
    BY DEF ReceiverInv, TypeInv
  <1>1. UNCHANGED <<chain, body, bcPool, credits, stage, overlaps>>
    BY DEF AddTransaction, SyncWithPeer, pools, handlers
  <1>2. /\ Created' = Created /\ Consumed' = Consumed
        /\ \A c : OnChain(c)' <=> OnChain(c)
        /\ \A c : OutputsOf(c)' = OutputsOf(c)
        /\ Overlapped' = Overlapped
    BY <1>1, SameChain DEF Overlapped
  <1>3. ChainDisjoint' /\ CreatedCredited' /\ PoolFollows' /\ StagesFollow' /\ OverlapsNoted'
    BY <1>a, <1>1, <1>2 DEF ChainDisjoint, CreatedCredited, PoolFollows, StagesFollow, OverlapsNoted
  <1>4. ASSUME NEW t \in Txs, AddTransaction(t, nodePool) PROVE ReadmittedNoted'
    <2>1. mempool' = mempool \cup {t} /\ merged' = merged /\ Inputs[t] \subseteq nodePool.have \ nodePool.spent
      BY <1>4 DEF AddTransaction, Spendable
    <2>2. nodePool = bcPool
      BY <1>a DEF ReceiverIdle, TypeOK
    <2>3. ASSUME NEW b \in Foreign, stage[b] = "done", t \in body[b] PROVE Inputs[t] \subseteq Overlapped
      <3>1. OnChain(b)
        BY <1>a, <2>3 DEF StagesFollow
      <3>2. Spends(body[b]) \subseteq Consumed
        BY <3>1, ConsumedElement DEF OnChain
      <3>3. Inputs[t] \subseteq Spends(body[b])
        BY <2>3, SpendsElement
      <3> QED BY <1>a, <2>1, <2>2, <3>2, <3>3 DEF PoolFollows
    <2> QED BY <1>a, <1>1, <1>2, <2>1, <2>3 DEF ReadmittedNoted
  <1>5. ASSUME NEW txs \in SUBSET Txs, SyncWithPeer(txs) PROVE ReadmittedNoted'
    <2>1. mempool' = mempool \cup txs /\ merged' = merged \cup txs
      BY <1>5 DEF SyncWithPeer
    <2> QED BY <1>a, <1>1, <1>2, <2>1 DEF ReadmittedNoted
  <1>6. ReadmittedNoted'
    BY <1>4, <1>5
  <1>7. ~mines'
    OBVIOUS
  <1> QED BY <1>3, <1>6, <1>7 DEF ReceiverInv

\* A new node has created and spent nothing.
LEMMA InitEmpty ==
    ASSUME Init
    PROVE  Created = {} /\ Consumed = {} /\ Overlapped = {} /\ ChainDisjoint /\ CreatedCredited /\ \A c : ~OnChain(c)
  <1>1. DOMAIN chain = {}
    BY DEF Init
  <1>2. Created = {} /\ \A c : ~OnChain(c)
    BY <1>1, CreatedElement DEF OnChain
  <1>3. Consumed = {}
    BY <1>1, ConsumedElement
  <1>4. Overlapped = {}
    BY OverlappedElement DEF Init
  <1> QED BY <1>1, <1>2, <1>3, <1>4 DEF ChainDisjoint, CreatedCredited

\* The receiver's pool is exact at the start: empty.
LEMMA InitReceiver == Init => ReceiverInv
  <1> SUFFICES ASSUME Init PROVE ReceiverInv
    OBVIOUS
  <1>1. Created = {} /\ Consumed = {} /\ ChainDisjoint /\ CreatedCredited /\ \A c : ~OnChain(c)
    BY InitEmpty
  <1>2. DOMAIN chain = {} /\ overlaps = {} /\ bcPool.have = {} /\ bcPool.spent = {} /\ \A b \in Foreign : stage[b] = "none"
    BY DEF Init, EmptyPool
  <1> QED BY <1>1, <1>2 DEF ReceiverInv, StagesFollow, PoolFollows, OverlapsNoted, ReadmittedNoted

\* Every step keeps the receiver's pool exact.
LEMMA NextReceiver ==
    ASSUME TypeInv, ReceiverIdle, ReceiverInv, [Next]_vars
    PROVE  ReceiverInv'
  <1>1. mines' = mines
    BY DEF Next, vars
  <1>2. CASE mines
    BY <1>1, <1>2 DEF ReceiverInv
  <1>3. CASE ~mines /\ UNCHANGED vars
    <2>1. UNCHANGED <<mines, chain, body, bcPool, mempool, merged, credits, stage, overlaps>>
      BY <1>3 DEF vars, pools, pending, handlers
    <2>2. /\ Created' = Created /\ Consumed' = Consumed /\ Overlapped' = Overlapped
          /\ \A c : OnChain(c)' <=> OnChain(c)
          /\ \A c : OutputsOf(c)' = OutputsOf(c)
      BY <2>1, SameChain DEF Overlapped
    <2> QED BY <2>1, <2>2 DEF ReceiverInv, ChainDisjoint, CreatedCredited, StagesFollow, PoolFollows,
              OverlapsNoted, ReadmittedNoted
  <1>4. CASE ~mines /\ ~UNCHANGED vars
    <2>1. \/ \E t \in Txs : AddTransaction(t, nodePool)
          \/ \E txs \in SUBSET Txs : SyncWithPeer(txs)
          \/ Receive
      BY <1>4 DEF Next, ReceiverIdle
    <2> QED BY <1>1, <1>4, <2>1, PendingKeeps, ReceiveBlockKeeps, AddBlockKeeps, ProcessKeeps, ClearKeeps DEF Receive
  <1> QED BY <1>2, <1>3, <1>4

\* What holds of every node, whatever its role.
RoleInv == TypeInv /\ MinerAlone /\ ReceiverIdle /\ ReceiverInv

\* Types, roles and the receiver's pool, in every state.
LEMMA RoleInvHolds == Spec => []RoleInv
  <1>1. Init => RoleInv
    BY InitTypeInv, InitRoles, InitReceiver DEF RoleInv
  <1>2. RoleInv /\ [Next]_vars => RoleInv'
    BY NextTypeInv, NextRoles, NextReceiver DEF RoleInv
  <1> QED BY <1>1, <1>2, PTL DEF Spec

\* A transaction of a block that handleBlockStream is through with comes back to
\* the mempool only in a peer's list, or when an input of it was made unspent by
\* the second pass over a block whose handler overlapped with another's.
THEOREM NeverReadmitted == Spec => []MinedNotReadmitted
  <1>1. RoleInv => MinedNotReadmitted
    BY DEF RoleInv, MinerAlone, ReceiverInv, ReadmittedNoted, MinedNotReadmitted, TypeInv, TypeOK
  <1> QED BY <1>1, RoleInvHolds, PTL

-----------------------------------------------------------------------------
(* The node that mines. *)

\* What a miner's pools may leave unspent.
LEMMA MinerDoubt ==
    ASSUME mines, overlaps = {}
    PROVE  Doubtful = Repeated \cup Spends(merged)
  BY DEF Doubtful, Overlapped, Spends

\* It never becomes less.
LEMMA DoubtGrows ==
    ASSUME mines, mines' = mines, overlaps = {}, overlaps' = {}, Repeated \subseteq Repeated', merged \subseteq merged'
    PROVE  Doubtful \subseteq Doubtful'
  <1>1. Doubtful = Repeated \cup Spends(merged)
    BY MinerDoubt
  <1>2. Doubtful' = Repeated' \cup Spends(merged')
    BY DEF Doubtful, Overlapped, Spends
  <1>3. Spends(merged) \subseteq Spends(merged')
    BY SpendsElement
  <1> QED BY <1>1, <1>2, <1>3

\* While the chain and the merged transactions stay, so does all that follows from them.
LEMMA Steady ==
    ASSUME mines' = mines, UNCHANGED <<chain, body, merged, overlaps>>
    PROVE  /\ Created' = Created /\ Consumed' = Consumed /\ Doubtful' = Doubtful /\ Repeated' = Repeated
           /\ \A c : OnChain(c)' <=> OnChain(c)
           /\ \A c : OutputsOf(c)' = OutputsOf(c)
  BY SameChain DEF Doubtful, Overlapped, Repeated

\* A block that is appended repeats the transactions that the chain had.
LEMMA AppendRepeats ==
    ASSUME TypeOK, NEW b \in Blocks, chain' = Append(chain, b), body' = body
    PROVE  Repeated' = Repeated \cup (body[b] \cap Created)
  <1>1. /\ DOMAIN chain' = 1..(Len(chain) + 1) /\ Len(chain) \in Nat /\ DOMAIN chain = 1..Len(chain)
        /\ \A k \in DOMAIN chain : chain'[k] = chain[k]
        /\ chain'[Len(chain) + 1] = b
    BY DEF TypeOK
  <1>2. /\ \A k \in DOMAIN chain' : k \in DOMAIN chain \/ k = Len(chain) + 1
        /\ \A k \in DOMAIN chain : k \in DOMAIN chain' /\ k # Len(chain) + 1
        /\ Len(chain) + 1 \in DOMAIN chain'
    BY <1>1
  <1>3. \A k \in DOMAIN chain : chain[k] \in Blocks
    BY DEF TypeOK
  <1>4. ASSUME NEW t \in Txs PROVE t \in Created <=> \E k \in DOMAIN chain : t \in body[chain[k]]
    <2>1. \A k \in DOMAIN chain : t # chain[k]
      BY <1>3, LedgerAssumption
    <2> QED BY <2>1, CreatedElement DEF OutputsOf
  <1>5. body[b] \subseteq Txs
    BY DEF TypeOK
  <1>6. ASSUME NEW t \in Repeated' PROVE t \in Repeated \cup (body[b] \cap Created)
    <2>1. PICK i \in DOMAIN chain', j \in DOMAIN chain' : i # j /\ t \in body[chain'[i]] \cap body[chain'[j]]
      BY <1>6 DEF Repeated
    <2>2. t \in Txs
      BY <1>6 DEF Repeated
    <2>3. CASE i \in DOMAIN chain /\ j \in DOMAIN chain
      BY <1>1, <2>1, <2>2, <2>3 DEF Repeated
    <2>4. CASE i \in DOMAIN chain /\ j = Len(chain) + 1
      BY <1>1, <1>4, <2>1, <2>2, <2>4
    <2>5. CASE j \in DOMAIN chain /\ i = Len(chain) + 1
      BY <1>1, <1>4, <2>1, <2>2, <2>5
    <2> QED BY <1>2, <2>1, <2>3, <2>4, <2>5
  <1>7. ASSUME NEW t \in Repeated PROVE t \in Repeated'
    <2>1. PICK i \in DOMAIN chain, j \in DOMAIN chain : i # j /\ t \in body[chain[i]] \cap body[chain[j]]
      BY DEF Repeated
    <2>2. i \in DOMAIN chain' /\ j \in DOMAIN chain' /\ t \in body[chain'[i]] \cap body[chain'[j]] /\ t \in Txs
      BY <1>1, <1>2, <2>1 DEF Repeated
    <2> QED BY <2>1, <2>2 DEF Repeated
  <1>8. ASSUME NEW t \in body[b] \cap Created PROVE t \in Repeated'
    <2>1. PICK k \in DOMAIN chain : t \in body[chain[k]]
      BY <1>4, <1>5
    <2>2. k \in DOMAIN chain' /\ t \in body[chain'[k]] /\ k # Len(chain) + 1
          /\ t \in body[chain'[Len(chain) + 1]] /\ t \in Txs
      BY <1>1, <1>2, <1>5, <2>1
    <2> QED BY <1>2, <2>2 DEF Repeated
  <1> QED BY <1>6, <1>7, <1>8

\* What a mined transaction spends is consumed.
LEMMA MinedConsumes ==
    ASSUME TypeOK, NEW t \in Txs, t \in Created
    PROVE  Inputs[t] \subseteq Consumed
  <1>1. PICK k \in DOMAIN chain : t \in OutputsOf(chain[k])
    BY CreatedElement
  <1>2. chain[k] \in Blocks
    BY DEF TypeOK
  <1>3. t \in body[chain[k]]
    BY <1>1, <1>2, LedgerAssumption DEF OutputsOf
  <1>4. Inputs[t] \subseteq Spends(body[chain[k]])
    BY <1>3, SpendsElement
  <1> QED BY <1>4, ConsumedElement

\* The fields of what ProcessBlock leaves.
LEMMA ProcessFields ==
    ASSUME NEW pool, NEW b, NEW kept \in Kept(b)
    PROVE  LET r == ProcessBlock(pool, b, body[b], kept) IN
             /\ r.have = pool.have \cup OutputsOf(b)
             /\ r.spent = ((pool.spent \cup (Spends(body[b]) \cap pool.have)) \ OutputsOf(b)) \cup kept
             /\ kept \subseteq Spends(body[b])
  <1>1. kept \subseteq Spends(body[b])
    BY SpendsElement DEF Kept, InternalInputs
  <1> QED BY <1>1 DEF ProcessBlock, Spends, OutputsOf

\* A level pool that gets a new block is ahead.
LEMMA ProcessNew ==
    ASSUME NEW pool, pool.spent \subseteq pool.have, Level(pool), Consumed \ Created \subseteq Doubtful,
           NEW b, b \notin Created, NEW kept \in Kept(b), Spends(body[b]) \subseteq Created \cup Doubtful
    PROVE  Ahead(b, ProcessBlock(pool, b, body[b], kept))
  <1> DEFINE r == ProcessBlock(pool, b, body[b], kept)
  <1>1. /\ r.have = pool.have \cup OutputsOf(b)
        /\ r.spent = ((pool.spent \cup (Spends(body[b]) \cap pool.have)) \ OutputsOf(b)) \cup kept
        /\ kept \subseteq Spends(body[b])
    BY ProcessFields
  <1> HIDE DEF r
  <1>2. pool.have = Created /\ pool.spent \subseteq Consumed /\ Consumed \ pool.spent \subseteq Doubtful
    BY DEF Level
  <1>3. ASSUME NEW o \in (Consumed \cup Spends(body[b])) \ r.spent
        PROVE  o \in Doubtful \cup (body[b] \cap Created)
    <2>1. CASE o \notin Created
      BY <1>3, <2>1
    <2>2. CASE o \in Created /\ o \in OutputsOf(b)
      BY <2>2 DEF OutputsOf
    <2>3. CASE o \in Created /\ o \notin OutputsOf(b)
      BY <1>1, <1>2, <1>3, <2>3
    <2> QED BY <2>1, <2>2, <2>3
  <1>4. r.have = Created \cup OutputsOf(b) /\ r.spent \subseteq Consumed \cup Spends(body[b])
    BY <1>1, <1>2
  <1> QED BY <1>3, <1>4 DEF Ahead, r

\* A level pool stays level when it gets a block of the chain again.
LEMMA ProcessAgain ==
    ASSUME NEW pool, Level(pool), NEW b, NEW kept \in Kept(b),
           OnChain(b), Consumed \cap OutputsOf(b) \subseteq Doubtful
    PROVE  Level(ProcessBlock(pool, b, body[b], kept))
  <1> DEFINE r == ProcessBlock(pool, b, body[b], kept)
  <1>1. /\ r.have = pool.have \cup OutputsOf(b)
        /\ r.spent = ((pool.spent \cup (Spends(body[b]) \cap pool.have)) \ OutputsOf(b)) \cup kept
        /\ kept \subseteq Spends(body[b])
    BY ProcessFields
  <1> HIDE DEF r
  <1>2. pool.have = Created /\ pool.spent \subseteq Consumed /\ Consumed \ pool.spent \subseteq Doubtful
    BY DEF Level
  <1>3. OutputsOf(b) \subseteq Created /\ Spends(body[b]) \subseteq Consumed
    BY CreatedElement, ConsumedElement DEF OnChain
  <1>4. r.have = Created /\ r.spent \subseteq Consumed /\ Consumed \ r.spent \subseteq Doubtful
    BY <1>1, <1>2, <1>3
  <1> QED BY <1>4 DEF Level, r

\* The miner is idle at the start.
LEMMA InitMiner == Init => MinerInv
  <1> SUFFICES ASSUME Init PROVE MinerInv
    OBVIOUS
  <1>1. Created = {} /\ Consumed = {} /\ CreatedCredited
    BY InitEmpty
  <1>2. DOMAIN chain = {}
    BY DEF Init
  <1>3. MinedOnce
    BY <1>2 DEF MinedOnce, Repeated
  <1> QED BY <1>1, <1>3 DEF Init, EmptyPool, MinerInv, JobInv, MempoolInv, MinerPools, Level

\* A mined transaction that is offered again passes a map that was replaced, or
\* spends what is in doubt.
LEMMA MinerAdds ==
    ASSUME TypeInv, mines, mines' = mines, MinerInv,
           NEW t \in Txs, NEW map \in replaced \cup {nodePool}, AddTransaction(t, map)
    PROVE  MinerInv'
  <1>a. /\ TypeOK /\ overlaps = {} /\ CreatedCredited /\ Consumed \ Created \subseteq Doubtful
        /\ JobInv /\ MempoolInv /\ MinerPools /\ MinedOnce
    BY DEF MinerInv, TypeInv
  <1>1. /\ UNCHANGED <<chain, body, bcPool, nodePool, replaced, merged, credits, job, phase, temp, overlaps>>
        /\ mempool' = mempool \cup {t} /\ Spendable(t, map)
        /\ late' = IF Spendable(t, nodePool) THEN late ELSE late \cup {t}
    BY DEF AddTransaction, pools, miner, handlers
  <1>2. /\ Created' = Created /\ Consumed' = Consumed /\ Doubtful' = Doubtful /\ Repeated' = Repeated
        /\ \A c : OnChain(c)' <=> OnChain(c)
        /\ \A c : OutputsOf(c)' = OutputsOf(c)
    BY <1>1, Steady
  <1>3. Inputs[t] \subseteq nodePool.have
    BY <1>a, <1>1 DEF Spendable, MinerPools
  <1>4. \A u : Excused(u) => Excused(u)'
    BY <1>1, <1>2 DEF Excused
  <1>5. t \in Created => MayBePooled(t)'
    <2> SUFFICES ASSUME t \in Created, Spendable(t, nodePool) PROVE MayBePooled(t)'
      BY <1>1 DEF MayBePooled, Excused
    <2>1. Inputs[t] \subseteq Consumed /\ Inputs[t] \cap nodePool.spent = {}
      BY <1>a, MinedConsumes DEF Spendable
    <2>2. CASE phase = "synced"
      <3>1. \A b \in job : Ahead(b, nodePool)
        BY <1>a, <2>2 DEF MinerPools
      <3>2. \A b \in job : Inputs[t] \subseteq Doubtful \cup (body[b] \cap Created)
        BY <2>1, <3>1 DEF Ahead
      <3> QED BY <1>1, <1>2, <2>2, <3>2 DEF MayBePooled
    <2>3. CASE phase # "synced"
      <3>1. Level(nodePool)
        BY <1>a, <2>3 DEF MinerPools, TypeOK, Phases
      <3>2. Inputs[t] \subseteq Doubtful
        BY <2>1, <3>1 DEF Level
      <3> QED BY <1>1, <1>2, <3>2 DEF MayBePooled, Excused
    <2> QED BY <2>2, <2>3
  <1>6. \A u : MayBePooled(u) => MayBePooled(u)'
    BY <1>1, <1>2, <1>4 DEF MayBePooled
  <1>7. MempoolInv'
    BY <1>a, <1>1, <1>2, <1>3, <1>5, <1>6 DEF MempoolInv
  <1>8. MinerPools'
    BY <1>a, <1>1, <1>2 DEF MinerPools, Level, Ahead
  <1>9. JobInv'
    BY <1>a, <1>1, <1>2 DEF JobInv
  <1>10. MinedOnce'
    BY <1>a, <1>2, <1>4 DEF MinedOnce, Excused
  <1>11. CreatedCredited'
    BY <1>a, <1>1, <1>2 DEF CreatedCredited
  <1> QED BY <1>a, <1>1, <1>2, <1>7, <1>8, <1>9, <1>10, <1>11 DEF MinerInv

\* What a peer's list brings is in doubt, and excused.
LEMMA MinerMerges ==
    ASSUME TypeInv, mines, mines' = mines, MinerInv, NEW txs \in SUBSET Txs, SyncWithPeer(txs)
    PROVE  MinerInv'
  <1>a. /\ TypeOK /\ overlaps = {} /\ CreatedCredited /\ Consumed \ Created \subseteq Doubtful
        /\ JobInv /\ MempoolInv /\ MinerPools /\ MinedOnce
    BY DEF MinerInv, TypeInv
  <1>1. /\ UNCHANGED <<chain, body, bcPool, nodePool, replaced, late, credits, job, phase, temp, overlaps>>
        /\ mempool' = mempool \cup txs /\ merged' = merged \cup txs
    BY DEF SyncWithPeer, pools, miner, handlers
  <1>2. /\ Created' = Created /\ Consumed' = Consumed /\ Repeated' = Repeated
        /\ \A c : OnChain(c)' <=> OnChain(c)
        /\ \A c : OutputsOf(c)' = OutputsOf(c)
    BY <1>1, SameChain DEF Repeated
  <1>3. Doubtful \subseteq Doubtful'
    BY <1>a, <1>1, <1>2, DoubtGrows
  <1>4. \A t \in txs : Inputs[t] \subseteq Doubtful' /\ Excused(t)'
    <2>1. Doubtful' = Repeated' \cup Spends(merged')
      BY <1>a, <1>1 DEF Doubtful, Overlapped, Spends
    <2>2. \A t \in txs : Inputs[t] \subseteq Spends(merged')
      BY <1>1, SpendsElement
    <2> QED BY <1>1, <2>1, <2>2 DEF Excused
  <1>5. \A u : Excused(u) => Excused(u)'
    BY <1>1, <1>3 DEF Excused
  <1>6. \A u : MayBePooled(u) => MayBePooled(u)'
    BY <1>1, <1>2, <1>3, <1>5 DEF MayBePooled
  <1>7. MempoolInv'
    BY <1>a, <1>1, <1>2, <1>3, <1>4, <1>6 DEF MempoolInv, MayBePooled
  <1>8. MinerPools'
    <2>1. \A pool : Level(pool) => pool.have = Created' /\ pool.spent \subseteq Consumed' /\ Consumed' \ pool.spent \subseteq Doubtful'
      BY <1>2, <1>3 DEF Level
    <2>2. Level(bcPool) => Level(bcPool)'
      BY <1>1, <2>1 DEF Level
    <2>3. Level(nodePool) => Level(nodePool)'
      BY <1>1, <2>1 DEF Level
    <2>4. \A b : /\ Ahead(b, bcPool) => Ahead(b, bcPool)'
                 /\ Ahead(b, nodePool) => Ahead(b, nodePool)'
                 /\ Ahead(b, temp) => Ahead(b, temp)'
      BY <1>1, <1>2, <1>3 DEF Ahead
    <2> QED BY <1>a, <1>1, <2>2, <2>3, <2>4 DEF MinerPools
  <1>9. JobInv'
    BY <1>a, <1>1, <1>2, <1>3 DEF JobInv
  <1>10. MinedOnce'
    BY <1>a, <1>2, <1>5 DEF MinedOnce, Excused
  <1>11. CreatedCredited'
    BY <1>a, <1>1, <1>2 DEF CreatedCredited
  <1> QED BY <1>a, <1>1, <1>2, <1>3, <1>7, <1>8, <1>9, <1>10, <1>11 DEF MinerInv

\* The transactions that are selected spend known outputs, or ones in doubt.
LEMMA MinerSelects ==
    ASSUME TypeInv, mines, mines' = mines, MinerInv, NEW b \in Own, SelectTransactions(b)
    PROVE  MinerInv'
  <1>a. /\ TypeOK /\ overlaps = {} /\ CreatedCredited /\ Consumed \ Created \subseteq Doubtful
        /\ JobInv /\ MempoolInv /\ MinerPools /\ MinedOnce
    BY DEF MinerInv, TypeInv
  <1>1. /\ phase = "idle" /\ credits[b] = 0 /\ job' = {b} /\ phase' = "selected"
        /\ body' = [body EXCEPT ![b] = mempool]
        /\ UNCHANGED <<chain, bcPool, nodePool, replaced, mempool, merged, late, credits, temp, overlaps>>
    BY DEF SelectTransactions, Fresh, pools, pending, handlers
  <1>2. b \in Blocks /\ b \notin Created /\ ~OnChain(b) /\ mempool \in SUBSET Txs
    <2>1. b \notin Created
      BY <1>a, <1>1 DEF CreatedCredited
    <2>2. ~OnChain(b)
      BY <2>1, CreatedElement DEF OnChain, OutputsOf
    <2> QED BY <1>a, <2>1, <2>2 DEF Blocks, TypeOK
  <1>3. /\ Created' = Created /\ Consumed' = Consumed
        /\ \A k \in DOMAIN chain : body'[chain[k]] = body[chain[k]]
        /\ body'[b] = mempool
    BY <1>a, <1>1, <1>2, FillBlock
  <1>4. Repeated' = Repeated
    BY <1>1, <1>3 DEF Repeated
  <1>5. Doubtful' = Doubtful
    BY <1>a, <1>1, <1>4 DEF Doubtful, Overlapped
  <1>6. Level(nodePool) /\ Level(bcPool)
    BY <1>a, <1>1 DEF MinerPools
  <1>7. Spends(mempool) \subseteq Created \cup Doubtful
    <2>1. nodePool.have = Created
      BY <1>6 DEF Level
    <2> QED BY <1>a, <2>1, SpendsElement DEF MempoolInv
  <1>8. JobInv'
    <2>1. b \notin Created' /\ Spends(body'[b]) \subseteq Created' \cup Doubtful' /\ body'[b] \subseteq mempool'
      BY <1>1, <1>2, <1>3, <1>5, <1>7
    <2> QED BY <1>1, <2>1 DEF JobInv, Unmined
  <1>9. MempoolInv'
    <2>1. \A u : MayBePooled(u) => MayBePooled(u)'
      BY <1>1, <1>5 DEF MayBePooled, Excused
    <2> QED BY <1>a, <1>1, <1>3, <1>5, <2>1 DEF MempoolInv
  <1>10. MinerPools'
    <2>1. Level(bcPool)' /\ Level(nodePool)'
      BY <1>1, <1>3, <1>5, <1>6 DEF Level
    <2> QED BY <1>a, <1>1, <2>1 DEF MinerPools
  <1>11. MinedOnce'
    BY <1>a, <1>1, <1>4, <1>5 DEF MinedOnce
  <1>12. CreatedCredited'
    BY <1>a, <1>1, <1>3 DEF CreatedCredited
  <1> QED BY <1>a, <1>1, <1>3, <1>5, <1>8, <1>9, <1>10, <1>11, <1>12 DEF MinerInv

\* Up to the commit the block is tried on a clone, and both pools stay level.
LEMMA MinerClones ==
    ASSUME TypeInv, mines, mines' = mines, MinerInv, NEW b \in job, NEW kept \in Kept(b), CloneUTXOPool(b, kept)
    PROVE  MinerInv'
  <1>a. /\ TypeOK /\ overlaps = {} /\ CreatedCredited /\ Consumed \ Created \subseteq Doubtful
        /\ JobInv /\ MempoolInv /\ MinerPools /\ MinedOnce
    BY DEF MinerInv, TypeInv
  <1>1. /\ phase = "selected" /\ phase' = "mining" /\ Credit(OutputsOf(b))
        /\ temp' = ProcessBlock(bcPool, b, body[b], kept)
        /\ UNCHANGED <<chain, body, bcPool, nodePool, replaced, mempool, merged, late, job, overlaps>>
    BY DEF CloneUTXOPool, pools, pending, handlers, OutputsOf
  <1>2. /\ Created' = Created /\ Consumed' = Consumed /\ Doubtful' = Doubtful /\ Repeated' = Repeated
        /\ \A c : OnChain(c)' <=> OnChain(c)
        /\ \A c : OutputsOf(c)' = OutputsOf(c)
    BY <1>1, Steady
  <1>3. /\ b \in Blocks /\ body[b] \in SUBSET Txs /\ OutputsOf(b) \subseteq Outs
        /\ \A c \in job : c = b
    BY <1>a DEF TypeOK, Blocks, OutputsOf, Outs, JobInv
  <1>4. Level(bcPool) /\ Level(nodePool) /\ Spends(body[b]) \subseteq Created \cup Doubtful /\ b \notin Created
    BY <1>a, <1>1 DEF MinerPools, JobInv, Unmined
  <1>5. Ahead(b, ProcessBlock(bcPool, b, body[b], kept))
    BY <1>a, <1>4, ProcessNew DEF TypeOK
  <1>6. \A o \in Outs : credits[o] > 0 \/ o \in OutputsOf(b) => credits'[o] > 0
    BY <1>a, <1>1, CreditStep DEF TypeOK
  <1>7. CreatedCredited'
    BY <1>a, <1>2, <1>6, CreatedType DEF CreatedCredited
  <1>8. MinerPools'
    <2>1. Level(bcPool)' /\ Level(nodePool)'
      BY <1>1, <1>2, <1>4 DEF Level
    <2>2. Ahead(b, temp)'
      BY <1>1, <1>2, <1>5 DEF Ahead
    <2> QED BY <1>a, <1>1, <1>3, <2>1, <2>2 DEF MinerPools
  <1>9. JobInv'
    <2>1. \A o \in OutputsOf(b)' : credits'[o] > 0
      BY <1>2, <1>3, <1>6
    <2>2. body[b] \subseteq mempool
      BY <1>a, <1>1 DEF JobInv, Unmined
    <2> QED BY <1>1, <1>2, <1>3, <1>4, <2>1, <2>2 DEF JobInv, Unmined
  <1>10. MempoolInv'
    BY <1>a, <1>1, <1>2 DEF MempoolInv, MayBePooled, Excused
  <1>11. MinedOnce'
    BY <1>a, <1>1, <1>2 DEF MinedOnce
  <1> QED BY <1>a, <1>1, <1>2, <1>7, <1>8, <1>9, <1>10, <1>11 DEF MinerInv

\* Mining fails: the block is dropped, its transactions stay pooled.
LEMMA MinerFails ==
    ASSUME TypeInv, mines, mines' = mines, MinerInv, MiningFailed
    PROVE  MinerInv'
  <1>a. /\ TypeOK /\ overlaps = {} /\ CreatedCredited /\ Consumed \ Created \subseteq Doubtful
        /\ JobInv /\ MempoolInv /\ MinerPools /\ MinedOnce
    BY DEF MinerInv, TypeInv
  <1>1. /\ phase = "mining" /\ phase' = "idle" /\ job' = {}
        /\ UNCHANGED <<chain, body, bcPool, nodePool, replaced, mempool, merged, late, credits, overlaps>>
    BY DEF MiningFailed, pools, pending, handlers
  <1>2. Created' = Created /\ Consumed' = Consumed /\ Doubtful' = Doubtful /\ Repeated' = Repeated
    BY <1>1, Steady
  <1>3. MinerPools'
    BY <1>a, <1>1, <1>2 DEF MinerPools, Level
  <1>4. JobInv'
    BY <1>1 DEF JobInv
  <1>5. MempoolInv'
    BY <1>a, <1>1, <1>2 DEF MempoolInv, MayBePooled, Excused
  <1>6. MinedOnce'
    BY <1>a, <1>1, <1>2 DEF MinedOnce
  <1> QED BY <1>a, <1>1, <1>2, <1>3, <1>4, <1>5, <1>6 DEF MinerInv, CreatedCredited

\* The commit puts bc.utxoPool ahead of the chain.
LEMMA MinerCommits ==
    ASSUME TypeInv, mines, mines' = mines, MinerInv, CommitPool
    PROVE  MinerInv'
  <1>a. /\ TypeOK /\ overlaps = {} /\ CreatedCredited /\ Consumed \ Created \subseteq Doubtful
        /\ JobInv /\ MempoolInv /\ MinerPools /\ MinedOnce
    BY DEF MinerInv, TypeInv
  <1>1. /\ phase = "mining" /\ phase' = "committed" /\ bcPool' = temp
        /\ UNCHANGED <<chain, body, nodePool, replaced, mempool, merged, late, credits, job, temp, overlaps>>
    BY DEF CommitPool, pending, handlers
  <1>2. /\ Created' = Created /\ Consumed' = Consumed /\ Doubtful' = Doubtful /\ Repeated' = Repeated
        /\ \A c : OnChain(c)' <=> OnChain(c)
        /\ \A c : OutputsOf(c)' = OutputsOf(c)
    BY <1>1, Steady
  <1>3. MinerPools'
    BY <1>a, <1>1, <1>2 DEF MinerPools, Level, Ahead
  <1>4. JobInv'
    <2>1. \A b, c \in job' : b = c
      BY <1>a, <1>1 DEF JobInv
    <2>2. ASSUME NEW b \in job
          PROVE  /\ b \notin Created' /\ Spends(body'[b]) \subseteq Created' \cup Doubtful'
                 /\ body'[b] \subseteq mempool' /\ \A o \in OutputsOf(b)' : credits'[o] > 0
      BY <1>a, <1>1, <1>2 DEF JobInv, Unmined
    <2> QED BY <1>1, <2>1, <2>2 DEF JobInv
  <1>5. MempoolInv'
    BY <1>a, <1>1, <1>2 DEF MempoolInv, MayBePooled, Excused
  <1>6. MinedOnce'
    BY <1>a, <1>1, <1>2 DEF MinedOnce
  <1> QED BY <1>a, <1>1, <1>2, <1>3, <1>4, <1>5, <1>6 DEF MinerInv, CreatedCredited

\* Node.UTXOPool catches up, by the coinbase alone if the block has nothing else
\* that is new.
LEMMA MinerSyncs ==
    ASSUME TypeInv, mines, mines' = mines, MinerInv, NEW b \in job, SyncNodePool(b)
    PROVE  MinerInv'
  <1>a. /\ TypeOK /\ overlaps = {} /\ CreatedCredited /\ Consumed \ Created \subseteq Doubtful
        /\ JobInv /\ MempoolInv /\ MinerPools /\ MinedOnce
    BY DEF MinerInv, TypeInv
  <1> DEFINE node == AddCoinbase(nodePool, b)
  <1>1. /\ phase = "committed" /\ phase' = "synced" /\ Credit({b})
        /\ nodePool' = IF SameRoot(node, bcPool) THEN node ELSE bcPool
        /\ replaced' = IF SameRoot(node, bcPool) THEN replaced ELSE replaced \cup {node}
        /\ UNCHANGED <<chain, body, bcPool, mempool, merged, late, job, temp, overlaps>>
    BY DEF SyncNodePool, SetNodePool, pending, handlers
  <1>2. /\ Created' = Created /\ Consumed' = Consumed /\ Doubtful' = Doubtful /\ Repeated' = Repeated
        /\ \A c : OnChain(c)' <=> OnChain(c)
        /\ \A c : OutputsOf(c)' = OutputsOf(c)
    BY <1>1, Steady
  <1>3. /\ b \in Blocks /\ body[b] \in SUBSET Txs /\ OutputsOf(b) \subseteq Outs
        /\ \A c \in job : c = b
    BY <1>a DEF TypeOK, Blocks, OutputsOf, Outs, JobInv
  <1>4. /\ Level(nodePool) /\ Ahead(b, bcPool) /\ Spends(body[b]) \subseteq Created \cup Doubtful
        /\ b \notin Created /\ body[b] \subseteq mempool
        /\ \A o \in OutputsOf(b) : credits[o] > 0
    BY <1>a, <1>1 DEF MinerPools, JobInv, Unmined
  <1>5. /\ nodePool.have = Created /\ nodePool.spent \subseteq Consumed /\ Consumed \ nodePool.spent \subseteq Doubtful
        /\ bcPool.have = Created \cup OutputsOf(b)
    BY <1>4 DEF Level, Ahead
  <1>6. node.have = Created \cup {b} /\ node.spent = nodePool.spent
    <2>1. nodePool.spent \subseteq nodePool.have
      BY <1>a DEF TypeOK
    <2> QED BY <1>4, <1>5, <2>1 DEF AddCoinbase
  <1> HIDE DEF node
  <1>7. Ahead(b, nodePool)'
    <2>1. CASE ~SameRoot(node, bcPool)
      BY <1>1, <1>2, <1>4, <2>1 DEF Ahead
    <2>2. CASE SameRoot(node, bcPool)
      <3>1. nodePool' = node /\ Created \cup {b} = Created \cup OutputsOf(b)
        BY <1>1, <1>5, <1>6, <2>2 DEF SameRoot
      <3>2. body[b] \subseteq Created
        <4>1. \A t \in body[b] : t # b /\ t \in OutputsOf(b)
          BY <1>3, LedgerAssumption DEF OutputsOf
        <4> QED BY <3>1, <4>1
      <3>3. \A t \in body[b] : Inputs[t] \subseteq Consumed
        BY <1>a, <1>3, <3>2, MinedConsumes
      <3>4. Spends(body[b]) \subseteq Consumed
        BY <3>3, SpendsElement
      <3>5. /\ node.have = Created \cup OutputsOf(b) /\ node.spent \subseteq Consumed \cup Spends(body[b])
            /\ (Consumed \cup Spends(body[b])) \ node.spent \subseteq Doubtful \cup (body[b] \cap Created)
        BY <1>5, <1>6, <3>1, <3>4
      <3> QED BY <1>1, <1>2, <3>1, <3>5 DEF Ahead
    <2> QED BY <2>1, <2>2
  <1>8. \A o \in Outs : credits[o] > 0 => credits'[o] > 0
    BY <1>a, <1>1, CreditStep DEF TypeOK
  <1>9. CreatedCredited'
    BY <1>a, <1>2, <1>8, CreatedType DEF CreatedCredited
  <1>10. nodePool'.have = Created \cup OutputsOf(b)
    BY <1>1, <1>2, <1>7 DEF Ahead
  <1>11. MinerPools'
    <2>1. Ahead(b, bcPool)'
      BY <1>1, <1>2, <1>4 DEF Ahead
    <2>2. \A map \in replaced' : map.have \subseteq nodePool'.have
      BY <1>a, <1>1, <1>5, <1>6, <1>10 DEF MinerPools, OutputsOf
    <2> QED BY <1>1, <1>3, <1>7, <2>1, <2>2 DEF MinerPools
  <1>12. JobInv'
    <2>1. \A o \in OutputsOf(b)' : credits'[o] > 0
      BY <1>2, <1>3, <1>4, <1>8
    <2> QED BY <1>1, <1>2, <1>3, <1>4, <2>1 DEF JobInv
  <1>13. MempoolInv'
    <2>1. nodePool.have \subseteq nodePool'.have
      BY <1>5, <1>10
    <2>2. \A u : MayBePooled(u) => MayBePooled(u)'
      BY <1>1, <1>2 DEF MayBePooled, Excused
    <2> QED BY <1>a, <1>1, <1>2, <2>1, <2>2 DEF MempoolInv
  <1>14. MinedOnce'
    BY <1>a, <1>1, <1>2 DEF MinedOnce
  <1> QED BY <1>a, <1>1, <1>2, <1>9, <1>11, <1>12, <1>13, <1>14 DEF MinerInv

\* The chain catches up with the pools.
LEMMA MinerAppends ==
    ASSUME TypeInv, mines, mines' = mines, MinerInv, NEW b \in job, AppendMined(b)
    PROVE  MinerInv'
  <1>a. /\ TypeOK /\ overlaps = {} /\ CreatedCredited /\ Consumed \ Created \subseteq Doubtful
        /\ JobInv /\ MempoolInv /\ MinerPools /\ MinedOnce
    BY DEF MinerInv, TypeInv
  <1>1. /\ phase = "synced" /\ phase' = "appended" /\ chain' = Append(chain, b)
        /\ UNCHANGED <<body, bcPool, nodePool, replaced, mempool, merged, late, credits, job, temp, overlaps>>
    BY DEF AppendMined, pools, pending, handlers
  <1>2. /\ b \in Blocks /\ body[b] \in SUBSET Txs /\ mempool \subseteq Txs
        /\ \A c \in job : c = b
    BY <1>a DEF TypeOK, Blocks, JobInv
  <1>3. /\ Created' = Created \cup OutputsOf(b)
        /\ Consumed' = Consumed \cup Spends(body[b])
        /\ OnChain(b)'
    BY <1>a, <1>1, <1>2, AppendBlock
  <1>4. /\ Ahead(b, nodePool) /\ Ahead(b, bcPool) /\ Spends(body[b]) \subseteq Created \cup Doubtful
        /\ b \notin Created /\ body[b] \subseteq mempool
        /\ \A o \in OutputsOf(b) : credits[o] > 0
    BY <1>a, <1>1 DEF MinerPools, JobInv, Unmined
  <1>5. \A c : OutputsOf(c)' = OutputsOf(c)
    BY <1>1 DEF OutputsOf
  <1>6. Repeated' = Repeated \cup (body[b] \cap Created)
    BY <1>a, <1>1, <1>2, AppendRepeats
  <1>7. Doubtful \subseteq Doubtful' /\ body[b] \cap Created \subseteq Doubtful'
    <2>1. Doubtful \subseteq Doubtful'
      BY <1>a, <1>1, <1>6, DoubtGrows
    <2> QED BY <1>6, <2>1 DEF Doubtful
  <1>8. \A u : Excused(u) => Excused(u)'
    BY <1>1, <1>7 DEF Excused
  <1>9. ASSUME NEW t \in mempool, t \in Created PROVE Excused(t)'
    <2>1. MayBePooled(t)
      BY <1>a, <1>9 DEF MempoolInv
    <2>2. Excused(t) \/ Inputs[t] \subseteq Doubtful \cup (body[b] \cap Created)
      BY <1>1, <2>1 DEF MayBePooled
    <2>3. Inputs[t] \subseteq Doubtful \cup (body[b] \cap Created) => Excused(t)'
      BY <1>7 DEF Excused
    <2> QED BY <1>8, <2>2, <2>3
  <1>10. CreatedCredited' /\ Consumed' \ Created' \subseteq Doubtful'
    BY <1>a, <1>1, <1>3, <1>4, <1>7 DEF CreatedCredited
  <1>11. MinerPools'
    <2>1. Level(bcPool)'
      BY <1>1, <1>3, <1>4, <1>7 DEF Level, Ahead
    <2>2. Level(nodePool)'
      BY <1>1, <1>3, <1>4, <1>7 DEF Level, Ahead
    <2> QED BY <1>a, <1>1, <2>1, <2>2 DEF MinerPools
  <1>12. JobInv'
    <2>1. Consumed' \cap OutputsOf(b)' \subseteq Doubtful'
      BY <1>a, <1>3, <1>4, <1>5, <1>7 DEF OutputsOf
    <2>2. Spends(body'[b]) \subseteq Created' \cup Doubtful'
      BY <1>1, <1>3, <1>4, <1>7
    <2> QED BY <1>1, <1>2, <1>3, <1>4, <1>5, <2>1, <2>2 DEF JobInv, Unmined
  <1>13. MempoolInv'
    <2>1. ASSUME NEW t \in mempool, t \in Created' PROVE MayBePooled(t)'
      <3>1. CASE t \in Created
        BY <1>9, <3>1 DEF MayBePooled
      <3>2. CASE t \notin Created
        <4>1. t # b
          BY <1>2, LedgerAssumption
        <4>2. t \in body[b]
          BY <1>3, <2>1, <3>2, <4>1 DEF OutputsOf
        <4> QED BY <1>1, <1>2, <4>2 DEF MayBePooled
      <3> QED BY <3>1, <3>2
    <2> QED BY <1>a, <1>1, <1>7, <2>1 DEF MempoolInv
  <1>14. MinedOnce'
    <2>1. \A t \in Repeated : Excused(t)
      BY <1>a DEF MinedOnce, Excused
    <2>2. \A t \in Repeated' : Excused(t)'
      BY <1>4, <1>6, <1>8, <1>9, <2>1
    <2> QED BY <2>2 DEF MinedOnce, Excused
  <1> QED BY <1>a, <1>1, <1>10, <1>11, <1>12, <1>13, <1>14 DEF MinerInv

\* The block's transactions leave the mempool, after the append.
LEMMA MinerRemoves ==
    ASSUME TypeInv, mines, mines' = mines, MinerInv, NEW b \in job, RemoveTransactions(b)
    PROVE  MinerInv'
  <1>a. /\ TypeOK /\ overlaps = {} /\ CreatedCredited /\ Consumed \ Created \subseteq Doubtful
        /\ JobInv /\ MempoolInv /\ MinerPools /\ MinedOnce
    BY DEF MinerInv, TypeInv
  <1>1. /\ phase = "appended" /\ phase' = "removed" /\ mempool' = mempool \ body[b]
        /\ UNCHANGED <<chain, body, bcPool, nodePool, replaced, merged, late, credits, job, temp, overlaps>>
    BY DEF RemoveTransactions, pools, handlers
  <1>2. /\ Created' = Created /\ Consumed' = Consumed /\ Doubtful' = Doubtful /\ Repeated' = Repeated
        /\ \A c : OnChain(c)' <=> OnChain(c)
        /\ \A c : OutputsOf(c)' = OutputsOf(c)
    BY <1>1, Steady
  <1>3. \A c \in job : c = b
    BY <1>a DEF JobInv
  <1>4. MinerPools'
    BY <1>a, <1>1, <1>2 DEF MinerPools, Level
  <1>5. JobInv'
    <2>1. /\ Spends(body[b]) \subseteq Created \cup Doubtful /\ OnChain(b) /\ Consumed \cap OutputsOf(b) \subseteq Doubtful
          /\ \A o \in OutputsOf(b) : credits[o] > 0
      BY <1>a, <1>1 DEF JobInv
    <2> QED BY <1>1, <1>2, <1>3, <2>1 DEF JobInv, Unmined
  <1>6. MempoolInv'
    <2>1. \A t \in mempool \ body[b] : MayBePooled(t) => MayBePooled(t)'
      BY <1>1, <1>2 DEF MayBePooled, Excused
    <2> QED BY <1>a, <1>1, <1>2, <2>1 DEF MempoolInv
  <1>7. MinedOnce'
    BY <1>a, <1>1, <1>2 DEF MinedOnce
  <1> QED BY <1>a, <1>1, <1>2, <1>4, <1>5, <1>6, <1>7 DEF MinerInv, CreatedCredited

\* The block that is on the chain is applied to both pools again.
LEMMA MinerUpdates ==
    ASSUME TypeInv, mines, mines' = mines, MinerInv, NEW b \in job,
           NEW kept \in Kept(b), NEW nodeKept \in Kept(b), UpdateUTXOSet(b, kept, nodeKept)
    PROVE  MinerInv'
  <1>a. /\ TypeOK /\ overlaps = {} /\ CreatedCredited /\ Consumed \ Created \subseteq Doubtful
        /\ JobInv /\ MempoolInv /\ MinerPools /\ MinedOnce
    BY DEF MinerInv, TypeInv
  <1> DEFINE bc == ProcessBlock(bcPool, b, body[b], kept)
             node == ProcessBlock(nodePool, b, body[b], nodeKept)
  <1>1. /\ phase = "removed" /\ phase' = "idle" /\ job' = {}
        /\ bcPool' = bc
        /\ nodePool' = IF SameRoot(node, bc) THEN node ELSE bc
        /\ replaced' = IF SameRoot(node, bc) THEN replaced ELSE replaced \cup {node}
        /\ credits' = [o \in Outs |-> IF o \in body[b] \cup {b} THEN credits[o] + 2 ELSE credits[o]]
        /\ UNCHANGED <<chain, body, mempool, merged, late, overlaps>>
    BY DEF UpdateUTXOSet, SetNodePool, pending, handlers
  <1>2. /\ Created' = Created /\ Consumed' = Consumed /\ Doubtful' = Doubtful /\ Repeated' = Repeated
        /\ \A c : OnChain(c)' <=> OnChain(c)
        /\ \A c : OutputsOf(c)' = OutputsOf(c)
    BY <1>1, Steady
  <1>3. Level(bcPool) /\ Level(nodePool) /\ OnChain(b) /\ Consumed \cap OutputsOf(b) \subseteq Doubtful
    BY <1>a, <1>1 DEF MinerPools, JobInv
  <1>4. Level(bc)
    BY <1>3, ProcessAgain
  <1>5. Level(node)
    BY <1>3, ProcessAgain
  <1> HIDE DEF bc, node
  <1>6. nodePool' = node /\ replaced' = replaced /\ node.have = Created
    BY <1>1, <1>4, <1>5 DEF SameRoot, Level
  <1>7. nodePool.have = Created
    BY <1>3 DEF Level
  <1>8. MinerPools'
    <2>1. Level(bcPool)' /\ Level(nodePool)'
      BY <1>1, <1>2, <1>4, <1>5, <1>6 DEF Level
    <2> QED BY <1>a, <1>1, <1>6, <1>7, <2>1 DEF MinerPools
  <1>9. CreatedCredited'
    <2>1. \A o \in Outs : credits[o] > 0 => credits'[o] > 0
      BY <1>a, <1>1 DEF TypeOK
    <2> QED BY <1>a, <1>2, <2>1, CreatedType DEF CreatedCredited
  <1>10. MempoolInv'
    <2>1. \A u : MayBePooled(u) => MayBePooled(u)'
      BY <1>1, <1>2 DEF MayBePooled, Excused
    <2> QED BY <1>a, <1>1, <1>2, <1>6, <1>7, <2>1 DEF MempoolInv
  <1>11. MinedOnce'
    BY <1>a, <1>1, <1>2 DEF MinedOnce
  <1>12. JobInv'
    BY <1>1 DEF JobInv
  <1> QED BY <1>a, <1>1, <1>2, <1>8, <1>9, <1>10, <1>11, <1>12 DEF MinerInv

\* Every step of the miner keeps its invariant.
LEMMA NextMiner ==
    ASSUME TypeInv, MinerInv, [Next]_vars
    PROVE  MinerInv'
  <1>1. mines' = mines
    BY DEF Next, vars
  <1>2. CASE ~mines
    BY <1>1, <1>2 DEF MinerInv
  <1>3. CASE mines /\ UNCHANGED vars
    <2>1. UNCHANGED <<mines, chain, body, bcPool, nodePool, replaced, mempool, merged, late, credits, job, phase, temp, overlaps>>
      BY <1>3 DEF vars, pools, pending, miner, handlers
    <2>2. /\ Created' = Created /\ Consumed' = Consumed /\ Doubtful' = Doubtful /\ Repeated' = Repeated
          /\ \A c : OnChain(c)' <=> OnChain(c)
          /\ \A c : OutputsOf(c)' = OutputsOf(c)
      BY <2>1, Steady
    <2>3. JobInv => JobInv'
      BY <2>1, <2>2 DEF JobInv
    <2>4. MempoolInv => MempoolInv'
      BY <2>1, <2>2 DEF MempoolInv, MayBePooled, Excused
    <2>5. MinerPools => MinerPools'
      BY <2>1, <2>2 DEF MinerPools, Level, Ahead
    <2> QED BY <2>1, <2>2, <2>3, <2>4, <2>5 DEF MinerInv, CreatedCredited, MinedOnce
  <1>4. CASE mines /\ ~UNCHANGED vars
    <2>1. \/ \E t \in Txs : \E map \in replaced \cup {nodePool} : AddTransaction(t, map)
          \/ \E txs \in SUBSET Txs : SyncWithPeer(txs)
          \/ Mine
      BY <1>4 DEF Next
    <2>2. CASE \/ \E t \in Txs : \E map \in replaced \cup {nodePool} : AddTransaction(t, map)
               \/ \E txs \in SUBSET Txs : SyncWithPeer(txs)
      BY <1>1, <1>4, <2>2, MinerAdds, MinerMerges
    <2>3. CASE Mine
      BY <1>1, <1>4, <2>3, MinerSelects, MinerClones, MinerFails, MinerCommits, MinerSyncs,
         MinerAppends, MinerRemoves, MinerUpdates DEF Mine
    <2> QED BY <2>1, <2>2, <2>3
  <1> QED BY <1>2, <1>3, <1>4

-----------------------------------------------------------------------------
\* Both roles, in every state.
LEMMA LedgerInvHolds == Spec => [](RoleInv /\ MinerInv)
  <1>1. Init => MinerInv
    BY InitMiner
  <1>2. RoleInv /\ MinerInv /\ [Next]_vars => MinerInv'
    BY NextMiner DEF RoleInv
  <1> QED BY <1>1, <1>2, RoleInvHolds, PTL DEF Spec

\* Whenever a transaction is offered to the mempool, it is mined a second time only if
\* a peer's list brought it, if a replaced map admitted it, or if what it spends is in
\* doubt.
THEOREM NeverMinedTwice == Spec => []MinedOnce
  <1>1. RoleInv /\ MinerInv => MinedOnce
    <2> SUFFICES ASSUME RoleInv, MinerInv PROVE MinedOnce
      OBVIOUS
    <2>1. CASE mines
      BY <2>1 DEF MinerInv
    <2>2. CASE ~mines
      <3>1. ChainDisjoint
        BY <2>2 DEF RoleInv, ReceiverInv
      <3>2. Repeated = {}
        BY <3>1 DEF ChainDisjoint, Repeated
      <3> QED BY <3>2 DEF MinedOnce
    <2> QED BY <2>1, <2>2
  <1> QED BY <1>1, LedgerInvHolds, PTL

\* Between blocks each of the two UTXO pools holds exactly the outputs of the chain,
\* Spent where the chain spends them but for those in doubt; every output of the chain
\* was credited.
THEOREM PoolAlwaysExact == Spec => []PoolExact
  <1>1. RoleInv /\ MinerInv => PoolExact
    <2> SUFFICES ASSUME RoleInv, MinerInv, Quiet PROVE PoolExact
      BY DEF PoolExact
    <2>1. CASE mines
      <3>1. Level(bcPool) /\ Level(nodePool) /\ CreatedCredited
        BY <2>1 DEF MinerInv, MinerPools, Quiet
      <3> QED BY <3>1 DEF Level, CreatedCredited, PoolExact
    <2>2. CASE ~mines
      <3>1. nodePool = bcPool
        BY <2>2 DEF RoleInv, ReceiverIdle, TypeInv, TypeOK
      <3>2. Overlapped \subseteq Doubtful
        BY DEF Doubtful
      <3> QED BY <2>2, <3>1, <3>2 DEF RoleInv, ReceiverInv, PoolFollows, CreatedCredited, PoolExact
    <2> QED BY <2>1, <2>2
  <1> QED BY <1>1, LedgerInvHolds, PTL
============================================================================

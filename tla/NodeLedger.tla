----------------------------- MODULE NodeLedger -----------------------------
(***************************************************************************)
(* The ledger of one node: the mempool, the two UTXO pools and the account *)
(* balances, and the goroutines that change them: the mining loop          *)
(* (Blockchain.MineBlock, updateUTXOSet), one handleBlockStream per block  *)
(* that arrives, and the transaction handlers.                             *)
(*                                                                         *)
(* Every transaction has one output, named after the transaction; the      *)
(* coinbase of a block has one output too, named after the block.  Amounts *)
(* are left out: what is followed of an output is whether a pool has it,   *)
(* whether it is marked Spent, and how often its amount was added to the   *)
(* balance of its owner.                                                   *)
(*                                                                         *)
(* The transactions are payments.  One that calls itself a coinbase or a   *)
(* validator reward is admitted unchecked: see TransactionPath.            *)
(***************************************************************************)
EXTENDS Naturals, Sequences, FiniteSets

CONSTANTS
    Txs,            \* payments
    Own,            \* blocks this node may mine
    Foreign,        \* blocks that another miner may send to it
    Inputs          \* the outputs each transaction spends

Blocks == Own \cup Foreign
Outs == Blocks \cup Txs

ASSUME LedgerAssumption ==
    /\ Blocks \cap Txs = {}
    /\ Inputs \in [Txs -> (SUBSET Outs) \ {{}}]      \* a fee is paid from some output

VARIABLES
    mines,          \* TRUE: startMining runs and the node is the only miner
    chain,          \* bc.Chain, without the genesis blocks
    body,           \* the user transactions of each block
    bcPool,         \* bc.utxoPool
    nodePool,       \* Node.UTXOPool
    shared,         \* TRUE while the two are one object
    replaced,       \* maps of Node.UTXOPool before it was replaced by a clone
    mempool,        \* Mempool.Transactions
    merged,         \* history: transactions that peers' lists contained
    late,           \* history: those admitted by a replaced map alone
    credits,        \* how often an output was added to its owner's Balance
    job,            \* the block being mined, as a set of at most one block
    phase,          \* how far MineBlock is
    temp,           \* tempUTXOPool
    stage,          \* how far handleBlockStream is with each foreign block
    overlaps        \* history: blocks handled while another was in hand

pools == <<bcPool, nodePool, shared, replaced>>
pending == <<mempool, merged, late>>
miner == <<job, phase, temp>>
handlers == <<stage, overlaps>>
vars == <<mines, chain, body, pools, pending, credits, miner, handlers>>

\* A pool: the keys of its map, and those whose UTXO is marked Spent.
Pool == [have : SUBSET Outs, spent : SUBSET Outs]
EmptyPool == [have |-> {}, spent |-> {}]

Phases == {"idle", "selected", "mining", "committed", "synced", "appended", "removed"}
Stages == {"none", "validated", "appended", "processed", "done"}

TypeOK ==
    /\ mines \in BOOLEAN
    /\ chain \in Seq(Blocks)
    /\ body \in [Blocks -> SUBSET Txs]
    /\ bcPool \in Pool /\ nodePool \in Pool
    /\ bcPool.spent \subseteq bcPool.have /\ nodePool.spent \subseteq nodePool.have
    /\ shared \in BOOLEAN
    /\ shared => bcPool = nodePool
    /\ replaced \subseteq Pool
    /\ mempool \subseteq Txs /\ merged \subseteq Txs /\ late \subseteq Txs
    /\ credits \in [Outs -> Nat]
    /\ job \subseteq Own /\ Cardinality(job) <= 1
    /\ phase \in Phases
    /\ (phase = "idle") = (job = {})
    /\ temp \in Pool
    /\ stage \in [Foreign -> Stages]
    /\ overlaps \subseteq Foreign

-----------------------------------------------------------------------------
(* The pool's operations. *)

\* The inputs that a transaction of the block spends from the block itself.
InternalInputs(txs) == {t \in txs : \E u \in txs : t \in Inputs[u]}

\* AddUTXO for every transaction of block b, or ProcessBlockTransactions: known
\* inputs are marked Spent, then every output is written as unspent.  The
\* transactions come in the order of a Go map, so whether an output spent inside
\* the block ends up Spent is chance: kept is the set of those that do.
ProcessBlock(pool, b, txs, kept) ==
    [have  |-> pool.have \cup txs \cup {b},
     spent |-> ((pool.spent \cup ((UNION {Inputs[t] : t \in txs}) \cap pool.have))
                    \ (txs \cup {b})) \cup kept]

\* AddUTXO of a coinbase alone.
AddCoinbase(pool, b) ==
    [have |-> pool.have \cup {b}, spent |-> pool.spent \ {b}]

\* The balances behind a pool are in the AccountManager, which every clone shares.
Credit(outs) == credits' = [o \in Outs |-> IF o \in outs THEN credits[o] + 1 ELSE credits[o]]

\* The Merkle root is computed from the keys, owners and amounts, not from Spent.
SameRoot(p, q) == p.have = q.have

\* A change of bc.utxoPool is a change of Node.UTXOPool while they are one object.
SetBcPool(new) ==
    /\ bcPool' = new
    /\ nodePool' = IF shared THEN new ELSE nodePool
    /\ UNCHANGED <<shared, replaced>>

\* Node.UTXOPool becomes a clone of bc if their roots differ.  Its map stays with the
\* transaction handlers that have evaluated GetUTXOs and not yet locked the mempool.
SetNodePool(node, bc) ==
    /\ nodePool' = IF SameRoot(node, bc) THEN node ELSE bc
    /\ replaced' = IF SameRoot(node, bc) THEN replaced ELSE replaced \cup {node}
    /\ UNCHANGED shared

-----------------------------------------------------------------------------
Init ==
    /\ mines \in BOOLEAN
    /\ chain = <<>>
    /\ body = [b \in Blocks |-> {}]
    /\ bcPool = EmptyPool
    /\ nodePool = EmptyPool
    /\ shared = TRUE
    /\ replaced = {}
    /\ mempool = {}
    /\ merged = {}
    /\ late = {}
    /\ credits = [o \in Outs |-> 0]
    /\ job = {}
    /\ phase = "idle"
    /\ temp = EmptyPool
    /\ stage = [b \in Foreign |-> "none"]
    /\ overlaps = {}

\* Every mining attempt makes a new hash: b has not been tried before.
Fresh(b) == credits[b] = 0

\* Outputs created by the chain, and outputs its transactions spend.
Created == UNION {body[chain[i]] \cup {chain[i]} : i \in DOMAIN chain}
Consumed == UNION {Inputs[t] : t \in UNION {body[chain[i]] : i \in DOMAIN chain}}

-----------------------------------------------------------------------------
(* Transactions. *)

\* The inputs of t are known to the map of a pool, and unspent.
Spendable(t, pool) == Inputs[t] \subseteq pool.have \ pool.spent

\* Mutant of AddTransaction: inputs are looked up but Spent is not checked, as
\* in UTXOPool.ValidateTransaction.
AddTransactionUnspentUnchecked(t, map) ==
    /\ t \notin mempool
    /\ Inputs[t] \subseteq map.have
    /\ mempool' = mempool \cup {t}
    /\ UNCHANGED <<merged, late, chain, body, pools, credits, miner, handlers>>

\* processTransaction or handleNewTransaction, up to Mempool.AddTransaction: no
\* duplicate, every input known and not Spent in the map that GetUTXOs returned
\* before the mempool was locked.  While Node.UTXOPool is the same object that map
\* is the current one; otherwise it is what was left of the old.  There is no check
\* for a pooled transaction with the same input.
AddTransaction(t, map) ==
    /\ t \notin mempool
    /\ Spendable(t, map)
    /\ mempool' = mempool \cup {t}
    /\ late' = IF Spendable(t, nodePool) THEN late ELSE late \cup {t}
    /\ UNCHANGED <<merged, chain, body, pools, credits, miner, handlers>>

\* Mempool.SyncWithPeer adds what the peer sent and the node does not have,
\* without validation; the peer may be behind.  A miner merges once, before it
\* mines, on the chain that it has then.
SyncWithPeer(txs) ==
    /\ ~(txs \subseteq mempool)
    /\ mempool' = mempool \cup txs
    /\ merged' = merged \cup txs
    /\ UNCHANGED <<late, chain, body, pools, credits, miner, handlers>>

-----------------------------------------------------------------------------
(* Blockchain.MineBlock. *)

\* The pending transactions are read from the mempool (at most 200; here all).
SelectTransactions(b) ==
    /\ phase = "idle"
    /\ Fresh(b)
    /\ job' = {b}
    /\ body' = [body EXCEPT ![b] = mempool]
    /\ phase' = "selected"
    /\ UNCHANGED <<chain, pools, pending, credits, temp, handlers>>

\* Mutant of CloneUTXOPool: the block is tried on bc.utxoPool itself.
UncloneUTXOPool(b, kept) ==
    /\ phase = "selected"
    /\ temp' = ProcessBlock(bcPool, b, body[b], kept)
    /\ SetBcPool(ProcessBlock(bcPool, b, body[b], kept))
    /\ Credit(body[b] \cup {b})
    /\ phase' = "mining"
    /\ UNCHANGED <<chain, body, pending, job, handlers>>

\* bc.utxoPool is cloned and the block's transactions are added to the clone,
\* which also credits the accounts.
CloneUTXOPool(b, kept) ==
    /\ phase = "selected"
    /\ temp' = ProcessBlock(bcPool, b, body[b], kept)
    /\ Credit(body[b] \cup {b})
    /\ phase' = "mining"
    /\ UNCHANGED <<chain, body, pools, pending, job, handlers>>

\* Mutant of MiningFailed: the loop starts over without dropping the block.
MiningFailedKeepsJob ==
    /\ phase = "mining"
    /\ phase' = "idle"
    /\ UNCHANGED <<chain, body, pools, pending, credits, job, temp, handlers>>

\* "Mining failed, we'll discard the temporary UTXO pool".
MiningFailed ==
    /\ phase = "mining"
    /\ phase' = "idle"
    /\ job' = {}
    /\ UNCHANGED <<chain, body, pools, pending, credits, temp, handlers>>

\* bc.utxoPool = tempUTXOPool; Node.UTXOPool stays the object it was.
CommitPool ==
    /\ phase = "mining"
    /\ bcPool' = temp
    /\ shared' = FALSE
    /\ phase' = "committed"
    /\ UNCHANGED <<chain, body, nodePool, replaced, pending, credits, job, temp, handlers>>

\* Mutant of SyncNodePool: only the coinbase reaches Node.UTXOPool.
SyncNodePoolCoinbaseOnly(b) ==
    /\ phase = "committed"
    /\ nodePool' = AddCoinbase(nodePool, b)
    /\ Credit({b})
    /\ phase' = "synced"
    /\ UNCHANGED <<chain, body, bcPool, shared, replaced, pending, job, temp, handlers>>

\* The coinbase goes to Node.UTXOPool as well, which is replaced by a clone if
\* the Merkle roots still differ.
SyncNodePool(b) ==
    /\ phase = "committed"
    /\ SetNodePool(AddCoinbase(nodePool, b), bcPool)
    /\ Credit({b})
    /\ phase' = "synced"
    /\ UNCHANGED <<chain, body, bcPool, pending, job, temp, handlers>>

AppendMined(b) ==
    /\ phase = "synced"
    /\ chain' = Append(chain, b)
    /\ phase' = "appended"
    /\ UNCHANGED <<body, pools, pending, credits, job, temp, handlers>>

RemoveTransactions(b) ==
    /\ phase = "appended"
    /\ mempool' = mempool \ body[b]
    /\ phase' = "removed"
    /\ UNCHANGED <<merged, late, chain, body, pools, credits, job, temp, handlers>>

\* updateUTXOSet adds the block to both pools once more and compares their roots.
UpdateUTXOSet(b, kept, nodeKept) ==
    /\ phase = "removed"
    /\ LET bc == ProcessBlock(bcPool, b, body[b], kept) IN
       /\ bcPool' = bc
       /\ SetNodePool(ProcessBlock(nodePool, b, body[b], nodeKept), bc)
    /\ credits' = [o \in Outs |-> IF o \in body[b] \cup {b} THEN credits[o] + 2 ELSE credits[o]]
    /\ phase' = "idle"
    /\ job' = {}
    /\ UNCHANGED <<chain, body, pending, temp, handlers>>

-----------------------------------------------------------------------------
(* handleBlockStream for a block of another miner. *)

Advance(b, from, to) ==
    /\ stage[b] = from
    /\ stage' = [stage EXCEPT ![b] = to]

\* The blocks in the hands of some handler.
InHand == {c \in Foreign : stage[c] \notin {"none", "done"}}

\* The next block of a miner with the same chain passes validation once its parent
\* is the tip, whatever the handler of the parent still has to do; its transactions
\* spend outputs that the chain has created and not spent.
ReceiveBlock(b, txs) ==
    /\ \A c \in Foreign : stage[c] # "validated"
    /\ UNION {Inputs[t] : t \in txs} \subseteq Created \ Consumed
    /\ txs \cap Created = {}
    /\ Advance(b, "none", "validated")
    /\ body' = [body EXCEPT ![b] = txs]
    /\ overlaps' = IF InHand = {} THEN overlaps ELSE overlaps \cup InHand \cup {b}
    /\ UNCHANGED <<chain, pools, pending, credits, miner>>

\* Append and ProcessBlockTransactions under bc.mu.
AddBlockWithoutValidation(b, kept) ==
    /\ Advance(b, "validated", "appended")
    /\ chain' = Append(chain, b)
    /\ SetBcPool(ProcessBlock(bcPool, b, body[b], kept))
    /\ Credit(body[b] \cup {b})
    /\ UNCHANGED <<body, pending, miner, overlaps>>

\* ProcessBlockTransactions once more.
ProcessBlockUTXOs(b, kept) ==
    /\ Advance(b, "appended", "processed")
    /\ SetBcPool(ProcessBlock(bcPool, b, body[b], kept))
    /\ Credit(body[b] \cup {b})
    /\ UNCHANGED <<chain, body, pending, miner, overlaps>>

ClearProcessedTransactions(b) ==
    /\ Advance(b, "processed", "done")
    /\ mempool' = mempool \ body[b]
    /\ UNCHANGED <<merged, late, chain, body, pools, credits, miner, overlaps>>

Kept(b) == SUBSET InternalInputs(body[b])

Mine ==
    \/ \E b \in Own : SelectTransactions(b)
    \/ \E b \in job : \E kept \in Kept(b) : CloneUTXOPool(b, kept)
    \/ MiningFailed
    \/ CommitPool
    \/ \E b \in job : SyncNodePool(b)
    \/ \E b \in job : AppendMined(b)
    \/ \E b \in job : RemoveTransactions(b)
    \/ \E b \in job : \E kept \in Kept(b) : \E nodeKept \in Kept(b) : UpdateUTXOSet(b, kept, nodeKept)

Receive ==
    \/ \E b \in Foreign, txs \in SUBSET Txs : ReceiveBlock(b, txs)
    \/ \E b \in Foreign : \E kept \in Kept(b) : AddBlockWithoutValidation(b, kept)
    \/ \E b \in Foreign : \E kept \in Kept(b) : ProcessBlockUTXOs(b, kept)
    \/ \E b \in Foreign : ClearProcessedTransactions(b)

\* MineBlock checks its commit against no block that arrived meanwhile: what a
\* node does that mines beside rivals is the subject of BlockPropagation.
Next ==
    /\ \/ \E t \in Txs : \E map \in replaced \cup {nodePool} : AddTransaction(t, map)
       \/ \E txs \in SUBSET Txs : SyncWithPeer(txs)
       \/ mines /\ Mine
       \/ ~mines /\ Receive
    /\ UNCHANGED mines

Spec == Init /\ [][Next]_vars

-----------------------------------------------------------------------------
(* Properties *)

\* No block is being mined or received.
Quiet == phase = "idle" /\ InHand = {}

\* Transactions that two blocks of the chain have.
Repeated == {t \in Txs : \E i, j \in DOMAIN chain : i # j /\ t \in body[chain[i]] \cap body[chain[j]]}

\* The outputs of blocks whose handlers overlapped: the second pass over the earlier
\* block can make them unspent after the next has spent them.
Overlapped == overlaps \cup UNION {body[b] : b \in overlaps}

\* What can be unspent although the chain spends it: those outputs, the outputs of a
\* transaction that was mined again, and what transactions of a peer's list spend,
\* which the miner need not know.
Doubtful == Overlapped \cup Repeated \cup IF mines THEN UNION {Inputs[t] : t \in merged} ELSE {}

\* However transactions arrive while MineBlock or a handler is at work, removing a
\* block's transactions from the mempool is final: a transaction is mined again only
\* if a peer's list brought it, if the map that admitted it was that of a pool which
\* MineBlock had replaced and the new pool rejects it, or if what it spends became
\* unspent.
MinedOnce ==
    \A t \in Repeated : t \in merged \cup late \/ Inputs[t] \subseteq Doubtful

\* Applying every block twice, through clones and commits, still leaves bc.utxoPool
\* and Node.UTXOPool, which the mempool validates against, with exactly the outputs
\* of the chain, Spent only where the chain spends them and unspent wrongly only
\* where Doubtful says.  Balances get each output several times, but none is left
\* out.
PoolExact ==
    Quiet => /\ \A pool \in {bcPool, nodePool} :
                  /\ pool.have = Created
                  /\ pool.spent \subseteq Consumed
                  /\ Consumed \ pool.spent \subseteq Doubtful
             /\ \A o \in Created : credits[o] > 0

\* handleBlockStream marks the inputs of a block Spent before it clears the
\* mempool, so a transaction of the block that is offered again at any step is out
\* for good; only a peer's list, which is merged unvalidated, can bring it back, or
\* an input that overlapping handlers have made unspent again.
MinedNotReadmitted ==
    \A b \in Foreign : stage[b] = "done" =>
        \A t \in mempool \cap body[b] : t \in merged \/ Inputs[t] \subseteq Overlapped
=============================================================================

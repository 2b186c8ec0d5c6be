-------------------------- MODULE BlockPropagation --------------------------
(***************************************************************************)
(* Mining, validation and propagation of blocks between the nodes of the   *)
(* network: Blockchain.MineBlock, the package-level MineBlock that asks    *)
(* the validators, Node.BroadcastBlock and Node.handleBlockStream.         *)
(*                                                                         *)
(* A handler runs in a goroutine of its own for every incoming stream, and *)
(* the miner in another one; each takes bc.mu, broadcastMu or the pool's   *)
(* lock for one step at a time.  Every action below is one such critical   *)
(* section, so TLC sees the interleavings the Go scheduler can produce.    *)
(*                                                                         *)
(* A block is identified by its hash, an element of Blocks.  Every process *)
(* creates a genesis block of its own when it starts (GenesisBlock stamps  *)
(* the current time), so the genesis block of node n is identified with n  *)
(* itself.  A node that joins the network keeps that block and appends the *)
(* genesis block of GenesisNode, which SyncWithPeer delivered to it.       *)
(***************************************************************************)
EXTENDS Naturals, Sequences, FiniteSets

CONSTANTS
    Nodes,          \* every peer that runs handleBlockStream
    Miners,         \* the nodes whose startMining loop is running
    Validators,     \* what StakePool.GetValidators(3) returns to the miners
    GenesisNode,    \* the node that started as genesis validator
    Blocks,         \* hashes of the blocks that may be mined
    NoBlock,        \* "no block"
    MaxTracked      \* maxTrackedBlocks, 1000 in the code

Ids == Nodes \cup Blocks

ASSUME ConstantsAssumption ==
    /\ IsFiniteSet(Validators)
    /\ Miners \subseteq Nodes
    /\ Validators \subseteq Nodes
    /\ GenesisNode \in Nodes
    /\ Nodes \cap Blocks = {}
    /\ NoBlock \notin Ids
    /\ MaxTracked \in Nat

VARIABLES
    parent,         \* header.PreviousHash of each block, NoBlock before it is mined
    number,         \* header.BlockNumber
    minedBy,        \* header.MinedBy
    chain,          \* bc.Chain of each node
    applied,        \* blocks whose transactions were applied to bc.utxoPool, in order
    tracked,        \* n.broadcastedBlocks
    job,            \* the block a miner is working on
    phase,          \* how far that miner is in MineBlock
    temp,           \* tempUTXOPool, the clone the miner works on
    asked,          \* validators that were asked about a block
    approved,       \* validators that answered valid
    stage           \* how far the handler of a stream is

minerVars == <<job, phase, temp, asked, approved>>
headerVars == <<parent, number, minedBy>>
vars == <<headerVars, chain, applied, tracked, minerVars, stage>>

\* A stream carries one block from the miner to another peer; handleBlockStream
\* runs in a goroutine per stream.
Streams == Nodes \X Blocks \X Miners

Phases == {"idle", "validating", "committed", "appended"}
Stages == {"none", "sent", "lost", "rejected", "validated", "unseen", "known",
           "marked", "appended", "done"}

TypeOK ==
    /\ parent \in [Blocks -> Ids \cup {NoBlock}]
    /\ number \in [Ids -> Nat]
    /\ minedBy \in [Blocks -> Miners \cup {NoBlock}]
    /\ chain \in [Nodes -> Seq(Ids)]
    /\ \A n \in Nodes : Len(chain[n]) > 0
    /\ applied \in [Nodes -> Seq(Blocks)]
    /\ tracked \in [Nodes -> SUBSET Blocks]
    /\ job \in [Miners -> Blocks \cup {NoBlock}]
    /\ phase \in [Miners -> Phases]
    /\ \A m \in Miners : phase[m] # "idle" => job[m] \in Blocks
    /\ temp \in [Miners -> Seq(Blocks)]
    /\ asked \in [Blocks -> SUBSET Validators]
    /\ approved \in [Blocks -> SUBSET Validators]
    /\ stage \in [Streams -> Stages]

-----------------------------------------------------------------------------
(* Reading the chain. *)

\* GetLatestBlock: the last element of bc.Chain.
Tip(n) == chain[n][Len(chain[n])]

\* GetBlock finds the hash in n's memory.  Its second lookup, in the database,
\* finds only blocks that n mined and appended itself.
Holds(n, b) == \E i \in DOMAIN chain[n] : chain[n][i] = b

\* Mutant of ValidOnTip: only the block number is compared with the tip's.
ValidOnTipByNumber(n, b) == number[b] = number[Tip(n)] + 1

\* Mutant of ValidOnTip: the received block is trusted.
ValidOnTipSkipped(n, b) == parent[b] # NoBlock

\* handleBlockStream: CalculateCumulativeDifficulty finds the parent and its
\* number, and ValidateBlock accepts the block on the current tip.
ValidOnTip(n, b) ==
    /\ Holds(n, parent[b])
    /\ number[b] = number[parent[b]] + 1
    /\ parent[b] = Tip(n)
    /\ number[b] = number[Tip(n)] + 1

\* Mutant of EnoughValidations: half of the validators is taken for a majority.
EnoughValidationsHalf(b) ==
    Cardinality(approved[b]) >= Cardinality(Validators) \div 2

\* The package-level MineBlock: validations >= len(validators)/2 + 1.
EnoughValidations(b) ==
    Cardinality(approved[b]) >= Cardinality(Validators) \div 2 + 1

-----------------------------------------------------------------------------
(* InitializeChain on the genesis validator; on every other node the chain *)
(* that NewBlockchain and the first SyncWithPeer leave behind: every node  *)
(* has joined before the first block is mined.                             *)
Init ==
    /\ parent = [b \in Blocks |-> NoBlock]
    /\ number = [b \in Ids |-> 0]
    /\ minedBy = [b \in Blocks |-> NoBlock]
    /\ chain = [n \in Nodes |-> IF n = GenesisNode THEN <<n>> ELSE <<n, GenesisNode>>]
    /\ applied = [n \in Nodes |-> <<>>]
    /\ tracked = [n \in Nodes |-> {}]
    /\ job = [m \in Miners |-> NoBlock]
    /\ phase = [m \in Miners |-> "idle"]
    /\ temp = [m \in Miners |-> <<>>]
    /\ asked = [b \in Blocks |-> {}]
    /\ approved = [b \in Blocks |-> {}]
    /\ stage = [s \in Streams |-> "none"]

-----------------------------------------------------------------------------
(* The miner: Blockchain.MineBlock. *)

\* MineBlock reads the latest block, clones the UTXO pool, builds the header on
\* that block and solves the proof of work; b is the hash it finds.
StartMining(m, b) ==
    /\ phase[m] = "idle"
    /\ parent[b] = NoBlock
    /\ parent' = [parent EXCEPT ![b] = Tip(m)]
    /\ number' = [number EXCEPT ![b] = number[Tip(m)] + 1]
    /\ minedBy' = [minedBy EXCEPT ![b] = m]
    /\ job' = [job EXCEPT ![m] = b]
    /\ phase' = [phase EXCEPT ![m] = "validating"]
    /\ temp' = [temp EXCEPT ![m] = Append(applied[m], b)]
    /\ UNCHANGED <<chain, applied, tracked, asked, approved, stage>>

\* requestValidation reaches v, whose handleMinerBlockValidationRequest looks
\* for the previous block anywhere in its chain; a host cannot dial itself.
Approve(m, v) ==
    LET b == job[m] IN
    /\ phase[m] = "validating"
    /\ v \in Validators \ (asked[b] \cup {m})
    /\ Holds(v, parent[b])
    /\ asked' = [asked EXCEPT ![b] = @ \cup {v}]
    /\ approved' = [approved EXCEPT ![b] = @ \cup {v}]
    /\ UNCHANGED <<headerVars, chain, applied, tracked, job, phase, temp, stage>>

\* The request fails, times out, is answered with valid = false, or the answer
\* is lost: MineBlock logs it and goes on to the next validator.
NoApproval(m, v) ==
    LET b == job[m] IN
    /\ phase[m] = "validating"
    /\ v \in Validators \ asked[b]
    /\ asked' = [asked EXCEPT ![b] = @ \cup {v}]
    /\ UNCHANGED <<headerVars, chain, applied, tracked, job, phase, temp, approved, stage>>

\* Mutant of DiscardBlock: the block is dropped but MineBlock does not return.
DiscardBlockAndGoOn(m) ==
    /\ phase[m] = "validating"
    /\ asked[job[m]] = Validators
    /\ ~EnoughValidations(job[m])
    /\ job' = [job EXCEPT ![m] = NoBlock]
    /\ UNCHANGED <<headerVars, chain, applied, tracked, phase, temp, asked, approved, stage>>

\* "insufficient validations": the block and the temporary pool are discarded
\* and startMining begins a new cycle.
DiscardBlock(m) ==
    /\ phase[m] = "validating"
    /\ asked[job[m]] = Validators
    /\ ~EnoughValidations(job[m])
    /\ phase' = [phase EXCEPT ![m] = "idle"]
    /\ UNCHANGED <<headerVars, chain, applied, tracked, job, temp, asked, approved, stage>>

\* "commit the temporary UTXO pool to the main one": bc.utxoPool = tempUTXOPool.
CommitPool(m) ==
    /\ phase[m] = "validating"
    /\ asked[job[m]] = Validators
    /\ EnoughValidations(job[m])
    /\ applied' = [applied EXCEPT ![m] = temp[m]]
    /\ phase' = [phase EXCEPT ![m] = "committed"]
    /\ UNCHANGED <<headerVars, chain, tracked, job, temp, asked, approved, stage>>

\* The new block is appended under bc.mu, whatever the tip is by now.
AppendMined(m) ==
    /\ phase[m] = "committed"
    /\ chain' = [chain EXCEPT ![m] = Append(@, job[m])]
    /\ phase' = [phase EXCEPT ![m] = "appended"]
    /\ UNCHANGED <<headerVars, applied, tracked, job, temp, asked, approved, stage>>

\* cleanupBroadcastedBlocks: the map is reset when it has grown too large.
Cleanup(blocks) == IF Cardinality(blocks) > MaxTracked THEN {} ELSE blocks

\* updateUTXOSet applies the block again, and BroadcastBlock marks it and opens
\* a stream to every peer; the ones outside reached fail.
BroadcastBlock(m, reached) ==
    LET b == job[m] IN
    /\ phase[m] = "appended"
    /\ applied' = [applied EXCEPT ![m] = Append(@, b)]
    /\ IF b \in tracked[m]
       THEN UNCHANGED <<tracked, stage>>
       ELSE /\ tracked' = [tracked EXCEPT ![m] = Cleanup(@ \cup {b})]
            /\ stage' = [s \in Streams |->
                           IF s[1] # m /\ s[2] = b /\ s[3] = m
                           THEN IF s[1] \in reached THEN "sent" ELSE "lost"
                           ELSE stage[s]]
    /\ phase' = [phase EXCEPT ![m] = "idle"]
    /\ UNCHANGED <<headerVars, chain, job, temp, asked, approved>>

-----------------------------------------------------------------------------
(* The receiver: Node.handleBlockStream, one critical section per action. *)

Advance(s, from, to) ==
    /\ stage[s] = from
    /\ stage' = [stage EXCEPT ![s] = to]

\* The block is decoded and validated on the tip GetLatestBlock returns.
ValidateBlock(n, b, p) ==
    /\ Advance(<<n, b, p>>, "sent", "validated")
    /\ ValidOnTip(n, b)
    /\ UNCHANGED <<headerVars, chain, applied, tracked, minerVars>>

\* Mutant of RejectBlock: a block with an unknown parent is left waiting for it.
RejectBlockKnownParent(n, b, p) ==
    /\ Holds(n, parent[b])
    /\ Advance(<<n, b, p>>, "sent", "rejected")
    /\ ~ValidOnTip(n, b)
    /\ UNCHANGED <<headerVars, chain, applied, tracked, minerVars>>

\* Unknown parent, or a parent that is not the tip: handleStreamError, no retry.
RejectBlock(n, b, p) ==
    /\ Advance(<<n, b, p>>, "sent", "rejected")
    /\ ~ValidOnTip(n, b)
    /\ UNCHANGED <<headerVars, chain, applied, tracked, minerVars>>

\* broadcastedBlocks is read under broadcastMu.RLock ...
CheckTracked(n, b, p) ==
    /\ Advance(<<n, b, p>>, "validated", IF b \in tracked[n] THEN "known" ELSE "unseen")
    /\ UNCHANGED <<headerVars, chain, applied, tracked, minerVars>>

\* ... and written under a second acquisition of broadcastMu.
MarkTracked(n, b, p) ==
    /\ Advance(<<n, b, p>>, "unseen", "marked")
    /\ tracked' = [tracked EXCEPT ![n] = @ \cup {b}]
    /\ UNCHANGED <<headerVars, chain, applied, minerVars>>

\* Mutant of AddBlockWithoutValidation: the transactions are left to the second
\* call, which runs after bc.mu has been released.
AddBlockUnprocessed(n, b, p) ==
    /\ Advance(<<n, b, p>>, "marked", "appended")
    /\ chain' = [chain EXCEPT ![n] = Append(@, b)]
    /\ UNCHANGED <<headerVars, applied, tracked, minerVars>>

\* AddBlockWithoutValidation appends and processes the transactions under bc.mu.
AddBlockWithoutValidation(n, b, p) ==
    /\ Advance(<<n, b, p>>, "marked", "appended")
    /\ chain' = [chain EXCEPT ![n] = Append(@, b)]
    /\ applied' = [applied EXCEPT ![n] = Append(@, b)]
    /\ UNCHANGED <<headerVars, tracked, minerVars>>

\* Mutant of ProcessBlockUTXOs: AddBlockWithUTXOProcessing called in its place.
AddBlockWithUTXOProcessing(n, b, p) ==
    /\ Advance(<<n, b, p>>, "appended", "done")
    /\ chain' = [chain EXCEPT ![n] = Append(@, b)]
    /\ applied' = [applied EXCEPT ![n] = Append(@, b)]
    /\ UNCHANGED <<headerVars, tracked, minerVars>>

\* ProcessBlockUTXOs processes the same transactions a second time.
ProcessBlockUTXOs(n, b, p) ==
    /\ Advance(<<n, b, p>>, "appended", "done")
    /\ applied' = [applied EXCEPT ![n] = Append(@, b)]
    /\ UNCHANGED <<headerVars, chain, tracked, minerVars>>

Mine(m) ==
    \/ \E b \in Blocks : StartMining(m, b)
    \/ \E v \in Validators : Approve(m, v)
    \/ \E v \in Validators : NoApproval(m, v)
    \/ DiscardBlock(m)
    \/ CommitPool(m)
    \/ AppendMined(m)
    \/ \E reached \in SUBSET (Nodes \ {m}) : BroadcastBlock(m, reached)

Receive(n, b, p) ==
    \/ ValidateBlock(n, b, p)
    \/ RejectBlock(n, b, p)
    \/ CheckTracked(n, b, p)
    \/ MarkTracked(n, b, p)
    \/ AddBlockWithoutValidation(n, b, p)
    \/ ProcessBlockUTXOs(n, b, p)

Next ==
    \/ \E m \in Miners : Mine(m)
    \/ \E n \in Nodes, b \in Blocks, p \in Miners : Receive(n, b, p)

Spec == Init /\ [][Next]_vars

\* While handlers have work the Go scheduler runs some handler; each takes a
\* bounded number of steps, so they all come to their end.  Nothing forces a
\* mining cycle or a validator's answer.
Fairness ==
    WF_vars(\E n \in Nodes, b \in Blocks, p \in Miners : Receive(n, b, p))

FairSpec == Spec /\ Fairness

-----------------------------------------------------------------------------
(* Properties *)

\* handleBlockStream and MineBlock append on whatever tip they find, but never
\* a block whose parent is missing: in every bc.Chain the parent of a block
\* stands before it and has the preceding block number.
AncestorsHeld ==
    \A n \in Nodes : \A i \in DOMAIN chain[n] :
        chain[n][i] \in Blocks =>
            \E j \in 1..(i - 1) :
                /\ chain[n][j] = parent[chain[n][i]]
                /\ number[chain[n][i]] = number[chain[n][j]] + 1

\* The handlers and the miner never append the same block twice to bc.Chain:
\* AddBlockWithoutValidation looks for none, but one stream brings each block.
NoBlockTwice ==
    \A n \in Nodes : \A i, j \in DOMAIN chain[n] :
        chain[n][i] = chain[n][j] => i = j

\* requestValidation and the majority count of MineBlock: once a block has been
\* built upon, a majority of the validators holds it, because each approving
\* validator found it in its own chain.
MajorityHoldsParent ==
    \A n \in Nodes : \A i \in DOMAIN chain[n] :
        chain[n][i] \in Blocks =>
            2 * Cardinality({v \in Validators : Holds(v, parent[chain[n][i]])})
                > Cardinality(Validators)

\* On a node that does not mine, ProcessBlockTransactions never sees a block
\* before it has seen the parent of that block.
ParentAppliedFirst ==
    \A n \in Nodes \ Miners : \A i \in DOMAIN applied[n] :
        parent[applied[n][i]] \in Blocks =>
            \E j \in 1..(i - 1) : applied[n][j] = parent[applied[n][i]]

\* The chain without the genesis block that the node created for itself.
SharedChain(n) == IF n = GenesisNode THEN chain[n] ELSE Tail(chain[n])

\* With one miner, every node's chain is a prefix of the miner's, whatever is
\* lost or reordered on the way and however the handlers interleave.
PrefixAgreement ==
    \A m \in Miners, n \in Nodes :
        /\ Len(SharedChain(n)) <= Len(SharedChain(m))
        /\ \A i \in 1..Len(SharedChain(n)) : SharedChain(n)[i] = SharedChain(m)[i]

\* handleBlockStream answers every block it receives: it is appended and its
\* transactions processed, recognised as known, or rejected.
StreamsAnswered ==
    \A b \in Blocks, p \in Miners : \A n \in Nodes \ {p} :
        stage[<<n, b, p>>] = "sent" ~> stage[<<n, b, p>>] \in {"done", "known", "rejected"}
=============================================================================

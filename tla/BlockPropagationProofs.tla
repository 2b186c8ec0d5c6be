----------------------- MODULE BlockPropagationProofs -----------------------
(***************************************************************************)
(* Proofs about BlockPropagation for any set of nodes, miners, validators  *)
(* and blocks.                                                             *)
(***************************************************************************)
EXTENDS BlockPropagation, FiniteSetTheorems, TLAPS

\* b can be appended to n's chain: its parent is there, one number lower.
HoldsParent(n, b) ==
    /\ parent[b] \in Ids
    /\ Holds(n, parent[b])
    /\ number[b] = number[parent[b]] + 1

\* Blocks that a miner or a handler is about to append.
JobsLinked == \A m \in Miners :
    phase[m] # "idle" => HoldsParent(m, job[m])

HandlersLinked == \A n \in Nodes, b \in Blocks, p \in Miners :
    stage[<<n, b, p>>] \in {"validated", "unseen", "marked"} => HoldsParent(n, b)

\* AncestorsHeld is not inductive: a block is checked in one step and appended
\* in a later one.  The two conjuncts above carry the check across the steps.
LinkInv == TypeOK /\ AncestorsHeld /\ JobsLinked /\ HandlersLinked

-----------------------------------------------------------------------------
(* Sequences. *)

\* What Append does to a chain.
LEMMA AppendFacts ==
    ASSUME NEW S, NEW s \in Seq(S), NEW e \in S
    PROVE  /\ Append(s, e) \in Seq(S)
           /\ Len(Append(s, e)) = Len(s) + 1
           /\ DOMAIN Append(s, e) = 1..(Len(s) + 1)
           /\ DOMAIN s = 1..Len(s)
           /\ Len(s) \in Nat
           /\ \A i \in 1..Len(s) : Append(s, e)[i] = s[i]
           /\ Append(s, e)[Len(s) + 1] = e
  OBVIOUS

-----------------------------------------------------------------------------
(* Type correctness. *)

\* The chains InitializeChain leaves are well typed.
LEMMA InitType == Init => TypeOK
  <1> SUFFICES ASSUME Init PROVE TypeOK
    OBVIOUS
  <1> USE ConstantsAssumption DEF Init
  <1>1. chain \in [Nodes -> Seq(Ids)] /\ \A n \in Nodes : Len(chain[n]) > 0
    <2>1. \A n \in Nodes : <<n>> \in Seq(Ids) /\ <<n, GenesisNode>> \in Seq(Ids)
      BY DEF Ids
    <2>2. \A n \in Nodes : chain[n] = <<n>> \/ chain[n] = <<n, GenesisNode>>
      OBVIOUS
    <2>3. chain = [n \in Nodes |-> chain[n]]
      OBVIOUS
    <2>4. \A n \in Nodes : chain[n] \in Seq(Ids) /\ Len(chain[n]) > 0
      BY <2>1, <2>2
    <2> QED BY <2>3, <2>4
  <1>2. parent \in [Blocks -> Ids \cup {NoBlock}] /\ number \in [Ids -> Nat]
    OBVIOUS
  <1>3. applied \in [Nodes -> Seq(Blocks)] /\ temp \in [Miners -> Seq(Blocks)]
    OBVIOUS
  <1>4. stage \in [Streams -> Stages]
    BY DEF Stages
  <1>5. phase \in [Miners -> Phases] /\ \A m \in Miners : phase[m] = "idle"
    BY DEF Phases
  <1>6. minedBy \in [Blocks -> Miners \cup {NoBlock}] /\ job \in [Miners -> Blocks \cup {NoBlock}]
    OBVIOUS
  <1>7. tracked \in [Nodes -> SUBSET Blocks]
    OBVIOUS
  <1>8. asked \in [Blocks -> SUBSET Validators] /\ approved \in [Blocks -> SUBSET Validators]
    OBVIOUS
  <1> QED BY <1>1, <1>2, <1>3, <1>4, <1>5, <1>6, <1>7, <1>8 DEF TypeOK

\* The steps of MineBlock keep the types.
LEMMA MineType ==
    ASSUME TypeOK, NEW m \in Miners, Mine(m)
    PROVE  TypeOK'
  <1> USE ConstantsAssumption DEF TypeOK, Phases, minerVars, headerVars
  <1>0. Tip(m) \in Ids /\ m \in Nodes
    BY DEF Tip
  <1>1. CASE \E b \in Blocks : StartMining(m, b)
    <2> PICK b \in Blocks : StartMining(m, b)
      BY <1>1
    <2>1. b \in Ids
      BY DEF Ids
    <2>2. temp' \in [Miners -> Seq(Blocks)]
      BY <1>0 DEF StartMining
    <2>3. number' \in [Ids -> Nat] /\ parent' \in [Blocks -> Ids \cup {NoBlock}]
      BY <1>0, <2>1 DEF StartMining
    <2>4. \A k \in Miners : phase'[k] # "idle" => job'[k] \in Blocks
      BY DEF StartMining
    <2> QED BY <2>2, <2>3, <2>4 DEF StartMining
  <1>2. CASE \E v \in Validators : Approve(m, v)
    BY <1>2 DEF Approve
  <1>3. CASE \E v \in Validators : NoApproval(m, v)
    BY <1>3 DEF NoApproval
  <1>4. CASE DiscardBlock(m)
    BY <1>4 DEF DiscardBlock
  <1>5. CASE CommitPool(m)
    BY <1>5 DEF CommitPool
  <1>6. CASE AppendMined(m)
    BY <1>0, <1>6 DEF AppendMined, Ids
  <1>7. CASE \E reached \in SUBSET (Nodes \ {m}) : BroadcastBlock(m, reached)
    <2> PICK reached \in SUBSET (Nodes \ {m}) : BroadcastBlock(m, reached)
      BY <1>7
    <2>1. job[m] \in Blocks
      BY DEF BroadcastBlock
    <2>2. applied' \in [Nodes -> Seq(Blocks)]
      BY <1>0, <2>1 DEF BroadcastBlock
    <2>3. Cleanup(tracked[m] \cup {job[m]}) \in SUBSET Blocks
      BY <1>0, <2>1 DEF Cleanup
    <2>4. CASE job[m] \in tracked[m]
      BY <2>2, <2>4 DEF BroadcastBlock
    <2>5. CASE job[m] \notin tracked[m]
      <3>1. tracked' = [tracked EXCEPT ![m] = Cleanup(@ \cup {job[m]})]
        BY <2>5 DEF BroadcastBlock
      <3>2. tracked' \in [Nodes -> SUBSET Blocks]
        BY <1>0, <2>3, <3>1
      <3>3. stage' = [s \in Streams |->
                        IF s[1] # m /\ s[2] = job[m] /\ s[3] = m
                        THEN IF s[1] \in reached THEN "sent" ELSE "lost"
                        ELSE stage[s]]
        BY <2>5 DEF BroadcastBlock
      <3>4. stage' \in [Streams -> Stages]
        BY <3>3 DEF Stages
      <3> QED BY <2>2, <3>2, <3>4 DEF BroadcastBlock
    <2> QED BY <2>4, <2>5
  <1> QED
    BY <1>1, <1>2, <1>3, <1>4, <1>5, <1>6, <1>7 DEF Mine

\* The steps of handleBlockStream keep the types.
LEMMA ReceiveType ==
    ASSUME TypeOK, NEW n \in Nodes, NEW b \in Blocks, NEW p \in Miners, Receive(n, b, p)
    PROVE  TypeOK'
  <1> USE DEF TypeOK, minerVars, headerVars, Advance
  <1>0. <<n, b, p>> \in Streams /\ b \in Ids
    BY DEF Streams, Ids
  <1>1. CASE ValidateBlock(n, b, p)
    BY <1>1 DEF ValidateBlock, Stages
  <1>2. CASE RejectBlock(n, b, p)
    BY <1>2 DEF RejectBlock, Stages
  <1>3. CASE CheckTracked(n, b, p)
    BY <1>3 DEF CheckTracked, Stages
  <1>4. CASE MarkTracked(n, b, p)
    BY <1>4 DEF MarkTracked, Stages
  <1>5. CASE AddBlockWithoutValidation(n, b, p)
    <2>1. stage' \in [Streams -> Stages]
      BY <1>5 DEF AddBlockWithoutValidation, Stages
    <2>2. chain' \in [Nodes -> Seq(Ids)] /\ \A k \in Nodes : Len(chain'[k]) > 0
      BY <1>0, <1>5 DEF AddBlockWithoutValidation
    <2>3. applied' \in [Nodes -> Seq(Blocks)]
      BY <1>5 DEF AddBlockWithoutValidation
    <2> QED BY <1>5, <2>1, <2>2, <2>3 DEF AddBlockWithoutValidation
  <1>6. CASE ProcessBlockUTXOs(n, b, p)
    <2>1. stage' \in [Streams -> Stages]
      BY <1>6 DEF ProcessBlockUTXOs, Stages
    <2>2. applied' \in [Nodes -> Seq(Blocks)]
      BY <1>6 DEF ProcessBlockUTXOs
    <2> QED BY <1>6, <2>1, <2>2 DEF ProcessBlockUTXOs
  <1> QED
    BY <1>1, <1>2, <1>3, <1>4, <1>5, <1>6 DEF Receive

\* So does every step.
LEMMA NextType == TypeOK /\ [Next]_vars => TypeOK'
  <1> SUFFICES ASSUME TypeOK, [Next]_vars PROVE TypeOK'
    OBVIOUS
  <1>1. CASE UNCHANGED vars
    BY <1>1 DEF vars, TypeOK, minerVars, headerVars
  <1>2. CASE \E m \in Miners : Mine(m)
    BY <1>2, MineType
  <1>4. CASE \E n \in Nodes, b \in Blocks, p \in Miners : Receive(n, b, p)
    BY <1>4, ReceiveType
  <1> QED BY <1>1, <1>2, <1>4 DEF Next

\* Every reachable state is well typed: in particular a miner that is past the
\* proof of work has a block in hand and no chain is ever empty.
THEOREM TypeCorrect == Spec => []TypeOK
  BY InitType, NextType, PTL DEF Spec
-----------------------------------------------------------------------------
(* Every appended block finds its parent in the chain. *)

\* Headers change only where a miner starts on a block.
LEMMA NextHeaderStep ==
    ASSUME [Next]_vars
    PROVE  \/ UNCHANGED headerVars
           \/ \E m \in Miners, b \in Blocks : StartMining(m, b)
  <1>1. CASE UNCHANGED vars
    BY <1>1 DEF vars
  <1>2. ASSUME NEW m \in Miners, Mine(m)
        PROVE  UNCHANGED headerVars \/ \E b \in Blocks : StartMining(m, b)
    BY <1>2 DEF Mine, Approve, NoApproval, DiscardBlock, CommitPool, AppendMined, BroadcastBlock
  <1>4. ASSUME NEW n \in Nodes, NEW b \in Blocks, NEW p \in Miners, Receive(n, b, p)
        PROVE  UNCHANGED headerVars
    BY <1>4 DEF Receive, ValidateBlock, RejectBlock, CheckTracked, MarkTracked,
                AddBlockWithoutValidation, ProcessBlockUTXOs
  <1> QED BY <1>1, <1>2, <1>4 DEF Next

\* A block that is in a chain, or whose parent is known, has been mined, so no
\* later StartMining picks its hash again.
LEMMA HeadersKept ==
    ASSUME TypeOK, AncestorsHeld, [Next]_vars
    PROVE  /\ \A b \in Blocks : parent[b] \in Ids =>
                                    parent'[b] = parent[b] /\ number'[b] = number[b]
           /\ \A n \in Nodes : \A i \in DOMAIN chain[n] :
                                    number'[chain[n][i]] = number[chain[n][i]]
           /\ \A n \in Nodes : \A i \in DOMAIN chain[n] :
                                    chain[n][i] \in Blocks => parent[chain[n][i]] \in Ids
  <1>1. \A n \in Nodes : \A i \in DOMAIN chain[n] :
            chain[n][i] \in Ids /\ (chain[n][i] \in Blocks => parent[chain[n][i]] \in Ids)
    <2> TAKE n \in Nodes
    <2> TAKE i \in DOMAIN chain[n]
    <2>1. chain[n] \in Seq(Ids)
      BY DEF TypeOK
    <2>2. ASSUME chain[n][i] \in Blocks PROVE parent[chain[n][i]] \in Ids
      <3>1. PICK j \in 1..(i - 1) : chain[n][j] = parent[chain[n][i]]
        BY <2>2 DEF AncestorsHeld
      <3> QED BY <2>1, <3>1
    <2> QED BY <2>1, <2>2
  <1>2. \/ UNCHANGED headerVars
        \/ \E m \in Miners, b \in Blocks : StartMining(m, b)
    BY NextHeaderStep
  <1>3. CASE UNCHANGED headerVars
    BY <1>1, <1>3 DEF headerVars
  <1>4. CASE \E m \in Miners, b \in Blocks : StartMining(m, b)
    <2> PICK m \in Miners, b \in Blocks : StartMining(m, b)
      BY <1>4
    <2>1. parent[b] \notin Ids
      BY ConstantsAssumption DEF StartMining
    <2>2. /\ \A c \in Blocks : c # b => parent'[c] = parent[c]
          /\ \A c \in Ids : c # b => number'[c] = number[c]
      BY DEF StartMining, TypeOK
    <2> QED BY <1>1, <2>1, <2>2 DEF Ids
  <1> QED BY <1>2, <1>3, <1>4

\* A step leaves a chain alone or appends one block whose parent is there.
ChainStep(n) ==
    \/ chain'[n] = chain[n]
    \/ \E b \in Blocks : chain'[n] = Append(chain[n], b) /\ HoldsParent(n, b)

\* No action does anything else to bc.Chain.
LEMMA NextChainStep ==
    ASSUME LinkInv, [Next]_vars, NEW n \in Nodes
    PROVE  ChainStep(n)
  <1> USE ConstantsAssumption DEF ChainStep
  <1>0. TypeOK /\ JobsLinked /\ HandlersLinked
    BY DEF LinkInv
  <1>1. CASE UNCHANGED chain
    BY <1>1
  <1>2. CASE \E m \in Miners : Mine(m)
    <2> PICK m \in Miners : Mine(m)
      BY <1>2
    <2>1. CASE AppendMined(m)
      <3>1. job[m] \in Blocks /\ HoldsParent(m, job[m])
        BY <1>0, <2>1 DEF AppendMined, TypeOK, JobsLinked
      <3>2. chain' = [chain EXCEPT ![m] = Append(@, job[m])]
        BY <2>1 DEF AppendMined
      <3> QED BY <1>0, <3>1, <3>2 DEF TypeOK
    <2>2. CASE ~AppendMined(m)
      BY <1>1, <2>2 DEF Mine, StartMining, Approve, NoApproval, DiscardBlock, CommitPool,
                        BroadcastBlock
    <2> QED BY <2>1, <2>2
  <1>4. CASE \E k \in Nodes, b \in Blocks, p \in Miners : Receive(k, b, p)
    <2> PICK k \in Nodes, b \in Blocks, p \in Miners : Receive(k, b, p)
      BY <1>4
    <2>1. CASE AddBlockWithoutValidation(k, b, p)
      <3>1. chain' = [chain EXCEPT ![k] = Append(@, b)]
        BY <2>1 DEF AddBlockWithoutValidation
      <3>2. HoldsParent(k, b)
        BY <1>0, <2>1 DEF AddBlockWithoutValidation, Advance, HandlersLinked
      <3> QED BY <1>0, <3>1, <3>2 DEF TypeOK
    <2>2. CASE ~AddBlockWithoutValidation(k, b, p)
      BY <1>1, <2>2 DEF Receive, ValidateBlock, RejectBlock, CheckTracked, MarkTracked,
                        ProcessBlockUTXOs
    <2> QED BY <2>1, <2>2
  <1> QED BY <1>1, <1>2, <1>4 DEF Next, vars

\* A chain only grows: what a node holds, it goes on holding at the same place.
LEMMA ChainGrows ==
    ASSUME LinkInv, [Next]_vars, NEW n \in Nodes
    PROVE  /\ \A i \in DOMAIN chain[n] : i \in DOMAIN chain'[n] /\ chain'[n][i] = chain[n][i]
           /\ \A c : Holds(n, c) => Holds(n, c)'
  <1>1. chain[n] \in Seq(Ids)
    BY DEF LinkInv, TypeOK
  <1>2. \A i \in DOMAIN chain[n] : i \in DOMAIN chain'[n] /\ chain'[n][i] = chain[n][i]
    <2>1. ChainStep(n)
      BY NextChainStep
    <2>2. CASE chain'[n] = chain[n]
      BY <2>2
    <2>3. CASE \E b \in Blocks : chain'[n] = Append(chain[n], b)
      <3> PICK b \in Blocks : chain'[n] = Append(chain[n], b)
        BY <2>3
      <3>1. b \in Ids
        BY DEF Ids
      <3> QED BY <1>1, <3>1, AppendFacts
    <2> QED BY <2>1, <2>2, <2>3 DEF ChainStep
  <1> QED BY <1>2 DEF Holds

\* A block that can be appended stays so until it is.
LEMMA HoldsParentStable ==
    ASSUME LinkInv, [Next]_vars, NEW n \in Nodes, NEW b \in Blocks, HoldsParent(n, b)
    PROVE  HoldsParent(n, b)'
  <1>1. parent'[b] = parent[b] /\ number'[b] = number[b]
    BY HeadersKept DEF LinkInv, HoldsParent
  <1>2. PICK i \in DOMAIN chain[n] : chain[n][i] = parent[b]
    BY DEF HoldsParent, Holds
  <1>3. number'[parent[b]] = number[parent[b]]
    BY <1>2, HeadersKept DEF LinkInv
  <1>4. Holds(n, parent[b])'
    BY <1>1, ChainGrows DEF HoldsParent, Holds
  <1> QED BY <1>1, <1>3, <1>4 DEF HoldsParent, Holds

\* A handler gets past the validation only through ValidateBlock.
LEMMA NextHandlerStep ==
    ASSUME TypeOK, [Next]_vars, NEW n \in Nodes, NEW b \in Blocks, NEW p \in Miners,
           stage'[<<n, b, p>>] \in {"validated", "unseen", "marked"}
    PROVE  stage[<<n, b, p>>] \in {"validated", "unseen", "marked"} \/ ValidateBlock(n, b, p)
  <1>0. <<n, b, p>> \in Streams /\ stage \in [Streams -> Stages]
    BY DEF Streams, TypeOK
  <1>1. CASE UNCHANGED stage
    BY <1>1
  <1>2. CASE \E m \in Miners : Mine(m)
    <2> PICK m \in Miners : Mine(m)
      BY <1>2
    <2>1. CASE \E reached \in SUBSET (Nodes \ {m}) : BroadcastBlock(m, reached)
      BY <1>0, <1>1, <2>1 DEF BroadcastBlock
    <2>2. CASE ~\E reached \in SUBSET (Nodes \ {m}) : BroadcastBlock(m, reached)
      BY <1>1, <2>2 DEF Mine, StartMining, Approve, NoApproval, DiscardBlock, CommitPool, AppendMined
    <2> QED BY <2>1, <2>2
  <1>4. CASE \E k \in Nodes, c \in Blocks, q \in Miners : Receive(k, c, q)
    <2> PICK k \in Nodes, c \in Blocks, q \in Miners : Receive(k, c, q)
      BY <1>4
    <2>1. CASE <<k, c, q>> = <<n, b, p>>
      BY <1>0, <2>1 DEF Receive, ValidateBlock, RejectBlock, CheckTracked, MarkTracked,
                        AddBlockWithoutValidation, ProcessBlockUTXOs, Advance
    <2>2. CASE <<k, c, q>> # <<n, b, p>>
      BY <1>0, <2>2 DEF Receive, ValidateBlock, RejectBlock, CheckTracked, MarkTracked,
                        AddBlockWithoutValidation, ProcessBlockUTXOs, Advance
    <2> QED BY <2>1, <2>2
  <1> QED BY <1>1, <1>2, <1>4 DEF Next, vars

\* A node starts with genesis blocks only, so there is nothing to link.
LEMMA InitLink == Init => LinkInv
  <1> SUFFICES ASSUME Init PROVE LinkInv
    OBVIOUS
  <1>1. AncestorsHeld
    <2>1. \A n \in Nodes : chain[n] = <<n>> \/ chain[n] = <<n, GenesisNode>>
      BY DEF Init
    <2>2. \A n \in Nodes : \A i \in DOMAIN chain[n] : chain[n][i] \in Nodes
      BY <2>1, ConstantsAssumption
    <2> QED BY <2>2, ConstantsAssumption DEF AncestorsHeld
  <1>2. JobsLinked
    BY DEF Init, JobsLinked
  <1>3. HandlersLinked
    BY DEF Init, HandlersLinked, Streams
  <1> QED BY <1>1, <1>2, <1>3, InitType DEF LinkInv

\* Every step keeps the parents of blocks in chains, of miners and of handlers.
LEMMA NextLink == LinkInv /\ [Next]_vars => LinkInv'
  <1> SUFFICES ASSUME LinkInv, [Next]_vars PROVE LinkInv'
    OBVIOUS
  <1>0. TypeOK /\ AncestorsHeld /\ JobsLinked /\ HandlersLinked
    BY DEF LinkInv
  <1>1. TypeOK'
    BY <1>0, NextType
  <1>2. AncestorsHeld'
    <2> SUFFICES ASSUME NEW n \in Nodes, NEW i \in DOMAIN chain'[n], chain'[n][i] \in Blocks
                 PROVE  \E j \in 1..(i - 1) :
                            /\ chain'[n][j] = parent'[chain'[n][i]]
                            /\ number'[chain'[n][i]] = number'[chain'[n][j]] + 1
      BY DEF AncestorsHeld
    <2>0. chain[n] \in Seq(Ids)
      BY <1>0 DEF TypeOK
    <2>1. CASE i \in DOMAIN chain[n]
      <3>1. chain'[n][i] = chain[n][i]
        BY <2>1, ChainGrows
      <3>2. PICK j \in 1..(i - 1) : /\ chain[n][j] = parent[chain[n][i]]
                                    /\ number[chain[n][i]] = number[chain[n][j]] + 1
        BY <1>0, <2>1, <3>1 DEF AncestorsHeld
      <3>3. j \in DOMAIN chain[n]
        BY <2>0, <2>1, <3>2
      <3>4. chain'[n][j] = chain[n][j]
        BY <3>3, ChainGrows
      <3>5. parent'[chain[n][i]] = parent[chain[n][i]]
        BY <1>0, <2>1, <3>1, HeadersKept
      <3>6. number'[chain[n][i]] = number[chain[n][i]] /\ number'[chain[n][j]] = number[chain[n][j]]
        BY <1>0, <2>1, <3>3, HeadersKept
      <3> QED BY <3>1, <3>2, <3>4, <3>5, <3>6
    <2>2. CASE i \notin DOMAIN chain[n]
      <3>1. PICK b \in Blocks : chain'[n] = Append(chain[n], b) /\ HoldsParent(n, b)
        BY <2>2, NextChainStep DEF ChainStep
      <3>2. i = Len(chain[n]) + 1 /\ chain'[n][i] = b
        BY <2>0, <2>2, <3>1, AppendFacts DEF Ids
      <3>3. PICK j \in DOMAIN chain[n] : chain[n][j] = parent[b]
        BY <3>1 DEF HoldsParent, Holds
      <3>4. j \in 1..(i - 1)
        BY <2>0, <3>2, <3>3
      <3>5. chain'[n][j] = chain[n][j] /\ number'[chain[n][j]] = number[chain[n][j]]
        BY <1>0, <3>3, ChainGrows, HeadersKept
      <3>6. parent'[b] = parent[b] /\ number'[b] = number[b]
        BY <1>0, <3>1, HeadersKept DEF HoldsParent
      <3> QED BY <3>1, <3>2, <3>3, <3>4, <3>5, <3>6 DEF HoldsParent
    <2> QED BY <2>1, <2>2
  <1>3. JobsLinked'
    <2> SUFFICES ASSUME NEW m \in Miners, phase'[m] # "idle"
                 PROVE  HoldsParent(m, job[m])'
      BY DEF JobsLinked
    <2>0. m \in Nodes
      BY ConstantsAssumption
    <2>1. CASE \E b \in Blocks : StartMining(m, b)
      <3> PICK b \in Blocks : StartMining(m, b)
        BY <2>1
      <3>1. job'[m] = b /\ parent'[b] = Tip(m) /\ chain' = chain
        BY <1>0 DEF StartMining, TypeOK
      <3>2. Len(chain[m]) \in DOMAIN chain[m] /\ Tip(m) \in Ids
        BY <1>0, <2>0 DEF TypeOK, Tip
      <3>3. Tip(m) # b
        BY <1>0, <2>0, <3>2, HeadersKept, ConstantsAssumption DEF StartMining, Tip
      <3>4. number'[b] = number[Tip(m)] + 1 /\ number'[Tip(m)] = number[Tip(m)]
        BY <1>0, <3>2, <3>3 DEF StartMining, TypeOK, Ids
      <3> QED BY <3>1, <3>2, <3>4 DEF HoldsParent, Holds, Tip
    <2>2. CASE ~\E b \in Blocks : StartMining(m, b)
      <3>1. phase[m] # "idle" /\ job'[m] = job[m]
        <4>1. CASE UNCHANGED minerVars
          BY <4>1 DEF minerVars
        <4>2. CASE \E k \in Miners : Mine(k)
          <5> PICK k \in Miners : Mine(k)
            BY <4>2
          <5>1. CASE \E b \in Blocks : StartMining(k, b)
            BY <1>0, <2>2, <5>1 DEF StartMining, TypeOK
          <5>2. CASE ~\E b \in Blocks : StartMining(k, b)
            BY <1>0, <5>2 DEF TypeOK, Mine, Approve, NoApproval, DiscardBlock, CommitPool,
                              AppendMined, BroadcastBlock
          <5> QED BY <5>1, <5>2
        <4>3. UNCHANGED minerVars \/ \E k \in Miners : Mine(k)
          BY DEF Next, vars, Receive, ValidateBlock, RejectBlock,
                 CheckTracked, MarkTracked, AddBlockWithoutValidation, ProcessBlockUTXOs
        <4> QED BY <4>1, <4>2, <4>3
      <3>2. job[m] \in Blocks /\ HoldsParent(m, job[m])
        BY <1>0, <3>1 DEF TypeOK, JobsLinked
      <3>3. HoldsParent(m, job[m]) => \A b \in Blocks : b = job[m] => HoldsParent(m, b)'
        BY <2>0, HoldsParentStable
      <3> QED BY <3>1, <3>2, <3>3 DEF HoldsParent, Holds
    <2> QED BY <2>1, <2>2
  <1>4. HandlersLinked'
    <2> SUFFICES ASSUME NEW n \in Nodes, NEW b \in Blocks, NEW p \in Miners,
                        stage'[<<n, b, p>>] \in {"validated", "unseen", "marked"}
                 PROVE  HoldsParent(n, b)'
      BY DEF HandlersLinked
    <2> SUFFICES HoldsParent(n, b)
      BY HoldsParentStable
    <2>1. CASE stage[<<n, b, p>>] \in {"validated", "unseen", "marked"}
      BY <1>0, <2>1 DEF HandlersLinked
    <2>2. CASE ValidateBlock(n, b, p)
      <3>1. Tip(n) \in Ids
        BY <1>0 DEF TypeOK, Tip
      <3> QED BY <2>2, <3>1 DEF ValidateBlock, ValidOnTip, HoldsParent
    <2>3. stage[<<n, b, p>>] \in {"validated", "unseen", "marked"} \/ ValidateBlock(n, b, p)
      BY <1>0, NextHandlerStep
    <2> QED BY <2>1, <2>2, <2>3
  <1> QED BY <1>1, <1>2, <1>3, <1>4 DEF LinkInv

\* Every block of bc.Chain finds its parent, one number lower, before it: the
\* handlers append on a tip that may have moved since they validated the block,
\* but what they validated cannot disappear.
THEOREM AncestorsAlwaysHeld == Spec => []AncestorsHeld
  <1>1. LinkInv => AncestorsHeld
    BY DEF LinkInv
  <1> QED BY <1>1, InitLink, NextLink, PTL DEF Spec

-----------------------------------------------------------------------------
(* A block that was built upon is held by a majority of the validators. *)

\* Who approved b still has b's parent.
ApprovalsBacked == \A b \in Blocks : \A v \in approved[b] :
    parent[b] \in Ids /\ Holds(v, parent[b])

\* Blocks past the count of validations: committed, appended or on their way.
ChainsApproved == \A n \in Nodes : \A i \in DOMAIN chain[n] :
    chain[n][i] \in Blocks => EnoughValidations(chain[n][i])

JobsApproved == \A m \in Miners :
    phase[m] \in {"committed", "appended"} => EnoughValidations(job[m])

StreamsApproved == \A n \in Nodes, b \in Blocks, p \in Miners :
    stage[<<n, b, p>>] # "none" => EnoughValidations(b)

\* MajorityHoldsParent speaks of chains; the approval of a block has to be
\* followed from requestValidation through the miner and the streams to them.
ApprovalInv ==
    /\ LinkInv
    /\ ApprovalsBacked
    /\ ChainsApproved
    /\ JobsApproved
    /\ StreamsApproved

\* An answer, once counted, is never taken back.
LEMMA ApprovalsGrow ==
    ASSUME TypeOK, [Next]_vars, NEW b \in Blocks
    PROVE  approved[b] \subseteq approved'[b]
  <1>1. CASE UNCHANGED approved
    BY <1>1
  <1>2. ASSUME NEW m \in Miners, Mine(m) PROVE approved[b] \subseteq approved'[b]
    <2>1. CASE \E v \in Validators : Approve(m, v)
      BY <2>1 DEF Approve, TypeOK
    <2>2. CASE ~\E v \in Validators : Approve(m, v)
      BY <1>1, <1>2, <2>2 DEF Mine, StartMining, NoApproval, DiscardBlock, CommitPool,
                              AppendMined, BroadcastBlock
    <2> QED BY <2>1, <2>2
  <1>3. CASE UNCHANGED minerVars
    BY <1>1, <1>3 DEF minerVars
  <1>4. UNCHANGED minerVars \/ \E k \in Miners : Mine(k)
    BY DEF Next, vars, Receive, ValidateBlock, RejectBlock,
           CheckTracked, MarkTracked, AddBlockWithoutValidation, ProcessBlockUTXOs
  <1> QED BY <1>2, <1>3, <1>4

\* A block with enough validations in MineBlock keeps them.
LEMMA EnoughStable ==
    ASSUME TypeOK, [Next]_vars, NEW b \in Blocks, EnoughValidations(b)
    PROVE  EnoughValidations(b)'
  <1>1. TypeOK'
    BY NextType
  <1>2. IsFiniteSet(approved'[b])
    BY <1>1, ConstantsAssumption, FS_Subset DEF TypeOK
  <1>3. /\ Cardinality(approved[b]) \in Nat
        /\ Cardinality(approved'[b]) \in Nat
        /\ Cardinality(approved[b]) <= Cardinality(approved'[b])
    BY <1>2, ApprovalsGrow, FS_Subset, FS_CardinalityType
  <1>4. Cardinality(Validators) \in Nat
    BY ConstantsAssumption, FS_CardinalityType
  <1> QED BY <1>3, <1>4 DEF EnoughValidations

\* The new answers: only a validator that holds the parent approves.
LEMMA NextApproval ==
    ASSUME LinkInv, [Next]_vars, NEW b \in Blocks, NEW v \in approved'[b], v \notin approved[b]
    PROVE  parent[b] \in Ids /\ Holds(v, parent[b]) /\ v \in Validators
  <1>0. TypeOK /\ JobsLinked
    BY DEF LinkInv
  <1>1. UNCHANGED minerVars \/ \E k \in Miners : Mine(k)
    BY DEF Next, vars, Receive, ValidateBlock, RejectBlock,
           CheckTracked, MarkTracked, AddBlockWithoutValidation, ProcessBlockUTXOs
  <1>2. PICK m \in Miners : Mine(m)
    BY <1>1 DEF minerVars
  <1>3. PICK w \in Validators : Approve(m, w)
    BY <1>2 DEF Mine, StartMining, NoApproval, DiscardBlock, CommitPool, AppendMined, BroadcastBlock
  <1>4. job[m] \in Blocks /\ HoldsParent(m, job[m])
    BY <1>0, <1>3 DEF Approve, TypeOK, JobsLinked
  <1>5. b = job[m] /\ v = w
    BY <1>0, <1>3, <1>4 DEF Approve, TypeOK
  <1> QED BY <1>3, <1>4, <1>5 DEF Approve, HoldsParent

\* A block is appended to a chain only after the count.
LEMMA NextAppendApproved ==
    ASSUME ApprovalInv, [Next]_vars, NEW n \in Nodes, NEW i \in DOMAIN chain'[n],
           chain'[n][i] \in Blocks
    PROVE  EnoughValidations(chain'[n][i])
  <1>0. /\ TypeOK /\ LinkInv /\ ChainsApproved /\ JobsApproved /\ StreamsApproved
        /\ chain[n] \in Seq(Ids)
    BY DEF ApprovalInv, LinkInv, TypeOK
  <1>1. CASE i \in DOMAIN chain[n]
    BY <1>0, <1>1, ChainGrows DEF ChainsApproved
  <1>2. CASE i \notin DOMAIN chain[n]
    <2>1. CASE \E m \in Miners : AppendMined(m)
      <3> PICK m \in Miners : AppendMined(m)
        BY <2>1
      <3>1. chain' = [chain EXCEPT ![m] = Append(@, job[m])] /\ job[m] \in Blocks
        BY <1>0 DEF AppendMined, TypeOK
      <3>2. chain'[n] = Append(chain[n], job[m])
        BY <1>0, <1>2, <3>1 DEF TypeOK
      <3>3. chain'[n][i] = job[m]
        BY <1>0, <1>2, <3>1, <3>2, AppendFacts DEF Ids
      <3> QED BY <1>0, <3>3 DEF AppendMined, JobsApproved
    <2>2. CASE \E b \in Blocks, p \in Miners, k \in Nodes : AddBlockWithoutValidation(k, b, p)
      <3> PICK b \in Blocks, p \in Miners, k \in Nodes : AddBlockWithoutValidation(k, b, p)
        BY <2>2
      <3>1. chain' = [chain EXCEPT ![k] = Append(@, b)]
        BY DEF AddBlockWithoutValidation
      <3>2. chain'[n] = Append(chain[n], b)
        BY <1>0, <1>2, <3>1 DEF TypeOK
      <3>3. chain'[n][i] = b
        BY <1>0, <1>2, <3>2, AppendFacts DEF Ids
      <3>4. stage[<<k, b, p>>] = "marked"
        BY DEF AddBlockWithoutValidation, Advance
      <3>5. EnoughValidations(b)
        BY <1>0, <3>4 DEF StreamsApproved
      <3> QED BY <3>3, <3>5
    <2>3. \/ UNCHANGED chain
          \/ \E m \in Miners : AppendMined(m)
          \/ \E b \in Blocks, p \in Miners, k \in Nodes : AddBlockWithoutValidation(k, b, p)
      <3>1. ASSUME NEW m \in Miners, Mine(m)
            PROVE  UNCHANGED chain \/ AppendMined(m)
        BY <3>1 DEF Mine, StartMining, Approve, NoApproval, DiscardBlock, CommitPool, BroadcastBlock
      <3>2. ASSUME NEW k \in Nodes, NEW b \in Blocks, NEW p \in Miners, Receive(k, b, p)
            PROVE  UNCHANGED chain \/ AddBlockWithoutValidation(k, b, p)
        BY <3>2 DEF Receive, ValidateBlock, RejectBlock, CheckTracked, MarkTracked, ProcessBlockUTXOs
      <3> QED BY <3>1, <3>2 DEF Next, vars
    <2> QED BY <1>2, <2>1, <2>2, <2>3
  <1> QED BY <1>1, <1>2

\* A miner gets past the count only with enough validations.
LEMMA NextJobApproved ==
    ASSUME ApprovalInv, [Next]_vars, NEW m \in Miners, phase'[m] \in {"committed", "appended"}
    PROVE  job'[m] = job[m] /\ job[m] \in Blocks /\ EnoughValidations(job[m])
  <1>0. TypeOK /\ JobsApproved
    BY DEF ApprovalInv, LinkInv
  <1>1. UNCHANGED minerVars \/ \E k \in Miners : Mine(k)
    BY DEF Next, vars, Receive, ValidateBlock, RejectBlock,
           CheckTracked, MarkTracked, AddBlockWithoutValidation, ProcessBlockUTXOs
  <1>2. CASE UNCHANGED minerVars
    BY <1>0, <1>2 DEF minerVars, TypeOK, JobsApproved
  <1>3. ASSUME NEW k \in Miners, Mine(k)
        PROVE  /\ job'[m] = job[m]
               /\ phase[m] \in {"committed", "appended"} \/ CommitPool(m)
    <2>1. CASE \E b \in Blocks : StartMining(k, b)
      BY <1>0, <2>1 DEF StartMining, TypeOK
    <2>2. CASE CommitPool(k)
      BY <1>0, <2>2 DEF CommitPool, TypeOK
    <2>3. CASE \E v \in Validators : Approve(k, v) \/ NoApproval(k, v)
      BY <2>3 DEF Approve, NoApproval
    <2>4. CASE DiscardBlock(k) \/ \E reached \in SUBSET (Nodes \ {k}) : BroadcastBlock(k, reached)
      BY <1>0, <2>4 DEF DiscardBlock, BroadcastBlock, TypeOK
    <2>5. CASE AppendMined(k)
      BY <1>0, <2>5 DEF AppendMined, TypeOK
    <2> QED BY <1>3, <2>1, <2>2, <2>3, <2>4, <2>5 DEF Mine
  <1>4. phase[m] \in {"committed", "appended"} => EnoughValidations(job[m]) /\ job[m] \in Blocks
    BY <1>0 DEF JobsApproved, TypeOK
  <1>5. CommitPool(m) => EnoughValidations(job[m]) /\ job[m] \in Blocks
    BY <1>0 DEF CommitPool, TypeOK
  <1> QED BY <1>1, <1>2, <1>3, <1>4, <1>5

\* Only blocks past the count are sent.
LEMMA NextStreamApproved ==
    ASSUME ApprovalInv, [Next]_vars, NEW n \in Nodes, NEW b \in Blocks, NEW p \in Miners,
           stage'[<<n, b, p>>] # "none"
    PROVE  EnoughValidations(b)
  <1>0. /\ TypeOK /\ ChainsApproved /\ JobsApproved
        /\ <<n, b, p>> \in Streams /\ stage \in [Streams -> Stages]
    BY DEF ApprovalInv, LinkInv, Streams, TypeOK
  <1>1. CASE stage[<<n, b, p>>] # "none"
    BY <1>1 DEF ApprovalInv, StreamsApproved
  <1>2. CASE \E m \in Miners : Mine(m)
    <2> PICK m \in Miners : Mine(m)
      BY <1>2
    <2>1. CASE \E reached \in SUBSET (Nodes \ {m}) : BroadcastBlock(m, reached)
      <3>1. stage'[<<n, b, p>>] = stage[<<n, b, p>>] \/ b = job[m]
        BY <1>0, <2>1 DEF BroadcastBlock
      <3>2. EnoughValidations(job[m])
        BY <1>0, <2>1 DEF BroadcastBlock, JobsApproved
      <3> QED BY <1>1, <3>1, <3>2
    <2>2. CASE ~\E reached \in SUBSET (Nodes \ {m}) : BroadcastBlock(m, reached)
      BY <1>1, <2>2 DEF Mine, StartMining, Approve, NoApproval, DiscardBlock, CommitPool, AppendMined
    <2> QED BY <2>1, <2>2
  <1>4. CASE \E k \in Nodes, c \in Blocks, q \in Miners : Receive(k, c, q)
    <2> PICK k \in Nodes, c \in Blocks, q \in Miners : Receive(k, c, q)
      BY <1>4
    <2>1. CASE <<k, c, q>> = <<n, b, p>>
      BY <1>0, <1>1, <2>1 DEF Receive, ValidateBlock, RejectBlock, CheckTracked, MarkTracked,
                        AddBlockWithoutValidation, ProcessBlockUTXOs, Advance
    <2>2. CASE <<k, c, q>> # <<n, b, p>>
      BY <1>0, <1>1, <2>2 DEF Receive, ValidateBlock, RejectBlock, CheckTracked, MarkTracked,
                        AddBlockWithoutValidation, ProcessBlockUTXOs, Advance
    <2> QED BY <2>1, <2>2
  <1>5. CASE UNCHANGED vars
    BY <1>1, <1>5 DEF vars
  <1> QED BY <1>2, <1>4, <1>5 DEF Next

\* At the start no block is mined and none approved.
LEMMA InitApproval == Init => ApprovalInv
  <1> SUFFICES ASSUME Init PROVE ApprovalInv
    OBVIOUS
  <1>1. LinkInv
    BY InitLink
  <1>2. ApprovalsBacked
    BY DEF Init, ApprovalsBacked
  <1>3. ChainsApproved
    <2>1. \A n \in Nodes : chain[n] = <<n>> \/ chain[n] = <<n, GenesisNode>>
      BY DEF Init
    <2>2. \A n \in Nodes : \A i \in DOMAIN chain[n] : chain[n][i] \in Nodes
      BY <2>1, ConstantsAssumption
    <2> QED BY <2>2, ConstantsAssumption DEF ChainsApproved
  <1>4. JobsApproved
    BY DEF Init, JobsApproved
  <1>5. StreamsApproved
    BY DEF Init, StreamsApproved, Streams
  <1> QED BY <1>1, <1>2, <1>3, <1>4, <1>5 DEF ApprovalInv

\* Every step keeps what the approvals of a block say.
LEMMA NextApprovalInv == ApprovalInv /\ [Next]_vars => ApprovalInv'
  <1> SUFFICES ASSUME ApprovalInv, [Next]_vars PROVE ApprovalInv'
    OBVIOUS
  <1>0. TypeOK /\ LinkInv /\ ApprovalsBacked
    BY DEF ApprovalInv, LinkInv
  <1>1. LinkInv' /\ TypeOK'
    BY <1>0, NextLink, NextType
  <1>2. ApprovalsBacked'
    <2> SUFFICES ASSUME NEW b \in Blocks, NEW v \in approved'[b]
                 PROVE  (parent[b] \in Ids /\ Holds(v, parent[b]))'
      BY DEF ApprovalsBacked
    <2>1. parent[b] \in Ids /\ Holds(v, parent[b])
      BY <1>0, NextApproval DEF ApprovalsBacked
    <2>2. v \in Nodes
      BY <1>1, ConstantsAssumption DEF TypeOK
    <2>3. parent'[b] = parent[b]
      BY <1>0, <2>1, HeadersKept DEF LinkInv
    <2>4. Holds(v, parent[b])'
      BY <1>0, <2>1, <2>2, <2>3, ChainGrows DEF Holds
    <2> QED BY <2>1, <2>3, <2>4
  <1>3. ChainsApproved'
    <2> SUFFICES ASSUME NEW n \in Nodes, NEW i \in DOMAIN chain'[n], chain'[n][i] \in Blocks
                 PROVE  EnoughValidations(chain[n][i])'
      BY DEF ChainsApproved
    <2>1. PICK b \in Blocks : b = chain'[n][i]
      OBVIOUS
    <2>2. EnoughValidations(b)
      BY <2>1, NextAppendApproved
    <2>3. EnoughValidations(b)'
      BY <1>0, <2>2, EnoughStable
    <2> QED BY <2>1, <2>3 DEF EnoughValidations
  <1>4. JobsApproved'
    <2> SUFFICES ASSUME NEW m \in Miners, phase'[m] \in {"committed", "appended"}
                 PROVE  EnoughValidations(job[m])'
      BY DEF JobsApproved
    <2>1. PICK b \in Blocks : b = job'[m] /\ b = job[m]
      BY NextJobApproved
    <2>2. EnoughValidations(b)
      BY <2>1, NextJobApproved
    <2>3. EnoughValidations(b)'
      BY <1>0, <2>2, EnoughStable
    <2> QED BY <2>1, <2>3 DEF EnoughValidations
  <1>5. StreamsApproved'
    <2> SUFFICES ASSUME NEW n \in Nodes, NEW b \in Blocks, NEW p \in Miners,
                        stage'[<<n, b, p>>] # "none"
                 PROVE  EnoughValidations(b)'
      BY DEF StreamsApproved
    <2>1. EnoughValidations(b)
      BY NextStreamApproved
    <2> QED BY <1>0, <2>1, EnoughStable
  <1> QED BY <1>1, <1>2, <1>3, <1>4, <1>5 DEF ApprovalInv

\* Whoever approved a block holds its parent, and they are a majority.
LEMMA ApprovalMajority == ApprovalInv => MajorityHoldsParent
  <1> SUFFICES ASSUME ApprovalInv, NEW n \in Nodes, NEW i \in DOMAIN chain[n],
                      chain[n][i] \in Blocks
               PROVE  2 * Cardinality({v \in Validators : Holds(v, parent[chain[n][i]])})
                          > Cardinality(Validators)
    BY DEF MajorityHoldsParent
  <1> DEFINE b == chain[n][i]
             Holders == {v \in Validators : Holds(v, parent[b])}
  <1>1. EnoughValidations(b)
    BY DEF ApprovalInv, ChainsApproved
  <1>2. approved[b] \subseteq Holders
    BY DEF ApprovalInv, LinkInv, TypeOK, ApprovalsBacked
  <1>3. IsFiniteSet(Holders)
    BY ConstantsAssumption, FS_Subset
  <1>4. /\ Cardinality(approved[b]) \in Nat
        /\ Cardinality(Holders) \in Nat
        /\ Cardinality(approved[b]) <= Cardinality(Holders)
    BY <1>2, <1>3, FS_Subset, FS_CardinalityType
  <1>5. Cardinality(Validators) \in Nat
    BY ConstantsAssumption, FS_CardinalityType
  <1> HIDE DEF b, Holders
  <1>6. 2 * Cardinality(Holders) > Cardinality(Validators)
    BY <1>1, <1>4, <1>5 DEF EnoughValidations
  <1> QED BY <1>6 DEF b, Holders

\* A block that anyone built upon is held by a majority of the validators, for
\* every number of validators, miners and blocks and whatever gets lost.
THEOREM MajorityAlwaysHoldsParent == Spec => []MajorityHoldsParent
  BY InitApproval, NextApprovalInv, ApprovalMajority, PTL DEF Spec

-----------------------------------------------------------------------------
(* What a step does to the handler of a stream and to the pool of a node. *)

\* The steps of handleBlockStream.
HandlerMoves ==
    {<<"sent", "validated">>, <<"sent", "rejected">>, <<"validated", "known">>,
     <<"validated", "unseen">>, <<"unseen", "marked">>, <<"marked", "appended">>,
     <<"appended", "done">>}

\* A handler takes one step of its own.
LEMMA ReceiveMoves ==
    ASSUME TypeOK, NEW n \in Nodes, NEW b \in Blocks, NEW p \in Miners, Receive(n, b, p)
    PROVE  /\ <<stage[<<n, b, p>>], stage'[<<n, b, p>>]>> \in HandlerMoves
           /\ \A s \in Streams : s # <<n, b, p>> => stage'[s] = stage[s]
  <1>1. <<n, b, p>> \in Streams /\ stage \in [Streams -> Stages]
    BY DEF Streams, TypeOK
  <1>2. \E from, to \in Stages : <<from, to>> \in HandlerMoves /\ Advance(<<n, b, p>>, from, to)
    <2>1. CASE ValidateBlock(n, b, p)
      BY <2>1 DEF ValidateBlock, HandlerMoves, Stages
    <2>2. CASE RejectBlock(n, b, p)
      BY <2>2 DEF RejectBlock, HandlerMoves, Stages
    <2>3. CASE CheckTracked(n, b, p)
      BY <2>3 DEF CheckTracked, HandlerMoves, Stages
    <2>4. CASE MarkTracked(n, b, p)
      BY <2>4 DEF MarkTracked, HandlerMoves, Stages
    <2>5. CASE AddBlockWithoutValidation(n, b, p)
      BY <2>5 DEF AddBlockWithoutValidation, HandlerMoves, Stages
    <2>6. CASE ProcessBlockUTXOs(n, b, p)
      BY <2>6 DEF ProcessBlockUTXOs, HandlerMoves, Stages
    <2> QED BY <2>1, <2>2, <2>3, <2>4, <2>5, <2>6 DEF Receive
  <1>3. PICK from, to \in Stages : <<from, to>> \in HandlerMoves /\ Advance(<<n, b, p>>, from, to)
    BY <1>2
  <1>4. stage[<<n, b, p>>] = from /\ stage' = [stage EXCEPT ![<<n, b, p>>] = to]
    BY <1>3 DEF Advance
  <1> QED BY <1>1, <1>3, <1>4

\* A stream is left alone, handled, or opened by the miner.
LEMMA NextStageStep ==
    ASSUME TypeOK, [Next]_vars, NEW n \in Nodes, NEW b \in Blocks, NEW p \in Miners
    PROVE  \/ stage'[<<n, b, p>>] = stage[<<n, b, p>>]
           \/ Receive(n, b, p)
           \/ /\ p \in Miners /\ n # p /\ job[p] = b
              /\ phase[p] = "appended" /\ phase'[p] = "idle"
              /\ stage'[<<n, b, p>>] \in {"sent", "lost"}
  <1>0. <<n, b, p>> \in Streams /\ stage \in [Streams -> Stages]
    BY DEF Streams, TypeOK
  <1>1. CASE UNCHANGED stage
    BY <1>1
  <1>2. CASE \E m \in Miners : Mine(m)
    <2> PICK m \in Miners : Mine(m)
      BY <1>2
    <2>1. CASE \E reached \in SUBSET (Nodes \ {m}) : BroadcastBlock(m, reached)
      <3> PICK reached \in SUBSET (Nodes \ {m}) : BroadcastBlock(m, reached)
        BY <2>1
      <3>1. phase[m] = "appended" /\ phase'[m] = "idle"
        BY DEF BroadcastBlock, TypeOK
      <3>2. CASE UNCHANGED stage
        BY <3>2
      <3>3. CASE stage' = [s \in Streams |->
                             IF s[1] # m /\ s[2] = job[m] /\ s[3] = m
                             THEN IF s[1] \in reached THEN "sent" ELSE "lost"
                             ELSE stage[s]]
        BY <1>0, <3>1, <3>3
      <3> QED BY <3>2, <3>3 DEF BroadcastBlock
    <2>2. CASE ~\E reached \in SUBSET (Nodes \ {m}) : BroadcastBlock(m, reached)
      BY <1>1, <2>2 DEF Mine, StartMining, Approve, NoApproval, DiscardBlock, CommitPool, AppendMined
    <2> QED BY <2>1, <2>2
  <1>4. CASE \E k \in Nodes, c \in Blocks, q \in Miners : Receive(k, c, q)
    BY <1>0, <1>4, ReceiveMoves
  <1> QED BY <1>1, <1>2, <1>4 DEF Next, vars

\* On a node that does not mine, a block comes into bc.utxoPool together with
\* the chain, or a second time right after.
AppliedStep(n) ==
    \/ applied'[n] = applied[n] /\ chain'[n] = chain[n]
    \/ \E b \in Blocks, p \in Miners :
         /\ stage[<<n, b, p>>] \in {"marked", "appended"}
         /\ applied'[n] = Append(applied[n], b)
         /\ chain'[n] = chain[n] \/ chain'[n] = Append(chain[n], b)

\* What a node that does not mine applies, and appends if it does, a handler has marked.
LEMMA NextAppliedStep ==
    ASSUME TypeOK, [Next]_vars, NEW n \in Nodes \ Miners
    PROVE  AppliedStep(n)
  <1> USE DEF AppliedStep
  <1>0. chain \in [Nodes -> Seq(Ids)] /\ applied \in [Nodes -> Seq(Blocks)]
    BY DEF TypeOK
  <1>1. CASE UNCHANGED <<chain, applied>>
    BY <1>1
  <1>2. CASE \E m \in Miners : Mine(m)
    BY <1>0, <1>2 DEF Mine, StartMining, Approve, NoApproval, DiscardBlock, CommitPool,
                      AppendMined, BroadcastBlock
  <1>4. CASE \E k \in Nodes, c \in Blocks, q \in Miners : Receive(k, c, q)
    <2> PICK k \in Nodes, c \in Blocks, q \in Miners : Receive(k, c, q)
      BY <1>4
    <2>1. CASE AddBlockWithoutValidation(k, c, q)
      <3>1. /\ stage[<<k, c, q>>] = "marked"
            /\ chain' = [chain EXCEPT ![k] = Append(@, c)]
            /\ applied' = [applied EXCEPT ![k] = Append(@, c)]
        BY <2>1 DEF AddBlockWithoutValidation, Advance
      <3> QED BY <1>0, <3>1
    <2>2. CASE ProcessBlockUTXOs(k, c, q)
      <3>1. /\ stage[<<k, c, q>>] = "appended"
            /\ chain' = chain
            /\ applied' = [applied EXCEPT ![k] = Append(@, c)]
        BY <2>2 DEF ProcessBlockUTXOs, Advance
      <3> QED BY <1>0, <3>1
    <2>3. CASE ~AddBlockWithoutValidation(k, c, q) /\ ~ProcessBlockUTXOs(k, c, q)
      BY <1>1, <2>3 DEF Receive, ValidateBlock, RejectBlock, CheckTracked, MarkTracked
    <2> QED BY <2>1, <2>2, <2>3
  <1> QED BY <1>1, <1>2, <1>4 DEF Next, vars

-----------------------------------------------------------------------------
(* Transactions of a block are never processed before those of its parent. *)

\* The second call of ProcessBlockTransactions finds the parent too.
AppendedLinked == \A n \in Nodes, b \in Blocks, p \in Miners :
    stage[<<n, b, p>>] = "appended" => HoldsParent(n, b)

\* Nothing is processed that was not mined.
AppliedMined == \A n \in Nodes \ Miners : \A i \in DOMAIN applied[n] :
    parent[applied[n][i]] \in Ids

\* The pool is not behind the chain: AddBlockWithoutValidation changes both.
ChainApplied == \A n \in Nodes \ Miners : \A i \in DOMAIN chain[n] :
    chain[n][i] \in Blocks => \E j \in DOMAIN applied[n] : applied[n][j] = chain[n][i]

\* ParentAppliedFirst speaks of the pool, the handlers check the chain: the
\* conjuncts before it connect the two.
OrderInv == LinkInv /\ AppendedLinked /\ AppliedMined /\ ChainApplied /\ ParentAppliedFirst

\* Nothing is applied or under way at the start.
LEMMA InitOrder == Init => OrderInv
  <1> SUFFICES ASSUME Init PROVE OrderInv
    OBVIOUS
  <1>1. AppendedLinked
    BY DEF Init, AppendedLinked, Streams
  <1>2. \A n \in Nodes : applied[n] = <<>>
    BY DEF Init
  <1>3. ChainApplied
    <2>1. \A n \in Nodes : chain[n] = <<n>> \/ chain[n] = <<n, GenesisNode>>
      BY DEF Init
    <2>2. \A n \in Nodes : \A i \in DOMAIN chain[n] : chain[n][i] \in Nodes
      BY <2>1, ConstantsAssumption
    <2> QED BY <2>2, ConstantsAssumption DEF ChainApplied
  <1>4. AppliedMined /\ ParentAppliedFirst
    BY <1>2 DEF AppliedMined, ParentAppliedFirst
  <1> QED BY <1>1, <1>3, <1>4, InitLink DEF OrderInv

\* Every step keeps a parent applied before its child.
LEMMA NextOrder == OrderInv /\ [Next]_vars => OrderInv'
  <1> SUFFICES ASSUME OrderInv, [Next]_vars PROVE OrderInv'
    OBVIOUS
  <1>0. LinkInv /\ TypeOK /\ AncestorsHeld /\ AppendedLinked /\ HandlersLinked
    BY DEF OrderInv, LinkInv
  <1>1. LinkInv'
    BY <1>0, NextLink
  <1>2. AppendedLinked'
    <2> SUFFICES ASSUME NEW n \in Nodes, NEW b \in Blocks, NEW p \in Miners,
                        stage'[<<n, b, p>>] = "appended"
                 PROVE  HoldsParent(n, b)'
      BY DEF AppendedLinked
    <2>1. stage[<<n, b, p>>] \in {"marked", "appended"}
      BY <1>0, NextStageStep, ReceiveMoves DEF HandlerMoves
    <2> QED BY <1>0, <2>1, HoldsParentStable DEF AppendedLinked, HandlersLinked
  <1>3. ASSUME NEW n \in Nodes \ Miners
        PROVE  /\ \A i \in DOMAIN applied'[n] : parent'[applied'[n][i]] \in Ids
               /\ \A i \in DOMAIN chain'[n] : chain'[n][i] \in Blocks =>
                      \E j \in DOMAIN applied'[n] : applied'[n][j] = chain'[n][i]
               /\ \A i \in DOMAIN applied'[n] : parent'[applied'[n][i]] \in Blocks =>
                      \E j \in 1..(i - 1) : applied'[n][j] = parent'[applied'[n][i]]
    <2>0. applied[n] \in Seq(Blocks) /\ chain[n] \in Seq(Ids) /\ Blocks \subseteq Ids
      BY <1>0 DEF TypeOK, Ids
    <2>1. /\ \A i \in DOMAIN applied[n] : parent[applied[n][i]] \in Ids
          /\ \A i \in DOMAIN chain[n] : chain[n][i] \in Blocks =>
                 \E j \in DOMAIN applied[n] : applied[n][j] = chain[n][i]
          /\ \A i \in DOMAIN applied[n] : parent[applied[n][i]] \in Blocks =>
                 \E j \in 1..(i - 1) : applied[n][j] = parent[applied[n][i]]
      BY DEF OrderInv, AppliedMined, ChainApplied, ParentAppliedFirst
    <2>2. \A i \in DOMAIN applied[n] : parent'[applied[n][i]] = parent[applied[n][i]]
      BY <1>0, <2>0, <2>1, HeadersKept
    <2>3. CASE applied'[n] = applied[n] /\ chain'[n] = chain[n]
      BY <2>1, <2>2, <2>3
    <2>4. ASSUME NEW b \in Blocks, NEW p \in Miners,
                 stage[<<n, b, p>>] \in {"marked", "appended"},
                 applied'[n] = Append(applied[n], b),
                 chain'[n] = chain[n] \/ chain'[n] = Append(chain[n], b)
          PROVE  /\ \A i \in DOMAIN applied'[n] : parent'[applied'[n][i]] \in Ids
                 /\ \A i \in DOMAIN chain'[n] : chain'[n][i] \in Blocks =>
                        \E j \in DOMAIN applied'[n] : applied'[n][j] = chain'[n][i]
                 /\ \A i \in DOMAIN applied'[n] : parent'[applied'[n][i]] \in Blocks =>
                        \E j \in 1..(i - 1) : applied'[n][j] = parent'[applied'[n][i]]
      <3>1. HoldsParent(n, b)
        BY <1>0, <2>4 DEF AppendedLinked, HandlersLinked
      <3>2. parent'[b] = parent[b] /\ parent[b] \in Ids
        BY <1>0, <3>1, HeadersKept DEF HoldsParent
      <3>3. /\ DOMAIN applied'[n] = 1..(Len(applied[n]) + 1)
            /\ DOMAIN applied[n] = 1..Len(applied[n]) /\ Len(applied[n]) \in Nat
            /\ \A i \in 1..Len(applied[n]) : applied'[n][i] = applied[n][i]
            /\ applied'[n][Len(applied[n]) + 1] = b
        BY <2>0, <2>4, AppendFacts
      <3>4. \A i \in DOMAIN chain'[n] : chain'[n][i] = b \/
                (i \in DOMAIN chain[n] /\ chain'[n][i] = chain[n][i])
        <4>1. CASE chain'[n] = chain[n]
          BY <4>1
        <4>2. CASE chain'[n] = Append(chain[n], b)
          <5>1. b \in Ids
            BY <2>0
          <5>2. /\ DOMAIN chain'[n] = 1..(Len(chain[n]) + 1)
                /\ DOMAIN chain[n] = 1..Len(chain[n]) /\ Len(chain[n]) \in Nat
                /\ \A i \in 1..Len(chain[n]) : chain'[n][i] = chain[n][i]
                /\ chain'[n][Len(chain[n]) + 1] = b
            BY <2>0, <4>2, <5>1, AppendFacts
          <5> QED BY <5>2
        <4> QED BY <2>4, <4>1, <4>2
      <3>5. \A i \in DOMAIN applied'[n] : parent'[applied'[n][i]] \in Ids
        BY <2>1, <2>2, <3>2, <3>3
      <3>6. \A i \in DOMAIN chain'[n] : chain'[n][i] \in Blocks =>
                \E j \in DOMAIN applied'[n] : applied'[n][j] = chain'[n][i]
        BY <2>1, <3>3, <3>4
      <3>7. ASSUME NEW i \in DOMAIN applied'[n], parent'[applied'[n][i]] \in Blocks
            PROVE  \E j \in 1..(i - 1) : applied'[n][j] = parent'[applied'[n][i]]
        <4>1. CASE i \in DOMAIN applied[n]
          <5>1. PICK j \in 1..(i - 1) : applied[n][j] = parent[applied[n][i]]
            BY <2>1, <2>2, <3>3, <3>7, <4>1
          <5> QED BY <2>2, <3>3, <4>1, <5>1
        <4>2. CASE i = Len(applied[n]) + 1
          <5>1. PICK k \in DOMAIN chain[n] : chain[n][k] = parent[b]
            BY <3>1 DEF HoldsParent, Holds
          <5>2. PICK j \in DOMAIN applied[n] : applied[n][j] = parent[b]
            BY <2>1, <3>2, <3>3, <3>7, <4>2, <5>1
          <5> QED BY <3>2, <3>3, <4>2, <5>2
        <4> QED BY <3>3, <4>1, <4>2
      <3> QED BY <3>5, <3>6, <3>7
    <2>5. AppliedStep(n)
      BY <1>0, NextAppliedStep
    <2> QED BY <2>3, <2>4, <2>5 DEF AppliedStep
  <1> QED BY <1>1, <1>2, <1>3 DEF OrderInv, AppliedMined, ChainApplied, ParentAppliedFirst

\* On a node that does not mine, whatever the streams bring and however its
\* handlers interleave, ProcessBlockTransactions has seen the parent of a block
\* before it sees the block.
THEOREM ParentAlwaysAppliedFirst == Spec => []ParentAppliedFirst
  <1>1. OrderInv => ParentAppliedFirst
    BY DEF OrderInv
  <1> QED BY <1>1, InitOrder, NextOrder, PTL DEF Spec

-----------------------------------------------------------------------------
(* Without a second sender, no block is appended twice. *)

\* The steps of MineBlock after the proof of work.
MinerMoves ==
    {<<"validating", "idle">>, <<"validating", "committed">>, <<"committed", "appended">>,
     <<"appended", "idle">>}

\* A miner starts on a new block or takes the next step with the one it has.
LEMMA NextMinerStep ==
    ASSUME TypeOK, [Next]_vars, NEW m \in Miners
    PROVE  \/ \E b \in Blocks : StartMining(m, b)
           \/ /\ job'[m] = job[m]
              /\ phase'[m] = phase[m] \/ <<phase[m], phase'[m]>> \in MinerMoves
  <1>0. job \in [Miners -> Blocks \cup {NoBlock}] /\ phase \in [Miners -> Phases]
    BY DEF TypeOK
  <1>1. CASE UNCHANGED minerVars
    BY <1>1 DEF minerVars
  <1>2. CASE \E k \in Miners : Mine(k)
    <2> PICK k \in Miners : Mine(k)
      BY <1>2
    <2>1. CASE \E b \in Blocks : StartMining(k, b)
      BY <1>0, <2>1 DEF StartMining
    <2>2. CASE UNCHANGED <<job, phase>>
      BY <2>2
    <2>3. CASE /\ UNCHANGED job
               /\ \E to \in Phases : <<phase[k], to>> \in MinerMoves /\ phase' = [phase EXCEPT ![k] = to]
      BY <1>0, <2>3
    <2>4. \/ \E b \in Blocks : StartMining(k, b)
          \/ UNCHANGED <<job, phase>>
          \/ DiscardBlock(k) \/ CommitPool(k) \/ AppendMined(k)
          \/ \E reached \in SUBSET (Nodes \ {k}) : BroadcastBlock(k, reached)
      BY DEF Mine, Approve, NoApproval
    <2>5. ASSUME DiscardBlock(k) \/ CommitPool(k) \/ AppendMined(k)
                    \/ \E reached \in SUBSET (Nodes \ {k}) : BroadcastBlock(k, reached)
          PROVE  /\ UNCHANGED job
                 /\ \E to \in Phases : <<phase[k], to>> \in MinerMoves
                                       /\ phase' = [phase EXCEPT ![k] = to]
      BY <2>5 DEF DiscardBlock, CommitPool, AppendMined, BroadcastBlock, MinerMoves, Phases
    <2> QED BY <2>1, <2>2, <2>3, <2>4, <2>5
  <1>3. UNCHANGED minerVars \/ \E k \in Miners : Mine(k)
    BY DEF Next, vars, Receive, ValidateBlock, RejectBlock,
           CheckTracked, MarkTracked, AddBlockWithoutValidation, ProcessBlockUTXOs
  <1> QED BY <1>1, <1>2, <1>3

\* A chain grows by the job of its miner or by the block of a handler.
LEMMA NextAppend ==
    ASSUME TypeOK, [Next]_vars, NEW n \in Nodes
    PROVE  \/ chain'[n] = chain[n]
           \/ \E b \in Blocks :
                /\ chain'[n] = Append(chain[n], b)
                /\ \/ /\ n \in Miners /\ job[n] = b
                      /\ phase[n] = "committed" /\ phase'[n] = "appended"
                   \/ \E p \in Miners : /\ stage[<<n, b, p>>] = "marked"
                                       /\ stage'[<<n, b, p>>] = "appended"
  <1>0. chain \in [Nodes -> Seq(Ids)]
    BY DEF TypeOK
  <1>1. CASE UNCHANGED chain
    BY <1>1
  <1>2. CASE \E m \in Miners : Mine(m)
    <2> PICK m \in Miners : Mine(m)
      BY <1>2
    <2>1. CASE AppendMined(m)
      <3>1. job[m] \in Blocks
        BY <2>1 DEF AppendMined, TypeOK
      <3>2. /\ chain' = [chain EXCEPT ![m] = Append(@, job[m])]
            /\ phase[m] = "committed" /\ phase'[m] = "appended"
        BY <2>1 DEF AppendMined, TypeOK
      <3> QED BY <1>0, <3>1, <3>2
    <2>2. CASE ~AppendMined(m)
      BY <1>1, <2>2 DEF Mine, StartMining, Approve, NoApproval, DiscardBlock, CommitPool,
                        BroadcastBlock
    <2> QED BY <2>1, <2>2
  <1>4. CASE \E k \in Nodes, b \in Blocks, p \in Miners : Receive(k, b, p)
    <2> PICK k \in Nodes, b \in Blocks, p \in Miners : Receive(k, b, p)
      BY <1>4
    <2>1. CASE AddBlockWithoutValidation(k, b, p)
      <3>1. /\ chain' = [chain EXCEPT ![k] = Append(@, b)]
            /\ stage[<<k, b, p>>] = "marked"
            /\ stage' = [stage EXCEPT ![<<k, b, p>>] = "appended"]
        BY <2>1 DEF AddBlockWithoutValidation, Advance
      <3>2. stage'[<<k, b, p>>] = "appended"
        BY <3>1 DEF TypeOK, Streams
      <3> QED BY <1>0, <3>1, <3>2
    <2>2. CASE ~AddBlockWithoutValidation(k, b, p)
      BY <1>1, <2>2 DEF Receive, ValidateBlock, RejectBlock, CheckTracked, MarkTracked,
                        ProcessBlockUTXOs
    <2> QED BY <2>1, <2>2
  <1> QED BY <1>1, <1>2, <1>4 DEF Next, vars

\* The blocks that n holds after an append.
LEMMA HeldAfter ==
    ASSUME NEW s \in Seq(Ids), NEW t, NEW b \in Blocks, t = s \/ t = Append(s, b)
    PROVE  \A i \in DOMAIN t : (i \in DOMAIN s /\ t[i] = s[i]) \/ (t # s /\ t[i] = b)
  <1>1. CASE t = s
    BY <1>1
  <1>2. CASE t = Append(s, b)
    <2>1. b \in Ids
      BY DEF Ids
    <2>2. /\ DOMAIN t = 1..(Len(s) + 1) /\ Len(t) = Len(s) + 1
          /\ DOMAIN s = 1..Len(s) /\ Len(s) \in Nat
          /\ \A i \in 1..Len(s) : t[i] = s[i]
          /\ t[Len(s) + 1] = b
      BY <1>2, <2>1, AppendFacts
    <2> QED BY <2>2
  <1> QED BY <1>1, <1>2

Arrived == {"appended", "done"}

\* A block has a miner when it has a parent.
HeadersAgree == \A b \in Blocks : minedBy[b] \in Miners <=> parent[b] \in Ids

\* A block travels from its miner only, and not to itself.
StreamsOfMiner == \A n \in Nodes, b \in Blocks, p \in Miners :
    stage[<<n, b, p>>] # "none" => p \in Miners /\ n # p /\ minedBy[b] = p

\* A node has a block that it mined, or whose stream its handler has applied.
HeldMined == \A n \in Nodes : \A i \in DOMAIN chain[n] : chain[n][i] \in Blocks =>
    \/ minedBy[chain[n][i]] = n
    \/ \E p \in Miners : stage[<<n, chain[n][i], p>>] \in Arrived

\* The block that a miner works on has gone nowhere yet.
JobsFresh == \A m \in Miners : phase[m] # "idle" =>
    /\ minedBy[job[m]] = m
    /\ \A n \in Nodes, p \in Miners : stage[<<n, job[m], p>>] = "none"
    /\ phase[m] # "appended" => ~Holds(m, job[m])

\* NoBlockTwice needs to know where a block that is held came from, and that
\* there is one stream to bring it.
OnceInv ==
    /\ LinkInv /\ HeadersAgree /\ StreamsOfMiner
    /\ HeldMined /\ JobsFresh /\ NoBlockTwice

\* At the start a chain holds at most the two genesis blocks.
LEMMA InitOnce == Init => OnceInv
  <1> SUFFICES ASSUME Init PROVE OnceInv
    OBVIOUS
  <1> USE ConstantsAssumption
  <1>1. HeadersAgree
    BY DEF Init, HeadersAgree, Ids
  <1>2. StreamsOfMiner
    BY DEF Init, StreamsOfMiner, Streams
  <1>3. JobsFresh
    BY DEF Init, JobsFresh
  <1>4. \A n \in Nodes : chain[n] = <<n>> \/ (chain[n] = <<n, GenesisNode>> /\ n # GenesisNode)
    BY DEF Init
  <1>5. HeldMined
    <2>1. \A n \in Nodes : \A i \in DOMAIN chain[n] : chain[n][i] \in Nodes
      BY <1>4
    <2> QED BY <2>1 DEF HeldMined
  <1>6. NoBlockTwice
    BY <1>4 DEF NoBlockTwice
  <1> QED BY <1>1, <1>2, <1>3, <1>5, <1>6, InitLink DEF OnceInv

\* Every step adds a block at most once, with one stream for each.
LEMMA NextOnce ==
    ASSUME OnceInv, [Next]_vars
    PROVE  OnceInv'
  <1> USE ConstantsAssumption
  <1>0. /\ LinkInv /\ TypeOK /\ AncestorsHeld /\ HeadersAgree /\ StreamsOfMiner
        /\ HeldMined /\ JobsFresh /\ NoBlockTwice
    BY DEF OnceInv, LinkInv
  <1>a. minedBy \in [Blocks -> Miners \cup {NoBlock}] /\ parent \in [Blocks -> Ids \cup {NoBlock}]
    BY <1>0 DEF TypeOK
  <1>b. LinkInv' /\ TypeOK'
    BY <1>0, NextLink DEF LinkInv
  <1>1. HeadersAgree' /\ \A b \in Blocks : minedBy[b] \in Miners => minedBy'[b] = minedBy[b]
    <2>1. CASE UNCHANGED headerVars
      BY <1>0, <2>1 DEF headerVars, HeadersAgree
    <2>2. ASSUME NEW m \in Miners, NEW b \in Blocks, StartMining(m, b)
          PROVE  HeadersAgree' /\ \A c \in Blocks : minedBy[c] \in Miners => minedBy'[c] = minedBy[c]
      <3>1. Tip(m) \in Ids
        BY <1>0 DEF TypeOK, Tip
      <3>2. parent[b] = NoBlock /\ parent[b] \notin Ids
        BY <2>2 DEF StartMining
      <3>3. parent' = [parent EXCEPT ![b] = Tip(m)] /\ minedBy' = [minedBy EXCEPT ![b] = m]
        BY <2>2 DEF StartMining
      <3> QED BY <1>0, <1>a, <3>1, <3>2, <3>3 DEF HeadersAgree
    <2> QED BY <2>1, <2>2, NextHeaderStep
  <1>2. StreamsOfMiner'
    <2> SUFFICES ASSUME NEW n \in Nodes, NEW b \in Blocks, NEW p \in Miners,
                        stage'[<<n, b, p>>] # "none"
                 PROVE  p \in Miners /\ n # p /\ minedBy'[b] = p
      BY DEF StreamsOfMiner
    <2>1. \/ stage[<<n, b, p>>] # "none"
          \/ p \in Miners /\ n # p /\ job[p] = b /\ phase[p] = "appended"
      BY <1>0, NextStageStep, ReceiveMoves DEF HandlerMoves
    <2>2. p \in Miners /\ n # p /\ minedBy[b] = p
      BY <1>0, <2>1 DEF StreamsOfMiner, JobsFresh
    <2> QED BY <1>1, <2>2
  <1>3. HeldMined'
    <2> SUFFICES ASSUME NEW n \in Nodes, NEW i \in DOMAIN chain'[n], NEW b \in Blocks,
                        chain'[n][i] = b
                 PROVE  minedBy'[b] = n \/ \E p \in Miners : stage'[<<n, b, p>>] \in Arrived
      BY DEF HeldMined
    <2>0. chain[n] \in Seq(Ids)
      BY <1>0 DEF TypeOK
    <2>1. CASE i \in DOMAIN chain[n] /\ chain'[n][i] = chain[n][i]
      <3>1. parent[b] \in Ids
        BY <1>0, <2>1, HeadersKept
      <3>2. minedBy'[b] = minedBy[b]
        BY <1>0, <1>1, <3>1 DEF HeadersAgree
      <3>3. CASE minedBy[b] = n
        BY <3>2, <3>3
      <3>4. ASSUME NEW p \in Miners, stage[<<n, b, p>>] \in Arrived
            PROVE  stage'[<<n, b, p>>] \in Arrived
        <4>1. stage[<<n, b, p>>] # "none"
          BY <3>4 DEF Arrived
        <4>2. p \in Miners => ~(job[p] = b /\ phase[p] = "appended")
          BY <1>0, <4>1 DEF JobsFresh
        <4> QED BY <1>0, <3>4, <4>2, NextStageStep, ReceiveMoves DEF HandlerMoves, Arrived
      <3> QED BY <1>0, <2>1, <3>3, <3>4 DEF HeldMined
    <2>2. CASE ~(i \in DOMAIN chain[n] /\ chain'[n][i] = chain[n][i])
      <3>1. PICK c \in Blocks :
               /\ chain'[n] = Append(chain[n], c)
               /\ \/ n \in Miners /\ job[n] = c /\ phase[n] = "committed"
                  \/ \E p \in Miners : stage'[<<n, c, p>>] = "appended"
        BY <1>0, <2>2, NextAppend
      <3>2. b = c
        BY <2>0, <2>2, <3>1, HeldAfter
      <3>3. CASE n \in Miners /\ job[n] = c /\ phase[n] = "committed"
        BY <1>0, <1>1, <3>2, <3>3 DEF JobsFresh
      <3> QED BY <3>1, <3>2, <3>3 DEF Arrived
    <2> QED BY <2>1, <2>2
  <1>4. JobsFresh'
    <2> SUFFICES ASSUME NEW m \in Miners, phase'[m] # "idle"
                 PROVE  /\ minedBy'[job'[m]] = m
                        /\ \A n \in Nodes, p \in Miners : stage'[<<n, job'[m], p>>] = "none"
                        /\ phase'[m] # "appended" => ~Holds(m, job[m])'
      BY DEF JobsFresh
    <2>0. m \in Nodes /\ chain[m] \in Seq(Ids)
      BY <1>0 DEF TypeOK
    <2>1. ASSUME NEW b \in Blocks, StartMining(m, b)
          PROVE  /\ minedBy'[job'[m]] = m
                 /\ \A n \in Nodes, p \in Miners : stage'[<<n, job'[m], p>>] = "none"
                 /\ ~Holds(m, job[m])'
      <3>1. job'[m] = b /\ minedBy'[b] = m
        BY <1>0, <2>1 DEF StartMining, TypeOK
      <3>2. parent[b] \notin Ids /\ chain' = chain /\ stage' = stage
        BY <2>1 DEF StartMining
      <3>3. minedBy[b] \notin Miners
        BY <1>0, <3>2 DEF HeadersAgree
      <3>4. \A n \in Nodes, p \in Miners : stage[<<n, b, p>>] = "none"
        BY <1>0, <3>3 DEF StreamsOfMiner
      <3>5. ~Holds(m, b)
        BY <1>0, <2>0, <3>2, HeadersKept DEF Holds
      <3> QED BY <3>1, <3>2, <3>4, <3>5 DEF Holds
    <2>2. CASE /\ job'[m] = job[m]
               /\ phase'[m] = phase[m] \/ <<phase[m], phase'[m]>> \in MinerMoves
      <3>1. phase[m] # "idle" /\ (phase[m] = "appended" => phase'[m] = "appended")
        BY <2>2 DEF MinerMoves
      <3>2. job[m] \in Blocks
        BY <1>0, <3>1 DEF TypeOK
      <3>3. /\ minedBy[job[m]] = m
            /\ \A n \in Nodes, p \in Miners : stage[<<n, job[m], p>>] = "none"
            /\ phase[m] # "appended" => ~Holds(m, job[m])
        BY <1>0, <3>1 DEF JobsFresh
      <3>4. minedBy'[job[m]] = m
        BY <1>1, <3>2, <3>3
      <3>5. ASSUME NEW n \in Nodes, NEW p \in Miners PROVE stage'[<<n, job[m], p>>] = "none"
        <4> PICK b \in Blocks : b = job[m]
          BY <3>2
        <4>1. \/ stage'[<<n, b, p>>] = stage[<<n, b, p>>]
              \/ Receive(n, b, p)
              \/ p \in Miners /\ job[p] = b /\ phase[p] = "appended" /\ phase'[p] = "idle"
          BY <1>0, NextStageStep
        <4>2. ASSUME Receive(n, b, p) PROVE FALSE
          <5>1. <<stage[<<n, b, p>>], stage'[<<n, b, p>>]>> \in HandlerMoves
            BY <1>0, <4>2, ReceiveMoves
          <5>2. stage[<<n, b, p>>] = "none"
            BY <3>3
          <5> QED BY <5>1, <5>2 DEF HandlerMoves
        <4>3. ASSUME p \in Miners, job[p] = job[m], phase[p] = "appended", phase'[p] = "idle"
              PROVE  FALSE
          <5>1. minedBy[job[p]] = p
            BY <1>0, <4>3 DEF JobsFresh
          <5> QED BY <3>3, <4>3, <5>1
        <4> QED BY <3>3, <4>1, <4>2, <4>3
      <3>6. ASSUME phase'[m] # "appended", NEW i \in DOMAIN chain'[m], chain'[m][i] = job[m]
            PROVE  FALSE
        <4>1. phase[m] # "appended" /\ ~Holds(m, job[m])
          BY <3>1, <3>3, <3>6
        <4>2. CASE chain'[m] = chain[m]
          BY <3>6, <4>1, <4>2 DEF Holds
        <4>3. ASSUME NEW c \in Blocks, chain'[m] = Append(chain[m], c),
                     NEW p \in Miners, stage[<<m, c, p>>] = "marked"
              PROVE  FALSE
          <5>1. c # job[m]
            BY <2>0, <3>3, <4>3
          <5>2. i \in DOMAIN chain[m] /\ chain'[m][i] = chain[m][i]
            BY <2>0, <3>6, <4>3, <5>1, HeldAfter
          <5> QED BY <3>6, <4>1, <5>2 DEF Holds
        <4> QED BY <1>0, <2>0, <3>6, <4>2, <4>3, NextAppend
      <3> QED BY <2>2, <3>4, <3>5, <3>6 DEF Holds
    <2> QED BY <1>0, <2>1, <2>2, NextMinerStep
  <1>5. NoBlockTwice'
    <2> SUFFICES ASSUME NEW n \in Nodes
                 PROVE  \A i, j \in DOMAIN chain'[n] : chain'[n][i] = chain'[n][j] => i = j
      BY DEF NoBlockTwice
    <2>0. chain[n] \in Seq(Ids) /\ \A i, j \in DOMAIN chain[n] : chain[n][i] = chain[n][j] => i = j
      BY <1>0 DEF TypeOK, NoBlockTwice
    <2>1. CASE chain'[n] = chain[n]
      BY <2>0, <2>1
    <2>2. ASSUME NEW b \in Blocks, chain'[n] = Append(chain[n], b), ~Holds(n, b)
          PROVE  \A i, j \in DOMAIN chain'[n] : chain'[n][i] = chain'[n][j] => i = j
      <3>1. b \in Ids
        BY DEF Ids
      <3>2. /\ DOMAIN chain'[n] = 1..(Len(chain[n]) + 1)
            /\ DOMAIN chain[n] = 1..Len(chain[n]) /\ Len(chain[n]) \in Nat
            /\ \A i \in 1..Len(chain[n]) : chain'[n][i] = chain[n][i]
            /\ chain'[n][Len(chain[n]) + 1] = b
        BY <2>0, <2>2, <3>1, AppendFacts
      <3>3. \A i \in DOMAIN chain[n] : chain[n][i] # b
        BY <2>2 DEF Holds
      <3> DEFINE last == Len(chain[n]) + 1
      <3>4. ASSUME NEW i \in DOMAIN chain'[n] PROVE i \in DOMAIN chain[n] \/ i = last
        BY <3>2
      <3>5. last \notin DOMAIN chain[n]
        BY <3>2
      <3>6. chain'[n][last] = b /\ \A i \in DOMAIN chain[n] : chain'[n][i] = chain[n][i]
        BY <3>2
      <3> HIDE DEF last
      <3> QED BY <2>0, <3>3, <3>4, <3>5, <3>6, Zenon
    <2>3. ASSUME NEW b \in Blocks, n \in Miners, job[n] = b, phase[n] = "committed"
          PROVE  ~Holds(n, b)
      BY <1>0, <2>3 DEF JobsFresh
    <2>4. ASSUME NEW b \in Blocks, NEW p \in Miners, stage[<<n, b, p>>] = "marked"
          PROVE  ~Holds(n, b)
      <3>1. n # p /\ minedBy[b] = p
        BY <1>0, <2>4 DEF StreamsOfMiner
      <3>2. ASSUME NEW q \in Miners, stage[<<n, b, q>>] \in Arrived PROVE FALSE
        <4>1. stage[<<n, b, q>>] # "none" /\ stage[<<n, b, q>>] # "marked"
          BY <3>2 DEF Arrived
        <4>2. minedBy[b] = q
          BY <1>0, <4>1 DEF StreamsOfMiner
        <4> QED BY <2>4, <3>1, <4>1, <4>2
      <3> QED BY <1>0, <3>1, <3>2 DEF HeldMined, Holds
    <2> QED BY <1>0, <2>1, <2>2, <2>3, <2>4, NextAppend
  <1> QED BY <1>1, <1>2, <1>3, <1>4, <1>5, <1>b DEF OnceInv

\* A block is at most once in a chain: check and append of handleBlockStream are
\* not atomic, but there is one handler per block and node.
THEOREM BlockNeverTwice == Spec => []NoBlockTwice
  <1>1. OnceInv => NoBlockTwice
    BY DEF OnceInv
  <1>2. OnceInv /\ [Next]_vars => OnceInv'
    BY NextOnce
  <1> QED BY <1>1, <1>2, InitOnce, PTL DEF Spec

-----------------------------------------------------------------------------
(* With one miner, every chain is a prefix of the miner's. *)

OneMiner == \A k, m \in Miners : k = m

\* Where the shared part of a chain begins: after the genesis block of its own.
Offset(n) == IF n = GenesisNode THEN 0 ELSE 1

\* PrefixAgreement, read at the places of bc.Chain.
PrefixAt(n, m) ==
    /\ Len(chain[n]) - Offset(n) <= Len(chain[m]) - Offset(m)
    /\ \A i \in 1..(Len(chain[n]) - Offset(n)) : chain[n][i + Offset(n)] = chain[m][i + Offset(m)]

ChainsStarted == \A n \in Nodes : Len(chain[n]) >= 1 + Offset(n)

\* The miner's chain is linked from each block to the next.
MinerLinked == \A m \in Miners : \A i \in DOMAIN chain[m] :
    chain[m][i] \in Blocks => i > 1 /\ parent[chain[m][i]] = chain[m][i - 1]

\* Nobody appends to the miner's chain while it mines.
JobOnTip == \A m \in Miners :
    /\ phase[m] \in {"validating", "committed"} => parent[job[m]] = Tip(m)
    /\ phase[m] = "appended" => Holds(m, job[m])

\* The miner sends what it has appended.
SentHeld == \A n \in Nodes, b \in Blocks, p \in Miners :
    stage[<<n, b, p>>] # "none" => Holds(p, b)

\* What a handler has validated is still the next block when it appends it,
\* since the miner's chain has one block after each.
HandlerOnTip == \A n \in Nodes, b \in Blocks, p \in Miners :
    stage[<<n, b, p>>] \in {"validated", "unseen", "marked"} => parent[b] = Tip(n)

AgreeInv ==
    /\ OnceInv /\ ChainsStarted /\ MinerLinked /\ JobOnTip /\ SentHeld /\ HandlerOnTip
    /\ \A n \in Nodes, m \in Miners : PrefixAt(n, m)

\* Tail shifts a chain by one.
LEMMA SharedAt ==
    ASSUME TypeOK, ChainsStarted, NEW n \in Nodes
    PROVE  /\ Len(SharedChain(n)) = Len(chain[n]) - Offset(n)
           /\ \A i \in 1..Len(SharedChain(n)) : SharedChain(n)[i] = chain[n][i + Offset(n)]
  <1>1. chain[n] \in Seq(Ids) /\ Len(chain[n]) >= 1 + Offset(n)
    BY DEF TypeOK, ChainsStarted
  <1>2. CASE n = GenesisNode
    BY <1>1, <1>2 DEF SharedChain, Offset
  <1>3. CASE n # GenesisNode
    <2>1. SharedChain(n) = Tail(chain[n]) /\ Offset(n) = 1
      BY <1>3 DEF SharedChain, Offset
    <2>2. Len(Tail(chain[n])) = Len(chain[n]) - 1 /\ chain[n] # <<>>
      BY <1>1, <2>1
    <2>3. \A i \in 1..Len(Tail(chain[n])) : Tail(chain[n])[i] = chain[n][i + 1]
      BY <1>1, <2>1, <2>2
    <2> QED BY <2>1, <2>2, <2>3
  <1> QED BY <1>2, <1>3

\* What the invariant says of lengths and links is agreement of the chains.
LEMMA AgreePrefix == AgreeInv => PrefixAgreement
  <1> SUFFICES ASSUME AgreeInv, NEW m \in Miners, NEW n \in Nodes
               PROVE  /\ Len(SharedChain(n)) <= Len(SharedChain(m))
                      /\ \A i \in 1..Len(SharedChain(n)) : SharedChain(n)[i] = SharedChain(m)[i]
    BY DEF PrefixAgreement
  <1>1. m \in Nodes /\ PrefixAt(n, m) /\ TypeOK /\ ChainsStarted
    BY ConstantsAssumption DEF AgreeInv, OnceInv, LinkInv
  <1>2. /\ Len(SharedChain(n)) = Len(chain[n]) - Offset(n)
        /\ \A i \in 1..Len(SharedChain(n)) : SharedChain(n)[i] = chain[n][i + Offset(n)]
    BY <1>1, SharedAt
  <1>3. /\ Len(SharedChain(m)) = Len(chain[m]) - Offset(m)
        /\ \A i \in 1..Len(SharedChain(m)) : SharedChain(m)[i] = chain[m][i + Offset(m)]
    BY <1>1, SharedAt
  <1>4. /\ Len(chain[n]) \in Nat /\ Len(chain[m]) \in Nat /\ Offset(n) \in Nat /\ Offset(m) \in Nat
        /\ Offset(n) <= Len(chain[n]) /\ Offset(m) <= Len(chain[m])
    BY <1>1 DEF TypeOK, Offset, ChainsStarted
  <1> QED BY <1>1, <1>2, <1>3, <1>4 DEF PrefixAt

\* The miner's chain has one successor of each block.
LEMMA OneSuccessor ==
    ASSUME TypeOK, MinerLinked, NoBlockTwice, NEW m \in Miners, NEW b \in Blocks,
           Holds(m, b), NEW k \in DOMAIN chain[m], chain[m][k] = parent[b]
    PROVE  k + 1 \in DOMAIN chain[m] /\ chain[m][k + 1] = b
  <1>1. PICK i \in DOMAIN chain[m] : chain[m][i] = b
    BY DEF Holds
  <1>2. chain[m] \in Seq(Ids) /\ m \in Nodes
    BY ConstantsAssumption DEF TypeOK
  <1>3. i > 1 /\ chain[m][i - 1] = parent[b]
    BY <1>1 DEF MinerLinked
  <1>4. i \in 1..Len(chain[m]) /\ i - 1 \in DOMAIN chain[m] /\ k \in Nat
    BY <1>1, <1>2, <1>3
  <1>5. k = i - 1
    BY <1>2, <1>3, <1>4 DEF NoBlockTwice
  <1> QED BY <1>1, <1>4, <1>5

\* Only AppendMined brings a miner to "appended".
LEMMA NextAppendMined ==
    ASSUME TypeOK, [Next]_vars, NEW m \in Miners, phase[m] = "committed", phase'[m] = "appended"
    PROVE  AppendMined(m)
  <1>0. phase \in [Miners -> Phases]
    BY DEF TypeOK
  <1>1. CASE UNCHANGED minerVars
    BY <1>1 DEF minerVars
  <1>2. CASE \E k \in Miners : Mine(k)
    BY <1>0, <1>2 DEF Mine, StartMining, Approve, NoApproval, DiscardBlock, CommitPool,
                      AppendMined, BroadcastBlock
  <1>3. UNCHANGED minerVars \/ \E k \in Miners : Mine(k)
    BY DEF Next, vars, Receive, ValidateBlock, RejectBlock,
           CheckTracked, MarkTracked, AddBlockWithoutValidation, ProcessBlockUTXOs
  <1> QED BY <1>1, <1>2, <1>3

\* The chains agree at the start.
LEMMA InitAgree == Init => AgreeInv
  <1> SUFFICES ASSUME Init PROVE AgreeInv
    OBVIOUS
  <1> USE ConstantsAssumption
  <1>1. \A n \in Nodes : /\ n = GenesisNode => chain[n] = <<GenesisNode>>
                         /\ n # GenesisNode => chain[n] = <<n, GenesisNode>>
    BY DEF Init
  <1>3. ASSUME NEW n \in Nodes
        PROVE  Len(chain[n]) = 1 + Offset(n) /\ chain[n][1 + Offset(n)] = GenesisNode
    <2>1. CASE n = GenesisNode
      <3>1. chain[n] = <<GenesisNode>> /\ Offset(n) = 0 /\ 1 + 0 = 1
        BY <1>1, <2>1 DEF Offset
      <3>2. Len(<<GenesisNode>>) = 1 /\ <<GenesisNode>>[1] = GenesisNode
        OBVIOUS
      <3> QED BY <3>1, <3>2
    <2>2. CASE n # GenesisNode
      <3>1. chain[n] = <<n, GenesisNode>> /\ Offset(n) = 1 /\ 1 + 1 = 2
        BY <1>1, <2>2 DEF Offset
      <3>2. Len(<<n, GenesisNode>>) = 2 /\ <<n, GenesisNode>>[2] = GenesisNode
        OBVIOUS
      <3> QED BY <3>1, <3>2
    <2> QED BY <2>1, <2>2
  <1>4. \A n \in Nodes : Offset(n) \in Nat
    BY DEF Offset
  <1>5. ChainsStarted
    BY <1>3, <1>4 DEF ChainsStarted
  <1>6. \A n \in Nodes, m \in Miners : PrefixAt(n, m)
    <2> SUFFICES ASSUME NEW n \in Nodes, NEW m \in Nodes PROVE PrefixAt(n, m)
      OBVIOUS
    <2>1. Len(chain[n]) - Offset(n) = 1 /\ Len(chain[m]) - Offset(m) = 1
      BY <1>3, <1>4
    <2>2. chain[n][1 + Offset(n)] = chain[m][1 + Offset(m)]
      BY <1>3
    <2>3. \A i \in 1..1 : i = 1
      OBVIOUS
    <2> QED BY <2>1, <2>2, <2>3 DEF PrefixAt
  <1>7. MinerLinked
    <2>1. \A n \in Nodes : \A i \in DOMAIN chain[n] : chain[n][i] \in Nodes
      BY <1>1
    <2> QED BY <2>1 DEF MinerLinked
  <1>8. JobOnTip
    BY DEF Init, JobOnTip
  <1>9. SentHeld /\ HandlerOnTip
    BY DEF Init, SentHeld, HandlerOnTip, Streams
  <1> QED BY <1>5, <1>6, <1>7, <1>8, <1>9, InitOnce DEF AgreeInv

\* With one miner, every step keeps the chains in agreement.
LEMMA NextAgree ==
    ASSUME OneMiner, AgreeInv, [Next]_vars
    PROVE  AgreeInv'
  <1> USE ConstantsAssumption
  <1>0. /\ OnceInv /\ LinkInv /\ TypeOK /\ AncestorsHeld /\ StreamsOfMiner /\ NoBlockTwice /\ JobsFresh
        /\ ChainsStarted /\ MinerLinked /\ JobOnTip /\ SentHeld /\ HandlerOnTip
        /\ JobsLinked /\ HandlersLinked
    BY DEF AgreeInv, OnceInv, LinkInv
  <1>a. OnceInv' /\ TypeOK'
    BY <1>0, NextOnce DEF OnceInv, LinkInv
  <1>b. \A n \in Nodes : /\ chain[n] \in Seq(Ids) /\ Len(chain[n]) \in Nat
                         /\ DOMAIN chain[n] = 1..Len(chain[n]) /\ Len(chain[n]) > 0
                         /\ Offset(n) \in {0, 1} /\ Len(chain[n]) >= 1 + Offset(n)
    BY <1>0 DEF TypeOK, ChainsStarted, Offset
  \* What a chain is after the step.
  <1>1. ASSUME NEW n \in Nodes, NEW b \in Blocks, chain'[n] = Append(chain[n], b)
        PROVE  /\ Len(chain'[n]) = Len(chain[n]) + 1
               /\ DOMAIN chain'[n] = 1..(Len(chain[n]) + 1)
               /\ \A i \in 1..Len(chain[n]) : chain'[n][i] = chain[n][i]
               /\ chain'[n][Len(chain[n]) + 1] = b
    <2>1. b \in Ids
      BY DEF Ids
    <2> QED BY <1>1, <1>b, <2>1, AppendFacts
  \* The miner appends its job and nothing else.
  <1>2. ASSUME NEW m \in Miners
        PROVE  \/ chain'[m] = chain[m]
               \/ /\ job[m] \in Blocks /\ chain'[m] = Append(chain[m], job[m])
                  /\ phase[m] = "committed" /\ phase'[m] = "appended"
    <2>1. m \in Nodes
      OBVIOUS
    <2>2. ASSUME NEW c \in Blocks, NEW p \in Miners, stage[<<m, c, p>>] = "marked"
          PROVE  FALSE
      <3>1. p \in Miners /\ m # p
        BY <1>0, <2>1, <2>2 DEF StreamsOfMiner
      <3> QED BY <3>1 DEF OneMiner
    <2> QED BY <1>0, <2>1, <2>2, NextAppend
  <1>3. ChainsStarted'
    <2> SUFFICES ASSUME NEW n \in Nodes PROVE Len(chain'[n]) >= 1 + Offset(n)
      BY DEF ChainsStarted, Offset
    <2>1. chain'[n] = chain[n] \/ \E b \in Blocks : chain'[n] = Append(chain[n], b)
      BY <1>0, NextAppend
    <2> QED BY <1>1, <1>b, <2>1
  <1>4. MinerLinked'
    <2> SUFFICES ASSUME NEW m \in Miners, NEW i \in DOMAIN chain'[m], chain'[m][i] \in Blocks
                 PROVE  i > 1 /\ parent'[chain'[m][i]] = chain'[m][i - 1]
      BY DEF MinerLinked
    <2>0. m \in Nodes
      OBVIOUS
    <2>1. ASSUME i \in DOMAIN chain[m]
          PROVE  i > 1 /\ parent'[chain'[m][i]] = chain'[m][i - 1]
      <3>1. chain'[m][i] = chain[m][i]
        BY <1>0, <2>0, <2>1, ChainGrows
      <3>2. i > 1 /\ parent[chain[m][i]] = chain[m][i - 1]
        BY <1>0, <2>1, <3>1 DEF MinerLinked
      <3>3. i - 1 \in DOMAIN chain[m]
        BY <1>b, <2>0, <2>1, <3>2
      <3>4. chain'[m][i - 1] = chain[m][i - 1]
        BY <1>0, <2>0, <3>3, ChainGrows
      <3>5. parent'[chain[m][i]] = parent[chain[m][i]]
        BY <1>0, <2>0, <2>1, <3>1, HeadersKept
      <3> QED BY <3>1, <3>2, <3>4, <3>5
    <2>2. ASSUME i \notin DOMAIN chain[m]
          PROVE  i > 1 /\ parent'[chain'[m][i]] = chain'[m][i - 1]
      <3>1. /\ job[m] \in Blocks /\ chain'[m] = Append(chain[m], job[m])
            /\ phase[m] = "committed"
        BY <1>2, <2>2
      <3>2. i = Len(chain[m]) + 1 /\ chain'[m][i] = job[m] /\ chain'[m][i - 1] = chain[m][i - 1]
        BY <1>1, <1>b, <2>0, <2>2, <3>1
      <3>3. parent[job[m]] = Tip(m) /\ parent[job[m]] \in Ids
        BY <1>0, <3>1 DEF JobOnTip, JobsLinked, HoldsParent
      <3>4. parent'[job[m]] = parent[job[m]]
        BY <1>0, <3>1, <3>3, HeadersKept
      <3> QED BY <1>b, <2>0, <3>2, <3>3, <3>4 DEF Tip
    <2> QED BY <2>1, <2>2
  <1>5. JobOnTip'
    <2> SUFFICES ASSUME NEW m \in Miners
                 PROVE  /\ phase'[m] \in {"validating", "committed"} => parent'[job'[m]] = Tip(m)'
                        /\ phase'[m] = "appended" => Holds(m, job[m])'
      BY DEF JobOnTip
    <2>0. m \in Nodes
      OBVIOUS
    <2>1. ASSUME NEW b \in Blocks, StartMining(m, b)
          PROVE  phase'[m] = "validating" /\ parent'[job'[m]] = Tip(m)'
      <3>1. phase'[m] = "validating" /\ job'[m] = b /\ parent'[b] = Tip(m) /\ chain' = chain
        BY <1>0, <2>1 DEF StartMining, TypeOK
      <3> QED BY <3>1 DEF Tip
    <2>2. CASE /\ job'[m] = job[m]
               /\ phase'[m] = phase[m] \/ <<phase[m], phase'[m]>> \in MinerMoves
      <3>1. ASSUME phase'[m] \in {"validating", "committed"}
            PROVE  parent'[job'[m]] = Tip(m)'
        <4>1. phase[m] \in {"validating", "committed"}
          BY <2>2, <3>1 DEF MinerMoves
        <4>2. chain'[m] = chain[m]
          BY <1>2, <3>1
        <4>3. job[m] \in Blocks /\ parent[job[m]] = Tip(m) /\ parent[job[m]] \in Ids
          BY <1>0, <4>1 DEF TypeOK, JobOnTip, JobsLinked, HoldsParent
        <4>4. parent'[job[m]] = parent[job[m]]
          BY <1>0, <4>3, HeadersKept
        <4> QED BY <2>2, <4>2, <4>3, <4>4 DEF Tip
      <3>2. ASSUME phase'[m] = "appended"
            PROVE  \E i \in DOMAIN chain'[m] : chain'[m][i] = job'[m]
        <4>1. CASE phase[m] = "appended"
          <5>1. PICK i \in DOMAIN chain[m] : chain[m][i] = job[m]
            BY <1>0, <4>1 DEF JobOnTip, Holds
          <5> QED BY <1>0, <2>0, <2>2, <5>1, ChainGrows
        <4>2. CASE phase[m] # "appended"
          <5>1. phase[m] = "committed"
            BY <2>2, <3>2, <4>2 DEF MinerMoves
          <5>2. job[m] \in Blocks /\ chain'[m] = Append(chain[m], job[m])
            <6>1. AppendMined(m)
              BY <1>0, <3>2, <5>1, NextAppendMined
            <6> QED BY <1>0, <2>0, <6>1 DEF AppendMined, TypeOK
          <5>3. Len(chain[m]) + 1 \in DOMAIN chain'[m] /\ chain'[m][Len(chain[m]) + 1] = job[m]
            BY <1>1, <1>b, <2>0, <5>2
          <5> QED BY <2>2, <5>3
        <4> QED BY <4>1, <4>2
      <3> QED BY <3>1, <3>2 DEF Holds
    <2> QED BY <1>0, <2>1, <2>2, NextMinerStep
  <1>6. SentHeld'
    <2> SUFFICES ASSUME NEW n \in Nodes, NEW b \in Blocks, NEW p \in Miners,
                        stage'[<<n, b, p>>] # "none"
                 PROVE  Holds(p, b)'
      BY DEF SentHeld
    <2>1. \/ stage[<<n, b, p>>] # "none"
          \/ p \in Miners /\ job[p] = b /\ phase[p] = "appended"
      BY <1>0, NextStageStep, ReceiveMoves DEF HandlerMoves
    <2>2. PICK i \in DOMAIN chain[p] : chain[p][i] = b
      BY <1>0, <2>1 DEF SentHeld, JobOnTip, Holds
    <2>3. i \in DOMAIN chain'[p] /\ chain'[p][i] = b
      BY <1>0, <2>2, ChainGrows
    <2> QED BY <2>3 DEF Holds
  \* A stream's block is the successor of the receiver's tip in the miner's chain.
  <1>7. ASSUME NEW n \in Nodes, NEW b \in Blocks, NEW p \in Miners,
               stage[<<n, b, p>>] \in {"validated", "unseen", "marked"}
        PROVE  /\ p \in Miners /\ n # p
               /\ Len(chain[n]) - Offset(n) + 1 + Offset(p) \in DOMAIN chain[p]
               /\ chain[p][Len(chain[n]) - Offset(n) + 1 + Offset(p)] = b
    <2>1. stage[<<n, b, p>>] # "none"
      BY <1>7
    <2>2. p \in Miners /\ n # p /\ Holds(p, b)
      BY <1>0, <2>1 DEF StreamsOfMiner, SentHeld
    <2>3. PrefixAt(n, p)
      BY <2>2 DEF AgreeInv
    <2>4. PICK k \in Nat : k = Len(chain[n]) - Offset(n) /\ k >= 1
      BY <1>b
    <2>5. chain[n][k + Offset(n)] = chain[p][k + Offset(p)] /\ k + Offset(p) \in DOMAIN chain[p]
      <3>1. k \in 1..(Len(chain[n]) - Offset(n)) /\ k <= Len(chain[p]) - Offset(p)
        BY <1>b, <2>3, <2>4 DEF PrefixAt
      <3> QED BY <1>b, <2>3, <3>1 DEF PrefixAt
    <2>6. parent[b] = chain[n][Len(chain[n])]
      BY <1>0, <1>7 DEF HandlerOnTip, Tip
    <2>7. k + Offset(n) = Len(chain[n])
      BY <1>b, <2>4
    <2>8. k + Offset(p) + 1 \in DOMAIN chain[p] /\ chain[p][k + Offset(p) + 1] = b
      BY <1>0, <2>2, <2>5, <2>6, <2>7, OneSuccessor
    <2>9. k + Offset(p) + 1 = Len(chain[n]) - Offset(n) + 1 + Offset(p)
      BY <1>b, <2>4
    <2> QED BY <2>2, <2>8, <2>9
  <1>8. HandlerOnTip'
    <2> SUFFICES ASSUME NEW n \in Nodes, NEW b \in Blocks, NEW p \in Miners,
                        stage'[<<n, b, p>>] \in {"validated", "unseen", "marked"}
                 PROVE  parent'[b] = Tip(n)'
      BY DEF HandlerOnTip
    <2>1. CASE ValidateBlock(n, b, p)
      <3>1. parent[b] = Tip(n) /\ chain' = chain /\ parent' = parent
        BY <2>1 DEF ValidateBlock, ValidOnTip, headerVars
      <3> QED BY <3>1 DEF Tip
    <2>2. CASE stage[<<n, b, p>>] \in {"validated", "unseen", "marked"}
      <3>1. parent[b] = Tip(n) /\ parent[b] \in Ids
        BY <1>0, <2>2 DEF HandlerOnTip, HandlersLinked, HoldsParent
      <3>2. parent'[b] = parent[b]
        BY <1>0, <3>1, HeadersKept
      <3>3. p \in Miners /\ n # p
        BY <1>7, <2>2
      <3>4. ASSUME NEW c \in Blocks, NEW q \in Miners, stage[<<n, c, q>>] = "marked",
                   stage'[<<n, c, q>>] = "appended"
            PROVE  FALSE
        <4>1. q \in Miners
          BY <1>7, <3>4
        <4>2. q = p
          BY <3>3, <4>1 DEF OneMiner
        <4>3. c = b
          BY <1>7, <2>2, <3>4, <4>2
        <4> QED BY <3>4, <4>2, <4>3
      <3>5. chain'[n] = chain[n]
        <4>1. n \notin Miners
          BY <3>3 DEF OneMiner
        <4> QED BY <1>0, <3>4, <4>1, NextAppend
      <3> QED BY <3>1, <3>2, <3>5 DEF Tip
    <2> QED BY <1>0, <2>1, <2>2, NextHandlerStep
  <1>9. ASSUME NEW n \in Nodes, NEW m \in Miners PROVE PrefixAt(n, m)'
    <2>0. m \in Nodes /\ PrefixAt(n, m)
      BY DEF AgreeInv
    <2> SUFFICES /\ Len(chain'[n]) - Offset(n) <= Len(chain'[m]) - Offset(m)
                 /\ \A i \in 1..(Len(chain'[n]) - Offset(n)) :
                        chain'[n][i + Offset(n)] = chain'[m][i + Offset(m)]
      BY DEF PrefixAt, Offset
    <2>1. CASE n = m
      BY <1>b, <2>0, <2>1
    <2>2. CASE n # m
      <3>1. n \notin Miners
        BY <2>2 DEF OneMiner
      <3>2. /\ Len(chain'[m]) >= Len(chain[m]) /\ Len(chain'[m]) \in Nat
            /\ \A i \in 1..Len(chain[m]) : chain'[m][i] = chain[m][i]
        BY <1>1, <1>2, <1>b, <2>0
      <3>3. CASE chain'[n] = chain[n]
        <4>1. Len(chain[n]) - Offset(n) <= Len(chain[m]) - Offset(m)
          BY <2>0 DEF PrefixAt
        <4>2. ASSUME NEW i \in 1..(Len(chain[n]) - Offset(n))
              PROVE  chain[n][i + Offset(n)] = chain'[m][i + Offset(m)]
          <5>1. i + Offset(m) \in 1..Len(chain[m])
            BY <1>b, <2>0, <4>1, <4>2
          <5> QED BY <2>0, <3>2, <4>2, <5>1 DEF PrefixAt
        <4>3. Len(chain[n]) - Offset(n) <= Len(chain'[m]) - Offset(m)
          BY <1>b, <2>0, <3>2, <4>1
        <4> QED BY <3>3, <4>2, <4>3
      <3>4. ASSUME NEW b \in Blocks, chain'[n] = Append(chain[n], b),
                   NEW p \in Miners, stage[<<n, b, p>>] = "marked"
            PROVE  /\ Len(chain'[n]) - Offset(n) <= Len(chain'[m]) - Offset(m)
                   /\ \A i \in 1..(Len(chain'[n]) - Offset(n)) :
                          chain'[n][i + Offset(n)] = chain'[m][i + Offset(m)]
        <4>1. /\ p \in Miners
              /\ Len(chain[n]) - Offset(n) + 1 + Offset(p) \in DOMAIN chain[p]
              /\ chain[p][Len(chain[n]) - Offset(n) + 1 + Offset(p)] = b
          BY <1>7, <3>4
        <4>2. p = m
          BY <4>1 DEF OneMiner
        <4>3. PICK k \in Nat : k = Len(chain[n]) - Offset(n)
          BY <1>b
        <4>4. /\ k + 1 + Offset(m) <= Len(chain[m]) /\ chain[m][k + 1 + Offset(m)] = b
          BY <1>b, <2>0, <4>1, <4>2, <4>3
        <4>5. /\ Len(chain'[n]) - Offset(n) = k + 1
              /\ \A i \in 1..Len(chain[n]) : chain'[n][i] = chain[n][i]
              /\ chain'[n][k + 1 + Offset(n)] = b
          <5>1. Len(chain[n]) = k + Offset(n)
            BY <1>b, <4>3
          <5>2. Len(chain[n]) + 1 = k + 1 + Offset(n)
            BY <1>b, <5>1
          <5> QED BY <1>1, <1>b, <3>4, <5>1, <5>2
        <4>6. k + 1 <= Len(chain'[m]) - Offset(m)
          BY <1>b, <2>0, <3>2, <4>4
        <4>7. ASSUME NEW i \in 1..(k + 1)
              PROVE  chain'[n][i + Offset(n)] = chain'[m][i + Offset(m)]
          <5>0. /\ Offset(n) \in Nat /\ Offset(m) \in Nat
                /\ Len(chain[n]) = k + Offset(n) /\ Len(chain[m]) \in Nat
            BY <1>b, <2>0, <4>3
          <5>1. CASE i = k + 1
            <6>1. k + 1 + Offset(m) \in 1..Len(chain[m])
              BY <4>4, <5>0
            <6> QED BY <3>2, <4>4, <4>5, <5>1, <6>1
          <5>2. CASE i # k + 1
            <6>1. i \in 1..(Len(chain[n]) - Offset(n))
              BY <4>3, <5>2
            <6>2. chain[n][i + Offset(n)] = chain[m][i + Offset(m)]
              BY <2>0, <6>1 DEF PrefixAt
            <6>3. i + Offset(n) \in 1..Len(chain[n]) /\ i + Offset(m) \in 1..Len(chain[m])
              BY <4>4, <5>0, <6>1
            <6> QED BY <3>2, <4>5, <6>2, <6>3
          <5> QED BY <5>1, <5>2
        <4> QED BY <4>5, <4>6, <4>7
      <3>5. \/ chain'[n] = chain[n]
            \/ \E b \in Blocks, p \in Miners :
                 chain'[n] = Append(chain[n], b) /\ stage[<<n, b, p>>] = "marked"
        BY <1>0, <3>1, NextAppend
      <3> QED BY <3>3, <3>4, <3>5
    <2> QED BY <2>1, <2>2
  <1> QED BY <1>3, <1>4, <1>5, <1>6, <1>8, <1>9, <1>a DEF AgreeInv

\* With one miner the nodes agree: whatever is lost, and however the handlers
\* interleave, the chain of every node, without the genesis block of its own, is a
\* prefix of the miner's.
THEOREM ChainsAlwaysAgree ==
    ASSUME OneMiner
    PROVE  Spec => []PrefixAgreement
  <1>1. AgreeInv /\ [Next]_vars => AgreeInv'
    BY NextAgree
  <1> QED BY <1>1, InitAgree, AgreePrefix, PTL DEF Spec
=============================================================================

----------------------------- MODULE StakePool -----------------------------
(***************************************************************************)
(* The stake pools of the network: how a validator registers, how stakes   *)
(* spread from node to node, and how they are changed over RPC.            *)
(*                                                                         *)
(* A pool is filled by AddValidator on the node itself, by one or two      *)
(* calls of StakePool.SyncWithPeer while a node starts, and by stakeTokens *)
(* and unstakeTokens on RPC nodes.  Nothing is persisted.  SyncWithPeer    *)
(* holds sp.mu from before the request until the answer is merged, so      *)
(* "sp.mu is free" is sync[n] = "none" below; every other operation holds  *)
(* the lock for one step.                                                  *)
(*                                                                         *)
(* The wallet of a validator is named after its node.  createHost makes a  *)
(* new libp2p identity at every start, so the host ID of a wallet is the   *)
(* number of the start it belongs to; 0 is the empty string.               *)
(***************************************************************************)
EXTENDS Integers, FiniteSets

CONSTANTS
    Nodes,          \* every process with a stake pool
    Validators,     \* those that run as validators
    GenesisNode,    \* the validator that found no peer when it started
    RpcNodes,       \* those that serve stakeTokens and unstakeTokens
    Stake,          \* config.ValidatorStake, in whole tokens
    RpcAmounts,     \* what uint64() leaves of the positive float64 amounts that RPC
                    \* clients stake and unstake: 0 of an amount below 1
    Unit,           \* unstakeTokens counts a stake in units of this, 100000000 in the code
    MaxStarts,      \* bound: how often a process is started
    MaxStaked       \* bound: what one wallet stakes over RPC

ASSUME StakeAssumption ==
    /\ Validators \subseteq Nodes
    /\ RpcNodes \subseteq Nodes \ Validators
    /\ GenesisNode \in Validators
    /\ Stake \in Nat \ {0}
    /\ RpcAmounts \subseteq Nat
    /\ Unit \in Nat \ {0}
    /\ MaxStarts \in Nat /\ MaxStaked \in Nat

Wallets == Validators

VARIABLES
    pool,           \* sp.Stakes of each node
    toHost,         \* sp.WalletToHost of each node
    starts,         \* how often each process was started
    phase,          \* how far its start-up is
    sync,           \* how far its SyncWithPeer is
    partner,        \* the peer of that call
    answer,         \* what the peer has sent
    untold,         \* peers BroadcastNewValidator has still to tell
    stream,         \* its open stream: "none", "open" or "dead"
    told,           \* the peer at the other end
    unstaking,      \* unstakeTokens calls between their check and RemoveStake
    staked          \* history: everything ever staked for a wallet

pools == <<pool, toHost>>
syncing == <<sync, partner, answer>>
telling == <<untold, stream, told>>
vars == <<pools, starts, phase, syncing, telling, unstaking, staked>>

\* sp.Stakes: its keys, and Amount and HostID of each entry.
Pool == [known : SUBSET Wallets, amount : [Wallets -> Nat], host : [Wallets -> Nat]]
EmptyPool == [known |-> {}, amount |-> [w \in Wallets |-> 0], host |-> [w \in Wallets |-> 0]]

Phases == {"start", "ready", "broadcast", "announced", "running"}

TypeOK ==
    /\ pool \in [Nodes -> Pool]
    /\ toHost \in [Nodes -> [Wallets -> Nat]]
    /\ starts \in [Nodes -> Nat]
    /\ phase \in [Nodes -> Phases]
    /\ sync \in [Nodes -> {"none", "sent", "admitted", "answered", "dead"}]
    /\ partner \in [Nodes -> Nodes]
    /\ answer \in [Nodes -> Pool]
    /\ untold \in [Nodes -> SUBSET Nodes]
    /\ stream \in [Nodes -> {"none", "open", "dead"}]
    /\ told \in [Nodes -> Nodes]
    /\ unstaking \in [Nodes -> SUBSET (Wallets \X RpcAmounts)]
    /\ staked \in [Wallets -> Nat]

Unlocked(n) == sync[n] = "none"

-----------------------------------------------------------------------------
(* The operations of one pool. *)

\* Pool p with this entry for wallet w, and without an entry for it.
Entry(p, w, amount, host) ==
    [known  |-> p.known \cup {w},
     amount |-> [p.amount EXCEPT ![w] = amount],
     host   |-> [p.host EXCEPT ![w] = host]]
NoEntry(p, w) ==
    [known  |-> p.known \ {w},
     amount |-> [p.amount EXCEPT ![w] = 0],
     host   |-> [p.host EXCEPT ![w] = 0]]

\* AddValidator: a new entry, or the stake added to the old one; either way with
\* this host, in StakeInfo.HostID as well as in WalletToHost.
AddValidator(n, w, amount, host) ==
    /\ Unlocked(n)
    /\ pool' = [pool EXCEPT ![n] = Entry(@, w, @.amount[w] + amount, host)]
    /\ toHost' = [toHost EXCEPT ![n][w] = host]

\* AddStake: as above, but HostID stays what it is, "" in a new entry.
AddStake(n, w, amount, host) ==
    /\ Unlocked(n)
    /\ pool' = [pool EXCEPT ![n] = Entry(@, w, @.amount[w] + amount, @.host[w])]
    /\ toHost' = [toHost EXCEPT ![n][w] = host]

\* Mutant of RemoveStake: the check made by unstakeTokens is relied upon.
RemoveStakeUnchecked(n, w, amount) ==
    /\ Unlocked(n)
    /\ pool' = [pool EXCEPT ![n] = Entry(@, w, @.amount[w] - amount, @.host[w])]
    /\ UNCHANGED toHost

\* RemoveStake: an entry that reaches 0 is deleted with its host.
RemoveStake(n, w, amount) ==
    /\ Unlocked(n)
    /\ w \in pool[n].known
    /\ amount <= pool[n].amount[w]
    /\ IF amount = pool[n].amount[w]
       THEN /\ pool' = [pool EXCEPT ![n] = NoEntry(@, w)]
            /\ toHost' = [toHost EXCEPT ![n][w] = 0]
       ELSE /\ pool' = [pool EXCEPT ![n] = Entry(@, w, @.amount[w] - amount, @.host[w])]
            /\ UNCHANGED toHost

\* Mutant of Taken: the peer's entry always wins.
TakenAlways(mine, theirs) == theirs.known

\* Wallets whose entry SyncWithPeer takes over from the peer: those it does not
\* have, and those for which the peer has a higher stake.
Taken(mine, theirs) ==
    {w \in theirs.known : w \in mine.known => theirs.amount[w] > mine.amount[w]}

\* Mutant of Merged: stakes are added up, as UpdateValidators does.
MergedByAdding(mine, theirs) ==
    [known  |-> mine.known \cup theirs.known,
     amount |-> [w \in Wallets |-> mine.amount[w] + theirs.amount[w]],
     host   |-> [w \in Wallets |-> IF w \in Taken(mine, theirs) THEN theirs.host[w] ELSE mine.host[w]]]

\* The pool after the loop of SyncWithPeer.
Merged(mine, theirs) ==
    LET taken == Taken(mine, theirs) IN
    [known  |-> mine.known \cup taken,
     amount |-> [w \in Wallets |-> IF w \in taken THEN theirs.amount[w] ELSE mine.amount[w]],
     host   |-> [w \in Wallets |-> IF w \in taken THEN theirs.host[w] ELSE mine.host[w]]]

\* Mutant of MergedHosts: the entries are merged, the host mapping is forgotten.
MergedHostsKept(mine, theirs, hosts) == hosts

\* The same loop, for WalletToHost.
MergedHosts(mine, theirs, hosts) ==
    [w \in Wallets |-> IF w \in Taken(mine, theirs) THEN theirs.host[w] ELSE hosts[w]]

\* GetValidators(count): up to count entries with the highest stakes; sort.Slice
\* leaves the order of equal stakes open.
GetValidators(n, count) ==
    {chosen \in SUBSET pool[n].known :
        /\ \/ chosen = pool[n].known /\ Cardinality(chosen) <= count
           \/ Cardinality(chosen) = count
        /\ \A w \in chosen, v \in pool[n].known \ chosen : pool[n].amount[w] >= pool[n].amount[v]}

-----------------------------------------------------------------------------
\* The genesis validator has registered with its own pool, the others start.
Init ==
    /\ pool = [n \in Nodes |->
                 IF n = GenesisNode
                 THEN [known  |-> {n},
                       amount |-> [w \in Wallets |-> IF w = n THEN Stake ELSE 0],
                       host   |-> [w \in Wallets |-> IF w = n THEN 1 ELSE 0]]
                 ELSE EmptyPool]
    /\ toHost = [n \in Nodes |-> [w \in Wallets |-> IF n = GenesisNode /\ w = n THEN 1 ELSE 0]]
    /\ starts = [n \in Nodes |-> 1]
    /\ phase = [n \in Nodes |-> IF n = GenesisNode THEN "running" ELSE "start"]
    /\ sync = [n \in Nodes |-> "none"]
    /\ partner = [n \in Nodes |-> n]
    /\ answer = [n \in Nodes |-> EmptyPool]
    /\ untold = [n \in Nodes |-> {}]
    /\ stream = [n \in Nodes |-> "none"]
    /\ told = [n \in Nodes |-> n]
    /\ unstaking = [n \in Nodes |-> {}]
    /\ staked = [w \in Wallets |-> IF w = GenesisNode THEN Stake ELSE 0]

-----------------------------------------------------------------------------
(* StakePool.SyncWithPeer on one node, handleStakeSync on the other. *)

AfterSync(n) == IF phase[n] = "start" THEN "ready" ELSE "running"

\* sp.mu is taken, the stream opened and the request sent.
StartSync(n, p) ==
    /\ phase[n] \in {"start", "announced"}
    /\ Unlocked(n)
    /\ p # n
    /\ sync' = [sync EXCEPT ![n] = "sent"]
    /\ partner' = [partner EXCEPT ![n] = p]
    /\ UNCHANGED <<pools, starts, phase, answer, telling, unstaking, staked>>

\* handleStakeSync gets the peer's sp.mu, takes a reference to the map and
\* releases the lock ...
Admit(n) ==
    /\ sync[n] = "sent"
    /\ Unlocked(partner[n])
    /\ sync' = [sync EXCEPT ![n] = "admitted"]
    /\ UNCHANGED <<pools, starts, phase, partner, answer, telling, unstaking, staked>>

\* ... and encodes the map as it is by then, even while the peer is merging.
Encode(n) ==
    /\ sync[n] = "admitted"
    /\ answer' = [answer EXCEPT ![n] = pool[partner[n]]]
    /\ sync' = [sync EXCEPT ![n] = "answered"]
    /\ UNCHANGED <<pools, starts, phase, partner, telling, unstaking, staked>>

\* The answer is merged entry by entry and sp.mu released.
Merge(n) ==
    /\ sync[n] = "answered"
    /\ pool' = [pool EXCEPT ![n] = Merged(@, answer[n])]
    /\ toHost' = [toHost EXCEPT ![n] = MergedHosts(pool[n], answer[n], @)]
    /\ sync' = [sync EXCEPT ![n] = "none"]
    /\ answer' = [answer EXCEPT ![n] = EmptyPool]
    /\ phase' = [phase EXCEPT ![n] = AfterSync(n)]
    /\ UNCHANGED <<starts, partner, telling, unstaking, staked>>

\* Mutant of SyncFails: without the deadlines only a dead stream ends the call.
SyncFailsOnReset(n) ==
    /\ sync[n] = "dead"
    /\ sync' = [sync EXCEPT ![n] = "none"]
    /\ answer' = [answer EXCEPT ![n] = EmptyPool]
    /\ phase' = [phase EXCEPT ![n] = AfterSync(n)]
    /\ UNCHANGED <<pools, starts, partner, telling, unstaking, staked>>

\* An error, or the 30 s deadline of the context and of the stream: the deferred
\* Unlock runs, a late answer finds the stream closed, and start-up goes on.
SyncFails(n) ==
    /\ sync[n] # "none"
    /\ sync' = [sync EXCEPT ![n] = "none"]
    /\ answer' = [answer EXCEPT ![n] = EmptyPool]
    /\ phase' = [phase EXCEPT ![n] = AfterSync(n)]
    /\ UNCHANGED <<pools, starts, partner, telling, unstaking, staked>>

-----------------------------------------------------------------------------
(* Registration: runValidatorNode and BroadcastNewValidator. *)

\* The stake transaction is confirmed and the node registers itself.
Register(n) ==
    /\ n \in Validators
    /\ phase[n] = "ready"
    /\ AddValidator(n, n, Stake, starts[n])
    /\ staked' = [staked EXCEPT ![n] = @ + Stake]
    /\ phase' = [phase EXCEPT ![n] = "broadcast"]
    /\ untold' = [untold EXCEPT ![n] = Nodes \ {n}]
    /\ UNCHANGED <<starts, syncing, stream, told, unstaking>>

\* NewStream or Write fails: on to the next peer.
TellFails(n, p) ==
    /\ phase[n] = "broadcast"
    /\ stream[n] = "none"
    /\ p \in untold[n]
    /\ untold' = [untold EXCEPT ![n] = @ \ {p}]
    /\ UNCHANGED <<pools, starts, phase, syncing, stream, told, unstaking, staked>>

\* The data is written, and both ends wait: the sender in Read for two bytes of
\* answer, the handler in io.ReadAll for the end of the data.
Tell(n, p) ==
    /\ phase[n] = "broadcast"
    /\ stream[n] = "none"
    /\ p \in untold[n]
    /\ stream' = [stream EXCEPT ![n] = "open"]
    /\ told' = [told EXCEPT ![n] = p]
    /\ untold' = [untold EXCEPT ![n] = @ \ {p}]
    /\ UNCHANGED <<pools, starts, phase, syncing, unstaking, staked>>

\* The connection breaks.
Disconnect(n) ==
    /\ stream[n] = "open"
    /\ stream' = [stream EXCEPT ![n] = "dead"]
    /\ UNCHANGED <<pools, starts, phase, syncing, untold, told, unstaking, staked>>

\* Read and io.ReadAll return an error: the handler gives up before AddValidator,
\* the sender closes the stream and goes on.  This is the only way out of Tell:
\* the sender closes its side of the stream only after Read has returned.
TellEnds(n) ==
    /\ stream[n] = "dead"
    /\ stream' = [stream EXCEPT ![n] = "none"]
    /\ UNCHANGED <<pools, starts, phase, syncing, untold, told, unstaking, staked>>

BroadcastDone(n) ==
    /\ phase[n] = "broadcast"
    /\ stream[n] = "none"
    /\ untold[n] = {}
    /\ phase' = [phase EXCEPT ![n] = "announced"]
    /\ UNCHANGED <<pools, starts, syncing, telling, unstaking, staked>>

-----------------------------------------------------------------------------
(* RPC, and restarts. *)

\* stakeTokens: AddStake with an empty host ID.
StakeTokens(n, w, amount) ==
    /\ n \in RpcNodes
    /\ phase[n] = "ready"
    /\ staked[w] + amount <= MaxStaked
    /\ AddStake(n, w, amount, 0)
    /\ staked' = [staked EXCEPT ![w] = @ + amount]
    /\ UNCHANGED <<starts, phase, syncing, telling, unstaking>>

\* unstakeTokens reads the entry without the lock, in units; the fraction that
\* RemoveStake cuts off still counts here, so the code may refuse a little more ...
CheckUnstake(n, w, amount) ==
    /\ n \in RpcNodes
    /\ phase[n] = "ready"
    /\ w \in pool[n].known
    /\ pool[n].amount[w] > 0 /\ amount * Unit <= pool[n].amount[w]
    /\ unstaking' = [unstaking EXCEPT ![n] = @ \cup {<<w, amount>>}]
    /\ UNCHANGED <<pools, starts, phase, syncing, telling, staked>>

\* ... and, when the transaction is sent, calls RemoveStake, ...
UnstakeTokens(n, w, amount) ==
    /\ <<w, amount>> \in unstaking[n]
    /\ RemoveStake(n, w, amount)
    /\ unstaking' = [unstaking EXCEPT ![n] = @ \ {<<w, amount>>}]
    /\ UNCHANGED <<starts, phase, syncing, telling, staked>>

\* ... which may find less than the check did: "not enough stake to remove".
UnstakeFails(n, w, amount) ==
    /\ <<w, amount>> \in unstaking[n]
    /\ ~(w \in pool[n].known /\ amount <= pool[n].amount[w])
    /\ unstaking' = [unstaking EXCEPT ![n] = @ \ {<<w, amount>>}]
    /\ UNCHANGED <<pools, starts, phase, syncing, telling, staked>>

\* The process ends and is started again: everything is lost, and the streams
\* that other nodes have to it are dead.
Restart(n) ==
    /\ starts[n] < MaxStarts
    /\ starts' = [starts EXCEPT ![n] = @ + 1]
    /\ pool' = [pool EXCEPT ![n] = EmptyPool]
    /\ toHost' = [toHost EXCEPT ![n] = [w \in Wallets |-> 0]]
    /\ phase' = [phase EXCEPT ![n] = "start"]
    /\ sync' = [m \in Nodes |->
                  IF m = n THEN "none"
                  ELSE IF sync[m] \in {"sent", "admitted"} /\ partner[m] = n THEN "dead"
                  ELSE sync[m]]
    /\ answer' = [answer EXCEPT ![n] = EmptyPool]
    /\ untold' = [untold EXCEPT ![n] = {}]
    /\ stream' = [m \in Nodes |->
                    IF m = n THEN "none"
                    ELSE IF stream[m] = "open" /\ told[m] = n THEN "dead"
                    ELSE stream[m]]
    /\ unstaking' = [unstaking EXCEPT ![n] = {}]
    /\ UNCHANGED <<partner, told, staked>>

\* What the goroutines of node n do by themselves.
Run(n) ==
    \/ Merge(n)
    \/ \E p \in Nodes : TellFails(n, p) \/ Tell(n, p)
    \/ TellEnds(n)
    \/ BroadcastDone(n)

Rpc(n) ==
    \E w \in Wallets, amount \in RpcAmounts :
        \/ StakeTokens(n, w, amount)
        \/ CheckUnstake(n, w, amount)
        \/ UnstakeTokens(n, w, amount)
        \/ UnstakeFails(n, w, amount)

Next ==
    \E n \in Nodes :
        \/ Run(n)
        \/ \E p \in Nodes : StartSync(n, p)
        \/ Admit(n)
        \/ Encode(n)
        \/ SyncFails(n)
        \/ Register(n)
        \/ Disconnect(n)
        \/ Rpc(n)
        \/ Restart(n)

Spec == Init /\ [][Next]_vars

\* Goroutines that can go on do so, handlers answer, and deadlines expire.
\* No restart, disconnection, registration or RPC call has to happen.
Fairness ==
    \A n \in Nodes :
        /\ WF_vars(Run(n))
        /\ WF_vars(Admit(n))
        /\ WF_vars(Encode(n))
        /\ WF_vars(SyncFails(n))

FairSpec == Spec /\ Fairness

-----------------------------------------------------------------------------
(* Properties *)

\* However often SyncWithPeer passes an entry around, also through nodes that
\* restart in between, no pool counts more for a wallet than was staked for it.
NoInflation ==
    \A n \in Nodes, w \in Wallets : pool[n].amount[w] <= staked[w]

\* StakeInfo.HostID and WalletToHost, which GetValidators and SyncWithPeer use
\* for the same purpose, agree where stakeTokens is not served.
HostsAgree ==
    \A n \in Nodes, w \in Wallets : w \in pool[n].known => toHost[n][w] = pool[n].host[w]

\* A merge never takes stake away: without unstakeTokens only a restart of the
\* node lowers what its pool counts for a wallet.
StakeKept ==
    [][\A n \in Nodes, w \in Wallets :
          starts'[n] = starts[n] => pool'[n].amount[w] >= pool[n].amount[w]]_vars

\* Two nodes that sync with each other wait for each other's sp.mu; the deadline
\* frees both, so no SyncWithPeer keeps the pool locked for ever.
SyncEnds == \A n \in Nodes : sync[n] = "sent" ~> sync[n] = "none"

\* A miner that asks GetValidators for three validators has a host ID for each,
\* whoever passed their entries on, where stakeTokens is not served.
ValidatorsReachable ==
    \A n \in Nodes : \A chosen \in GetValidators(n, 3) : \A w \in chosen : toHost[n][w] # 0
=============================================================================

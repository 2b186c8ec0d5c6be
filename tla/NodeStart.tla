----------------------------- MODULE NodeStart -----------------------------
(***************************************************************************)
(* One node, a miner, a validator, the TXNS node or an RPC node, from its  *)
(* start: it connects to the boot nodes, looks for a peer to synchronise   *)
(* with, runs or gives up, and then keeps its connections.                 *)
(*                                                                         *)
(* The boot nodes and the other nodes run, stop and start again around it. *)
(* NewStream and Connect reach a host that runs, or fail all the same; the *)
(* DHT of libp2p links the node with any host, once it has a peer to learn *)
(* of it from.  ConnectToBootstrapNodes tries each boot node five times:   *)
(* here that is one step for each boot node.                               *)
(*                                                                         *)
(* The ID that main.go skips as the TXNS node, TXNSNodeID, is not the one  *)
(* that p2p.go knows it by.                                                *)
(***************************************************************************)
EXTENDS Integers, FiniteSets

CONSTANTS
    Boots,      \* config.BootstrapNodes
    Others,     \* the other nodes
    TXNSNodeID, \* the one that main.go names as the TXNS node
    TxnsPeer,   \* the one that IsPeerTXNSNode names
    FileBoot,   \* the boot node that bootnode.addr names
    Retries,    \* maxRetries of the four start functions, 5 in the code
    Rounds,     \* rounds of discovery, 4 or 3 in the code
    NoPeer

ASSUME NodeStartAssumption ==
    /\ FileBoot \in Boots /\ {TXNSNodeID, TxnsPeer} \subseteq Others /\ TXNSNodeID # TxnsPeer
    /\ Boots \cap Others = {} /\ NoPeer \notin Boots \cup Others
    /\ {Retries, Rounds} \subseteq Nat \ {0}

Hosts == Boots \cup Others

VARIABLES
    up,         \* the other hosts that run
    role, pc,
    tries,      \* the loop counter of the start function
    todo,       \* boot nodes that this call of ConnectToBootstrapNodes has not tried
    peers,      \* Host.Network().Peers()
    known,      \* bootstrapNodes
    missed,     \* history: boot nodes that the starting node could not reach
    looking,    \* the discoverPeers goroutine has not run
    entry,      \* PeerManager.peers
    heard,      \* a block arrived before the validator decided
    source,     \* the peer that the node synchronises with, or waits for
    telling     \* peers that BroadcastNewValidator has not come to

startVars ==
    <<up, role, pc, tries, todo, peers, known, missed, looking, entry, heard, source, telling>>

StartTypeOK ==
    /\ up \subseteq Hosts /\ role \in {"miner", "validator", "txns", "rpc"}
    /\ pc \in {"off", "bootstrap", "discover", "decide", "sync", "stake", "confirm", "sign",
               "approve", "pending", "announce", "running", "ended"}
    /\ tries \in 0..(Retries + Rounds) /\ todo \subseteq Boots
    /\ peers \subseteq up /\ known \subseteq Boots /\ missed \subseteq Boots
    /\ {looking, heard} \subseteq BOOLEAN
    /\ entry \in [Others -> {"none", "connected", "lost"}]
    /\ source \in Hosts \cup {NoPeer} /\ telling \subseteq Others

\* bootnode.addr is there once its boot node has run.
StartInit ==
    /\ up \in SUBSET Hosts /\ role \in {"miner", "validator", "txns", "rpc"}
    /\ pc = "off" /\ tries = 0 /\ todo = {}
    /\ peers = {} /\ known = {} /\ missed = {}
    /\ looking = FALSE /\ entry = [p \in Others |-> "none"]
    /\ heard = FALSE /\ source = NoPeer /\ telling = {}

\* The process of the node ends with an error, and what it kept is gone.
Exit ==
    /\ pc' = "ended" /\ tries' = 0 /\ todo' = {}
    /\ peers' = {} /\ known' = {} /\ missed' = {}
    /\ looking' = FALSE /\ entry' = [p \in Others |-> "none"]
    /\ heard' = FALSE /\ source' = NoPeer /\ telling' = {}
    /\ UNCHANGED <<up, role>>

\* The start function is through, and its local variables are not used again.
Run == pc' = "running" /\ tries' = 0 /\ source' = NoPeer /\ missed' = {}

\* IsPeerBootstrapNode, with the boot nodes k that the node has connected to.
IsPeerBootstrapNode(k, p) == p \in k \/ p = FileBoot

IsPeerTXNSNode(p) == p = TxnsPeer

\* The peers among P that countNonBootnodePeers counts.
NonBoot(P, k) == {p \in P : ~IsPeerBootstrapNode(k, p)}

-----------------------------------------------------------------------------
(* The world around. *)

HostUp(h) ==
    /\ h \notin up /\ up' = up \cup {h}
    /\ UNCHANGED <<role, pc, tries, todo, peers, known, missed, looking, entry, heard, source, telling>>

\* The connection to a host breaks, and BroadcastNewValidator no longer waits for
\* its answer.
WaitEnds(h) == source' = IF pc = "announce" /\ source = h THEN NoPeer ELSE source

HostDown(h) ==
    /\ h \in up /\ up' = up \ {h} /\ peers' = peers \ {h} /\ WaitEnds(h)
    /\ UNCHANGED <<role, pc, tries, todo, known, missed, looking, entry, heard, telling>>

\* The DHT, of this node or of the other, dials.
LinkUp(h) ==
    /\ h \in up \ peers /\ peers # {}
    /\ peers' = peers \cup {h}
    /\ UNCHANGED <<up, role, pc, tries, todo, known, missed, looking, entry, heard, source, telling>>

LinkDown(h) ==
    /\ h \in peers /\ peers' = peers \ {h} /\ WaitEnds(h)
    /\ UNCHANGED <<up, role, pc, tries, todo, known, missed, looking, entry, heard, telling>>

\* A block arrives at a validator that has not decided whether to found a chain.
ReceiveBlock ==
    /\ role = "validator" /\ pc \in {"discover", "decide"}
    /\ peers \cap Others # {} /\ ~heard
    /\ heard' = TRUE
    /\ UNCHANGED <<up, role, pc, tries, todo, peers, known, missed, looking, entry, source, telling>>

-----------------------------------------------------------------------------
(* Starting, and the boot nodes. *)

\* NewNode: no peers, no boot nodes noted, an empty PeerManager.  Its keep-alive,
\* maintenance and heartbeat goroutines run from here on.
NewNode == peers' = {} /\ known' = {} /\ entry' = [p \in Others |-> "none"]

\* The same with the identity of a key file, so that the ID outlives the process.
NewNodeWithPrivKey == peers' = {} /\ known' = {} /\ entry' = [p \in Others |-> "none"]

\* Node.Start, and the call of ConnectToBootstrapNodes that follows.
StartNode ==
    /\ pc = "off"
    /\ pc' = "bootstrap" /\ todo' = Boots /\ looking' = TRUE
    /\ UNCHANGED <<up, role, tries, missed, heard, source, telling>>

\* Only the validator starts a ValidatorProtocol; the rest is wallets and keys.
runMinerNode == role = "miner" /\ StartNode /\ NewNode
runValidatorNode == role = "validator" /\ StartNode /\ NewNode
runTXNS == role = "txns" /\ StartNode /\ NewNodeWithPrivKey
runRPCNode == role = "rpc" /\ StartNode /\ NewNodeWithPrivKey

\* The key file cannot be read, decoded or written.
loadOrCreateTXNSKeyFails == role = "txns" /\ pc = "off" /\ Exit
loadOrCreateRPCNodeKeyFails == role = "rpc" /\ pc = "off" /\ Exit

\* The role is started; an error of its start function ends the process.
main ==
    \/ runMinerNode \/ runValidatorNode \/ runTXNS \/ runRPCNode
    \/ loadOrCreateTXNSKeyFails \/ loadOrCreateRPCNodeKeyFails

\* Mutant of ConnectToBootstrapNode: one that is connected already is not noted.
ConnectNewBootstrapNode(b) ==
    /\ pc = "bootstrap" /\ b \in todo /\ b \in up
    /\ todo' = todo \ {b} /\ peers' = peers \cup {b}
    /\ known' = IF b \in peers THEN known ELSE known \cup {b}
    /\ UNCHANGED <<up, role, pc, tries, missed, looking, entry, heard, source, telling>>

\* ConnectToBootstrapNodes at one boot node, connected already or now.
ConnectToBootstrapNode(b) ==
    /\ pc = "bootstrap" /\ b \in todo /\ b \in up
    /\ todo' = todo \ {b} /\ peers' = peers \cup {b} /\ known' = known \cup {b}
    /\ UNCHANGED <<up, role, pc, tries, missed, looking, entry, heard, source, telling>>

\* Five tries at one boot node fail.
BootstrapNodeFails(b) ==
    /\ pc = "bootstrap" /\ b \in todo /\ b \notin peers
    /\ todo' = todo \ {b} /\ missed' = missed \cup {b}
    /\ UNCHANGED <<up, role, pc, tries, peers, known, looking, entry, heard, source, telling>>

\* Mutant of BootstrapRetry: the retries are not counted.
BootstrapRetryUncounted ==
    /\ pc = "bootstrap" /\ todo = {} /\ known = {}
    /\ todo' = Boots
    /\ UNCHANGED <<up, role, pc, tries, peers, known, missed, looking, entry, heard, source, telling>>

\* The call found no boot node and is tried again.
BootstrapRetry ==
    /\ pc = "bootstrap" /\ todo = {} /\ known = {} /\ tries + 1 < Retries
    /\ todo' = Boots /\ tries' = tries + 1
    /\ UNCHANGED <<up, role, pc, peers, known, missed, looking, entry, heard, source, telling>>

\* It failed for the last time.
BootstrapFails ==
    /\ pc = "bootstrap" /\ todo = {} /\ known = {} /\ tries + 1 = Retries
    /\ Exit

Bootstrapped ==
    /\ pc = "bootstrap" /\ todo = {} /\ known # {}
    /\ pc' = "discover" /\ tries' = 0
    /\ UNCHANGED <<up, role, todo, peers, known, missed, looking, entry, heard, source, telling>>

\* AddPeer leaves an entry that is there as it is, one that was removed too.
AddPeer(p) == IF entry[p] = "none" THEN "connected" ELSE entry[p]

\* findPeersWithRendezvous: of the nodes that advertise, those that run and are
\* not connected; boot nodes do not advertise.
findPeersWithRendezvous == (Others \cap up) \ peers

\* The discoverPeers goroutine runs once.  It stops if there is a node among the
\* peers, or no peer at all to advertise to; else it connects to some of the
\* nodes that it finds.
discoverPeers ==
    /\ looking /\ looking' = FALSE
    /\ IF NonBoot(peers, known) # {} \/ peers = {} THEN UNCHANGED <<peers, entry>>
       ELSE \E S \in SUBSET findPeersWithRendezvous :
              /\ peers' = peers \cup S
              /\ entry' = [p \in Others |-> IF p \in S THEN AddPeer(p) ELSE entry[p]]
    /\ UNCHANGED <<up, role, pc, tries, todo, known, missed, heard, source, telling>>

-----------------------------------------------------------------------------
(* Looking for a peer.  Every round calls DiscoverPeers, which connects to    *)
(* the boot nodes of S again when no peer is left.                            *)

DiscoverPeers(S) ==
    /\ pc = "discover"
    /\ S \subseteq Boots \cap up /\ (peers # {} => S = {})
    /\ peers' = peers \cup S /\ known' = known \cup S
    /\ missed' = IF peers = {} THEN missed \cup (Boots \ S) ELSE missed

\* Peers that a miner takes for a validator.
Candidates == NonBoot(peers', known') \ {TXNSNodeID}

\* A round of runMinerNode: any peer but boot nodes and the one that main.go names
\* is taken for a validator.
MinerRound(S) ==
    /\ role = "miner" /\ DiscoverPeers(S)
    /\ \/ /\ source' \in Candidates /\ pc' = "sync" /\ tries' = 0
       \/ /\ Candidates = {} /\ tries + 1 < Rounds
          /\ tries' = tries + 1 /\ UNCHANGED <<pc, source>>
    /\ UNCHANGED <<up, role, todo, looking, entry, heard, telling>>

\* Without one in the last round the miner ends.
NoValidatorFound ==
    /\ role = "miner" /\ pc = "discover" /\ tries + 1 = Rounds
    /\ NonBoot(peers, known) \ {TXNSNodeID} = {}
    /\ Exit

\* A round of the others, until they have enough peers.
Round(S, enough) ==
    /\ DiscoverPeers(S)
    /\ IF enough \/ tries + 1 = Rounds
       THEN pc' = "decide" /\ tries' = 0
       ELSE tries' = tries + 1 /\ UNCHANGED pc
    /\ UNCHANGED <<up, role, todo, looking, entry, heard, source, telling>>

\* A validator waits for another node, the TXNS node and an RPC node for two
\* peers of any kind.
ValidatorRound(S) == role = "validator" /\ Round(S, NonBoot(peers', known') # {})
TxnsRound(S) == role = "txns" /\ Round(S, Cardinality(peers') > 1)
RpcRound(S) == role = "rpc" /\ Round(S, Cardinality(peers') > 1)

\* No block and no other node: the validator makes a genesis block and runs.
FoundChain ==
    /\ role = "validator" /\ pc = "decide"
    /\ ~heard /\ NonBoot(peers, known) = {}
    /\ Run
    /\ UNCHANGED <<up, role, todo, peers, known, looking, entry, heard, telling>>

\* Else it synchronises with any peer, a boot node too, whatever comes of it.
JoinChain ==
    /\ role = "validator" /\ pc = "decide"
    /\ heard \/ NonBoot(peers, known) # {}
    /\ source' \in IF peers = {} THEN {NoPeer} ELSE peers
    /\ pc' = "stake" /\ heard' = FALSE /\ missed' = {}
    /\ UNCHANGED <<up, role, tries, todo, peers, known, looking, entry, telling>>

\* The steps to a stake; source is given up with the synchronisation.
StakeStep(from, to) ==
    /\ pc = from /\ pc' = to /\ source' = NoPeer
    /\ UNCHANGED <<up, role, tries, todo, peers, known, missed, looking, entry, heard>>

\* The balance is enough; the operator is asked, and asked again before the
\* transaction that is made then is sent.
CheckBalance == StakeStep("stake", "confirm") /\ UNCHANGED telling
Confirm == StakeStep("confirm", "sign") /\ UNCHANGED telling
SignStake == StakeStep("sign", "approve") /\ UNCHANGED telling
Approve == StakeStep("approve", "pending") /\ UNCHANGED telling

\* The operator does not answer yes.
Cancelled == pc \in {"confirm", "approve"} /\ Exit

\* There is too little for the stake, the transaction cannot be made or sent, or
\* 30 looks do not find it confirmed.
StakeFails == pc \in {"stake", "sign", "pending"} /\ Exit

\* It is confirmed, and BroadcastNewValidator takes the list of the peers; boot
\* nodes do not know its protocol.
Confirmed == StakeStep("pending", "announce") /\ telling' = peers \cap Others

\* BroadcastNewValidator at one peer: it opens a stream, over a new connection if
\* need be, writes, and reads an answer.  handleValidatorBroadcast reads to the
\* end of the stream before it answers, so the read ends with the connection.
BroadcastNewValidator(p) ==
    /\ pc = "announce" /\ source = NoPeer /\ p \in telling \cap up
    /\ source' = p /\ telling' = telling \ {p} /\ peers' = peers \cup {p}
    /\ UNCHANGED <<up, role, pc, tries, todo, known, missed, looking, entry, heard>>

\* The stream cannot be opened or written.
BroadcastFails(p) ==
    /\ pc = "announce" /\ source = NoPeer /\ p \in telling
    /\ telling' = telling \ {p}
    /\ UNCHANGED <<up, role, pc, tries, todo, peers, known, missed, looking, entry, heard, source>>

\* It has come to every peer; after another synchronisation, whatever comes of
\* it, the validator runs.
Announced ==
    /\ pc = "announce" /\ source = NoPeer /\ telling = {} /\ Run
    /\ UNCHANGED <<up, role, todo, peers, known, looking, entry, heard, telling>>

\* A peer that is no boot node is picked, or the node runs without.
PickPeer ==
    /\ pc = "decide"
    /\ IF NonBoot(peers, known) = {} THEN Run
       ELSE pc' = "sync" /\ source' \in NonBoot(peers, known) /\ UNCHANGED <<tries, missed>>
    /\ UNCHANGED <<up, role, todo, peers, known, looking, entry, heard, telling>>

PickTxnsPeer == role = "txns" /\ PickPeer
PickRpcPeer == role = "rpc" /\ PickPeer

\* Chain, stakes and mempool are synchronised.
Synced ==
    /\ pc = "sync" /\ source \in up /\ Run
    /\ UNCHANGED <<up, role, todo, peers, known, looking, entry, heard, telling>>

\* The miner mines, the TXNS node opens its shell, the RPC node its server.
MinerSynced == role = "miner" /\ Synced
TxnsSynced == role = "txns" /\ Synced
RpcSynced == role = "rpc" /\ Synced

\* One of the three fails, and the start with it.
SyncFails == pc = "sync" /\ Exit

Crash == pc \notin {"off", "ended"} /\ Exit

-----------------------------------------------------------------------------
(* Keeping connections. *)

\* SendHeartbeat, of startKeepAlive or StartHeartbeat, dials a peer that is not
\* connected.  What the peer receives changes nothing there.
SendHeartbeat(p) ==
    /\ entry[p] = "connected" /\ p \in up \ peers
    /\ peers' = peers \cup {p}
    /\ UNCHANGED <<up, role, pc, tries, todo, known, missed, looking, entry, heard, source, telling>>

\* PeerManager.RemovePeer keeps the entry, as disconnected.
RemovePeer(p) == entry' = [entry EXCEPT ![p] = "lost"]

\* StartHeartbeat removes a peer that it cannot reach.
HeartbeatFails(p) ==
    /\ entry[p] = "connected" /\ p \notin peers
    /\ RemovePeer(p)
    /\ UNCHANGED <<up, role, pc, tries, todo, peers, known, missed, looking, heard, source, telling>>

\* Mutant of maintainConnections: a validator does not look for peers again.
maintainUninitialised(S) ==
    /\ pc = "running" /\ role # "validator" /\ peers = {} /\ S # {} /\ S \subseteq Boots \cap up
    /\ peers' = S /\ known' = known \cup S
    /\ UNCHANGED <<up, role, pc, tries, todo, missed, looking, entry, heard, source, telling>>

\* maintainConnections: without a peer the boot nodes are tried again.
maintainConnections(S) ==
    /\ pc = "running" /\ peers = {} /\ S # {} /\ S \subseteq Boots \cap up
    /\ peers' = S /\ known' = known \cup S
    /\ UNCHANGED <<up, role, pc, tries, todo, missed, looking, entry, heard, source, telling>>

-----------------------------------------------------------------------------
Starting ==
    \/ \E b \in Boots : ConnectToBootstrapNode(b) \/ BootstrapNodeFails(b)
    \/ BootstrapRetry \/ BootstrapFails \/ Bootstrapped
    \/ \E S \in SUBSET Boots : \/ MinerRound(S) \/ ValidatorRound(S)
                            \/ TxnsRound(S) \/ RpcRound(S)
    \/ NoValidatorFound \/ FoundChain \/ JoinChain
    \/ CheckBalance \/ SignStake \/ StakeFails \/ Confirmed \/ Announced
    \/ \E p \in Others : BroadcastNewValidator(p) \/ BroadcastFails(p)
    \/ PickTxnsPeer \/ PickRpcPeer
    \/ MinerSynced \/ TxnsSynced \/ RpcSynced \/ SyncFails

\* The operator answers, or never does.
Answer == Confirm \/ Approve \/ Cancelled

Heartbeat(p) == SendHeartbeat(p) \/ HeartbeatFails(p)

Maintain == \E S \in SUBSET Boots : maintainConnections(S)

StartNext ==
    \/ \E h \in Hosts : HostUp(h) \/ HostDown(h) \/ LinkUp(h) \/ LinkDown(h)
    \/ main \/ ReceiveBlock \/ Crash \/ Starting \/ Answer \/ discoverPeers \/ Maintain
    \/ \E p \in Others : Heartbeat(p)

StartSpec == StartInit /\ [][StartNext]_startVars

\* The goroutines of the node run, and a boot node that stays up is reached.
\* Nothing is assumed of the operator or of connections that last.
FairStart ==
    /\ StartSpec /\ WF_startVars(Starting) /\ WF_startVars(Maintain)
    /\ \A p \in Others : WF_startVars(Heartbeat(p))

-----------------------------------------------------------------------------
(* Properties *)

\* Boot nodes keep no chain: a miner, the TXNS node or an RPC node synchronises
\* with one only when its own connection to it had failed and bootnode.addr names
\* another.
SourceNotBoot == role # "validator" /\ source \in Boots => source \in missed \ {FileBoot}

\* Where a start waits for someone else, without a deadline: for the operator of a
\* validator, or for the answer of a peer to its announcement.
Waits == pc \in {"confirm", "approve"} \/ (pc = "announce" /\ source # NoPeer)

\* Every start comes to an end, whichever hosts stop, start or disconnect: the
\* node runs, or its start function has returned an error; unless it is left at
\* one such wait for ever.
StartEnds == pc = "bootstrap" ~> (pc \in {"running", "ended"} \/ []Waits)

\* "Check for validator peer, skipping TXNS nodes": a miner does not synchronise
\* with the node that p2p.go knows as the TXNS node.
MinerSkipsTxns == role = "miner" => ~IsPeerTXNSNode(source)

\* PeerManager does not go on listing a peer as connected that is gone.
StaleEntriesGo ==
    \A p \in Others :
        (entry[p] = "connected" /\ p \notin peers) ~> (entry[p] # "connected" \/ p \in peers)

\* A running node that lost all its peers gets one back while a boot node is up.
Rejoins ==
    (pc = "running" /\ peers = {}) ~> (peers # {} \/ pc = "ended" \/ up \cap Boots = {})

\* What a node of any role knows while it starts is consistent, and its chain does
\* not come from a node that it knows to be a boot node.
StartSound == StartTypeOK /\ SourceNotBoot

\* A node's connections and its list of them recover from what comes and goes.
ConnectionsKept == StaleEntriesGo /\ Rejoins
=============================================================================

# Verification of the hybrid PoW + PoS blockchain node

TLA+ models of the Go node under `src/` (packages `blockchain` and `RPC`,
`main.go`), TLC configurations that check them on small instances, and TLAPS
proofs that hold for every value of the constants. The code is the reference;
every definition that models code has an entry in `PROJECT.json` with the lines
it stands for.

## 1. The system

Each process is a libp2p `Node` with a `Blockchain`, a `Mempool`, a `UTXOPool`,
a `StakePool` and an `AccountManager`, in one of four roles (miner, validator,
TXNS node with a shell, RPC node) or a boot node. Miners build blocks on the tip
of their own chain, solve a proof of work, ask validators picked from the stake
pool to approve the block, and send it to all peers. The parts talk through
direct calls, shared pointers (`bc.mempool` is `Node.Mempool`; `bc.utxoPool` and
`Node.UTXOPool` start as one object) and JSON messages over streams. Every
incoming stream and every RPC request has a goroutine; locks are held for single
steps, never for a whole handler.

| Component | State | Operations | What makes it correct |
|---|---|---|---|
| Block production and propagation (`blockchain.go`, `block.go`, `p2p.go`, `main.go`) | `Chain`, `broadcastedBlocks`, the header being mined | `MineBlock`, `requestValidation`, `handleMinerBlockValidationRequest`, `BroadcastBlock`, `handleBlockStream`, `AddBlockWithoutValidation` | chains have the ancestors of their blocks, no block twice, a block that is built upon has a majority behind it |
| UTXO pool (`utxo.go`) | `utxos` with `Spent` flags, history of snapshots | `AddUTXO`, `ProcessBlockTransactions`, `Clone`, snapshots, chunks, deltas, `HandleReorg` | exactly the outputs of the chain, spent where the chain spends them |
| Mempool (`mempool.go`) | `Transactions`, `maxSize`, `timeouts` | `AddTransaction`, `RemoveTransaction`, `ClearProcessedTransactions`, `SyncWithPeer`, eviction | no transaction mined twice; the best payers stay |
| Transactions (`transaction.go`, `RPC/api/transaction.go`, the shell) | none, or counters | building, signing, validation, submission | a payment is covered; what arrives is pooled or turned away; no output is spent again unnoticed |
| Accounts (`account_state.go`) | balances, nonces, cache | `GetAccountState`, `UpdateBalance` | every output is credited |
| Chain synchronisation (`p2p.go`, `sync/`) | streams, block ranges | `SyncWithPeer`, `handleSyncRequest`, the gRPC service | a node takes over its peer's blocks, in order |
| Stake pool (`stake_pool.go`) | `Stakes`, `WalletToHost` | `AddValidator`, `AddStake`, `RemoveStake`, withdrawals, `SyncWithPeer`, `GetValidators` | no stake that was not staked; who is picked can be reached |
| Validators (`validator.go`, `validator_selection.go`, `slashing.go`, `rewards.go`) | status, metrics, slashing records | start, stop, slash, recover, select | a slashed validator does not take part |
| Heartbeats (`validator_protocol.go`) | last heartbeat, timeouts | heartbeat, check | a silent validator is removed |
| Consensus rounds (`consensus.go`) | votes of a round | `SubmitVote`, `hasReachedConsensus` | a quorum of the stake |
| Node start and peers (`main.go`, `peer_manager.go`, `p2p.go`, `bootnode.go`) | peer table, known boot nodes | bootstrap, discovery, choice of a peer to synchronise with, heartbeats, `maintainConnections` | a start ends; no chain from a boot node; connections recover |
| RPC queries and statistics (`RPC/server.go`, `RPC/api`) | local variables of a request | searches, histories, monitors, averages | what exists is found; every request ends; numbers agree |
| RPC subscriptions (`RPC/server.go`) | subscriptions, known transactions | subscribe, poll, notify, clean up | every block once and in order; dead subscriptions go |
| Fork choice (`blockchain.go`) | candidate chains | `ResolveFork`, `reorganizeChain`, `RollbackToHeight` | the heavier valid chain wins |
| Persistence (`store.go`, `state.go`, `db/`) | LevelDB keys | `saveBlock`, `loadState` | a restart finds a consistent chain |
| Merkle trees, gas, wallets, generated code | none | hashing, arithmetic, signing | agreement with a reference definition |

Hard behaviours: the tip moves between validation and append; a block is applied to the UTXO pool two or three
times, from different goroutines; the miner works on a clone of the pool and on
a tip it read minutes ago; transactions are gossiped again at any moment, and admitted
by a UTXO map that was read before the miner replaced the pool; streams fail and are not retried; JSON decoders lose what they read ahead; locks
are taken twice by one goroutine or held over network I/O that has no deadline; a
start waits for its operator; requests read the
chain one block at a time while it grows; heights are unsigned and wrap.
`PROJECT.json` lists the main ones at their lines under `hazards`.

## 2. Plan

Done, in this order: `BlockPropagation`, `NodeLedger`, `StakePool`, `Mempool`
with `TransactionPath`, `ChainSync` with the abstract `Replica`, `Validators`,
`NodeStart`, `ChainQueries` with `ChainStatistics`, `Subscriptions`, all checked;
every safety property of theirs is proved, and so is the refinement.

Next, by value:

1. An abstract `Ledger` (a chain that grows, each transaction mined once, a pool
   that is a function of the chain), with `NodeLedger` shown to refine it where
   it does.
2. The reader-writer lock of `Blockchain` (recursive `RLock`).

## 3. The modules

An action is one critical section, or the code between two points at which
another goroutine can be observed. `MC*` modules only declare model values and
define the constants of the configurations. Names are those of the code; an
operator whose comment begins "Mutant of" is a wrong version of the next
definition, and is not used by the specification. A property whose definition is
a conjunction of named properties (`SubscribersServed`, `StatisticsExact`, ...)
is there so that one run checks them together; each part has its own comment.

### BlockPropagation

State: per node `chain` (`bc.Chain`), `tracked` (`broadcastedBlocks`), `applied`
(the calls of `ProcessBlockTransactions` on `bc.utxoPool`); per miner `job`,
`phase`, `temp` (position in `MineBlock` and the cloned pool); per block its
header and the validators `asked` and `approved`; per stream `stage`, the
position in `handleBlockStream`.

`StartMining` reads the tip and clones the pool; `Approve` and `NoApproval` are
the answers to `requestValidation`; `DiscardBlock` is the failed attempt;
`CommitPool`, `AppendMined` and `BroadcastBlock` are the three steps after a
majority. A receiving node runs `ValidateBlock` or `RejectBlock`,
`CheckTracked`, `MarkTracked`, `AddBlockWithoutValidation`, `ProcessBlockUTXOs`,
interleaved with those of other streams. A block sent to a node may be lost
(`BroadcastBlock` picks who is reached) and blocks arrive in any order. Every node
has joined before the first block; a message that cannot be decoded counts as lost.
Only the miner of a block sends it: `BroadcastBlockToTXNSNode`, which would send one
again, has no caller and is left out.

### NodeLedger

One node from the inside. A pool is the set of outputs it has and the set marked
`Spent`. `shared` says whether `bc.utxoPool` and `Node.UTXOPool` are still the
object `NewNode` made of them. `mines`, chosen at the start, says whether the node
makes every block itself or only receives. The miner runs `SelectTransactions`,
`CloneUTXOPool`, `MiningFailed` or `CommitPool`, `SyncNodePool`, `AppendMined`,
`RemoveTransactions`, `UpdateUTXOSet`; a handler runs `ReceiveBlock`,
`AddBlockWithoutValidation`, `ProcessBlockUTXOs`, `ClearProcessedTransactions`,
and the handlers of consecutive blocks may overlap. `AddTransaction` and
`SyncWithPeer`, the merge of a peer's list, happen at any step. `GetUTXOs` is
evaluated before the mempool is locked, and a miner replaces `Node.UTXOPool` by a
clone: `replaced` keeps the maps of the pools before, any of which a handler may
still hold, and `AddTransaction` validates against one of them or the current one.
`late` remembers what was admitted although the current pool rejects it.
`ProcessBlock` is what a pass over the transactions of a block does to
a pool; the block keeps them in a map, so which output that is spent inside the
block stays `Spent` is left open. `credits` counts the additions to a balance,
`overlaps` remembers which handlers ran at the same time, and `Doubtful` are the
outputs that may be unspent although the chain spends them: those such a handler
revived, those of a transaction that was mined again, and in a miner what
transactions of a peer's list spend.

### Mempool and TransactionPath

`Mempool` is the list itself, with the fee of each transaction, the two stable
sorts, the replacement at capacity and the merge of a peer's list. What a loop keeps
of a list is given by the increasing positions it keeps (`Select`), what a sort returns
by the order of the positions (`StableOrder`): sets with one element. `refused`
remembers who was turned away or evicted since the list last lost or gained
transactions otherwise.

`TransactionPath` extends it with the way of a payment. Seven of the `Methods` are
the calls of the node that make one: an unsigned transaction that the client sends back
(`raw`), `SendTransaction` from fields or with a transaction ID of the client
(`manual`), `SendTransactionWithKey`, `handleSendTransaction`, the shell and the
stake of a validator. They differ in which outputs they select (`Needed`), what
they make (`Outputs`) and what they validate themselves (`CheckedHere`). The two
others are raw transactions that a client writes itself (`SendClientMade`): a
payment with any inputs and outputs, or one whose type is a coinbase or validator
reward, for which signature, balance and mempool checks are skipped (`IsSystem`).
`BroadcastTransaction` reaches the miner or not; what the caller is told is left
out, since an error, an answer and the panic after the broadcast go with either.
`ValidateTransaction`, `RejectTransaction` and `ProcessTransaction` are the
handler at the miner, which may admit by a map that `MineBlock` has replaced since
(`old`, `late`, as in `NodeLedger`); `MineBlock` takes the top of the list without
another validation; `ReceiveBlock` brings the API node's pool up to date, later.
The merge of a list is what a miner does once, before its first block.

### ChainSync and Replica

`ChainSync` has both ends of a synchronisation, message by message:
`SyncWithPeer`, `ReadResponse`, `ReadBlock`, `ReadCompleteAsBlock`,
`ReadNoBlock`, `ReadCompletion` at the client, `ReadRequest`, `SendBlock`,
`SendComplete` at the server, `ResetStream` for the network. Both sides make a new
JSON encoder or decoder for every message; what a decoder has read ahead is lost
with it, so that messages disappear and the next one may start in the middle
(`Torn`). Beside it `handleBlockStream` appends announced blocks in two steps.

`Replica` is what the node promises: its chain only grows, by blocks the peer
has; those of one synchronisation in increasing order, the announced ones after
their parent. `SyncIsReplica` is the refinement (`INSTANCE Replica WITH ...`), with
`peerHas`, `chain` and `cursor` mapped to themselves.

### StakePool

Every node's pool over the whole network. `sync` is the position in
`StakePool.SyncWithPeer`, which holds `sp.mu` throughout, so `sync[n] = "none"`
is also the state of the lock. `StartSync`, `Admit`, `Encode`, `Merge` are the
request, the handler's critical section, the encoding (outside the lock) and the
merge; `SyncFails` is any error and the 30 s deadline. `Register`, `Tell`,
`TellFails`, `TellEnds`, `BroadcastDone` follow `runValidatorNode` and
`BroadcastNewValidator`; `StakeTokens`, `CheckUnstake`, `UnstakeTokens`,
`UnstakeFails` the RPC calls; `Restart` empties a pool, gives the node a new host
ID and kills the streams to it. Amounts are whole, as `uint64(amount)` leaves them:
a fraction below 1 that passes the check `amount <= 0` is an amount of 0. There is no action for the registration at a
peer: `handleValidatorBroadcast` reaches `AddValidator` only after the end of
the data, which the sender never signals.

### Validators

One validator: the fields of its `Validator`, whether a stake pool has an entry of
it, and its entry in another node's `ValidatorProtocol`. Operations that take `v.mu`
are guarded by `~stuck`: `slash` calls `Stop` with the lock held, and then it is
never free again. `Vote` is two steps: it takes the lock for `IsReady` and gives it
back, and sends without it (`BroadcastValidatorVote`). `distributeRewards`,
`RecordValidation`, `UpdateValidatorSet` and the slashing manager change the same
fields without the lock; `SlashValidator` looks up the stake and goes on with the
entry it found (`TakePenalty`), whatever `RemoveStake` did meanwhile. The amounts in
the pool and the community pool are left out. `Tick` is the interval of the heartbeat
monitor. In the program only `NewValidator`, `Start` and `Recover` have callers
outside tests, and nothing constructs a `SlashingManager`; the rest is the interface
of a library, and the model calls it in any order.

### NodeStart

One node of any role between hosts that come and go. `pc` is the position in
`runMinerNode`, `runValidatorNode`, `runTXNS` or `runRPCNode`: `bootstrap` with its
retries, `discover` with its rounds, `decide` (a validator that found no chain
founds one), `sync`, `running`. A validator that joins a chain goes on with its
stake: `CheckBalance`, the operator's `Confirm`, `SignStake`, the operator's
`Approve`, `Confirmed`, and `BroadcastNewValidator` to one peer after the other, which
waits for an answer that comes with the end of the connection only. `TXNSNodeID` is
the ID that `main.go` skips, `TxnsPeer` the one `IsPeerTXNSNode` knows: the code has
two. Afterwards `SendHeartbeat`,
`HeartbeatFails` and `maintainConnections` keep `entry` (`PeerManager.peers`) and
the connections. `Crash` can happen at any point.

### ChainStatistics and ChainQueries

`ChainStatistics` has the functions of the RPC server that take a height once and
compute a number from the blocks below it, as operators on a chain: growth,
active addresses, volume per day, uptime, supply, ranges, hash rate, block times,
fees. Subtraction and products are on unsigned numbers (`Minus`, `Window`).
`GetHashRate` takes the latest block and the height separately, since it reads
them one after the other. The number of blocks per day is any of
`PerDays`, 0 among them, as `int(86400 / avgBlockTime)` is for blocks more than a day
apart. `ReadRange` says of the loop over a range whether it ends, which it does not
when the last height is the largest number.

`ChainQueries` has the requests that read step by step beside a node that keeps
working: twelve kinds of searches, histories and monitors, each an action that
takes one read at a time; `AppendBlock` and `RemoveMined` are two steps, so a mined
transaction is for a moment in both places.

### Subscriptions

`SubscriptionManager`, the poller and the clean-up. `PollTick`, `PollBlock`,
`PollBlocksDone`, `PollTransaction`, `PollEnd` are a round; subscriptions,
disconnections, blocks and transactions happen between any two of them. A write has
no deadline and holds the manager's lock: `Stall` is a client that does not read,
which keeps the poller, subscriptions and the clean-up waiting until it reads
(`Unstall`) or is gone. A notification that meets a reply on the same WebSocket ends the process (`down`)
or goes through.

## 4. The runs

| Run | Instance | What it shows |
|---|---|---|
| `rivals` | two miners, one validator, three blocks | Tips move between every check and its use. `AncestorsHeld`: a block is never appended without its parent, because a parent that was held stays held. `NoBlockTwice`: with one stream per block and node, also after `broadcastedBlocks` was emptied. `ParentAppliedFirst`: a node that does not mine applies blocks to its pool after their parents. |
| `single` | one miner, three validators, two blocks; fair | `PrefixAgreement` in spite of loss and reordering; `MajorityHoldsParent`: two of three validators hold what is built upon. `StreamsAnswered`: every stream is answered. |
| `ledger` | three own blocks or three received ones, three transactions that spend from each other or compete | `MinedOnce`; `PoolExact`: both pools have the chain's outputs between blocks, with failed attempts and blocks applied twice, `Spent` where the chain spends them but for `Doubtful`, and no output was left uncredited. `MinedNotReadmitted`: the inputs are `Spent` before the mempool is cleared, so no late duplicate gets in. Each names the ways that are left: a merged list, a map that was replaced, what became unspent. |
| `sync` | a peer of three blocks, two synchronisations; fair | `SyncIsReplica`: the refinement. `SyncReturns`: every call returns or the process ends, whatever the stream loses. |
| `transactions` | two payments of the shell beside a transaction by any call or written by a client, a mempool of two, peers' lists; fair handlers | `MempoolSound`: nothing twice and the best payers stay, also in a list that a merge has left unsorted and over `maxSize`. `SpentAgainOnlyIfPooled`: where a second spending can come from. `ShellRejectedOnlyIfSpent`, `ValueKept`: what clients may rely on. `Settled`: a transaction that arrives is pooled or turned away, without anything assumed of mining. |
| `staking` | one validator, two relays, three starts each | `NoInflation`, `HostsAgree`, `ValidatorsReachable` (who is picked has a host ID) and `StakeKept` (a merge never lowers a stake). |
| `rpc` | a validator and an RPC node, two starts; fair | `TypeOK`: no amount below 0 though the check is made without the lock. `SyncEnds`: the wait of each for the other's lock ends. |
| `validators` | a stake that halves to below the minimum, unless a reward comes first; fair | `WatchAgrees`: `ActiveIsRecent` and `HeartbeatsHaveState`. `NoPartAfterSlash`: neither selected nor found ready. `SilentRemoved`. |
| `start` | two boot nodes, two other hosts; fair | `StartSound`: `SourceNotBoot`. `StartEnds`: with an error or a running node, or it stays at one of two waits. `ConnectionsKept`: `StaleEntriesGo` and `Rejoins`. |
| `skip` | the same, without fairness | The counterexample to `MinerSkipsTxns`, see below. |
| `queries` | two transactions, four blocks, every query; fair | `AnswersComplete`: `NothingMissed` and `RecentAreLatest`. `StatisticsExact`: nine statements on the statistics, for every chain that is reached. `QueryEnds`. |
| `subscriptions` | two connections, two blocks, a transaction, writes that stall | `SubscribersServed`: `MapsAgree`, `AnnouncedOnce`, `NoBlockSkipped`. `BlocksInOrder`. |

`skip` is the one run that TLC must refute. `runMinerNode` says "Check for validator
peer, skipping TXNS nodes" (`main.go:304`) and compares with `TXNSNodeID`
(`main.go:32`, `12D3KooWPKEz...`), while `p2p.go` (lines 935, 2190, 2208, 3114) knows
the TXNS node as `12D3KooWFz4...`, at 935 "by ID (from main.go)". A miner that is
connected to that node takes it for a validator and synchronises with it.

Deadlock checking is off in all runs: each model comes to rest when its supply of
blocks, transactions or starts is used up. What must not stop is stated as a
liveness property instead.

### Bounds

- `Blocks`, `Own`, `Foreign`: two or three blocks give a parent, a child and a
  rival; the mining node of `ledger` has three, for an output, its spending and a
  later block that mines the same again.
- `MaxTracked` is 1, so that the map of known blocks is emptied during a run.
- `Txs` of `ledger`: one spends the reward of the first block, one spends that one's
  output, and one competes with the first, so that a block can spend what an earlier
  one, or it itself, creates. The limit of 200 transactions per block is
  out of reach there; in `transactions`, `BlockLimit` is 1.
- A block hash is new: an attempt takes a block of `Own` that no attempt used
  before, since the header contains a time stamp.
- `sync`: `MaxHeight` 3 has a completion message after an odd and an even number
  of blocks; `MaxSyncs` 2 repeats a failed synchronisation; `MaxLength` 6 leaves
  room for all blocks twice.
- `transactions`: wallet outputs of 6 and 3: the larger covers any payment, the
  smaller one leaves no change, and two payments compete for them; `MaxSize` 2 (1000 in the code) is less than the
  three payments; `MaxPeerList` bounds a peer's list. `ClientOutputs` has one output
  larger than the wallet. One of the three is made in any of the nine ways.
- `MaxStarts` bounds restarts and with them registrations; three starts let an
  entry of the first outlive the second and meet the third. `MaxStaked` bounds
  what is staked over RPC. `Unit`, 100000000 in the code, is how many tokens one
  unit of an `unstakeTokens` request is compared with; a smaller one only admits
  more requests. It is 1 in `rpc`, where that gives the race its room.
- `validators`: `OwnStake` 4 and `MinStake` 2 let the first slash pass and the
  second go below the minimum; a `Reward` of 4 in between brings the stake back;
  `MissLimit`, `MaxRecords` and `MaxStake` bound how often each happens.
- `start`: `Retries` and `Rounds` 3 stand for 5 and 3 or 4; one of the two boot
  nodes is in `bootnode.addr`; the two others are the two hosts that the code names as
  the TXNS node, and validators as well.
- `queries`: a chain of up to four blocks is longer than `SearchCap` 2 (1000) and, by a
  block that `SearchByAddress` does not read, than `ScanBack` 2 (5000); `Word` 8 lets a
  height wrap; `PerDays` has 2, which gives two days, 0, and 4, with
  which two days wrap to none. `Limits` has one that a page reaches and one
  that it does not.
- `subscriptions`: each connection has an address of its own, as the port
  is part of it, and `MaxPerClient` is 1; `KnownCap` and `Stale` are 0, so that the set of known
  transactions is cut in every round and one passing of time makes a
  subscription stale; two blocks are enough for one to arrive during a round.

Symmetry is used for miners, blocks, connections and subscription
IDs that no definition tells apart, only in runs without liveness.

### Fairness

- `BlockPropagation`: weak fairness of all handlers together, that is, some handler
  runs while one has work. A handler has no loop and waits only for locks that are held
  for one step; nothing forces a miner, a validator's answer or a delivery.
- `StakePool`: weak fairness of what a node's goroutines do by themselves, of each
  handler step, and of `SyncFails`, since a deadline expires whatever the peer
  does. Restarts, disconnections, registrations and RPC calls need not happen.
- `ChainSync`: weak fairness of the server's and of the client's steps. The
  client reads without a deadline; a message that is sent arrives or the stream
  breaks.
- `TransactionPath`: the same of the transaction handlers. Nothing is assumed
  of mining, which fails when validators do not answer, or of streams.
- `Validators`: the ticker of the monitor.
- `NodeStart`: the start function, `maintainConnections` and the heartbeats of
  each peer; hosts are free to come and go. The operator need not answer, and a
  connection that an announcement waits on need not break.
- `ChainQueries`: the goroutine of a request.

## 5. What is proved

The proofs are for every value of the constants that satisfies the modules'
assumptions: any number of nodes, blocks, validators, transactions, restarts, and
any losses. Each invariant below was checked by TLC on the run's instance before
it was proved. Theorems about a part of the networks say so in an `ASSUME` of
their own; the runs of the property use instances of that part.

**BlockPropagationProofs**

- `TypeCorrect`: `TypeOK` is inductive.
- `AncestorsAlwaysHeld`, by `LinkInv`. `AncestorsHeld` speaks of chains only; a
  block is validated long before it is appended, so the invariant carries the
  fact "the parent is in the chain and one number lower" for blocks in the hands
  of a miner and of every handler past validation. It is stable because chains
  only grow (`ChainGrows`, `HoldsParentStable`) and the header of a mined block does not
  change (`HeadersKept`).
- `MajorityAlwaysHoldsParent`, by `ApprovalInv`. A validator's answer is counted
  when it holds the parent and chains only grow, so approvals stay backed; the
  count of approvals is then followed from the miner's commit through the streams into
  every chain. It needs the validators to be a finite set.
- `ParentAlwaysAppliedFirst`, by `OrderInv`. The property speaks of the pool, the
  handlers check the chain: in a node that does not mine the pool is not behind the
  chain (`ChainApplied`, since `AddBlockWithoutValidation` changes both), a handler past
  the append still has the parent in the chain (`AppendedLinked`), and nothing is
  applied that was not mined (`AppliedMined`).
- `BlockNeverTwice`, by `OnceInv`: who holds a block mined it or has a handler past
  the append, streams come from the miner of the block alone, and a block that is being
  mined is in nobody's hands yet. A second sender would break it: two streams could
  both pass the check before the first marks the block.
- `ChainsAlwaysAgree`, by `AgreeInv`, assuming `OneMiner`: the miner's chain is
  linked block by block, what a node appends is the block after its tip, and so its
  chain, past the genesis block of its own, is a prefix of the miner's.

**NodeLedgerProofs**

- `LedgerTypeOK` and `NeverReadmitted`, by `RoleInv`. The latter for the node that
  receives: `StagesFollow` ties each handler's step to the chain, `PoolFollows` says
  that the pool has what the chain created and that what the chain spent is `Spent`
  except where overlapping handlers made it unspent, `OverlapsNoted` which handlers
  these are, and `ReadmittedNoted` what the mempool may still have of a finished block.
- `NeverMinedTwice` and `PoolAlwaysExact`, by `MinerInv` beside it: at each phase of
  `MineBlock` a pool is `Level` with the chain, or `Ahead` of it by the block in hand
  between the commit and the append; a transaction in hand or in the mempool is new to
  the chain, or one of those that `MayBePooled` lists (merged, admitted late, about to
  be removed, or with inputs in `Doubtful`). `AppendRepeats` says which transactions a
  block repeats, `DoubtGrows` that what was doubtful stays so. Peers' lists may be merged
  and old maps used at any step.

**TransactionPathProofs**

- The list operations: `SortedFacts` (a stable sort permutes, the lowest fee comes
  last), `SelectFacts`, and one lemma for each of `AddTransaction`, `ReplaceLowest`,
  `RefuseTransaction`, `RemoveTransactions`, `SyncWithPeer`.
- `MempoolAlwaysSound`, by `CoreInv`. `RicherStay` is not
  inductive: below capacity anything may be added. `FullWhenRefused` is what is
  missing: while something counts as refused the list is full. `SentReplied` says
  that whatever the miner has was sent by a call. `PoolsBehind` orders the pools: what
  the API node has the miner has, and inputs were in it.
- `NeverSpentAgain`, by `SpendInv`: the inputs of mined transactions are `Spent` or were
  made again (`Remade`), and a pooled one spends none of the others unless it waited, was
  merged or was admitted late.
- `ValueAlwaysKept`, by `WorthInv`: each transaction that a call of the node built was
  covered then, and stays so because no step changes an output that exists (`Steady`);
  what selects no inputs has value 0 and is never admitted.
- `ShellOnlySpentRejected`, by `ShellInv` beside it: in every map that a handler may
  still hold the inputs exist, and what is `Spent` there a mined transaction has spent
  (`MapsInv`).

**StakePoolProofs**

- `StakeTypeCorrect`: no amount becomes negative, since `RemoveStake` repeats
  the check of `unstakeTokens` under the lock.
- `NeverInflated`, by `StakeInv`, which adds to `NoInflation` that an answer on
  its way (`AnswersBacked`) exceeds nothing either; a sender may restart before
  it is merged.
- `HostsAlwaysAgree` and `StakeAlwaysKept`, by `PlainInv`, for networks without
  RPC nodes: an entry that is missing has amount 0, so taking over a peer's
  entry lowers nothing. With `stakeTokens` the two records of a host do differ,
  and `unstakeTokens` lowers a stake.
- `ValidatorsAlwaysReachable`, by `ReachInv`, for the same networks: every entry,
  also one in an answer on its way, has a host ID (`EntriesHaveHosts`), since a node
  joins only after it has started.

**JoinProofs**: how a node starts and catches up.

- `SyncTypeOK`, and `SyncImplementsReplica`: the initial states are initial states of
  `Replica`, and each step of the two ends, the network and `handleBlockStream` is a
  step of it or leaves `peerHas`, `chain` and `cursor` alone. It needs that the numbers
  still to come in a stream increase and are the peer's, whatever was torn or lost.
  The proof required `MaxLength > 0`: with 0 there is no room for the genesis block.
- `StartAlwaysSound` by `StartInv`: until a node decides whom to synchronise with,
  every boot node is noted as such, still to be tried, or was missed.

**BackgroundProofs**: what runs beside the chain.

- `WatchAlwaysAgrees` and the action property `SlashedTakesNoPart`, of `Validators`;
  the latter because nothing resets the flag `slashed` that the missed blocks have set
  (`FlagStays`).
- `AlwaysServed` by `SubsInv`: beside the agreement of the maps, which round the poller
  is in and what it has taken of the mempool (`RoundInRange`, `SentKnown`), and that
  subscribers stand at the poller's height (`UpToDate`); and the action property
  `BlocksAlwaysInOrder`, both of `Subscriptions`.

**ChainQueriesProofs**

- `AnswersAlwaysComplete`, by `QueryInv`, with one lemma for each kind of query. The
  property speaks of a query that is done; the invariant says what each has established
  on the way. `KnownThere`: what was known at the call is still in the mempool or in a
  block, because a block is appended before its transactions leave the mempool.
  `SearchInv`: a scan downwards still has the transaction before it, a scan upwards has
  not passed it; a query that reads the mempool last has then seen every block up to
  `top`. `ListInv`: a list that is not full has all that was wanted of the blocks read so
  far, and what is wanted and not in it is in a block still to be read, above `top`, or
  below the blocks `SearchByAddress` reads. `RecentInv`: nothing listed is below the block
  in hand, and the blocks above the last one are complete.
  The proof found a mistake in the property: `SearchByAddress` reads no block older
  than the last 5000, and the instance was too short for one that has a
  transaction. `NothingMissed` now says so (`Early`), and `ScanBack` of the run is 2.
- `StatisticsAlwaysExact`, from `QueryInv` and `DisjointBlocks` (no transaction is in two
  blocks, since a block takes pending ones that no block has), with a lemma for each of
  the nine statements. Wrapped differences: `MinusFacts` says when a difference of two
  heights is exact and that it is above both otherwise; with it the day at which the loop
  of `GetDailyTransactionVolume` breaks is the first that does not lie in the chain
  (`DayFacts`), and `GetHashRate` starts above a chain that is too short. Sums: the
  periods of `GetNetworkGrowth` and the halving levels of `GetCirculatingSupply` part the
  chain (`PeriodFacts`, `LevelFacts`), and a sum may be taken part by part; an address is
  counted in the first period that has it (`NewInEach`). Rewards: that the
  recursion `Halved` has a value at all is proved from its initial pieces
  (`HalvingsExist`, `HalvingsAgree`). Fees: there is a k-th smallest one (`RankedFacts`),
  the least amount that k fees do not exceed, and the two in the middle leave half on
  either side (`MedianFacts`).
  The assumptions are that 2^64 exceeds a height by more than the longest
  period asked for in `GetHashRate` (`MaxDays * HashPerDay`, 365 * 17280 in the code),
  that a number of blocks per day is one of its numbers, and that there are finitely many
  transactions. `WindowFacts` has what a wrapped product of days and blocks per day keeps.

**Sums**, which `TransactionPathProofs` and `ChainQueriesProofs` extend. `SumFunction` of
the community modules is a fold. That it adds up its function whichever element it starts
with (`SumFacts`) is proved by taking a smallest subset of the domain on which it fails
(`SmallestSet`), which the well-foundedness of the naturals gives; no induction theorem
with an operator parameter is needed. In the same way: sums of disjoint parts (`OverUnion`,
`Regroup`), of equal and of non-positive terms, and sizes of sets as sums of the
sizes of their parts (`SizeByParts`).

**Only model-checked.** The liveness properties (`StreamsAnswered`, `SyncEnds`,
`SyncReturns`, `Settled`, `SilentRemoved`, `StartEnds`, `ConnectionsKept`,
`QueryEnds`), because liveness under fairness is beyond
TLAPS. Every other property of the passing runs is a theorem; where it holds of a part of
the networks or nodes only, the theorem assumes that part by name.

## 6. What the code does that one may not expect

The properties say what does hold; these are the places where they had to be
weaker than one would wish, each visible in the named model.

- `BlockPropagation`: a block is appended to a tip it does not extend when
  another one was appended after its validation.
- `NodeLedger`: the second pass of a block over a pool, in a handler that
  overlaps with the next one's, makes spent outputs unspent. Outputs are credited
  two to four times, those of failed attempts too. In a node that mines and
  receives, the commit of a mined block overwrites what a received one did to the
  pool meanwhile, and received blocks no longer reach `Node.UTXOPool`; the runs
  are therefore about nodes that do one of the two. A transaction handler that has
  read the UTXO map before the miner replaced the pool admits by the old map, so that a
  mined transaction can be pooled and mined again.
- `StakePool`: `BroadcastNewValidator` and `handleValidatorBroadcast` wait for
  each other until the connection breaks. A merge by maximum brings unstaked
  amounts back. `stakeTokens` stores an empty host ID, so `HostsAgree` and
  `ValidatorsReachable` are for networks without it.
- `ChainSync`: the client tries to read a completion message after every block
  and so loses every second block; a completion message that is decoded as a
  block has no header, and reading its number ends the process.
- `TransactionPath`: two transactions that spend the same output can both be
  pooled and mined, and one that an old UTXO map admits spends a mined input again. A
  transaction that says of itself that it is a coinbase or validator reward is validated
  nowhere, and sums of outputs are not compared with inputs. Validation asks for the fee twice, so an exactly covered
  payment is refused. With a transaction ID of the client the outputs may exceed
  the inputs. `SendTransactionWithKey` reads `Outputs[1]` after the broadcast, which
  panics when there is no change. A signature whose r or s has a leading zero is
  not padded and does not verify. The RPC server answers `"inMempool": true` as
  soon as a stream took the transaction.
- `Validators`: `slash` may keep `v.mu` for ever; `RecordValidation` and
  `UpdateValidatorSet` turn a slashed status back to active (the flag `slashed`
  still keeps it from being selected); `Timeouts` is never reset, so three gaps over
  a lifetime remove a healthy validator; a vote whose readiness was checked before a
  slash is still sent.
- `NodeStart`: two validators that start without finding each other both found a
  chain, and a validator may synchronise with a boot node, which has none. A
  peer heartbeat changes nothing at its receiver. A validator's start waits for its
  operator twice, and in `BroadcastNewValidator` until connections break (`Waits`). The
  TXNS node has two IDs in the code.
- `ChainQueries`: searches with a cap of 1000 blocks take the first 1000, not the
  last. `i = 0` before `i--` on an unsigned number restarts the loop from the top
  (`Endless`). A monitor that looks at the chain before the mempool can report a
  transaction as dropped that was mined in between; the shell's monitor looks at the
  latest block only.
- `ChainStatistics`: `bc.Validators` is never filled, so the validator queries find
  nothing; `blockTotalFees` is never added to, so an average over it is 0. A range of
  blocks or headers that ends at 2^64 - 1 is never answered. With no blocks per day, each
  day of the volume is the whole chain. Block 1 pays no validator share, which the
  circulating supply counts.
- `Subscriptions`: two goroutines may write to one WebSocket, which the library
  does not allow. A client that keeps its connection and stops reading blocks the
  poller, all subscriptions and the clean-up; that the subscriptions of a closed
  connection, which only the clean-up removes, go in the end is not stated.

## 7. What is not modelled

- Code that nothing in the program calls, or that only such code reaches
  (the library part of `Validators`, which is modelled all the same, is called by
  nothing either): `BroadcastBlockToTXNSNode`;
  `RegisterBlockchainHandlers`, `setupBlockSyncProtocol`, `handleForkResolution`
  and with them fork choice and rollback (`ResolveFork`, `reorganizeChain`,
  `ReplaceChain`, `ResolveChainConflict`, `FastForwardToCheckpoint`);
  `RequestChain`, `SyncBlocks`, `BroadcastChain`, `ValidateAndUpdateChain` and
  `NewSyncClient`; `SubmitVote` and `ProcessValidatorVote`, so that no consensus
  round ever runs; `RequestWithdrawal`, `ProcessWithdrawal`, `RecordViolation` and
  `CreateStake`; `SyncMempool` and `ApplySync`; `HandleReorg`; `loadState`;
  `PropagateBlock`, `setupTransactionProtocol`, `handleNewTransaction`;
  `NewNATManager`; `findAndConnectPeers`, `initValidatorNode`, `initMinerNode`,
  `initP2PNetwork`, `CleanupPeers`, `AddManualPeer`. `startBlockchainSync` runs but
  never synchronises.
- Persistence: blocks are written, but every start makes a new genesis block and
  synchronises; the stored blocks are only a second place to look one up by hash
  or height, which `Holds` in `BlockPropagation` takes into account.
- The reader-writer lock of `Blockchain`: `MineBlock` takes `RLock` twice, and a
  writer in between blocks both. A lock is one step of the models.
- The boot node's own tables and rate limits, relays, NAT traversal and the DHT:
  libp2p I/O. `NodeStart` has the boot node as a host that answers or does not.
- Cryptography and wallets, Merkle trees, gas estimation, HTTP, authentication,
  menus and printing: libraries, arithmetic without state, or I/O.
- Nodes that join while blocks are being mined, in `BlockPropagation`: how one catches
  up is `ChainSync`. Messages that cannot be decoded and blocks whose hash does not
  match are rejected like lost ones.
- Contents of messages beyond what the properties tell apart; amounts and gas in
  `NodeLedger`.
- Fatal errors of the Go runtime on concurrent map access: the same as a restart
  in `StakePool`, left out elsewhere.
- Further binaries and generated code (`sync/proto`).

--------------------------- MODULE Subscriptions ---------------------------
(***************************************************************************)
(* The RPC server's event subscriptions: WebSocket connections, the        *)
(* SubscriptionManager, the goroutine that polls the chain and the mempool *)
(* every 15 seconds and notifies subscribers, and the one that removes     *)
(* subscriptions without activity.                                         *)
(*                                                                         *)
(* The manager's operations run under its lock, so each is one action.     *)
(* Notifications are written under it as well, and without a deadline: the *)
(* write to a client that does not read stalls, and with it the poller and *)
(* whatever takes the lock, until the client reads again or is gone.       *)
(* Replies are written by the goroutine of a connection, outside of it: a  *)
(* notification that meets one makes the WebSocket library panic, which    *)
(* ends the process, or goes through.                                      *)
(***************************************************************************)
EXTENDS Naturals, FiniteSets

CONSTANTS
    Ids,            \* subscription IDs: fresh UUIDs
    Conns,          \* WebSocket connections
    ClientIP,       \* r.RemoteAddr of each, host and port
    Txs,            \* transactions
    Wanted,         \* the transactions a filtered subscription asks for
    MaxPerClient,   \* 10 in the code
    KnownCap,       \* 1000: size at which knownTxIDs is cleaned
    Stale,          \* staleThreshold, in time steps
    MaxHeight       \* bound: blocks

ASSUME SubscriptionsAssumption ==
    /\ Wanted \subseteq Txs
    /\ MaxPerClient \in Nat \ {0} /\ KnownCap \in Nat /\ Stale \in Nat /\ MaxHeight \in Nat
    /\ DOMAIN ClientIP = Conns

EventTypes == {"new_blocks", "pending_transactions", "logs"}
Clients == {ClientIP[c] : c \in Conns}
NoSub == [type |-> "none"]

VARIABLES
    open,           \* wsConnections
    closed,         \* history: connections that were open
    replying,       \* connections whose goroutine is writing a reply
    stalled,        \* the connection at which NotifySubscribers waits, if any
    subs,           \* subscriptions, NoSub where an ID is not in the map
    used,           \* history: IDs given out
    ofClient,       \* clientSubscriptions
    height, mempool,    \* what the poller reads
    at,             \* where the poller is: "wait", "blocks" or "txs"
    lastHeight,     \* lastBlockHeight
    current,        \* currentHeight, read at the start of a round
    next,           \* the loop variable height
    round,          \* currentTxs not yet looked at
    currentTxs,     \* the mempool as read in this round
    known,          \* knownTxIDs
    down            \* the process has panicked

managerVars == <<subs, used, ofClient>>
pollVars == <<at, lastHeight, current, next, round, currentTxs, known>>
subsVars == <<open, closed, replying, stalled, managerVars, height, mempool, pollVars, down>>

Sub(id) == subs[id] # NoSub
SubRecords ==
    [type : EventTypes, conn : Conns, filtered : BOOLEAN, age : 0..(Stale + 1),
     block : 0..MaxHeight, since : 0..MaxHeight, sent : [Txs -> 0..2]]

\* Subscriptions know their connection, the time since LastActivity, and as
\* history the height they started at, the last block and how often each pending transaction was sent.
SubsTypeOK ==
    /\ open \subseteq Conns /\ closed \subseteq Conns /\ replying \subseteq Conns /\ stalled \subseteq Conns
    /\ used \subseteq Ids
    /\ subs \in [Ids -> SubRecords \cup {NoSub}]
    /\ ofClient \in [Clients -> SUBSET Ids]
    /\ height \in 0..MaxHeight /\ mempool \subseteq Txs
    /\ at \in {"wait", "blocks", "txs"}
    /\ {lastHeight, current} \subseteq 0..MaxHeight /\ next \in 0..(MaxHeight + 1)
    /\ {round, currentTxs, known} \subseteq SUBSET Txs /\ down \in BOOLEAN

SubsInit ==
    /\ open = {} /\ closed = {} /\ replying = {} /\ stalled = {}
    /\ subs = [id \in Ids |-> NoSub] /\ used = {}
    /\ ofClient = [ip \in Clients |-> {}]
    /\ height = 0 /\ mempool = {}
    /\ at = "wait" /\ lastHeight = 0 /\ current = 0 /\ next = 0
    /\ round = {} /\ currentTxs = {} /\ known = {} /\ down = FALSE

-----------------------------------------------------------------------------
(* Connections and requests. *)

\* handleWebSocket: a client connects.
Connect(c) ==
    /\ ~down /\ c \notin open \cup closed
    /\ open' = open \cup {c}
    /\ UNCHANGED <<closed, replying, stalled, managerVars, height, mempool, pollVars, down>>

\* ReadMessage or WriteJSON fails: the deferred function closes the connection.
\* Its subscriptions stay.
Disconnect(c) ==
    /\ ~down /\ c \in open
    /\ open' = open \ {c} /\ closed' = closed \cup {c} /\ replying' = replying \ {c}
    /\ stalled' = stalled \ {c}
    /\ UNCHANGED <<managerVars, height, mempool, pollVars, down>>

\* AddSubscription: refused at the client's limit.
AddSubscription(id, c, type, filtered) ==
    /\ stalled = {} /\ id \notin used
    /\ Cardinality(ofClient[ClientIP[c]]) < MaxPerClient
    /\ used' = used \cup {id}
    /\ subs' = [subs EXCEPT ![id] = [type |-> type, conn |-> c, filtered |-> filtered, age |-> 0,
                                     block |-> 0, since |-> height, sent |-> [t \in Txs |-> 0]]]
    /\ ofClient' = [ofClient EXCEPT ![ClientIP[c]] = @ \cup {id}]

\* sup_subscribe over a WebSocket.  Over HTTP the answer is a sample and
\* nothing is added.
handleSupSubscribe(id, c, type, filtered) ==
    /\ ~down /\ c \in open \ replying
    /\ filtered => type = "pending_transactions"    \* the others ignore filters
    /\ AddSubscription(id, c, type, filtered)
    /\ replying' = replying \cup {c}
    /\ UNCHANGED <<open, closed, stalled, height, mempool, pollVars, down>>

\* RemoveSubscription, and what cleanupStaleSubscriptions does with each one.
RemoveSubscriptions(S) ==
    /\ stalled = {}
    /\ subs' = [id \in Ids |-> IF id \in S THEN NoSub ELSE subs[id]]
    /\ ofClient' = [ip \in Clients |-> ofClient[ip] \ S]
    /\ UNCHANGED used

\* sup_unsubscribe over a WebSocket: any ID, whoever subscribed.
handleSupUnsubscribe(id, c) ==
    /\ ~down /\ c \in open \ replying /\ Sub(id)
    /\ RemoveSubscriptions({id})
    /\ replying' = replying \cup {c}
    /\ UNCHANGED <<open, closed, stalled, height, mempool, pollVars, down>>

\* handleRPCRequest: sup_unsubscribe over HTTP.
HttpUnsubscribe(id) ==
    /\ ~down /\ Sub(id)
    /\ RemoveSubscriptions({id})
    /\ UNCHANGED <<open, closed, replying, stalled, height, mempool, pollVars, down>>

\* Any other request over a WebSocket is answered without the lock, also while a
\* notification stalls there.
handleRequest(c) ==
    /\ ~down /\ c \in open \ replying
    /\ replying' = replying \cup {c}
    /\ down' \in IF c \in stalled THEN BOOLEAN ELSE {FALSE}
    /\ UNCHANGED <<open, closed, stalled, managerVars, height, mempool, pollVars>>

\* The goroutine of the connection has written its reply.
ReplyWritten(c) ==
    /\ ~down /\ c \in replying
    /\ replying' = replying \ {c}
    /\ UNCHANGED <<open, closed, stalled, managerVars, height, mempool, pollVars, down>>

-----------------------------------------------------------------------------
(* The node. *)

AppendBlock ==
    /\ ~down /\ height < MaxHeight
    /\ height' = height + 1
    /\ UNCHANGED <<open, closed, replying, stalled, managerVars, mempool, pollVars, down>>

\* A transaction that comes back is a new event for its subscribers.
AddTransaction(t) ==
    /\ ~down /\ t \notin mempool
    /\ mempool' = mempool \cup {t}
    /\ subs' = [id \in Ids |-> IF Sub(id) THEN [subs[id] EXCEPT !.sent[t] = 0] ELSE NoSub]
    /\ UNCHANGED <<open, closed, replying, stalled, used, ofClient, height, pollVars, down>>

RemoveTransaction(t) ==
    /\ ~down /\ t \in mempool
    /\ mempool' = mempool \ {t}
    /\ UNCHANGED <<open, closed, replying, stalled, managerVars, height, pollVars, down>>

-----------------------------------------------------------------------------
(* Notification. *)

\* matchesFilters: only pending transactions are filtered.
matchesFilters(id, type, t) ==
    type = "pending_transactions" /\ subs[id].filtered => t \in Wanted

Receivers(type, t) == {id \in Ids : Sub(id) /\ subs[id].type = type /\ matchesFilters(id, type, t)}

\* NotifySubscribers: what is written to a closed connection fails and leaves
\* LastActivity; told[id] is what a subscription that got it remembers.
NotifySubscribers(R, told) ==
    LET reached == {id \in R : subs[id].conn \in open}
    IN /\ stalled = {}
       /\ \/ /\ subs' = [id \in Ids |-> IF id \in reached THEN [told[id] EXCEPT !.age = 0]
                                        ELSE subs[id]]
             /\ UNCHANGED <<down, used, ofClient>>
          \/ /\ \E id \in reached : subs[id].conn \in replying
             /\ down' = TRUE
             /\ UNCHANGED <<subs, used, ofClient>>

\* What NotifySubscribers is called for next.
Notifying ==
    {<<"new_blocks", 0>> : n \in IF at = "blocks" /\ next <= current THEN {next} ELSE {}}
      \cup {<<"pending_transactions", t>> : t \in IF at = "txs" THEN round \ known ELSE {}}

\* The write to one of the receivers stalls, before what the call does to the rest.
Stall(c) ==
    /\ ~down /\ stalled = {} /\ c \in open
    /\ \E call \in Notifying : \E id \in Receivers(call[1], call[2]) : subs[id].conn = c
    /\ stalled' = {c}
    /\ UNCHANGED <<open, closed, replying, managerVars, height, mempool, pollVars, down>>

\* Its client reads again.
Unstall(c) ==
    /\ ~down /\ c \in stalled
    /\ stalled' = {}
    /\ UNCHANGED <<open, closed, replying, managerVars, height, mempool, pollVars, down>>

\* A tick: the height is read; the transactions follow the blocks.
PollTick ==
    /\ ~down /\ at = "wait"
    /\ at' = "blocks" /\ current' = height /\ next' = lastHeight + 1
    /\ UNCHANGED <<open, closed, replying, stalled, managerVars, height, mempool, lastHeight, round, currentTxs,
                   known, down>>

\* One block of the round; the chain has a block at every height.
PollBlock ==
    /\ ~down /\ at = "blocks" /\ next <= current
    /\ LET R == Receivers("new_blocks", 0)
       IN NotifySubscribers(R, [id \in R |-> [subs[id] EXCEPT !.block = next]])
    /\ next' = next + 1
    /\ UNCHANGED <<open, closed, replying, stalled, height, mempool, at, lastHeight, current, round, currentTxs, known>>

\* Mutant of PollBlocksDone: the height is read once more.
PollBlocksDoneLate ==
    /\ ~down /\ at = "blocks" /\ next > current
    /\ lastHeight' = height
    /\ at' = "txs" /\ round' = mempool /\ currentTxs' = mempool
    /\ current' = 0 /\ next' = 0
    /\ UNCHANGED <<open, closed, replying, stalled, managerVars, height, mempool, known, down>>

\* Mutant of PollBlocksDone: lastBlockHeight is not moved.
PollBlocksDoneStuck ==
    /\ ~down /\ at = "blocks" /\ next > current
    /\ lastHeight' = lastHeight
    /\ at' = "txs" /\ round' = mempool /\ currentTxs' = mempool
    /\ current' = 0 /\ next' = 0
    /\ UNCHANGED <<open, closed, replying, stalled, managerVars, height, mempool, known, down>>

\* The blocks are done: lastBlockHeight, then the mempool is read.
PollBlocksDone ==
    /\ ~down /\ at = "blocks" /\ next > current
    /\ lastHeight' = IF current > lastHeight THEN current ELSE lastHeight
    /\ at' = "txs" /\ round' = mempool /\ currentTxs' = mempool
    /\ current' = 0 /\ next' = 0
    /\ UNCHANGED <<open, closed, replying, stalled, managerVars, height, mempool, known, down>>

\* One transaction of the round that is not known.
PollTransaction(t) ==
    /\ ~down /\ at = "txs" /\ t \in round
    /\ round' = round \ {t}
    /\ t \notin known
    /\ known' = known \cup {t}
    /\ LET R == Receivers("pending_transactions", t)
       IN NotifySubscribers(R, [id \in R |-> [subs[id] EXCEPT !.sent[t] = IF @ < 2 THEN @ + 1 ELSE 2]])
    /\ UNCHANGED <<open, closed, replying, stalled, height, mempool, at, lastHeight, current, next, currentTxs>>

\* Those that are known are passed over; a large knownTxIDs keeps only what was
\* read in this round; the round ends.
PollEnd ==
    /\ ~down /\ at = "txs" /\ round \subseteq known
    /\ known' = IF Cardinality(known) > KnownCap THEN known \cap currentTxs ELSE known
    /\ at' = "wait" /\ round' = {} /\ currentTxs' = {}
    /\ UNCHANGED <<open, closed, replying, stalled, managerVars, height, mempool, lastHeight, current, next,
                   down>>

-----------------------------------------------------------------------------
(* Time. *)

Pass ==
    /\ ~down /\ \E id \in Ids : Sub(id) /\ subs[id].age <= Stale
    /\ subs' = [id \in Ids |-> IF Sub(id) /\ subs[id].age <= Stale
                               THEN [subs[id] EXCEPT !.age = @ + 1] ELSE subs[id]]
    /\ UNCHANGED <<open, closed, replying, stalled, used, ofClient, height, mempool, pollVars, down>>

StaleSubs == {id \in Ids : Sub(id) /\ subs[id].age > Stale}

\* cleanupStaleSubscriptions: every five minutes.
cleanupStaleSubscriptions ==
    /\ ~down /\ StaleSubs # {}
    /\ RemoveSubscriptions(StaleSubs)
    /\ UNCHANGED <<open, closed, replying, stalled, height, mempool, pollVars, down>>

Requests ==
    \/ \E c \in Conns : Connect(c) \/ Disconnect(c) \/ handleRequest(c) \/ ReplyWritten(c)
    \/ \E id \in Ids, c \in Conns, type \in EventTypes, filtered \in BOOLEAN :
          handleSupSubscribe(id, c, type, filtered)
    \/ \E id \in Ids, c \in Conns : handleSupUnsubscribe(id, c)
    \/ \E id \in Ids : HttpUnsubscribe(id)

Poll == PollTick \/ PollBlock \/ PollBlocksDone \/ (\E t \in Txs : PollTransaction(t)) \/ PollEnd

SubsNext ==
    \/ Requests
    \/ AppendBlock
    \/ \E t \in Txs : AddTransaction(t) \/ RemoveTransaction(t)
    \/ Poll
    \/ \E c \in Conns : Stall(c) \/ Unstall(c)
    \/ Pass \/ cleanupStaleSubscriptions

SubsSpec == SubsInit /\ [][SubsNext]_subsVars

-----------------------------------------------------------------------------
\* The two maps of the manager agree after any sequence of subscriptions,
\* removals and cleanups: a client's set holds exactly its subscriptions.  No
\* client has more than the limit.
MapsAgree ==
    \A ip \in Clients :
        /\ ofClient[ip] = {id \in Ids : Sub(id) /\ ClientIP[subs[id].conn] = ip}
        /\ Cardinality(ofClient[ip]) <= MaxPerClient

\* A transaction that stays in the mempool is announced to a subscriber once,
\* whatever the cleaning of knownTxIDs drops.
AnnouncedOnce == \A id \in Ids : Sub(id) => \A t \in mempool : subs[id].sent[t] <= 1

\* A subscriber to new blocks gets consecutive block numbers: none twice, none
\* skipped, none out of order, although blocks arrive while a round runs.
BlocksInOrder ==
    [][\A id \in Ids :
          Sub(id) /\ subs'[id] # NoSub /\ subs'[id].block # subs[id].block /\ subs[id].block # 0
            => subs'[id].block = subs[id].block + 1]_subsVars

\* When a round's blocks are done, a connected subscriber has got every block up
\* to lastBlockHeight that is younger than its subscription.
NoBlockSkipped ==
    \A id \in Ids :
        Sub(id) /\ at # "blocks" /\ ~down =>
            \/ subs[id].type # "new_blocks" \/ subs[id].conn \notin open
            \/ subs[id].since >= lastHeight \/ subs[id].block = lastHeight

\* Subscribers get what they asked for, once, whatever is added, removed or cleaned
\* up between two steps of the poller.
SubscribersServed == SubsTypeOK /\ MapsAgree /\ AnnouncedOnce /\ NoBlockSkipped
============================================================================

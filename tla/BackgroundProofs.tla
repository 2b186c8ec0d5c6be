-------------------------- MODULE BackgroundProofs --------------------------
(***************************************************************************)
(* What runs beside the chain: validators and their monitors, for any      *)
(* stakes, limits and timeouts; and the subscriptions of the  *)
(* RPC server and their poller, for any number of clients, subscriptions,  *)
(* transactions and blocks.                                                *)
(***************************************************************************)
EXTENDS Validators, Subscriptions, FiniteSetTheorems, TLAPS

-----------------------------------------------------------------------------
(* Arithmetic. *)

\* Integer division.
LEMMA Quotient ==
    ASSUME NEW n \in Nat, NEW d \in Nat, d > 0
    PROVE  n \div d \in Nat
  OBVIOUS

\* Integer halves.
LEMMA Half ==
    ASSUME NEW n \in Nat
    PROVE  /\ n \div 2 \in Nat
           /\ n \div 2 <= n
  OBVIOUS

\* A score is a natural number.
LEMMA ScoreType ==
    ASSUME NEW v \in Nat, NEW m \in Nat, v + m > 0
    PROVE  ScoreOf(v, m) \in Nat
  BY Quotient DEF ScoreOf

\* Entries of validators.
LEMMA EntryType ==
    ASSUME NEW b \in BOOLEAN, NEW t \in 0..(MaxTimeouts - 1)
    PROVE  [active |-> b, timeouts |-> t] \in [active : BOOLEAN, timeouts : 0..(MaxTimeouts - 1)]
  OBVIOUS

-----------------------------------------------------------------------------
(* Types and the entries of ValidatorProtocol. *)

\* The fields of Validator that Boolean methods set, apart: the other conjuncts
\* of TypeOK are arithmetic.
Flags == {validating, slashed, selected, ready, stuck, staked, slashing} \subseteq BOOLEAN

\* The flags stay Boolean.
LEMMA FlagsStep == Flags /\ [Next]_vars => Flags'
  <1> SUFFICES ASSUME Flags, [Next]_vars PROVE Flags'
    OBVIOUS
  <1> USE DEF Flags, object, record, pool, watch
  <1>1. CASE Start \/ Stop \/ NotifySelection \/ Vote \/ BroadcastValidatorVote \/ Recover
    BY <1>1 DEF Start, Stop, NotifySelection, Vote, BroadcastValidatorVote, Recover
  <1>2. CASE \E n \in 1..MaxMissed : handleMissedBlocks(n)
    <2> PICK n \in 1..MaxMissed : handleMissedBlocks(n)
      BY <1>2
    <2>1. CASE missed' >= MaxMissed
      <3>1. /\ slashed' = TRUE /\ stuck' = (stake' < MinStake)
            /\ UNCHANGED <<validating, selected, ready, pool>>
        BY <2>1, Zenon DEF handleMissedBlocks, slash
      <3>2. stuck' \in BOOLEAN
        <4>1. CASE stake' < MinStake
          BY <3>1, <4>1, Zenon
        <4>2. CASE ~(stake' < MinStake)
          BY <3>1, <4>2
        <4> QED BY <4>1, <4>2
      <3> QED BY <3>1, <3>2 DEF pool
    <2>2. CASE ~(missed' >= MaxMissed)
      BY <2>2, Zenon DEF handleMissedBlocks
    <2> QED BY <2>1, <2>2
  <1>3. CASE \E success \in BOOLEAN : RecordValidation(success)
    BY <1>3 DEF RecordValidation
  <1>4. CASE HandleViolation \/ SlashValidator \/ TakePenalty \/ ClearExpiredProbation \/ UpdateValidatorSet
    BY <1>4 DEF HandleViolation, SlashValidator, TakePenalty, ClearExpiredProbation, UpdateValidatorSet
  <1>5. CASE AddValidator \/ RemoveStake \/ distributeRewards
    BY <1>5 DEF AddValidator, RemoveStake, distributeRewards
  <1>6. CASE HandleHeartbeat \/ RemoveValidator \/ Tick
    BY <1>6 DEF HandleHeartbeat, RemoveValidator, Tick
  <1>7. CASE UNCHANGED vars
    BY <1>7 DEF vars
  <1> QED BY <1>1, <1>2, <1>3, <1>4, <1>5, <1>6, <1>7 DEF Next

\* The two maps of ValidatorProtocol change together, so WatchAgrees is
\* inductive with the types.
LEMMA WatchStep == WatchAgrees /\ [Next]_vars => WatchAgrees'
  <1> SUFFICES ASSUME WatchAgrees, [Next]_vars PROVE WatchAgrees'
    OBVIOUS
  <1> USE ValidatorsAssumption
  <1>0. Flags'
    BY FlagsStep DEF WatchAgrees, TypeOK, Flags
  <1> USE DEF WatchAgrees, TypeOK, ActiveIsRecent, HeartbeatsHaveState, object, record, pool, watch
  <1>1. CASE Start \/ Stop \/ NotifySelection \/ Vote \/ BroadcastValidatorVote \/ Recover
    BY <1>0, <1>1 DEF Start, Stop, NotifySelection, Vote, BroadcastValidatorVote, Recover, Statuses, Flags
  <1>2. CASE \E n \in 1..MaxMissed : handleMissedBlocks(n)
    <2> PICK n \in 1..MaxMissed : handleMissedBlocks(n)
      BY <1>2
    <2>1. missed' \in 0..MissLimit
      BY DEF handleMissedBlocks
    <2>2. stake' \in 0..MaxStake
      BY Half DEF handleMissedBlocks, slash
    <2> QED BY <1>0, <2>1, <2>2 DEF handleMissedBlocks, Flags
  <1>3. CASE \E success \in BOOLEAN : RecordValidation(success)
    <2> PICK success \in BOOLEAN : RecordValidation(success)
      BY <1>3
    <2>1. validated' \in Nat /\ failed' \in Nat /\ validated' + failed' <= MaxRecords
          /\ validated' + failed' > 0
      BY DEF RecordValidation
    <2>2. score' \in Nat
      BY <2>1, ScoreType DEF RecordValidation
    <2>3. status' \in Statuses
      BY DEF RecordValidation, StatusAfter, Statuses
    <2> QED BY <1>0, <2>1, <2>2, <2>3 DEF RecordValidation, Flags
  <1>4. CASE HandleViolation \/ SlashValidator \/ ClearExpiredProbation \/ UpdateValidatorSet
    BY <1>0, <1>4 DEF HandleViolation, SlashValidator, ClearExpiredProbation, UpdateValidatorSet,
                      Statuses, Flags
  <1>5. CASE TakePenalty
    BY <1>0, <1>5 DEF TakePenalty, Statuses, Flags
  <1>6. CASE AddValidator \/ RemoveStake \/ distributeRewards
    BY <1>0, <1>6 DEF AddValidator, RemoveStake, distributeRewards, Flags
  <1>7. CASE HandleHeartbeat \/ RemoveValidator
    <2> DEFINE Entries == [active : BOOLEAN, timeouts : 0..(MaxTimeouts - 1)]
    <2>1. entry \in Entries => entry.timeouts \in 0..(MaxTimeouts - 1)
      OBVIOUS
    <2>2. entry' \in Entries \cup {NoEntry}
      <3> DEFINE t == IF entry = NoEntry THEN 0 ELSE entry.timeouts
      <3>1. t \in 0..(MaxTimeouts - 1)
        BY <2>1
      <3>2. entry' = [active |-> TRUE, timeouts |-> t] \/ entry' = NoEntry
        BY <1>7 DEF HandleHeartbeat, RemoveValidator
      <3> QED BY <3>1, <3>2, EntryType
    <2>3. age' \in -1..(Timeout + 1) /\ ActiveIsRecent' /\ HeartbeatsHaveState'
      BY <1>7 DEF HandleHeartbeat, RemoveValidator, NoEntry
    <2> QED BY <1>0, <1>7, <2>2, <2>3 DEF HandleHeartbeat, RemoveValidator, Flags
  <1>8. CASE Tick
    <2> DEFINE Entries == [active : BOOLEAN, timeouts : 0..(MaxTimeouts - 1)]
    <2>1. entry \in Entries => entry.timeouts \in 0..(MaxTimeouts - 1)
      OBVIOUS
    <2>2. entry' \in Entries \cup {NoEntry}
      <3> DEFINE t == entry.timeouts + 1
      <3>1. \/ entry' = entry \/ entry' = NoEntry
            \/ entry' = [active |-> FALSE, timeouts |-> t] /\ age # -1 /\ ~(t >= MaxTimeouts)
        BY <1>8, Zenon DEF Tick, checkValidatorHeartbeats, handleValidatorTimeout
      <3>2. age # -1 /\ ~(t >= MaxTimeouts) => t \in 0..(MaxTimeouts - 1)
        <4>1. age # -1 => entry \in Entries
          BY DEF NoEntry
        <4>2. MaxTimeouts \in Nat
          OBVIOUS
        <4> HIDE DEF Entries
        <4> QED BY <2>1, <4>1, <4>2
      <3> QED BY <3>1, <3>2, EntryType
    <2>3. age' \in -1..(Timeout + 1) /\ ActiveIsRecent' /\ HeartbeatsHaveState'
      BY <1>8, <2>1 DEF Tick, checkValidatorHeartbeats, handleValidatorTimeout, NoEntry
    <2> QED BY <1>0, <1>8, <2>2, <2>3 DEF Tick, Flags
  <1>9. CASE UNCHANGED vars
    BY <1>0, <1>9 DEF vars, Flags
  <1> QED BY <1>1, <1>2, <1>3, <1>4, <1>5, <1>6, <1>7, <1>8, <1>9 DEF Next

\* Nobody is watched at the start.
LEMMA InitWatch == Init => WatchAgrees
  <1> SUFFICES ASSUME Init PROVE WatchAgrees
    OBVIOUS
  <1> USE ValidatorsAssumption DEF Init
  <1>1. {validating, slashed, selected, ready, stuck, staked, slashing} \subseteq BOOLEAN
    OBVIOUS
  <1>2. ActiveIsRecent /\ HeartbeatsHaveState
    BY DEF ActiveIsRecent, HeartbeatsHaveState, NoEntry
  <1> QED BY <1>1, <1>2 DEF WatchAgrees, TypeOK, Statuses

\* ValidatorProtocol keeps an entry and the time of a heartbeat for the same
\* validators, and one that is active was heard of within the timeout, however
\* heartbeats, timeouts and removals follow each other.
THEOREM WatchAlwaysAgrees == Spec => []WatchAgrees
  BY InitWatch, WatchStep, PTL DEF Spec

-----------------------------------------------------------------------------
(* Slashing for missed blocks. *)

\* What keeps a slashed validator out: the flag is set with the missed block that
\* reaches the limit and never goes, while its status, its score and its stake
\* come back.
FlagStays == missed >= MaxMissed => slashed

\* Once it has missed MaxMissed blocks a validator is neither selected nor found
\* ready to vote, although Recover, ClearExpiredProbation and RecordValidation
\* make it active again and distributeRewards restores its stake.
THEOREM SlashedTakesNoPart == Spec => NoPartAfterSlash
  <1>1. Init => FlagStays
    BY ValidatorsAssumption DEF Init, FlagStays
  <1>2. FlagStays /\ [Next]_vars => FlagStays'
    <2> SUFFICES ASSUME FlagStays, [Next]_vars PROVE FlagStays'
      OBVIOUS
    <2>1. CASE \E n \in 1..MaxMissed : handleMissedBlocks(n)
      BY <2>1 DEF handleMissedBlocks, slash, FlagStays
    <2>2. CASE UNCHANGED <<missed, slashed>>
      BY <2>2 DEF FlagStays
    <2>3. (\E n \in 1..MaxMissed : handleMissedBlocks(n)) \/ UNCHANGED <<missed, slashed>>
      BY DEF Next, vars, object, Start, Stop, NotifySelection, Vote, BroadcastValidatorVote, Recover,
             RecordValidation, HandleViolation, SlashValidator, TakePenalty, ClearExpiredProbation,
             UpdateValidatorSet, AddValidator, RemoveStake, distributeRewards, HandleHeartbeat,
             RemoveValidator, Tick
    <2> QED BY <2>1, <2>2, <2>3
  <1>3. FlagStays /\ [Next]_vars =>
          [missed >= MaxMissed => (selected' => selected) /\ (ready' => ready)]_vars
    <2> SUFFICES ASSUME FlagStays, Next, missed >= MaxMissed
                 PROVE  (selected' => selected) /\ (ready' => ready)
      OBVIOUS
    <2>1. slashed
      BY DEF FlagStays
    <2>2. ~NotifySelection /\ ~Vote
      BY <2>1 DEF NotifySelection, CheckSelectionEligibility, Vote, IsReady
    <2>3. CASE BroadcastValidatorVote
      BY <2>3 DEF BroadcastValidatorVote
    <2>4. BroadcastValidatorVote \/ UNCHANGED <<selected, ready>>
      BY <2>2 DEF Next, vars, object, Start, Stop, Recover, handleMissedBlocks,
             RecordValidation, HandleViolation, SlashValidator, TakePenalty, ClearExpiredProbation,
             UpdateValidatorSet, AddValidator, RemoveStake, distributeRewards, HandleHeartbeat,
             RemoveValidator, Tick
    <2>5. CASE UNCHANGED <<selected, ready>>
      BY <2>5
    <2> QED BY <2>3, <2>4, <2>5
  <1> QED BY <1>1, <1>2, <1>3, PTL DEF Spec, NoPartAfterSlash

-----------------------------------------------------------------------------
(* Subscriptions. *)

\* A subscription has an ID that was given out and a connection that was opened.
SubsKnown ==
    /\ \A id \in Ids : Sub(id) => id \in used /\ subs[id].conn \in open \cup closed
    /\ \A ip \in Clients : IsFiniteSet(ofClient[ip])

\* What a subscriber was told of the mempool is known to the poller, and was in the
\* mempool when the poller read it for the present round.
SentKnown ==
    /\ round \subseteq currentTxs
    /\ \A id \in Ids, t \in mempool :
          Sub(id) /\ subs[id].sent[t] >= 1 =>
              subs[id].sent[t] = 1 /\ t \in known /\ (at = "txs" => t \in currentTxs)

\* The last block that the poller has announced.
Told == IF at = "blocks" THEN next - 1 ELSE lastHeight

\* A round announces the blocks from lastBlockHeight + 1 to the height read.
RoundInRange ==
    /\ lastHeight <= height /\ Told <= height
    /\ at = "blocks" =>
          /\ current <= height /\ next >= lastHeight + 1
          /\ next = lastHeight + 1 \/ next <= current + 1

\* A connected subscriber to new blocks has got the last one, or none yet because it
\* came after it.
UpToDate ==
    \A id \in Ids :
        Sub(id) /\ subs[id].type = "new_blocks" /\ subs[id].conn \in open /\ ~down =>
            subs[id].block = Told \/ (subs[id].block = 0 /\ subs[id].since >= Told)

SubsInv == SubsTypeOK /\ MapsAgree /\ SubsKnown /\ SentKnown /\ RoundInRange /\ UpToDate

-----------------------------------------------------------------------------
(* Subscription records. *)

\* An ID either has a subscription or is free.
LEMMA SubRecord ==
    ASSUME SubsTypeOK, NEW id \in Ids
    PROVE  /\ Sub(id) <=> subs[id] \in SubRecords
           /\ ~Sub(id) <=> subs[id] = NoSub
  <1>1. NoSub \notin SubRecords
    <2>1. \A r \in SubRecords : r.type \in EventTypes
      BY DEF SubRecords
    <2>2. NoSub.type = "none"
      BY DEF NoSub
    <2> QED BY <2>1, <2>2 DEF EventTypes
  <1> QED BY <1>1 DEF SubsTypeOK, Sub

\* A subscription with another age, block or count of a transaction is one still.
LEMMA AgeChanged ==
    ASSUME NEW r \in SubRecords, NEW a \in 0..(Stale + 1)
    PROVE  LET q == [r EXCEPT !.age = a] IN
           /\ q \in SubRecords
           /\ q.type = r.type /\ q.conn = r.conn /\ q.since = r.since /\ q.block = r.block /\ q.sent = r.sent
  BY DEF SubRecords

\* A subscription that was told of a block.
LEMMA BlockChanged ==
    ASSUME NEW r \in SubRecords, NEW n \in 0..MaxHeight
    PROVE  LET q == [r EXCEPT !.block = n] IN
           /\ q \in SubRecords
           /\ q.type = r.type /\ q.conn = r.conn /\ q.since = r.since /\ q.block = n /\ q.sent = r.sent
  BY DEF SubRecords

\* A subscription that was told of a transaction.
LEMMA SentChanged ==
    ASSUME NEW r \in SubRecords, NEW t \in Txs, NEW n \in 0..2, NEW q, q = [r EXCEPT !.sent[t] = n]
    PROVE  /\ q \in SubRecords
           /\ q.type = r.type /\ q.conn = r.conn /\ q.since = r.since /\ q.block = r.block
           /\ q.sent[t] = n /\ \A u \in Txs : u # t => q.sent[u] = r.sent[u]
  BY DEF SubRecords

-----------------------------------------------------------------------------
(* How the subscriptions may change. *)

\* The same subscriptions stay, with their type, connection and start.
SameSubs ==
    /\ used' = used /\ ofClient' = ofClient
    /\ subs' \in [Ids -> SubRecords \cup {NoSub}]
    /\ \A id \in Ids : Sub(id)' <=> Sub(id)
    /\ \A id \in Ids : Sub(id) => /\ subs'[id].type = subs[id].type
                                  /\ subs'[id].conn = subs[id].conn
                                  /\ subs'[id].since = subs[id].since

\* Steps outside the manager change no subscription.
LEMMA UnchangedSubs ==
    ASSUME SubsTypeOK, UNCHANGED managerVars
    PROVE  SameSubs /\ subs' = subs
  BY DEF SameSubs, managerVars, SubsTypeOK, Sub

\* The two maps agree as long as no subscription comes or goes.
LEMMA MapsKept ==
    ASSUME SubsTypeOK, MapsAgree, SubsKnown, SameSubs, open \cup closed \subseteq open' \cup closed'
    PROVE  MapsAgree' /\ SubsKnown'
  <1>1. \A ip \in Clients : {id \in Ids : Sub(id)' /\ ClientIP[subs'[id].conn] = ip}
                              = {id \in Ids : Sub(id) /\ ClientIP[subs[id].conn] = ip}
    BY DEF SameSubs
  <1> QED BY <1>1 DEF SameSubs, MapsAgree, SubsKnown

\* A subscription is added below the client's limit.
LEMMA AddKeepsMaps ==
    ASSUME SubsTypeOK, MapsAgree, SubsKnown, NEW id \in Ids, NEW c \in open, NEW type \in EventTypes,
           NEW filtered \in BOOLEAN, AddSubscription(id, c, type, filtered), UNCHANGED <<open, closed>>
    PROVE  /\ MapsAgree' /\ SubsKnown' /\ used' \subseteq Ids
           /\ subs' \in [Ids -> SubRecords \cup {NoSub}] /\ ofClient' \in [Clients -> SUBSET Ids]
           /\ ~Sub(id) /\ \A d \in Ids : d # id => subs'[d] = subs[d]
           /\ Sub(id)' /\ subs'[id].type = type /\ subs'[id].conn = c /\ subs'[id].since = height
           /\ subs'[id].block = 0 /\ \A t \in Txs : subs'[id].sent[t] = 0
  <1> DEFINE r == [type |-> type, conn |-> c, filtered |-> filtered, age |-> 0,
                   block |-> 0, since |-> height, sent |-> [t \in Txs |-> 0]]
             here == ClientIP[c]
  <1>1. /\ id \notin used /\ Cardinality(ofClient[here]) < MaxPerClient
        /\ used' = used \cup {id} /\ subs' = [subs EXCEPT ![id] = r]
        /\ ofClient' = [ofClient EXCEPT ![here] = @ \cup {id}]
    BY DEF AddSubscription
  <1>2. c \in Conns /\ here \in Clients /\ ~Sub(id)
    BY <1>1 DEF SubsTypeOK, Clients, SubsKnown
  <1>3. r \in SubRecords /\ r # NoSub
    <2>1. r \in SubRecords
      BY <1>2, SubscriptionsAssumption DEF SubRecords, SubsTypeOK
    <2>2. r.type # NoSub.type
      BY DEF EventTypes, NoSub
    <2> QED BY <2>1, <2>2
  <1>4. r.type = type /\ r.conn = c /\ r.since = height /\ r.block = 0 /\ \A t \in Txs : r.sent[t] = 0
    OBVIOUS
  <1> HIDE DEF r
  <1>5. /\ subs' \in [Ids -> SubRecords \cup {NoSub}] /\ subs'[id] = r
        /\ \A d \in Ids : d # id => subs'[d] = subs[d]
    BY <1>1, <1>3 DEF SubsTypeOK
  <1>6. /\ ofClient' \in [Clients -> SUBSET Ids] /\ ofClient'[here] = ofClient[here] \cup {id}
        /\ \A ip \in Clients : ip # here => ofClient'[ip] = ofClient[ip]
    BY <1>1, <1>2 DEF SubsTypeOK
  <1>7. /\ \A d \in Ids : d # id => (Sub(d)' <=> Sub(d))
        /\ Sub(id)'
    BY <1>3, <1>5 DEF Sub
  <1>8. ASSUME NEW ip \in Clients
        PROVE  ofClient'[ip] = {d \in Ids : Sub(d)' /\ ClientIP[subs'[d].conn] = ip}
    <2>1. ofClient[ip] = {d \in Ids : Sub(d) /\ ClientIP[subs[d].conn] = ip}
      BY DEF MapsAgree
    <2>2. ASSUME NEW d \in Ids
          PROVE  d \in ofClient'[ip] <=> Sub(d)' /\ ClientIP[subs'[d].conn] = ip
      <3>1. CASE d = id
        <4>1. d \notin ofClient[ip] /\ subs'[d].conn = c
          BY <1>2, <1>4, <1>5, <2>1, <3>1
        <4> QED BY <1>6, <1>7, <3>1, <4>1
      <3>2. CASE d # id
        BY <1>5, <1>6, <1>7, <2>1, <3>2
      <3> QED BY <3>1, <3>2
    <2> QED BY <1>6, <2>2
  <1>9. ASSUME NEW ip \in Clients
        PROVE  IsFiniteSet(ofClient'[ip]) /\ Cardinality(ofClient'[ip]) <= MaxPerClient
    <2>1. IsFiniteSet(ofClient[ip]) /\ Cardinality(ofClient[ip]) <= MaxPerClient
      BY DEF SubsKnown, MapsAgree
    <2>2. CASE ip = here
      <3>1. id \notin ofClient[here]
        BY <1>2 DEF MapsAgree
      <3>2. IsFiniteSet(ofClient[here] \cup {id})
            /\ Cardinality(ofClient[here] \cup {id}) = Cardinality(ofClient[here]) + 1
        BY <2>1, <2>2, <3>1, FS_AddElement
      <3>3. Cardinality(ofClient[here]) \in Nat
        BY <2>1, <2>2, FS_CardinalityType
      <3>4. Cardinality(ofClient[here]) + 1 <= MaxPerClient
        BY <1>1, <3>3, SubscriptionsAssumption
      <3>5. ofClient'[ip] = ofClient[here] \cup {id}
        BY <1>6, <2>2
      <3> QED BY <3>2, <3>4, <3>5
    <2> QED BY <1>6, <2>1, <2>2
  <1>10. MapsAgree'
    BY <1>8, <1>9 DEF MapsAgree
  <1>11. SubsKnown'
    BY <1>1, <1>4, <1>5, <1>7, <1>9 DEF SubsKnown
  <1> QED BY <1>1, <1>2, <1>4, <1>5, <1>6, <1>7, <1>10, <1>11 DEF SubsTypeOK

\* Removal from both maps keeps them in agreement.
LEMMA RemoveKeepsMaps ==
    ASSUME SubsTypeOK, MapsAgree, SubsKnown, NEW S, RemoveSubscriptions(S), UNCHANGED <<open, closed>>
    PROVE  /\ MapsAgree' /\ SubsKnown' /\ used' = used
           /\ subs' \in [Ids -> SubRecords \cup {NoSub}] /\ ofClient' \in [Clients -> SUBSET Ids]
           /\ \A id \in Ids : Sub(id)' => Sub(id) /\ subs'[id] = subs[id]
  <1>1. /\ subs' = [id \in Ids |-> IF id \in S THEN NoSub ELSE subs[id]]
        /\ ofClient' = [ip \in Clients |-> ofClient[ip] \ S]
        /\ used' = used
    BY DEF RemoveSubscriptions
  <1>2. \A id \in Ids : (id \in S => ~Sub(id)') /\ (id \notin S => subs'[id] = subs[id] /\ (Sub(id)' <=> Sub(id)))
    BY <1>1 DEF Sub
  <1>3. subs' \in [Ids -> SubRecords \cup {NoSub}] /\ ofClient' \in [Clients -> SUBSET Ids]
    BY <1>1 DEF SubsTypeOK
  <1>4. ASSUME NEW ip \in Clients
        PROVE  /\ ofClient'[ip] = {id \in Ids : Sub(id)' /\ ClientIP[subs'[id].conn] = ip}
               /\ IsFiniteSet(ofClient'[ip]) /\ Cardinality(ofClient'[ip]) <= MaxPerClient
    <2>1. /\ ofClient[ip] = {id \in Ids : Sub(id) /\ ClientIP[subs[id].conn] = ip}
          /\ Cardinality(ofClient[ip]) <= MaxPerClient /\ IsFiniteSet(ofClient[ip])
      BY DEF MapsAgree, SubsKnown
    <2>2. ofClient'[ip] = ofClient[ip] \ S /\ ofClient'[ip] \subseteq ofClient[ip]
      BY <1>1
    <2>3. ofClient'[ip] = {id \in Ids : Sub(id)' /\ ClientIP[subs'[id].conn] = ip}
      BY <1>2, <2>1, <2>2
    <2>4. /\ IsFiniteSet(ofClient'[ip]) /\ Cardinality(ofClient'[ip]) <= Cardinality(ofClient[ip])
          /\ Cardinality(ofClient'[ip]) \in Nat /\ Cardinality(ofClient[ip]) \in Nat
      BY <2>1, <2>2, FS_Subset, FS_CardinalityType
    <2> QED BY <2>1, <2>3, <2>4, SubscriptionsAssumption
  <1>5. MapsAgree'
    BY <1>4 DEF MapsAgree
  <1>6. SubsKnown'
    BY <1>1, <1>2, <1>4 DEF SubsKnown
  <1> QED BY <1>1, <1>2, <1>3, <1>5, <1>6

\* A notification changes what its receivers remember, and nothing else.
LEMMA NotifyLeaves ==
    ASSUME SubsTypeOK, NEW R \in SUBSET Ids, \A id \in R : Sub(id), NEW told,
           \A id \in R : /\ told[id] \in SubRecords
                         /\ told[id].type = subs[id].type /\ told[id].conn = subs[id].conn
                         /\ told[id].since = subs[id].since,
           NotifySubscribers(R, told)
    PROVE  /\ SameSubs
           /\ \A id \in Ids :
                 \/ subs'[id] = subs[id] /\ (id \in R /\ subs[id].conn \in open => down')
                 \/ id \in R /\ subs'[id].block = told[id].block /\ subs'[id].sent = told[id].sent
                    /\ subs[id].conn \in open
           /\ down' \in BOOLEAN
  <1>0. Stale + 1 \in Nat /\ 0 \in 0..(Stale + 1)
    BY SubscriptionsAssumption
  <1> DEFINE reached == {id \in R : subs[id].conn \in open}
             new(id) == [told[id] EXCEPT !.age = 0]
  <1>1. CASE /\ subs' = [id \in Ids |-> IF id \in reached THEN new(id) ELSE subs[id]]
             /\ UNCHANGED <<down, used, ofClient>>
    <2>1. ASSUME NEW id \in reached
          PROVE  /\ new(id) \in SubRecords /\ new(id).type = told[id].type /\ new(id).conn = told[id].conn
                 /\ new(id).since = told[id].since /\ new(id).block = told[id].block /\ new(id).sent = told[id].sent
      BY <1>0, AgeChanged
    <2> HIDE DEF new
    <2>2. \A id \in Ids : /\ id \in reached => subs'[id] = new(id)
                          /\ id \notin reached => subs'[id] = subs[id]
      BY <1>1
    <2>3. subs' \in [Ids -> SubRecords \cup {NoSub}]
      BY <1>1, <2>1 DEF SubsTypeOK
    <2>4. \A id \in Ids : Sub(id)' <=> Sub(id)
      <3>1. \A id \in reached : new(id) # NoSub
        <4>1. \A r \in SubRecords : r.type \in EventTypes
          BY DEF SubRecords
        <4>2. NoSub.type \notin EventTypes
          BY DEF NoSub, EventTypes
        <4> QED BY <2>1, <4>1, <4>2
      <3> QED BY <2>2, <3>1 DEF Sub
    <2>5. SameSubs
      BY <1>1, <2>1, <2>2, <2>3, <2>4 DEF SameSubs
    <2> QED BY <1>1, <2>1, <2>2, <2>5 DEF SubsTypeOK
  <1>2. CASE down' = TRUE /\ UNCHANGED <<subs, used, ofClient>>
    BY <1>2 DEF SameSubs, SubsTypeOK, Sub
  <1> QED BY <1>1, <1>2 DEF NotifySubscribers

-----------------------------------------------------------------------------
(* Preservation. *)

\* Subscribers stay up to date while the poller's height stays.
LEMMA UpToDateKept ==
    ASSUME SubsTypeOK, UpToDate, SubsKnown, SameSubs, Told' = Told, down => down',
           open' \cap closed \subseteq open,
           \A id \in Ids : Sub(id) => subs'[id].block = subs[id].block
    PROVE  UpToDate'
  <1> SUFFICES ASSUME NEW id \in Ids, Sub(id)', subs'[id].type = "new_blocks", subs'[id].conn \in open', ~down'
               PROVE  subs'[id].block = Told' \/ (subs'[id].block = 0 /\ subs'[id].since >= Told')
    BY DEF UpToDate
  <1>1. Sub(id) /\ subs[id].type = "new_blocks" /\ subs[id].conn \in open' /\ subs'[id].since = subs[id].since
    BY DEF SameSubs
  <1>2. subs[id].conn \in open /\ ~down
    BY <1>1 DEF SubsKnown
  <1> QED BY <1>1, <1>2 DEF UpToDate

\* What was announced stays known while nothing new is pooled.
LEMMA SentKept ==
    ASSUME SubsTypeOK, SentKnown, SameSubs, mempool' \subseteq mempool, known \subseteq known',
           round' \subseteq currentTxs', at' = "txs" => at = "txs" /\ currentTxs' = currentTxs,
           \A id \in Ids : Sub(id) => subs'[id].sent = subs[id].sent
    PROVE  SentKnown'
  BY DEF SentKnown, SameSubs

\* Steps that leave the subscriptions and the poller alone.
LEMMA OutsideKeeps ==
    ASSUME SubsInv,
           \/ \E c \in Conns : Connect(c) \/ Disconnect(c) \/ ReplyWritten(c)
           \/ \E c \in Conns : handleRequest(c) \/ Stall(c) \/ Unstall(c)
           \/ AppendBlock
           \/ \E t \in Txs : RemoveTransaction(t)
    PROVE  SubsInv'
  <1>a. SubsTypeOK /\ MapsAgree /\ SubsKnown /\ SentKnown /\ RoundInRange /\ UpToDate
    BY DEF SubsInv
  <1>0. MaxHeight \in Nat /\ height \in Int /\ lastHeight \in Int /\ next \in Int /\ current \in Int
    BY <1>a, SubscriptionsAssumption DEF SubsTypeOK
  <1>1. /\ UNCHANGED managerVars /\ UNCHANGED <<at, lastHeight, current, next, round, currentTxs, known>>
        /\ (down => down') /\ open \cup closed \subseteq open' \cup closed' /\ open' \cap closed \subseteq open
        /\ mempool' \subseteq mempool /\ (height' = height \/ (height < MaxHeight /\ height' = height + 1))
    BY DEF Connect, Disconnect, ReplyWritten, handleRequest, Stall, Unstall, AppendBlock, RemoveTransaction, pollVars
  <1>2. SameSubs /\ subs' = subs
    BY <1>a, <1>1, UnchangedSubs
  <1>3. SubsTypeOK'
    <2>1. height' \in 0..MaxHeight
      BY <1>a, <1>0, <1>1 DEF SubsTypeOK
    <2>2. open' \subseteq Conns /\ closed' \subseteq Conns /\ replying' \subseteq Conns /\ stalled' \subseteq Conns
      BY <1>a DEF SubsTypeOK, Connect, Disconnect, ReplyWritten, handleRequest, Stall, Unstall, AppendBlock,
         RemoveTransaction
    <2>3. down' \in BOOLEAN
      <3>1. down' = down \/ down' \in BOOLEAN \/ down' \in {FALSE}
        BY Zenon DEF Connect, Disconnect, ReplyWritten, handleRequest, Stall, Unstall, AppendBlock, RemoveTransaction
      <3> QED BY <1>a, <3>1, Zenon DEF SubsTypeOK
    <2> QED BY <1>a, <1>1, <2>1, <2>2, <2>3 DEF SubsTypeOK, managerVars
  <1>4. Told' = Told /\ Told \in Int
    BY <1>0, <1>1 DEF Told
  <1>5. RoundInRange'
    BY <1>a, <1>0, <1>1, <1>4 DEF RoundInRange
  <1>6. MapsAgree' /\ SubsKnown'
    BY <1>a, <1>1, <1>2, MapsKept
  <1>7. round' \subseteq currentTxs'
    BY <1>a, <1>1 DEF SentKnown
  <1>8. SentKnown' /\ UpToDate'
    BY <1>a, <1>1, <1>2, <1>4, <1>7, SentKept, UpToDateKept
  <1> QED BY <1>3, <1>5, <1>6, <1>8 DEF SubsInv

\* A new subscription.
LEMMA SubscribeKeeps ==
    ASSUME SubsInv, NEW id \in Ids, NEW c \in Conns, NEW type \in EventTypes, NEW filtered \in BOOLEAN,
           handleSupSubscribe(id, c, type, filtered)
    PROVE  SubsInv'
  <1>a. SubsTypeOK /\ MapsAgree /\ SubsKnown /\ SentKnown /\ RoundInRange /\ UpToDate
    BY DEF SubsInv
  <1>1. /\ c \in open /\ AddSubscription(id, c, type, filtered) /\ replying' = replying \cup {c}
        /\ UNCHANGED <<open, closed, stalled, height, mempool, at, lastHeight, current, next, round, currentTxs, known, down>>
    BY DEF handleSupSubscribe, pollVars
  <1>2. /\ MapsAgree' /\ SubsKnown' /\ used' \subseteq Ids
        /\ subs' \in [Ids -> SubRecords \cup {NoSub}] /\ ofClient' \in [Clients -> SUBSET Ids]
        /\ ~Sub(id) /\ \A d \in Ids : d # id => subs'[d] = subs[d]
        /\ Sub(id)' /\ subs'[id].since = height
        /\ subs'[id].block = 0 /\ \A t \in Txs : subs'[id].sent[t] = 0
    BY <1>a, <1>1, AddKeepsMaps
  <1>3. SubsTypeOK'
    BY <1>a, <1>1, <1>2 DEF SubsTypeOK
  <1>4. Told' = Told
    BY <1>1 DEF Told
  <1>5. RoundInRange'
    BY <1>a, <1>1, <1>4 DEF RoundInRange
  <1>6. \A d \in Ids : d # id => (Sub(d)' <=> Sub(d))
    BY <1>2 DEF Sub
  <1>7. SentKnown'
    <2>1. \A t \in mempool : ~(subs'[id].sent[t] >= 1)
      BY <1>a, <1>2 DEF SubsTypeOK
    <2> QED BY <1>a, <1>1, <1>2, <1>6, <2>1 DEF SentKnown
  <1>8. UpToDate'
    <2>1. height >= Told
      BY <1>a, SubscriptionsAssumption DEF RoundInRange, Told, SubsTypeOK
    <2> QED BY <1>a, <1>1, <1>2, <1>4, <1>6, <2>1 DEF UpToDate
  <1> QED BY <1>2, <1>3, <1>5, <1>7, <1>8 DEF SubsInv

\* An unsubscription, over either protocol, and the cleanup of stale ones.
LEMMA RemoveKeeps ==
    ASSUME SubsInv,
           \/ \E id \in Ids, c \in Conns : handleSupUnsubscribe(id, c)
           \/ \E id \in Ids : HttpUnsubscribe(id)
           \/ cleanupStaleSubscriptions
    PROVE  SubsInv'
  <1>a. SubsTypeOK /\ MapsAgree /\ SubsKnown /\ SentKnown /\ RoundInRange /\ UpToDate
    BY DEF SubsInv
  <1>1. /\ \E S : RemoveSubscriptions(S)
        /\ UNCHANGED <<open, closed, stalled, height, mempool, at, lastHeight, current, next, round, currentTxs, known, down>>
        /\ replying' \subseteq Conns
    BY <1>a DEF handleSupUnsubscribe, HttpUnsubscribe, cleanupStaleSubscriptions, pollVars, SubsTypeOK
  <1>2. /\ MapsAgree' /\ SubsKnown' /\ used' = used
        /\ subs' \in [Ids -> SubRecords \cup {NoSub}] /\ ofClient' \in [Clients -> SUBSET Ids]
        /\ \A id \in Ids : Sub(id)' => Sub(id) /\ subs'[id] = subs[id]
    BY <1>a, <1>1, RemoveKeepsMaps
  <1>3. SubsTypeOK'
    BY <1>a, <1>1, <1>2 DEF SubsTypeOK
  <1>4. Told' = Told
    BY <1>1 DEF Told
  <1>5. RoundInRange'
    BY <1>a, <1>1, <1>4 DEF RoundInRange
  <1>6. SentKnown'
    BY <1>a, <1>1, <1>2 DEF SentKnown
  <1>7. UpToDate'
    BY <1>a, <1>1, <1>2, <1>4 DEF UpToDate
  <1> QED BY <1>2, <1>3, <1>5, <1>6, <1>7 DEF SubsInv

\* A transaction comes, or comes back: no subscriber was told of it.
LEMMA AddTransactionKeeps ==
    ASSUME SubsInv, NEW t \in Txs, AddTransaction(t)
    PROVE  SubsInv'
  <1>a. SubsTypeOK /\ MapsAgree /\ SubsKnown /\ SentKnown /\ RoundInRange /\ UpToDate
    BY DEF SubsInv
  <1> DEFINE new(id) == [subs[id] EXCEPT !.sent[t] = 0]
  <1>1. /\ mempool' = mempool \cup {t}
        /\ subs' = [id \in Ids |-> IF Sub(id) THEN new(id) ELSE NoSub]
        /\ UNCHANGED <<open, closed, replying, stalled, used, ofClient, height, at, lastHeight, current, next, round,
                       currentTxs, known, down>>
    BY DEF AddTransaction, pollVars
  <1>2. ASSUME NEW id \in Ids, Sub(id)
        PROVE  /\ new(id) \in SubRecords
               /\ new(id).type = subs[id].type /\ new(id).conn = subs[id].conn /\ new(id).since = subs[id].since
               /\ new(id).block = subs[id].block
               /\ new(id).sent[t] = 0 /\ \A u \in Txs : u # t => new(id).sent[u] = subs[id].sent[u]
    <2>1. subs[id] \in SubRecords
      BY <1>a, <1>2, SubRecord
    <2>2. 0 \in 0..2
      OBVIOUS
    <2>3. new(id) = [subs[id] EXCEPT !.sent[t] = 0]
      OBVIOUS
    <2> HIDE DEF new
    <2> QED BY <2>1, <2>2, <2>3, SentChanged
  <1> HIDE DEF new
  <1>3. \A id \in Ids : (Sub(id) => subs'[id] = new(id)) /\ (~Sub(id) => subs'[id] = NoSub)
    BY <1>1
  <1>4. SameSubs
    <2>1. subs' \in [Ids -> SubRecords \cup {NoSub}]
      BY <1>1, <1>2
    <2>2. \A id \in Ids : Sub(id) => new(id) # NoSub
      <3>1. \A r \in SubRecords : r.type \in EventTypes
        BY DEF SubRecords
      <3>2. NoSub.type \notin EventTypes
        BY DEF NoSub, EventTypes
      <3> QED BY <1>2, <3>1, <3>2
    <2>3. \A id \in Ids : Sub(id)' <=> Sub(id)
      BY <1>3, <2>2 DEF Sub
    <2> QED BY <1>1, <1>2, <1>3, <2>1, <2>3 DEF SameSubs
  <1>5. SubsTypeOK'
    BY <1>a, <1>1, <1>4 DEF SubsTypeOK, SameSubs
  <1>6. Told' = Told
    BY <1>1 DEF Told
  <1>7. RoundInRange'
    BY <1>a, <1>1, <1>6 DEF RoundInRange
  <1>8. MapsAgree' /\ SubsKnown'
    BY <1>a, <1>1, <1>4, MapsKept
  <1>9. UpToDate'
    BY <1>a, <1>1, <1>2, <1>3, <1>4, <1>6, UpToDateKept
  <1>10. SentKnown'
    <2>1. ASSUME NEW id \in Ids, NEW u \in mempool', Sub(id), subs'[id].sent[u] >= 1
          PROVE  subs'[id].sent[u] = 1 /\ u \in known /\ (at = "txs" => u \in currentTxs)
      <3>1. u # t
        BY <1>2, <1>3, <2>1
      <3>2. u \in Txs /\ u \in mempool
        BY <1>a, <1>1, <3>1 DEF SubsTypeOK
      <3>3. subs'[id].sent[u] = subs[id].sent[u]
        BY <1>2, <1>3, <2>1, <3>1, <3>2
      <3> QED BY <1>a, <2>1, <3>2, <3>3 DEF SentKnown
    <2> QED BY <1>a, <1>1, <1>4, <2>1 DEF SentKnown, SameSubs
  <1> QED BY <1>5, <1>7, <1>8, <1>9, <1>10 DEF SubsInv

\* Time passes.
LEMMA PassKeeps ==
    ASSUME SubsInv, Pass
    PROVE  SubsInv' /\ \A id \in Ids : Sub(id) => subs'[id].block = subs[id].block
  <1>a. SubsTypeOK /\ MapsAgree /\ SubsKnown /\ SentKnown /\ RoundInRange /\ UpToDate
    BY DEF SubsInv
  <1> DEFINE old(id) == Sub(id) /\ subs[id].age <= Stale
             new(id) == [subs[id] EXCEPT !.age = subs[id].age + 1]
  <1>1. /\ subs' = [id \in Ids |-> IF old(id) THEN new(id) ELSE subs[id]]
        /\ UNCHANGED <<open, closed, replying, stalled, used, ofClient, height, mempool, at, lastHeight, current, next,
                       round, currentTxs, known, down>>
    BY DEF Pass, pollVars
  <1>2. ASSUME NEW id \in Ids, old(id)
        PROVE  /\ new(id) \in SubRecords /\ Sub(id)
               /\ new(id).type = subs[id].type /\ new(id).conn = subs[id].conn /\ new(id).since = subs[id].since
               /\ new(id).block = subs[id].block /\ new(id).sent = subs[id].sent
    <2>1. subs[id] \in SubRecords
      BY <1>a, <1>2, SubRecord
    <2>2. subs[id].age \in 0..(Stale + 1)
      BY <2>1 DEF SubRecords
    <2>3. subs[id].age + 1 \in 0..(Stale + 1)
      BY <1>2, <2>2, SubscriptionsAssumption
    <2> QED BY <1>2, <2>1, <2>3, AgeChanged
  <1>3. \A id \in Ids : (old(id) => subs'[id] = new(id)) /\ (~old(id) => subs'[id] = subs[id])
    BY <1>1
  <1> HIDE DEF new, old
  <1>4. SameSubs
    <2>1. subs' \in [Ids -> SubRecords \cup {NoSub}]
      BY <1>a, <1>1, <1>2 DEF SubsTypeOK
    <2>2. \A id \in Ids : old(id) => new(id) # NoSub
      <3>1. \A r \in SubRecords : r.type \in EventTypes
        BY DEF SubRecords
      <3>2. NoSub.type \notin EventTypes
        BY DEF NoSub, EventTypes
      <3> QED BY <1>2, <3>1, <3>2
    <2>3. \A id \in Ids : Sub(id)' <=> Sub(id)
      BY <1>2, <1>3, <2>2 DEF Sub
    <2> QED BY <1>1, <1>2, <1>3, <2>1, <2>3 DEF SameSubs
  <1>5. SubsTypeOK'
    BY <1>a, <1>1, <1>4 DEF SubsTypeOK, SameSubs
  <1>6. Told' = Told
    BY <1>1 DEF Told
  <1>7. RoundInRange'
    BY <1>a, <1>1, <1>6 DEF RoundInRange
  <1>8. MapsAgree' /\ SubsKnown'
    BY <1>a, <1>1, <1>4, MapsKept
  <1>9. \A id \in Ids : Sub(id) => subs'[id].block = subs[id].block /\ subs'[id].sent = subs[id].sent
    BY <1>2, <1>3
  <1>10. UpToDate'
    BY <1>a, <1>1, <1>4, <1>6, <1>9, UpToDateKept
  <1>11. round' \subseteq currentTxs'
    BY <1>a, <1>1 DEF SentKnown
  <1>12. SentKnown'
    BY <1>a, <1>1, <1>4, <1>9, <1>11, SentKept
  <1> QED BY <1>5, <1>7, <1>8, <1>9, <1>10, <1>12 DEF SubsInv

-----------------------------------------------------------------------------
(* The poller. *)

\* The poller wakes.
LEMMA TickKeeps ==
    ASSUME SubsInv, PollTick
    PROVE  SubsInv'
  <1>a. SubsTypeOK /\ MapsAgree /\ SubsKnown /\ SentKnown /\ RoundInRange /\ UpToDate
    BY DEF SubsInv
  <1>0. MaxHeight \in Nat /\ height \in Nat /\ lastHeight \in Nat
    BY <1>a, SubscriptionsAssumption DEF SubsTypeOK
  <1>1. /\ at = "wait" /\ at' = "blocks" /\ current' = height /\ next' = lastHeight + 1
        /\ UNCHANGED <<open, closed, replying, stalled, managerVars, height, mempool, lastHeight, round, currentTxs, known, down>>
    BY DEF PollTick
  <1>2. SameSubs /\ subs' = subs
    BY <1>a, <1>1, UnchangedSubs
  <1>3. SubsTypeOK'
    <2>1. next' \in 0..(MaxHeight + 1) /\ current' \in 0..MaxHeight
      BY <1>a, <1>0, <1>1, SubscriptionsAssumption DEF SubsTypeOK
    <2> QED BY <1>a, <1>1, <2>1 DEF SubsTypeOK, managerVars
  <1>4. Told' = Told /\ Told = lastHeight
    BY <1>0, <1>1 DEF Told
  <1>5. RoundInRange'
    BY <1>a, <1>0, <1>1, <1>4 DEF RoundInRange
  <1>6. MapsAgree' /\ SubsKnown'
    BY <1>a, <1>1, <1>2, MapsKept
  <1>7. round' \subseteq currentTxs'
    BY <1>a, <1>1 DEF SentKnown
  <1>8. SentKnown' /\ UpToDate'
    BY <1>a, <1>1, <1>2, <1>4, <1>7, SentKept, UpToDateKept
  <1> QED BY <1>3, <1>5, <1>6, <1>8 DEF SubsInv

\* One block is announced: what every connected subscriber got before it is the block
\* below, or nothing.
LEMMA BlockKeeps ==
    ASSUME SubsInv, PollBlock
    PROVE  /\ SubsInv' /\ SameSubs
           /\ \A id \in Ids : Sub(id) =>
                 \/ subs'[id].block = subs[id].block
                 \/ subs[id].block = 0
                 \/ subs'[id].block = subs[id].block + 1
  <1>a. SubsTypeOK /\ MapsAgree /\ SubsKnown /\ SentKnown /\ RoundInRange /\ UpToDate
    BY DEF SubsInv
  <1>0. MaxHeight \in Nat /\ height \in Nat /\ lastHeight \in Nat /\ next \in Nat /\ current \in Nat
    BY <1>a, SubscriptionsAssumption DEF SubsTypeOK
  <1> DEFINE R == Receivers("new_blocks", 0)
             told == [id \in R |-> [subs[id] EXCEPT !.block = next]]
  <1>1. /\ at = "blocks" /\ next <= current /\ next' = next + 1 /\ ~down
        /\ NotifySubscribers(R, told)
        /\ UNCHANGED <<open, closed, replying, stalled, height, mempool, at, lastHeight, current, round, currentTxs, known>>
    BY DEF PollBlock
  <1>2. next \in 0..MaxHeight
    BY <1>a, <1>0, <1>1 DEF SubsTypeOK
  <1>3. R \subseteq Ids /\ \A id \in R : Sub(id) /\ subs[id].type = "new_blocks"
    BY DEF Receivers
  <1>4. \A id \in Ids : Sub(id) /\ subs[id].type = "new_blocks" => id \in R
    BY DEF Receivers, matchesFilters
  <1>5. ASSUME NEW id \in R
        PROVE  /\ told[id] \in SubRecords /\ told[id].type = subs[id].type /\ told[id].conn = subs[id].conn
               /\ told[id].since = subs[id].since /\ told[id].block = next /\ told[id].sent = subs[id].sent
    <2>1. subs[id] \in SubRecords
      BY <1>a, <1>3, SubRecord
    <2>2. told[id] = [subs[id] EXCEPT !.block = next]
      OBVIOUS
    <2> QED BY <1>2, <2>1, <2>2, BlockChanged
  <1> HIDE DEF R, told
  <1>6. /\ SameSubs
        /\ \A id \in Ids :
              \/ subs'[id] = subs[id] /\ (id \in R /\ subs[id].conn \in open => down')
              \/ id \in R /\ subs'[id].block = told[id].block /\ subs'[id].sent = told[id].sent
                 /\ subs[id].conn \in open
        /\ down' \in BOOLEAN
    BY <1>a, <1>1, <1>3, <1>5, NotifyLeaves
  <1>7. SubsTypeOK'
    <2>1. next' \in 0..(MaxHeight + 1)
      BY <1>0, <1>1, <1>2
    <2> QED BY <1>a, <1>1, <1>6, <2>1 DEF SubsTypeOK, SameSubs
  <1>8. Told = next - 1 /\ Told' = next
    BY <1>0, <1>1 DEF Told
  <1>9. RoundInRange'
    BY <1>a, <1>0, <1>1, <1>8 DEF RoundInRange
  <1>10. MapsAgree' /\ SubsKnown'
    BY <1>a, <1>1, <1>6, MapsKept
  <1>11. \A id \in Ids : Sub(id) => subs'[id].sent = subs[id].sent
    BY <1>5, <1>6
  <1>12. SentKnown'
    <2>1. round' \subseteq currentTxs'
      BY <1>a, <1>1 DEF SentKnown
    <2> QED BY <1>a, <1>1, <1>6, <1>11, <2>1, SentKept
  <1>13. UpToDate'
    <2> SUFFICES ASSUME NEW id \in Ids, Sub(id)', subs'[id].type = "new_blocks", subs'[id].conn \in open', ~down'
                 PROVE  subs'[id].block = Told'
      BY DEF UpToDate
    <2>1. Sub(id) /\ subs[id].type = "new_blocks" /\ subs[id].conn \in open
      BY <1>1, <1>6 DEF SameSubs
    <2>2. id \in R
      BY <1>4, <2>1
    <2> QED BY <1>5, <1>6, <1>8, <2>1, <2>2
  <1>14. ASSUME NEW id \in Ids, Sub(id)
         PROVE  \/ subs'[id].block = subs[id].block
                \/ subs[id].block = 0
                \/ subs'[id].block = subs[id].block + 1
    <2>1. CASE id \in R /\ subs'[id].block = told[id].block /\ subs[id].conn \in open
      <3>1. subs'[id].block = next /\ subs[id].type = "new_blocks"
        BY <1>3, <1>5, <2>1
      <3>2. subs[id].block = next - 1 \/ subs[id].block = 0
        BY <1>a, <1>1, <1>8, <1>14, <2>1, <3>1 DEF UpToDate
      <3> QED BY <1>0, <3>1, <3>2
    <2> QED BY <1>6, <2>1
  <1> QED BY <1>6, <1>7, <1>9, <1>10, <1>12, <1>13, <1>14 DEF SubsInv

\* The blocks are done: lastBlockHeight is the last one announced.
LEMMA BlocksDoneKeeps ==
    ASSUME SubsInv, PollBlocksDone
    PROVE  SubsInv'
  <1>a. SubsTypeOK /\ MapsAgree /\ SubsKnown /\ SentKnown /\ RoundInRange /\ UpToDate
    BY DEF SubsInv
  <1>0. MaxHeight \in Nat /\ height \in Nat /\ lastHeight \in Nat /\ next \in Nat /\ current \in Nat
    BY <1>a, SubscriptionsAssumption DEF SubsTypeOK
  <1>1. /\ at = "blocks" /\ next > current
        /\ lastHeight' = (IF current > lastHeight THEN current ELSE lastHeight)
        /\ at' = "txs" /\ round' = mempool /\ currentTxs' = mempool
        /\ current' = 0 /\ next' = 0
        /\ UNCHANGED <<open, closed, replying, stalled, managerVars, height, mempool, known, down>>
    BY DEF PollBlocksDone
  <1>2. SameSubs /\ subs' = subs
    BY <1>a, <1>1, UnchangedSubs
  <1>3. lastHeight' = next - 1
    BY <1>a, <1>0, <1>1 DEF RoundInRange
  <1>4. Told' = Told
    BY <1>1, <1>3 DEF Told
  <1>5. lastHeight' \in 0..MaxHeight /\ lastHeight' <= height
    BY <1>a, <1>0, <1>1 DEF SubsTypeOK, RoundInRange
  <1>6. SubsTypeOK'
    BY <1>a, <1>0, <1>1, <1>5 DEF SubsTypeOK, managerVars
  <1>7. RoundInRange'
    BY <1>1, <1>5 DEF RoundInRange, Told
  <1>8. MapsAgree' /\ SubsKnown'
    BY <1>a, <1>1, <1>2, MapsKept
  <1>9. UpToDate'
    BY <1>a, <1>1, <1>2, <1>4, UpToDateKept
  <1>10. SentKnown'
    BY <1>a, <1>1, <1>2 DEF SentKnown, SameSubs
  <1> QED BY <1>6, <1>7, <1>8, <1>9, <1>10 DEF SubsInv

\* One transaction is announced: no subscriber was told of it since it came.
LEMMA TransactionKeeps ==
    ASSUME SubsInv, NEW t \in Txs, PollTransaction(t)
    PROVE  SubsInv' /\ SameSubs /\ \A id \in Ids : Sub(id) => subs'[id].block = subs[id].block
  <1>a. SubsTypeOK /\ MapsAgree /\ SubsKnown /\ SentKnown /\ RoundInRange /\ UpToDate
    BY DEF SubsInv
  <1> DEFINE R == Receivers("pending_transactions", t)
             count(id) == IF subs[id].sent[t] < 2 THEN subs[id].sent[t] + 1 ELSE 2
             told == [id \in R |-> [subs[id] EXCEPT !.sent[t] = count(id)]]
  <1>1. /\ at = "txs" /\ t \in round /\ round' = round \ {t} /\ t \notin known /\ known' = known \cup {t} /\ ~down
        /\ NotifySubscribers(R, told)
        /\ UNCHANGED <<open, closed, replying, stalled, height, mempool, at, lastHeight, current, next, currentTxs>>
    BY DEF PollTransaction
  <1>2. R \subseteq Ids /\ \A id \in R : Sub(id)
    BY DEF Receivers
  <1>3. ASSUME NEW id \in R
        PROVE  /\ told[id] \in SubRecords /\ told[id].type = subs[id].type /\ told[id].conn = subs[id].conn
               /\ told[id].since = subs[id].since /\ told[id].block = subs[id].block
               /\ told[id].sent[t] = count(id) /\ \A u \in Txs : u # t => told[id].sent[u] = subs[id].sent[u]
    <2>1. subs[id] \in SubRecords
      BY <1>a, <1>2, SubRecord
    <2>2. subs[id].sent[t] \in 0..2
      BY <2>1 DEF SubRecords
    <2>3. count(id) \in 0..2
      BY <2>2
    <2>4. told[id] = [subs[id] EXCEPT !.sent[t] = count(id)]
      OBVIOUS
    <2> HIDE DEF count, told
    <2> QED BY <2>1, <2>3, <2>4, SentChanged
  <1> HIDE DEF R, told
  <1>4. /\ SameSubs
        /\ \A id \in Ids :
              \/ subs'[id] = subs[id] /\ (id \in R /\ subs[id].conn \in open => down')
              \/ id \in R /\ subs'[id].block = told[id].block /\ subs'[id].sent = told[id].sent
                 /\ subs[id].conn \in open
        /\ down' \in BOOLEAN
    BY <1>a, <1>1, <1>2, <1>3, NotifyLeaves
  <1>5. SubsTypeOK'
    BY <1>a, <1>1, <1>4 DEF SubsTypeOK, SameSubs
  <1>6. Told' = Told
    BY <1>1 DEF Told
  <1>7. RoundInRange'
    BY <1>a, <1>1, <1>6 DEF RoundInRange
  <1>8. MapsAgree' /\ SubsKnown'
    BY <1>a, <1>1, <1>4, MapsKept
  <1>9. \A id \in Ids : Sub(id) => subs'[id].block = subs[id].block
    BY <1>3, <1>4
  <1>10. UpToDate'
    BY <1>a, <1>1, <1>4, <1>6, <1>9, UpToDateKept
  <1>11. ASSUME NEW id \in Ids, NEW u \in mempool, Sub(id), subs'[id].sent[u] >= 1
         PROVE  subs'[id].sent[u] = 1 /\ u \in known' /\ u \in currentTxs
    <2>0. u \in Txs
      BY <1>a DEF SubsTypeOK
    <2>1. CASE u # t
      <3>1. subs'[id].sent[u] = subs[id].sent[u]
        BY <1>3, <1>4, <2>0, <2>1
      <3> QED BY <1>a, <1>1, <1>11, <3>1 DEF SentKnown
    <2>2. CASE u = t
      <3>1. u \in known' /\ u \in currentTxs
        BY <1>a, <1>1, <2>2 DEF SentKnown
      <3>2. subs[id].sent[t] \in 0..2
        <4>1. subs[id] \in SubRecords
          BY <1>a, <1>11, SubRecord
        <4> QED BY <4>1 DEF SubRecords
      <3>3. subs[id].sent[t] = 0
        BY <1>a, <1>1, <1>11, <2>2, <3>2 DEF SentKnown
      <3>4. subs'[id].sent[t] = subs[id].sent[t] \/ subs'[id].sent[t] = 1
        BY <1>3, <1>4, <3>3
      <3> QED BY <1>11, <2>2, <3>1, <3>3, <3>4
    <2> QED BY <2>1, <2>2
  <1>12. SentKnown'
    BY <1>a, <1>1, <1>4, <1>11 DEF SentKnown, SameSubs
  <1> QED BY <1>4, <1>5, <1>7, <1>8, <1>9, <1>10, <1>12 DEF SubsInv

\* The round ends; knownTxIDs may lose what was not in the mempool.
LEMMA EndKeeps ==
    ASSUME SubsInv, PollEnd
    PROVE  SubsInv'
  <1>a. SubsTypeOK /\ MapsAgree /\ SubsKnown /\ SentKnown /\ RoundInRange /\ UpToDate
    BY DEF SubsInv
  <1>1. /\ at = "txs" /\ at' = "wait" /\ round' = {} /\ currentTxs' = {}
        /\ known' = known \/ known' = known \cap currentTxs
        /\ UNCHANGED <<open, closed, replying, stalled, managerVars, height, mempool, lastHeight, current, next, down>>
    BY DEF PollEnd
  <1>2. SameSubs /\ subs' = subs
    BY <1>a, <1>1, UnchangedSubs
  <1>3. SubsTypeOK'
    BY <1>a, <1>1 DEF SubsTypeOK, managerVars
  <1>4. Told' = Told
    BY <1>1 DEF Told
  <1>5. RoundInRange'
    BY <1>a, <1>1, <1>4 DEF RoundInRange
  <1>6. MapsAgree' /\ SubsKnown'
    BY <1>a, <1>1, <1>2, MapsKept
  <1>7. UpToDate'
    BY <1>a, <1>1, <1>2, <1>4, UpToDateKept
  <1>8. SentKnown'
    BY <1>a, <1>1, <1>2 DEF SentKnown, SameSubs
  <1> QED BY <1>3, <1>5, <1>6, <1>7, <1>8 DEF SubsInv

-----------------------------------------------------------------------------
\* There is no subscription at the start.
LEMMA InitSubsInv == SubsInit => SubsInv
  <1> SUFFICES ASSUME SubsInit PROVE SubsInv
    OBVIOUS
  <1>1. \A id \in Ids : ~Sub(id)
    BY DEF SubsInit, Sub
  <1>2. SubsTypeOK
    <2>1. 0 \in 0..MaxHeight /\ 0 \in 0..(MaxHeight + 1)
      BY SubscriptionsAssumption
    <2>2. subs \in [Ids -> SubRecords \cup {NoSub}] /\ ofClient \in [Clients -> SUBSET Ids]
      BY DEF SubsInit
    <2>3. down \in BOOLEAN
      BY DEF SubsInit
    <2> QED BY <2>1, <2>2, <2>3 DEF SubsInit, SubsTypeOK
  <1>3. MapsAgree /\ SubsKnown
    <2>1. \A ip \in Clients : ofClient[ip] = {}
      BY DEF SubsInit
    <2>2. IsFiniteSet({}) /\ Cardinality({}) = 0
      BY FS_EmptySet
    <2>3. 0 <= MaxPerClient
      BY SubscriptionsAssumption
    <2>4. \A ip \in Clients : ofClient[ip] = {id \in Ids : Sub(id) /\ ClientIP[subs[id].conn] = ip}
      BY <1>1, <2>1
    <2>5. MapsAgree
      BY <2>1, <2>2, <2>3, <2>4 DEF MapsAgree
    <2> QED BY <1>1, <2>1, <2>2, <2>5 DEF SubsKnown
  <1>4. SentKnown /\ UpToDate
    BY <1>1 DEF SubsInit, SentKnown, UpToDate
  <1>5. RoundInRange
    BY DEF SubsInit, RoundInRange, Told
  <1> QED BY <1>2, <1>3, <1>4, <1>5 DEF SubsInv

\* Every step keeps the subscriptions sound.
LEMMA NextSubsInv ==
    ASSUME SubsInv, [SubsNext]_subsVars
    PROVE  SubsInv'
  <1>1. CASE UNCHANGED subsVars
    BY <1>1 DEF subsVars, managerVars, pollVars, SubsInv, SubsTypeOK, MapsAgree, SubsKnown, SentKnown, RoundInRange,
       Told, UpToDate, Sub
  <1>2. CASE Requests \/ AppendBlock \/ \E t \in Txs : AddTransaction(t) \/ RemoveTransaction(t)
    BY <1>2, OutsideKeeps, SubscribeKeeps, RemoveKeeps, AddTransactionKeeps DEF Requests
  <1>3. CASE Poll
    BY <1>3, TickKeeps, BlockKeeps, BlocksDoneKeeps, TransactionKeeps, EndKeeps DEF Poll
  <1>4. CASE (\E c \in Conns : Stall(c) \/ Unstall(c)) \/ Pass \/ cleanupStaleSubscriptions
    BY <1>4, OutsideKeeps, PassKeeps, RemoveKeeps
  <1> QED BY <1>1, <1>2, <1>3, <1>4 DEF SubsNext

\* The invariant, in every state.
LEMMA SubsInvHolds == SubsSpec => []SubsInv
  BY InitSubsInv, NextSubsInv, PTL DEF SubsSpec

\* Subscribers are served whatever happens between two steps of the poller: the two
\* maps agree, no transaction that stays is announced twice, no block is left out.
THEOREM AlwaysServed == SubsSpec => []SubscribersServed
  <1>1. SubsInv => SubscribersServed
    <2> SUFFICES ASSUME SubsInv PROVE SubscribersServed
      OBVIOUS
    <2>1. SubsTypeOK /\ MapsAgree /\ SentKnown /\ UpToDate
      BY DEF SubsInv
    <2>2. AnnouncedOnce
      <3> SUFFICES ASSUME NEW id \in Ids, Sub(id), NEW t \in mempool PROVE subs[id].sent[t] <= 1
        BY DEF AnnouncedOnce
      <3>1. subs[id].sent[t] \in 0..2
        <4>1. subs[id] \in SubRecords /\ t \in Txs
          BY <2>1, SubRecord DEF SubsTypeOK
        <4> QED BY <4>1 DEF SubRecords
      <3> QED BY <2>1, <3>1 DEF SentKnown
    <2>3. NoBlockSkipped
      <3>1. at # "blocks" => Told = lastHeight
        BY DEF Told
      <3> QED BY <2>1, <3>1 DEF UpToDate, NoBlockSkipped
    <2> QED BY <2>1, <2>2, <2>3 DEF SubscribersServed
  <1> QED BY <1>1, SubsInvHolds, PTL

\* A subscriber to new blocks gets consecutive numbers, although blocks arrive and
\* subscriptions come and go while a round runs.
THEOREM BlocksAlwaysInOrder == SubsSpec => BlocksInOrder
  <1>1. ASSUME SubsInv, [SubsNext]_subsVars, NEW id \in Ids, Sub(id), subs'[id] # NoSub,
               subs'[id].block # subs[id].block, subs[id].block # 0
        PROVE  subs'[id].block = subs[id].block + 1
    <2>a. SubsTypeOK /\ MapsAgree /\ SubsKnown
      BY <1>1 DEF SubsInv
    <2>1. CASE \/ UNCHANGED subsVars \/ AppendBlock \/ PollTick \/ PollBlocksDone \/ PollEnd
               \/ \E c \in Conns : Connect(c) \/ Disconnect(c) \/ ReplyWritten(c)
               \/ \E c \in Conns : handleRequest(c) \/ Stall(c) \/ Unstall(c)
               \/ \E t \in Txs : RemoveTransaction(t)
      <3>1. subs' = subs
        BY <2>1 DEF subsVars, managerVars, AppendBlock, PollTick, PollBlocksDone, PollEnd, Connect, Disconnect,
           ReplyWritten, handleRequest, Stall, Unstall, RemoveTransaction
      <3> QED BY <1>1, <3>1
    <2>2. ASSUME NEW d \in Ids, NEW c \in Conns, NEW type \in EventTypes, NEW filtered \in BOOLEAN,
                 handleSupSubscribe(d, c, type, filtered)
          PROVE  FALSE
      <3>1. c \in open /\ AddSubscription(d, c, type, filtered) /\ UNCHANGED <<open, closed>>
        BY <2>2 DEF handleSupSubscribe
      <3>2. ~Sub(d) /\ \A e \in Ids : e # d => subs'[e] = subs[e]
        BY <2>a, <3>1, AddKeepsMaps
      <3> QED BY <1>1, <3>2
    <2>3. CASE \/ \E d \in Ids, c \in Conns : handleSupUnsubscribe(d, c)
               \/ \E d \in Ids : HttpUnsubscribe(d)
               \/ cleanupStaleSubscriptions
      <3>1. (\E S : RemoveSubscriptions(S)) /\ UNCHANGED <<open, closed>>
        BY <2>3 DEF handleSupUnsubscribe, HttpUnsubscribe, cleanupStaleSubscriptions
      <3>2. Sub(id)' => subs'[id] = subs[id]
        BY <2>a, <3>1, RemoveKeepsMaps
      <3> QED BY <1>1, <3>2 DEF Sub
    <2>4. ASSUME NEW t \in Txs, AddTransaction(t) PROVE subs'[id].block = subs[id].block
      <3>1. subs[id] \in SubRecords /\ subs'[id] = [subs[id] EXCEPT !.sent[t] = 0] /\ 0 \in 0..2
        BY <1>1, <2>a, <2>4, SubRecord DEF AddTransaction
      <3> QED BY <3>1, SentChanged
    <2>5. CASE Pass
      BY <1>1, <2>5, PassKeeps
    <2>6. CASE PollBlock
      BY <1>1, <2>6, BlockKeeps
    <2>7. CASE \E t \in Txs : PollTransaction(t)
      BY <1>1, <2>7, TransactionKeeps
    <2> QED BY <1>1, <2>1, <2>2, <2>3, <2>4, <2>5, <2>6, <2>7 DEF SubsNext, Requests, Poll
  <1>2. SubsInv /\ [SubsNext]_subsVars =>
          [\A id \in Ids :
              Sub(id) /\ subs'[id] # NoSub /\ subs'[id].block # subs[id].block /\ subs[id].block # 0
                => subs'[id].block = subs[id].block + 1]_subsVars
    BY <1>1
  <1> QED BY <1>2, SubsInvHolds, PTL DEF SubsSpec, BlocksInOrder
============================================================================

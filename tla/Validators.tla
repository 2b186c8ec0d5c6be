----------------------------- MODULE Validators -----------------------------
(***************************************************************************)
(* One validator: the Validator object of its node, what SlashingManager   *)
(* and Blockchain.UpdateValidatorSet do to it, and its entry in another    *)
(* node's ValidatorProtocol, which watches its heartbeats.                 *)
(*                                                                         *)
(* Methods that take v.mu run in one step; once slash has called Stop with *)
(* the lock held, the lock is never free again (stuck) and they wait.      *)
(* Vote takes it for IsReady only and sends afterwards.  RecordValidation, *)
(* distributeRewards, the slashing manager and UpdateValidatorSet change   *)
(* the same fields without v.mu.                                           *)
(*                                                                         *)
(* Nothing constructs a SlashingManager, and handleMissedBlocks,           *)
(* distributeRewards, Vote and the selection are methods without a caller  *)
(* in the program: the model has what they would do in any order.  Of the  *)
(* stake pool only whether the validator has an entry is kept, not the     *)
(* amounts.  config.Stake is in units that the slashing rate, a half,      *)
(* divides.  A tick is the interval of the heartbeat monitor.              *)
(***************************************************************************)
EXTENDS Integers

CONSTANTS
    OwnStake,       \* config.Stake at the start
    Reward,         \* calculateBlockReward
    MaxStake,       \* bound: config.Stake
    MinStake,       \* config.MinStake
    MaxMissed,      \* config.MaxMissed
    MissLimit,      \* bound: missed blocks
    MaxRecords,     \* bound: validations recorded
    Threshold,      \* SlashingThreshold
    Probation,      \* ProbationPeriod, in ticks
    Timeout,        \* ValidatorTimeoutDuration, 3 ticks in the code
    MaxTimeouts     \* 3 in the code

ASSUME ValidatorsAssumption ==
    /\ {OwnStake, Reward, MaxStake, MinStake, MissLimit, MaxRecords, Probation, Timeout} \subseteq Nat
    /\ {MaxMissed, Threshold, MaxTimeouts} \subseteq Nat \ {0}
    /\ OwnStake <= MaxStake

VARIABLES
    status, score, validating, slashed, selected,   \* fields of Validator
    ready,                  \* a call of Vote is past IsReady and has not sent
    missed, stake,          \* missedBlocks and config.Stake
    validated, failed,      \* Performance
    violations, probation,  \* probation: ticks to ProbationEndTime
    stuck,                  \* v.mu is held for ever
    staked,                 \* the stake pool has an entry of the validator
    slashing,               \* SlashValidator has found that entry and goes on
    age,                    \* ticks since heartbeats[v], -1 without an entry
    entry                   \* validators[v]

object == <<status, score, validating, slashed, selected, ready, missed, stake>>
record == <<validated, failed, violations, probation>>
pool == <<staked, slashing>>
watch == <<age, entry>>
vars == <<object, record, stuck, pool, watch>>

Statuses == {"pending", "active", "probation", "slashed"}
NoEntry == [active |-> FALSE, timeouts |-> -1]

TypeOK ==
    /\ status \in Statuses /\ score \in Nat
    /\ {validating, slashed, selected, ready, stuck, staked, slashing} \subseteq BOOLEAN
    /\ missed \in 0..MissLimit /\ stake \in 0..MaxStake
    /\ validated \in Nat /\ failed \in Nat /\ validated + failed <= MaxRecords
    /\ violations \in 0..Threshold /\ probation \in 0..Probation
    /\ age \in -1..(Timeout + 1)
    /\ entry \in [active : BOOLEAN, timeouts : 0..(MaxTimeouts - 1)] \cup {NoEntry}

Init ==
    /\ status = "pending" /\ score = 0 /\ missed = 0 /\ stake = OwnStake
    /\ validating = FALSE /\ slashed = FALSE /\ selected = FALSE /\ ready = FALSE
    /\ validated = 0 /\ failed = 0 /\ violations = 0 /\ probation = 0
    /\ stuck = FALSE /\ staked = FALSE /\ slashing = FALSE
    /\ age = -1 /\ entry = NoEntry

-----------------------------------------------------------------------------
(* Methods that take v.mu. *)

\* Start; a node that is synchronising may refuse it at any time.
Start ==
    /\ ~stuck /\ ~validating /\ status # "slashed"
    /\ validating' = TRUE /\ status' = "active"
    /\ UNCHANGED <<score, slashed, selected, ready, missed, stake, record, stuck, pool, watch>>

Stop ==
    /\ ~stuck /\ validating
    /\ validating' = FALSE
    /\ UNCHANGED <<status, score, slashed, selected, ready, missed, stake, record, stuck, pool, watch>>

\* slash: half of config.Stake goes; below MinStake it calls Stop, which waits
\* for the lock that handleMissedBlocks holds.
slash ==
    /\ stake' = stake \div 2
    /\ slashed' = TRUE
    /\ stuck' = (stake' < MinStake)

\* handleMissedBlocks: the count is never reset.
handleMissedBlocks(n) ==
    /\ ~stuck /\ missed + n <= MissLimit
    /\ missed' = missed + n
    /\ IF missed' >= MaxMissed THEN slash ELSE UNCHANGED <<stake, slashed, stuck>>
    /\ UNCHANGED <<status, score, validating, selected, ready, record, pool, watch>>

CheckSelectionEligibility == status = "active" /\ score >= 100 /\ ~slashed

\* NotifySelection and ProcessSelection.
NotifySelection ==
    /\ ~stuck /\ ~selected /\ CheckSelectionEligibility
    /\ selected' = TRUE
    /\ UNCHANGED <<status, score, validating, slashed, ready, missed, stake, record, stuck, pool, watch>>

IsReady == validating /\ ~slashed /\ status = "active"

\* Vote asks IsReady, which takes the lock and gives it back;
Vote ==
    /\ ~stuck /\ ~ready /\ IsReady
    /\ ready' = TRUE
    /\ UNCHANGED <<status, score, validating, slashed, selected, missed, stake, record, stuck,
                   pool, watch>>

\* it sends the vote without the lock, whatever happened since.
BroadcastValidatorVote ==
    /\ ready
    /\ ready' = FALSE
    /\ UNCHANGED <<status, score, validating, slashed, selected, missed, stake, record, stuck,
                   pool, watch>>

\* Mutant of Recover: the slashed flag goes as well.
RecoverUnslashed ==
    /\ ~stuck /\ status \in {"probation", "slashed"}
    /\ score' = 100 /\ status' = "active" /\ slashed' = FALSE
    /\ UNCHANGED <<validating, selected, ready, missed, stake, record, stuck, pool, watch>>

\* Recover: from probation or slashing, by status, back to active.
Recover ==
    /\ ~stuck /\ status \in {"probation", "slashed"}
    /\ score' = 100 /\ status' = "active"
    /\ UNCHANGED <<validating, slashed, selected, ready, missed, stake, record, stuck, pool, watch>>

-----------------------------------------------------------------------------
(* The score. *)

\* UpdateValidatorScore of v validations and m misses; UptimePercentage * 100.
ScoreOf(v, m) ==
    IF 20 * m > 10 * v THEN 0 ELSE 10 * v - 20 * m + (10000 * v) \div (v + m)

\* updateStatus: a low score is probation, whatever the status was.
StatusAfter(s) ==
    IF s < 100 THEN "probation" ELSE IF status = "slashed" THEN "slashed" ELSE "active"

\* RecordValidation.
RecordValidation(success) ==
    /\ validated + failed < MaxRecords
    /\ validated' = IF success THEN validated + 1 ELSE validated
    /\ failed' = IF success THEN failed ELSE failed + 1
    /\ score' = ScoreOf(validated', failed')
    /\ status' = StatusAfter(score')
    /\ UNCHANGED <<validating, slashed, selected, ready, missed, stake, violations, probation,
                   stuck, pool, watch>>

-----------------------------------------------------------------------------
(* Slashing by the manager, and the stake pool. *)

\* HandleViolation below the threshold: probation.
HandleViolation ==
    /\ ~slashing /\ violations + 1 < Threshold
    /\ violations' = violations + 1
    /\ status' = "probation" /\ probation' = Probation
    /\ UNCHANGED <<score, validating, slashed, selected, ready, missed, stake, validated, failed,
                   stuck, pool, watch>>

\* HandleViolation at the threshold: SlashValidator looks up the stake; without
\* one it is an error.  Violations above the threshold are not told apart.
SlashValidator ==
    /\ ~slashing /\ violations + 1 >= Threshold
    /\ violations' = Threshold
    /\ slashing' = staked
    /\ UNCHANGED <<object, validated, failed, probation, stuck, staked, watch>>

\* It goes on with the entry it found, removed meanwhile or not.
TakePenalty ==
    /\ slashing
    /\ slashing' = FALSE
    /\ status' = "slashed" /\ score' = 0
    /\ UNCHANGED <<validating, slashed, selected, ready, missed, stake, record, stuck, staked, watch>>

\* ClearExpiredProbation.
ClearExpiredProbation ==
    /\ status = "probation" /\ probation = 0
    /\ status' = "active" /\ violations' = 0
    /\ UNCHANGED <<score, validating, slashed, selected, ready, missed, stake, validated, failed,
                   probation, stuck, pool, watch>>

\* ValidateValidator; mature: the stake is older than MinStakeAge.
ValidateValidator(mature) ==
    /\ staked /\ mature
    /\ status # "slashed"
    /\ ~(status = "active" /\ score < 100)

\* UpdateValidatorSet puts a validator that fails on probation, a slashed one too.
UpdateValidatorSet ==
    /\ \E mature \in BOOLEAN : ~ValidateValidator(mature)
    /\ status # "probation"
    /\ status' = "probation"
    /\ UNCHANGED <<score, validating, slashed, selected, ready, missed, stake, record, stuck, pool, watch>>

\* StakePool.AddValidator, and RemoveStake of all that is staked.
AddValidator ==
    /\ ~staked
    /\ staked' = TRUE
    /\ UNCHANGED <<object, record, stuck, slashing, watch>>

RemoveStake ==
    /\ staked
    /\ staked' = FALSE
    /\ UNCHANGED <<object, record, stuck, slashing, watch>>

\* distributeRewards.
distributeRewards ==
    /\ stake + Reward <= MaxStake
    /\ stake' = stake + Reward
    /\ UNCHANGED <<status, score, validating, slashed, selected, ready, missed, record, stuck,
                   pool, watch>>

-----------------------------------------------------------------------------
(* ValidatorProtocol. *)

\* HandleHeartbeat: Timeouts of an entry stays.
HandleHeartbeat ==
    /\ age # 0
    /\ age' = 0
    /\ entry' = [active |-> TRUE, timeouts |-> IF entry = NoEntry THEN 0 ELSE entry.timeouts]
    /\ UNCHANGED <<object, record, stuck, pool>>

\* Mutant of handleValidatorTimeout: the time of the last heartbeat is kept.
handleValidatorTimeoutKeeps ==
    IF entry.timeouts + 1 >= MaxTimeouts
    THEN entry' = NoEntry /\ age' = Timeout + 1
    ELSE entry' = [active |-> FALSE, timeouts |-> entry.timeouts + 1] /\ age' = Timeout + 1

\* Mutant of handleValidatorTimeout: nothing is ever removed.
handleValidatorTimeoutOnly ==
    /\ entry' = [entry EXCEPT !.active = FALSE] /\ age' = Timeout + 1

\* handleValidatorTimeout: inactive, and removed the third time.
handleValidatorTimeout ==
    IF entry.timeouts + 1 >= MaxTimeouts
    THEN entry' = NoEntry /\ age' = -1
    ELSE entry' = [active |-> FALSE, timeouts |-> entry.timeouts + 1] /\ age' = Timeout + 1

\* checkValidatorHeartbeats, with the age of the last heartbeat; older than the
\* timeout by any time is the same.
checkValidatorHeartbeats(a) ==
    IF a > Timeout THEN handleValidatorTimeout ELSE age' = a /\ UNCHANGED entry

\* ValidatorProtocol.RemoveValidator.
RemoveValidator ==
    /\ entry # NoEntry
    /\ entry' = NoEntry /\ age' = -1
    /\ UNCHANGED <<object, record, stuck, pool>>

\* Time passes, and heartbeatMonitor looks.
Tick ==
    /\ probation' = IF probation > 0 THEN probation - 1 ELSE 0
    /\ IF age = -1 THEN UNCHANGED watch ELSE checkValidatorHeartbeats(age + 1)
    /\ UNCHANGED <<object, validated, failed, violations, stuck, pool>>

-----------------------------------------------------------------------------
Next ==
    \/ Start \/ Stop \/ NotifySelection \/ Vote \/ BroadcastValidatorVote \/ Recover
    \/ \E n \in 1..MaxMissed : handleMissedBlocks(n)
    \/ \E success \in BOOLEAN : RecordValidation(success)
    \/ HandleViolation \/ SlashValidator \/ TakePenalty
    \/ ClearExpiredProbation \/ UpdateValidatorSet
    \/ AddValidator \/ RemoveStake \/ distributeRewards
    \/ HandleHeartbeat \/ RemoveValidator \/ Tick

Spec == Init /\ [][Next]_vars

\* Time passes and the goroutine of the monitor runs.
FairSpec == Spec /\ WF_vars(Tick)

-----------------------------------------------------------------------------
(* Properties *)

\* A validator that has missed MaxMissed blocks, which slashed it, is neither
\* selected nor found ready to vote any more, whatever brings its status back to
\* active and its stake back above the minimum; it still sends at most the vote
\* whose readiness was checked before the slash.
NoPartAfterSlash ==
    [][missed >= MaxMissed => (selected' => selected) /\ (ready' => ready)]_vars

\* An active entry was heard of within the timeout.
ActiveIsRecent == entry.active => age <= Timeout

\* The two maps of ValidatorProtocol have the same keys, so that the monitor
\* finds the entry of every validator it has heard of.
HeartbeatsHaveState == (age = -1) <=> (entry = NoEntry)

\* An entry does not stay without heartbeats: the validator is heard of again or
\* removed after its third timeout.
SilentRemoved == (age > 0) ~> (age <= 0)

\* What ValidatorProtocol keeps of a validator is in step with its heartbeats.
WatchAgrees == TypeOK /\ ActiveIsRecent /\ HeartbeatsHaveState
=============================================================================

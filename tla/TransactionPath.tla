-------------------------- MODULE TransactionPath --------------------------
(***************************************************************************)
(* The way of a payment: a client's call on an API node (RPC server, RPC   *)
(* API or the TXNS shell), NewTransaction, SelectUTXOs and the signature,  *)
(* BroadcastTransaction, and on the miner's side handleTransactionStream,  *)
(* the mempool and the block.                                              *)
(*                                                                         *)
(* One wallet pays.  Amounts are whole units; a transaction keeps the      *)
(* outputs it spends and those it makes, which its hash and so its         *)
(* signature do not cover.  A client may also write the transaction itself *)
(* and call it a coinbase or a validator reward.  The miner makes its next *)
(* block of pooled transactions in one step (NodeLedger has the steps of   *)
(* that, and the attempts that fail), and the API node applies the blocks  *)
(* one by one, later.                                                      *)
(***************************************************************************)
EXTENDS Mempool, Integers, Functions

CONSTANTS
    Amount,         \* tx.Amount of each transaction
    Methods,        \* the calls that each may be made with
    Coins,          \* amounts of the wallet's outputs at the start
    SigLengths,     \* bytes of r and s in a signature: 32, or 31 after a leading zero
    ClientOutputs,  \* outputs that a client may write into a raw transaction
    BlockLimit,     \* transactions in a block, 200 in the code
    MaxBlocks       \* bound: blocks mined

\* Who makes the transaction: a call of the node, or the client ("client" a payment,
\* "system" a coinbase or validator reward).
Calls == {"raw", "fields", "manual", "key", "rpc", "shell", "stake"}
AllMethods == Calls \cup {"client", "system"}

ASSUME PathAssumption ==
    /\ Amount \in [Txs -> Nat \ {0}]
    /\ Methods \in [Txs -> SUBSET AllMethods]
    /\ Coins \in Seq(Nat \ {0})
    /\ SigLengths \subseteq (Nat \X Nat)
    /\ ClientOutputs \subseteq Seq([to : {"self", "other"}, amount : Nat \ {0}])
    /\ \A outputs \in ClientOutputs : Len(outputs) <= 3
    /\ BlockLimit \in Nat \ {0} /\ MaxBlocks \in Nat
    /\ "coin" \notin Txs

VARIABLES
    body,           \* the transaction each call has built
    call,           \* how far each call has come
    wire,           \* streams sent to the miner and not handled
    checked,        \* those that validateTransaction has passed
    old,            \* maps of Node.UTXOPool that were replaced since then
    ended,          \* what became of a transaction at the miner
    merged,         \* history: transactions that a peer's list contained
    waited,         \* history: those that a block left in the mempool
    late,           \* history: those admitted by an old map alone
    minerPool,      \* Node.UTXOPool of the miner
    apiPool,        \* Node.UTXOPool of the API node
    chain,          \* the transactions of each block
    apiHeight       \* blocks that the API node has applied

history == <<merged, waited, late>>
pathVars == <<body, call, wire, checked, old, ended, history>>
ledgers == <<minerPool, apiPool, chain, apiHeight>>
vars == <<poolVars, pathVars, ledgers>>

\* Outputs: the wallet's coins, and up to three of each transaction.
CoinOuts == {"coin"} \X DOMAIN Coins
Outs == CoinOuts \cup (Txs \X (1..3))
NoBody == [method |-> "none", sig |-> <<0, 0>>, inputs |-> {}, outputs |-> <<>>]

\* Body of an output; "self" is the wallet, "other" the receiver.
Output(o) ==
    IF o[1] = "coin" THEN [to |-> "self", amount |-> Coins[o[2]]] ELSE body[o[1]].outputs[o[2]]
Value(S) == SumFunction([o \in S |-> Output(o).amount])
OutsOf(t) == {t} \X DOMAIN body[t].outputs
Pools == [have : SUBSET Outs, spent : SUBSET Outs]

\* Not made, given to the client to sign, ended before or with the broadcast.
CallStates == {"none", "draft", "error", "sent"}

TypeOK ==
    /\ PoolTypeOK
    /\ \A t \in Txs :
         /\ body[t].method \in AllMethods \cup {"none"}
         /\ body[t].inputs \subseteq Outs /\ OutsOf(t) \subseteq Outs
         /\ \A k \in DOMAIN body[t].outputs : body[t].outputs[k].amount > 0
         /\ call[t] \in CallStates /\ old[t] \subseteq Pools
         /\ ended[t] \in {"no", "rejected", "refused", "duplicate"}
    /\ wire \subseteq Txs /\ checked \subseteq Txs
    /\ merged \subseteq Txs /\ waited \subseteq Txs /\ late \subseteq Txs
    /\ \A p \in {minerPool, apiPool} : p.spent \subseteq p.have /\ p.have \subseteq Outs
    /\ chain \in Seq(SUBSET Txs) /\ apiHeight \in 0..Len(chain)

Init ==
    /\ PoolInit
    /\ body = [t \in Txs |-> NoBody]
    /\ call = [t \in Txs |-> "none"]
    /\ wire = {} /\ checked = {} /\ merged = {} /\ waited = {} /\ late = {}
    /\ old = [t \in Txs |-> {}]
    /\ ended = [t \in Txs |-> "no"]
    /\ minerPool = [have |-> CoinOuts, spent |-> {}]
    /\ apiPool = [have |-> CoinOuts, spent |-> {}]
    /\ chain = <<>> /\ apiHeight = 0

-----------------------------------------------------------------------------
(* Building a transaction. *)

\* VerifySignature cuts the bytes in the middle; SignMessage does not pad.
Verifies(sig) == (sig[1] + sig[2]) \div 2 = sig[1]

\* SelectUTXOs: the wallet's unspent outputs, largest first, until they suffice;
\* outputs of the same amount come in any order.
SelectUTXOs(pool, need) ==
    LET own == {o \in pool.have \ pool.spent : Output(o).to = "self"} IN
    {S \in SUBSET own :
        /\ Value(S) >= need
        /\ \A o \in S : /\ \A p \in own \ S : Output(o).amount >= Output(p).amount
                        /\ (\A p \in S : Output(p).amount >= Output(o).amount)
                                => Value(S \ {o}) < need}

Pay(t) == [to |-> "other", amount |-> Amount[t]]
ChangeOutput(amount) == IF amount > 0 THEN <<[to |-> "self", amount |-> amount]>> ELSE <<>>

\* What a call needs: the amount and the fee, or the amount alone for a stake.
Needed(t, method) == IF method = "stake" THEN Amount[t] ELSE Amount[t] + Fee[t]

\* Mutant of Outputs: the change is what the payment leaves, the fee forgotten.
OutputsFeeless(t, method, change) ==
    IF method \in {"rpc", "stake"} THEN <<Pay(t)>>
    ELSE <<Pay(t)>> \o ChangeOutput(change + Fee[t])

\* The outputs: the payment and the change.  With a transaction ID of the
\* client's, SendTransaction appends both to the change SelectUTXOs has added.
Outputs(t, method, change) ==
    CASE method = "manual" -> ChangeOutput(change) \o <<Pay(t)>> \o ChangeOutput(change)
      [] method = "stake" -> <<[to |-> "self", amount |-> Amount[t]]>> \o ChangeOutput(change)
      [] method = "rpc" -> <<Pay(t)>>
      [] OTHER -> <<Pay(t)>> \o ChangeOutput(change)

\* The transactions that a call can build from the API node's pool now; the
\* RPC server's sendTransaction selects no inputs.
Built(t, method) ==
    {[method |-> method, sig |-> sig, inputs |-> S,
      outputs |-> Outputs(t, method, Value(S) - Needed(t, method))] :
        sig \in SigLengths,
        S \in IF method = "rpc" THEN {{}} ELSE SelectUTXOs(apiPool, Needed(t, method))}

\* What a client can write: any inputs that exist, outputs and signature.  The inputs
\* of a system transaction are looked at by nobody; with one output it passes where a
\* block is validated.
ClientMade(t, method) ==
    {b \in [method : {method}, sig : SigLengths, outputs : ClientOutputs,
            inputs : IF method = "system" THEN {{}} ELSE SUBSET minerPool.have] :
        method = "system" => Len(b.outputs) = 1}

-----------------------------------------------------------------------------
(* The rules of the miner. *)

\* IsCoinbase or IsValidatorReward: the type that the transaction itself claims.
IsSystem(b) == b.method = "system"

\* Transaction.VerifySignature.
VerifySignature(b) == IsSystem(b) \/ Verifies(b.sig)

\* Gas: NewTransaction has checked price and limit; a stake transaction has 0
\* for both, which ValidateGas refuses.
GasValid(b) == b.method # "stake"

\* GasLimit * MaxFeePerGas: twice the fee, or 0 where MaxFeePerGas is not set, as a
\* client may leave it.
MaxGasFee(t, b) == IF b.method \in {"manual", "client"} THEN 0 ELSE 2 * Fee[t]

\* UTXOPool.ValidateTransaction does not look at Spent.
PoolValid(pool, t, b) ==
    /\ b.inputs \subseteq pool.have
    /\ \A o \in b.inputs : Output(o).to = "self"
    /\ Value(b.inputs) >= Amount[t]

\* Node.validateTransaction lets system transactions pass.
Passes(t, b) ==
    IsSystem(b) \/ (t \notin Pooled(txs) /\ VerifySignature(b) /\ PoolValid(minerPool, t, b))

\* Mutant of PaymentValid: Spent is not looked at here either.
PaymentValidSpent(pool, t, b) ==
    /\ GasValid(b)
    /\ b.inputs \subseteq pool.have
    /\ \A o \in b.inputs : Output(o).to = "self"
    /\ Value(b.inputs) >= Amount[t] + MaxGasFee(t, b)
    /\ VerifySignature(b)

\* The rules of Mempool.ValidateTransaction for a payment.
PaymentValid(pool, t, b) ==
    /\ GasValid(b)
    /\ b.inputs \subseteq pool.have \ pool.spent
    /\ \A o \in b.inputs : Output(o).to = "self"
    /\ Value(b.inputs) >= Amount[t] + MaxGasFee(t, b)
    /\ VerifySignature(b)

\* Mempool.ValidateTransaction.
MempoolValid(pool, t, b) == IsSystem(b) \/ PaymentValid(pool, t, b)

-----------------------------------------------------------------------------
(* The API node. *)

\* BroadcastTransaction writes to each peer: the miner gets it, or is none of them or
\* the write fails.  What the caller is told does not tell which: an error if no write
\* was reported to succeed, a panic where SendTransactionWithKey then reads the
\* change output of a transaction that has none.
BroadcastTransaction(t) ==
    /\ wire' \in {wire, wire \cup {t}}
    /\ call' = [call EXCEPT ![t] = "sent"]

\* Mutant of CheckedHere: the shell relies on the network's validation.
CheckedHereNot(t, b) == b.method \in {"key", "stake"} \/ VerifySignature(b)

\* What a call checks before it sends: the shell the mempool's rules, the others
\* the signature; SendTransactionWithKey and the stake of runValidatorNode nothing.
CheckedHere(t, b) ==
    CASE b.method = "shell" -> MempoolValid(apiPool, t, b)
      [] b.method \in {"key", "stake"} -> TRUE
      [] OTHER -> VerifySignature(b)

\* CreateUnsignedTransaction gives the client a transaction to sign.
CreateUnsigned(t, method) ==
    /\ call[t] = "none" /\ method = "raw" /\ method \in Methods[t]
    /\ \E b \in Built(t, method) : body' = [body EXCEPT ![t] = b]
    /\ call' = [call EXCEPT ![t] = "draft"]
    /\ UNCHANGED <<poolVars, wire, checked, old, ended, history, ledgers>>

\* The call's checks and, if they pass, the broadcast.
Send(t, b) ==
    IF CheckedHere(t, b)
    THEN BroadcastTransaction(t)
    ELSE wire' = wire /\ call' = [call EXCEPT ![t] = "error"]

\* SendTransaction with rawTransaction: the inputs chosen then, the signature.
SendRaw(t) ==
    /\ call[t] = "draft"
    /\ Send(t, body[t])
    /\ UNCHANGED <<poolVars, body, checked, old, ended, history, ledgers>>

\* SendTransaction or the RPC server's handleSendTransaction with a rawTransaction
\* that the client has made up: the JSON is decoded into the transaction as it is.
SendClientMade(t, method) ==
    /\ method \in {"client", "system"} \cap Methods[t] /\ call[t] = "none"
    /\ \E b \in ClientMade(t, method) : body' = [body EXCEPT ![t] = b] /\ Send(t, b)
    /\ UNCHANGED <<poolVars, checked, old, ended, history, ledgers>>

\* Calls that build a transaction and send it at once.
BuildAndSend(t, method) ==
    /\ call[t] = "none" /\ method \in Methods[t]
    /\ \E b \in Built(t, method) : body' = [body EXCEPT ![t] = b] /\ Send(t, b)
    /\ UNCHANGED <<poolVars, checked, old, ended, history, ledgers>>

\* TransactionAPI.SendTransaction with the fields of a transaction, its
\* TransactionID among them or not.
SendTransaction(t, method) == method \in {"fields", "manual"} /\ BuildAndSend(t, method)

\* TransactionAPI.SendTransactionWithKey.
SendTransactionWithKey(t, method) == method = "key" /\ BuildAndSend(t, method)

\* The RPC server's handleSendTransaction.
handleSendTransaction(t, method) == method = "rpc" /\ BuildAndSend(t, method)

\* The TXNS shell's handleSendTransaction.
ShellSend(t, method) == method = "shell" /\ BuildAndSend(t, method)

\* The stake transaction of runValidatorNode.
StakeSend(t, method) == method = "stake" /\ BuildAndSend(t, method)

\* The wallet has too little in the API node's pool.
SendFails(t, method) ==
    /\ call[t] = "none" /\ method \in Calls \cap Methods[t]
    /\ Built(t, method) = {}
    /\ call' = [call EXCEPT ![t] = "error"]
    /\ UNCHANGED <<poolVars, body, wire, checked, old, ended, history, ledgers>>

-----------------------------------------------------------------------------
(* The miner. *)

End(t, how) == ended' = [ended EXCEPT ![t] = how]

\* Mutant of ValidateTransaction: processTransaction returns before the mempool.
ValidateTransactionOnly(t) ==
    /\ t \in wire /\ Passes(t, body[t])
    /\ wire' = wire \ {t}
    /\ UNCHANGED <<poolVars, body, call, checked, old, ended, history, ledgers>>

\* handleTransactionStream decodes the message; validateTransaction passes it.
ValidateTransaction(t) ==
    /\ t \in wire /\ Passes(t, body[t])
    /\ wire' = wire \ {t} /\ checked' = checked \cup {t}
    /\ UNCHANGED <<poolVars, body, call, old, ended, history, ledgers>>

\* It does not, and the peer's score goes down.
RejectTransaction(t) ==
    /\ t \in wire /\ ~Passes(t, body[t])
    /\ wire' = wire \ {t}
    /\ End(t, IF t \in Pooled(txs) THEN "duplicate" ELSE "rejected")
    /\ UNCHANGED <<poolVars, body, call, checked, old, history, ledgers>>

\* The handler is through with t.
Leaves(t) ==
    /\ t \in checked
    /\ checked' = checked \ {t} /\ old' = [old EXCEPT ![t] = {}]
    /\ UNCHANGED <<body, call, wire, merged, waited, ledgers>>

\* processTransaction goes on to Mempool.AddTransaction, which checks everything
\* again under its lock, but against the map that GetUTXOs has returned before: the
\* current one, or that of a pool which MineBlock has replaced since.
ProcessTransaction(t, map) ==
    /\ Leaves(t)
    /\ \/ /\ MempoolValid(map, t, body[t]) /\ (AddTransaction(t) \/ ReplaceLowest(t))
          /\ late' = IF MempoolValid(minerPool, t, body[t]) THEN late ELSE late \cup {t}
          /\ UNCHANGED ended
       \/ /\ MempoolValid(map, t, body[t]) /\ RefuseTransaction(t)
          /\ End(t, "refused") /\ UNCHANGED late
       \/ /\ t \notin Pooled(txs) /\ ~MempoolValid(map, t, body[t])
          /\ UNCHANGED <<poolVars, late>> /\ End(t, "rejected")
       \/ /\ t \in Pooled(txs)
          /\ UNCHANGED <<poolVars, late>> /\ End(t, "duplicate")

\* At its start the node appends a peer's list of transactions.
SyncMempool(list) ==
    /\ \A i \in 1..Len(list) : call[list[i]] = "sent"
    /\ chain = <<>>
    /\ SyncWithPeer(list)
    /\ merged' = merged \cup Pooled(list)
    /\ UNCHANGED <<body, call, wire, checked, old, ended, waited, late, ledgers>>

Makes(block) == UNION {OutsOf(t) : t \in block}
Uses(block) == UNION {body[t].inputs : t \in block}

\* The pool after a block: inputs Spent, then outputs written as unspent.  Where a
\* block makes an output again that it also spends, the order decides: kept are those
\* left Spent.
Apply(pool, block, kept) ==
    [have  |-> pool.have \cup Makes(block),
     spent |-> ((pool.spent \cup (pool.have \cap Uses(block))) \ Makes(block)) \cup kept]
Kept(block) == SUBSET (Makes(block) \cap Uses(block))

\* The transactions of the next block: those that pay most.
TopOf(pooled) ==
    {Pooled(SubSeq(s, 1, IF Len(s) > BlockLimit THEN BlockLimit ELSE Len(s))) : s \in Sorted(pooled)}

\* The next block, without another validation; RemoveTransaction for each.  A new
\* output makes the pools' roots differ, and Node.UTXOPool is replaced.
MineBlock ==
    /\ Len(chain) < MaxBlocks /\ txs # <<>>
    /\ \E block \in TopOf(txs) : \E kept \in Kept(block) :
         /\ chain' = Append(chain, block)
         /\ minerPool' = Apply(minerPool, block, kept)
         /\ old' = IF Makes(block) \subseteq minerPool.have THEN old
                   ELSE [t \in Txs |-> IF t \in checked THEN old[t] \cup {minerPool} ELSE old[t]]
         /\ RemoveTransactions(block)
         /\ waited' = waited \cup (Pooled(txs) \ block)
    /\ UNCHANGED <<body, call, wire, checked, ended, merged, late, apiPool, apiHeight>>

\* The API node receives a block.
ReceiveBlock ==
    /\ apiHeight < Len(chain)
    /\ \E kept \in Kept(chain[apiHeight + 1]) : apiPool' = Apply(apiPool, chain[apiHeight + 1], kept)
    /\ apiHeight' = apiHeight + 1
    /\ UNCHANGED <<poolVars, pathVars, minerPool, chain>>

Handle(t) ==
    \/ ValidateTransaction(t) \/ RejectTransaction(t)
    \/ \E map \in old[t] \cup {minerPool} : ProcessTransaction(t, map)

Next ==
    \/ \E t \in Txs, method \in AllMethods :
         \/ CreateUnsigned(t, method) \/ SendTransaction(t, method)
         \/ SendTransactionWithKey(t, method) \/ handleSendTransaction(t, method)
         \/ ShellSend(t, method) \/ StakeSend(t, method) \/ SendFails(t, method)
         \/ SendClientMade(t, method)
    \/ \E t \in Txs : SendRaw(t) \/ Handle(t)
    \/ \E list \in Lists : SyncMempool(list)
    \/ MineBlock \/ ReceiveBlock

Spec == Init /\ [][Next]_vars

\* While handlers have work some handler runs; each takes two steps, so all come to
\* their end.  Nothing is assumed of mining, which needs the validators' answers.
FairSpec == Spec /\ WF_vars(\E t \in Txs : Handle(t))

-----------------------------------------------------------------------------
(* Properties *)

Mined == UNION {chain[i] : i \in DOMAIN chain}

\* The outputs of transactions that two blocks have: the second makes them unspent.
Remade == Makes({t \in Txs : \E i, j \in DOMAIN chain : i # j /\ t \in chain[i] \cap chain[j]})

\* Whichever calls sent two payments and whenever they were validated, a later block
\* spends an input again only if the second was pooled when the first was mined, if
\* a peer's list brought it unvalidated, if it was admitted by the map of a pool that
\* MineBlock had replaced, or if the input itself was made again.
SpentAgainOnlyIfPooled ==
    \A i, j \in DOMAIN chain : i < j =>
        \A t \in chain[i], u \in chain[j] :
            body[t].inputs \cap body[u].inputs \subseteq Remade \/ u \in waited \cup merged \cup late

\* The shell applies the mempool's own rules before it sends, so the miner turns its
\* transaction away only if a mined one has spent an input of it, or the mempool has
\* it or is full; the map may be an old one, and the shell's pool older still.
ShellRejectedOnlyIfSpent ==
    \A t \in Txs : body[t].method = "shell" /\ ended[t] = "rejected" =>
        body[t].inputs \cap Uses(Mined) # {}

\* A payment that the node's own calls have built is covered: what it makes, with the
\* fee, is no more than it spends, once it is pooled or mined.  Not so what a client
\* writes, or gives an ID: outputs are compared with inputs nowhere.
ValueKept ==
    \A t \in Pooled(txs) \cup Mined :
        t \notin merged /\ body[t].method \notin {"manual", "client", "system"} =>
            Value(OutsOf(t)) + Fee[t] <= Value(body[t].inputs)

\* No stream is lost at the miner: a transaction that reached it is pooled, or turned
\* away by validation, as a duplicate or by a full mempool.
Settled ==
    \A t \in Txs : t \in wire ~>
        t \notin wire \cup checked /\ (t \in Pooled(txs) \cup Mined \/ ended[t] # "no")

\* The mempool is sound whoever adds to it: NoDuplicates and RicherStay hold beside
\* handlers, blocks and the unsorted, unvalidated lists that SyncWithPeer merges.
MempoolSound == TypeOK /\ NoDuplicates /\ RicherStay
============================================================================

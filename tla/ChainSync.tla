----------------------------- MODULE ChainSync -----------------------------
(***************************************************************************)
(* A node that fetches the blocks it lacks from a peer: Node.SyncWithPeer  *)
(* on one side of a stream, Node.handleSyncRequest on the other.           *)
(*                                                                         *)
(* Both sides use a new JSON encoder or decoder for every message.  A      *)
(* decoder reads ahead, and what it has read beyond its message is lost    *)
(* with it: of the messages that have arrived some may go, and the next    *)
(* one may be left without its beginning ("torn").                         *)
(*                                                                         *)
(* Blocks are their numbers.  SyncWithPeer holds syncMu to its end, so one *)
(* synchronisation runs at a time; handleBlockStream appends announced     *)
(* blocks beside it.                                                       *)
(***************************************************************************)
EXTENDS Integers, Sequences, FiniteSetsExt

CONSTANTS
    MaxHeight,      \* bound: the highest block the peer mines
    FirstHeight,    \* the peer's height at the start
    MaxSyncs,       \* bound: calls of SyncWithPeer
    MaxLength       \* bound: blocks in the node's chain

ASSUME SyncAssumption ==
    /\ {MaxHeight, FirstHeight, MaxSyncs, MaxLength} \subseteq Nat
    /\ FirstHeight <= MaxHeight /\ MaxLength > 0

Numbers == 0..MaxHeight
Torn == [type |-> "torn"]
Resp == [type |-> "resp"]
Done == [type |-> "done"]
BlockMsg(n) == [type |-> "block", n |-> n]
Messages == {Torn, Resp, Done} \cup {BlockMsg(n) : n \in Numbers}

VARIABLES
    peerHas,        \* the peer's blocks; one that synchronised may lack some
    chain,          \* bc.Chain of the node
    announced,      \* an announced block validated on the tip, or -1
    client,         \* where SyncWithPeer is
    req,            \* req.Height
    cursor,         \* history: the last block this synchronisation appended
    server,         \* where handleSyncRequest is: "none", "resp", "blocks"
    height, i,      \* its local variables
    stream,         \* messages sent and not decoded
    closed,         \* "open", "closed" by the server, or "reset"
    syncs           \* calls so far

clientVars == <<client, req, cursor>>
serverVars == <<server, height, i>>
vars == <<peerHas, chain, announced, clientVars, serverVars, stream, closed, syncs>>

\* GetHeight: the number of the last block, 0 for an empty chain.
HeightOf(c) == IF c = <<>> THEN 0 ELSE c[Len(c)]

ClientStates == {"idle", "resp", "block", "done", "returned", "failed", "crashed"}

\* Chains and streams of block numbers, and where the two sides are.
TypeOK ==
    /\ peerHas \subseteq Numbers /\ chain \in Seq(Numbers) /\ Len(chain) <= MaxLength
    /\ announced \in Numbers \cup {-1}
    /\ client \in ClientStates /\ req \in Numbers /\ cursor \in Numbers \cup {-1}
    /\ server \in {"none", "resp", "blocks"} /\ height \in Numbers /\ i \in 0..(MaxHeight + 1)
    /\ stream \in Seq(Messages) /\ closed \in {"open", "closed", "reset"} /\ syncs \in 0..MaxSyncs

Init ==
    /\ \E S \in SUBSET (0..FirstHeight) : peerHas = S \cup {FirstHeight}
    /\ chain \in {<<>>, <<0>>}
    /\ announced = -1
    /\ client = "idle" /\ req = 0 /\ cursor = -1
    /\ server = "none" /\ height = 0 /\ i = 0
    /\ stream = <<>> /\ closed = "closed" /\ syncs = 0

-----------------------------------------------------------------------------
(* The peer. *)

\* The peer mines on its tip.
MineBlock ==
    /\ Max(peerHas) < MaxHeight
    /\ peerHas' = peerHas \cup {Max(peerHas) + 1}
    /\ UNCHANGED <<chain, announced, clientVars, serverVars, stream, closed, syncs>>

\* Mutant of ReadRequest: the first block is counted from the request itself.
ReadRequestInclusive ==
    /\ server = "resp" /\ closed = "open"
    /\ height' = Max(peerHas)
    /\ stream' = Append(stream, Resp)
    /\ IF req = 0 \/ req < Max(peerHas)
       THEN server' = "blocks" /\ i' = req /\ UNCHANGED closed
       ELSE server' = "none" /\ UNCHANGED i /\ closed' = "closed"
    /\ UNCHANGED <<peerHas, chain, announced, clientVars, syncs>>

\* handleSyncRequest reads the request and its own height and answers; a node
\* whose height is not below the peer's gets nothing more, except that one at
\* height 0 is sent the genesis block again.
ReadRequest ==
    /\ server = "resp" /\ closed = "open"
    /\ height' = Max(peerHas)
    /\ stream' = Append(stream, Resp)
    /\ IF req = 0 \/ req < Max(peerHas)
       THEN server' = "blocks" /\ i' = (IF req = 0 THEN 0 ELSE req + 1) /\ UNCHANGED closed
       ELSE server' = "none" /\ UNCHANGED i /\ closed' = "closed"
    /\ UNCHANGED <<peerHas, chain, announced, clientVars, syncs>>

\* Mutant of SendBlock: nothing stops the loop.
SendBlockBeyond ==
    /\ server = "blocks" /\ closed = "open"
    /\ stream' = IF i \in peerHas THEN Append(stream, BlockMsg(i)) ELSE stream
    /\ i' = i + 1
    /\ UNCHANGED <<peerHas, chain, announced, clientVars, server, height, closed, syncs>>

\* The next block up to the height read, if the peer has it.
SendBlock ==
    /\ server = "blocks" /\ closed = "open"
    /\ i <= height
    /\ stream' = IF i \in peerHas THEN Append(stream, BlockMsg(i)) ELSE stream
    /\ i' = i + 1
    /\ UNCHANGED <<peerHas, chain, announced, clientVars, server, height, closed, syncs>>

\* The completion message, and the stream is closed.
SendComplete ==
    /\ server = "blocks" /\ closed = "open"
    /\ i > height
    /\ stream' = Append(stream, Done)
    /\ server' = "none" /\ closed' = "closed"
    /\ UNCHANGED <<peerHas, chain, announced, clientVars, height, i, syncs>>

-----------------------------------------------------------------------------
(* The node. *)

\* SyncWithPeer: a stream is opened and the request sent.
SyncWithPeer ==
    /\ client \in {"idle", "returned", "failed"}
    /\ syncs < MaxSyncs
    /\ syncs' = syncs + 1
    /\ req' = HeightOf(chain)
    /\ cursor' = IF HeightOf(chain) = 0 THEN -1 ELSE HeightOf(chain)
    /\ client' = "resp" /\ server' = "resp"
    /\ stream' = <<>> /\ closed' = "open"
    /\ UNCHANGED <<peerHas, chain, announced, height, i>>

\* A read of one message: what may be left of the stream.
AfterDecode ==
    LET rest == Tail(stream)
        kept == {SubSeq(rest, k, Len(rest)) : k \in 1..(Len(rest) + 1)}
    IN kept \cup {<<Torn>> \o Tail(s) : s \in {t \in kept : t # <<>>}}

Decode(type) ==
    /\ stream # <<>> /\ closed # "reset"
    /\ stream[1].type = type
    /\ \E rest \in AfterDecode : stream' = rest

\* io.EOF, or the error of a stream that was reset.
EndOfStream == stream = <<>> /\ closed = "closed"
Broken == closed = "reset" \/ (stream # <<>> /\ stream[1] = Torn)

\* The initial response; HasChain is true of every peer.
ReadResponse ==
    /\ client = "resp"
    /\ \/ Decode("resp") /\ client' = "block"
       \/ closed = "reset" /\ client' = "failed" /\ UNCHANGED stream
    /\ UNCHANGED <<peerHas, chain, announced, req, cursor, serverVars, closed, syncs>>

\* Mutant of ReadBlock: the height is taken for the block's.
ReadBlockHeight ==
    /\ client = "block"
    /\ Len(chain) < MaxLength
    /\ Decode("block")
    /\ chain' = Append(chain, HeightOf(chain) + 1)
    /\ cursor' = stream[1].n
    /\ client' = "done"
    /\ UNCHANGED <<peerHas, announced, req, serverVars, closed, syncs>>

\* A block is decoded and appended by AddBlockWithoutValidation.
ReadBlock ==
    /\ client = "block"
    /\ Len(chain) < MaxLength
    /\ Decode("block")
    /\ chain' = Append(chain, stream[1].n)
    /\ cursor' = stream[1].n
    /\ client' = "done"
    /\ UNCHANGED <<peerHas, announced, req, serverVars, closed, syncs>>

\* The completion message has no header: Block.UnmarshalJSON dereferences nil.
ReadCompleteAsBlock ==
    /\ client = "block"
    /\ Decode("done")
    /\ client' = "crashed"
    /\ UNCHANGED <<peerHas, chain, announced, req, cursor, serverVars, closed, syncs>>

\* No block: the end of the stream is success, anything else an error.
ReadNoBlock ==
    /\ client = "block"
    /\ \/ EndOfStream /\ client' = "returned"
       \/ Broken /\ client' = "failed"
    /\ UNCHANGED <<peerHas, chain, announced, req, cursor, serverVars, stream, closed, syncs>>

\* Mutant of ReadCompletion: an error or another message is waited out.
ReadCompletionOnly ==
    /\ client = "done"
    /\ Decode("done") /\ client' = "returned"
    /\ UNCHANGED <<peerHas, chain, announced, req, cursor, serverVars, closed, syncs>>

\* After every block one more message is decoded as a completion message; a
\* block or a torn message in its place is dropped, and errors are ignored.
ReadCompletion ==
    /\ client = "done"
    /\ \/ Decode("done") /\ client' = "returned"
       \/ (Decode("block") \/ Decode("torn")) /\ client' = "block"
       \/ (EndOfStream \/ closed = "reset") /\ client' = "block" /\ UNCHANGED stream
    /\ UNCHANGED <<peerHas, chain, announced, req, cursor, serverVars, closed, syncs>>

\* The connection fails.
ResetStream ==
    /\ client \in {"resp", "block", "done"} /\ closed # "reset"
    /\ closed' = "reset" /\ server' = "none" /\ stream' = <<>>
    /\ UNCHANGED <<peerHas, chain, announced, clientVars, height, i, syncs>>

\* handleBlockStream validates an announced block on the node's tip ...
ValidateAnnounced ==
    /\ client # "crashed" /\ announced = -1
    /\ chain # <<>> /\ HeightOf(chain) + 1 \in peerHas
    /\ announced' = HeightOf(chain) + 1
    /\ UNCHANGED <<peerHas, chain, clientVars, serverVars, stream, closed, syncs>>

\* ... and appends it under another acquisition of the lock.
AppendAnnounced ==
    /\ client # "crashed" /\ announced # -1
    /\ Len(chain) < MaxLength
    /\ chain' = Append(chain, announced)
    /\ announced' = -1
    /\ UNCHANGED <<peerHas, clientVars, serverVars, stream, closed, syncs>>

Serve == ReadRequest \/ SendBlock \/ SendComplete
Fetch == ReadResponse \/ ReadBlock \/ ReadCompleteAsBlock \/ ReadNoBlock \/ ReadCompletion

Next ==
    \/ MineBlock \/ Serve
    \/ SyncWithPeer \/ Fetch
    \/ ResetStream
    \/ ValidateAnnounced \/ AppendAnnounced

Spec == Init /\ [][Next]_vars

\* Both goroutines keep running while the stream is up.
FairSpec == Spec /\ WF_vars(Serve) /\ WF_vars(Fetch)

-----------------------------------------------------------------------------
\* The refinement mapping: the peer's blocks, the node's chain and the cursor are
\* Replica's; streams and the positions of the two sides are the detail.
Abstract == INSTANCE Replica
    WITH Numbers <- Numbers, peerHas <- peerHas, chain <- chain, cursor <- cursor

\* SyncWithPeer and handleSyncRequest implement Replica: whatever is lost or
\* torn, however the peer grows and whatever is announced meanwhile, the node
\* appends the peer's blocks only, those of one synchronisation in order.
SyncIsReplica == Abstract!Spec

\* A call of SyncWithPeer returns, unless the node crashes in it or its chain
\* reaches the bound: no message is waited for that does not come.
SyncReturns ==
    (client \in {"resp", "block", "done"})
      ~> (client \in {"returned", "failed", "crashed"} \/ Len(chain) = MaxLength)
============================================================================

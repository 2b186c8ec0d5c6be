----------------------------- MODULE JoinProofs -----------------------------
(***************************************************************************)
(* How a node comes to its chain.  The start function picks the node it    *)
(* takes the chain from (module NodeStart) and SyncWithPeer fetches the    *)
(* blocks (module ChainSync).  Proved here: ChainSync implements Replica,  *)
(* for a peer of any height and any number of synchronisations, and the    *)
(* start does not pick a node that it knows to be a boot node.             *)
(***************************************************************************)
EXTENDS ChainSync, NodeStart, SequenceTheorems, TLAPS

-----------------------------------------------------------------------------
(* Messages and streams. *)

\* A message that is a block carries the number of one.
LEMMA BlockMessage ==
    ASSUME NEW m \in Messages, m.type = "block"
    PROVE  m.n \in Numbers
  BY DEF Messages, Torn, Resp, Done, BlockMsg

\* The messages of a stream, told apart by their type.
LEMMA MessageTypes ==
    /\ Torn \in Messages /\ Resp \in Messages /\ Done \in Messages
    /\ Torn.type = "torn" /\ Resp.type = "resp" /\ Done.type = "done"
    /\ \A n \in Numbers : BlockMsg(n) \in Messages /\ BlockMsg(n).type = "block" /\ BlockMsg(n).n = n
  BY DEF Messages, Torn, Resp, Done, BlockMsg

\* What a decoder leaves: the end of the stream behind the message it read,
\* its first message torn or not.
LEMMA DecodeLeaves ==
    ASSUME stream \in Seq(Messages), stream # <<>>, NEW rest \in AfterDecode
    PROVE  /\ rest \in Seq(Messages)
           /\ \E d \in Nat \ {0} :
                /\ Len(rest) + d = Len(stream)
                /\ \A k \in 1..Len(rest) : rest[k] = Torn \/ rest[k] = stream[k + d]
  <1> DEFINE tail == Tail(stream)
             kept == {SubSeq(tail, k, Len(tail)) : k \in 1..(Len(tail) + 1)}
  <1>1. /\ tail \in Seq(Messages) /\ Len(stream) \in Nat \ {0} /\ Len(tail) = Len(stream) - 1
        /\ \A k \in 1..Len(tail) : tail[k] = stream[k + 1]
    OBVIOUS
  <1>2. ASSUME NEW s \in kept
        PROVE  /\ s \in Seq(Messages)
               /\ \E d \in Nat \ {0} : /\ Len(s) + d = Len(stream)
                                       /\ \A k \in 1..Len(s) : s[k] = stream[k + d]
    <2> PICK j \in 1..(Len(tail) + 1) : s = SubSeq(tail, j, Len(tail))
      OBVIOUS
    <2> HIDE DEF tail
    <2>0. Len(tail) \in Nat /\ j \in Int /\ \A k \in 1..Len(tail) : tail[k] \in Messages
      BY <1>1
    <2>1. s \in Seq(Messages) /\ Len(s) = Len(tail) - j + 1 /\ \A k \in 1..Len(s) : s[k] = tail[j + k - 1]
      BY <1>1, <2>0
    <2>2. \A k \in 1..Len(s) : s[k] = stream[k + j]
      BY <1>1, <2>1, SMTT(30)
    <2>3. Len(s) + j = Len(stream) /\ j \in Nat \ {0}
      BY <1>1, <2>1
    <2> QED BY <2>1, <2>2, <2>3
  <1>3. CASE rest \in kept
    BY <1>2, <1>3
  <1>4. CASE \E s \in kept : s # <<>> /\ rest = <<Torn>> \o Tail(s)
    <2> PICK s \in kept : s # <<>> /\ rest = <<Torn>> \o Tail(s)
      BY <1>4
    <2> HIDE DEF kept
    <2> PICK d \in Nat \ {0} : Len(s) + d = Len(stream) /\ \A k \in 1..Len(s) : s[k] = stream[k + d]
      BY <1>2
    <2>1. s \in Seq(Messages)
      BY <1>2
    <2>2. Tail(s) \in Seq(Messages) /\ Len(Tail(s)) = Len(s) - 1 /\ Len(s) \in Nat \ {0}
          /\ \A k \in 1..Len(Tail(s)) : Tail(s)[k] = s[k + 1]
      BY <2>1
    <2>3. <<Torn>> \in Seq(Messages) /\ Len(<<Torn>>) = 1 /\ <<Torn>>[1] = Torn
      BY MessageTypes
    <2> DEFINE u == Tail(s)
               t1 == <<Torn>>
    <2> HIDE DEF u, t1
    <2>4. /\ rest \in Seq(Messages) /\ Len(rest) = 1 + Len(u)
          /\ \A k \in 1..Len(rest) : rest[k] = IF k <= 1 THEN t1[k] ELSE u[k - 1]
      BY <2>2, <2>3, ConcatProperties DEF u, t1
    <2>5. Len(rest) = Len(s)
      BY <2>2, <2>4 DEF u
    <2>6. ASSUME NEW k \in 1..Len(rest) PROVE rest[k] = Torn \/ rest[k] = stream[k + d]
      <3>1. CASE k = 1
        BY <2>3, <2>4, <3>1 DEF t1
      <3>2. CASE k > 1
        <4>1. rest[k] = u[k - 1]
          BY <2>4, <3>2
        <4>2. u[k - 1] = s[k]
          BY <2>2, <2>5, <3>2 DEF u
        <4> QED BY <2>5, <4>1, <4>2
      <3> QED BY <2>2, <2>5, <3>1, <3>2
    <2> QED BY <2>4, <2>5, <2>6
  <1> QED BY <1>3, <1>4 DEF AfterDecode

-----------------------------------------------------------------------------
(* The invariant behind the refinement. *)

Positions == 1..Len(stream)
IsBlock(a) == stream[a].type = "block"

\* The peer has a highest block.
PeerHasTop == \E m \in peerHas : \A n \in peerHas : n <= m

\* What is on its way to the node is the peer's, lies above what the node has
\* appended in this synchronisation, and comes in the order of the numbers.
StreamFresh ==
    /\ \A a \in Positions : IsBlock(a) => stream[a].n \in peerHas /\ stream[a].n > cursor
    /\ \A a, b \in Positions : a < b /\ IsBlock(a) /\ IsBlock(b) => stream[a].n < stream[b].n

\* The peer has sent the blocks below i only.
ServerAhead ==
    server = "blocks" => i > cursor /\ \A a \in Positions : IsBlock(a) => stream[a].n < i

\* Nothing is sent or appended before the request is read.
RequestFirst ==
    server = "resp" => stream = <<>> /\ cursor = (IF req = 0 THEN -1 ELSE req)

\* A validated announcement stays the successor of a block of the chain.
AnnouncedFollows ==
    announced # -1 => announced \in peerHas /\ \E k \in DOMAIN chain : chain[k] = announced - 1

SyncInv == TypeOK /\ PeerHasTop /\ StreamFresh /\ ServerAhead /\ RequestFirst /\ AnnouncedFollows

\* Max is the peer's height.
LEMMA MaxIsTop ==
    ASSUME TypeOK, PeerHasTop
    PROVE  Max(peerHas) \in peerHas /\ Max(peerHas) \in Numbers /\ \A n \in peerHas : n <= Max(peerHas)
  <1>1. \E m \in peerHas : \A n \in peerHas : m >= n
    BY SyncAssumption DEF PeerHasTop, TypeOK, Numbers
  <1>2. Max(peerHas) \in peerHas /\ \A n \in peerHas : Max(peerHas) >= n
    BY <1>1 DEF Max
  <1> QED BY <1>2, SyncAssumption DEF TypeOK, Numbers

\* The height of a chain is a block number.
LEMMA HeightType ==
    ASSUME TypeOK
    PROVE  HeightOf(chain) \in Numbers
  BY SyncAssumption DEF TypeOK, HeightOf, Numbers

\* A message put at the end of the stream.
LEMMA SendLeaves ==
    ASSUME TypeOK, NEW m \in Messages, stream' = Append(stream, m)
    PROVE  /\ stream' \in Seq(Messages)
           /\ Len(stream') = Len(stream) + 1 /\ Len(stream) \in Nat
           /\ \A k \in 1..Len(stream) : stream'[k] = stream[k]
           /\ stream'[Len(stream) + 1] = m
  BY DEF TypeOK

\* A message that is no block leaves the order of the stream as it is.
LEMMA SendOther ==
    ASSUME TypeOK, StreamFresh, NEW m \in Messages, m.type # "block", stream' = Append(stream, m),
           UNCHANGED <<peerHas, cursor>>
    PROVE  /\ StreamFresh'
           /\ \A a \in Positions' : IsBlock(a)' => a \in Positions /\ IsBlock(a) /\ stream'[a] = stream[a]
  <1>1. ASSUME NEW a \in Positions', IsBlock(a)'
        PROVE  a \in Positions /\ IsBlock(a) /\ stream'[a] = stream[a]
    BY <1>1, SendLeaves DEF Positions, IsBlock
  <1> QED BY <1>1 DEF StreamFresh

\* Decoding keeps what is left fresh, above the block decoded if it is one.
LEMMA DecodeFresh ==
    ASSUME TypeOK, StreamFresh, ServerAhead, RequestFirst, NEW t, Decode(t),
           UNCHANGED <<peerHas, server, i, req>>,
           cursor' = cursor \/ (t = "block" /\ cursor' = stream[1].n)
    PROVE  /\ stream' \in Seq(Messages)
           /\ StreamFresh' /\ ServerAhead' /\ RequestFirst'
           /\ t = "block" => stream[1].n \in peerHas /\ stream[1].n > cursor
  <1>1. stream \in Seq(Messages) /\ stream # <<>> /\ stream[1].type = t
    BY DEF TypeOK, Decode
  <1> PICK rest \in AfterDecode : stream' = rest
    BY DEF Decode
  <1>2. rest \in Seq(Messages)
    BY <1>1, DecodeLeaves
  <1> PICK d \in Nat \ {0} : /\ Len(rest) + d = Len(stream)
                             /\ \A k \in 1..Len(rest) : rest[k] = Torn \/ rest[k] = stream[k + d]
    BY <1>1, DecodeLeaves
  <1>3. Len(rest) \in Nat /\ Len(stream) \in Nat /\ 1 \in Positions
    BY <1>1, <1>2 DEF Positions
  <1>4. ASSUME NEW a \in Positions', IsBlock(a)'
        PROVE  a + d \in Positions /\ IsBlock(a + d) /\ stream'[a] = stream[a + d] /\ a + d > 1
    BY <1>3, <1>4, MessageTypes DEF Positions, IsBlock
  <1>5. t = "block" => IsBlock(1) /\ stream[1].n \in peerHas /\ stream[1].n > cursor
    BY <1>1, <1>3 DEF StreamFresh, IsBlock
  <1>6. ASSUME NEW a \in Positions', IsBlock(a)'
        PROVE  stream'[a].n \in peerHas' /\ stream'[a].n > cursor'
    <2>1. stream'[a].n \in peerHas /\ stream'[a].n > cursor
      BY <1>4, <1>6 DEF StreamFresh
    <2>2. CASE t = "block" /\ cursor' = stream[1].n
      <3>1. stream[1].n < stream[a + d].n
        BY <1>3, <1>4, <1>5, <1>6, <2>2 DEF StreamFresh
      <3>2. stream[1].n \in Int /\ stream[a + d].n \in Int
        <4>1. peerHas \subseteq Int
          BY SyncAssumption DEF TypeOK, Numbers
        <4>2. stream[a + d].n = stream'[a].n
          BY <1>4, <1>6
        <4> QED BY <1>5, <2>1, <2>2, <4>1, <4>2
      <3> QED BY <1>4, <1>6, <2>1, <2>2, <3>1, <3>2
    <2> QED BY <2>1, <2>2
  <1>7. ASSUME NEW a \in Positions', NEW b \in Positions', a < b, IsBlock(a)', IsBlock(b)'
        PROVE  stream'[a].n < stream'[b].n
    <2>1. a + d < b + d
      BY <1>7, <1>3 DEF Positions
    <2> QED BY <1>4, <1>7, <2>1 DEF StreamFresh
  <1>8. StreamFresh'
    BY <1>6, <1>7 DEF StreamFresh
  <1>9. ServerAhead'
    <2> SUFFICES ASSUME server = "blocks"
                 PROVE  i > cursor' /\ \A a \in Positions' : IsBlock(a)' => stream'[a].n < i
      BY DEF ServerAhead
    <2>1. i > cursor'
      BY <1>3, <1>5, SyncAssumption DEF ServerAhead, TypeOK
    <2> QED BY <1>4, <2>1 DEF ServerAhead
  <1>10. RequestFirst'
    BY <1>1 DEF RequestFirst
  <1> QED BY <1>2, <1>5, <1>8, <1>9, <1>10

-----------------------------------------------------------------------------
\* The invariant holds at the start.
LEMMA InitSyncInv ==
    ASSUME Init
    PROVE  SyncInv
  <1> PICK S \in SUBSET (0..FirstHeight) : peerHas = S \cup {FirstHeight}
    BY DEF Init
  <1>0. MaxHeight \in Nat /\ FirstHeight \in 0..MaxHeight /\ MaxSyncs \in Nat /\ MaxLength \in Nat \ {0}
    BY SyncAssumption
  <1>1. peerHas \subseteq Numbers /\ FirstHeight \in peerHas /\ \A n \in peerHas : n <= FirstHeight
    <2>1. S \subseteq 0..FirstHeight
      OBVIOUS
    <2>2. \A n \in S : n \in Numbers /\ n <= FirstHeight
      BY <1>0, <2>1 DEF Numbers
    <2> QED BY <1>0, <2>2 DEF Numbers
  <1>2. TypeOK
    <2>1. 0 \in Numbers
      BY <1>0 DEF Numbers
    <2>2. chain \in Seq(Numbers) /\ Len(chain) <= MaxLength
      <3>1. <<>> \in Seq(Numbers) /\ <<0>> \in Seq(Numbers) /\ Len(<<>>) = 0 /\ Len(<<0>>) = 1
        BY <2>1
      <3>2. CASE chain = <<>>
        BY <1>0, <3>1, <3>2
      <3>3. CASE chain = <<0>>
        BY <1>0, <3>1, <3>3
      <3> QED BY <3>2, <3>3 DEF Init
    <2> QED BY <1>0, <1>1, <2>1, <2>2 DEF Init, TypeOK, ClientStates
  <1>3. PeerHasTop
    BY <1>1 DEF PeerHasTop
  <1> QED BY <1>2, <1>3 DEF Init, SyncInv, StreamFresh, ServerAhead, RequestFirst, AnnouncedFollows, Positions

\* The peer's steps preserve it.
LEMMA PeerKeepsSyncInv ==
    ASSUME SyncInv, MineBlock \/ Serve
    PROVE  SyncInv'
  <1>0. /\ MaxHeight \in Nat /\ MaxSyncs \in Nat /\ MaxLength \in Nat
        /\ Max(peerHas) \in peerHas /\ Max(peerHas) \in Numbers /\ \A n \in peerHas : n <= Max(peerHas)
    BY MaxIsTop, SyncAssumption DEF SyncInv
  <1>a. TypeOK /\ PeerHasTop /\ StreamFresh /\ ServerAhead /\ RequestFirst /\ AnnouncedFollows
    BY DEF SyncInv
  <1>b. peerHas \subseteq Int
    BY <1>0, <1>a DEF TypeOK, Numbers
  <1>1. CASE MineBlock
    <2>1. Max(peerHas) + 1 \in Numbers
      BY <1>0, <1>1 DEF MineBlock, Numbers
    <2>2. TypeOK'
      BY <1>a, <1>1, <2>1 DEF MineBlock, TypeOK, clientVars, serverVars
    <2>3. PeerHasTop'
      <3>1. \A n \in peerHas' : n <= Max(peerHas) + 1
        BY <1>0, <1>a, <1>1 DEF MineBlock, TypeOK, Numbers
      <3> QED BY <1>1, <3>1 DEF MineBlock, PeerHasTop
    <2> QED BY <1>a, <1>1, <2>2, <2>3 DEF MineBlock, clientVars, serverVars, SyncInv, StreamFresh,
              ServerAhead, RequestFirst, AnnouncedFollows, Positions, IsBlock
  <1>2. CASE ReadRequest
    <2>1. /\ stream' = Append(stream, Resp) /\ Resp \in Messages /\ Resp.type # "block"
          /\ stream = <<>> /\ UNCHANGED <<peerHas, cursor, chain, announced, client, req, syncs>>
          /\ height' = Max(peerHas) /\ server' \in {"blocks", "none"}
      BY <1>a, <1>2, MessageTypes DEF ReadRequest, RequestFirst, clientVars
    <2>2. stream' \in Seq(Messages) /\ StreamFresh' /\ \A a \in Positions' : ~IsBlock(a)'
      BY <1>a, <2>1, SendLeaves, SendOther DEF Positions
    <2>3. server' = "blocks" => i' = (IF req = 0 THEN 0 ELSE req + 1) /\ UNCHANGED closed
      BY <1>2 DEF ReadRequest
    <2>4. server' = "none" => i' = i /\ closed' = "closed"
      BY <1>2 DEF ReadRequest
    <2>5. TypeOK'
      BY <1>0, <1>a, <2>1, <2>2, <2>3, <2>4 DEF TypeOK, Numbers
    <2>6. ServerAhead'
      BY <1>0, <1>a, <1>2, <2>1, <2>2, <2>3 DEF ServerAhead, RequestFirst, ReadRequest, TypeOK, Numbers
    <2>7. PeerHasTop' /\ RequestFirst' /\ AnnouncedFollows'
      BY <1>a, <2>1 DEF PeerHasTop, RequestFirst, AnnouncedFollows
    <2> QED BY <2>2, <2>5, <2>6, <2>7 DEF SyncInv
  <1>3. CASE SendBlock
    <2>1. /\ UNCHANGED <<peerHas, chain, announced, client, req, cursor, server, height, closed, syncs>>
          /\ server = "blocks" /\ i <= height /\ i' = i + 1
      BY <1>3 DEF SendBlock, clientVars
    <2>2. i \in Int /\ height \in Numbers /\ i' \in 0..(MaxHeight + 1) /\ i \in Numbers /\ cursor \in Int
      BY <1>0, <1>a, <2>1 DEF TypeOK, Numbers
    <2>3. CASE i \notin peerHas
      <3>1. stream' = stream
        BY <1>3, <2>3 DEF SendBlock
      <3>2. TypeOK'
        BY <1>a, <2>1, <2>2, <3>1 DEF TypeOK
      <3>3. ServerAhead'
        <4>1. \A a \in Positions : IsBlock(a) => stream[a].n \in Int
          BY <1>a, <1>b DEF StreamFresh
        <4> QED BY <1>a, <2>1, <2>2, <3>1, <4>1 DEF ServerAhead, Positions, IsBlock
      <3> QED BY <1>a, <2>1, <3>1, <3>2, <3>3 DEF SyncInv, PeerHasTop, StreamFresh, RequestFirst,
                AnnouncedFollows, Positions, IsBlock
    <2>4. CASE i \in peerHas
      <3>1. stream' = Append(stream, BlockMsg(i))
        BY <1>3, <2>4 DEF SendBlock
      <3>2. BlockMsg(i) \in Messages /\ BlockMsg(i).type = "block" /\ BlockMsg(i).n = i
        BY <2>2, MessageTypes
      <3>3. /\ stream' \in Seq(Messages)
            /\ Len(stream') = Len(stream) + 1 /\ Len(stream) \in Nat
            /\ \A k \in 1..Len(stream) : stream'[k] = stream[k]
            /\ stream'[Len(stream) + 1] = BlockMsg(i)
        BY <1>a, <3>1, <3>2, SendLeaves
      <3>4. TypeOK'
        BY <1>a, <2>1, <2>2, <3>3 DEF TypeOK
      <3>5. ASSUME NEW a \in Positions', IsBlock(a)'
            PROVE  \/ a \in Positions /\ IsBlock(a) /\ stream'[a] = stream[a]
                   \/ a = Len(stream) + 1 /\ stream'[a].n = i
        BY <3>2, <3>3, <3>5 DEF Positions, IsBlock
      <3>6. \A a \in Positions : IsBlock(a) => stream[a].n \in Int /\ stream[a].n < i /\ a < Len(stream) + 1
        <4>1. \A a \in Positions : a < Len(stream) + 1
          BY <3>3 DEF Positions
        <4>2. \A a \in Positions : IsBlock(a) => stream[a].n \in Int /\ stream[a].n < i
          BY <1>a, <1>b, <2>1 DEF StreamFresh, ServerAhead
        <4> QED BY <4>1, <4>2
      <3>7. \A a \in Positions' : IsBlock(a)' => stream'[a].n \in peerHas /\ stream'[a].n > cursor
        BY <1>a, <2>1, <2>4, <3>5 DEF StreamFresh, ServerAhead
      <3>8. ASSUME NEW a \in Positions', NEW b \in Positions', a < b, IsBlock(a)', IsBlock(b)'
            PROVE  stream'[a].n < stream'[b].n
        <4>1. a \in Int /\ b \in Int /\ b <= Len(stream) + 1
          BY <3>3 DEF Positions
        <4>2. a \in Positions /\ IsBlock(a) /\ stream'[a] = stream[a]
          BY <3>3, <3>5, <3>8, <4>1
        <4>3. CASE b \in Positions /\ IsBlock(b) /\ stream'[b] = stream[b]
          BY <1>a, <3>8, <4>2, <4>3 DEF StreamFresh
        <4>4. CASE stream'[b].n = i
          BY <3>6, <4>2, <4>4
        <4> QED BY <3>5, <3>8, <4>3, <4>4
      <3>9. StreamFresh'
        BY <2>1, <3>7, <3>8 DEF StreamFresh
      <3>10. ASSUME NEW a \in Positions', IsBlock(a)' PROVE stream'[a].n < i'
        BY <2>1, <2>2, <3>5, <3>6, <3>10
      <3>11. ServerAhead'
        BY <1>a, <2>1, <2>2, <3>10 DEF ServerAhead
      <3>12. PeerHasTop' /\ RequestFirst' /\ AnnouncedFollows'
        BY <1>a, <2>1 DEF PeerHasTop, RequestFirst, AnnouncedFollows
      <3> QED BY <3>4, <3>9, <3>11, <3>12 DEF SyncInv
    <2> QED BY <2>3, <2>4
  <1>4. CASE SendComplete
    <2>1. /\ UNCHANGED <<peerHas, chain, announced, client, req, cursor, height, i, syncs>>
          /\ server' = "none" /\ closed' = "closed" /\ stream' = Append(stream, Done)
          /\ Done \in Messages /\ Done.type # "block"
      BY <1>4, MessageTypes DEF SendComplete, clientVars
    <2>2. stream' \in Seq(Messages) /\ StreamFresh'
      BY <1>a, <2>1, SendLeaves, SendOther
    <2>3. TypeOK'
      BY <1>a, <2>1, <2>2 DEF TypeOK
    <2> QED BY <1>a, <2>1, <2>2, <2>3 DEF SyncInv, PeerHasTop, ServerAhead, RequestFirst, AnnouncedFollows
  <1> QED BY <1>1, <1>2, <1>3, <1>4 DEF Serve

\* The node's steps preserve it, and so does a failing connection.
LEMMA NodeKeepsSyncInv ==
    ASSUME SyncInv, SyncWithPeer \/ Fetch \/ ResetStream
    PROVE  SyncInv'
  <1>0. MaxHeight \in Nat /\ MaxSyncs \in Nat /\ MaxLength \in Nat
    BY SyncAssumption
  <1>a. TypeOK /\ PeerHasTop /\ StreamFresh /\ ServerAhead /\ RequestFirst /\ AnnouncedFollows
    BY DEF SyncInv
  <1>1. CASE SyncWithPeer
    <2>1. HeightOf(chain) \in Numbers
      BY <1>a, HeightType
    <2>2. TypeOK'
      BY <1>0, <1>a, <1>1, <2>1 DEF SyncWithPeer, TypeOK, ClientStates
    <2> QED BY <1>a, <1>1, <2>2 DEF SyncWithPeer, SyncInv, PeerHasTop, StreamFresh, ServerAhead, RequestFirst,
              AnnouncedFollows, Positions
  <1>2. CASE ReadBlock
    <2>1. /\ Decode("block") /\ cursor' = stream[1].n /\ client' = "done" /\ chain' = Append(chain, stream[1].n)
          /\ UNCHANGED <<peerHas, announced, req, server, height, i, closed, syncs>> /\ Len(chain) < MaxLength
      BY <1>2 DEF ReadBlock, serverVars
    <2>2. /\ stream' \in Seq(Messages) /\ StreamFresh' /\ ServerAhead' /\ RequestFirst'
          /\ stream[1].n \in peerHas
      BY <1>a, <2>1, DecodeFresh
    <2>3. stream[1].n \in Numbers
      BY <1>a, <2>2 DEF TypeOK
    <2>4. /\ chain' \in Seq(Numbers) /\ Len(chain') = Len(chain) + 1 /\ Len(chain) \in Nat
          /\ \A k \in DOMAIN chain : k \in DOMAIN chain' /\ chain'[k] = chain[k]
      BY <1>a, <2>1, <2>3 DEF TypeOK
    <2>5. TypeOK'
      BY <1>0, <1>a, <2>1, <2>2, <2>3, <2>4 DEF TypeOK, ClientStates
    <2>6. PeerHasTop' /\ AnnouncedFollows'
      BY <1>a, <2>1, <2>4 DEF PeerHasTop, AnnouncedFollows
    <2> QED BY <2>2, <2>5, <2>6 DEF SyncInv
  <1>3. CASE ReadResponse \/ ReadCompleteAsBlock \/ ReadNoBlock \/ ReadCompletion
    <2>1. /\ UNCHANGED <<peerHas, chain, announced, req, cursor, server, height, i, closed, syncs>>
          /\ client' \in ClientStates
          /\ stream' = stream \/ \E t \in {"resp", "block", "done", "torn"} : Decode(t)
      BY <1>3 DEF ReadResponse, ReadCompleteAsBlock, ReadNoBlock, ReadCompletion, serverVars, ClientStates
    <2>2. stream' \in Seq(Messages) /\ StreamFresh' /\ ServerAhead' /\ RequestFirst'
      <3>1. CASE stream' = stream
        BY <1>a, <2>1, <3>1 DEF TypeOK, StreamFresh, ServerAhead, RequestFirst, Positions, IsBlock
      <3>2. CASE \E t \in {"resp", "block", "done", "torn"} : Decode(t)
        BY <1>a, <2>1, <3>2, DecodeFresh
      <3> QED BY <2>1, <3>1, <3>2
    <2>3. TypeOK'
      BY <1>a, <2>1, <2>2 DEF TypeOK
    <2> QED BY <1>a, <2>1, <2>2, <2>3 DEF SyncInv, PeerHasTop, AnnouncedFollows
  <1>4. CASE ResetStream
    <2>1. TypeOK'
      BY <1>a, <1>4 DEF ResetStream, TypeOK, clientVars
    <2> QED BY <1>a, <1>4, <2>1 DEF ResetStream, clientVars, SyncInv, PeerHasTop, StreamFresh, ServerAhead,
              RequestFirst, AnnouncedFollows, Positions
  <1> QED BY <1>1, <1>2, <1>3, <1>4 DEF Fetch

\* Announced blocks preserve it.
LEMMA AnnouncedKeepsSyncInv ==
    ASSUME SyncInv, ValidateAnnounced \/ AppendAnnounced
    PROVE  SyncInv'
  <1>0. MaxHeight \in Nat /\ MaxSyncs \in Nat /\ MaxLength \in Nat
    BY SyncAssumption
  <1>a. TypeOK /\ PeerHasTop /\ StreamFresh /\ ServerAhead /\ RequestFirst /\ AnnouncedFollows
    BY DEF SyncInv
  <1>1. /\ UNCHANGED <<peerHas, client, req, cursor, server, height, i, stream, closed, syncs>>
    BY DEF ValidateAnnounced, AppendAnnounced, clientVars, serverVars
  <1>2. PeerHasTop' /\ StreamFresh' /\ ServerAhead' /\ RequestFirst'
    BY <1>a, <1>1 DEF PeerHasTop, StreamFresh, ServerAhead, RequestFirst, Positions, IsBlock
  <1>3. CASE ValidateAnnounced
    <2>1. /\ announced' = chain[Len(chain)] + 1 /\ announced' \in peerHas /\ chain' = chain
          /\ Len(chain) \in DOMAIN chain /\ chain[Len(chain)] \in Int
      BY <1>a, <1>0, <1>3 DEF ValidateAnnounced, HeightOf, TypeOK, Numbers
    <2>2. TypeOK'
      BY <1>a, <1>1, <2>1 DEF TypeOK
    <2>3. AnnouncedFollows'
      BY <1>1, <2>1 DEF AnnouncedFollows
    <2> QED BY <1>2, <2>2, <2>3 DEF SyncInv
  <1>4. CASE AppendAnnounced
    <2>1. announced \in Numbers /\ chain' = Append(chain, announced) /\ announced' = -1 /\ Len(chain) < MaxLength
      BY <1>a, <1>4 DEF AppendAnnounced, TypeOK
    <2>2. chain' \in Seq(Numbers) /\ Len(chain') = Len(chain) + 1 /\ Len(chain) \in Nat
      BY <1>a, <2>1 DEF TypeOK
    <2>3. TypeOK'
      BY <1>0, <1>a, <1>1, <2>1, <2>2 DEF TypeOK
    <2> QED BY <1>2, <2>1, <2>3 DEF SyncInv, AnnouncedFollows
  <1> QED BY <1>3, <1>4

\* The invariant holds in every reachable state.
LEMMA SyncInvHolds == Spec => []SyncInv
  <1>1. Init => SyncInv
    BY InitSyncInv
  <1>2. SyncInv /\ [Next]_vars => SyncInv'
    <2> SUFFICES ASSUME SyncInv, [Next]_vars PROVE SyncInv'
      OBVIOUS
    <2>1. CASE UNCHANGED vars
      BY <2>1 DEF vars, clientVars, serverVars, SyncInv, TypeOK, PeerHasTop, StreamFresh, ServerAhead,
         RequestFirst, AnnouncedFollows, Positions, IsBlock
    <2> QED BY <2>1, PeerKeepsSyncInv, NodeKeepsSyncInv, AnnouncedKeepsSyncInv DEF Next
  <1> QED BY <1>1, <1>2, PTL DEF Spec

\* Chains and streams keep their types: the server's loop stays within the
\* heights the peer has mined, and a chain holds block numbers only.
THEOREM SyncTypeOK == Spec => []TypeOK
  BY SyncInvHolds, PTL DEF SyncInv

-----------------------------------------------------------------------------
\* Every step of the two sides is a step of Replica or leaves it unchanged.
LEMMA StepRefines ==
    ASSUME SyncInv, [Next]_vars
    PROVE  [Abstract!Next]_(Abstract!vars)
  <1>a. TypeOK /\ PeerHasTop /\ StreamFresh /\ ServerAhead /\ RequestFirst /\ AnnouncedFollows
    BY DEF SyncInv
  <1>1. CASE MineBlock
    <2> DEFINE n == Max(peerHas) + 1
    <2>1. n \in Numbers /\ n \notin peerHas
      BY <1>a, <1>1, MaxIsTop, SyncAssumption DEF MineBlock, Numbers
    <2>2. Abstract!Grow(n)
      BY <1>1, <2>1 DEF MineBlock, Abstract!Grow, clientVars
    <2> QED BY <2>1, <2>2 DEF Abstract!Next
  <1>2. CASE SyncWithPeer
    <2> DEFINE from == IF HeightOf(chain) = 0 THEN -1 ELSE HeightOf(chain)
    <2>1. from \in Numbers \cup {-1}
      BY <1>a, HeightType
    <2>2. Abstract!Restart(from)
      BY <1>2 DEF SyncWithPeer, Abstract!Restart
    <2> QED BY <2>1, <2>2 DEF Abstract!Next
  <1>3. CASE ReadBlock
    <2> DEFINE n == stream[1].n
    <2>1. n \in peerHas /\ n > cursor
      BY <1>a, <1>3, DecodeFresh DEF ReadBlock, serverVars
    <2>2. n \in Numbers
      BY <1>a, <2>1 DEF TypeOK
    <2>3. Abstract!Fetch(n)
      BY <1>3, <2>1 DEF ReadBlock, Abstract!Fetch
    <2> QED BY <2>2, <2>3 DEF Abstract!Next
  <1>4. CASE AppendAnnounced
    <2>1. announced \in Numbers
      BY <1>a, <1>4 DEF AppendAnnounced, TypeOK
    <2>2. Abstract!Announced(announced)
      BY <1>a, <1>4 DEF AppendAnnounced, Abstract!Announced, AnnouncedFollows, clientVars
    <2> QED BY <2>1, <2>2 DEF Abstract!Next
  <1>5. CASE \/ Serve \/ ReadResponse \/ ReadCompleteAsBlock \/ ReadNoBlock \/ ReadCompletion
             \/ ResetStream \/ ValidateAnnounced \/ UNCHANGED vars
    <2>1. UNCHANGED <<peerHas, chain, cursor>>
      BY <1>5 DEF Serve, ReadRequest, SendBlock, SendComplete, ReadResponse, ReadCompleteAsBlock, ReadNoBlock,
         ReadCompletion, ResetStream, ValidateAnnounced, vars, clientVars, serverVars
    <2> QED BY <2>1 DEF Abstract!vars
  <1> QED BY <1>1, <1>2, <1>3, <1>4, <1>5 DEF Next, Fetch

\* The synchronisation implements Replica for a peer of any height, any number
\* of synchronisations and every way a stream loses or tears its messages: the
\* node appends the peer's blocks only, those of one synchronisation in order.
THEOREM SyncImplementsReplica == Spec => SyncIsReplica
  <1>1. Init => Abstract!Init
    <2> SUFFICES ASSUME Init PROVE Abstract!Init
      OBVIOUS
    <2>1. peerHas \subseteq Numbers
      BY InitSyncInv DEF SyncInv, TypeOK
    <2> QED BY <2>1 DEF Init, Abstract!Init
  <1>2. SyncInv /\ [Next]_vars => [Abstract!Next]_(Abstract!vars)
    BY StepRefines
  <1> QED BY <1>1, <1>2, SyncInvHolds, PTL DEF Spec, SyncIsReplica, Abstract!Spec
-----------------------------------------------------------------------------
(***************************************************************************)
(* The start before it (module NodeStart): whom a node of any role takes   *)
(* its chain from, for any set of boot nodes and other nodes and whichever *)
(* of them come and go.                                                    *)
(***************************************************************************)

\* Every boot node is noted as such, still to be tried, or was missed, as long as
\* the start function decides whom to synchronise with.
BootsAccounted ==
    /\ pc = "bootstrap" => Boots \subseteq known \cup missed \cup todo
    /\ pc \in {"discover", "decide"} => Boots \subseteq known \cup missed

\* The rounds of discovery are counted from 0.
RoundsCounted == pc = "discover" => tries < Rounds

StartInv == StartTypeOK /\ SourceNotBoot /\ BootsAccounted /\ RoundsCounted

-----------------------------------------------------------------------------
\* Nothing is known at the start.
LEMMA InitStart == StartInit => StartInv
  <1> SUFFICES ASSUME StartInit PROVE StartInv
    OBVIOUS
  <1>1. StartTypeOK
    <2>1. 0 \in 0..(Retries + Rounds)
      BY NodeStartAssumption
    <2>2. {looking, heard} \subseteq BOOLEAN
      BY DEF StartInit
    <2>3. entry \in [Others -> {"none", "connected", "lost"}]
      BY DEF StartInit
    <2> QED BY <2>1, <2>2, <2>3 DEF StartInit, StartTypeOK
  <1>2. SourceNotBoot
    BY NodeStartAssumption DEF StartInit, SourceNotBoot
  <1> QED BY <1>1, <1>2 DEF StartInit, StartInv, BootsAccounted, RoundsCounted

\* A node whose process ended has no source.
LEMMA ExitKeeps ==
    ASSUME StartInv, Exit
    PROVE  StartInv'
  <1>1. StartTypeOK'
    <2>1. 0 \in 0..(Retries + Rounds)
      BY NodeStartAssumption
    <2>2. {looking', heard'} \subseteq BOOLEAN
      BY DEF Exit
    <2>3. entry' \in [Others -> {"none", "connected", "lost"}]
      BY DEF Exit
    <2> QED BY <2>1, <2>2, <2>3 DEF Exit, StartTypeOK, StartInv
  <1>2. SourceNotBoot'
    BY NodeStartAssumption DEF Exit, SourceNotBoot
  <1> QED BY <1>1, <1>2 DEF Exit, StartInv, BootsAccounted, RoundsCounted

\* One that runs has none either.
LEMMA RunKeeps ==
    ASSUME StartInv, Run, UNCHANGED <<up, role, todo, peers, known, looking, entry, heard, telling>>
    PROVE  StartInv'
  <1>1. StartTypeOK'
    <2>1. 0 \in 0..(Retries + Rounds)
      BY NodeStartAssumption
    <2> QED BY <2>1 DEF Run, StartTypeOK, StartInv
  <1>2. SourceNotBoot'
    BY NodeStartAssumption DEF Run, SourceNotBoot
  <1> QED BY <1>1, <1>2 DEF Run, StartInv, BootsAccounted, RoundsCounted

\* Hosts, links, the goroutines that keep connections, and blocks that arrive.
LEMMA AroundKeeps ==
    ASSUME StartInv,
           \/ \E h \in Hosts : HostUp(h) \/ HostDown(h) \/ LinkUp(h) \/ LinkDown(h)
           \/ ReceiveBlock \/ discoverPeers \/ Maintain
           \/ \E p \in Others : Heartbeat(p)
    PROVE  StartInv'
  <1>a. StartTypeOK /\ SourceNotBoot /\ BootsAccounted /\ RoundsCounted
    BY DEF StartInv
  <1>1. /\ UNCHANGED <<role, pc, tries, todo, missed, telling>> /\ known \subseteq known'
        /\ source' = source \/ source' = NoPeer
    BY DEF HostUp, HostDown, WaitEnds, LinkUp, LinkDown, ReceiveBlock, discoverPeers, Maintain, maintainConnections,
       Heartbeat, SendHeartbeat, HeartbeatFails
  <1>2. /\ up' \subseteq Hosts /\ peers' \subseteq up' /\ known' \subseteq Boots
    BY <1>a DEF StartTypeOK, Hosts, HostUp, HostDown, LinkUp, LinkDown, ReceiveBlock, discoverPeers,
       findPeersWithRendezvous, Maintain, maintainConnections, Heartbeat, SendHeartbeat, HeartbeatFails
  <1>3. entry' \in [Others -> {"none", "connected", "lost"}]
    BY <1>a DEF StartTypeOK, HostUp, HostDown, LinkUp, LinkDown, ReceiveBlock, discoverPeers, AddPeer, RemovePeer,
       Maintain, maintainConnections, Heartbeat, SendHeartbeat, HeartbeatFails
  <1>4. {looking', heard'} \subseteq BOOLEAN
    <2>1. (looking' = looking \/ looking' = FALSE) /\ (heard' = heard \/ heard' = TRUE)
      BY Zenon DEF HostUp, HostDown, LinkUp, LinkDown, ReceiveBlock, discoverPeers, Maintain, maintainConnections,
         Heartbeat, SendHeartbeat, HeartbeatFails
    <2> QED BY <1>a, <2>1, Zenon DEF StartTypeOK
  <1>5. StartTypeOK'
    BY <1>a, <1>1, <1>2, <1>3, <1>4 DEF StartTypeOK
  <1>6. SourceNotBoot'
    BY <1>a, <1>1, NodeStartAssumption DEF SourceNotBoot
  <1> QED BY <1>a, <1>1, <1>5, <1>6 DEF StartInv, BootsAccounted, RoundsCounted

\* The steps of main: a role's set-up, or its exit on a failed key.
LEMMA MainKeeps ==
    ASSUME StartInv, main
    PROVE  StartInv'
  <1>1. CASE Exit
    BY <1>1, ExitKeeps
  <1>2. CASE StartNode /\ peers' = {} /\ known' = {} /\ entry' = [p \in Others |-> "none"]
    <2>1. StartTypeOK'
      <3>1. {looking', heard'} \subseteq BOOLEAN
        <4>1. looking' = TRUE /\ heard' = heard
          BY <1>2 DEF StartNode
        <4> QED BY <4>1, Zenon DEF StartInv, StartTypeOK
      <3>2. entry' \in [Others -> {"none", "connected", "lost"}]
        BY <1>2
      <3> QED BY <1>2, <3>1, <3>2 DEF StartNode, StartInv, StartTypeOK
    <2> QED BY <1>2, <2>1 DEF StartNode, StartInv, SourceNotBoot, BootsAccounted, RoundsCounted
  <1> QED BY <1>1, <1>2 DEF main, runMinerNode, runValidatorNode, runTXNS, runRPCNode, NewNode, NewNodeWithPrivKey,
            loadOrCreateTXNSKeyFails, loadOrCreateRPCNodeKeyFails

\* Every boot node is noted or missed before a peer is looked for.
LEMMA BootstrapKeeps ==
    ASSUME StartInv,
           \/ \E b \in Boots : ConnectToBootstrapNode(b) \/ BootstrapNodeFails(b)
           \/ BootstrapRetry \/ BootstrapFails \/ Bootstrapped
    PROVE  StartInv'
  <1>a. StartTypeOK /\ SourceNotBoot /\ BootsAccounted /\ RoundsCounted /\ {Retries, Rounds} \subseteq Nat \ {0}
    BY NodeStartAssumption DEF StartInv
  <1>1. CASE \E b \in Boots : ConnectToBootstrapNode(b) \/ BootstrapNodeFails(b)
    <2>1. StartTypeOK'
      BY <1>a, <1>1 DEF StartTypeOK, ConnectToBootstrapNode, BootstrapNodeFails
    <2> QED BY <1>a, <1>1, <2>1 DEF ConnectToBootstrapNode, BootstrapNodeFails, StartInv, SourceNotBoot,
              BootsAccounted, RoundsCounted
  <1>2. CASE BootstrapRetry
    <2>1. tries' \in 0..(Retries + Rounds)
      BY <1>a, <1>2 DEF StartTypeOK, BootstrapRetry
    <2>2. StartTypeOK'
      BY <1>a, <1>2, <2>1 DEF StartTypeOK, BootstrapRetry
    <2> QED BY <1>a, <1>2, <2>2 DEF BootstrapRetry, StartInv, SourceNotBoot, BootsAccounted, RoundsCounted
  <1>3. CASE BootstrapFails
    BY <1>3, ExitKeeps DEF BootstrapFails
  <1>4. CASE Bootstrapped
    <2>1. StartTypeOK'
      BY <1>a, <1>4 DEF StartTypeOK, Bootstrapped
    <2>2. RoundsCounted'
      BY <1>a, <1>4 DEF RoundsCounted, Bootstrapped
    <2> QED BY <1>a, <1>4, <2>1, <2>2 DEF Bootstrapped, StartInv, SourceNotBoot, BootsAccounted
  <1> QED BY <1>1, <1>2, <1>3, <1>4

\* What a call of DiscoverPeers leaves.
LEMMA DiscoverLeaves ==
    ASSUME StartTypeOK, BootsAccounted, NEW S, DiscoverPeers(S), UNCHANGED up
    PROVE  /\ peers' \subseteq up' /\ known' \subseteq Boots /\ missed' \subseteq Boots
           /\ known \subseteq known' /\ missed \subseteq missed'
           /\ Boots \subseteq known' \cup missed'
  BY DEF StartTypeOK, BootsAccounted, DiscoverPeers

\* A round of discovery asks the boot nodes once more.
LEMMA RoundKeeps ==
    ASSUME StartInv, NEW S \in SUBSET Boots,
           MinerRound(S) \/ ValidatorRound(S) \/ TxnsRound(S) \/ RpcRound(S)
    PROVE  StartInv'
  <1>a. StartTypeOK /\ SourceNotBoot /\ BootsAccounted /\ RoundsCounted /\ Retries \in Nat \ {0} /\ Rounds \in Nat \ {0}
    BY NodeStartAssumption DEF StartInv
  <1>1. DiscoverPeers(S) /\ UNCHANGED <<up, role, todo, looking, entry, heard, telling>> /\ pc = "discover"
    BY DEF MinerRound, ValidatorRound, TxnsRound, RpcRound, Round, DiscoverPeers
  <1>2. /\ peers' \subseteq up' /\ known' \subseteq Boots /\ missed' \subseteq Boots
        /\ known \subseteq known' /\ missed \subseteq missed'
        /\ Boots \subseteq known' \cup missed'
    BY <1>a, <1>1, DiscoverLeaves
  <1>3. tries \in Nat /\ tries < Rounds
    BY <1>a, <1>1 DEF StartTypeOK, RoundsCounted
  <1>4. CASE MinerRound(S) /\ source' \in Candidates /\ pc' = "sync" /\ tries' = 0
    <2>1. source' \in peers' /\ source' \notin known' /\ source' # FileBoot
      BY <1>4 DEF Candidates, NonBoot, IsPeerBootstrapNode
    <2>2. StartTypeOK'
      <3>1. 0 \in 0..(Retries + Rounds)
        BY <1>a
      <3>2. source' \in Hosts
        BY <1>a, <1>1, <1>2, <2>1 DEF StartTypeOK
      <3> QED BY <1>a, <1>1, <1>2, <1>4, <3>1, <3>2 DEF StartTypeOK
    <2>3. SourceNotBoot'
      BY <1>2, <2>1 DEF SourceNotBoot
    <2> QED BY <1>4, <2>2, <2>3 DEF StartInv, BootsAccounted, RoundsCounted
  <1>5. CASE \/ UNCHANGED <<pc, source>> /\ tries' = tries + 1 /\ tries + 1 < Rounds
             \/ pc' = "decide" /\ tries' = 0 /\ UNCHANGED source
    <2>1. tries' \in 0..(Retries + Rounds)
      BY <1>a, <1>3, <1>5
    <2>2. StartTypeOK'
      BY <1>a, <1>1, <1>2, <1>5, <2>1 DEF StartTypeOK
    <2>3. SourceNotBoot'
      BY <1>a, <1>1, <1>2, <1>5 DEF SourceNotBoot
    <2>4. BootsAccounted' /\ RoundsCounted'
      BY <1>1, <1>2, <1>5 DEF BootsAccounted, RoundsCounted
    <2> QED BY <2>2, <2>3, <2>4 DEF StartInv
  <1>6. CASE \E enough \in BOOLEAN : Round(S, enough)
    <2>1. \/ pc' = "decide" /\ tries' = 0 /\ UNCHANGED source
          \/ tries' = tries + 1 /\ UNCHANGED <<pc, source>> /\ tries + 1 # Rounds
      BY <1>6 DEF Round
    <2>2. tries + 1 # Rounds => tries + 1 < Rounds
      BY <1>a, <1>3
    <2> QED BY <1>5, <2>1, <2>2
  <1>7. CASE MinerRound(S)
    BY <1>4, <1>5, <1>7 DEF MinerRound
  <1>8. CASE ValidatorRound(S) \/ TxnsRound(S) \/ RpcRound(S)
    <2>1. \/ Round(S, NonBoot(peers', known') # {})
          \/ Round(S, Cardinality(peers') > 1)
      BY <1>8 DEF ValidatorRound, TxnsRound, RpcRound
    <2>2. (NonBoot(peers', known') # {}) \in BOOLEAN /\ (Cardinality(peers') > 1) \in BOOLEAN
      OBVIOUS
    <2> QED BY <1>6, <2>1, <2>2
  <1> QED BY <1>7, <1>8

\* The source is picked, the synchronisation succeeds or fails.
LEMMA DecideKeeps ==
    ASSUME StartInv,
           \/ NoValidatorFound \/ FoundChain \/ JoinChain \/ StakeFails \/ Cancelled \/ Announced
           \/ PickTxnsPeer \/ PickRpcPeer
           \/ MinerSynced \/ TxnsSynced \/ RpcSynced \/ SyncFails \/ Crash
    PROVE  StartInv'
  <1>a. StartTypeOK /\ SourceNotBoot /\ BootsAccounted /\ RoundsCounted
    BY DEF StartInv
  <1>1. CASE NoValidatorFound \/ StakeFails \/ Cancelled \/ SyncFails \/ Crash
    BY <1>1, ExitKeeps DEF NoValidatorFound, StakeFails, Cancelled, SyncFails, Crash
  <1>2. CASE FoundChain \/ Announced \/ MinerSynced \/ TxnsSynced \/ RpcSynced
    BY <1>2, RunKeeps DEF FoundChain, Announced, MinerSynced, TxnsSynced, RpcSynced, Synced
  <1>3. CASE JoinChain
    <2>1. source' \in Hosts \cup {NoPeer}
      BY <1>a, <1>3 DEF JoinChain, StartTypeOK
    <2>2. {looking', heard'} \subseteq BOOLEAN
      <3>1. looking' = looking /\ heard' = FALSE
        BY <1>3 DEF JoinChain
      <3> QED BY <1>a, <3>1, Zenon DEF StartTypeOK
    <2>3. StartTypeOK'
      BY <1>a, <1>3, <2>1, <2>2 DEF JoinChain, StartTypeOK
    <2> QED BY <1>3, <2>3 DEF JoinChain, StartInv, SourceNotBoot, BootsAccounted, RoundsCounted
  <1>4. CASE PickTxnsPeer \/ PickRpcPeer
    <2>1. PickPeer /\ role \in {"txns", "rpc"}
      BY <1>4 DEF PickTxnsPeer, PickRpcPeer
    <2>2. CASE NonBoot(peers, known) = {}
      BY <2>1, <2>2, RunKeeps DEF PickPeer
    <2>3. CASE NonBoot(peers, known) # {}
      <3>1. /\ pc = "decide" /\ pc' = "sync" /\ source' \in NonBoot(peers, known)
            /\ UNCHANGED <<tries, missed, up, role, todo, peers, known, looking, entry, heard, telling>>
        BY <2>1, <2>3 DEF PickPeer
      <3>2. source' \in peers /\ source' \notin known /\ source' # FileBoot
        BY <3>1 DEF NonBoot, IsPeerBootstrapNode
      <3>3. StartTypeOK'
        BY <1>a, <3>1, <3>2 DEF StartTypeOK
      <3>4. SourceNotBoot'
        BY <1>a, <2>1, <3>1, <3>2 DEF SourceNotBoot, BootsAccounted
      <3> QED BY <3>1, <3>3, <3>4 DEF StartInv, BootsAccounted, RoundsCounted
    <2> QED BY <2>2, <2>3
  <1> QED BY <1>1, <1>2, <1>3, <1>4

\* The steps of a validator to its stake leave no source but a peer that it tells.
LEMMA StakeKeeps ==
    ASSUME StartInv,
           \/ CheckBalance \/ Confirm \/ SignStake \/ Approve \/ Confirmed
           \/ \E p \in Others : BroadcastNewValidator(p) \/ BroadcastFails(p)
    PROVE  StartInv'
  <1>a. StartTypeOK /\ SourceNotBoot /\ BootsAccounted /\ RoundsCounted
    BY DEF StartInv
  <1>1. CASE CheckBalance \/ Confirm \/ SignStake \/ Approve \/ Confirmed
    <2>1. /\ pc' \in {"confirm", "sign", "approve", "pending", "announce"} /\ source' = NoPeer
          /\ UNCHANGED <<up, role, tries, todo, peers, known, missed, looking, entry, heard>>
          /\ telling' = telling \/ telling' = peers \cap Others
      BY <1>1 DEF CheckBalance, Confirm, SignStake, Approve, Confirmed, StakeStep
    <2>2. StartTypeOK'
      BY <1>a, <2>1 DEF StartTypeOK
    <2>3. SourceNotBoot'
      BY <2>1, NodeStartAssumption DEF SourceNotBoot
    <2> QED BY <2>1, <2>2, <2>3 DEF StartInv, BootsAccounted, RoundsCounted
  <1>2. CASE \E p \in Others : BroadcastNewValidator(p) \/ BroadcastFails(p)
    <2> PICK p \in Others : BroadcastNewValidator(p) \/ BroadcastFails(p)
      BY <1>2
    <2>1. /\ pc = "announce" /\ source' \in {p, NoPeer} /\ telling' = telling \ {p}
          /\ UNCHANGED <<up, role, pc, tries, todo, known, missed, looking, entry, heard>>
          /\ peers' = peers \/ (p \in up /\ peers' = peers \cup {p})
      BY DEF BroadcastNewValidator, BroadcastFails
    <2>2. StartTypeOK'
      BY <1>a, <2>1 DEF StartTypeOK, Hosts
    <2>3. SourceNotBoot'
      BY <2>1, NodeStartAssumption DEF SourceNotBoot
    <2> QED BY <2>1, <2>2, <2>3 DEF StartInv, BootsAccounted, RoundsCounted
  <1> QED BY <1>1, <1>2

-----------------------------------------------------------------------------
\* Whichever hosts stop, start or disconnect, a miner, the TXNS node and an RPC node
\* synchronise with a boot node only if their own connection to it had failed and
\* bootnode.addr names another.
THEOREM StartAlwaysSound == StartSpec => []StartSound
  <1>1. StartInv /\ [StartNext]_startVars => StartInv'
    <2> SUFFICES ASSUME StartInv, [StartNext]_startVars PROVE StartInv'
      OBVIOUS
    <2>1. CASE UNCHANGED startVars
      BY <2>1 DEF startVars, StartInv, StartTypeOK, SourceNotBoot, BootsAccounted, RoundsCounted
    <2>2. CASE Starting
      BY <2>2, BootstrapKeeps, RoundKeeps, DecideKeeps, StakeKeeps DEF Starting
    <2>3. CASE Answer
      BY <2>3, DecideKeeps, StakeKeeps DEF Answer
    <2> QED BY <2>1, <2>2, <2>3, AroundKeeps, MainKeeps, DecideKeeps DEF StartNext
  <1>2. StartInv => StartSound
    BY DEF StartInv, StartSound
  <1> QED BY <1>1, <1>2, InitStart, PTL DEF StartSpec
============================================================================

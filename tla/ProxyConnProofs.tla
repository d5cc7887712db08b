--------------------------- MODULE ProxyConnProofs ---------------------------
(* Proofs about ProxyConn, for every set of frames, every socket and buffer size and every
   number of requests and bytes. *)
EXTENDS ProxyConn, SequenceLemmas, TLAPS

-----------------------------------------------------------------------------
(* Types *)

\* The chunks in the channel are slices of what has been read from the backend
ChunksInBounds == \A i \in 1 .. Len(chan) : chan[i].from < chan[i].to /\ chan[i].to <= read

TypeInv == TypeOK /\ ChunksInBounds

(* TypeOK, with the bounds of its intervals spelt out. *)
LEMMA TypeFacts ==
  ASSUME TypeOK
  PROVE  /\ phase \in {"connecting", "running", "done"}
         /\ client \in {"open", "shut", "reset"} /\ backend \in {"open", "shut", "reset"}
         /\ c2p \in Seq(ClientFrames) /\ Len(c2p) \in Nat
         /\ taken \in Nat /\ taken <= Len(c2p)
         /\ up \in Seq(ForwardedFrames) /\ Len(up) \in Nat /\ sending \in BOOLEAN
         /\ p2b \in Seq(ForwardedFrames) /\ Len(p2b) \in Nat
         /\ served \in Nat /\ served <= Len(p2b)
         /\ DOMAIN requests_by_xid \subseteq Xids
         /\ b2p \in Seq(Units) /\ Len(b2p) \in Nat
         /\ read \in Nat /\ read <= Len(b2p)
         /\ chan \in Seq([from : Nat, to : Nat]) /\ Len(chan) \in Nat
         /\ down \in Seq(Units) /\ Len(down) \in Nat /\ writing \in BOOLEAN
         /\ p2c \in Seq(Units) /\ Len(p2c) \in Nat
         /\ cRead \in Nat /\ cRead <= Len(p2c)
<1>1. /\ Len(c2p) \in Nat /\ Len(up) \in Nat /\ Len(p2b) \in Nat /\ Len(b2p) \in Nat
      /\ Len(chan) \in Nat /\ Len(down) \in Nat /\ Len(p2c) \in Nat
  BY LenProperties, Zenon DEF TypeOK
<1> QED
  BY <1>1 DEF TypeOK

(* The frame at the head of c2p is one of the client's; accepted, it has a forwarded form. *)
LEMMA NextFrameType ==
  ASSUME TypeOK, taken < Len(c2p)
  PROVE  /\ NextFrame \in ClientFrames
         /\ Accepted(NextFrame) => Forward(NextFrame) \in ForwardedFrames
<1>1. taken + 1 \in 1 .. Len(c2p) /\ c2p \in Seq(ClientFrames)
  BY TypeFacts
<1>2. NextFrame \in ClientFrames
  BY <1>1, ElementOfSeq, Zenon DEF NextFrame
<1> QED
  BY <1>2, Zenon DEF AcceptedFrames, ForwardedFrames

(* The initial state. *)
LEMMA InitType == Init => TypeInv
<1> SUFFICES ASSUME Init PROVE TypeInv
  OBVIOUS
<1>1. /\ c2p \in Seq(ClientFrames) /\ up \in Seq(ForwardedFrames)
      /\ p2b \in Seq(ForwardedFrames) /\ b2p \in Seq(Units)
      /\ chan \in Seq([from : Nat, to : Nat])
      /\ down \in Seq(Units) /\ p2c \in Seq(Units)
  BY EmptyFacts, Zenon DEF Init
<1>2. Len(c2p) = 0 /\ Len(p2b) = 0 /\ Len(b2p) = 0 /\ Len(chan) = 0 /\ Len(p2c) = 0
  BY EmptyFacts, Zenon DEF Init
<1>3. DOMAIN requests_by_xid \subseteq Xids
  BY EmptyFacts, Zenon DEF Init
<1>6. /\ taken = 0 /\ served = 0 /\ read = 0 /\ cRead = 0
      /\ sending = FALSE /\ writing = FALSE
      /\ phase = "connecting" /\ client = "open" /\ backend = "open"
  BY DEF Init
<1>4. TypeOK
  <2>1. /\ taken \in 0 .. Len(c2p) /\ served \in 0 .. Len(p2b) /\ read \in 0 .. Len(b2p)
        /\ cRead \in 0 .. Len(p2c)
    <3>1. 0 \in 0 .. 0
      OBVIOUS
    <3> QED
      BY <1>2, <1>6, <3>1, Zenon
  <2>2. sending \in BOOLEAN /\ writing \in BOOLEAN
    BY <1>6, Zenon
  <2> QED
    BY <1>1, <1>3, <1>6, <2>1, <2>2, Zenon DEF TypeOK
<1>5. ChunksInBounds
  BY <1>2 DEF ChunksInBounds
<1> QED
  BY <1>4, <1>5 DEF TypeInv

(* Dropping the pipes. *)
LEMMA TeardownType ==
  ASSUME TypeInv, Teardown, taken' \in 0 .. Len(c2p)
  PROVE  TypeInv'
<1>1. /\ phase' = "done" /\ up' = <<>> /\ sending' = FALSE /\ requests_by_xid' = <<>>
      /\ chan' = <<>> /\ down' = <<>> /\ writing' = FALSE
      /\ UNCHANGED <<p2b, read, p2c, client, backend, c2p, served, b2p, cRead>>
  BY DEF Teardown, peerVars
<1>2. /\ up' \in Seq(ForwardedFrames) /\ chan' \in Seq([from : Nat, to : Nat])
      /\ down' \in Seq(Units) /\ DOMAIN requests_by_xid' \subseteq Xids
      /\ Len(chan') = 0
  BY <1>1, EmptyFacts, Zenon
<1>3. TypeOK'
  BY <1>1, <1>2 DEF TypeInv, TypeOK
<1>4. ChunksInBounds'
  BY <1>2 DEF ChunksInBounds
<1> QED
  BY <1>3, <1>4 DEF TypeInv

(* Every step keeps the types and the bounds of the chunks. *)
LEMMA StepType == TypeInv /\ [Next]_vars => TypeInv'
<1> SUFFICES ASSUME TypeInv, [Next]_vars PROVE TypeInv'
  OBVIOUS
<1>0. TypeOK
  BY DEF TypeInv
<1> USE TypeFacts, <1>0
<1>1. CASE UNCHANGED vars
  BY <1>1 DEF vars, upVars, downVars, peerVars, TypeInv, TypeOK, ChunksInBounds
<1>2. ASSUME NEW f \in ClientFrames, ClientSend(f)
      PROVE  TypeInv'
  <2>1. /\ c2p' \in Seq(ClientFrames) /\ Len(c2p') = Len(c2p) + 1
    BY <1>2, Appended DEF ClientSend
  <2>2. taken' \in 0 .. Len(c2p')
    BY <1>2, <2>1 DEF ClientSend, upVars
  <2> QED
    BY <1>2, <2>1, <2>2 DEF ClientSend, upVars, downVars, TypeInv, TypeOK, ChunksInBounds
<1>3. CASE ClientShut
  BY <1>3 DEF ClientShut, upVars, downVars, TypeInv, TypeOK, ChunksInBounds
<1>4. CASE ClientReset
  BY <1>4 DEF ClientReset, upVars, downVars, TypeInv, TypeOK, ChunksInBounds
<1>5. CASE ClientRead
  BY <1>5 DEF ClientRead, upVars, downVars, TypeInv, TypeOK, ChunksInBounds
<1>6. ASSUME NEW u \in Units, BackendServe(u)
      PROVE  TypeInv'
  <2>1. Append(b2p, u) \in Seq(Units) /\ Len(Append(b2p, u)) = Len(b2p) + 1
    BY Appended
  <2>2. b2p' \in Seq(Units) /\ Len(b2p') \in Nat /\ Len(b2p') >= Len(b2p)
    BY <1>6, <2>1 DEF BackendServe
  <2> QED
    BY <1>6, <2>2 DEF BackendServe, upVars, downVars, TypeInv, TypeOK, ChunksInBounds
<1>7. ASSUME NEW u \in Units, BackendEvent(u)
      PROVE  TypeInv'
  <2>1. b2p' \in Seq(Units) /\ Len(b2p') = Len(b2p) + 1
    BY <1>7, Appended DEF BackendEvent
  <2> QED
    BY <1>7, <2>1 DEF BackendEvent, upVars, downVars, TypeInv, TypeOK, ChunksInBounds
<1>8. CASE BackendShut
  BY <1>8 DEF BackendShut, upVars, downVars, TypeInv, TypeOK, ChunksInBounds
<1>9. CASE BackendReset
  BY <1>9 DEF BackendReset, upVars, downVars, TypeInv, TypeOK, ChunksInBounds
<1>10. CASE Connect
  BY <1>10 DEF Connect, upVars, downVars, peerVars, TypeInv, TypeOK, ChunksInBounds
<1>11. CASE ConnectFail
  BY <1>11 DEF ConnectFail, upVars, downVars, peerVars, TypeInv, TypeOK, ChunksInBounds
<1>12. CASE UpSend
  <2>1. /\ taken < Len(c2p) /\ Accepted(NextFrame)
        /\ taken' = taken + 1 /\ up' = Append(up, Forward(NextFrame)) /\ sending' = TRUE
        /\ requests_by_xid' = Remember(requests_by_xid, Decoded[NextFrame])
        /\ UNCHANGED <<phase, p2b, read, chan, down, writing, p2c>>
        /\ UNCHANGED <<client, backend, c2p, served, b2p, cRead>>
    BY <1>12 DEF UpSend, UpReads, downVars, peerVars
  <2>2. up' \in Seq(ForwardedFrames)
    BY <2>1, NextFrameType, Appended
  <2>3. DOMAIN requests_by_xid' \subseteq Xids
    <3>1. NextFrame \in ClientFrames /\ DOMAIN requests_by_xid \subseteq Xids
      BY <2>1, NextFrameType
    <3> DEFINE p == Decoded[NextFrame]
    <3>2. p.header # <<>> => p.header[1] \in Xids
      BY <3>1, Zenon DEF Xids
    <3> HIDE DEF p
    <3>3. DOMAIN Remember(requests_by_xid, p) \subseteq Xids
      BY <3>1, <3>2 DEF Remember
    <3> QED
      BY <2>1, <3>3 DEF p
  <2> QED
    BY <2>1, <2>2, <2>3 DEF TypeInv, TypeOK, ChunksInBounds
<1>13. CASE UpSendRefused
  BY <1>13 DEF UpSendRefused, UpReads, downVars, peerVars, TypeInv, TypeOK, ChunksInBounds
<1>14. CASE UpReject
  BY <1>14, TeardownType DEF UpReject, UpReads
<1>15. CASE UpFlush
  <2>1. /\ up # <<>> /\ p2b' = Append(p2b, Head(up)) /\ up' = Tail(up)
        /\ sending' = (Tail(up) # <<>>)
        /\ UNCHANGED <<phase, taken, requests_by_xid, read, chan, down, writing, p2c>>
        /\ UNCHANGED <<client, backend, c2p, served, b2p, cRead>>
    BY <1>15 DEF UpFlush, downVars, peerVars
  <2>2. up' \in Seq(ForwardedFrames) /\ Head(up) \in ForwardedFrames
    BY <2>1, Tailed
  <2>3. p2b' \in Seq(ForwardedFrames) /\ Len(p2b') = Len(p2b) + 1
    BY <2>1, <2>2, Appended
  <2>4. sending' \in BOOLEAN
    BY <2>1
  <2> QED
    BY <2>1, <2>2, <2>3, <2>4 DEF TypeInv, TypeOK, ChunksInBounds
<1>16. CASE UpSendError
  BY <1>16 DEF UpSendError, downVars, peerVars, TypeInv, TypeOK, ChunksInBounds
<1>17. CASE UpEnd
  BY <1>17, TeardownType DEF UpEnd
<1>18. CASE DownRead
  <2>1. PICK to \in read + 1 .. Len(b2p) :
          /\ chan' = Append(chan, [from |-> read, to |-> to])
          /\ read' = to
          /\ UNCHANGED <<phase, taken, up, sending, p2b, requests_by_xid, down, writing, p2c>>
          /\ UNCHANGED <<client, backend, c2p, served, b2p, cRead>>
    BY <1>18 DEF DownRead, upVars, peerVars
  <2>2. [from |-> read, to |-> to] \in [from : Nat, to : Nat] /\ to \in Nat
    OBVIOUS
  <2> DEFINE Chunk == [from : Nat, to : Nat]
             new == [from |-> read, to |-> to]
  <2>3. new.from = read /\ new.to = to
    OBVIOUS
  <2> HIDE DEF Chunk, new
  <2>4. /\ chan' \in Seq(Chunk) /\ Len(chan') = Len(chan) + 1
        /\ \A i \in 1 .. Len(chan) : chan'[i] = chan[i]
        /\ chan'[Len(chan) + 1] = new
    BY <2>1, <2>2, Appended DEF Chunk, new
  <2>5. ChunksInBounds'
    <3> SUFFICES ASSUME NEW i \in 1 .. Len(chan')
                 PROVE  chan'[i].from < chan'[i].to /\ chan'[i].to <= read'
      BY DEF ChunksInBounds
    <3>1. CASE i \in 1 .. Len(chan)
      <4>1. /\ chan[i].from < chan[i].to /\ chan[i].to <= read /\ chan[i] \in Chunk
        BY <3>1, ElementOfSeq DEF TypeInv, ChunksInBounds, Chunk
      <4>2. chan[i].from \in Nat /\ chan[i].to \in Nat
        BY <4>1 DEF Chunk
      <4>3. chan[i].to <= to
        <5> DEFINE t == chan[i].to
        <5>1. t \in Nat /\ t <= read
          BY <4>1, <4>2
        <5>2. read \in Nat /\ to \in Nat /\ read < to
          OBVIOUS
        <5> HIDE DEF t
        <5>3. t <= to
          BY <5>1, <5>2
        <5> QED
          BY <5>3 DEF t
      <4> QED
        BY <2>1, <2>4, <3>1, <4>1, <4>3
    <3>2. CASE i = Len(chan) + 1
      BY <2>1, <2>3, <2>4, <3>2
    <3>3. i \in 1 .. Len(chan) \/ i = Len(chan) + 1
      BY <2>4
    <3> QED
      BY <3>1, <3>2, <3>3, Zenon
  <2> QED
    BY <2>1, <2>4, <2>5 DEF TypeInv, TypeOK, Chunk
<1>19. CASE DownEnd
  BY <1>19, TeardownType DEF DownEnd
<1>20. CASE P2CRecv
  <2>1. /\ chan # <<>> /\ down' = down \o Slice(Head(chan)) /\ chan' = Tail(chan)
        /\ writing' = TRUE
        /\ UNCHANGED <<phase, taken, up, sending, p2b, requests_by_xid, read, p2c>>
        /\ UNCHANGED <<client, backend, c2p, served, b2p, cRead>>
    BY <1>20 DEF P2CRecv, upVars, peerVars
  <2> DEFINE Chunk == [from : Nat, to : Nat]
  <2>2. chan \in Seq(Chunk)
    OBVIOUS
  <2>3. Head(chan).from \in Nat /\ Head(chan).to \in Nat
    <3>1. Head(chan) \in Chunk
      BY <2>1, <2>2, Tailed
    <3> QED
      BY <3>1
  <2> HIDE DEF Chunk
  <2>4. /\ chan' \in Seq(Chunk) /\ Len(chan') = Len(chan) - 1 /\ Len(chan) > 0
        /\ \A i \in 1 .. Len(chan) - 1 : chan'[i] = chan[i + 1]
        /\ Head(chan) = chan[1]
    BY <2>1, <2>2, Tailed
  <2>5. Head(chan).to <= Len(b2p)
    <3> DEFINE to == chan[1].to
    <3>1. to <= read
      BY <2>4 DEF TypeInv, ChunksInBounds
    <3>2. to \in Nat
      BY <2>3, <2>4, Zenon
    <3> HIDE DEF to
    <3>3. to <= Len(b2p)
      BY <3>1, <3>2
    <3> QED
      BY <2>4, <3>3, Zenon DEF to
  <2>6. Slice(Head(chan)) \in Seq(Units)
    BY <2>3, <2>5, Sliced DEF Slice
  <2>7. down' \in Seq(Units)
    BY <2>1, <2>6, ConcatProperties
  <2>8. ChunksInBounds'
    <3> SUFFICES ASSUME NEW i \in 1 .. Len(chan')
                 PROVE  chan'[i].from < chan'[i].to /\ chan'[i].to <= read'
      BY DEF ChunksInBounds
    <3>1. i \in 1 .. Len(chan) - 1 /\ i + 1 \in 1 .. Len(chan)
      BY <2>4
    <3> QED
      BY <2>1, <2>4, <3>1 DEF TypeInv, ChunksInBounds
  <2> QED
    BY <2>1, <2>4, <2>7, <2>8 DEF TypeInv, TypeOK, Chunk
<1>21. CASE P2CRecvRefused
  <2>1. /\ chan # <<>> /\ chan' = Tail(chan)
        /\ UNCHANGED <<phase, taken, up, sending, p2b, requests_by_xid, read, down>>
        /\ UNCHANGED <<writing, p2c, client, backend, c2p, served, b2p, cRead>>
    BY <1>21 DEF P2CRecvRefused, upVars, peerVars
  <2> DEFINE Chunk == [from : Nat, to : Nat]
  <2>2. chan \in Seq(Chunk)
    OBVIOUS
  <2> HIDE DEF Chunk
  <2>3. /\ chan' \in Seq(Chunk) /\ Len(chan') = Len(chan) - 1 /\ Len(chan) > 0
        /\ \A i \in 1 .. Len(chan) - 1 : chan'[i] = chan[i + 1]
    BY <2>1, <2>2, Tailed
  <2>4. ChunksInBounds'
    <3> SUFFICES ASSUME NEW i \in 1 .. Len(chan')
                 PROVE  chan'[i].from < chan'[i].to /\ chan'[i].to <= read'
      BY DEF ChunksInBounds
    <3>1. i \in 1 .. Len(chan) - 1 /\ i + 1 \in 1 .. Len(chan)
      BY <2>3
    <3> QED
      BY <2>1, <2>3, <3>1 DEF TypeInv, ChunksInBounds
  <2> QED
    BY <2>1, <2>3, <2>4 DEF TypeInv, TypeOK, Chunk
<1>22. CASE P2CFlush
  <2>1. PICK n \in 1 .. Len(down) :
          /\ p2c' = p2c \o SubSeq(down, 1, n)
          /\ down' = SubSeq(down, n + 1, Len(down))
          /\ writing' = (n < Len(down))
          /\ UNCHANGED <<phase, taken, up, sending, p2b, requests_by_xid, read, chan>>
          /\ UNCHANGED <<client, backend, c2p, served, b2p, cRead>>
    BY <1>22 DEF P2CFlush, upVars, peerVars
  <2>2. SubSeq(down, 1, n) \in Seq(Units) /\ Len(SubSeq(down, 1, n)) = n
    BY Fronted, Zenon
  <2>3. SubSeq(down, n + 1, Len(down)) \in Seq(Units)
    <3>1. n \in Nat /\ Len(down) \in Nat /\ Len(down) <= Len(down)
      OBVIOUS
    <3> QED
      BY <3>1, Sliced
  <2>4. p2c' \in Seq(Units) /\ Len(p2c') = Len(p2c) + n
    BY <2>1, <2>2, ConcatProperties
  <2>5. cRead' \in 0 .. Len(p2c') /\ writing' \in BOOLEAN
    BY <2>1, <2>4
  <2>6. TypeOK'
    BY <2>1, <2>3, <2>4, <2>5 DEF TypeOK
  <2>7. ChunksInBounds'
    BY <2>1 DEF TypeInv, ChunksInBounds
  <2> QED
    BY <2>6, <2>7 DEF TypeInv
<1>23. CASE P2CSendError
  BY <1>23 DEF P2CSendError, upVars, peerVars, TypeInv, TypeOK, ChunksInBounds
<1> QED
  BY <1>1, <1>2, <1>3, <1>4, <1>5, <1>6, <1>7, <1>8, <1>9, <1>10, <1>11, <1>12, <1>13,
     <1>14, <1>15, <1>16, <1>17, <1>18, <1>19, <1>20, <1>21, <1>22, <1>23
  DEF Next, Peers, Up, B2P, P2C

-----------------------------------------------------------------------------
(* Upstream *)

\* Requests are missing between the client and the backend only after a reset by the
\* backend, and then the writer's buffer is full for good: no later request can enter it.
MissingOnlyBehindFullBuffer ==
  phase = "running" /\ Len(p2b) + Len(up) # taken =>
    backend = "reset" /\ Len(up) >= HighWater

UpInv ==
  /\ UpstreamInOrder
  /\ NothingLostUpstream
  /\ MissingOnlyBehindFullBuffer
  /\ phase = "connecting" => taken = 0 /\ p2b = <<>> /\ up = <<>>

(* The initial state. *)
LEMMA InitUp == Init => UpInv
<1> SUFFICES ASSUME Init PROVE UpInv
  OBVIOUS
<1>1. phase = "connecting" /\ taken = 0 /\ p2b = <<>> /\ up = <<>> /\ Len(p2b) = 0
  BY EmptyFacts, Zenon DEF Init
<1> QED
  BY <1>1 DEF UpInv, UpstreamInOrder, NothingLostUpstream, MissingOnlyBehindFullBuffer

(* A step of another pipe or of a peer, which may end the backend but not revive it. *)
LEMMA UpKept ==
  ASSUME UpInv, UNCHANGED <<phase, taken, up, p2b, c2p>>,
         backend = "reset" => backend' = "reset"
  PROVE  UpInv'
<1>1. phase' = phase /\ taken' = taken /\ up' = up /\ p2b' = p2b /\ c2p' = c2p
  OBVIOUS
<1> QED
  BY <1>1 DEF UpInv, UpstreamInOrder, NothingLostUpstream, MissingOnlyBehindFullBuffer

(* The end of the connection: only what the backend has been sent counts. *)
LEMMA UpEnded ==
  ASSUME TypeOK, UpInv, Teardown, taken' \in taken .. Len(c2p)
  PROVE  UpInv'
<1>1. phase' = "done" /\ p2b' = p2b /\ c2p' = c2p
  BY DEF Teardown, peerVars
<1>2. Len(p2b) <= taken'
  BY TypeFacts DEF UpInv, UpstreamInOrder
<1> QED
  BY <1>1, <1>2
  DEF UpInv, UpstreamInOrder, NothingLostUpstream, MissingOnlyBehindFullBuffer

(* The client sends: the positions of its earlier frames stay. *)
LEMMA UpClientSends ==
  ASSUME TypeOK, UpInv, NEW f \in ClientFrames, ClientSend(f)
  PROVE  UpInv'
<1> USE TypeFacts
<1>1. /\ c2p' = Append(c2p, f)
      /\ UNCHANGED <<phase, taken, up, p2b, backend>>
  BY DEF ClientSend, upVars
<1>2. \A i \in 1 .. Len(c2p) : c2p'[i] = c2p[i]
  BY <1>1, Appended
<1>3. UpstreamInOrder'
  <2>1. ASSUME NEW i \in 1 .. Len(p2b)
        PROVE  Accepted(c2p'[i]) /\ p2b[i] = Forward(c2p'[i])
    <3>1. i \in 1 .. Len(c2p)
      BY DEF UpInv, UpstreamInOrder
    <3>2. Accepted(c2p[i]) /\ p2b[i] = Forward(c2p[i])
      BY DEF UpInv, UpstreamInOrder
    <3> QED
      BY <1>2, <3>1, <3>2
  <2> QED
    BY <1>1, <2>1 DEF UpInv, UpstreamInOrder
<1>4. NothingLostUpstream'
  <2>1. ASSUME phase = "running", NEW i \in 1 .. Len(up)
        PROVE  /\ Accepted(c2p'[Len(p2b) + i])
               /\ up[i] = Forward(c2p'[Len(p2b) + i])
    <3>1. Len(p2b) + i \in 1 .. Len(c2p)
      BY <2>1 DEF UpInv, NothingLostUpstream
    <3>2. Accepted(c2p[Len(p2b) + i]) /\ up[i] = Forward(c2p[Len(p2b) + i])
      BY <2>1 DEF UpInv, NothingLostUpstream
    <3> QED
      BY <1>2, <3>1, <3>2
  <2> QED
    BY <1>1, <2>1 DEF UpInv, NothingLostUpstream
<1> QED
  BY <1>1, <1>3, <1>4 DEF UpInv, MissingOnlyBehindFullBuffer

(* A packet enters the writer's buffer, behind all those taken before it. *)
LEMMA UpSends ==
  ASSUME TypeOK, UpInv, UpSend
  PROVE  UpInv'
<1> USE TypeFacts
<1> DEFINE f == NextFrame
<1>1. /\ phase = "running" /\ taken < Len(c2p) /\ Accepted(f) /\ Len(up) < HighWater
      /\ taken' = taken + 1 /\ up' = Append(up, Forward(f))
      /\ UNCHANGED <<phase, p2b, c2p, backend>>
  BY DEF UpSend, UpReads, peerVars
<1>2. f = c2p[taken + 1] /\ Forward(f) \in ForwardedFrames
  BY <1>1, NextFrameType DEF NextFrame
<1> HIDE DEF f
<1>3. /\ Len(up') = Len(up) + 1
      /\ \A i \in 1 .. Len(up) : up'[i] = up[i]
      /\ up'[Len(up) + 1] = Forward(f)
  BY <1>1, <1>2, Appended
<1>4. Len(p2b) + Len(up) = taken
  BY <1>1, ProxyAssumption DEF UpInv, MissingOnlyBehindFullBuffer
<1>5. ASSUME NEW i \in 1 .. Len(up')
      PROVE  Accepted(c2p[Len(p2b) + i]) /\ up'[i] = Forward(c2p[Len(p2b) + i])
  <2>1. CASE i \in 1 .. Len(up)
    BY <1>1, <1>3, <2>1 DEF UpInv, NothingLostUpstream
  <2>2. CASE i = Len(up) + 1
    <3>1. Len(p2b) + i = taken + 1
      BY <1>4, <2>2
    <3> QED
      BY <1>1, <1>2, <1>3, <2>2, <3>1
  <2> QED
    BY <1>3, <2>1, <2>2
<1>6. Len(p2b) + Len(up') = taken'
  BY <1>1, <1>3, <1>4
<1>7. NothingLostUpstream' /\ MissingOnlyBehindFullBuffer'
  <2>1. p2b' = p2b /\ c2p' = c2p /\ Len(p2b) + Len(up') <= taken'
    BY <1>1, <1>6
  <2>2. NothingLostUpstream'
    BY <1>5, <1>6, <2>1, Zenon DEF NothingLostUpstream
  <2>3. MissingOnlyBehindFullBuffer'
    BY <1>6, <2>1, Zenon DEF MissingOnlyBehindFullBuffer
  <2> QED
    BY <2>2, <2>3
<1>8. UpstreamInOrder'
  BY <1>1 DEF UpInv, UpstreamInOrder
<1> QED
  BY <1>1, <1>7, <1>8 DEF UpInv

(* The first frame of the buffer reaches the backend, whose next one it is. *)
LEMMA UpFlushes ==
  ASSUME TypeOK, UpInv, UpFlush
  PROVE  UpInv'
<1> USE TypeFacts
<1>1. /\ phase = "running" /\ backend # "reset" /\ up # <<>>
      /\ p2b' = Append(p2b, Head(up)) /\ up' = Tail(up)
      /\ UNCHANGED <<phase, taken, c2p, backend>>
  BY DEF UpFlush, peerVars
<1>2. /\ Len(up') = Len(up) - 1 /\ Len(up) > 0
      /\ \A i \in 1 .. Len(up) - 1 : up'[i] = up[i + 1]
      /\ Head(up) = up[1] /\ Head(up) \in ForwardedFrames
  BY <1>1, Tailed
<1>3. /\ Len(p2b') = Len(p2b) + 1
      /\ \A i \in 1 .. Len(p2b) : p2b'[i] = p2b[i]
      /\ p2b'[Len(p2b) + 1] = up[1]
  BY <1>1, <1>2, Appended
<1>4. Len(p2b) + Len(up) = taken /\ Len(p2b') + Len(up') = taken
  BY <1>1, <1>2, <1>3 DEF UpInv, NothingLostUpstream
<1>5. \A i \in 1 .. Len(up) : /\ Accepted(c2p[Len(p2b) + i])
                             /\ up[i] = Forward(c2p[Len(p2b) + i])
  BY <1>1 DEF UpInv, NothingLostUpstream
<1>6. UpstreamInOrder'
  <2>1. ASSUME NEW i \in 1 .. Len(p2b')
        PROVE  Accepted(c2p[i]) /\ p2b'[i] = Forward(c2p[i])
    <3>1. CASE i \in 1 .. Len(p2b)
      BY <1>3, <3>1 DEF UpInv, UpstreamInOrder
    <3>2. CASE i = Len(p2b) + 1
      <4>1. 1 \in 1 .. Len(up)
        BY <1>2
      <4> QED
        BY <1>3, <1>5, <3>2, <4>1
    <3> QED
      BY <1>3, <3>1, <3>2
  <2>2. Len(p2b') <= taken
    BY <1>2, <1>3, <1>4
  <2> QED
    BY <1>1, <2>1, <2>2 DEF UpstreamInOrder
<1>7. ASSUME NEW i \in 1 .. Len(up')
      PROVE  Accepted(c2p[Len(p2b') + i]) /\ up'[i] = Forward(c2p[Len(p2b') + i])
  <2>1. i + 1 \in 1 .. Len(up) /\ i \in 1 .. Len(up) - 1
    BY <1>2
  <2>2. Len(p2b') + i = Len(p2b) + (i + 1)
    BY <1>3
  <2> QED
    BY <1>2, <1>5, <2>1, <2>2
<1>8. NothingLostUpstream' /\ MissingOnlyBehindFullBuffer'
  BY <1>1, <1>4, <1>7 DEF NothingLostUpstream, MissingOnlyBehindFullBuffer
<1> QED
  BY <1>1, <1>6, <1>8 DEF UpInv

(* The packet that an ignored error loses: it can only be one behind a full buffer. *)
LEMMA UpRefuses ==
  ASSUME TypeOK, UpInv, UpSendRefused
  PROVE  UpInv'
<1>1. /\ phase = "running" /\ Len(up) >= HighWater /\ backend = "reset"
      /\ taken' = taken + 1
      /\ UNCHANGED <<phase, up, p2b, c2p, backend>>
  BY DEF UpSendRefused, UpReads, peerVars
<1> QED
  BY <1>1, TypeFacts
  DEF UpInv, UpstreamInOrder, NothingLostUpstream, MissingOnlyBehindFullBuffer

(* Every step keeps the upstream invariant. *)
LEMMA StepUp == TypeOK /\ UpInv /\ [Next]_vars => UpInv'
<1> SUFFICES ASSUME TypeOK, UpInv, [Next]_vars PROVE UpInv'
  OBVIOUS
<1>1. CASE UNCHANGED vars
  BY <1>1, UpKept DEF vars, upVars, peerVars
<1>2. CASE Peers
  BY <1>2, UpClientSends, UpKept
  DEF Peers, ClientShut, ClientReset, ClientRead, BackendServe, BackendEvent, BackendShut,
      BackendReset, BackendCanSend, upVars
<1>3. CASE Connect \/ ConnectFail
  <2>1. /\ phase = "connecting" /\ phase' \in {"running", "done"}
        /\ UNCHANGED <<taken, up, p2b, c2p, backend>>
    BY <1>3 DEF Connect, ConnectFail, upVars, peerVars
  <2>2. taken = 0 /\ p2b = <<>> /\ up = <<>> /\ Len(p2b) = 0 /\ Len(up) = 0
    BY <2>1, EmptyFacts DEF UpInv
  <2> QED
    BY <2>1, <2>2
    DEF UpInv, UpstreamInOrder, NothingLostUpstream, MissingOnlyBehindFullBuffer
<1>4. CASE UpSend
  BY <1>4, UpSends
<1>5. CASE UpSendRefused
  BY <1>5, UpRefuses
<1>6. CASE UpReject
  BY <1>6, UpEnded, TypeFacts DEF UpReject, UpReads
<1>7. CASE UpFlush
  BY <1>7, UpFlushes
<1>8. CASE UpSendError
  BY <1>8, UpKept DEF UpSendError, peerVars
<1>9. CASE UpEnd \/ DownEnd
  BY <1>9, UpEnded, TypeFacts DEF UpEnd, DownEnd
<1>10. CASE DownRead \/ P2C
  BY <1>10, UpKept
  DEF DownRead, P2C, P2CRecv, P2CRecvRefused, P2CFlush, P2CSendError, upVars, peerVars
<1> QED
  BY <1>1, <1>2, <1>3, <1>4, <1>5, <1>6, <1>7, <1>8, <1>9, <1>10 DEF Next, Up, B2P

-----------------------------------------------------------------------------
(* Downstream *)

DownInv ==
  /\ DownstreamInOrder
  /\ NothingLostDownstream
  /\ phase = "connecting" => read = 0 /\ chan = <<>> /\ down = <<>> /\ p2c = <<>>

(* The initial state. *)
LEMMA InitDown == Init => DownInv
<1> SUFFICES ASSUME Init PROVE DownInv
  OBVIOUS
<1>1. /\ phase = "connecting" /\ read = 0 /\ chan = <<>> /\ down = <<>> /\ p2c = <<>>
      /\ Len(p2c) = 0
  BY EmptyFacts, Zenon DEF Init
<1> QED
  BY <1>1 DEF DownInv, DownstreamInOrder, NothingLostDownstream

(* What has been written and what waits in the writer's buffer has been read before. *)
LEMMA BufferedIsRead ==
  ASSUME TypeInv, DownInv, phase = "running", client # "reset"
  PROVE  Len(p2c) + Len(down) <= read
<1> DEFINE next == Len(p2c) + Len(down)
<1>1. TypeOK /\ next \in Nat /\ read \in Nat /\ Len(chan) \in Nat
  BY TypeFacts DEF TypeInv
<1>2. CASE chan = <<>>
  BY <1>1, <1>2 DEF DownInv, NothingLostDownstream
<1>3. CASE chan # <<>>
  <2> DEFINE Chunk == [from : Nat, to : Nat]
  <2>1. chan \in Seq(Chunk) /\ 1 \in 1 .. Len(chan)
    BY <1>1, <1>3, TypeFacts, EmptySeq
  <2>2. chan[1] \in Chunk
    BY <2>1, ElementOfSeq, Zenon
  <2>3. chan[1].from \in Nat /\ chan[1].to \in Nat
    BY <2>2
  <2>4. chan[1].from < chan[1].to /\ chan[1].to <= read
    BY <2>1 DEF TypeInv, ChunksInBounds
  <2>5. chan[1].from = next
    BY <1>3 DEF DownInv, NothingLostDownstream
  <2> DEFINE from == chan[1].from
             to == chan[1].to
  <2>6. from \in Nat /\ to \in Nat /\ from < to /\ to <= read /\ from = next
    BY <2>3, <2>4, <2>5
  <2> HIDE DEF from, to, next
  <2>7. next <= read
    BY <1>1, <2>6
  <2> QED
    BY <2>7 DEF next
<1> QED
  BY <1>2, <1>3

(* A step of the other direction or of a peer: the backend may send more. *)
LEMMA DownKept ==
  ASSUME TypeInv, DownInv, UNCHANGED <<phase, read, chan, down, p2c>>,
         client = "reset" => client' = "reset",
         \A i \in 1 .. Len(b2p) : b2p'[i] = b2p[i]
  PROVE  DownInv'
<1>0. TypeOK
  BY DEF TypeInv
<1> USE TypeFacts, <1>0
<1>1. phase' = phase /\ read' = read /\ chan' = chan /\ down' = down /\ p2c' = p2c
  OBVIOUS
<1>2. DownstreamInOrder'
  <2>1. ASSUME NEW i \in 1 .. Len(p2c)
        PROVE  p2c[i] = b2p'[i]
    <3>1. i \in 1 .. Len(b2p) /\ p2c[i] = b2p[i]
      BY DEF DownInv, DownstreamInOrder
    <3> QED
      BY <3>1
  <2> QED
    BY <1>1, <2>1 DEF DownInv, DownstreamInOrder
<1>3. NothingLostDownstream'
  <2>1. ASSUME phase = "running", client # "reset", NEW i \in 1 .. Len(down)
        PROVE  down[i] = b2p'[Len(p2c) + i]
    <3>1. Len(p2c) + Len(down) <= read
      BY <2>1, BufferedIsRead
    <3>2. Len(p2c) + i \in 1 .. Len(b2p)
      BY <3>1
    <3>3. down[i] = b2p[Len(p2c) + i]
      BY <2>1 DEF DownInv, NothingLostDownstream
    <3> QED
      BY <3>2, <3>3
  <2> QED
    BY <1>1, <2>1 DEF DownInv, NothingLostDownstream
<1> QED
  BY <1>1, <1>2, <1>3 DEF DownInv

(* The end of the connection. *)
LEMMA DownEnded ==
  ASSUME DownInv, Teardown
  PROVE  DownInv'
<1>1. phase' = "done" /\ p2c' = p2c /\ b2p' = b2p /\ read' = read
  BY DEF Teardown, peerVars
<1> QED
  BY <1>1 DEF DownInv, DownstreamInOrder, NothingLostDownstream

(* A chunk read from the backend enters the channel, behind all those read before it. *)
LEMMA DownReads ==
  ASSUME TypeInv, DownInv, DownRead
  PROVE  DownInv'
<1>0. TypeOK
  BY DEF TypeInv
<1> USE TypeFacts, <1>0
<1>1. PICK to \in read + 1 .. Len(b2p) :
        /\ phase = "running"
        /\ chan' = Append(chan, [from |-> read, to |-> to])
        /\ read' = to
        /\ UNCHANGED <<phase, down, p2c, b2p, client>>
  BY DEF DownRead, peerVars
<1> DEFINE Chunk == [from : Nat, to : Nat]
           new == [from |-> read, to |-> to]
<1>2. new \in Chunk /\ new.from = read /\ new.to = to /\ to \in Nat /\ read < to
  OBVIOUS
<1>3. chan \in Seq(Chunk) /\ chan' = Append(chan, new)
  BY <1>1
<1> HIDE DEF Chunk, new
<1>4. /\ Len(chan') = Len(chan) + 1
      /\ \A i \in 1 .. Len(chan) : chan'[i] = chan[i]
      /\ chan'[Len(chan) + 1] = new
  BY <1>2, <1>3, Appended
<1>5. chan' # <<>>
  BY <1>4, EmptyFacts
<1>6. DownstreamInOrder'
  BY <1>1, <1>2 DEF DownInv, DownstreamInOrder
<1>7. NothingLostDownstream'
  <2> SUFFICES ASSUME client # "reset"
               PROVE  NothingLostDownstream'
    BY <1>1 DEF NothingLostDownstream
  <2> DEFINE next == Len(p2c) + Len(down)
  <2>1. /\ \A i \in 1 .. Len(down) : down[i] = b2p[Len(p2c) + i]
        /\ chan = <<>> => next = read
        /\ chan # <<>> => chan[1].from = next /\ chan[Len(chan)].to = read
        /\ \A i \in 1 .. Len(chan) : chan[i].from < chan[i].to
        /\ \A i \in 1 .. Len(chan) - 1 : chan[i].to = chan[i + 1].from
    BY <1>1 DEF DownInv, NothingLostDownstream
  <2> HIDE DEF next
  <2>2. chan'[1].from = next
    <3>1. CASE chan = <<>>
      <4>1. Len(chan) = 0
        BY <3>1, EmptyFacts
      <4>2. chan'[1] = new
        BY <1>4, <4>1
      <4> QED
        BY <1>2, <2>1, <3>1, <4>2
    <3>2. CASE chan # <<>>
      <4>1. 1 \in 1 .. Len(chan)
        BY <3>2, EmptySeq
      <4> QED
        BY <1>4, <2>1, <3>2, <4>1
    <3> QED
      BY <3>1, <3>2
  <2>3. chan'[Len(chan')].to = to
    BY <1>2, <1>4
  <2>4. ASSUME NEW i \in 1 .. Len(chan')
        PROVE  chan'[i].from < chan'[i].to
    <3>1. CASE i \in 1 .. Len(chan)
      BY <1>4, <2>1, <3>1
    <3>2. CASE i = Len(chan) + 1
      BY <1>2, <1>4, <3>2
    <3> QED
      BY <1>4, <3>1, <3>2
  <2>5. ASSUME NEW i \in 1 .. Len(chan') - 1
        PROVE  chan'[i].to = chan'[i + 1].from
    <3>1. i \in 1 .. Len(chan)
      BY <1>4
    <3>2. CASE i = Len(chan)
      <4>1. chan # <<>>
        BY <3>1, EmptyFacts
      <4>2. chan'[i + 1] = new /\ chan'[i] = chan[i]
        BY <1>4, <3>1, <3>2
      <4> QED
        BY <1>2, <2>1, <3>2, <4>1, <4>2
    <3>3. CASE i # Len(chan)
      <4>1. i \in 1 .. Len(chan) - 1 /\ i + 1 \in 1 .. Len(chan)
        BY <3>1, <3>3
      <4> QED
        BY <1>4, <2>1, <3>1, <4>1
    <3> QED
      BY <3>2, <3>3
  <2> QED
    BY <1>1, <1>5, <2>1, <2>2, <2>3, <2>4, <2>5 DEF NothingLostDownstream, next
<1> QED
  BY <1>1, <1>6, <1>7 DEF DownInv

(* The writer's buffer takes the first chunk of the channel, which continues it. *)
LEMMA DownReceives ==
  ASSUME TypeInv, DownInv, P2CRecv
  PROVE  DownInv'
<1>0. TypeOK
  BY DEF TypeInv
<1> USE TypeFacts, <1>0
<1>1. /\ phase = "running" /\ chan # <<>>
      /\ down' = down \o Slice(Head(chan)) /\ chan' = Tail(chan)
      /\ UNCHANGED <<phase, read, p2c, b2p, client>>
  BY DEF P2CRecv, peerVars
<1> DEFINE Chunk == [from : Nat, to : Nat]
           from == chan[1].from
           to == chan[1].to
<1>2. chan \in Seq(Chunk)
  OBVIOUS
<1>3. chan[1] \in Chunk /\ Head(chan) = chan[1]
  BY <1>1, <1>2, Tailed, Zenon
<1>4. from \in Nat /\ to \in Nat
  BY <1>3
<1> HIDE DEF Chunk
<1>5. /\ Len(chan') = Len(chan) - 1 /\ Len(chan) > 0 /\ chan' \in Seq(Chunk)
      /\ \A i \in 1 .. Len(chan) - 1 : chan'[i] = chan[i + 1]
  BY <1>1, <1>2, Tailed
<1>6. from < to /\ to <= read
  BY <1>5 DEF TypeInv, ChunksInBounds
<1> HIDE DEF from, to
<1>7. to <= Len(b2p) /\ from <= to
  BY <1>4, <1>6
<1>8. /\ Slice(chan[1]) \in Seq(Units) /\ Len(Slice(chan[1])) = to - from
      /\ \A i \in 1 .. to - from : Slice(chan[1])[i] = b2p[from + i]
  <2>0. b2p \in Seq(Units) /\ from \in Nat /\ to \in Nat /\ to <= Len(b2p) /\ from <= to
    BY <1>4, <1>7
  <2>1. /\ SubSeq(b2p, from + 1, to) \in Seq(Units)
        /\ Len(SubSeq(b2p, from + 1, to)) = to - from
        /\ \A i \in 1 .. to - from : SubSeq(b2p, from + 1, to)[i] = b2p[from + i]
    BY <2>0, SlicedWithin
  <2> QED
    BY <2>1, Zenon DEF Slice, from, to
<1> DEFINE chunk == Slice(chan[1])
<1> HIDE DEF chunk
<1>9. /\ Len(down') = Len(down) + (to - from)
      /\ \A i \in 1 .. Len(down) + (to - from) :
           down'[i] = IF i <= Len(down) THEN down[i] ELSE chunk[i - Len(down)]
  <2>1. /\ chunk \in Seq(Units) /\ Len(chunk) = to - from /\ down' = down \o chunk
    BY <1>1, <1>3, <1>8 DEF chunk
  <2>2. /\ Len(down \o chunk) = Len(down) + Len(chunk)
        /\ \A i \in 1 .. Len(down) + Len(chunk) :
             (down \o chunk)[i] = IF i <= Len(down) THEN down[i] ELSE chunk[i - Len(down)]
    BY <2>1, ConcatProperties
  <2> QED
    BY <2>1, <2>2, Zenon
<1>10. DownstreamInOrder'
  BY <1>1 DEF DownInv, DownstreamInOrder
<1>11. NothingLostDownstream'
  <2> SUFFICES ASSUME client # "reset"
               PROVE  NothingLostDownstream'
    BY <1>1 DEF NothingLostDownstream
  <2>1. /\ \A i \in 1 .. Len(down) : down[i] = b2p[Len(p2c) + i]
        /\ from = Len(p2c) + Len(down) /\ chan[Len(chan)].to = read
        /\ \A i \in 1 .. Len(chan) : chan[i].from < chan[i].to
        /\ \A i \in 1 .. Len(chan) - 1 : chan[i].to = chan[i + 1].from
    BY <1>1 DEF DownInv, NothingLostDownstream, from
  <2>2. Len(p2c) + Len(down') = to
    <3>1. Len(down') = Len(down) + (to - from) /\ from = Len(p2c) + Len(down)
      BY <1>9, <2>1
    <3>2. Len(down) + (to - (Len(p2c) + Len(down))) = to - Len(p2c)
      BY <1>4
    <3>3. Len(p2c) + (to - Len(p2c)) = to
      BY <1>4
    <3> QED
      BY <3>1, <3>2, <3>3, Zenon
  <2>3. ASSUME NEW i \in 1 .. Len(down')
        PROVE  down'[i] = b2p[Len(p2c) + i]
    <3>1. i \in 1 .. Len(down) + (to - from)
      BY <1>9
    <3>2. CASE i <= Len(down)
      <4>1. i \in 1 .. Len(down)
        BY <3>2
      <4>2. down'[i] = down[i]
        BY <1>9, <3>1, <3>2, Zenon
      <4> QED
        BY <2>1, <4>1, <4>2, Zenon
    <3>3. CASE i > Len(down)
      <4>1. i - Len(down) \in 1 .. to - from /\ ~(i <= Len(down))
        BY <1>4, <1>6, <3>1, <3>3
      <4>2. down'[i] = chunk[i - Len(down)]
        BY <1>9, <3>1, <4>1
      <4>3. chunk[i - Len(down)] = b2p[from + (i - Len(down))]
        BY <1>8, <4>1 DEF chunk
      <4>4. from + (i - Len(down)) = Len(p2c) + i
        BY <1>4, <2>1
      <4> QED
        BY <4>2, <4>3, <4>4
    <3> QED
      BY <3>2, <3>3
  <2>4. CASE Len(chan) = 1
    <3>1. chan' = <<>> /\ Len(chan') = 0
      BY <1>5, <2>4, EmptySeq
    <3>2. to = read
      BY <2>1, <2>4 DEF to
    <3>3. Len(p2c') = Len(p2c) /\ b2p' = b2p /\ read' = read
      BY <1>1
    <3>4. /\ \A i \in 1 .. Len(chan') : chan'[i].from < chan'[i].to
          /\ \A i \in 1 .. Len(chan') - 1 : chan'[i].to = chan'[i + 1].from
      BY <3>1
    <3> QED
      BY <2>2, <2>3, <3>1, <3>2, <3>3, <3>4, Zenon DEF NothingLostDownstream
  <2>5. CASE Len(chan) # 1
    <3>1. /\ 1 \in 1 .. Len(chan) - 1 /\ Len(chan) - 1 \in 1 .. Len(chan) - 1
          /\ Len(chan) - 1 + 1 = Len(chan)
      BY <1>5, <2>5
    <3>2. chan' # <<>>
      BY <1>5, <3>1, EmptyFacts
    <3>3. chan'[1].from = to
      BY <1>5, <2>1, <3>1 DEF to
    <3>4. chan'[Len(chan')].to = read
      BY <1>5, <2>1, <3>1
    <3>5. ASSUME NEW i \in 1 .. Len(chan')
          PROVE  chan'[i].from < chan'[i].to
      <4>1. i \in 1 .. Len(chan) - 1 /\ i + 1 \in 1 .. Len(chan)
        BY <1>5
      <4> QED
        BY <1>5, <2>1, <4>1
    <3>6. ASSUME NEW i \in 1 .. Len(chan') - 1
          PROVE  chan'[i].to = chan'[i + 1].from
      <4>1. /\ i \in 1 .. Len(chan) - 1 /\ i + 1 \in 1 .. Len(chan) - 1
        BY <1>5
      <4> QED
        BY <1>5, <2>1, <4>1
    <3> QED
      BY <1>1, <2>2, <2>3, <3>2, <3>3, <3>4, <3>5, <3>6 DEF NothingLostDownstream
  <2> QED
    BY <2>4, <2>5
<1> QED
  BY <1>1, <1>10, <1>11 DEF DownInv

(* What a flush writes to the client are the backend's next bytes. *)
LEMMA FlushedBytes ==
  ASSUME TypeInv, DownInv, phase = "running", client # "reset",
         NEW n \in 1 .. Len(down), p2c' = p2c \o SubSeq(down, 1, n)
  PROVE  /\ SubSeq(down, 1, n) = SubSeq(b2p, Len(p2c) + 1, Len(p2c) + n)
         /\ Len(p2c') = Len(p2c) + n
         /\ Len(p2c) + n <= read
         /\ \A i \in 1 .. Len(p2c') : p2c'[i] = b2p[i]
<1>0. TypeOK
  BY DEF TypeInv
<1> USE TypeFacts, <1>0
<1>1. Len(p2c) + Len(down) <= read
  BY BufferedIsRead
<1>2. n \in Nat /\ n <= Len(down) /\ Len(p2c) + n <= read /\ Len(p2c) + n <= Len(b2p)
  BY <1>1
<1> DEFINE s == SubSeq(down, 1, n)
           t == SubSeq(b2p, Len(p2c) + 1, Len(p2c) + n)
<1> HIDE DEF s, t
<1>3. s \in Seq(Units) /\ Len(s) = n
  BY Fronted, Zenon DEF s
<1>5. \A i \in 1 .. Len(down) : down[i] = b2p[Len(p2c) + i]
  BY DEF DownInv, NothingLostDownstream
<1>7. s = t
  <2> DEFINE a == Len(p2c)
  <2>1. down \in Seq(Units) /\ b2p \in Seq(Units) /\ a \in Nat /\ a + Len(down) <= Len(b2p)
    BY <1>1
  <2>2. \A i \in 1 .. Len(down) : down[i] = b2p[a + i]
    BY <1>5
  <2> HIDE DEF a
  <2>3. SubSeq(down, 1, n) = SubSeq(b2p, a + 1, a + n)
    BY ONLY <2>1, <2>2, n \in 1 .. Len(down), SameSlice, Zenon
  <2> QED
    BY <2>3, Zenon DEF a, s, t
<1>8. /\ Len(p2c') = Len(p2c) + n
      /\ \A i \in 1 .. Len(p2c) + n :
           p2c'[i] = IF i <= Len(p2c) THEN p2c[i] ELSE s[i - Len(p2c)]
  <2>1. p2c' = p2c \o s
    BY DEF s
  <2>2. /\ Len(p2c \o s) = Len(p2c) + Len(s)
        /\ \A i \in 1 .. Len(p2c) + Len(s) :
             (p2c \o s)[i] = IF i <= Len(p2c) THEN p2c[i] ELSE s[i - Len(p2c)]
    BY <1>3, ConcatProperties
  <2> QED
    BY <1>3, <2>1, <2>2, Zenon
<1>9. ASSUME NEW i \in 1 .. Len(p2c')
      PROVE  p2c'[i] = b2p[i]
  <2>1. i \in 1 .. Len(p2c) + n
    BY <1>8
  <2>2. CASE i <= Len(p2c)
    <3>1. i \in 1 .. Len(p2c)
      BY <2>1, <2>2
    <3>2. p2c[i] = b2p[i]
      BY <3>1, Zenon DEF DownInv, DownstreamInOrder
    <3> QED
      BY <1>8, <2>1, <2>2, <3>2, Zenon
  <2>3. CASE i > Len(p2c)
    <3>1. i - Len(p2c) \in 1 .. n /\ ~(i <= Len(p2c)) /\ Len(p2c) + (i - Len(p2c)) = i
      BY <1>2, <2>1, <2>3
    <3>2. p2c'[i] = s[i - Len(p2c)]
      BY <1>8, <2>1, <3>1
    <3>3. s[i - Len(p2c)] = down[i - Len(p2c)]
      BY <3>1, Fronted, Zenon DEF s
    <3>4. i - Len(p2c) \in 1 .. Len(down)
      BY <1>2, <3>1
    <3>5. down[i - Len(p2c)] = b2p[Len(p2c) + (i - Len(p2c))]
      BY <1>5, <3>4, Zenon
    <3> QED
      BY <3>1, <3>2, <3>3, <3>5, Zenon
  <2>4. i <= Len(p2c) \/ i > Len(p2c)
    BY <2>1
  <2> QED
    BY <2>2, <2>3, <2>4, Zenon
<1> QED
  BY <1>2, <1>7, <1>8, <1>9, Zenon DEF s, t

(* A flush moves bytes from the writer's buffer to the client. *)
LEMMA DownFlushes ==
  ASSUME TypeInv, DownInv, P2CFlush
  PROVE  DownInv'
<1>0. TypeOK
  BY DEF TypeInv
<1> USE TypeFacts, <1>0
<1>1. PICK n \in 1 .. Len(down) :
        /\ phase = "running" /\ client # "reset"
        /\ p2c' = p2c \o SubSeq(down, 1, n)
        /\ down' = SubSeq(down, n + 1, Len(down))
        /\ UNCHANGED <<phase, read, chan, b2p, client>>
  BY DEF P2CFlush, peerVars
<1>2. /\ Len(p2c') = Len(p2c) + n /\ Len(p2c) + n <= read
      /\ \A i \in 1 .. Len(p2c') : p2c'[i] = b2p[i]
  BY <1>1, FlushedBytes
<1>3. DownstreamInOrder'
  BY <1>1, <1>2 DEF DownstreamInOrder
<1>4. /\ Len(down') = Len(down) - n
      /\ \A i \in 1 .. Len(down) - n : down'[i] = down[n + i]
  <2> DEFINE len == Len(down)
  <2>1. down \in Seq(Units) /\ n \in Nat /\ len \in Nat /\ n <= len /\ len <= Len(down)
    OBVIOUS
  <2> HIDE DEF len
  <2>2. /\ Len(SubSeq(down, n + 1, len)) = len - n
        /\ \A i \in 1 .. len - n : SubSeq(down, n + 1, len)[i] = down[n + i]
    BY <2>1, SlicedWithin
  <2> QED
    BY <1>1, <2>2, Zenon DEF len
<1>5. /\ \A i \in 1 .. Len(down) : down[i] = b2p[Len(p2c) + i]
      /\ chan = <<>> => Len(p2c) + Len(down) = read
      /\ chan # <<>> => /\ chan[1].from = Len(p2c) + Len(down)
                       /\ chan[Len(chan)].to = read
      /\ \A i \in 1 .. Len(chan) : chan[i].from < chan[i].to
      /\ \A i \in 1 .. Len(chan) - 1 : chan[i].to = chan[i + 1].from
  BY <1>1 DEF DownInv, NothingLostDownstream
<1>6. Len(p2c') + Len(down') = Len(p2c) + Len(down)
  BY <1>2, <1>4
<1>7. ASSUME NEW i \in 1 .. Len(down')
      PROVE  down'[i] = b2p[Len(p2c') + i]
  <2>1. /\ i \in 1 .. Len(down) - n /\ n + i \in 1 .. Len(down)
        /\ Len(p2c) + (n + i) = Len(p2c') + i
    BY <1>2, <1>4
  <2> QED
    BY <1>4, <1>5, <2>1
<1>8. NothingLostDownstream'
  BY <1>1, <1>5, <1>6, <1>7 DEF NothingLostDownstream
<1> QED
  BY <1>1, <1>3, <1>8 DEF DownInv

(* Every step keeps the downstream invariant. *)
LEMMA StepDown == TypeInv /\ DownInv /\ [Next]_vars => DownInv'
<1> SUFFICES ASSUME TypeInv, DownInv, [Next]_vars PROVE DownInv'
  OBVIOUS
<1>0. TypeOK
  BY DEF TypeInv
<1>1. CASE UNCHANGED vars
  BY <1>1, DownKept DEF vars, downVars, peerVars
<1>2. ASSUME NEW u \in Units, BackendServe(u) \/ BackendEvent(u)
      PROVE  DownInv'
  <2>1. /\ UNCHANGED <<phase, read, chan, down, p2c, client>>
        /\ b2p' = b2p \/ b2p' = Append(b2p, u)
    BY <1>2 DEF BackendServe, BackendEvent, downVars
  <2>2. \A i \in 1 .. Len(b2p) : b2p'[i] = b2p[i]
    <3>1. \A i \in 1 .. Len(b2p) : Append(b2p, u)[i] = b2p[i]
      BY <1>0, <1>2, Appended, TypeFacts
    <3> QED
      BY <2>1, <3>1, Zenon
  <2> QED
    BY <2>1, <2>2, DownKept
<1>3. CASE \/ \E f \in ClientFrames : ClientSend(f)
           \/ ClientShut \/ ClientReset \/ ClientRead \/ BackendShut \/ BackendReset
  BY <1>3, DownKept
  DEF ClientSend, ClientShut, ClientReset, ClientRead, BackendShut, BackendReset, downVars
<1>4. CASE Connect \/ ConnectFail
  <2>1. /\ phase = "connecting" /\ phase' \in {"running", "done"}
        /\ UNCHANGED <<read, chan, down, p2c, b2p, client>>
    BY <1>4 DEF Connect, ConnectFail, downVars, peerVars
  <2>2. /\ read = 0 /\ chan = <<>> /\ down = <<>> /\ p2c = <<>>
        /\ Len(chan) = 0 /\ Len(down) = 0 /\ Len(p2c) = 0
    BY <2>1, EmptyFacts DEF DownInv
  <2> QED
    BY <2>1, <2>2 DEF DownInv, DownstreamInOrder, NothingLostDownstream
<1>5. CASE UpSend \/ UpSendRefused \/ UpFlush \/ UpSendError
  BY <1>5, DownKept DEF UpSend, UpSendRefused, UpFlush, UpSendError, downVars, peerVars
<1>6. CASE UpReject \/ UpEnd \/ DownEnd
  BY <1>6, DownEnded DEF UpReject, UpEnd, DownEnd
<1>7. CASE DownRead
  BY <1>7, DownReads
<1>8. CASE P2CRecv
  BY <1>8, DownReceives
<1>9. CASE P2CRecvRefused
  <2>1. /\ client = "reset" /\ UNCHANGED <<phase, read, p2c, b2p, client>>
        /\ phase = "running"
    BY <1>9 DEF P2CRecvRefused, peerVars
  <2> QED
    BY <2>1 DEF DownInv, DownstreamInOrder, NothingLostDownstream
<1>10. CASE P2CFlush
  BY <1>10, DownFlushes
<1>11. CASE P2CSendError
  BY <1>11, DownKept DEF P2CSendError, peerVars
<1> QED
  BY <1>1, <1>2, <1>3, <1>4, <1>5, <1>6, <1>7, <1>8, <1>9, <1>10, <1>11
  DEF Next, Peers, Up, B2P, P2C

-----------------------------------------------------------------------------
(* What is held *)

\* Of the requests: a send() that is not failing leaves nothing behind
UpHeld ==
  /\ Len(up) <= HighWater
  /\ backend # "reset" => Len(up) <= 1
  /\ backend # "reset" /\ ~sending => up = <<>>

\* Of the replies: what has not been read fits the socket, and so does each chunk
DownHeld ==
  /\ Len(down) < HighWater + SockCap
  /\ Len(b2p) - read <= SockCap
  /\ \A i \in 1 .. Len(chan) : chan[i].to - chan[i].from <= SockCap

\* Nothing before the pipes run and nothing after
HeldWhileRunning ==
  phase # "running" => up = <<>> /\ down = <<>> /\ chan = <<>> /\ requests_by_xid = <<>>

HeldInv == UpHeld /\ DownHeld /\ HeldWhileRunning

(* The initial state. *)
LEMMA InitHeld == Init => HeldInv
<1> SUFFICES ASSUME Init PROVE HeldInv
  OBVIOUS
<1>1. /\ up = <<>> /\ down = <<>> /\ chan = <<>> /\ b2p = <<>> /\ requests_by_xid = <<>>
      /\ Len(up) = 0 /\ Len(down) = 0 /\ Len(chan) = 0 /\ Len(b2p) = 0 /\ read = 0
  BY EmptyFacts, Zenon DEF Init
<1> QED
  BY <1>1, ProxyAssumption DEF HeldInv, UpHeld, DownHeld, HeldWhileRunning

(* Every step keeps to the bounds. *)
LEMMA StepHeld == TypeInv /\ HeldInv /\ [Next]_vars => HeldInv'
<1> SUFFICES ASSUME TypeInv, HeldInv, [Next]_vars PROVE HeldInv'
  OBVIOUS
<1>0. TypeOK
  BY DEF TypeInv
<1> USE TypeFacts, <1>0, ProxyAssumption
<1>a. UpHeld /\ DownHeld /\ HeldWhileRunning
  BY DEF HeldInv
<1>b. ASSUME UNCHANGED <<up, sending>>, backend = "reset" => backend' = "reset"
      PROVE  UpHeld'
  BY <1>a, <1>b DEF UpHeld
<1>c. ASSUME UNCHANGED <<down, b2p, read, chan>>
      PROVE  DownHeld'
  BY <1>a, <1>c DEF DownHeld
<1>d. ASSUME UNCHANGED <<phase, up, down, chan, requests_by_xid>>
      PROVE  HeldWhileRunning'
  BY <1>a, <1>d DEF HeldWhileRunning
<1>e. ASSUME phase = "running", phase' = "running"
      PROVE  HeldWhileRunning'
  BY <1>e DEF HeldWhileRunning
<1>1. CASE \/ UNCHANGED vars \/ \E f \in ClientFrames : ClientSend(f)
           \/ ClientShut \/ ClientReset \/ ClientRead \/ BackendShut \/ BackendReset
  <2>1. /\ UNCHANGED <<phase, up, sending, down, b2p, read, chan, requests_by_xid>>
        /\ backend = "reset" => backend' = "reset"
    BY <1>1 DEF vars, upVars, downVars, peerVars, ClientSend, ClientShut, ClientReset,
                ClientRead, BackendShut, BackendReset
  <2> QED
    BY <1>b, <1>c, <1>d, <2>1, Zenon DEF HeldInv
<1>2. ASSUME NEW u \in Units, BackendServe(u) \/ BackendEvent(u)
      PROVE  HeldInv'
  <2>1. /\ Len(b2p) - read < SockCap
        /\ b2p' = b2p \/ b2p' = Append(b2p, u)
        /\ UNCHANGED <<phase, up, sending, down, read, chan, requests_by_xid, backend>>
    BY <1>2 DEF BackendServe, BackendEvent, BackendCanSend, upVars, downVars
  <2>2. Len(b2p') \in Nat /\ Len(b2p') <= Len(b2p) + 1
    BY <1>2, <2>1, Appended
  <2>a. Len(b2p') - read <= SockCap
    BY <2>1, <2>2
  <2>b. Len(b2p') - read' <= SockCap
    BY <2>1, <2>a, Zenon
  <2>c. /\ Len(down') < HighWater + SockCap
        /\ \A i \in 1 .. Len(chan') : chan'[i].to - chan'[i].from <= SockCap
    <3>1. down' = down /\ chan' = chan
      BY <2>1
    <3> QED
      BY <1>a, <3>1, Zenon DEF DownHeld
  <2>3. DownHeld'
    BY <2>b, <2>c, Zenon DEF DownHeld
  <2> QED
    BY <1>b, <1>d, <2>1, <2>3, Zenon DEF HeldInv
<1>3. CASE Connect \/ ConnectFail
  <2>1. /\ phase = "connecting"
        /\ UNCHANGED <<up, sending, down, b2p, read, chan, requests_by_xid, backend>>
    BY <1>3 DEF Connect, ConnectFail, upVars, downVars, peerVars
  <2>2. HeldWhileRunning'
    BY <1>a, <2>1 DEF HeldWhileRunning
  <2> QED
    BY <1>b, <1>c, <2>1, <2>2, Zenon DEF HeldInv
<1>4. CASE UpReject \/ UpEnd \/ DownEnd
  <2>1. /\ up' = <<>> /\ down' = <<>> /\ chan' = <<>> /\ requests_by_xid' = <<>>
        /\ Len(up') = 0 /\ Len(down') = 0 /\ Len(chan') = 0
        /\ UNCHANGED <<read, b2p>>
    BY <1>4, EmptyFacts DEF UpReject, UpEnd, DownEnd, Teardown, peerVars
  <2>2. UpHeld' /\ HeldWhileRunning'
    BY <2>1 DEF UpHeld, HeldWhileRunning
  <2>3. DownHeld'
    BY <1>a, <2>1 DEF DownHeld
  <2> QED
    BY <2>2, <2>3 DEF HeldInv
<1>5. CASE UpSend
  <2>1. /\ ~sending /\ sending' /\ Len(up) < HighWater /\ taken < Len(c2p)
        /\ Accepted(NextFrame) /\ up' = Append(up, Forward(NextFrame))
        /\ phase = "running" /\ phase' = "running"
        /\ UNCHANGED <<down, b2p, read, chan, backend>>
    BY <1>5 DEF UpSend, UpReads, downVars, peerVars
  <2>2. Len(up') = Len(up) + 1
    BY <2>1, NextFrameType, Appended
  <2>3. backend # "reset" => Len(up) = 0
    BY <1>a, <2>1, EmptyFacts DEF UpHeld
  <2>4. UpHeld'
    BY <2>1, <2>2, <2>3 DEF UpHeld
  <2> QED
    BY <1>c, <1>e, <2>1, <2>4, Zenon DEF HeldInv
<1>6. CASE UpFlush
  <2>1. /\ up # <<>> /\ up' = Tail(up) /\ sending' = (Tail(up) # <<>>)
        /\ phase = "running" /\ phase' = "running"
        /\ UNCHANGED <<down, b2p, read, chan, backend>>
    BY <1>6 DEF UpFlush, downVars, peerVars
  <2>2. Len(up') = Len(up) - 1
    BY <2>1, Tailed
  <2>3. ~sending' => up' = <<>>
    BY <2>1
  <2>4. UpHeld'
    BY <1>a, <2>1, <2>2, <2>3 DEF UpHeld
  <2> QED
    BY <1>c, <1>e, <2>1, <2>4, Zenon DEF HeldInv
<1>7. CASE UpSendRefused \/ UpSendError
  <2>1. /\ backend = "reset" /\ phase = "running" /\ phase' = "running"
        /\ UNCHANGED <<up, down, b2p, read, chan, backend>>
    BY <1>7 DEF UpSendRefused, UpSendError, UpReads, downVars, peerVars
  <2>2. UpHeld'
    BY <1>a, <2>1 DEF UpHeld
  <2> QED
    BY <1>c, <1>e, <2>1, <2>2, Zenon DEF HeldInv
<1>8. CASE DownRead
  <2>1. PICK to \in read + 1 .. Len(b2p) :
          /\ phase = "running" /\ phase' = "running"
          /\ chan' = Append(chan, [from |-> read, to |-> to]) /\ read' = to
          /\ UNCHANGED <<up, sending, down, b2p, backend>>
    BY <1>8 DEF DownRead, upVars, peerVars
  <2> DEFINE new == [from |-> read, to |-> to]
  <2>2. to \in Nat /\ to > read /\ to <= Len(b2p)
    BY <2>1
  <2>3. new \in [from : Nat, to : Nat] /\ new.to - new.from = to - read
    BY <2>2
  <2> HIDE DEF new
  <2>4. /\ Len(chan') = Len(chan) + 1 /\ chan'[Len(chan) + 1] = new
        /\ \A i \in 1 .. Len(chan) : chan'[i] = chan[i]
    BY <2>1, <2>3, Appended DEF new
  <2>5. \A i \in 1 .. Len(chan') : chan'[i].to - chan'[i].from <= SockCap
    <3>1. to - read <= SockCap
      BY <1>a, <2>2 DEF DownHeld
    <3>2. \A i \in 1 .. Len(chan') : i \in 1 .. Len(chan) \/ i = Len(chan) + 1
      BY <2>4
    <3>3. \A i \in 1 .. Len(chan) : chan[i].to - chan[i].from <= SockCap
      BY <1>a DEF DownHeld
    <3> QED
      BY <2>3, <2>4, <3>1, <3>2, <3>3, Zenon
  <2>6. DownHeld'
    BY <1>a, <2>1, <2>2, <2>5 DEF DownHeld
  <2> QED
    BY <1>b, <1>e, <2>1, <2>6, Zenon DEF HeldInv
<1>9. CASE P2CRecv
  <2>1. /\ phase = "running" /\ phase' = "running" /\ chan # <<>> /\ Len(down) < HighWater
        /\ down' = down \o Slice(Head(chan)) /\ chan' = Tail(chan)
        /\ UNCHANGED <<up, sending, b2p, read, backend>>
    BY <1>9 DEF P2CRecv, upVars, peerVars
  <2>2. /\ Len(chan) > 0 /\ Head(chan) = chan[1] /\ Len(chan') = Len(chan) - 1
        /\ \A i \in 1 .. Len(chan) - 1 : chan'[i] = chan[i + 1]
        /\ chan[1] \in [from : Nat, to : Nat]
    BY <2>1, Tailed
  <2> DEFINE from == chan[1].from
             to == chan[1].to
  <2>3. /\ from \in Nat /\ to \in Nat /\ from <= to /\ to <= Len(b2p) /\ to - from <= SockCap
    <3>1. from \in Nat /\ to \in Nat
      BY <2>2
    <3>2. from < to /\ to <= read
      BY <2>2 DEF TypeInv, ChunksInBounds
    <3>3. to - from <= SockCap
      BY <1>a, <2>2 DEF DownHeld
    <3> HIDE DEF from, to
    <3> QED
      BY <3>1, <3>2, <3>3
  <2>4. Slice(chan[1]) \in Seq(Units) /\ Len(Slice(chan[1])) = to - from
    <3> HIDE DEF from, to
    <3>1. /\ SubSeq(b2p, from + 1, to) \in Seq(Units)
          /\ Len(SubSeq(b2p, from + 1, to)) = to - from
      BY <2>3, SlicedWithin
    <3> QED
      BY <3>1, Zenon DEF Slice, from, to
  <2> HIDE DEF from, to
  <2>5. Len(down') = Len(down) + (to - from)
    <3> DEFINE chunk == Slice(chan[1])
    <3>1. chunk \in Seq(Units) /\ Len(chunk) = to - from /\ down' = down \o chunk
      BY <2>1, <2>2, <2>4
    <3> HIDE DEF chunk
    <3>2. Len(down \o chunk) = Len(down) + Len(chunk)
      BY <3>1, ConcatProperties
    <3> QED
      BY <3>1, <3>2
  <2>6. Len(down') < HighWater + SockCap
    BY <2>1, <2>3, <2>5
  <2>7. \A i \in 1 .. Len(chan') : chan'[i].to - chan'[i].from <= SockCap
    <3>1. \A i \in 1 .. Len(chan') : i \in 1 .. Len(chan) - 1 /\ i + 1 \in 1 .. Len(chan)
      BY <2>2
    <3>2. \A i \in 1 .. Len(chan) : chan[i].to - chan[i].from <= SockCap
      BY <1>a DEF DownHeld
    <3> QED
      BY <2>2, <3>1, <3>2, Zenon
  <2>8. DownHeld'
    BY <1>a, <2>1, <2>6, <2>7 DEF DownHeld
  <2> QED
    BY <1>b, <1>e, <2>1, <2>8, Zenon DEF HeldInv
<1>10. CASE P2CRecvRefused
  <2>1. /\ phase = "running" /\ phase' = "running" /\ chan # <<>> /\ chan' = Tail(chan)
        /\ UNCHANGED <<up, sending, down, b2p, read, backend>>
    BY <1>10 DEF P2CRecvRefused, upVars, peerVars
  <2>2. /\ Len(chan) > 0 /\ Len(chan') = Len(chan) - 1
        /\ \A i \in 1 .. Len(chan) - 1 : chan'[i] = chan[i + 1]
    BY <2>1, Tailed
  <2>3. \A i \in 1 .. Len(chan') : chan'[i].to - chan'[i].from <= SockCap
    <3>1. \A i \in 1 .. Len(chan') : i \in 1 .. Len(chan) - 1 /\ i + 1 \in 1 .. Len(chan)
      BY <2>2
    <3>2. \A i \in 1 .. Len(chan) : chan[i].to - chan[i].from <= SockCap
      BY <1>a DEF DownHeld
    <3> QED
      BY <2>2, <3>1, <3>2, Zenon
  <2>4. DownHeld'
    BY <1>a, <2>1, <2>3 DEF DownHeld
  <2> QED
    BY <1>b, <1>e, <2>1, <2>4, Zenon DEF HeldInv
<1>11. CASE P2CFlush
  <2>1. PICK n \in 1 .. Len(down) :
          /\ phase = "running" /\ phase' = "running"
          /\ down' = SubSeq(down, n + 1, Len(down))
          /\ UNCHANGED <<up, sending, chan, b2p, read, backend>>
    BY <1>11 DEF P2CFlush, upVars, peerVars
  <2>2. Len(down') = Len(down) - n
    <3> DEFINE len == Len(down)
    <3>1. down \in Seq(Units) /\ n \in Nat /\ len \in Nat /\ n <= len /\ len <= Len(down)
      OBVIOUS
    <3> HIDE DEF len
    <3>2. Len(SubSeq(down, n + 1, len)) = len - n
      BY <3>1, SlicedWithin
    <3> QED
      BY <2>1, <3>2, Zenon DEF len
  <2>3. DownHeld'
    BY <1>a, <2>1, <2>2 DEF DownHeld
  <2> QED
    BY <1>b, <1>e, <2>1, <2>3, Zenon DEF HeldInv
<1>12. CASE P2CSendError
  <2>1. UNCHANGED <<phase, up, sending, down, b2p, read, chan, requests_by_xid, backend>>
    BY <1>12 DEF P2CSendError, upVars, peerVars
  <2> QED
    BY <1>b, <1>c, <1>d, <2>1, Zenon DEF HeldInv
<1> QED
  BY <1>1, <1>2, <1>3, <1>4, <1>5, <1>6, <1>7, <1>8, <1>9, <1>10, <1>11, <1>12
  DEF Next, Peers, Up, B2P, P2C

-----------------------------------------------------------------------------
(* What is remembered *)

\* A reply to request i can be matched
Remembered(i) ==
  LET header == Decoded[c2p[i]].header
  IN  header # <<>> /\ ValidOpCode(header[2]) =>
        /\ header[1] \in DOMAIN requests_by_xid
        /\ \E j \in i .. taken :
             /\ HasXid(j, header[1])
             /\ OpCodes[requests_by_xid[header[1]]] = Decoded[c2p[j]].header[2]

\* The map has only xids that the client has used
XidsAreTheClients == \A xid \in DOMAIN requests_by_xid : \E i \in 1 .. taken : HasXid(i, xid)

\* A request is remembered from when it enters the writer's buffer, not from when it is
\* written: only so is it remembered when the flush comes to it.
MapInv ==
  /\ XidsAreTheClients
  /\ phase = "running" => \A i \in 1 .. Len(p2b) + Len(up) : Remembered(i)

(* What Remember leaves in the map: a new or changed entry under the packet's xid, if it has
   one and a known opcode, and every other entry as it was. *)
LEMMA RememberFacts ==
  ASSUME NEW map, NEW p
  PROVE  /\ p.header # <<>> /\ ValidOpCode(p.header[2]) =>
              /\ DOMAIN Remember(map, p) = DOMAIN map \cup {p.header[1]}
              /\ OpCodes[Remember(map, p)[p.header[1]]] = p.header[2]
         /\ ~(p.header # <<>> /\ ValidOpCode(p.header[2])) => Remember(map, p) = map
         /\ \A xid \in DOMAIN map :
              \/ p.header # <<>> /\ ValidOpCode(p.header[2]) /\ xid = p.header[1]
              \/ Remember(map, p)[xid] = map[xid]
<1>1. CASE p.header # <<>> /\ ValidOpCode(p.header[2])
  <2> DEFINE xids == DOMAIN map \cup {p.header[1]}
             op == OpCodeOf(p.header[2])
             after == [xid \in xids |-> IF xid = p.header[1] THEN op ELSE map[xid]]
  <2>1. Remember(map, p) = after
    BY <1>1, Zenon DEF Remember
  <2>2. OpCodes[op] = p.header[2]
    BY <1>1, Zenon DEF ValidOpCode, OpCodeOf
  <2>3. /\ DOMAIN after = xids /\ after[p.header[1]] = op
        /\ \A xid \in DOMAIN map : xid = p.header[1] \/ after[xid] = map[xid]
    <3> HIDE DEF op
    <3> QED
      OBVIOUS
  <2> HIDE DEF op, after
  <2> QED
    BY <1>1, <2>1, <2>2, <2>3, Zenon
<1>2. CASE ~(p.header # <<>> /\ ValidOpCode(p.header[2]))
  <2>1. Remember(map, p) = map
    BY <1>2, Zenon DEF Remember
  <2> QED
    BY <1>2, <2>1, Zenon
<1> QED
  BY <1>1, <1>2, Zenon

(* The initial state. *)
LEMMA InitMap == Init => MapInv
<1> SUFFICES ASSUME Init PROVE MapInv
  OBVIOUS
<1>1. phase = "connecting" /\ DOMAIN requests_by_xid = {}
  BY EmptyFacts, Zenon DEF Init
<1>2. phase # "running"
  BY <1>1
<1> QED
  BY <1>1, <1>2, Zenon DEF MapInv, XidsAreTheClients

(* The map is left alone, and the client's requests keep their positions. *)
LEMMA MapKept ==
  ASSUME TypeOK, UpInv, MapInv, UNCHANGED requests_by_xid,
         taken' \in Nat, taken <= taken',
         phase' = "running" => phase = "running",
         Len(p2b') + Len(up') = Len(p2b) + Len(up),
         \A i \in 1 .. Len(c2p) : c2p'[i] = c2p[i]
  PROVE  MapInv'
<1> USE TypeFacts
<1>1. \A i \in 1 .. taken : i \in 1 .. taken' /\ i \in 1 .. Len(c2p)
  OBVIOUS
<1>2. \A i \in 1 .. taken : \A xid : HasXid(i, xid) => HasXid(i, xid)'
  <2> SUFFICES ASSUME NEW i \in 1 .. taken, NEW xid, HasXid(i, xid) PROVE HasXid(i, xid)'
    BY Zenon
  <2>1. c2p'[i] = c2p[i]
    BY <1>1, Zenon
  <2> QED
    BY <2>1, Zenon DEF HasXid
<1>3. XidsAreTheClients'
  BY <1>1, <1>2, Zenon DEF MapInv, XidsAreTheClients
<1>4. ASSUME phase' = "running", NEW i \in 1 .. Len(p2b') + Len(up')
      PROVE  Remembered(i)'
  <2>1. i \in 1 .. Len(p2b) + Len(up) /\ Remembered(i)
    BY <1>4 DEF MapInv
  <2>2. i \in 1 .. Len(c2p) /\ i \in 1 .. taken
    BY <1>4, <2>1 DEF UpInv, NothingLostUpstream
  <2>3. c2p'[i] = c2p[i]
    BY <2>2
  <2>4. \A j \in i .. taken : j \in i .. taken' /\ j \in 1 .. taken /\ j \in 1 .. Len(c2p)
    BY <2>2
  <2>5. \A j \in i .. taken : c2p'[j] = c2p[j]
    BY <2>4, Zenon
  <2> QED
    BY <1>2, <2>1, <2>3, <2>4, <2>5, Zenon DEF Remembered
<1> QED
  BY <1>3, <1>4, Zenon DEF MapInv

(* A packet is remembered in the step that puts it into the writer's buffer. *)
LEMMA MapRemembers ==
  ASSUME TypeOK, UpInv, MapInv, UpSend
  PROVE  MapInv'
<1> USE TypeFacts
<1> DEFINE n == taken + 1
           p == Decoded[NextFrame]
           known == p.header # <<>> /\ ValidOpCode(p.header[2])
<1>1. /\ phase = "running" /\ taken < Len(c2p) /\ Len(up) < HighWater /\ taken' = n
      /\ Accepted(NextFrame) /\ up' = Append(up, Forward(NextFrame))
      /\ requests_by_xid' = Remember(requests_by_xid, p)
      /\ UNCHANGED <<p2b, c2p>>
  BY DEF UpSend, UpReads, peerVars
<1>2. Len(up') = Len(up) + 1
  BY <1>1, NextFrameType, Appended
<1>3. Len(p2b) + Len(up) = taken
  BY <1>1, ProxyAssumption DEF UpInv, MissingOnlyBehindFullBuffer
<1>4. n \in Nat /\ n = taken + 1 /\ p = Decoded[c2p[n]]
  BY DEF NextFrame
<1>5. \A i \in 1 .. taken : i \in 1 .. n
  BY <1>4
<1>6. n \in 1 .. n
  BY <1>4
<1> HIDE DEF n, p
<1>7. /\ known => /\ DOMAIN requests_by_xid' = DOMAIN requests_by_xid \cup {p.header[1]}
                  /\ OpCodes[requests_by_xid'[p.header[1]]] = p.header[2]
      /\ ~known => requests_by_xid' = requests_by_xid
      /\ \A xid \in DOMAIN requests_by_xid :
           (known /\ xid = p.header[1]) \/ requests_by_xid'[xid] = requests_by_xid[xid]
  BY <1>1, RememberFacts, Zenon
<1>8. known => HasXid(n, p.header[1])
  BY <1>4, Zenon DEF HasXid
<1>9. \A i, xid : HasXid(i, xid)' <=> HasXid(i, xid)
  BY <1>1, Zenon DEF HasXid
<1>10. XidsAreTheClients'
  <2> SUFFICES ASSUME NEW xid \in DOMAIN requests_by_xid'
               PROVE  \E i \in 1 .. n : HasXid(i, xid)
    BY <1>1, <1>9, Zenon DEF XidsAreTheClients
  <2>1. CASE xid \in DOMAIN requests_by_xid
    BY <1>5, <2>1, Zenon DEF MapInv, XidsAreTheClients
  <2>2. CASE known /\ xid = p.header[1]
    BY <1>6, <1>8, <2>2, Zenon
  <2> QED
    BY <1>7, <2>1, <2>2, Zenon
<1>11. ASSUME NEW i \in 1 .. n
       PROVE  Remembered(i)'
  <2> DEFINE h == Decoded[c2p[i]].header
  <2> SUFFICES ASSUME h # <<>>, ValidOpCode(h[2])
               PROVE  /\ h[1] \in DOMAIN requests_by_xid'
                      /\ \E j \in i .. n :
                           /\ HasXid(j, h[1])
                           /\ OpCodes[requests_by_xid'[h[1]]] = Decoded[c2p[j]].header[2]
    BY <1>1, <1>9, Zenon DEF Remembered
  <2>1. n \in i .. n
    BY <1>4
  <2>2. CASE known /\ h[1] = p.header[1]
    <3>1. h[1] \in DOMAIN requests_by_xid'
      BY <1>7, <2>2, Zenon
    <3>2. HasXid(n, h[1])
      BY <1>8, <2>2, Zenon
    <3>3. OpCodes[requests_by_xid'[h[1]]] = Decoded[c2p[n]].header[2]
      BY <1>4, <1>7, <2>2, Zenon
    <3> QED
      BY <2>1, <3>1, <3>2, <3>3, Zenon
  <2>3. CASE ~(known /\ h[1] = p.header[1])
    <3>1. i # n
      BY <1>4, <2>3, Zenon
    <3>2. i \in 1 .. taken /\ i \in 1 .. Len(p2b) + Len(up)
      BY <1>3, <1>4, <3>1
    <3>3. Remembered(i)
      BY <1>1, <3>2, Zenon DEF MapInv
    <3>4. /\ h[1] \in DOMAIN requests_by_xid
          /\ \E j \in i .. taken :
               /\ HasXid(j, h[1])
               /\ OpCodes[requests_by_xid[h[1]]] = Decoded[c2p[j]].header[2]
      BY <3>3, Zenon DEF Remembered
    <3>5. /\ h[1] \in DOMAIN requests_by_xid'
          /\ requests_by_xid'[h[1]] = requests_by_xid[h[1]]
      BY <1>7, <2>3, <3>4, Zenon
    <3>6. \A j \in i .. taken : j \in i .. n
      BY <1>4, <3>2
    <3> QED
      BY <3>4, <3>5, <3>6, Zenon
  <2> QED
    BY <2>2, <2>3, Zenon
<1>12. Len(p2b') + Len(up') = n
  BY <1>1, <1>2, <1>3, <1>4
<1> QED
  BY <1>10, <1>11, <1>12, Zenon DEF MapInv

(* Every step keeps what a reply will be read by. *)
LEMMA StepMap == TypeInv /\ UpInv /\ MapInv /\ [Next]_vars => MapInv'
<1> SUFFICES ASSUME TypeInv, UpInv, MapInv, [Next]_vars PROVE MapInv'
  OBVIOUS
<1>0. TypeOK
  BY DEF TypeInv
<1> USE TypeFacts, <1>0
<1>1. CASE \/ UNCHANGED vars \/ ClientShut \/ ClientReset \/ ClientRead
           \/ (\E u \in Units : BackendServe(u) \/ BackendEvent(u))
           \/ BackendShut \/ BackendReset \/ UpSendError
           \/ DownRead \/ P2CRecv \/ P2CRecvRefused \/ P2CFlush \/ P2CSendError
  <2>1. UNCHANGED <<phase, taken, up, p2b, requests_by_xid, c2p>>
    BY <1>1
    DEF vars, upVars, peerVars, ClientShut, ClientReset, ClientRead, BackendServe,
        BackendEvent, BackendShut, BackendReset, UpSendError, DownRead, P2CRecv,
        P2CRecvRefused, P2CFlush, P2CSendError
  <2>2. taken' \in Nat /\ taken <= taken'
    BY <2>1
  <2> QED
    BY <2>1, <2>2, MapKept, Zenon
<1>2. ASSUME NEW f \in ClientFrames, ClientSend(f)
      PROVE  MapInv'
  <2>1. c2p' = Append(c2p, f) /\ UNCHANGED <<phase, taken, up, p2b, requests_by_xid>>
    BY <1>2 DEF ClientSend, upVars
  <2>2. \A i \in 1 .. Len(c2p) : c2p'[i] = c2p[i]
    BY <2>1, Appended
  <2>3. taken' \in Nat /\ taken <= taken'
    BY <2>1
  <2> QED
    BY <2>1, <2>2, <2>3, MapKept, Zenon
<1>3. CASE Connect \/ ConnectFail
  <2>1. phase = "connecting" /\ UNCHANGED <<taken, up, p2b, requests_by_xid, c2p>>
    BY <1>3 DEF Connect, ConnectFail, upVars, peerVars
  <2>2. p2b = <<>> /\ up = <<>> /\ Len(p2b) = 0 /\ Len(up) = 0
    BY <2>1, EmptyFacts DEF UpInv
  <2>3. Len(p2b') + Len(up') = 0
    BY <2>1, <2>2
  <2>4. XidsAreTheClients'
    BY <2>1, Zenon DEF MapInv, XidsAreTheClients, HasXid
  <2> QED
    BY <2>3, <2>4 DEF MapInv
<1>4. CASE UpReject \/ UpEnd \/ DownEnd
  <2>1. phase' = "done" /\ DOMAIN requests_by_xid' = {}
    BY <1>4, EmptyFacts DEF UpReject, UpEnd, DownEnd, Teardown
  <2>2. phase' # "running"
    BY <2>1
  <2> QED
    BY <2>1, <2>2, Zenon DEF MapInv, XidsAreTheClients
<1>5. CASE UpSend
  BY <1>5, MapRemembers
<1>6. CASE UpSendRefused
  <2>1. /\ taken' = taken + 1 /\ phase' = phase /\ up' = up /\ p2b' = p2b /\ c2p' = c2p
        /\ UNCHANGED requests_by_xid
    BY <1>6 DEF UpSendRefused, peerVars
  <2>2. taken' \in Nat /\ taken <= taken'
    BY <2>1
  <2> QED
    BY <2>1, <2>2, MapKept, Zenon
<1>7. CASE UpFlush
  <2>1. /\ up # <<>> /\ p2b' = Append(p2b, Head(up)) /\ up' = Tail(up)
        /\ UNCHANGED <<phase, taken, requests_by_xid, c2p>>
    BY <1>7 DEF UpFlush, peerVars
  <2>2. Len(up') = Len(up) - 1 /\ Head(up) \in ForwardedFrames
    BY <2>1, Tailed
  <2>3. Len(p2b') = Len(p2b) + 1
    BY <2>1, <2>2, Appended
  <2>4. Len(p2b') + Len(up') = Len(p2b) + Len(up)
    BY <2>2, <2>3
  <2>5. taken' \in Nat /\ taken <= taken'
    BY <2>1
  <2> QED
    BY <2>1, <2>4, <2>5, MapKept, Zenon
<1> QED
  BY <1>1, <1>2, <1>3, <1>4, <1>5, <1>6, <1>7 DEF Next, Peers, Up, B2P, P2C

-----------------------------------------------------------------------------
(* The theorems about the pipes *)

(* The invariant behind them: the types, and what each direction keeps. *)
LEMMA AlwaysInv == Spec => [](TypeInv /\ UpInv /\ DownInv)
<1>1. Init => TypeInv /\ UpInv /\ DownInv
  BY InitType, InitUp, InitDown
<1>2. TypeInv /\ UpInv /\ DownInv /\ [Next]_vars => (TypeInv /\ UpInv /\ DownInv)'
  BY StepType, StepUp, StepDown DEF TypeInv
<1> QED
  BY <1>1, <1>2, PTL DEF Spec

(* Every variable of handle_conn keeps its type; no reader is ahead of its writer. *)
THEOREM ProxyTypes == Spec => []TypeOK
<1>1. TypeInv /\ UpInv /\ DownInv => TypeOK
  BY DEF TypeInv
<1> QED
  BY <1>1, AlwaysInv, PTL

(* UpStreamConnection::pipe drops the errors of send(), and still the backend never sees a
   gap, a reordering or anything behind a refused request. *)
THEOREM RequestsInOrder == Spec => []UpstreamInOrder
<1>1. TypeInv /\ UpInv /\ DownInv => UpstreamInOrder
  BY DEF UpInv
<1> QED
  BY <1>1, AlwaysInv, PTL

(* Until the backend resets, what the upstream pipe has taken it has written or still holds. *)
THEOREM RequestsKept == Spec => []NothingLostUpstream
<1>1. TypeInv /\ UpInv /\ DownInv => NothingLostUpstream
  BY DEF UpInv
<1> QED
  BY <1>1, AlwaysInv, PTL

(* The two downstream pipes and the channel between them deliver a prefix of the backend's
   bytes, however reads and writes cut them. *)
THEOREM RepliesInOrder == Spec => []DownstreamInOrder
<1>1. TypeInv /\ UpInv /\ DownInv => DownstreamInOrder
  BY DEF DownInv
<1> QED
  BY <1>1, AlwaysInv, PTL

(* Until the client resets, what was read from the backend is written or queued. *)
THEOREM RepliesKept == Spec => []NothingLostDownstream
<1>1. TypeInv /\ UpInv /\ DownInv => NothingLostDownstream
  BY DEF DownInv
<1> QED
  BY <1>1, AlwaysInv, PTL

(* encode() puts the xid into requests_by_xid in the step that puts the packet into the
   writer's buffer, and nothing but a later request under the same xid changes the entry:
   whenever the backend can answer a request, the reply can be matched. *)
THEOREM RequestsRemembered == Spec => []RememberedWhenForwarded
<1>1. Init => MapInv
  BY InitMap
<1>2. TypeInv /\ UpInv /\ DownInv /\ MapInv /\ [Next]_vars => MapInv'
  BY StepMap
<1>3. TypeInv /\ UpInv /\ DownInv /\ MapInv => RememberedWhenForwarded
  <2> SUFFICES ASSUME TypeInv, MapInv, phase = "running", NEW i \in 1 .. Len(p2b)
               PROVE  Remembered(i)
    BY Zenon DEF RememberedWhenForwarded, Remembered
  <2>1. i \in 1 .. Len(p2b) + Len(up)
    BY TypeFacts DEF TypeInv
  <2> QED
    BY <2>1, Zenon DEF MapInv
<1> QED
  BY <1>1, <1>2, <1>3, AlwaysInv, PTL DEF Spec

(* However long a connection lives and however its writes fail, handle_conn's buffers stay
   within the high-water marks, the map has no xid but the client's, and a connection that
   has ended holds nothing. *)
THEOREM LittleHeld == Spec => []LittleIsHeld
<1>1. Init => HeldInv /\ MapInv
  BY InitHeld, InitMap
<1>2. TypeInv /\ UpInv /\ DownInv /\ HeldInv /\ MapInv /\ [Next]_vars => (HeldInv /\ MapInv)'
  BY StepHeld, StepMap
<1>3. HeldInv /\ MapInv => LittleIsHeld
  <2> SUFFICES ASSUME HeldInv, MapInv PROVE LittleIsHeld
    OBVIOUS
  <2>1. phase = "done" => phase # "running"
    OBVIOUS
  <2>2. phase = "done" => up = <<>> /\ down = <<>> /\ chan = <<>> /\ requests_by_xid = <<>>
    BY <2>1, Zenon DEF HeldInv, HeldWhileRunning
  <2> QED
    BY <2>2, Zenon
    DEF LittleIsHeld, HeldInv, UpHeld, DownHeld, MapInv, XidsAreTheClients
<1> QED
  BY <1>1, <1>2, <1>3, AlwaysInv, PTL DEF Spec

-----------------------------------------------------------------------------
(* ProxyConn implements Relay: the initial states map to initial states, and every step to
   a step of Relay or to a stutter. *)

\* What a step must be, seen through the refinement mapping
RelayStep == R!Next \/ UNCHANGED R!vars

(* The initial states. *)
LEMMA InitRelay == Init => R!Init
  BY DEF Init, R!Init

(* A step that changes none of the four histories and not the phase is a stutter. *)
LEMMA Stutters ==
  ASSUME UNCHANGED <<phase, c2p, p2b, b2p, p2c>>
  PROVE  RelayStep
  BY DEF RelayStep, R!vars

(* The end of the connection. *)
LEMMA Closes ==
  ASSUME TypeOK, phase # "done", phase' = "done", UNCHANGED <<c2p, p2b, b2p, p2c>>
  PROVE  RelayStep
<1>1. phase \in {"connecting", "running"}
  BY DEF TypeOK
<1>2. R!Close
  BY <1>1 DEF R!Close
<1> QED
  BY <1>2 DEF RelayStep, R!Next

(* A flush upstream passes the next request: every frame before it was accepted. *)
LEMMA FlushPasses ==
  ASSUME TypeOK, UpInv, UpFlush
  PROVE  RelayStep
<1> USE TypeFacts
<1>1. /\ phase = "running" /\ up # <<>> /\ p2b' = Append(p2b, Head(up))
      /\ UNCHANGED <<phase, c2p, b2p, p2c>>
  BY DEF UpFlush, downVars, peerVars
<1>2. Len(up) > 0 /\ Head(up) = up[1]
  BY <1>1, Tailed
<1>3. Len(p2b) < Len(c2p)
  BY <1>1, <1>2 DEF UpInv, NothingLostUpstream
<1>4. Accepted(c2p[Len(p2b) + 1]) /\ up[1] = Forward(c2p[Len(p2b) + 1])
  BY <1>1, <1>2 DEF UpInv, NothingLostUpstream
<1>5. ASSUME NEW i \in 1 .. Len(p2b) + 1
      PROVE  Accepted(c2p[i])
  <2>1. CASE i = Len(p2b) + 1
    BY <1>4, <2>1
  <2>2. CASE i # Len(p2b) + 1
    BY <2>2 DEF UpInv, UpstreamInOrder
  <2> QED
    BY <2>1, <2>2
<1>6. p2b' = Append(p2b, Forward(c2p[Len(p2b) + 1]))
  BY <1>1, <1>2, <1>4
<1>7. R!Pass
  BY <1>1, <1>3, <1>5, <1>6 DEF R!Pass
<1> QED
  BY <1>7 DEF RelayStep, R!Next

(* A flush downstream delivers the next bytes. *)
LEMMA FlushDelivers ==
  ASSUME TypeInv, DownInv, P2CFlush
  PROVE  RelayStep
<1>0. TypeOK
  BY DEF TypeInv
<1> USE TypeFacts, <1>0
<1>1. PICK n \in 1 .. Len(down) :
        /\ phase = "running" /\ client # "reset"
        /\ p2c' = p2c \o SubSeq(down, 1, n)
        /\ UNCHANGED <<phase, c2p, p2b, b2p>>
  BY DEF P2CFlush, upVars, peerVars
<1>2. /\ SubSeq(down, 1, n) = SubSeq(b2p, Len(p2c) + 1, Len(p2c) + n)
      /\ Len(p2c) + n <= read
  BY <1>1, FlushedBytes
<1>3. Len(p2c) + n \in Len(p2c) + 1 .. Len(b2p)
  BY <1>2
<1>4. R!Deliver(Len(p2c) + n)
  BY <1>1, <1>2 DEF R!Deliver
<1> QED
  BY <1>3, <1>4 DEF RelayStep, R!Next

(* Every step is a step of Relay or leaves it as it is. *)
LEMMA StepRelay == TypeInv /\ UpInv /\ DownInv /\ [Next]_vars => RelayStep
<1> SUFFICES ASSUME TypeInv, UpInv, DownInv, [Next]_vars PROVE RelayStep
  OBVIOUS
<1>0. TypeOK
  BY DEF TypeInv
<1>1. CASE UNCHANGED vars
  BY <1>1, Stutters DEF vars, upVars, downVars, peerVars
<1>2. ASSUME NEW f \in ClientFrames, ClientSend(f)
      PROVE  RelayStep
  <2>1. R!Send(f)
    BY <1>2 DEF ClientSend, R!Send, upVars, downVars
  <2> QED
    BY <2>1 DEF RelayStep, R!Next
<1>3. CASE ClientShut \/ ClientReset \/ ClientRead \/ BackendShut \/ BackendReset
  BY <1>3, Stutters
  DEF ClientShut, ClientReset, ClientRead, BackendShut, BackendReset, upVars, downVars
<1>4. ASSUME NEW u \in Units, BackendServe(u) \/ BackendEvent(u)
      PROVE  RelayStep
  <2>1. /\ phase = "running" /\ UNCHANGED <<phase, c2p, p2b, p2c>>
        /\ b2p' = b2p \/ b2p' = Append(b2p, u)
    BY <1>4 DEF BackendServe, BackendEvent, BackendCanSend, upVars, downVars
  <2>2. CASE b2p' = b2p
    BY <2>1, <2>2, Stutters
  <2>3. CASE b2p' = Append(b2p, u)
    <3>1. R!Reply(u)
      BY <2>1, <2>3 DEF R!Reply
    <3> QED
      BY <3>1 DEF RelayStep, R!Next
  <2> QED
    BY <2>1, <2>2, <2>3
<1>5. CASE Connect
  <2>1. R!Open
    BY <1>5 DEF Connect, R!Open, upVars, downVars, peerVars
  <2> QED
    BY <2>1 DEF RelayStep, R!Next
<1>6. CASE ConnectFail
  BY <1>0, <1>6, Closes DEF ConnectFail, upVars, downVars, peerVars
<1>7. CASE UpSend \/ UpSendRefused \/ UpSendError
  BY <1>7, Stutters DEF UpSend, UpSendRefused, UpSendError, downVars, peerVars
<1>8. CASE UpReject \/ UpEnd \/ DownEnd
  BY <1>0, <1>8, Closes DEF UpReject, UpReads, UpEnd, DownEnd, Teardown, peerVars
<1>9. CASE UpFlush
  BY <1>0, <1>9, FlushPasses
<1>10. CASE DownRead \/ P2CRecv \/ P2CRecvRefused \/ P2CSendError
  BY <1>10, Stutters
  DEF DownRead, P2CRecv, P2CRecvRefused, P2CSendError, upVars, peerVars
<1>11. CASE P2CFlush
  BY <1>11, FlushDelivers
<1> QED
  BY <1>1, <1>2, <1>3, <1>4, <1>5, <1>6, <1>7, <1>8, <1>9, <1>10, <1>11
  DEF Next, Peers, Up, B2P, P2C

(* handle_conn's three pipes, with their buffers, the unbounded channel and the errors they
   drop, behave as Relay says: in order, without gaps, nothing after the end. *)
THEOREM ConnImplementsRelay == Spec => ImplementsRelay
<1>1. TypeInv /\ UpInv /\ DownInv /\ [Next]_vars => [R!Next]_(R!vars)
  BY StepRelay DEF RelayStep
<1> QED
  BY <1>1, InitRelay, AlwaysInv, PTL DEF Spec, ImplementsRelay, R!Spec

=============================================================================

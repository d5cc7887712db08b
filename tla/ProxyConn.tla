------------------------------ MODULE ProxyConn ------------------------------
(***************************************************************************)
(* One client's connection through the proxy: ZkServer::handle_conn of     *)
(* src/src/server.rs and its three pipes, which tokio::select! polls in    *)
(* turn and whose first end is the end of all:                             *)
(*                                                                         *)
(*   client --c2p--> [UpStream: decode, encode, send] --p2b--> backend     *)
(*   client <--p2c-- [P2C: recv, send] <--chan-- [B2P: next] <--b2p--      *)
(*                                                                         *)
(* A socket is the sequence of everything ever written to it and a count   *)
(* of what its reader has taken; the data in between is in kernel and      *)
(* FramedRead buffers, of SockCap items. Requests are whole frames (see    *)
(* LengthCodec for how they are cut out of the bytes); the other direction *)
(* is bytes, in chunks of any size.                                        *)
(***************************************************************************)
EXTENDS RequestCodec

CONSTANTS
  ClientFrames,     \* the frames the client may send
  Units,            \* the bytes the backend may send
  MaxRequests,      \* bound: frames the client sends
  MaxReplies,       \* bound: bytes the backend sends
  SockCap,          \* items a socket holds before a write to it blocks
  HighWater         \* items at which a FramedWrite flushes before it accepts more

ASSUME ProxyAssumption ==
  /\ MaxRequests \in Nat /\ MaxReplies \in Nat
  /\ SockCap \in Nat \ {0} /\ HighWater \in Nat \ {0}

\* What decode() returns for each frame, and what encode() writes for the accepted ones
Decoded == [f \in ClientFrames |-> decode(f)]
Accepted(f) == Decoded[f].st = "ok"
AcceptedFrames == {f \in ClientFrames : Accepted(f)}
Encoded == [f \in AcceptedFrames |-> encode(Decoded[f])]
Forward(f) == Encoded[f]
ForwardedFrames == {Forward(f) : f \in AcceptedFrames}
Xids == {Decoded[f].header[1] : f \in {g \in ClientFrames : Decoded[g].header # <<>>}}

VARIABLES
  phase,            \* handle_conn: "connecting", "running" or "done"
  client, backend,  \* the peers: "open", "shut" (sends no more) or "reset"
  c2p, taken,       \* frames the client sent; how many decode() has returned
  up, sending,      \* p2b_framed's buffer; UpStream is in send().await
  p2b, served,      \* frames written to the backend; how many it has read
  requests_by_xid,
  b2p, read,        \* bytes the backend sent; how many B2P has read
  chan,             \* the unbounded channel: slices of b2p, [from, to]
  down, writing,    \* P2C writer's buffer; P2C is in send().await
  p2c, cRead        \* bytes written to the client; how many it has read

upVars == <<taken, up, sending, p2b, requests_by_xid>>
downVars == <<read, chan, down, writing, p2c>>
peerVars == <<client, backend, c2p, served, b2p, cRead>>
vars == <<phase, upVars, downVars, peerVars>>

Init ==
  /\ phase = "connecting"
  /\ client = "open" /\ backend = "open"
  /\ c2p = <<>> /\ taken = 0
  /\ up = <<>> /\ sending = FALSE
  /\ p2b = <<>> /\ served = 0
  /\ requests_by_xid = <<>>
  /\ b2p = <<>> /\ read = 0
  /\ chan = <<>>
  /\ down = <<>> /\ writing = FALSE
  /\ p2c = <<>> /\ cRead = 0

-----------------------------------------------------------------------------
(* The peers and the network *)

ClientSend(f) ==
  /\ client = "open" /\ phase # "done"
  /\ Len(c2p) < MaxRequests /\ Len(c2p) - taken < SockCap
  /\ c2p' = Append(c2p, f)
  /\ UNCHANGED <<phase, upVars, downVars, client, backend, served, b2p, cRead>>

\* The client closes, or only stops sending: either way the proxy's reads end
ClientShut ==
  /\ client = "open" /\ phase # "done"
  /\ client' = "shut"
  /\ UNCHANGED <<phase, upVars, downVars, backend, c2p, served, b2p, cRead>>

ClientReset ==
  /\ client # "reset" /\ phase # "done"
  /\ client' = "reset"
  /\ UNCHANGED <<phase, upVars, downVars, backend, c2p, served, b2p, cRead>>

ClientRead ==
  /\ cRead < Len(p2c)
  /\ cRead' = cRead + 1
  /\ UNCHANGED <<phase, upVars, downVars, client, backend, c2p, served, b2p>>

BackendCanSend ==
  /\ backend = "open" /\ phase = "running"
  /\ Len(b2p) - read < SockCap

\* The backend answers a request
BackendServe(u) ==
  /\ BackendCanSend
  /\ served < Len(p2b)
  /\ served' = served + 1
  /\ b2p' = IF Len(b2p) < MaxReplies THEN Append(b2p, u) ELSE b2p
  /\ UNCHANGED <<phase, upVars, downVars, client, backend, c2p, cRead>>

\* The backend sends what nobody asked for: a watch event, the rest of a long reply
BackendEvent(u) ==
  /\ BackendCanSend
  /\ Len(b2p) < MaxReplies
  /\ b2p' = Append(b2p, u)
  /\ UNCHANGED <<phase, upVars, downVars, client, backend, c2p, served, cRead>>

BackendShut ==
  /\ backend = "open" /\ phase = "running"
  /\ backend' = "shut"
  /\ UNCHANGED <<phase, upVars, downVars, client, c2p, served, b2p, cRead>>

BackendReset ==
  /\ backend # "reset" /\ phase = "running"
  /\ backend' = "reset"
  /\ UNCHANGED <<phase, upVars, downVars, client, c2p, served, b2p, cRead>>

-----------------------------------------------------------------------------
(* handle_conn *)

\* TcpStream::connect(...).await succeeds, and the pipes start
Connect ==
  /\ phase = "connecting"
  /\ phase' = "running"
  /\ UNCHANGED <<upVars, downVars, peerVars>>

\* It fails: unwrap() panics and the connection's task ends
ConnectFail ==
  /\ phase = "connecting"
  /\ phase' = "done"
  /\ UNCHANGED <<upVars, downVars, peerVars>>

\* select! has a finished arm, or an arm has panicked: all three pipes are dropped, with
\* their buffers, the channel and the map, and both sockets are closed.
Teardown ==
  /\ phase' = "done"
  /\ up' = <<>> /\ sending' = FALSE
  /\ requests_by_xid' = <<>>
  /\ chan' = <<>>
  /\ down' = <<>> /\ writing' = FALSE
  /\ UNCHANGED <<p2b, read, p2c, peerVars>>

-----------------------------------------------------------------------------
(* UpStreamConnection::pipe *)

\* c2p_framed.next() has a whole frame to decode
UpReads == phase = "running" /\ ~sending /\ taken < Len(c2p)
NextFrame == c2p[taken + 1]

\* Faulty form: feed() for send(), which neither flushes nor waits
UpSend_Feed ==
  /\ UpReads /\ Accepted(NextFrame)
  /\ taken' = taken + 1
  /\ requests_by_xid' = Remember(requests_by_xid, Decoded[NextFrame])
  /\ up' = Append(up, Forward(NextFrame))
  /\ sending' = FALSE
  /\ UNCHANGED <<phase, p2b, downVars, peerVars>>

\* next() returns a packet and send() encodes it, without an await in between: the map
\* has its xid before a byte of it is written.
UpSend ==
  /\ UpReads /\ Accepted(NextFrame)
  /\ Len(up) < HighWater
  /\ taken' = taken + 1
  /\ requests_by_xid' = Remember(requests_by_xid, Decoded[NextFrame])
  /\ up' = Append(up, Forward(NextFrame))
  /\ sending' = TRUE
  /\ UNCHANGED <<phase, p2b, downVars, peerVars>>

\* send() finds its buffer at the high-water mark, fails to flush it, and returns the error
\* before it has encoded the packet: `let _ =` drops both.
UpSendRefused ==
  /\ UpReads /\ Accepted(NextFrame)
  /\ Len(up) >= HighWater /\ backend = "reset"
  /\ taken' = taken + 1
  /\ UNCHANGED <<phase, up, sending, p2b, requests_by_xid, downVars, peerVars>>

\* Faulty form: the loop goes on after a frame it cannot decode
UpReject_Skips ==
  /\ UpReads /\ ~Accepted(NextFrame)
  /\ taken' = taken + 1
  /\ UNCHANGED <<phase, up, sending, p2b, requests_by_xid, downVars, peerVars>>

\* next() returns an Err, or decode() panics. Where decode() aborts the process, its sockets
\* are closed too: from inside the connection that is the same end.
UpReject ==
  /\ UpReads /\ ~Accepted(NextFrame)
  /\ taken' = taken + 1
  /\ Teardown

\* poll_flush writes the next frame of the buffer; the send ends with the last one
UpFlush ==
  /\ phase = "running" /\ sending /\ backend # "reset"
  /\ up # <<>>
  /\ Len(p2b) - served < SockCap
  /\ p2b' = Append(p2b, Head(up))
  /\ up' = Tail(up)
  /\ sending' = (Tail(up) # <<>>)
  /\ UNCHANGED <<phase, taken, requests_by_xid, downVars, peerVars>>

\* The write fails. The error is dropped, the buffer keeps the frames, the loop goes on.
UpSendError ==
  /\ phase = "running" /\ sending /\ backend = "reset"
  /\ sending' = FALSE
  /\ UNCHANGED <<phase, taken, up, p2b, requests_by_xid, downVars, peerVars>>

\* Faulty form: the connection is kept until the client has been sent what is queued
UpEnd_Drains ==
  /\ phase = "running" /\ ~sending
  /\ client = "reset" \/ (client = "shut" /\ taken = Len(c2p))
  /\ chan = <<>> /\ down = <<>> /\ read = Len(b2p)
  /\ Teardown
  /\ UNCHANGED taken

\* next() returns None at the client's end of file, or an Err
UpEnd ==
  /\ phase = "running" /\ ~sending
  /\ client = "reset" \/ (client = "shut" /\ taken = Len(c2p))
  /\ Teardown
  /\ UNCHANGED taken

Up == UpSend \/ UpSendRefused \/ UpReject \/ UpFlush \/ UpSendError \/ UpEnd

-----------------------------------------------------------------------------
(* B2PDownStreamConnection::pipe *)

\* Faulty form: one loop that reads and writes, and reads no more before it has written
DownRead_OneLoop ==
  \E to \in read + 1 .. Len(b2p) :
    /\ phase = "running" /\ ~writing /\ chan = <<>>
    /\ chan' = Append(chan, [from |-> read, to |-> to])
    /\ read' = to
    /\ UNCHANGED <<phase, upVars, down, writing, p2c, peerVars>>

\* next() returns the bytes that have arrived, and they go into the channel, which has room
DownRead ==
  \E to \in read + 1 .. Len(b2p) :
    /\ phase = "running"
    /\ chan' = Append(chan, [from |-> read, to |-> to])
    /\ read' = to
    /\ UNCHANGED <<phase, upVars, down, writing, p2c, peerVars>>

\* next() returns None at the backend's end of file, or an Err
DownEnd ==
  /\ phase = "running"
  /\ backend = "reset" \/ (backend = "shut" /\ read = Len(b2p))
  /\ Teardown
  /\ UNCHANGED taken

B2P == DownRead \/ DownEnd

-----------------------------------------------------------------------------
(* P2CDownStreamConnection::pipe. rx.recv() never returns None: handle_conn keeps `tx`, so  *)
(* this arm of the select! never finishes.                                                  *)

Slice(c) == SubSeq(b2p, c.from + 1, c.to)

\* Faulty form: the channel is read from the wrong end
P2CRecv_Lifo ==
  /\ phase = "running" /\ ~writing /\ chan # <<>>
  /\ Len(down) < HighWater
  /\ down' = down \o Slice(chan[Len(chan)])
  /\ chan' = SubSeq(chan, 1, Len(chan) - 1)
  /\ writing' = TRUE
  /\ UNCHANGED <<phase, upVars, read, p2c, peerVars>>

\* Faulty form: feed() for send(), which neither flushes nor waits
P2CRecv_Feed ==
  /\ phase = "running" /\ ~writing /\ chan # <<>>
  /\ down' = down \o Slice(Head(chan))
  /\ chan' = Tail(chan)
  /\ UNCHANGED <<phase, upVars, read, writing, p2c, peerVars>>

\* recv() returns a chunk and send() puts it into the writer's buffer
P2CRecv ==
  /\ phase = "running" /\ ~writing /\ chan # <<>>
  /\ Len(down) < HighWater
  /\ down' = down \o Slice(Head(chan))
  /\ chan' = Tail(chan)
  /\ writing' = TRUE
  /\ UNCHANGED <<phase, upVars, read, p2c, peerVars>>

\* send() fails to flush a buffer at its high-water mark and drops the chunk
P2CRecvRefused ==
  /\ phase = "running" /\ ~writing /\ chan # <<>>
  /\ Len(down) >= HighWater /\ client = "reset"
  /\ chan' = Tail(chan)
  /\ UNCHANGED <<phase, upVars, read, down, writing, p2c, peerVars>>

\* Faulty form: one write per send, however little of the buffer it took
P2CFlush_Once ==
  \E n \in 1 .. Len(down) :
    /\ phase = "running" /\ writing /\ client # "reset"
    /\ Len(p2c) + n - cRead <= SockCap
    /\ p2c' = p2c \o SubSeq(down, 1, n)
    /\ down' = SubSeq(down, n + 1, Len(down))
    /\ writing' = FALSE
    /\ UNCHANGED <<phase, upVars, read, chan, peerVars>>

\* poll_flush writes as much of the buffer as the client's socket takes
P2CFlush ==
  \E n \in 1 .. Len(down) :
    /\ phase = "running" /\ writing /\ client # "reset"
    /\ Len(p2c) + n - cRead <= SockCap
    /\ p2c' = p2c \o SubSeq(down, 1, n)
    /\ down' = SubSeq(down, n + 1, Len(down))
    /\ writing' = (n < Len(down))
    /\ UNCHANGED <<phase, upVars, read, chan, peerVars>>

\* The write fails; the error is dropped and the loop goes on
P2CSendError ==
  /\ phase = "running" /\ writing /\ client = "reset"
  /\ writing' = FALSE
  /\ UNCHANGED <<phase, upVars, read, chan, down, p2c, peerVars>>

P2C == P2CRecv \/ P2CRecvRefused \/ P2CFlush \/ P2CSendError

-----------------------------------------------------------------------------
Peers ==
  \/ \E f \in ClientFrames : ClientSend(f)
  \/ ClientShut \/ ClientReset \/ ClientRead
  \/ \E u \in Units : BackendServe(u) \/ BackendEvent(u)
  \/ BackendShut \/ BackendReset

Next == Peers \/ Connect \/ ConnectFail \/ Up \/ B2P \/ P2C

Spec == Init /\ [][Next]_vars

\* select! polls every pipe whenever the task runs, and connect() returns. Nothing is
\* assumed of the client; the backend goes on reading requests.
ProxyFairness ==
  /\ WF_vars(Connect \/ ConnectFail)
  /\ WF_vars(Up) /\ WF_vars(B2P) /\ WF_vars(P2C)
BackendFairness == WF_vars(\E u \in Units : BackendServe(u))
FairSpec == Spec /\ ProxyFairness /\ BackendFairness

\* A client that reads what it is sent
ClientReads == WF_vars(ClientRead)

-----------------------------------------------------------------------------
(* Properties *)

TypeOK ==
  /\ phase \in {"connecting", "running", "done"}
  /\ client \in {"open", "shut", "reset"} /\ backend \in {"open", "shut", "reset"}
  /\ c2p \in Seq(ClientFrames) /\ taken \in 0 .. Len(c2p)
  /\ up \in Seq(ForwardedFrames) /\ sending \in BOOLEAN
  /\ p2b \in Seq(ForwardedFrames) /\ served \in 0 .. Len(p2b)
  /\ DOMAIN requests_by_xid \subseteq Xids
  /\ b2p \in Seq(Units) /\ read \in 0 .. Len(b2p)
  /\ chan \in Seq([from : Nat, to : Nat])
  /\ down \in Seq(Units) /\ writing \in BOOLEAN
  /\ p2c \in Seq(Units) /\ cRead \in 0 .. Len(p2c)

(* The backend has been sent the client's requests one for one and in the client's order,
   each as decode() and encode() leave it, and none from the first refused one on: no
   error that the upstream loop ignores, and no reset, shows as a gap. *)
UpstreamInOrder ==
  /\ Len(p2b) <= taken
  /\ \A i \in 1 .. Len(p2b) : Accepted(c2p[i]) /\ p2b[i] = Forward(c2p[i])

(* The client has been sent a prefix of the backend's bytes, however the reads, the
   channel's chunks and the writes cut them, and whatever write errors were ignored. *)
DownstreamInOrder ==
  /\ Len(p2c) <= read
  /\ \A i \in 1 .. Len(p2c) : p2c[i] = b2p[i]

(* While the client has not reset the connection, the bytes read from the backend and not
   yet written to the client are all in the writer's buffer and the channel, in order and
   without a gap. *)
NothingLostDownstream ==
  phase = "running" /\ client # "reset" =>
    LET next == Len(p2c) + Len(down)
    IN  /\ \A i \in 1 .. Len(down) : down[i] = b2p[Len(p2c) + i]
        /\ chan = <<>> => next = read
        /\ chan # <<>> => chan[1].from = next /\ chan[Len(chan)].to = read
        /\ \A i \in 1 .. Len(chan) : chan[i].from < chan[i].to
        /\ \A i \in 1 .. Len(chan) - 1 : chan[i].to = chan[i + 1].from

(* While the backend has not reset the connection, every request taken from the client is
   in front of the backend or in the writer's buffer, in order. *)
NothingLostUpstream ==
  phase = "running" =>
    /\ Len(p2b) + Len(up) <= taken
    /\ backend # "reset" => Len(p2b) + Len(up) = taken
    /\ \A i \in 1 .. Len(up) :
         Accepted(c2p[Len(p2b) + i]) /\ up[i] = Forward(c2p[Len(p2b) + i])

\* The requests of the connection that carry xid
HasXid(i, xid) == Decoded[c2p[i]].header # <<>> /\ Decoded[c2p[i]].header[1] = xid

(* A reply can always be matched: from before the first byte of a request reaches the
   backend, the map holds its xid, with its opcode or that of a later request under the
   same xid. *)
RememberedWhenForwarded ==
  phase = "running" =>
    \A i \in 1 .. Len(p2b) :
      LET header == Decoded[c2p[i]].header
      IN  header # <<>> /\ ValidOpCode(header[2]) =>
            /\ header[1] \in DOMAIN requests_by_xid
            /\ \E j \in i .. taken :
                 /\ HasXid(j, header[1])
                 /\ OpCodes[requests_by_xid[header[1]]] = Decoded[c2p[j]].header[2]

(* What the proxy holds for a connection does not grow with its age, but for the channel
   and the map. Of the requests at most one is held while the backend takes them, and after
   a failed write no more than the high-water mark; of the replies the writer has one chunk
   more than the mark. The map, from which nothing is removed, has an entry only for an
   xid that the client has used, and goes with the connection. *)
LittleIsHeld ==
  /\ Len(up) <= HighWater
  /\ backend # "reset" => Len(up) <= 1
  /\ Len(down) < HighWater + SockCap
  /\ \A xid \in DOMAIN requests_by_xid : \E i \in 1 .. taken : HasXid(i, xid)
  /\ phase = "done" => up = <<>> /\ down = <<>> /\ chan = <<>> /\ requests_by_xid = <<>>

\* What the connection promises (Relay), and how its state shows in this one
R == INSTANCE Relay WITH
  Requests <- ClientFrames, Bytes <- Units, Passes <- Accepted, Passed <- Forward,
  stage <- CASE phase = "connecting" -> "opening"
             [] phase = "running" -> "open"
             [] phase = "done" -> "closed",
  sent <- c2p, passed <- p2b, replied <- b2p, delivered <- p2c

(* The pipes, their buffers, the channel and their ignored errors implement Relay. *)
ImplementsRelay == R!Spec

(* When the backend closes or fails the connection ends, even if the client reads nothing:
   the reader of the backend is never held up by a full queue. *)
BackendGoneEndsIt == phase = "running" /\ backend # "open" ~> phase = "done"

(* When the client closes or fails the connection ends, even if it reads nothing, as long
   as the backend goes on serving or goes away. *)
ClientGoneEndsIt == phase = "running" /\ client # "open" ~> phase = "done"

(* Every request reaches the backend, even if the client reads no reply, unless the
   connection ends: a client that sends without reading cannot make proxy and backend
   wait for each other. *)
RequestsGetThrough ==
  \A n \in 1 .. MaxRequests : phase = "running" /\ Len(c2p) >= n ~>
                                Len(p2b) >= n \/ phase = "done"

(* Every byte of the backend reaches a client that reads, unless the connection ends: once
   the backend has sent all that it will, nothing of it stays in a socket, the channel or
   the writer's buffer. *)
RepliesGetThrough ==
  ClientReads => <>[](Len(p2c) = Len(b2p) \/ client = "reset" \/ phase = "done")

=============================================================================

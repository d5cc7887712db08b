----------------------------- MODULE FramedPipe -----------------------------
(***************************************************************************)
(* UpStreamConnection::pipe of src/src/server.rs byte by byte: the frames  *)
(* that FramedRead and the length codec cut out of the client's bytes      *)
(* (LengthCodec) are checked, written into the FramedWrite's buffer with a *)
(* length of their own, and flushed to the backend in pieces of any size.  *)
(* The client may close in the middle of a frame, and the connection may   *)
(* end in the middle of a write.                                           *)
(*                                                                         *)
(* What the packet codecs do to a frame is left to a parameter: a frame is *)
(* accepted or not, and one that is accepted comes out as it went in       *)
(* (RequestCodec). What becomes of a write that fails is in ProxyConn.     *)
(***************************************************************************)
EXTENDS LengthCodec

CONSTANT Refused(_)     \* the frames on which ServerPacketCodec::decode errs or panics

\* The codec of the proxy, with any maximum
ASSUME ProxyCodecAssumption ==
  \A b \in Builders : b = max_frame_length(LENGTH_DELIMITED_CODEC, b.max_frame_len)

VARIABLES
  handled,      \* how many of `frames` the loop has handled
  buf,          \* p2b_framed's buffer; not empty while the loop is in send().await
  out,          \* the bytes written to the backend
  ended         \* "no" while the pipe runs, or why it ended

pipeVars == <<handled, buf, out, ended>>
allVars == <<vars, pipeVars>>

PipeInit ==
  /\ Init
  /\ handled = 0 /\ buf = <<>> /\ out = <<>> /\ ended = "no"

-----------------------------------------------------------------------------
\* Bytes of the client arrive
Arrive(k) == ended = "no" /\ Receive(k) /\ UNCHANGED pipeVars

\* Faulty form: next() is called again without waiting for send()
Reads_DuringSend == ended = "no" /\ handled = Len(frames)

\* The loop is in c2p_framed.next().await
Reads == ended = "no" /\ buf = <<>> /\ handled = Len(frames)

\* c2p_framed.next().await calls decode()
Cut == Reads /\ decode /\ UNCHANGED pipeVars

\* decode() with less than a head or a frame in the buffer returns None
Starved == IF state = Head_ THEN Buffered < NumHeadBytes(builder) ELSE Buffered < state

\* Faulty form: the rest of a frame is waited for
EndOfClient_Waits ==
  /\ Reads
  /\ status = "error" \/ (recvd = Len(stream) /\ state = Head_ /\ Buffered = 0)
  /\ ended' = "client"
  /\ UNCHANGED <<vars, handled, buf, out>>

\* next() returns None or an Err: the client has closed and nothing, or less than a frame,
\* is left of its bytes (FramedRead's "bytes remaining on stream"), or a head is bad.
EndOfClient ==
  /\ Reads
  /\ status = "error" \/ (recvd = Len(stream) /\ Starved)
  /\ ended' = "client"
  /\ UNCHANGED <<vars, handled, buf, out>>

\* The frame that decode() returned last
Frame == frames[handled + 1].body
HasFrame == ended = "no" /\ handled < Len(frames)

RefuseFrame ==
  /\ HasFrame /\ Refused(Frame)
  /\ handled' = handled + 1
  /\ ended' = "refused"
  /\ UNCHANGED <<vars, buf, out>>

\* Faulty form: the length is written in the byte order of the machine
SendFrame_LittleEndian ==
  /\ HasFrame /\ ~Refused(Frame)
  /\ handled' = handled + 1
  /\ buf' = buf \o PutUintLe(Len(Frame), 4) \o Frame
  /\ UNCHANGED <<vars, out, ended>>

\* p2b_framed.send(r): put_i32(size) and the packet
SendFrame ==
  /\ HasFrame /\ ~Refused(Frame)
  /\ handled' = handled + 1
  /\ buf' = buf \o PutUint(Len(Frame), 4) \o Frame
  /\ UNCHANGED <<vars, out, ended>>

\* Faulty form: a write is taken to have written everything
Flush_All(k) ==
  /\ ended = "no" /\ k <= Len(buf)
  /\ out' = out \o SubSeq(buf, 1, k)
  /\ buf' = <<>>
  /\ UNCHANGED <<vars, handled, ended>>

\* send() writes what the backend's socket takes, k bytes, and waits to write the rest
Flush(k) ==
  /\ ended = "no" /\ k <= Len(buf)
  /\ out' = out \o SubSeq(buf, 1, k)
  /\ buf' = SubSeq(buf, k + 1, Len(buf))
  /\ UNCHANGED <<vars, handled, ended>>

\* Another pipe of the connection has ended: select! drops this one where it stands
Dropped ==
  /\ ended = "no"
  /\ ended' = "dropped"
  /\ buf' = <<>>
  /\ UNCHANGED <<vars, handled, out>>

Arrives == \E k \in 1 .. Len(stream) : Arrive(k)
Flushes == \E k \in 1 .. Len(buf) : Flush(k)

PipeNext ==
  Arrives \/ Cut \/ EndOfClient \/ RefuseFrame \/ SendFrame \/ Flushes \/ Dropped

PipeSpec == PipeInit /\ [][PipeNext]_allVars

\* The task is polled, the client's bytes arrive and the backend takes what it is written
FairPipeSpec ==
  /\ PipeSpec
  /\ WF_allVars(Arrives) /\ WF_allVars(Flushes)
  /\ WF_allVars(Cut \/ EndOfClient \/ RefuseFrame \/ SendFrame)

-----------------------------------------------------------------------------
(* Properties *)

\* Where in the client's stream the frames end that have been sent or are in the buffer
SentEnd ==
  CASE handled = 0 -> 0
    [] handled # 0 /\ ended = "refused" -> frames[handled].at
    [] OTHER -> BodyEnd(builder, stream, frames[handled].at)

(* The proxy takes every request apart and writes it anew, length and all, yet the backend
   gets the client's own bytes: those written to it and those still in the buffer are,
   byte for byte, the beginning of what has arrived from the client. *)
PassedUnaltered ==
  /\ Len(out) + Len(buf) <= recvd
  /\ \A i \in 1 .. Len(out) : out[i] = stream[i]
  /\ \A i \in 1 .. Len(buf) : buf[i] = stream[Len(out) + i]

(* Unless the pipe is dropped they end with a whole frame, the last one handled, or the
   last one before the frame that is refused; and when the pipe ends by itself all of that
   is with the backend and no frame that was cut is left behind. *)
SentWhole ==
  /\ ended # "dropped" => Len(out) + Len(buf) = SentEnd
  /\ ended \in {"client", "refused"} => buf = <<>> /\ handled = Len(frames)
  /\ \A i \in 1 .. handled : Refused(frames[i].body) => ended = "refused" /\ i = handled

\* Where the whole frames of s that follow byte p end, up to one that is refused
EndOfFrames(b, s) ==
  LET end[p \in 0 .. Len(s)] ==
        IF NoFrameBehind(b, s, p) \/ Refused(FrameBehind(b, s, p)) THEN p
        ELSE end[BodyEnd(b, s, p)]
  IN  end

(* The backend reads the client's own frames: its bytes are always the beginning of the
   whole frames of the client's stream read at once. Nothing is sent of a frame that the
   client has not finished, or that is refused or comes after one that is, and no write,
   however it was cut, leaves a gap or a byte twice. A client that sends its requests and
   closes at once, in the middle of one or not, has all the whole ones sent in full before
   the pipe ends. *)
BackendReadsTheFrames ==
  LET end == EndOfFrames(builder, stream)[0]
  IN  /\ Len(out) <= end
      /\ out = SubSeq(stream, 1, Len(out))
      /\ ended \in {"client", "refused"} => Len(out) = end

=============================================================================

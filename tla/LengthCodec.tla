----------------------------- MODULE LengthCodec -----------------------------
(***************************************************************************)
(* The length-delimited framing of src/src/length_codec.rs: a byte stream  *)
(* arrives in chunks of any size, and decode() turns it into frames.       *)
(*                                                                         *)
(* The stream is immutable: `stream` is every byte the peer will ever      *)
(* send, `recvd` of them have arrived and the decoder has consumed `pos`,  *)
(* so the BytesMut that decode() works on is stream[pos+1 .. recvd].       *)
(***************************************************************************)
EXTENDS CodecBuilder, Sequences

CONSTANTS
  ByteBase,     \* number of values of a byte (256; smaller for TLC)
  UsizeMax,     \* usize::MAX, the bound of checked_add
  Builders,     \* the configurations to consider
  Streams,      \* the byte streams to consider
  MaxLens,      \* arguments of set_max_frame_length
  PayloadLists  \* lists of payloads that a stream may be the encodings of

Byte == 0 .. ByteBase - 1

\* DecodeState::Head; `state` is otherwise the n of DecodeState::Data(n).
Head_ == -1

ASSUME ConstantsAssumption ==
  /\ ByteBase \in Nat \ {0}
  /\ UsizeMax \in Nat
  /\ Builders \subseteq BuilderType
  /\ Streams \subseteq Seq(Byte)
  /\ MaxLens \subseteq Nat
  /\ PayloadLists \subseteq Seq(Seq(Byte))

VARIABLES
  builder,      \* the Builder inside the codec
  state,        \* DecodeState
  stream, recvd, pos,
  frames,       \* what decode() has returned: the bytes, and where the head began
  status        \* "ok", or "error" once decode() has returned Err

vars == <<builder, state, stream, recvd, pos, frames, status>>

-----------------------------------------------------------------------------
(* Decoding *)

\* i-th octet, least significant first, of the length field of the head that
\* starts after byte p of s.
Octet(b, s, p, i) ==
  LET first == p + b.length_field_offset
  IN  IF i >= b.length_field_len THEN 0
      ELSE IF b.length_field_is_big_endian THEN s[first + b.length_field_len - i]
      ELSE s[first + 1 + i]

\* get_uint / get_uint_le: the field, zero-extended to the 8 octets of a u64
LengthField(b, s, p) ==
  LET o(i) == Octet(b, s, p, i)
      up(lo, rest) == lo + ByteBase * rest
  IN  up(o(0), up(o(1), up(o(2), up(o(3), up(o(4), up(o(5), up(o(6), o(7))))))))

\* checked_sub / checked_add of length_adjustment
AdjustedLength(b, s, p) == LengthField(b, s, p) + b.length_adjustment

LengthOverflows(n) == n < 0 \/ n > UsizeMax

\* Where the frame whose head starts after byte p begins and ends
BodyStart(b, p) == p + GetNumSkip(b)
BodyEnd(b, s, p) == BodyStart(b, p) + AdjustedLength(b, s, p)

Buffered == recvd - pos

\* decode() is called in state Head with a whole head in the buffer
HeadArrived ==
  status = "ok" /\ state = Head_ /\ Buffered >= NumHeadBytes(builder)

HeadRejected ==
  \/ LengthField(builder, stream, pos) > builder.max_frame_len
  \/ LengthOverflows(AdjustedLength(builder, stream, pos))

\* Faulty form: the frame waits for a byte beyond its last one
DecodeData_Late(at, from, n) ==
  /\ recvd > from + n
  /\ frames' = Append(frames, [at |-> at, body |-> SubSeq(stream, from + 1, from + n)])
  /\ pos' = from + n
  /\ state' = Head_
  /\ UNCHANGED <<builder, stream, recvd, status>>

\* decode_data(n) finds n bytes after `from`: split_to(n), back to state Head
DecodeData(at, from, n) ==
  /\ recvd >= from + n
  /\ frames' = Append(frames, [at |-> at, body |-> SubSeq(stream, from + 1, from + n)])
  /\ pos' = from + n
  /\ state' = Head_
  /\ UNCHANGED <<builder, stream, recvd, status>>

\* decode(): the head is bad and the call returns Err, which ends the FramedRead
DecodeHeadFails ==
  /\ HeadArrived
  /\ HeadRejected
  /\ status' = "error"
  /\ UNCHANGED <<builder, state, stream, recvd, pos, frames>>

\* Faulty form: the head is consumed again on every call that finds too few bytes
DecodeHeadOnly_Forgets ==
  /\ HeadArrived
  /\ ~HeadRejected
  /\ recvd < BodyEnd(builder, stream, pos)
  /\ pos' = BodyStart(builder, pos)
  /\ UNCHANGED <<builder, state, stream, recvd, frames, status>>

\* Faulty form: the length is remembered as it was read, without its adjustment
DecodeHeadOnly_Unadjusted ==
  /\ HeadArrived
  /\ ~HeadRejected
  /\ recvd < BodyEnd(builder, stream, pos)
  /\ pos' = BodyStart(builder, pos)
  /\ state' = LengthField(builder, stream, pos)
  /\ UNCHANGED <<builder, stream, recvd, frames, status>>

\* decode(): the head is good but the frame is not complete: remember n
DecodeHeadOnly ==
  /\ HeadArrived
  /\ ~HeadRejected
  /\ recvd < BodyEnd(builder, stream, pos)
  /\ pos' = BodyStart(builder, pos)
  /\ state' = AdjustedLength(builder, stream, pos)
  /\ UNCHANGED <<builder, stream, recvd, frames, status>>

\* decode(): the head and the whole frame are in the buffer
DecodeHeadAndData ==
  /\ HeadArrived
  /\ ~HeadRejected
  /\ DecodeData(pos, BodyStart(builder, pos), AdjustedLength(builder, stream, pos))

\* decode() in state Data(n): the rest of the frame has arrived
DecodeRest ==
  /\ status = "ok"
  /\ state # Head_
  /\ DecodeData(pos - GetNumSkip(builder), pos, state)

decode == DecodeHeadFails \/ DecodeHeadOnly \/ DecodeHeadAndData \/ DecodeRest

-----------------------------------------------------------------------------
(* Encoding *)

\* n >> 8 * (i - 1), for i in 1 .. 9
Shifts(n) ==
  LET q1 == n \div ByteBase
      q2 == q1 \div ByteBase
      q3 == q2 \div ByteBase
      q4 == q3 \div ByteBase
      q5 == q4 \div ByteBase
      q6 == q5 \div ByteBase
      q7 == q6 \div ByteBase
      q8 == q7 \div ByteBase
  IN  <<n, q1, q2, q3, q4, q5, q6, q7, q8>>

\* n.to_le_bytes()
Octets(n) == [i \in 1 .. 8 |-> Shifts(n)[i] % ByteBase]

\* put_uint(n, len) and put_uint_le(n, len): the low len octets of n, in either order
PutUint(n, len) == [i \in 1 .. len |-> Octets(n)[len + 1 - i]]
PutUintLe(n, len) == [i \in 1 .. len |-> Octets(n)[i]]

\* encode() returns Ok: the payload is short enough and the length does not overflow
Encodable(b, data) ==
  /\ Len(data) <= b.max_frame_len
  /\ ~LengthOverflows(Len(data) - b.length_adjustment)

\* Faulty form: the length is adjusted in the direction of decode()
encode_SameSign(b, data) ==
  LET n == Len(data) + b.length_adjustment
  IN  (IF b.length_field_is_big_endian THEN PutUint(n, b.length_field_len)
                                       ELSE PutUintLe(n, b.length_field_len)) \o data

encode(b, data) ==
  LET n == Len(data) - b.length_adjustment
  IN  (IF b.length_field_is_big_endian THEN PutUint(n, b.length_field_len)
                                       ELSE PutUintLe(n, b.length_field_len)) \o data

\* n can be said in len octets: put_uint() drops the rest of a longer one
FieldHolds(n, len) == Shifts(n)[len + 1] = 0

\* encode() compares the payload with the maximum, decode() what the field says; and
\* put_uint() keeps the low octets of it. A payload of n bytes passes all three.
Readable(b, n) ==
  /\ n - b.length_adjustment <= b.max_frame_len
  /\ FieldHolds(n - b.length_adjustment, b.length_field_len)

\* Where the encoding of each payload ends: encode() writes the field and the payload.
Cuts(b, ps) ==
  LET cut[i \in 0 .. Len(ps)] ==
        IF i = 0 THEN 0 ELSE cut[i - 1] + b.length_field_len + Len(ps[i])
  IN  cut

\* s is the payloads ps one behind the other as encode() writes them, and each of them is
\* accepted. The length of a buffer is a usize.
WrittenAs(b, s, ps) ==
  LET cut == Cuts(b, ps)
  IN  /\ cut[Len(ps)] = Len(s)
      /\ \A i \in 1 .. Len(ps) :
           /\ Encodable(b, ps[i]) /\ Readable(b, Len(ps[i])) /\ Len(ps[i]) <= UsizeMax
           /\ SubSeq(s, cut[i - 1] + 1, cut[i]) = encode(b, ps[i])

\* encode() writes the field first and nothing else in front of the payload, so decode()
\* has to be told nothing else.
BothWays(b) ==
  /\ b \in BuilderType
  /\ b.length_field_offset = 0 /\ GetNumSkip(b) = b.length_field_len

-----------------------------------------------------------------------------
(* The decoder and its environment *)

Init ==
  /\ builder \in Builders
  /\ stream \in Streams
  /\ state = Head_
  /\ recvd = 0
  /\ pos = 0
  /\ frames = <<>>
  /\ status = "ok"

\* The socket hands FramedRead the next k bytes. A decoder that has failed is not read for.
Receive(k) ==
  /\ status = "ok"
  /\ recvd + k <= Len(stream)
  /\ recvd' = recvd + k
  /\ UNCHANGED <<builder, state, stream, pos, frames, status>>

set_max_frame_length(val) ==
  /\ builder' = max_frame_length(builder, val)
  /\ UNCHANGED <<state, stream, recvd, pos, frames, status>>

Next ==
  \/ \E k \in 1 .. Len(stream) : Receive(k)
  \/ decode
  \/ \E val \in MaxLens : set_max_frame_length(val)

Spec == Init /\ [][Next]_vars

\* FramedRead calls decode() again until it returns None, and the peer's bytes arrive.
Fairness == WF_vars(decode) /\ WF_vars(\E k \in 1 .. Len(stream) : Receive(k))

FairSpec == Spec /\ Fairness

-----------------------------------------------------------------------------
(* Properties *)

TypeOK ==
  /\ builder \in BuilderType
  /\ state \in Nat \cup {Head_}
  /\ stream \in Seq(Byte)
  /\ recvd \in 0 .. Len(stream)
  /\ pos \in 0 .. recvd
  /\ frames \in Seq([at : Nat, body : Seq(Byte)])
  /\ status \in {"ok", "error"}

\* Where the next head starts
NextHead == IF state = Head_ THEN pos ELSE pos - GetNumSkip(builder)

\* Where the frame after frame i starts
After(i) == IF i = Len(frames) THEN NextHead ELSE frames[i + 1].at

(* Every frame decode() returns is cut from the stream by the length field of its own
   head, the first head starts at byte 0 and every other one right where the frame before
   it ends. These equations have one solution for a given stream, so where the chunks of
   the stream were cut, and when the maximum was changed, cannot change any frame. *)
FramesCutByTheirHeads ==
  /\ frames = <<>> => NextHead = 0
  /\ frames # <<>> => frames[1].at = 0
  /\ \A i \in 1 .. Len(frames) :
       LET at == frames[i].at
       IN  /\ frames[i].body = SubSeq(stream, BodyStart(builder, at) + 1,
                                              BodyEnd(builder, stream, at))
           /\ After(i) = BodyEnd(builder, stream, at)

(* A frame whose head was accepted is not re-examined: the n that decode() remembered
   between two calls is still the one the head in the stream says, even when
   set_max_frame_length() has lowered the maximum in between. *)
RememberedLengthIsTheHeads ==
  state # Head_ =>
    /\ NextHead >= 0
    /\ state = AdjustedLength(builder, stream, NextHead)

\* Everything has arrived, and decode() can make no more of it
Drained ==
  /\ recvd = Len(stream)
  /\ IF state = Head_ THEN Buffered < NumHeadBytes(builder) ELSE Buffered < state

\* The frames decoded so far are the first of ps, and they are all of ps once decode() has
\* failed or has worked through everything that arrived.
FramesAre(ps) ==
  /\ Len(frames) <= Len(ps)
  /\ \A i \in 1 .. Len(frames) : frames[i].body = ps[i]
  /\ status = "error" \/ Drained => Len(frames) = Len(ps)

\* What follows byte p of the whole stream s is not a frame: too short, too long or bad
NoFrameBehind(b, s, p) ==
  \/ p + NumHeadBytes(b) > Len(s)
  \/ LengthField(b, s, p) > b.max_frame_len
  \/ LengthOverflows(AdjustedLength(b, s, p))
  \/ BodyEnd(b, s, p) > Len(s)

FrameBehind(b, s, p) == SubSeq(s, BodyStart(b, p) + 1, BodyEnd(b, s, p))

\* What the whole stream means, read at once: the frames from byte p on
Reading(b, s) ==
  LET read[p \in 0 .. Len(s)] ==
        IF NoFrameBehind(b, s, p) THEN <<>>
        ELSE <<FrameBehind(b, s, p)>> \o read[BodyEnd(b, s, p)]
  IN  read

\* Every configuration consumes something with each frame, and its maximum is not one that
\* set_max_frame_length() sets. (With num_skip(0) and a length of zero decode() returns the
\* same empty frame forever.)
CanBeReadAtOnce == \A b \in Builders : GetNumSkip(b) > 0 /\ b.max_frame_len \notin MaxLens

(* As long as the maximum is the one the codec was built with, the frames decoded so far
   are the first frames of the stream read at once, and all of them once decode() has
   failed or has worked through everything that arrived. *)
SameAsReadAtOnce == builder \in Builders => FramesAre(Reading(builder, stream)[0])

(* What encode() writes, decode() with the same configuration reads back, payload for
   payload, wherever the stream is cut: a field of the configured width and byte order,
   adjusted one way when written and the other way when read, up to the longest payload
   that the maximum, as either side counts it, and the width of the field allow. No call
   fails. *)
RoundTrip ==
  \A ps \in PayloadLists :
    BothWays(builder) /\ WrittenAs(builder, stream, ps) => status = "ok" /\ FramesAre(ps)

(* Once the peer's bytes have arrived the decoder does not stop with a whole frame in its
   buffer: it ends with an error, or with less than a head or less than a frame left. *)
DrainsItsInput ==
  <>[](status = "error" \/ Drained)

=============================================================================

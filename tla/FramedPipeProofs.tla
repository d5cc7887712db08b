--------------------------- MODULE FramedPipeProofs ---------------------------
(* Proofs about FramedPipe, for every stream of bytes, every way in which reads and writes
   cut it, and whatever frames are refused. *)
EXTENDS FramedPipe, LengthCodecProofs

-----------------------------------------------------------------------------
(* The length field of the proxy's codec *)

\* A Builder that differs from LENGTH_DELIMITED_CODEC in its maximum at most
ProxyCodec(b) ==
  /\ b.length_field_len = 4 /\ b.length_field_offset = 0 /\ b.length_adjustment = 0
  /\ b.num_skip = NoSkip /\ b.length_field_is_big_endian = TRUE

(* The configurations of FramedPipe are such Builders. *)
LEMMA ProxyCodecs == \A b \in Builders : ProxyCodec(b)
<1> SUFFICES ASSUME NEW b \in Builders PROVE ProxyCodec(b)
  OBVIOUS
<1>1. b = max_frame_length(LENGTH_DELIMITED_CODEC, b.max_frame_len)
  BY ProxyCodecAssumption, Zenon
<1> DEFINE max == b.max_frame_len
<1> HIDE DEF max
<1>2. ProxyCodec(max_frame_length(LENGTH_DELIMITED_CODEC, max))
  BY DEF ProxyCodec, LENGTH_DELIMITED_CODEC, NewBuilder, max_frame_length, big_endian,
         length_adjustment, length_field_offset, length_field_length
<1> QED
  BY <1>1, <1>2, Zenon DEF max

(* Dividing by the base takes the lowest octet off a number. *)
LEMMA LowestOctet ==
  ASSUME NEW x \in Byte, NEW y \in Nat
  PROVE  /\ (x + ByteBase * y) \div ByteBase = y
         /\ (x + ByteBase * y) % ByteBase = x
         /\ x + ByteBase * y \in Nat
BY ConstantsAssumption DEF Byte

(* Four octets, read as get_uint() does, and written again as put_i32() does. *)
LEMMA FourOctets ==
  ASSUME NEW a \in Byte, NEW b \in Byte, NEW c \in Byte, NEW d \in Byte
  PROVE  LET n == d + ByteBase * (c + ByteBase * (b + ByteBase * a))
         IN  /\ n \in Nat
             /\ PutUint(n, 4) = <<a, b, c, d>>
<1> DEFINE n1 == b + ByteBase * a
           n2 == c + ByteBase * n1
           n3 == d + ByteBase * n2
<1>0. a \in Nat
  BY ConstantsAssumption DEF Byte
<1>1. n1 \div ByteBase = a /\ n1 % ByteBase = b /\ n1 \in Nat
  BY <1>0, LowestOctet
<1> HIDE DEF n1
<1>2. n2 \div ByteBase = n1 /\ n2 % ByteBase = c /\ n2 \in Nat
  BY <1>1, LowestOctet
<1> HIDE DEF n2
<1>3. n3 \div ByteBase = n2 /\ n3 % ByteBase = d /\ n3 \in Nat
  BY <1>2, LowestOctet
<1> HIDE DEF n3
<1>4. a % ByteBase = a
  BY ConstantsAssumption DEF Byte
<1>5. /\ Octets(n3)[1] = d /\ Octets(n3)[2] = c /\ Octets(n3)[3] = b /\ Octets(n3)[4] = a
  <2>1. /\ Shifts(n3)[1] = n3 /\ Shifts(n3)[2] = n2 /\ Shifts(n3)[3] = n1 /\ Shifts(n3)[4] = a
    BY <1>1, <1>2, <1>3 DEF Shifts
  <2> QED
    BY <1>1, <1>2, <1>3, <1>4, <2>1 DEF Octets
<1>6. PutUint(n3, 4) = <<a, b, c, d>>
  <2> HIDE DEF Octets
  <2>1. PutUint(n3, 4) = [i \in 1 .. 4 |-> Octets(n3)[5 - i]]
    BY DEF PutUint
  <2> QED
    BY <1>5, <2>1
<1> QED
  BY <1>3, <1>6 DEF n1, n2, n3

(* encode() writes in front of a frame what decode() read in front of it. *)
LEMMA LengthWrittenAsRead ==
  ASSUME NEW b, ProxyCodec(b), NEW s \in Seq(Byte), NEW p \in Nat, p + 4 <= Len(s)
  PROVE  /\ LengthField(b, s, p) \in Nat
         /\ PutUint(LengthField(b, s, p), 4) = <<s[p + 1], s[p + 2], s[p + 3], s[p + 4]>>
<1>1. s[p + 1] \in Byte /\ s[p + 2] \in Byte /\ s[p + 3] \in Byte /\ s[p + 4] \in Byte
  <2>1. p + 1 \in 1 .. Len(s) /\ p + 2 \in 1 .. Len(s) /\ p + 3 \in 1 .. Len(s)
        /\ p + 4 \in 1 .. Len(s)
    BY LenProperties
  <2> QED
    BY <2>1, ElementOfSeq, Zenon
<1>2. /\ Octet(b, s, p, 0) = s[p + 4] /\ Octet(b, s, p, 1) = s[p + 3]
      /\ Octet(b, s, p, 2) = s[p + 2] /\ Octet(b, s, p, 3) = s[p + 1]
      /\ Octet(b, s, p, 4) = 0 /\ Octet(b, s, p, 5) = 0
      /\ Octet(b, s, p, 6) = 0 /\ Octet(b, s, p, 7) = 0
  BY DEF Octet, ProxyCodec
<1> DEFINE n == s[p + 4] + ByteBase * (s[p + 3] + ByteBase * (s[p + 2] + ByteBase * s[p + 1]))
<1>3. LengthField(b, s, p) = n
  <2> HIDE DEF Octet
  <2>1. 0 + ByteBase * 0 = 0 /\ s[p + 1] + ByteBase * 0 = s[p + 1]
    BY <1>1, ConstantsAssumption DEF Byte
  <2> QED
    BY <1>2, <2>1, Zenon DEF LengthField
<1>4. n \in Nat /\ PutUint(n, 4) = <<s[p + 1], s[p + 2], s[p + 3], s[p + 4]>>
  BY <1>1, FourOctets, Zenon
<1> QED
  BY <1>3, <1>4, Zenon

-----------------------------------------------------------------------------
(* The pipe *)

PipeType ==
  /\ handled \in Nat /\ handled <= Len(frames)
  /\ buf \in Seq(Byte) /\ out \in Seq(Byte)
  /\ ended \in {"no", "client", "refused", "dropped"}
  /\ ProxyCodec(builder)

\* The loop handles a frame before it asks for the next: at most one is waiting, and while
\* it does nothing is in the buffer. Its head has arrived, so that its length is a number.
OneAtATime ==
  handled < Len(frames) =>
    /\ ended = "no" \/ ended = "dropped"
    /\ Len(frames) = handled + 1 /\ buf = <<>>
    /\ frames[handled + 1].at + 4 <= recvd

\* The property of PipeSpec that the steps keep, next to what LengthCodec keeps
PipeInv == PipeType /\ OneAtATime /\ PassedUnaltered /\ SentWhole

(* The initial state. *)
LEMMA InitPipe == PipeInit => IInv /\ PipeInv
<1> SUFFICES ASSUME PipeInit PROVE IInv /\ PipeInv
  OBVIOUS
<1>1. IInv
  BY InitIInv DEF PipeInit
<1>2. /\ builder \in Builders /\ recvd = 0 /\ handled = 0 /\ ended = "no"
      /\ frames = <<>> /\ buf = <<>> /\ out = <<>>
      /\ Len(frames) = 0 /\ Len(buf) = 0 /\ Len(out) = 0
  BY EmptyFacts DEF PipeInit, Init
<1>3. PipeType
  BY <1>2, ProxyCodecs, EmptyFacts DEF PipeType
<1>4. SentEnd = 0
  BY <1>2 DEF SentEnd
<1> QED
  BY <1>1, <1>2, <1>3, <1>4 DEF PipeInv, OneAtATime, PassedUnaltered, SentWhole

(* What IInv and PipeType say, with the bounds spelt out. *)
LEMMA PipeFacts ==
  ASSUME IInv, PipeType
  PROVE  /\ stream \in Seq(Byte) /\ Len(stream) \in Nat
         /\ recvd \in Nat /\ recvd <= Len(stream) /\ pos \in Nat /\ pos <= recvd
         /\ frames \in Seq([at : Nat, body : Seq(Byte)]) /\ Len(frames) \in Nat
         /\ handled \in Nat /\ handled <= Len(frames)
         /\ buf \in Seq(Byte) /\ Len(buf) \in Nat /\ out \in Seq(Byte) /\ Len(out) \in Nat
         /\ GetNumSkip(builder) = 4 /\ NumHeadBytes(builder) = 4
         /\ builder.length_adjustment = 0
<1>1. /\ stream \in Seq(Byte) /\ recvd \in 0 .. Len(stream) /\ pos \in 0 .. recvd
      /\ frames \in Seq([at : Nat, body : Seq(Byte)])
  BY DEF IInv, TypeOK
<1>2. /\ Len(stream) \in Nat /\ Len(frames) \in Nat /\ Len(buf) \in Nat /\ Len(out) \in Nat
  BY <1>1, LenProperties, Zenon DEF PipeType
<1>3. GetNumSkip(builder) = 4 /\ NumHeadBytes(builder) = 4 /\ builder.length_adjustment = 0
  BY DEF PipeType, ProxyCodec, GetNumSkip, NumHeadBytes, NoSkip
<1> QED
  BY <1>1, <1>2, <1>3 DEF PipeType

(* Every step of the pipe is one of the decoder or leaves it alone. *)
LEMMA PipeStep == [PipeNext]_allVars => [Next]_vars
<1> SUFFICES ASSUME [PipeNext]_allVars PROVE [Next]_vars
  OBVIOUS
<1> HIDE DEF vars
<1>1. CASE Arrives
  BY <1>1, Zenon DEF Arrives, Arrive, Next
<1>2. CASE Cut
  BY <1>2, Zenon DEF Cut, Next
<1>3. CASE ~(Arrives \/ Cut)
  <2>1. UNCHANGED vars
    BY <1>3, Zenon
    DEF PipeNext, allVars, EndOfClient, RefuseFrame, SendFrame, Flushes, Flush, Dropped
  <2> QED
    BY <2>1
<1> QED
  BY <1>1, <1>2, <1>3, Zenon

(* The frames that have been returned stay. *)
LEMMA FramesGrow ==
  ASSUME IInv, decode
  PROVE  /\ UNCHANGED <<builder, stream, recvd>>
         /\ Len(frames') = Len(frames) \/ Len(frames') = Len(frames) + 1
         /\ \A i \in 1 .. Len(frames) : frames'[i] = frames[i]
<1>1. UNCHANGED <<builder, stream, recvd>>
  BY DEF decode, DecodeHeadFails, DecodeHeadOnly, DecodeHeadAndData, DecodeRest, DecodeData
<1>2. frames' \in Seq([at : Nat, body : Seq(Byte)])
  BY StepIInv DEF Next, IInv, TypeOK
<1>3. frames \in Seq([at : Nat, body : Seq(Byte)]) /\ Len(frames) \in Nat
  BY LenProperties DEF IInv, TypeOK
<1>4. CASE frames' = frames
  BY <1>1, <1>4
<1>5. ASSUME NEW f, frames' = Append(frames, f)
      PROVE  /\ Len(frames') = Len(frames) + 1
             /\ \A i \in 1 .. Len(frames) : frames'[i] = frames[i]
  BY <1>3, <1>5
<1>6. frames' = frames \/ \E f : frames' = Append(frames, f)
  BY DEF decode, DecodeHeadFails, DecodeHeadOnly, DecodeHeadAndData, DecodeRest, DecodeData
<1> QED
  BY <1>1, <1>4, <1>5, <1>6, Zenon

(* The frames' types. *)
LEMMA FrameTypes ==
  ASSUME IInv, PipeType
  PROVE  \A i \in 1 .. Len(frames) : frames[i].at \in Nat /\ frames[i].body \in Seq(Byte)
<1> SUFFICES ASSUME NEW i \in 1 .. Len(frames)
             PROVE  frames[i].at \in Nat /\ frames[i].body \in Seq(Byte)
  OBVIOUS
<1> DEFINE FrameType == [at : Nat, body : Seq(Byte)]
<1>1. \A f \in FrameType : f.at \in Nat /\ f.body \in Seq(Byte)
  OBVIOUS
<1>2. frames \in Seq(FrameType)
  BY PipeFacts
<1> HIDE DEF FrameType
<1>3. frames[i] \in FrameType
  BY <1>2, ElementOfSeq, Zenon
<1> QED
  BY <1>1, <1>3, Zenon

(* The frame to be handled begins where those before it end. *)
LEMMA FrameAt ==
  ASSUME IInv, PipeType, handled < Len(frames), ended # "refused"
  PROVE  frames[handled + 1].at = SentEnd /\ frames[handled + 1].at \in Nat
<1> USE PipeFacts
<1>1. handled + 1 \in 1 .. Len(frames)
  OBVIOUS
<1>2. frames[handled + 1].at \in Nat
  BY <1>1, FrameTypes, Zenon
<1>3. CASE handled = 0
  <2>1. frames # <<>>
    BY <1>3, EmptyFacts
  <2>2. frames[1].at = 0
    BY <2>1 DEF IInv, FramesCutByTheirHeads
  <2> QED
    BY <1>2, <1>3, <2>2 DEF SentEnd
<1>4. CASE handled # 0
  <2>1. handled \in 1 .. Len(frames) /\ handled # Len(frames)
    BY <1>4
  <2>2. After(handled) = BodyEnd(builder, stream, frames[handled].at)
    BY <2>1 DEF IInv, FramesCutByTheirHeads
  <2>3. After(handled) = frames[handled + 1].at
    BY <2>1 DEF After
  <2> QED
    BY <1>2, <1>4, <2>2, <2>3 DEF SentEnd
<1> QED
  BY <1>3, <1>4

(* The frame to be handled is the four bytes of its head and its body, and has arrived. *)
LEMMA FrameBytes ==
  ASSUME IInv, PipeType, OneAtATime, handled < Len(frames)
  PROVE  LET at == frames[handled + 1].at
             n == Len(Frame)
         IN  /\ n \in Nat /\ Frame \in Seq(Byte)
             /\ at + 4 + n = BodyEnd(builder, stream, at)
             /\ at + 4 + n <= recvd
             /\ PutUint(n, 4) = <<stream[at + 1], stream[at + 2], stream[at + 3], stream[at + 4]>>
             /\ \A i \in 1 .. n : Frame[i] = stream[at + 4 + i]
<1> USE PipeFacts
<1> DEFINE at == frames[handled + 1].at
           field == LengthField(builder, stream, at)
<1>1. /\ handled + 1 \in 1 .. Len(frames) /\ Len(frames) = handled + 1
      /\ at \in Nat /\ at + 4 <= recvd
  <2>1. handled + 1 \in 1 .. Len(frames)
    OBVIOUS
  <2> QED
    BY <2>1, FrameTypes, Zenon DEF OneAtATime
<1>2. at + 4 <= Len(stream)
  BY <1>1
<1> HIDE DEF at
<1>3. /\ field \in Nat
      /\ PutUint(field, 4) = <<stream[at + 1], stream[at + 2], stream[at + 3], stream[at + 4]>>
  BY <1>1, <1>2, LengthWrittenAsRead DEF PipeType
<1> HIDE DEF field
<1>4. BodyStart(builder, at) = at + 4 /\ BodyEnd(builder, stream, at) = at + 4 + field
  <2>1. field + 0 = field
    BY <1>3
  <2> QED
    BY <2>1, Zenon DEF BodyStart, BodyEnd, AdjustedLength, field
<1>5. /\ Frame = SubSeq(stream, at + 4 + 1, at + 4 + field)
      /\ After(handled + 1) = at + 4 + field
  BY <1>1, <1>4, Zenon DEF IInv, FramesCutByTheirHeads, Frame, at
<1>6. at + 4 + field <= recvd
  <2>1. After(handled + 1) = NextHead
    BY <1>1, Zenon DEF After
  <2>2. NextHead <= pos
    BY DEF NextHead
  <2>3. at + 4 + field <= pos
    BY <1>5, <2>1, <2>2, Zenon
  <2> QED
    BY <1>1, <1>3, <2>3
<1>7. /\ Frame \in Seq(Byte) /\ Len(Frame) = field
      /\ \A i \in 1 .. field : Frame[i] = stream[at + 4 + i]
  <2> DEFINE from == at + 4
             to == at + 4 + field
  <2>1. from \in Nat /\ to \in Nat /\ from <= to /\ to <= Len(stream) /\ to - from = field
    BY <1>1, <1>3, <1>6
  <2>2. Frame = SubSeq(stream, from + 1, to)
    BY <1>5
  <2> HIDE DEF from, to
  <2>3. /\ SubSeq(stream, from + 1, to) \in Seq(Byte)
        /\ Len(SubSeq(stream, from + 1, to)) = to - from
        /\ \A i \in 1 .. to - from : SubSeq(stream, from + 1, to)[i] = stream[from + i]
    <3>1. stream \in Seq(Byte)
      OBVIOUS
    <3> QED
      BY ONLY <2>1, <3>1, SlicedWithin, SMT
  <2> QED
    BY <2>1, <2>2, <2>3, Zenon DEF from
<1> QED
  BY <1>3, <1>4, <1>6, <1>7, Zenon DEF at

(* A frame enters the buffer as it stands in the stream. *)
LEMMA PipeSends ==
  ASSUME IInv, PipeInv, SendFrame
  PROVE  PipeInv'
<1>0. PipeType /\ OneAtATime /\ PassedUnaltered /\ SentWhole
  BY DEF PipeInv
<1> USE PipeFacts, <1>0
<1> DEFINE at == frames[handled + 1].at
           n == Len(Frame)
           field == PutUint(n, 4)
<1>1. /\ ended = "no" /\ handled < Len(frames) /\ ~Refused(Frame)
      /\ handled' = handled + 1 /\ buf' = (buf \o field) \o Frame
      /\ UNCHANGED <<builder, stream, recvd, frames, out, ended>>
  BY DEF SendFrame, HasFrame, vars
<1>2. Len(frames) = handled + 1 /\ buf = <<>> /\ Len(buf) = 0
  BY <1>0, <1>1, EmptyFacts DEF OneAtATime
<1>3. at = SentEnd /\ at \in Nat
  BY <1>0, <1>1, FrameAt
<1>4. /\ n \in Nat /\ Frame \in Seq(Byte)
      /\ at + 4 + n = BodyEnd(builder, stream, at)
      /\ at + 4 + n <= recvd
      /\ field = <<stream[at + 1], stream[at + 2], stream[at + 3], stream[at + 4]>>
      /\ \A i \in 1 .. n : Frame[i] = stream[at + 4 + i]
  BY <1>0, <1>1, FrameBytes, Zenon
<1> HIDE DEF at, n, field
<1>5. Len(out) = at
  BY <1>0, <1>1, <1>2, <1>3 DEF SentWhole
<1>6. /\ field \in Seq(Byte) /\ Len(field) = 4
      /\ \A i \in 1 .. 4 : field[i] = stream[at + i]
  <2>1. /\ stream[at + 1] \in Byte /\ stream[at + 2] \in Byte
        /\ stream[at + 3] \in Byte /\ stream[at + 4] \in Byte
    <3>1. /\ at + 1 \in 1 .. Len(stream) /\ at + 2 \in 1 .. Len(stream)
          /\ at + 3 \in 1 .. Len(stream) /\ at + 4 \in 1 .. Len(stream)
      <4>1. /\ at \in Nat /\ n \in Nat /\ recvd \in Nat /\ Len(stream) \in Nat
            /\ at + 4 + n <= recvd /\ recvd <= Len(stream)
        BY <1>3, <1>4
      <4> QED
        BY ONLY <4>1, SMT
    <3>2. stream \in Seq(Byte)
      OBVIOUS
    <3> QED
      BY <3>1, <3>2, ElementOfSeq, Zenon
  <2> QED
    BY <1>4, <2>1
<1>7. buf' = field \o Frame
  <2>1. buf \o field = field
    BY <1>2, <1>6, ConcatEmptySeq, Zenon
  <2> QED
    BY <1>1, <2>1, Zenon
<1>8. /\ buf' \in Seq(Byte) /\ Len(buf') = 4 + n
      /\ \A i \in 1 .. 4 + n : buf'[i] = IF i <= 4 THEN field[i] ELSE Frame[i - 4]
  <2>1. Len(Frame) = n
    BY DEF n
  <2>2. /\ field \o Frame \in Seq(Byte) /\ Len(field \o Frame) = Len(field) + Len(Frame)
        /\ \A i \in 1 .. Len(field) + Len(Frame) :
             (field \o Frame)[i] = IF i <= Len(field) THEN field[i] ELSE Frame[i - Len(field)]
    BY <1>4, <1>6, ConcatProperties
  <2> QED
    BY <1>6, <1>7, <2>1, <2>2, Zenon
<1>9. ASSUME NEW i \in 1 .. 4 + n
      PROVE  buf'[i] = stream[at + i]
  <2>1. CASE i <= 4
    <3>1. i \in 1 .. 4
      BY <1>4, <2>1
    <3>2. field[i] = stream[at + i]
      BY <1>6, <3>1, Zenon
    <3> QED
      BY ONLY <1>8, <2>1, <3>2, Zenon
  <2>2. CASE ~(i <= 4)
    <3>1. i - 4 \in 1 .. n /\ at + 4 + (i - 4) = at + i
      BY <1>3, <1>4, <2>2
    <3>2. Frame[i - 4] = stream[at + 4 + (i - 4)]
      BY <1>4, <3>1, Zenon
    <3> QED
      BY <1>8, <2>2, <3>1, <3>2, Zenon
  <2> QED
    BY <2>1, <2>2, Zenon
<1>10. PipeType'
  BY <1>0, <1>1, <1>2, <1>8 DEF PipeType
<1>11. OneAtATime'
  BY <1>1, <1>2 DEF OneAtATime
<1>12. PassedUnaltered'
  <2>1. /\ Len(out') + Len(buf') <= recvd'
        /\ \A i \in 1 .. Len(out') : out'[i] = stream'[i]
    BY <1>0, <1>1, <1>3, <1>4, <1>5, <1>8 DEF PassedUnaltered
  <2>2. \A i \in 1 .. Len(buf') : buf'[i] = stream'[Len(out') + i]
    BY <1>1, <1>5, <1>8, <1>9, Zenon
  <2> QED
    BY <2>1, <2>2, Zenon DEF PassedUnaltered
<1>13. SentWhole'
  <2>1. SentEnd' = at + 4 + n
    <3>1. handled' # 0 /\ ended' # "refused" /\ frames'[handled'].at = at
      BY <1>1 DEF at
    <3>2. SentEnd' = BodyEnd(builder', stream', frames'[handled'].at)
      BY <3>1, Zenon DEF SentEnd
    <3> QED
      BY <1>1, <1>4, <3>1, <3>2, Zenon
  <2>2. Len(out') + Len(buf') = at + 4 + n
    <3>1. Len(out') = at /\ Len(buf') = 4 + n /\ at \in Nat /\ n \in Nat
      BY <1>1, <1>3, <1>4, <1>5, <1>8, Zenon
    <3> QED
      BY ONLY <3>1, SMT
  <2>3. \A i \in 1 .. handled + 1 : ~Refused(frames[i].body)
    <3>1. \A i \in 1 .. handled + 1 : i \in 1 .. handled \/ i = handled + 1
      OBVIOUS
    <3>2. ended # "refused"
      BY <1>1
    <3>3. \A i \in 1 .. handled : ~Refused(frames[i].body)
      BY <1>0, <3>2, Zenon DEF SentWhole
    <3>4. ~Refused(frames[handled + 1].body)
      BY <1>1, Zenon DEF Frame
    <3> QED
      BY <3>1, <3>3, <3>4, Zenon
  <2>4. ended' \notin {"client", "refused"}
    BY <1>1
  <2> QED
    BY <1>1, <2>1, <2>2, <2>3, <2>4, Zenon DEF SentWhole
<1> QED
  BY <1>10, <1>11, <1>12, <1>13, Zenon DEF PipeInv

(* A write takes bytes from the buffer to the backend, which gets them where they belong. *)
LEMMA PipeFlushes ==
  ASSUME IInv, PipeInv, NEW k \in 1 .. Len(buf), Flush(k)
  PROVE  PipeInv'
<1>0. PipeType /\ OneAtATime /\ PassedUnaltered /\ SentWhole
  BY DEF PipeInv
<1> USE PipeFacts, <1>0
<1>1. /\ ended = "no" /\ out' = out \o SubSeq(buf, 1, k)
      /\ buf' = SubSeq(buf, k + 1, Len(buf))
      /\ UNCHANGED <<builder, stream, recvd, frames, handled, ended>>
  BY DEF Flush, vars
<1> DEFINE s == SubSeq(buf, 1, k)
<1>2. /\ s \in Seq(Byte) /\ Len(s) = k
      /\ \A i \in 1 .. k : s[i] = buf[i]
  BY Fronted, Zenon
<1>3. out' = out \o s
  BY <1>1
<1> HIDE DEF s
<1>4. /\ out' \in Seq(Byte) /\ Len(out') = Len(out) + k
      /\ \A i \in 1 .. Len(out) + k :
           out'[i] = IF i <= Len(out) THEN out[i] ELSE s[i - Len(out)]
  <2>1. /\ out \o s \in Seq(Byte) /\ Len(out \o s) = Len(out) + Len(s)
        /\ \A i \in 1 .. Len(out) + Len(s) :
             (out \o s)[i] = IF i <= Len(out) THEN out[i] ELSE s[i - Len(out)]
    BY <1>2, ConcatProperties
  <2> QED
    BY <1>2, <1>3, <2>1, Zenon
<1>5. /\ buf' \in Seq(Byte) /\ Len(buf') = Len(buf) - k
      /\ \A i \in 1 .. Len(buf) - k : buf'[i] = buf[k + i]
  <2> DEFINE len == Len(buf)
  <2>1. buf \in Seq(Byte) /\ k \in Nat /\ len \in Nat /\ k <= len /\ len <= Len(buf)
    OBVIOUS
  <2> HIDE DEF len
  <2>2. /\ SubSeq(buf, k + 1, len) \in Seq(Byte)
        /\ Len(SubSeq(buf, k + 1, len)) = len - k
        /\ \A i \in 1 .. len - k : SubSeq(buf, k + 1, len)[i] = buf[k + i]
    BY ONLY <2>1, SlicedWithin, SMT
  <2> QED
    BY <1>1, <2>2, Zenon DEF len
<1>6. Len(out') + Len(buf') = Len(out) + Len(buf)
  BY <1>4, <1>5
<1>7. ASSUME NEW i \in 1 .. Len(out')
      PROVE  out'[i] = stream[i]
  <2>1. i \in 1 .. Len(out) + k
    BY <1>4
  <2>2. CASE i <= Len(out)
    <3>1. i \in 1 .. Len(out)
      BY <2>1, <2>2
    <3> QED
      BY <1>4, <2>1, <2>2, <3>1, Zenon DEF PassedUnaltered
  <2>3. CASE ~(i <= Len(out))
    <3>1. /\ i - Len(out) \in 1 .. k /\ i - Len(out) \in 1 .. Len(buf)
          /\ Len(out) + (i - Len(out)) = i
      BY <2>1, <2>3
    <3>2. buf[i - Len(out)] = stream[Len(out) + (i - Len(out))]
      BY <3>1, Zenon DEF PassedUnaltered
    <3> QED
      BY <1>2, <1>4, <2>1, <2>3, <3>1, <3>2, Zenon
  <2> QED
    BY <2>2, <2>3, Zenon
<1>8. ASSUME NEW i \in 1 .. Len(buf')
      PROVE  buf'[i] = stream[Len(out') + i]
  <2>1. /\ i \in 1 .. Len(buf) - k /\ k + i \in 1 .. Len(buf)
        /\ Len(out) + (k + i) = Len(out') + i
    BY <1>4, <1>5
  <2>2. buf[k + i] = stream[Len(out) + (k + i)]
    BY <2>1, Zenon DEF PassedUnaltered
  <2> QED
    BY <1>5, <2>1, <2>2, Zenon
<1>9. PipeType'
  BY <1>1, <1>4, <1>5 DEF PipeType
<1>10. OneAtATime'
  <2>1. buf # <<>>
    BY EmptyFacts
  <2> QED
    BY <1>1, <2>1 DEF OneAtATime
<1>11. PassedUnaltered'
  BY <1>1, <1>6, <1>7, <1>8 DEF PassedUnaltered
<1>12. SentWhole'
  <2>1. SentEnd' = SentEnd
    BY <1>1 DEF SentEnd
  <2>2. ended' \notin {"client", "refused"} /\ ended # "dropped"
    BY <1>1
  <2>3. Len(out') + Len(buf') = SentEnd'
    BY <1>6, <2>1, <2>2, Zenon DEF SentWhole
  <2> QED
    BY <1>1, <2>2, <2>3, Zenon DEF SentWhole
<1> QED
  BY <1>9, <1>10, <1>11, <1>12, Zenon DEF PipeInv

(* decode() returns at most one frame, behind those that have been handled. *)
LEMMA PipeCuts ==
  ASSUME IInv, PipeInv, Cut
  PROVE  PipeInv'
<1>0. PipeType /\ OneAtATime /\ PassedUnaltered /\ SentWhole
  BY DEF PipeInv
<1> USE PipeFacts, <1>0
<1>1. /\ ended = "no" /\ buf = <<>> /\ handled = Len(frames) /\ decode
      /\ UNCHANGED <<handled, buf, out, ended>>
  BY DEF Cut, Reads, pipeVars
<1>2. /\ UNCHANGED <<builder, stream, recvd>>
      /\ Len(frames') = Len(frames) \/ Len(frames') = Len(frames) + 1
      /\ \A i \in 1 .. Len(frames) : frames'[i] = frames[i]
  BY <1>1, FramesGrow
<1>3. PipeType'
  BY <1>1, <1>2 DEF PipeType
<1>4. OneAtATime'
  <2> SUFFICES ASSUME handled' < Len(frames')
               PROVE  /\ Len(frames') = handled' + 1
                      /\ frames'[handled' + 1].at + 4 <= recvd'
    BY <1>1, Zenon DEF OneAtATime
  <2>1. Len(frames') = Len(frames) + 1
    BY <1>1, <1>2
  <2>2. frames' # frames
    BY <2>1
  <2>3. CASE DecodeHeadAndData
    <3> DEFINE f == [at |-> pos, body |-> SubSeq(stream, BodyStart(builder, pos) + 1,
                       BodyStart(builder, pos) + AdjustedLength(builder, stream, pos))]
    <3>1. HeadArrived /\ frames' = Append(frames, f)
      BY <2>3, Zenon DEF DecodeHeadAndData, DecodeData
    <3>2. f.at = pos
      OBVIOUS
    <3> HIDE DEF f
    <3>3. frames'[Len(frames) + 1] = f
      BY <3>1
    <3>4. pos + 4 <= recvd
      BY <3>1 DEF HeadArrived, Buffered
    <3> QED
      BY <1>1, <1>2, <2>1, <3>2, <3>3, <3>4
  <2>4. CASE DecodeRest
    <3> DEFINE f == [at |-> pos - GetNumSkip(builder), body |-> SubSeq(stream, pos + 1, pos + state)]
    <3>1. frames' = Append(frames, f)
      BY <2>4, Zenon DEF DecodeRest, DecodeData
    <3>2. f.at = pos - 4
      OBVIOUS
    <3> HIDE DEF f
    <3>3. frames'[Len(frames) + 1] = f
      BY <3>1
    <3>4. (pos - 4) + 4 <= recvd
      OBVIOUS
    <3> QED
      BY <1>1, <1>2, <2>1, <3>2, <3>3, <3>4
  <2> QED
    BY <1>1, <2>2, <2>3, <2>4 DEF decode, DecodeHeadFails, DecodeHeadOnly
<1>5. PassedUnaltered'
  BY <1>1, <1>2 DEF PassedUnaltered
<1>6. \A i \in 1 .. handled : frames'[i] = frames[i]
  BY <1>1, <1>2
<1>7. SentEnd' = SentEnd
  <2>1. CASE handled = 0
    BY <1>1, <2>1 DEF SentEnd
  <2>2. CASE handled # 0
    <3>1. frames'[handled] = frames[handled]
      <4>1. handled \in 1 .. handled
        BY <2>2
      <4> QED
        BY <1>6, <4>1, Zenon
    <3> QED
      BY <1>1, <1>2, <3>1, Zenon DEF SentEnd
  <2> QED
    BY <2>1, <2>2
<1>8. SentWhole'
  <2>1. ended' \notin {"client", "refused"}
    BY <1>1
  <2> QED
    BY <1>1, <1>6, <1>7, <2>1, Zenon DEF SentWhole
<1> QED
  BY <1>3, <1>4, <1>5, <1>8, Zenon DEF PipeInv

(* The pipe ends: by itself, with an empty buffer, or dropped with what was in it. *)
LEMMA PipeEnded ==
  ASSUME IInv, PipeInv, EndOfClient \/ RefuseFrame \/ Dropped
  PROVE  PipeInv'
<1>0. PipeType /\ OneAtATime /\ PassedUnaltered /\ SentWhole
  BY DEF PipeInv
<1> USE PipeFacts, <1>0
<1>1. CASE EndOfClient
  <2>1. /\ ended = "no" /\ ended' = "client" /\ buf = <<>> /\ handled = Len(frames)
        /\ UNCHANGED <<builder, stream, recvd, frames, handled, buf, out>>
    BY <1>1 DEF EndOfClient, Reads, vars
  <2>2. SentEnd' = SentEnd
    BY <2>1 DEF SentEnd
  <2>3. PipeType' /\ OneAtATime' /\ PassedUnaltered'
    BY <2>1 DEF PipeType, OneAtATime, PassedUnaltered
  <2>4. SentWhole'
    <3>1. ended # "dropped" /\ ended # "refused"
      BY <2>1
    <3>2. Len(out') + Len(buf') = SentEnd'
      BY <2>1, <2>2, <3>1 DEF SentWhole
    <3>3. \A i \in 1 .. handled : ~Refused(frames[i].body)
      BY <3>1, Zenon DEF SentWhole
    <3> QED
      BY <2>1, <3>2, <3>3, Zenon DEF SentWhole
  <2> QED
    BY <2>3, <2>4, Zenon DEF PipeInv
<1>2. CASE RefuseFrame
  <2>1. /\ ended = "no" /\ ended' = "refused" /\ handled < Len(frames)
        /\ handled' = handled + 1
        /\ UNCHANGED <<builder, stream, recvd, frames, buf, out>>
    BY <1>2 DEF RefuseFrame, HasFrame, vars
  <2>2. Len(frames) = handled + 1 /\ buf = <<>>
    BY <2>1 DEF OneAtATime
  <2>3. SentEnd' = SentEnd
    <3>1. frames[handled + 1].at = SentEnd
      BY <2>1, FrameAt
    <3>2. SentEnd' = frames[handled + 1].at
      BY <2>1 DEF SentEnd
    <3> QED
      BY <3>1, <3>2
  <2>4. PipeType' /\ OneAtATime' /\ PassedUnaltered'
    BY <2>1, <2>2 DEF PipeType, OneAtATime, PassedUnaltered
  <2>5. SentWhole'
    <3>1. ended # "dropped" /\ ended # "refused"
      BY <2>1
    <3>2. Len(out') + Len(buf') = SentEnd'
      BY <2>1, <2>3, <3>1 DEF SentWhole
    <3>3. \A i \in 1 .. handled : ~Refused(frames[i].body)
      BY <3>1, Zenon DEF SentWhole
    <3>4. \A i \in 1 .. handled + 1 : i \in 1 .. handled \/ i = handled + 1
      OBVIOUS
    <3> QED
      BY <2>1, <2>2, <3>2, <3>3, <3>4, Zenon DEF SentWhole
  <2> QED
    BY <2>4, <2>5, Zenon DEF PipeInv
<1>3. CASE Dropped
  <2>1. /\ ended = "no" /\ ended' = "dropped" /\ buf' = <<>> /\ Len(buf') = 0
        /\ UNCHANGED <<builder, stream, recvd, frames, handled, out>>
    BY <1>3, EmptyFacts DEF Dropped, vars
  <2>2. PipeType' /\ OneAtATime'
    BY <2>1, EmptyFacts DEF PipeType, OneAtATime
  <2>3. PassedUnaltered'
    BY <2>1 DEF PassedUnaltered
  <2>4. SentWhole'
    <3>1. ended # "refused" /\ ended' \notin {"client", "refused"}
      BY <2>1
    <3> QED
      BY <2>1, <3>1, Zenon DEF SentWhole
  <2> QED
    BY <2>2, <2>3, <2>4, Zenon DEF PipeInv
<1> QED
  BY <1>1, <1>2, <1>3

(* Every step keeps what the pipe promises. *)
LEMMA StepPipe == IInv /\ PipeInv /\ [PipeNext]_allVars => (IInv /\ PipeInv)'
<1> SUFFICES ASSUME IInv, PipeInv, [PipeNext]_allVars PROVE (IInv /\ PipeInv)'
  OBVIOUS
<1>0. IInv'
  BY PipeStep, StepIInv
<1>1. CASE Arrives \/ UNCHANGED allVars
  <2>1. /\ UNCHANGED <<builder, stream, frames, handled, buf, out, ended>>
        /\ recvd' \in Nat /\ recvd <= recvd'
    <3>1. recvd \in Nat
      BY PipeFacts DEF PipeInv
    <3> QED
      BY <1>1, <3>1 DEF Arrives, Arrive, Receive, pipeVars, allVars, vars
  <2>2. PipeType /\ OneAtATime /\ PassedUnaltered /\ SentWhole
    BY DEF PipeInv
  <2>3. PipeType'
    BY <2>1, <2>2 DEF PipeType
  <2>4. OneAtATime'
    <3> SUFFICES ASSUME handled < Len(frames) PROVE frames[handled + 1].at + 4 <= recvd'
      BY <2>1, <2>2 DEF OneAtATime
    <3> DEFINE at == frames[handled + 1].at
    <3>1. at \in Nat /\ at + 4 <= recvd
      <4>1. handled + 1 \in 1 .. Len(frames)
        BY <2>2, PipeFacts
      <4> QED
        BY <2>2, <4>1, FrameTypes, Zenon DEF OneAtATime
    <3>2. recvd \in Nat
      BY <2>2, PipeFacts
    <3> HIDE DEF at
    <3>3. at + 4 <= recvd'
      BY <2>1, <3>1, <3>2
    <3> QED
      BY <3>3 DEF at
  <2>5. PassedUnaltered'
    <3>1. Len(out) + Len(buf) <= recvd'
      BY <2>1, <2>2, PipeFacts DEF PassedUnaltered
    <3> QED
      BY <2>1, <2>2, <3>1, Zenon DEF PassedUnaltered
  <2>6. SentWhole'
    <3>1. SentEnd' = SentEnd
      BY <2>1 DEF SentEnd
    <3> QED
      BY <2>1, <2>2, <3>1 DEF SentWhole
  <2> QED
    BY <1>0, <2>3, <2>4, <2>5, <2>6, Zenon DEF PipeInv
<1>2. CASE Cut
  BY <1>0, <1>2, PipeCuts
<1>3. CASE SendFrame
  BY <1>0, <1>3, PipeSends
<1>4. CASE Flushes
  BY <1>0, <1>4, PipeFlushes DEF Flushes
<1>5. CASE EndOfClient \/ RefuseFrame \/ Dropped
  BY <1>0, <1>5, PipeEnded
<1> QED
  BY <1>1, <1>2, <1>3, <1>4, <1>5 DEF PipeNext

-----------------------------------------------------------------------------
(* The stream read at once *)

(* EndOfFrames is what its recursive definition says, and no frame ends before it begins. *)
LEMMA EndOfFramesIs ==
  ASSUME NEW b \in BuilderType, NEW s \in Seq(Byte), GetNumSkip(b) > 0
  PROVE  \A p \in 0 .. Len(s) :
           /\ EndOfFrames(b, s)[p] \in p .. Len(s)
           /\ EndOfFrames(b, s)[p] = IF NoFrameBehind(b, s, p) \/ Refused(FrameBehind(b, s, p))
                                     THEN p ELSE EndOfFrames(b, s)[BodyEnd(b, s, p)]
<1> DEFINE S == 0 .. Len(s)
           Stop == {p \in S : NoFrameBehind(b, s, p) \/ Refused(FrameBehind(b, s, p))}
           m == [p \in S |-> Len(s) - p]
           base == [p \in S |-> p]
           nx == [p \in S |-> BodyEnd(b, s, p)]
           g == [p \in S |-> [e \in S |-> e]]
           Eq(r) == [p \in S |-> IF NoFrameBehind(b, s, p) \/ Refused(FrameBehind(b, s, p))
                                 THEN p ELSE r[BodyEnd(b, s, p)]]
<1>1. Len(s) \in Nat /\ m \in [S -> 0 .. Len(s)]
  BY LenProperties
<1>2. base \in [S -> S] /\ g \in [S -> [S -> S]]
  BY Zenon
<1>3. \A p \in S : p \notin Stop => BodyEnd(b, s, p) \in S /\ p < BodyEnd(b, s, p)
  BY FrameWithin, Zenon
<1>4. \A p \in S : p \notin Stop => nx[p] \in S /\ m[nx[p]] < m[p]
  <2> SUFFICES ASSUME NEW p \in S, p \notin Stop PROVE nx[p] \in S /\ m[nx[p]] < m[p]
    OBVIOUS
  <2> DEFINE e == BodyEnd(b, s, p)
  <2>1. e \in S /\ p < e
    BY <1>3, Zenon
  <2>2. nx[p] = e
    OBVIOUS
  <2> HIDE DEF e, nx
  <2> QED
    BY <1>1, <2>1, <2>2
<1>5. \A p \in S : /\ base[p] = p /\ nx[p] = BodyEnd(b, s, p)
                   /\ p \in Stop <=> NoFrameBehind(b, s, p) \/ Refused(FrameBehind(b, s, p))
                   /\ \A e \in S : g[p][e] = e
  BY Zenon
<1>6. \A p \in S : m[p] = Len(s) - p /\ p \in Nat
  BY <1>1
<1>7. Recursive(S, S, Stop, Len(s), m, base, g, nx)
  BY <1>1, <1>2, <1>4, Zenon DEF Recursive
<1> HIDE DEF m, base, nx, g, Stop
<1>8. IsDefined(S, S, Stop, base, g, nx)
  BY <1>7, RecursionDefines, Zenon
<1>9. PICK f \in [S -> S] :
        \A p \in S : f[p] = IF p \in Stop THEN base[p] ELSE g[p][f[nx[p]]]
  BY <1>8 DEF IsDefined
<1>10. ASSUME NEW p \in S
       PROVE  f[p] = IF NoFrameBehind(b, s, p) \/ Refused(FrameBehind(b, s, p))
                     THEN p ELSE f[BodyEnd(b, s, p)]
  <2>1. CASE p \in Stop
    BY <1>5, <1>9, <2>1, Zenon
  <2>2. CASE p \notin Stop
    <3>1. f[nx[p]] \in S
      BY <1>4, <1>9, <2>2, Zenon
    <3>2. f[p] = f[nx[p]]
      BY <1>5, <1>9, <2>2, <3>1, Zenon
    <3> QED
      BY <1>5, <2>2, <3>2, Zenon
  <2> QED
    BY <2>1, <2>2, Zenon
<1>11. f = Eq(f)
  BY <1>9, <1>10, Zenon
<1>12. EndOfFrames(b, s) = CHOOSE r : r = Eq(r)
  BY Zenon DEF EndOfFrames
<1> DEFINE E == EndOfFrames(b, s)
<1>13. E = Eq(E)
  <2> HIDE DEF Eq
  <2> QED
    BY <1>11, <1>12, Zenon
<1> HIDE DEF E
<1>14. \A p \in S : E[p] = IF NoFrameBehind(b, s, p) \/ Refused(FrameBehind(b, s, p))
                           THEN p ELSE E[BodyEnd(b, s, p)]
  BY <1>13, Zenon
<1> DEFINE T == {p \in S : E[p] \in p .. Len(s)}
<1>15. ASSUME NEW p \in S, \A q \in S : m[q] < m[p] => q \in T
       PROVE  p \in T
  <2>1. CASE p \in Stop
    <3>1. E[p] = p
      BY <1>5, <1>14, <2>1, Zenon
    <3> QED
      BY <1>1, <3>1
  <2>2. CASE p \notin Stop
    <3> DEFINE q == BodyEnd(b, s, p)
    <3>1. q \in S /\ p < q /\ q \in T
      BY <1>3, <1>4, <1>5, <1>15, <2>2, Zenon
    <3>2. E[p] = E[q]
      BY <1>5, <1>14, <2>2, Zenon
    <3> HIDE DEF q
    <3> QED
      BY <1>1, <3>1, <3>2
  <2> QED
    BY <2>1, <2>2, Zenon
<1>16. \A p \in S : m[p] \in Nat
  BY <1>1, <1>6
<1> HIDE DEF T
<1>17. S \subseteq T
  <2>1. InductiveIn(S, m, T)
    BY <1>15, <1>16, Zenon DEF InductiveIn
  <2> QED
    BY <2>1, MeasureInduction, Zenon
<1> QED
  BY <1>14, <1>17, Zenon DEF E, T

\* The inductive invariant next to IInv, PipeInv and AtOnceInv: reading on from where the
\* sent frames end gives the same end as reading from the beginning.
EndInv ==
  /\ builder \in Builders
  /\ Len(out) <= EndOfFrames(builder, stream)[0]
  /\ ended # "dropped" =>
       EndOfFrames(builder, stream)[0] = EndOfFrames(builder, stream)[SentEnd]
  /\ handled < Len(frames) /\ ended # "dropped" => ~NoFrameBehind(builder, stream, SentEnd)
  /\ ended = "refused" => Refused(FrameBehind(builder, stream, SentEnd))
  /\ ended = "client" => NoFrameBehind(builder, stream, SentEnd)

(* The place up to which the frames were sent is one in the stream, and where nothing
   waits to be handled it is that of the next head. *)
LEMMA SentWithin ==
  ASSUME IInv, PipeInv, ended # "dropped"
  PROVE  /\ SentEnd \in 0 .. Len(stream)
         /\ handled = Len(frames) /\ ended # "refused" => SentEnd = NextHead
<1>0. PipeType /\ OneAtATime /\ PassedUnaltered /\ SentWhole
  BY DEF PipeInv
<1> USE PipeFacts, <1>0
<1>1. SentEnd = Len(out) + Len(buf) /\ Len(out) + Len(buf) <= recvd
  BY Zenon DEF SentWhole, PassedUnaltered
<1>2. SentEnd \in 0 .. Len(stream)
  BY <1>1
<1>3. ASSUME handled = Len(frames), ended # "refused"
      PROVE  SentEnd = NextHead
  <2>1. CASE handled = 0
    <3>1. frames = <<>>
      BY <1>3, <2>1, EmptySeq
    <3> QED
      BY <2>1, <3>1 DEF SentEnd, IInv, FramesCutByTheirHeads
  <2>2. CASE handled # 0
    <3>1. handled \in 1 .. Len(frames)
      BY <1>3, <2>2
    <3>2. After(handled) = BodyEnd(builder, stream, frames[handled].at)
      BY <3>1 DEF IInv, FramesCutByTheirHeads
    <3> QED
      BY <1>3, <2>2, <3>2 DEF SentEnd, After
  <2> QED
    BY <2>1, <2>2
<1> QED
  BY <1>2, <1>3

(* What EndInv says of a pipe, as the property. *)
LEMMA EndIsRead ==
  ASSUME IInv, PipeInv, EndInv
  PROVE  BackendReadsTheFrames
<1>0. PipeType /\ OneAtATime /\ PassedUnaltered /\ SentWhole
  BY DEF PipeInv
<1> USE PipeFacts, <1>0
<1> DEFINE E == EndOfFrames(builder, stream)
<1>1. builder \in BuilderType /\ GetNumSkip(builder) > 0
  BY DEF IInv, TypeOK
<1>2. \A p \in 0 .. Len(stream) :
        NoFrameBehind(builder, stream, p) \/ Refused(FrameBehind(builder, stream, p)) => E[p] = p
  BY <1>1, EndOfFramesIs, Zenon
<1>3. ASSUME ended \in {"client", "refused"}
      PROVE  Len(out) = E[0]
  <2>1. ended # "dropped"
    BY <1>3
  <2>2. E[0] = SentEnd
    BY <1>2, <1>3, <2>1, SentWithin, Zenon DEF EndInv
  <2>3. SentEnd = Len(out) + Len(buf) /\ buf = <<>>
    BY <1>3, <2>1, Zenon DEF SentWhole
  <2>4. Len(buf) = 0
    BY <2>3, EmptyFacts
  <2> QED
    BY <2>2, <2>3, <2>4
<1>4. out = SubSeq(stream, 1, Len(out))
  <2>1. Len(out) <= Len(stream) /\ \A i \in 1 .. Len(out) : out[i] = stream[i]
    BY DEF PassedUnaltered
  <2> QED
    BY <2>1, IsFront, Zenon
<1>5. Len(out) <= E[0]
  BY DEF EndInv
<1> HIDE DEF E
<1>6. ended \in {"client", "refused"} => Len(out) = E[0]
  BY <1>3
<1> QED
  BY <1>4, <1>5, <1>6, Zenon DEF BackendReadsTheFrames, E

(* Nothing has been read. *)
LEMMA InitEnd == PipeInit => EndInv /\ AtOnceInv
<1> SUFFICES ASSUME PipeInit PROVE EndInv /\ AtOnceInv
  OBVIOUS
<1>0. IInv /\ PipeInv
  BY InitPipe
<1>1. /\ builder \in Builders /\ handled = 0 /\ ended = "no" /\ Len(frames) = 0 /\ Len(out) = 0
      /\ SentEnd = 0
  BY EmptyFacts DEF PipeInit, Init, SentEnd
<1>2. builder \in BuilderType /\ stream \in Seq(Byte) /\ GetNumSkip(builder) > 0
      /\ Len(stream) \in Nat
  BY <1>0, PipeFacts DEF IInv, TypeOK, PipeInv
<1>3. 0 \in 0 .. Len(stream)
  BY <1>2
<1>4. EndOfFrames(builder, stream)[0] \in 0 .. Len(stream)
  BY <1>2, <1>3, EndOfFramesIs, Zenon
<1>5. 0 <= EndOfFrames(builder, stream)[0]
  BY <1>2, <1>4
<1>6. EndInv
  BY <1>1, <1>5 DEF EndInv
<1> QED
  BY <1>1, <1>2, <1>6, InitAtOnce DEF PipeInit

(* When the loop asks for the next frame, and one is returned, it is in the stream. *)
LEMMA EndCuts ==
  ASSUME IInv, PipeInv, EndInv, AtOnceInv, Cut
  PROVE  EndInv'
<1>0. PipeType /\ OneAtATime /\ PassedUnaltered /\ SentWhole
  BY DEF PipeInv
<1> USE PipeFacts, <1>0
<1>1. /\ ended = "no" /\ handled = Len(frames) /\ decode
      /\ UNCHANGED <<handled, buf, out, ended>>
  BY DEF Cut, Reads, pipeVars
<1>2. /\ UNCHANGED <<builder, stream, recvd>>
      /\ Len(frames') = Len(frames) \/ Len(frames') = Len(frames) + 1
      /\ \A i \in 1 .. Len(frames) : frames'[i] = frames[i]
  BY <1>1, FramesGrow
<1>3. SentEnd' = SentEnd
  <2>1. handled # 0 => handled \in 1 .. Len(frames)
    BY <1>1
  <2> QED
    BY <1>1, <1>2, <2>1, Zenon DEF SentEnd
<1>4. ASSUME handled < Len(frames')
      PROVE  ~NoFrameBehind(builder, stream, SentEnd)
  <2>1. frames' # frames
    BY <1>1, <1>4
  <2>2. DecodeHeadAndData \/ DecodeRest
    BY <1>1, <2>1 DEF decode, DecodeHeadFails, DecodeHeadOnly
  <2>3. SentEnd = NextHead
    BY <1>1, SentWithin
  <2> QED
    BY <2>2, <2>3, ReturnsAFrame DEF EndInv
<1> QED
  BY <1>1, <1>2, <1>3, <1>4 DEF EndInv

(* A frame that is sent is one that counts; a refused one is where counting stops. *)
LEMMA EndHandles ==
  ASSUME IInv, PipeInv, EndInv, SendFrame \/ RefuseFrame
  PROVE  EndInv'
<1>0. PipeType /\ OneAtATime /\ PassedUnaltered /\ SentWhole
  BY DEF PipeInv
<1> USE PipeFacts, <1>0
<1> DEFINE E == EndOfFrames(builder, stream)
           at == frames[handled + 1].at
<1>1. /\ ended = "no" /\ handled < Len(frames) /\ handled' = handled + 1
      /\ UNCHANGED <<builder, stream, frames, out>>
  BY DEF SendFrame, RefuseFrame, HasFrame, vars
<1>2. Len(frames) = handled + 1 /\ handled + 1 \in 1 .. Len(frames) /\ handled + 1 # 0
  BY <1>1 DEF OneAtATime
<1>3. at = SentEnd /\ at \in 0 .. Len(stream) /\ ~NoFrameBehind(builder, stream, at)
      /\ E[0] = E[at] /\ builder \in Builders /\ Len(out) <= E[0]
  BY <1>1, FrameAt, SentWithin DEF EndInv
<1>4. Frame = FrameBehind(builder, stream, at)
  BY <1>2, Zenon DEF IInv, FramesCutByTheirHeads, Frame, FrameBehind
<1>5. builder \in BuilderType /\ GetNumSkip(builder) > 0
  BY DEF IInv, TypeOK
<1>6. E[at] = IF NoFrameBehind(builder, stream, at) \/ Refused(FrameBehind(builder, stream, at))
              THEN at ELSE E[BodyEnd(builder, stream, at)]
  BY <1>3, <1>5, EndOfFramesIs, Zenon
<1>7. EndOfFrames(builder', stream') = E
  BY <1>1, Zenon
<1>8. CASE SendFrame
  <2>1. ~Refused(Frame) /\ ended' = "no"
    BY <1>1, <1>8 DEF SendFrame
  <2>2. SentEnd' = BodyEnd(builder, stream, at)
    BY <1>1, <1>2, <2>1 DEF SentEnd
  <2>3. E[0] = E[SentEnd']
    BY <1>3, <1>4, <1>6, <2>1, <2>2, Zenon
  <2>4. ~(handled' < Len(frames'))
    BY <1>1, <1>2
  <2> HIDE DEF E
  <2> QED
    BY <1>1, <1>3, <1>7, <2>1, <2>3, <2>4 DEF EndInv
<1>9. CASE RefuseFrame
  <2>1. Refused(Frame) /\ ended' = "refused"
    BY <1>9 DEF RefuseFrame
  <2>2. SentEnd' = at
    BY <1>1, <1>2, <2>1 DEF SentEnd
  <2>3. ~(handled' < Len(frames'))
    BY <1>1, <1>2
  <2>4. E[0] = E[SentEnd'] /\ Refused(FrameBehind(builder, stream, SentEnd'))
    BY <1>3, <1>4, <2>1, <2>2, Zenon
  <2> HIDE DEF E
  <2> QED
    BY <1>1, <1>3, <1>7, <2>1, <2>3, <2>4 DEF EndInv
<1> QED
  BY <1>8, <1>9

(* Writing leaves room: what is in the buffer is of frames that count. *)
LEMMA EndFlushes ==
  ASSUME IInv, PipeInv, EndInv, NEW k \in 1 .. Len(buf), Flush(k), PipeInv', IInv'
  PROVE  EndInv'
<1>0. PipeType /\ OneAtATime /\ PassedUnaltered /\ SentWhole
  BY DEF PipeInv
<1> USE PipeFacts, <1>0
<1> DEFINE E == EndOfFrames(builder, stream)
<1>1. /\ ended = "no" /\ UNCHANGED <<builder, stream, frames, handled, ended>>
      /\ SentEnd' = SentEnd
  BY DEF Flush, vars, SentEnd
<1>2. /\ Len(out') + Len(buf') = SentEnd' /\ Len(out') \in Nat /\ Len(buf') \in Nat
  <2>1. SentWhole' /\ PipeType'
    BY DEF PipeInv
  <2>2. Len(out') + Len(buf') = SentEnd'
    BY <1>1, <2>1 DEF SentWhole
  <2>3. Len(out') \in Nat /\ Len(buf') \in Nat
    BY <2>1, LenProperties, Zenon DEF PipeType
  <2> QED
    BY <2>2, <2>3
<1>3. builder \in BuilderType /\ GetNumSkip(builder) > 0
  BY DEF IInv, TypeOK
<1>4. SentEnd \in 0 .. Len(stream)
  BY <1>1, SentWithin
<1>5. E[SentEnd] \in SentEnd .. Len(stream) /\ E[0] = E[SentEnd]
  BY <1>1, <1>3, <1>4, EndOfFramesIs, Zenon DEF EndInv
<1> HIDE DEF E
<1>6. Len(out') <= E[0]
  <2>1. SentEnd \in Nat /\ E[0] \in Int /\ SentEnd <= E[0]
    BY <1>4, <1>5
  <2>2. Len(out') + Len(buf') = SentEnd
    BY <1>1, <1>2
  <2> QED
    BY <1>2, <2>1, <2>2
<1> QED
  BY <1>1, <1>6 DEF EndInv, E

(* Every step of the pipe keeps to the stream read at once. *)
LEMMA StepEnd ==
  ASSUME IInv, PipeInv, EndInv, AtOnceInv, [PipeNext]_allVars
  PROVE  (EndInv /\ AtOnceInv)'
<1>0. PipeType /\ OneAtATime /\ PassedUnaltered /\ SentWhole
  BY DEF PipeInv
<1> USE PipeFacts, <1>0
<1>1. IInv' /\ PipeInv' /\ [Next]_vars
  BY StepPipe, PipeStep
<1>2. builder' = builder
  <2>1. decode => builder' = builder
    BY FramesGrow
  <2> QED
    BY <2>1 DEF PipeNext, allVars, vars, Arrives, Arrive, Receive, Cut, EndOfClient,
                RefuseFrame, SendFrame, Flushes, Flush, Dropped
<1>3. AtOnceInv'
  <2>1. GetNumSkip(builder) > 0
    OBVIOUS
  <2> QED
    BY <1>1, <1>2, <2>1, StepAtOnce
<1>4. CASE Arrives \/ UNCHANGED allVars
  <2>1. UNCHANGED <<builder, stream, frames, handled, out, ended>>
    BY <1>4 DEF Arrives, Arrive, Receive, pipeVars, allVars, vars
  <2> QED
    BY <1>3, <2>1 DEF EndInv, SentEnd
<1>5. CASE Cut
  BY <1>3, <1>5, EndCuts
<1>6. CASE SendFrame \/ RefuseFrame
  BY <1>3, <1>6, EndHandles
<1>7. CASE Flushes
  BY <1>1, <1>3, <1>7, EndFlushes DEF Flushes
<1>8. CASE Dropped
  <2>1. ended' = "dropped" /\ UNCHANGED <<builder, stream, out>>
    BY <1>8 DEF Dropped, vars
  <2> QED
    BY <1>3, <2>1 DEF EndInv
<1>9. CASE EndOfClient
  <2>1. /\ ended = "no" /\ handled = Len(frames) /\ ended' = "client"
        /\ UNCHANGED <<builder, stream, frames, handled, out>>
        /\ status = "error" \/ Drained
    BY <1>9 DEF EndOfClient, Reads, vars, Starved, Drained
  <2>2. NoFrameBehind(builder, stream, SentEnd)
    BY <2>1, NothingIsLeft, SentWithin DEF EndInv
  <2>3. SentEnd' = SentEnd
    BY <2>1 DEF SentEnd
  <2> QED
    BY <1>3, <2>1, <2>2, <2>3 DEF EndInv
<1> QED
  BY <1>4, <1>5, <1>6, <1>7, <1>8, <1>9 DEF PipeNext

-----------------------------------------------------------------------------
(* The theorems *)

(* UpStreamConnection::pipe is transparent: decoded, checked, encoded anew and flushed in
   pieces, a client's requests reach the backend as the very bytes that the client sent,
   for any stream and any chunks. *)
THEOREM BytesPassUnaltered == PipeSpec => []PassedUnaltered
<1>1. PipeInv => PassedUnaltered
  BY DEF PipeInv
<1> QED
  BY <1>1, InitPipe, StepPipe, PTL DEF PipeSpec

(* Only whole requests count, none of them refused, and a pipe that ends by itself, at the
   client's end of file or at a refused request, has nothing left to send. *)
THEOREM WholeFramesAreSent == PipeSpec => []SentWhole
<1>1. PipeInv => SentWhole
  BY DEF PipeInv
<1> QED
  BY <1>1, InitPipe, StepPipe, PTL DEF PipeSpec

(* What the backend reads is the beginning of the whole, unrefused frames of the client's
   stream read at once, and all of them when the pipe has ended by itself: no chunking, no
   partial write and no end of the client in the middle of a frame changes that. *)
THEOREM BackendReadsWholeFrames == PipeSpec => []BackendReadsTheFrames
<1>1. IInv /\ PipeInv /\ EndInv /\ AtOnceInv /\ [PipeNext]_allVars => (EndInv /\ AtOnceInv)'
  BY StepEnd
<1>2. IInv /\ PipeInv /\ EndInv => BackendReadsTheFrames
  BY EndIsRead
<1> QED
  BY <1>1, <1>2, InitPipe, InitEnd, StepPipe, PTL DEF PipeSpec

=============================================================================

-------------------------- MODULE LengthCodecProofs --------------------------
(* Proofs about LengthCodec, for every configuration, stream and way of cutting it; and that
   decode() undoes encode(), for every configuration whose length field comes first, every
   list of payloads and every way of cutting what was written. *)
EXTENDS LengthCodec, SequenceLemmas

\* The inductive invariant: what a frame was cut by can only be carried over a step that
\* finishes it in state Data(n) when n is known to be the length in its head.
IInv == TypeOK /\ RememberedLengthIsTheHeads /\ FramesCutByTheirHeads

-----------------------------------------------------------------------------
(* The operators *)

(* The head and the skipped bytes of a Builder are a natural number of bytes, and none of
   the skipped ones is beyond the head that decode_head() waits for. *)
LEMMA HeadBytes ==
  ASSUME NEW b \in BuilderType
  PROVE  /\ NumHeadBytes(b) \in Nat
         /\ GetNumSkip(b) \in Nat
         /\ GetNumSkip(b) <= NumHeadBytes(b)
         /\ b.length_field_offset \in Nat
         /\ b.length_field_len \in Nat
         /\ b.length_field_offset + b.length_field_len <= NumHeadBytes(b)
  BY DEF BuilderType, NumHeadBytes, GetNumSkip, NoSkip

(* get_uint() reads a number from a head that is wholly in the stream. *)
LEMMA LengthFieldType ==
  ASSUME NEW b \in BuilderType, NEW s \in Seq(Byte), NEW p \in Nat,
         p + NumHeadBytes(b) <= Len(s)
  PROVE  LengthField(b, s, p) \in Int
<1>1. ASSUME NEW i \in Nat
      PROVE  Octet(b, s, p, i) \in Int
  <2>1. CASE i >= b.length_field_len
    BY <2>1 DEF Octet
  <2>2. CASE i < b.length_field_len
    <3>1. /\ p + b.length_field_offset + b.length_field_len - i \in 1 .. Len(s)
          /\ p + b.length_field_offset + 1 + i \in 1 .. Len(s)
      <4> DEFINE off == b.length_field_offset
                 len == b.length_field_len
                 head == NumHeadBytes(b)
                 size == Len(s)
      <4>1. off \in Nat /\ len \in Nat /\ head \in Nat /\ off + len <= head
        BY HeadBytes
      <4>2. size \in Nat /\ p + head <= size
        BY LenProperties
      <4>3. i < len
        BY <2>2
      <4> HIDE DEF off, len, head, size
      <4>4. p + off + len - i \in 1 .. size /\ p + off + 1 + i \in 1 .. size
        BY <4>1, <4>2, <4>3
      <4> QED
        BY <4>4 DEF off, len, size
    <3>2. \A k \in 1 .. Len(s) : s[k] \in Int
      BY ConstantsAssumption DEF Byte
    <3> QED
      BY <2>2, <3>1, <3>2 DEF Octet, BuilderType
  <2> QED
    BY <2>1, <2>2 DEF BuilderType
<1>2. \A x, y \in Int : x + ByteBase * y \in Int
  BY ConstantsAssumption
<1> HIDE DEF Octet
<1> DEFINE o(i) == Octet(b, s, p, i)
<1>3. /\ o(0) \in Int /\ o(1) \in Int /\ o(2) \in Int /\ o(3) \in Int
      /\ o(4) \in Int /\ o(5) \in Int /\ o(6) \in Int /\ o(7) \in Int
  BY <1>1
<1> DEFINE up(x, y) == x + ByteBase * y
           l6 == up(o(6), o(7))
           l5 == up(o(5), l6)
           l4 == up(o(4), l5)
           l3 == up(o(3), l4)
           l2 == up(o(2), l3)
           l1 == up(o(1), l2)
<1> HIDE DEF o
<1>4. l6 \in Int BY <1>2, <1>3
<1> HIDE DEF l6
<1>5. l5 \in Int BY <1>2, <1>3, <1>4
<1> HIDE DEF l5
<1>6. l4 \in Int BY <1>2, <1>3, <1>5
<1> HIDE DEF l4
<1>7. l3 \in Int BY <1>2, <1>3, <1>6
<1> HIDE DEF l3
<1>8. l2 \in Int BY <1>2, <1>3, <1>7
<1> HIDE DEF l2
<1>9. l1 \in Int BY <1>2, <1>3, <1>8
<1> HIDE DEF l1
<1>10. up(o(0), l1) \in Int BY <1>2, <1>3, <1>9
<1>11. LengthField(b, s, p) = up(o(0), l1)
  BY Zenon DEF LengthField, o, l1, l2, l3, l4, l5, l6
<1> QED
  BY <1>10, <1>11

(* set_max_frame_length() changes nothing that the place and the length of a frame
   depend on. *)
LEMMA MaxIsNotInTheHead ==
  ASSUME NEW b \in BuilderType, NEW val \in Nat, NEW s, NEW p
  PROVE  LET c == [b EXCEPT !.max_frame_len = val]
         IN  /\ c \in BuilderType
             /\ GetNumSkip(c) = GetNumSkip(b)
             /\ BodyStart(c, p) = BodyStart(b, p)
             /\ AdjustedLength(c, s, p) = AdjustedLength(b, s, p)
             /\ BodyEnd(c, s, p) = BodyEnd(b, s, p)
<1> DEFINE c == [b EXCEPT !.max_frame_len = val]
<1>1. /\ c \in BuilderType
      /\ c.length_field_len = b.length_field_len
      /\ c.length_field_offset = b.length_field_offset
      /\ c.length_adjustment = b.length_adjustment
      /\ c.num_skip = b.num_skip
      /\ c.length_field_is_big_endian = b.length_field_is_big_endian
  BY DEF BuilderType
<1> HIDE DEF c
<1>2. GetNumSkip(c) = GetNumSkip(b)
  BY <1>1 DEF GetNumSkip
<1>3. \A i \in Int : Octet(c, s, p, i) = Octet(b, s, p, i)
  BY <1>1, Zenon DEF Octet
<1>4. LengthField(c, s, p) = LengthField(b, s, p)
  <2> HIDE DEF Octet
  <2>1. /\ Octet(c, s, p, 0) = Octet(b, s, p, 0) /\ Octet(c, s, p, 1) = Octet(b, s, p, 1)
        /\ Octet(c, s, p, 2) = Octet(b, s, p, 2) /\ Octet(c, s, p, 3) = Octet(b, s, p, 3)
        /\ Octet(c, s, p, 4) = Octet(b, s, p, 4) /\ Octet(c, s, p, 5) = Octet(b, s, p, 5)
        /\ Octet(c, s, p, 6) = Octet(b, s, p, 6) /\ Octet(c, s, p, 7) = Octet(b, s, p, 7)
    BY <1>3
  <2> QED
    BY <2>1, Zenon DEF LengthField
<1>5. AdjustedLength(c, s, p) = AdjustedLength(b, s, p)
  BY <1>1, <1>4, Zenon DEF AdjustedLength
<1> QED
  BY <1>1, <1>2, <1>5, Zenon DEF BodyStart, BodyEnd, c

-----------------------------------------------------------------------------
(* The steps *)

(* What decode() knows of a head it has accepted. *)
LEMMA AcceptedHead ==
  ASSUME TypeOK, HeadArrived, ~HeadRejected
  PROVE  /\ AdjustedLength(builder, stream, pos) \in Nat
         /\ BodyStart(builder, pos) \in 0 .. recvd
         /\ pos = BodyStart(builder, pos) - GetNumSkip(builder)
         /\ GetNumSkip(builder) \in Nat
<1> DEFINE skip == GetNumSkip(builder)
           head == NumHeadBytes(builder)
           field == LengthField(builder, stream, pos)
           adj == builder.length_adjustment
<1>1. /\ builder \in BuilderType /\ stream \in Seq(Byte)
      /\ recvd \in Nat /\ pos \in Nat /\ pos <= recvd /\ recvd <= Len(stream)
      /\ Len(stream) \in Nat
  BY LenProperties DEF TypeOK
<1>2. /\ skip \in Nat /\ head \in Nat /\ skip <= head
      /\ adj \in Int
  BY <1>1, HeadBytes DEF BuilderType
<1>3. head <= recvd - pos
  BY <1>1, <1>2 DEF HeadArrived, Buffered
<1> HIDE DEF skip, head
<1>4. pos + head <= Len(stream)
  BY <1>1, <1>2, <1>3
<1>5. field \in Int
  BY <1>1, <1>4, LengthFieldType DEF head
<1>6. AdjustedLength(builder, stream, pos) = field + adj
  BY DEF AdjustedLength
<1>7. ~LengthOverflows(field + adj)
  BY <1>6 DEF HeadRejected
<1> HIDE DEF field, adj
<1>8. field + adj \in Nat
  BY <1>2, <1>5, <1>7 DEF LengthOverflows
<1>9. BodyStart(builder, pos) = pos + skip
  BY DEF BodyStart, skip
<1>10. pos + skip \in 0 .. recvd /\ pos = (pos + skip) - skip
  BY <1>1, <1>2, <1>3
<1> QED
  BY <1>2, <1>6, <1>8, <1>9, <1>10 DEF skip

(* The bytes of a frame that ends within the stream are bytes of the stream. *)
LEMMA WithinBounds ==
  ASSUME NEW f \in Nat, NEW m \in Nat, NEW r \in Nat, NEW l \in Nat,
         r >= f + m, r <= l
  PROVE  \A i \in f + 1 .. f + m : i \in 1 .. l
  OBVIOUS

(* decode_data() returns a frame: it is the one that the head at NextHead cuts out, and the
   next head is right behind it. *)
LEMMA DecodeDataStep ==
  ASSUME IInv,
         NEW at, NEW from, NEW n,
         at = NextHead, at \in Nat,
         from = BodyStart(builder, at), from \in Nat,
         n = AdjustedLength(builder, stream, at), n \in Nat,
         DecodeData(at, from, n)
  PROVE  IInv'
<1> DEFINE new == [at |-> at, body |-> SubSeq(stream, from + 1, from + n)]
           Frame == [at : Nat, body : Seq(Byte)]
<1>1. /\ recvd >= from + n
      /\ frames' = Append(frames, new)
      /\ pos' = from + n
      /\ state' = Head_
      /\ builder' = builder /\ stream' = stream /\ recvd' = recvd /\ status' = status
  BY DEF DecodeData
<1>2. /\ stream \in Seq(Byte) /\ recvd \in Nat /\ recvd <= Len(stream)
      /\ Len(stream) \in Nat
      /\ frames \in Seq(Frame)
  BY LenProperties DEF IInv, TypeOK
<1>3. new \in Frame
  <2>1. \A i \in from + 1 .. from + n : stream[i] \in Byte
    <3>1. \A i \in from + 1 .. from + n : i \in 1 .. Len(stream)
      BY <1>1, <1>2, WithinBounds
    <3> QED
      BY <1>2, <3>1, ElementOfSeq
  <2>2. SubSeq(stream, from + 1, from + n) \in Seq(Byte)
    BY <2>1, SubSeqProperties
  <2> QED
    BY <2>2
<1>10. new.at = at /\ new.body = SubSeq(stream, from + 1, from + n)
  OBVIOUS
<1> HIDE DEF new, Frame
<1>4. /\ frames' \in Seq(Frame)
      /\ Len(frames') = Len(frames) + 1
      /\ \A i \in 1 .. Len(frames) : frames'[i] = frames[i]
      /\ frames'[Len(frames) + 1] = new
      /\ frames' # <<>>
      /\ Len(frames) \in Nat
  <2>1. /\ Append(frames, new) \in Seq(Frame)
        /\ Append(frames, new) # <<>>
        /\ Len(Append(frames, new)) = Len(frames) + 1
        /\ \A i \in 1 .. Len(frames) : Append(frames, new)[i] = frames[i]
        /\ Append(frames, new)[Len(frames) + 1] = new
    BY <1>2, <1>3, AppendProperties, Zenon
  <2>2. Len(frames) \in Nat
    BY <1>2, LenProperties, Zenon
  <2> QED
    BY <1>1, <2>1, <2>2, Zenon
<1>5. TypeOK'
  <2>1. from + n \in 0 .. recvd
    BY <1>1, <1>2
  <2> QED
    BY <1>1, <1>4, <2>1 DEF IInv, TypeOK, Head_, Frame
<1>6. RememberedLengthIsTheHeads'
  BY <1>1 DEF RememberedLengthIsTheHeads
<1>7. NextHead' = from + n
  BY <1>1 DEF NextHead
<1>8. BodyEnd(builder, stream, at) = from + n
  BY DEF BodyEnd
<1>9. FramesCutByTheirHeads'
  <2>1. frames'[1].at = 0
    <3>1. CASE Len(frames) = 0
      <4>1. frames = <<>>
        BY <1>2, <3>1, EmptySeq
      <4>2. at = 0
        BY <4>1 DEF IInv, FramesCutByTheirHeads
      <4>3. frames'[0 + 1] = new
        BY <1>4, <3>1, Zenon
      <4>4. frames'[1] = new
        BY <4>3
      <4> QED
        BY <1>10, <4>2, <4>4
    <3>2. CASE Len(frames) # 0
      <4>1. frames # <<>> /\ 1 \in 1 .. Len(frames)
        BY <1>4, <3>2
      <4> QED
        BY <1>4, <4>1 DEF IInv, FramesCutByTheirHeads
    <3> QED
      BY <3>1, <3>2
  <2>2. ASSUME NEW i \in 1 .. Len(frames')
        PROVE  /\ frames'[i].body = SubSeq(stream, BodyStart(builder, frames'[i].at) + 1,
                                           BodyEnd(builder, stream, frames'[i].at))
               /\ After(i)' = BodyEnd(builder, stream, frames'[i].at)
    <3>1. CASE i = Len(frames) + 1
      <4>1. frames'[i].at = at /\ frames'[i].body = SubSeq(stream, from + 1, from + n)
        BY <1>4, <1>10, <3>1
      <4>2. After(i)' = from + n
        BY <1>4, <1>7, <3>1 DEF After
      <4> QED
        BY <1>8, <4>1, <4>2
    <3>2. CASE i # Len(frames) + 1
      <4>1. i \in 1 .. Len(frames) /\ i # Len(frames')
        BY <1>4, <3>2
      <4>2. /\ frames[i].body = SubSeq(stream, BodyStart(builder, frames[i].at) + 1,
                                       BodyEnd(builder, stream, frames[i].at))
            /\ After(i) = BodyEnd(builder, stream, frames[i].at)
        BY <4>1 DEF IInv, FramesCutByTheirHeads
      <4>3. After(i)' = frames'[i + 1].at
        BY <4>1 DEF After
      <4>4. frames'[i + 1].at = After(i)
        <5>1. CASE i = Len(frames)
          BY <1>4, <1>10, <5>1 DEF After
        <5>2. CASE i # Len(frames)
          <6>1. i + 1 \in 1 .. Len(frames)
            BY <1>4, <4>1, <5>2
          <6> QED
            BY <1>4, <5>2, <6>1 DEF After
        <5> QED
          BY <5>1, <5>2
      <4> QED
        BY <1>4, <4>1, <4>2, <4>3, <4>4
    <3> QED
      BY <3>1, <3>2
  <2> QED
    BY <1>1, <1>4, <2>1, <2>2 DEF FramesCutByTheirHeads
<1> QED
  BY <1>5, <1>6, <1>9 DEF IInv

(* The invariant holds in the initial states of a new codec. *)
LEMMA InitIInv == Init => IInv
<1> SUFFICES ASSUME Init PROVE IInv
  OBVIOUS
<1>1. /\ builder \in BuilderType /\ stream \in Seq(Byte) /\ Len(stream) \in Nat
  BY ConstantsAssumption, LenProperties DEF Init
<1>2. TypeOK
  BY <1>1, EmptySeq DEF Init, TypeOK
<1>3. RememberedLengthIsTheHeads
  BY DEF Init, RememberedLengthIsTheHeads
<1>4. FramesCutByTheirHeads
  <2>1. frames = <<>> /\ Len(frames) = 0 /\ NextHead = 0
    BY DEF Init, NextHead
  <2> QED
    BY <2>1 DEF FramesCutByTheirHeads
<1> QED
  BY <1>2, <1>3, <1>4 DEF IInv

(* What a step leaves alone when it changes neither the frames nor where the next head is. *)
LEMMA FramesKept ==
  ASSUME FramesCutByTheirHeads,
         frames' = frames, stream' = stream,
         NextHead' = NextHead,
         \A p : /\ BodyStart(builder', p) = BodyStart(builder, p)
               /\ BodyEnd(builder', stream, p) = BodyEnd(builder, stream, p)
  PROVE  FramesCutByTheirHeads'
<1>1. \A i : After(i)' = After(i)
  BY DEF After
<1> QED
  BY <1>1 DEF FramesCutByTheirHeads

(* Every step keeps the invariant. *)
LEMMA StepIInv == IInv /\ [Next]_vars => IInv'
<1> SUFFICES ASSUME IInv, [Next]_vars PROVE IInv'
  OBVIOUS
<1> USE DEF IInv
<1>1. CASE UNCHANGED vars
  BY <1>1 DEF vars, TypeOK, RememberedLengthIsTheHeads, FramesCutByTheirHeads, NextHead, After
<1>2. ASSUME NEW k \in 1 .. Len(stream), Receive(k)
      PROVE  IInv'
  <2>1. UNCHANGED <<builder, state, stream, pos, frames, status>>
    BY <1>2 DEF Receive
  <2>2. TypeOK'
    BY <1>2, <2>1, LenProperties DEF Receive, TypeOK
  <2>3. NextHead' = NextHead
    BY <2>1 DEF NextHead
  <2>4. RememberedLengthIsTheHeads'
    BY <2>1, <2>3 DEF RememberedLengthIsTheHeads
  <2>5. FramesCutByTheirHeads'
    BY <2>1, <2>3, FramesKept
  <2> QED
    BY <2>2, <2>4, <2>5
<1>3. CASE DecodeHeadFails
  BY <1>3 DEF DecodeHeadFails, TypeOK, RememberedLengthIsTheHeads, FramesCutByTheirHeads,
              NextHead, After
<1>4. CASE DecodeHeadOnly
  <2>1. /\ HeadArrived /\ ~HeadRejected
        /\ pos' = BodyStart(builder, pos)
        /\ state' = AdjustedLength(builder, stream, pos)
        /\ UNCHANGED <<builder, stream, recvd, frames, status>>
    BY <1>4 DEF DecodeHeadOnly
  <2>2. /\ state' \in Nat /\ pos' \in 0 .. recvd
        /\ pos = pos' - GetNumSkip(builder)
    BY <2>1, AcceptedHead
  <2>3. state = Head_ /\ state' # Head_
    BY <2>1, <2>2 DEF HeadArrived, Head_
  <2>4. TypeOK'
    BY <2>1, <2>2 DEF TypeOK
  <2>5. NextHead = pos /\ NextHead' = pos
    BY <2>1, <2>2, <2>3 DEF NextHead
  <2>6. RememberedLengthIsTheHeads'
    BY <2>1, <2>5 DEF RememberedLengthIsTheHeads, TypeOK
  <2>7. FramesCutByTheirHeads'
    BY <2>1, <2>5, FramesKept
  <2> QED
    BY <2>4, <2>6, <2>7
<1>5. CASE DecodeHeadAndData
  <2>1. /\ HeadArrived /\ ~HeadRejected
        /\ DecodeData(pos, BodyStart(builder, pos), AdjustedLength(builder, stream, pos))
    BY <1>5 DEF DecodeHeadAndData
  <2>2. /\ AdjustedLength(builder, stream, pos) \in Nat
        /\ BodyStart(builder, pos) \in Nat
    BY <2>1, AcceptedHead
  <2>3. pos = NextHead /\ pos \in Nat
    BY <2>1 DEF HeadArrived, NextHead, TypeOK
  <2> QED
    BY <2>1, <2>2, <2>3, DecodeDataStep
<1>6. CASE DecodeRest
  <2>1. state # Head_ /\ DecodeData(pos - GetNumSkip(builder), pos, state)
    BY <1>6 DEF DecodeRest
  <2>2. /\ NextHead = pos - GetNumSkip(builder)
        /\ NextHead >= 0
        /\ state = AdjustedLength(builder, stream, NextHead)
    BY <2>1 DEF NextHead, RememberedLengthIsTheHeads
  <2>3. pos \in Nat /\ state \in Nat /\ GetNumSkip(builder) \in Nat
    BY <2>1, HeadBytes DEF TypeOK
  <2>4. NextHead \in Nat /\ pos = NextHead + GetNumSkip(builder)
    BY <2>2, <2>3
  <2>5. pos = BodyStart(builder, NextHead)
    BY <2>4 DEF BodyStart
  <2> QED
    BY <2>1, <2>2, <2>3, <2>4, <2>5, DecodeDataStep
<1>7. ASSUME NEW val \in MaxLens, set_max_frame_length(val)
      PROVE  IInv'
  <2>1. /\ builder' = [builder EXCEPT !.max_frame_len = val]
        /\ UNCHANGED <<state, stream, recvd, pos, frames, status>>
    BY <1>7 DEF set_max_frame_length, max_frame_length
  <2>2. val \in Nat /\ builder \in BuilderType
    BY ConstantsAssumption DEF TypeOK
  <2>3. /\ builder' \in BuilderType
        /\ GetNumSkip(builder') = GetNumSkip(builder)
    BY <2>1, <2>2, MaxIsNotInTheHead
  <2>4. \A p : /\ BodyStart(builder', p) = BodyStart(builder, p)
              /\ BodyEnd(builder', stream, p) = BodyEnd(builder, stream, p)
              /\ AdjustedLength(builder', stream, p) = AdjustedLength(builder, stream, p)
    BY <2>1, <2>2, MaxIsNotInTheHead
  <2>5. TypeOK'
    BY <2>1, <2>3 DEF TypeOK
  <2>6. NextHead' = NextHead
    BY <2>1, <2>3 DEF NextHead
  <2>7. RememberedLengthIsTheHeads'
    BY <2>1, <2>4, <2>6 DEF RememberedLengthIsTheHeads
  <2>8. FramesCutByTheirHeads'
    BY <2>1, <2>4, <2>6, FramesKept
  <2> QED
    BY <2>5, <2>7, <2>8
<1> QED
  BY <1>1, <1>2, <1>3, <1>4, <1>5, <1>6, <1>7 DEF Next, decode

-----------------------------------------------------------------------------
(* The stream read at once *)

(* A frame in the stream ends behind its head and within the stream. *)
LEMMA FrameWithin ==
  ASSUME NEW b \in BuilderType, NEW s \in Seq(Byte), NEW p \in 0 .. Len(s),
         GetNumSkip(b) > 0, ~NoFrameBehind(b, s, p)
  PROVE  /\ BodyStart(b, p) \in Nat /\ BodyEnd(b, s, p) \in 0 .. Len(s)
         /\ p < BodyEnd(b, s, p)
         /\ FrameBehind(b, s, p) \in Seq(Byte)
<1> DEFINE n == AdjustedLength(b, s, p)
           skip == GetNumSkip(b)
<1>1. /\ Len(s) \in Nat /\ p \in Nat /\ skip \in Nat /\ NumHeadBytes(b) \in Nat
      /\ b.length_adjustment \in Int
  BY LenProperties, HeadBytes DEF BuilderType
<1>2. /\ ~(p + NumHeadBytes(b) > Len(s)) /\ ~LengthOverflows(n) /\ ~(p + skip + n > Len(s))
      /\ BodyEnd(b, s, p) = p + skip + n /\ BodyStart(b, p) = p + skip
  BY Zenon DEF NoFrameBehind, BodyEnd, BodyStart
<1>3. LengthField(b, s, p) \in Int
  <2>1. p + NumHeadBytes(b) <= Len(s)
    BY <1>1, <1>2
  <2> QED
    BY <1>1, <2>1, LengthFieldType, Zenon
<1>4. n \in Int
  BY <1>1, <1>3 DEF AdjustedLength
<1> HIDE DEF n, skip
<1>5. n \in Nat
  BY <1>2, <1>4 DEF LengthOverflows
<1>6. p + skip \in Nat /\ p + skip + n \in 0 .. Len(s) /\ p < p + skip + n
  BY <1>1, <1>2, <1>5 DEF skip
<1>7. FrameBehind(b, s, p) \in Seq(Byte)
  <2> DEFINE a == p + skip
             e == p + skip + n
  <2>1. a \in Nat /\ e \in Nat /\ e <= Len(s)
    BY <1>1, <1>6
  <2>2. FrameBehind(b, s, p) = SubSeq(s, a + 1, e)
    BY <1>2, Zenon DEF FrameBehind
  <2> HIDE DEF a, e
  <2> QED
    BY <2>1, <2>2, Sliced, Zenon
<1> QED
  BY <1>2, <1>6, <1>7, Zenon

(* Reading is what its recursive definition says. *)
LEMMA ReadingIs ==
  ASSUME NEW b \in BuilderType, NEW s \in Seq(Byte), GetNumSkip(b) > 0
  PROVE  /\ Reading(b, s) \in [0 .. Len(s) -> Seq(Seq(Byte))]
         /\ \A p \in 0 .. Len(s) :
              Reading(b, s)[p] = IF NoFrameBehind(b, s, p) THEN <<>>
                                 ELSE <<FrameBehind(b, s, p)>> \o Reading(b, s)[BodyEnd(b, s, p)]
<1> DEFINE S == 0 .. Len(s)
           D == Seq(Seq(Byte))
           Stop == {p \in S : NoFrameBehind(b, s, p)}
           m == [p \in S |-> Len(s) - p]
           base == [p \in S |-> <<>>]
           nx == [p \in S |-> BodyEnd(b, s, p)]
           item == [p \in S |-> IF p \in Stop THEN <<>> ELSE FrameBehind(b, s, p)]
           g == [p \in S |-> [r \in D |-> <<item[p]>> \o r]]
           Eq(r) == [p \in S |-> IF NoFrameBehind(b, s, p) THEN <<>>
                                 ELSE <<FrameBehind(b, s, p)>> \o r[BodyEnd(b, s, p)]]
<1>1. Len(s) \in Nat /\ m \in [S -> 0 .. Len(s)]
  BY LenProperties
<1>2. base \in [S -> D]
  BY EmptyFacts, Zenon
<1>3. \A p \in S : item[p] \in Seq(Byte)
  BY FrameWithin, EmptyFacts, Zenon
<1>4. g \in [S -> [D -> D]]
  <2> SUFFICES ASSUME NEW p \in S, NEW r \in D PROVE <<item[p]>> \o r \in D
    BY Zenon
  <2> DEFINE x == item[p]
  <2>1. x \in Seq(Byte)
    BY <1>3, Zenon
  <2> HIDE DEF x, item
  <2>2. <<x>> \in D
    BY <2>1
  <2>3. <<x>> \o r \in D
    BY <2>2, ConcatProperties, Zenon
  <2> QED
    BY <2>3 DEF x
<1>5. \A p \in S : p \notin Stop => nx[p] \in S /\ m[nx[p]] < m[p]
  <2> SUFFICES ASSUME NEW p \in S, p \notin Stop PROVE nx[p] \in S /\ m[nx[p]] < m[p]
    OBVIOUS
  <2> DEFINE e == BodyEnd(b, s, p)
  <2>1. e \in S /\ p < e
    BY FrameWithin, Zenon
  <2>2. nx[p] = e
    OBVIOUS
  <2> HIDE DEF e, nx
  <2> QED
    BY <1>1, <2>1, <2>2
<1>6. \A p \in S : /\ base[p] = <<>> /\ nx[p] = BodyEnd(b, s, p)
                   /\ p \in Stop <=> NoFrameBehind(b, s, p)
                   /\ p \notin Stop => item[p] = FrameBehind(b, s, p)
                   /\ \A r \in D : g[p][r] = <<item[p]>> \o r
  BY Zenon
<1> HIDE DEF m, base, nx, item, g, Stop, D
<1>7. PICK f \in [S -> D] :
        \A p \in S : f[p] = IF p \in Stop THEN base[p] ELSE g[p][f[nx[p]]]
  <2>1. Recursive(S, D, Stop, Len(s), m, base, g, nx)
    BY <1>1, <1>2, <1>4, <1>5, Zenon DEF Recursive
  <2>2. IsDefined(S, D, Stop, base, g, nx)
    BY <2>1, RecursionDefines, Zenon
  <2> QED
    BY <2>2 DEF IsDefined
<1>8. ASSUME NEW p \in S
      PROVE  f[p] = IF NoFrameBehind(b, s, p) THEN <<>>
                    ELSE <<FrameBehind(b, s, p)>> \o f[BodyEnd(b, s, p)]
  <2>1. CASE p \in Stop
    BY <1>6, <1>7, <2>1, Zenon
  <2>2. CASE p \notin Stop
    <3>1. f[nx[p]] \in D
      BY <1>5, <1>7, <2>2, Zenon
    <3>2. f[p] = <<item[p]>> \o f[nx[p]]
      BY <1>6, <1>7, <2>2, <3>1, Zenon
    <3> QED
      BY <1>6, <2>2, <3>2, Zenon
  <2> QED
    BY <2>1, <2>2, Zenon
<1>9. f = Eq(f)
  BY <1>7, <1>8, Zenon
<1>10. Reading(b, s) = CHOOSE r : r = Eq(r)
  BY Zenon DEF Reading
<1>11. Reading(b, s) = Eq(Reading(b, s))
  <2> HIDE DEF Eq
  <2> QED
    BY <1>9, <1>10, Zenon
<1> DEFINE R == Reading(b, s)
<1> HIDE DEF R
<1>12. \A p \in S : R[p] = IF NoFrameBehind(b, s, p) THEN <<>>
                           ELSE <<FrameBehind(b, s, p)>> \o R[BodyEnd(b, s, p)]
  BY <1>11, Zenon DEF R
<1> DEFINE T == {p \in S : R[p] \in D}
<1>13. ASSUME NEW p \in S, \A q \in S : m[q] < m[p] => q \in T
       PROVE  p \in T
  <2>1. CASE NoFrameBehind(b, s, p)
    BY <1>12, <2>1, EmptyFacts, Zenon DEF D
  <2>2. CASE ~NoFrameBehind(b, s, p)
    <3>1. nx[p] \in T /\ nx[p] = BodyEnd(b, s, p) /\ item[p] = FrameBehind(b, s, p)
      BY <1>5, <1>6, <1>13, <2>2, Zenon
    <3>2. R[nx[p]] \in D /\ R[p] = <<item[p]>> \o R[nx[p]]
      BY <1>12, <2>2, <3>1, Zenon
    <3>3. g[p][R[nx[p]]] \in D /\ g[p][R[nx[p]]] = R[p]
      BY <1>4, <1>6, <3>2, Zenon
    <3> QED
      BY <3>3, Zenon
  <2> QED
    BY <2>1, <2>2, Zenon
<1>14. \A p \in S : m[p] \in Nat
  BY <1>1
<1> HIDE DEF T
<1>15. S \subseteq T
  <2>1. InductiveIn(S, m, T)
    BY <1>13, <1>14, Zenon DEF InductiveIn
  <2> QED
    BY <2>1, MeasureInduction, Zenon
<1> QED
  BY <1>11, <1>12, <1>15, Zenon DEF R, D, T

\* What was read so far, and what is left to read, make up the stream read at once
ReadSoFar(r, rest) ==
  /\ Len(r) = Len(frames) + Len(rest)
  /\ \A i \in 1 .. Len(frames) : frames[i].body = r[i]
  /\ \A j \in 1 .. Len(rest) : r[Len(frames) + j] = rest[j]

\* The inductive invariant next to IInv: the head that was accepted, or rejected, was so
\* under the maximum that the stream is read with.
AtOnceInv ==
  builder \in Builders =>
    /\ ReadSoFar(Reading(builder, stream)[0], Reading(builder, stream)[NextHead])
    /\ state # Head_ => /\ NextHead + NumHeadBytes(builder) <= Len(stream)
                        /\ ~(LengthField(builder, stream, NextHead) > builder.max_frame_len)
                        /\ ~LengthOverflows(AdjustedLength(builder, stream, NextHead))
    /\ status = "error" => state = Head_ /\ NoFrameBehind(builder, stream, pos)

(* Where the next head is expected is a place in the stream. *)
LEMMA NextHeadWithin ==
  ASSUME IInv
  PROVE  /\ NextHead \in 0 .. Len(stream) /\ NextHead \in Nat /\ Len(stream) \in Nat
         /\ builder \in BuilderType /\ stream \in Seq(Byte)
         /\ pos \in Nat /\ recvd \in Nat /\ pos <= recvd /\ recvd <= Len(stream)
         /\ state # Head_ => pos = BodyStart(builder, NextHead)
<1>1. /\ builder \in BuilderType /\ stream \in Seq(Byte) /\ Len(stream) \in Nat
      /\ pos \in Nat /\ recvd \in Nat /\ pos <= recvd /\ recvd <= Len(stream)
  BY LenProperties DEF IInv, TypeOK
<1>2. GetNumSkip(builder) \in Nat
  BY <1>1, HeadBytes
<1>3. NextHead = pos \/ (NextHead = pos - GetNumSkip(builder) /\ NextHead >= 0)
  BY DEF IInv, NextHead, RememberedLengthIsTheHeads
<1>4. state # Head_ => pos = BodyStart(builder, NextHead)
  BY <1>1, <1>2 DEF NextHead, BodyStart
<1> QED
  BY <1>1, <1>2, <1>3, <1>4

(* decode_data() returns the frame that is next in the stream read at once. *)
LEMMA NextIsRead ==
  ASSUME GetNumSkip(builder) > 0, IInv, AtOnceInv, builder \in Builders,
         ~NoFrameBehind(builder, stream, NextHead),
         DecodeData(NextHead, BodyStart(builder, NextHead),
                    AdjustedLength(builder, stream, NextHead))
  PROVE  AtOnceInv'
<1> DEFINE R == Reading(builder, stream)
           h == NextHead
           e == BodyEnd(builder, stream, h)
           x == FrameBehind(builder, stream, h)
           new == [at |-> h, body |-> x]
           k == Len(frames)
<1>1. /\ h \in 0 .. Len(stream) /\ h \in Nat /\ builder \in BuilderType /\ stream \in Seq(Byte)
  BY NextHeadWithin
<1>2. /\ R \in [0 .. Len(stream) -> Seq(Seq(Byte))] /\ R[h] = <<x>> \o R[e]
  BY <1>1, ReadingIs, Zenon
<1>3. e \in 0 .. Len(stream) /\ x \in Seq(Byte)
  BY <1>1, FrameWithin, Zenon
<1>4. /\ frames' = Append(frames, new) /\ pos' = e /\ state' = Head_
      /\ builder' = builder /\ stream' = stream /\ status' = status
  BY DEF DecodeData, BodyEnd, FrameBehind
<1>5. k \in Nat /\ frames \in Seq([at : Nat, body : Seq(Byte)])
  BY LenProperties, Zenon DEF IInv, TypeOK
<1>6. new \in [at : Nat, body : Seq(Byte)] /\ new.body = x
  BY <1>1, <1>3
<1>7. NextHead' = e
  BY <1>4 DEF NextHead
<1>8. status' # "error"
  <2>1. state = Head_ /\ status = "error" => NoFrameBehind(builder, stream, h)
    BY DEF AtOnceInv, NextHead
  <2> QED
    BY <1>4, <2>1 DEF AtOnceInv
<1>9. ReadSoFar(R[0], R[h])
  BY DEF AtOnceInv
<1> DEFINE r == R[0]
           rest == R[e]
<1>10. rest \in Seq(Seq(Byte)) /\ Len(rest) \in Nat
  <2>1. rest \in Seq(Seq(Byte))
    BY <1>2, <1>3, Zenon
  <2> QED
    BY <2>1, LenProperties, Zenon
<1>11. Reading(builder, stream)' = R
  BY <1>4
<1>12. ReadSoFar(r, <<x>> \o rest)
  BY <1>2, <1>9
<1> HIDE DEF r, rest, R, x, e, h, new
<1>13. /\ Len(<<x>> \o rest) = 1 + Len(rest)
       /\ (<<x>> \o rest)[1] = x
       /\ \A j \in 1 .. Len(rest) : (<<x>> \o rest)[1 + j] = rest[j]
  BY <1>3, <1>10, Prepended
<1>14. /\ Len(frames') = k + 1
       /\ \A i \in 1 .. k : frames'[i] = frames[i]
       /\ frames'[k + 1] = new
  BY <1>4, <1>5, <1>6, Appended
<1> DEFINE z == <<x>> \o rest
<1>15. /\ Len(r) = k + Len(z)
       /\ \A i \in 1 .. k : frames[i].body = r[i]
       /\ \A j \in 1 .. Len(z) : r[k + j] = z[j]
  BY <1>12 DEF ReadSoFar
<1>16. /\ Len(z) = 1 + Len(rest) /\ z[1] = x
       /\ \A j \in 1 .. Len(rest) : z[1 + j] = rest[j]
  BY <1>13
<1> HIDE DEF z, k
<1>17. /\ Len(r) = Len(frames') + Len(rest)
       /\ \A i \in 1 .. Len(frames') : frames'[i].body = r[i]
       /\ \A j \in 1 .. Len(rest) : r[Len(frames') + j] = rest[j]
  <2>2. Len(r) = (k + 1) + Len(rest)
    BY <1>5, <1>10, <1>15, <1>16
  <2>3. ASSUME NEW i \in 1 .. k + 1
        PROVE  frames'[i].body = r[i]
    <3>1. CASE i \in 1 .. k
      BY <1>14, <1>15, <3>1, Zenon
    <3>2. CASE i \notin 1 .. k
      <4>1. i = k + 1 /\ 1 \in 1 .. Len(z)
        BY <1>5, <1>10, <1>16, <3>2
      <4> QED
        BY <1>6, <1>14, <1>15, <1>16, <4>1, Zenon
    <3> QED
      BY <3>1, <3>2
  <2>4. ASSUME NEW j \in 1 .. Len(rest)
        PROVE  r[(k + 1) + j] = rest[j]
    <3>1. (k + 1) + j = k + (1 + j) /\ 1 + j \in 1 .. Len(z)
      <4>1. k \in Nat /\ Len(rest) \in Nat /\ Len(z) = 1 + Len(rest)
        BY <1>5, <1>10, <1>16, Zenon DEF k
      <4>2. j \in Int /\ 1 <= j /\ j <= Len(rest)
        BY <4>1
      <4> QED
        BY ONLY <4>1, <4>2, SMT
    <3> QED
      BY <1>15, <1>16, <3>1, Zenon
  <2> QED
    BY <1>14, <2>2, <2>3, <2>4, Zenon
<1>18. Reading(builder', stream')[0] = r /\ Reading(builder', stream')[NextHead'] = rest
  BY <1>4, <1>7, Zenon DEF r, rest, R
<1> QED
  BY <1>4, <1>8, <1>17, <1>18 DEF AtOnceInv, ReadSoFar

(* When decode() returns a frame there is one in the stream, where the next head is. *)
LEMMA ReturnsAFrame ==
  ASSUME IInv, AtOnceInv, builder \in Builders, DecodeHeadAndData \/ DecodeRest
  PROVE  /\ ~NoFrameBehind(builder, stream, NextHead)
         /\ DecodeData(NextHead, BodyStart(builder, NextHead),
                       AdjustedLength(builder, stream, NextHead))
<1>1. CASE DecodeHeadAndData
  <2>1. /\ HeadArrived /\ ~HeadRejected /\ builder' = builder
        /\ DecodeData(pos, BodyStart(builder, pos), AdjustedLength(builder, stream, pos))
        /\ recvd >= BodyEnd(builder, stream, pos)
    BY <1>1 DEF DecodeHeadAndData, DecodeData, BodyEnd
  <2>2. NextHead = pos
    BY <2>1 DEF NextHead, HeadArrived
  <2>3. ~NoFrameBehind(builder, stream, pos)
    <3>1. recvd - pos >= NumHeadBytes(builder)
      BY <2>1 DEF HeadArrived, Buffered
    <3>2. NumHeadBytes(builder) \in Nat
      BY NextHeadWithin, HeadBytes
    <3>3. ~(pos + NumHeadBytes(builder) > Len(stream))
      BY <3>1, <3>2, NextHeadWithin
    <3>4. BodyEnd(builder, stream, pos) \in Int
      <4>1. AdjustedLength(builder, stream, pos) \in Nat /\ BodyStart(builder, pos) \in Nat
        BY <2>1, AcceptedHead DEF IInv
      <4> QED
        BY <4>1 DEF BodyEnd
    <3>5. ~(BodyEnd(builder, stream, pos) > Len(stream))
      BY <2>1, <3>4, NextHeadWithin
    <3> QED
      BY <2>1, <3>3, <3>5 DEF NoFrameBehind, HeadRejected
  <2> QED
    BY <2>1, <2>2, <2>3
<1>2. CASE DecodeRest
  <2>1. /\ state # Head_ /\ DecodeData(pos - GetNumSkip(builder), pos, state)
        /\ recvd >= pos + state /\ builder' = builder
    BY <1>2 DEF DecodeRest, DecodeData
  <2>2. /\ NextHead = pos - GetNumSkip(builder)
        /\ state = AdjustedLength(builder, stream, NextHead) /\ state \in Nat
        /\ pos = BodyStart(builder, NextHead)
    BY <2>1, NextHeadWithin DEF NextHead, IInv, RememberedLengthIsTheHeads, TypeOK
  <2>3. ~NoFrameBehind(builder, stream, NextHead)
    <3>1. BodyEnd(builder, stream, NextHead) = pos + state
      BY <2>2 DEF BodyEnd
    <3>2. ~(pos + state > Len(stream))
      BY <2>1, <2>2, NextHeadWithin
    <3>3. /\ NextHead + NumHeadBytes(builder) <= Len(stream)
          /\ ~(LengthField(builder, stream, NextHead) > builder.max_frame_len)
          /\ ~LengthOverflows(AdjustedLength(builder, stream, NextHead))
      BY <2>1 DEF AtOnceInv
    <3>4. NumHeadBytes(builder) \in Nat
      BY NextHeadWithin, HeadBytes
    <3>5. ~(NextHead + NumHeadBytes(builder) > Len(stream))
      BY <3>3, <3>4, NextHeadWithin
    <3> QED
      BY <3>1, <3>2, <3>3, <3>5 DEF NoFrameBehind
  <2> QED
    BY <2>1, <2>2, <2>3
<1> QED
  BY <1>1, <1>2

(* A step that leaves the configuration alone keeps to the stream read at once. *)
LEMMA StepAtOnce ==
  ASSUME GetNumSkip(builder) > 0, IInv, AtOnceInv, [Next]_vars, builder' = builder
  PROVE  AtOnceInv'
<1> SUFFICES ASSUME builder \in Builders PROVE AtOnceInv'
  BY DEF AtOnceInv
<1>1. CASE UNCHANGED vars
  BY <1>1 DEF vars, AtOnceInv, ReadSoFar, NextHead
<1>2. ASSUME NEW k \in 1 .. Len(stream), Receive(k)
      PROVE  AtOnceInv'
  BY <1>2 DEF Receive, AtOnceInv, ReadSoFar, NextHead
<1>3. CASE DecodeHeadFails
  <2>1. /\ HeadArrived /\ HeadRejected
        /\ UNCHANGED <<builder, state, stream, recvd, pos, frames>>
    BY <1>3 DEF DecodeHeadFails
  <2>2. state = Head_ /\ NoFrameBehind(builder, stream, pos)
    BY <2>1 DEF HeadArrived, HeadRejected, NoFrameBehind
  <2> QED
    BY <2>1, <2>2 DEF AtOnceInv, ReadSoFar, NextHead
<1>4. CASE DecodeHeadOnly
  <2>1. /\ HeadArrived /\ ~HeadRejected
        /\ pos' = BodyStart(builder, pos)
        /\ state' = AdjustedLength(builder, stream, pos)
        /\ UNCHANGED <<builder, stream, recvd, frames, status>>
    BY <1>4 DEF DecodeHeadOnly
  <2>2. state' \in Nat /\ pos = pos' - GetNumSkip(builder)
    BY <2>1, AcceptedHead DEF IInv
  <2>3. NextHead' = pos /\ NextHead = pos /\ status' = "ok"
    BY <2>1, <2>2 DEF NextHead, Head_, HeadArrived
  <2>4. pos + NumHeadBytes(builder) <= Len(stream)
    <3>1. recvd - pos >= NumHeadBytes(builder)
      BY <2>1 DEF HeadArrived, Buffered
    <3>2. NumHeadBytes(builder) \in Nat
      BY NextHeadWithin, HeadBytes
    <3> QED
      BY <3>1, <3>2, NextHeadWithin
  <2> QED
    BY <2>1, <2>3, <2>4 DEF AtOnceInv, ReadSoFar, HeadRejected
<1>5. CASE DecodeHeadAndData \/ DecodeRest
  BY <1>5, ReturnsAFrame, NextIsRead
<1>6. ASSUME NEW val \in MaxLens, set_max_frame_length(val)
      PROVE  AtOnceInv'
  BY <1>6 DEF set_max_frame_length, AtOnceInv, ReadSoFar, NextHead
<1> QED
  BY <1>1, <1>2, <1>3, <1>4, <1>5, <1>6 DEF Next, decode

(* A changed configuration is not one the stream is read at once with. *)
LEMMA AnyStepAtOnce ==
  ASSUME CanBeReadAtOnce, IInv, AtOnceInv, [Next]_vars
  PROVE  AtOnceInv'
<1> SUFFICES ASSUME builder' \in Builders PROVE AtOnceInv'
  BY DEF AtOnceInv
<1>1. ASSUME NEW val \in MaxLens, set_max_frame_length(val)
      PROVE  FALSE
  <2>1. builder' = [builder EXCEPT !.max_frame_len = val] /\ builder \in BuilderType
    BY <1>1, NextHeadWithin DEF set_max_frame_length, max_frame_length
  <2>2. builder'.max_frame_len = val
    BY <2>1 DEF BuilderType
  <2> QED
    BY <2>2 DEF CanBeReadAtOnce
<1>2. builder' = builder
  BY <1>1 DEF Next, decode, Receive, DecodeHeadFails, DecodeHeadOnly, DecodeHeadAndData,
              DecodeRest, DecodeData, vars
<1>3. GetNumSkip(builder) > 0
  BY <1>2 DEF CanBeReadAtOnce
<1> QED
  BY <1>2, <1>3, StepAtOnce

(* What is left when decode() has failed or has worked through everything is no frame. *)
LEMMA NothingIsLeft ==
  ASSUME IInv, AtOnceInv, builder \in Builders, status = "error" \/ Drained
  PROVE  NoFrameBehind(builder, stream, NextHead)
<1>1. CASE status = "error"
  BY <1>1 DEF AtOnceInv, NextHead
<1>2. CASE Drained /\ state = Head_
  <2>1. Len(stream) - pos < NumHeadBytes(builder) /\ NextHead = pos
    BY <1>2 DEF Drained, Buffered, NextHead
  <2>2. NumHeadBytes(builder) \in Nat
    BY NextHeadWithin, HeadBytes
  <2>3. NextHead + NumHeadBytes(builder) > Len(stream)
    BY <2>1, <2>2, NextHeadWithin
  <2> QED
    BY <2>3 DEF NoFrameBehind
<1>3. CASE Drained /\ state # Head_
  <2>1. /\ Len(stream) - pos < state /\ state \in Nat
        /\ state = AdjustedLength(builder, stream, NextHead)
    BY <1>3 DEF Drained, Buffered, IInv, TypeOK, RememberedLengthIsTheHeads
  <2>2. BodyEnd(builder, stream, NextHead) = pos + state
    BY <1>3, <2>1, NextHeadWithin DEF BodyEnd
  <2>3. pos + state > Len(stream)
    BY <2>1, NextHeadWithin
  <2> QED
    BY <2>2, <2>3 DEF NoFrameBehind
<1> QED
  BY <1>1, <1>2, <1>3

(* So the frames are those of the stream read at once. *)
LEMMA AtOnceIsSame ==
  ASSUME CanBeReadAtOnce, IInv, AtOnceInv
  PROVE  SameAsReadAtOnce
<1> SUFFICES ASSUME builder \in Builders
             PROVE  FramesAre(Reading(builder, stream)[0])
  BY DEF SameAsReadAtOnce
<1> DEFINE R == Reading(builder, stream)
           r == R[0]
           rest == R[NextHead]
<1>1. GetNumSkip(builder) > 0
  BY DEF CanBeReadAtOnce
<1>2. /\ R \in [0 .. Len(stream) -> Seq(Seq(Byte))]
      /\ NoFrameBehind(builder, stream, NextHead) => rest = <<>>
  BY <1>1, NextHeadWithin, ReadingIs, Zenon
<1>3. rest \in Seq(Seq(Byte)) /\ Len(rest) \in Nat
  <2>1. rest \in Seq(Seq(Byte))
    BY <1>2, NextHeadWithin, Zenon
  <2> QED
    BY <2>1, LenProperties, Zenon
<1>4. Len(frames) \in Nat
  BY LenProperties, Zenon DEF IInv, TypeOK
<1>5. ReadSoFar(r, rest)
  BY DEF AtOnceInv
<1>6. status = "error" \/ Drained => NoFrameBehind(builder, stream, NextHead)
  BY NothingIsLeft
<1>7. status = "error" \/ Drained => Len(rest) = 0
  BY <1>2, <1>6, EmptyFacts
<1> HIDE DEF R, r, rest
<1>8. /\ Len(r) = Len(frames) + Len(rest)
      /\ \A i \in 1 .. Len(frames) : frames[i].body = r[i]
  BY <1>5 DEF ReadSoFar
<1>9. FramesAre(r)
  BY <1>3, <1>4, <1>7, <1>8 DEF FramesAre
<1> QED
  BY <1>9 DEF r, R

(* Before anything is read, all of the stream is left. *)
LEMMA InitAtOnce ==
  ASSUME GetNumSkip(builder) > 0, Init
  PROVE  AtOnceInv
<1> DEFINE r == Reading(builder, stream)[0]
<1>1. IInv
  BY InitIInv
<1>2. r \in Seq(Seq(Byte))
  <2>1. Reading(builder, stream) \in [0 .. Len(stream) -> Seq(Seq(Byte))]
    BY <1>1, NextHeadWithin, ReadingIs, Zenon
  <2>2. 0 \in 0 .. Len(stream)
    BY <1>1, NextHeadWithin
  <2> QED
    BY <2>1, <2>2, Zenon
<1>3. Len(r) \in Nat
  BY <1>2, LenProperties, Zenon
<1>4. NextHead = 0 /\ state = Head_ /\ status = "ok" /\ Len(frames) = 0
  BY EmptyFacts DEF Init, NextHead
<1> HIDE DEF r
<1>5. ReadSoFar(r, r)
  BY <1>3, <1>4 DEF ReadSoFar
<1> QED
  BY <1>4, <1>5 DEF AtOnceInv, r

-----------------------------------------------------------------------------
(* The theorems *)

(* The variables keep their types: the decoder never consumes a byte that has not arrived,
   and never remembers a negative length. *)
THEOREM TypeCorrect == Spec => []TypeOK
  BY InitIInv, StepIInv, PTL DEF Spec, IInv

(* However the stream is cut into chunks, and whenever the maximum is changed, every frame
   is the one that the length field of its own head cuts out of the stream, and the heads
   follow each other without a gap. *)
THEOREM ChunksDoNotMatter == Spec => []FramesCutByTheirHeads
  BY InitIInv, StepIInv, PTL DEF Spec, IInv

(* Between two calls of decode() the remembered length stays the one in the head, also when
   set_max_frame_length() lowers the maximum meanwhile. *)
THEOREM LengthIsRemembered == Spec => []RememberedLengthIsTheHeads
  BY InitIInv, StepIInv, PTL DEF Spec, IInv

(* Where the chunks of the stream were cut cannot be seen in what decode() returns: the
   frames are those of the whole stream read at once, from the first on, and all of them
   when decode() has failed or has nothing more to work on. *)
THEOREM ReadInChunksAsAtOnce == CanBeReadAtOnce => (Spec => []SameAsReadAtOnce)
<1> SUFFICES ASSUME CanBeReadAtOnce PROVE Spec => []SameAsReadAtOnce
  OBVIOUS
<1>1. Init => AtOnceInv
  BY InitAtOnce DEF Init, CanBeReadAtOnce
<1>2. IInv /\ AtOnceInv /\ [Next]_vars => AtOnceInv'
  BY AnyStepAtOnce
<1>3. IInv /\ AtOnceInv => SameAsReadAtOnce
  BY AtOnceIsSame
<1> QED
  BY <1>1, <1>2, <1>3, InitIInv, StepIInv, PTL DEF Spec

-----------------------------------------------------------------------------
(* The field *)

(* The octets of a number that len of them can say: each is what shifting by eight bits
   drops, and those beyond the len-th are zero. *)
LEMMA OctetsOfTheNumber ==
  ASSUME NEW n \in Nat, NEW len \in 1 .. 8, FieldHolds(n, len)
  PROVE  /\ \A i \in 1 .. 8 : /\ Octets(n)[i] \in Byte
                             /\ Shifts(n)[i] = Octets(n)[i] + ByteBase * Shifts(n)[i + 1]
         /\ \A i \in 1 .. 9 : Shifts(n)[i] \in Nat
         /\ \A i \in 1 .. 8 : i > len => Octets(n)[i] = 0
         /\ Shifts(n)[9] = 0
         /\ Shifts(n)[1] = n
<1> DEFINE q(i) == Shifts(n)[i]
<1>1. /\ q(1) = n
      /\ q(2) = q(1) \div ByteBase /\ q(3) = q(2) \div ByteBase
      /\ q(4) = q(3) \div ByteBase /\ q(5) = q(4) \div ByteBase
      /\ q(6) = q(5) \div ByteBase /\ q(7) = q(6) \div ByteBase
      /\ q(8) = q(7) \div ByteBase /\ q(9) = q(8) \div ByteBase
  BY DEF Shifts
<1>2. \A x \in Nat : /\ x \div ByteBase \in Nat
                     /\ x % ByteBase \in Byte
                     /\ x = (x % ByteBase) + ByteBase * (x \div ByteBase)
  BY ConstantsAssumption DEF Byte
<1>3. 0 \div ByteBase = 0 /\ 0 % ByteBase = 0
  BY ConstantsAssumption
<1>4. \A i \in 1 .. 8 : Octets(n)[i] = q(i) % ByteBase
  BY DEF Octets
<1>5. q(len + 1) = 0
  BY DEF FieldHolds
<1> HIDE DEF q
<1>6. \A i \in 1 .. 8 : q(i + 1) = q(i) \div ByteBase
  <2> SUFFICES ASSUME NEW i \in 1 .. 8 PROVE q(i + 1) = q(i) \div ByteBase
    OBVIOUS
  <2>1. i = 1 \/ i = 2 \/ i = 3 \/ i = 4 \/ i = 5 \/ i = 6 \/ i = 7 \/ i = 8
    OBVIOUS
  <2> QED
    BY <1>1, <2>1
<1>7. /\ q(1) \in Nat /\ q(2) \in Nat /\ q(3) \in Nat /\ q(4) \in Nat /\ q(5) \in Nat
      /\ q(6) \in Nat /\ q(7) \in Nat /\ q(8) \in Nat /\ q(9) \in Nat
  <2>1. q(1) \in Nat /\ q(2) \in Nat
    BY <1>1, <1>2, Zenon
  <2>2. q(3) \in Nat /\ q(4) \in Nat
    BY <1>1, <1>2, <2>1, Zenon
  <2>3. q(5) \in Nat /\ q(6) \in Nat
    BY <1>1, <1>2, <2>2, Zenon
  <2>4. q(7) \in Nat /\ q(8) \in Nat
    BY <1>1, <1>2, <2>3, Zenon
  <2>5. q(9) \in Nat
    BY <1>1, <1>2, <2>4, Zenon
  <2> QED
    BY <2>1, <2>2, <2>3, <2>4, <2>5
<1>8. \A i \in 1 .. 9 : q(i) \in Nat
  <2> SUFFICES ASSUME NEW i \in 1 .. 9 PROVE q(i) \in Nat
    OBVIOUS
  <2>1. i = 1 \/ i = 2 \/ i = 3 \/ i = 4 \/ i = 5 \/ i = 6 \/ i = 7 \/ i = 8 \/ i = 9
    OBVIOUS
  <2> QED
    BY <1>7, <2>1
<1>9. \A i \in 1 .. 8 : /\ Octets(n)[i] \in Byte
                       /\ q(i) = Octets(n)[i] + ByteBase * q(i + 1)
  <2> SUFFICES ASSUME NEW i \in 1 .. 8
               PROVE  /\ Octets(n)[i] \in Byte
                      /\ q(i) = Octets(n)[i] + ByteBase * q(i + 1)
    OBVIOUS
  <2>1. q(i) \in Nat
    BY <1>8
  <2> QED
    BY <1>2, <1>4, <1>6, <2>1, Zenon
<1>10. \A i \in 1 .. 9 : i > len => q(i) = 0
  <2>1. /\ q(2) = 0 => q(3) = 0
        /\ q(3) = 0 => q(4) = 0
        /\ q(4) = 0 => q(5) = 0
        /\ q(5) = 0 => q(6) = 0
        /\ q(6) = 0 => q(7) = 0
        /\ q(7) = 0 => q(8) = 0
        /\ q(8) = 0 => q(9) = 0
    BY <1>1, <1>3, Zenon
  <2>2. len = 1 \/ len = 2 \/ len = 3 \/ len = 4 \/ len = 5 \/ len = 6 \/ len = 7 \/ len = 8
    OBVIOUS
  <2> SUFFICES ASSUME NEW i \in 1 .. 9, i > len PROVE q(i) = 0
    OBVIOUS
  <2>3. i = 2 \/ i = 3 \/ i = 4 \/ i = 5 \/ i = 6 \/ i = 7 \/ i = 8 \/ i = 9
    OBVIOUS
  <2> QED
    BY <1>5, <2>1, <2>2, <2>3
<1>11. \A i \in 1 .. 8 : i > len => Octets(n)[i] = 0
  <2> SUFFICES ASSUME NEW i \in 1 .. 8, i > len PROVE Octets(n)[i] = 0
    OBVIOUS
  <2>1. i \in 1 .. 9
    OBVIOUS
  <2> QED
    BY <1>3, <1>4, <1>10, <2>1, Zenon
<1>12. q(9) = 0
  BY <1>10
<1> QED
  BY <1>1, <1>8, <1>9, <1>11, <1>12 DEF q

\* The field that encode() writes for the number n
Field(b, n) == IF b.length_field_is_big_endian THEN PutUint(n, b.length_field_len)
                                               ELSE PutUintLe(n, b.length_field_len)

(* get_uint() gives back the number that put_uint() wrote. *)
LEMMA FieldReadsBack ==
  ASSUME NEW b \in BuilderType, b.length_field_offset = 0,
         NEW n \in Nat, FieldHolds(n, b.length_field_len),
         NEW s, NEW p \in Nat,
         \A k \in 1 .. b.length_field_len : s[p + k] = Field(b, n)[k]
  PROVE  LengthField(b, s, p) = n
<1> DEFINE len == b.length_field_len
           q(i) == Shifts(n)[i]
           o(i) == Octets(n)[i]
<1>1. len \in 1 .. 8
  BY DEF BuilderType
<1>2. /\ \A i \in 1 .. 8 : o(i) \in Byte /\ q(i) = o(i) + ByteBase * q(i + 1)
      /\ \A i \in 1 .. 9 : q(i) \in Nat
      /\ \A i \in 1 .. 8 : i > len => o(i) = 0
      /\ q(9) = 0 /\ q(1) = n
  BY <1>1, OctetsOfTheNumber
<1>3. \A k \in 1 .. len : s[p + k] = IF b.length_field_is_big_endian THEN o(len + 1 - k)
                                                                    ELSE o(k)
  <2> HIDE DEF o
  <2>1. \A k \in 1 .. len : Field(b, n)[k] = IF b.length_field_is_big_endian
                                             THEN o(len + 1 - k) ELSE o(k)
    BY DEF Field, PutUint, PutUintLe, o
  <2> QED
    BY <2>1
<1> HIDE DEF o, q, len
<1>4. ASSUME NEW i \in 0 .. 7
      PROVE  Octet(b, s, p, i) = o(i + 1)
  <2>1. CASE i >= len
    <3>1. Octet(b, s, p, i) = 0
      BY <2>1 DEF Octet, len
    <3>2. i + 1 \in 1 .. 8 /\ i + 1 > len
      BY <1>1, <2>1
    <3> QED
      BY <1>2, <3>1, <3>2
  <2>2. CASE i < len /\ b.length_field_is_big_endian
    <3>1. ~(i >= len) /\ p + 0 + len - i = p + (len - i) /\ len - i \in 1 .. len
          /\ len + 1 - (len - i) = i + 1
      BY <1>1, <2>2
    <3>2. Octet(b, s, p, i) = s[p + 0 + len - i]
      BY <2>2, <3>1, Zenon DEF Octet, len
    <3>3. s[p + (len - i)] = o(len + 1 - (len - i))
      BY <1>3, <2>2, <3>1, Zenon
    <3> QED
      BY <3>1, <3>2, <3>3, Zenon
  <2>3. CASE i < len /\ ~b.length_field_is_big_endian
    <3>1. ~(i >= len) /\ p + 0 + 1 + i = p + (i + 1) /\ i + 1 \in 1 .. len
      BY <1>1, <2>3
    <3>2. Octet(b, s, p, i) = s[p + 0 + 1 + i]
      BY <2>3, <3>1, Zenon DEF Octet, len
    <3>3. s[p + (i + 1)] = o(i + 1)
      BY <1>3, <2>3, <3>1, Zenon
    <3> QED
      BY <3>1, <3>2, <3>3, Zenon
  <2> QED
    BY <1>1, <2>1, <2>2, <2>3
<1>5. /\ Octet(b, s, p, 0) = o(1) /\ Octet(b, s, p, 1) = o(2) /\ Octet(b, s, p, 2) = o(3)
      /\ Octet(b, s, p, 3) = o(4) /\ Octet(b, s, p, 4) = o(5) /\ Octet(b, s, p, 5) = o(6)
      /\ Octet(b, s, p, 6) = o(7) /\ Octet(b, s, p, 7) = o(8)
  <2> HIDE DEF Octet
  <2>1. /\ 0 + 1 = 1 /\ 1 + 1 = 2 /\ 2 + 1 = 3 /\ 3 + 1 = 4 /\ 4 + 1 = 5 /\ 5 + 1 = 6
        /\ 6 + 1 = 7 /\ 7 + 1 = 8
        /\ 0 \in 0 .. 7 /\ 1 \in 0 .. 7 /\ 2 \in 0 .. 7 /\ 3 \in 0 .. 7 /\ 4 \in 0 .. 7
        /\ 5 \in 0 .. 7 /\ 6 \in 0 .. 7 /\ 7 \in 0 .. 7
    OBVIOUS
  <2> QED
    BY <1>4, <2>1
<1>6. /\ q(1) = o(1) + ByteBase * q(2) /\ q(2) = o(2) + ByteBase * q(3)
      /\ q(3) = o(3) + ByteBase * q(4) /\ q(4) = o(4) + ByteBase * q(5)
      /\ q(5) = o(5) + ByteBase * q(6) /\ q(6) = o(6) + ByteBase * q(7)
      /\ q(7) = o(7) + ByteBase * q(8) /\ q(8) = o(8) + ByteBase * q(9)
  <2>1. /\ q(1) = o(1) + ByteBase * q(1 + 1) /\ q(2) = o(2) + ByteBase * q(2 + 1)
        /\ q(3) = o(3) + ByteBase * q(3 + 1) /\ q(4) = o(4) + ByteBase * q(4 + 1)
        /\ q(5) = o(5) + ByteBase * q(5 + 1) /\ q(6) = o(6) + ByteBase * q(6 + 1)
        /\ q(7) = o(7) + ByteBase * q(7 + 1) /\ q(8) = o(8) + ByteBase * q(8 + 1)
    BY <1>2
  <2> QED
    BY <2>1
<1>7. q(8) = o(8)
  <2>1. o(8) \in Nat
    BY <1>2, ConstantsAssumption DEF Byte
  <2>2. ByteBase * 0 = 0
    BY ConstantsAssumption
  <2> QED
    BY <1>2, <1>6, <2>1, <2>2
<1> QED
  <2> HIDE DEF Octet
  <2> DEFINE up(lo, rest) == lo + ByteBase * rest
  <2>1. LengthField(b, s, p) =
          up(o(1), up(o(2), up(o(3), up(o(4), up(o(5), up(o(6), up(o(7), o(8))))))))
    BY <1>5, Zenon DEF LengthField
  <2>2. /\ q(1) = up(o(1), q(2)) /\ q(2) = up(o(2), q(3)) /\ q(3) = up(o(3), q(4))
        /\ q(4) = up(o(4), q(5)) /\ q(5) = up(o(5), q(6)) /\ q(6) = up(o(6), q(7))
        /\ q(7) = up(o(7), o(8))
    BY <1>6, <1>7, Zenon
  <2> HIDE DEF up
  <2>3. up(o(4), up(o(5), up(o(6), up(o(7), o(8))))) = q(4)
    BY <2>2, Zenon
  <2>4. up(o(1), up(o(2), up(o(3), q(4)))) = q(1)
    BY <2>2, Zenon
  <2> QED
    BY <1>2, <2>1, <2>3, <2>4, Zenon

-----------------------------------------------------------------------------
(* One frame *)

(* The field is a sequence of length_field_len bytes. *)
LEMMA FieldIsBytes ==
  ASSUME NEW b \in BuilderType, NEW n \in Nat, FieldHolds(n, b.length_field_len)
  PROVE  Field(b, n) \in Seq(Byte) /\ Len(Field(b, n)) = b.length_field_len
<1> DEFINE len == b.length_field_len
           e(k) == IF b.length_field_is_big_endian THEN Octets(n)[len + 1 - k]
                                                   ELSE Octets(n)[k]
<1>1. len \in 1 .. 8
  BY DEF BuilderType
<1>2. \A k \in 1 .. 8 : Octets(n)[k] \in Byte
  BY <1>1, OctetsOfTheNumber
<1>3. \A k \in 1 .. len : k \in 1 .. 8 /\ len + 1 - k \in 1 .. 8
  BY <1>1
<1>4. \A k \in 1 .. len : e(k) \in Byte
  BY <1>2, <1>3, Zenon
<1>5. Field(b, n) = [k \in 1 .. len |-> e(k)]
  BY Zenon DEF Field, PutUint, PutUintLe
<1> HIDE DEF e, len
<1>6. [k \in 1 .. len |-> e(k)] \in Seq(Byte) /\ Len([k \in 1 .. len |-> e(k)]) = len
  BY <1>1, <1>4
<1> QED
  BY <1>5, <1>6 DEF len

\* decode() accepts the head behind byte p of s and cuts out data, which ends at byte e
Accepts(b, s, p, e, data) ==
  /\ NumHeadBytes(b) = b.length_field_len
  /\ ~(LengthField(b, s, p) > b.max_frame_len)
  /\ AdjustedLength(b, s, p) = Len(data)
  /\ ~LengthOverflows(AdjustedLength(b, s, p))
  /\ e = p + b.length_field_len + Len(data)
  /\ SubSeq(s, BodyStart(b, p) + 1, BodyEnd(b, s, p)) = data
  /\ BodyStart(b, p) = p + b.length_field_len
  /\ BodyEnd(b, s, p) = e

(* Where s holds what encode() made of a payload, decode() accepts the head and cuts out
   the payload. *)
LEMMA FrameReadsBack ==
  ASSUME NEW b, BothWays(b),
         NEW data \in Seq(Byte), Encodable(b, data), Readable(b, Len(data)),
         Len(data) <= UsizeMax,
         NEW s \in Seq(Byte), NEW p \in Nat, NEW e \in Nat, e <= Len(s),
         SubSeq(s, p + 1, e) = encode(b, data)
  PROVE  Accepts(b, s, p, e, data)
<1> DEFINE len == b.length_field_len
           adj == b.length_adjustment
           size == Len(data)
           n == size - adj
           f == Field(b, n)
<1>1. /\ b \in BuilderType /\ len \in 1 .. 8 /\ adj \in Int /\ b.length_field_offset = 0
      /\ b.max_frame_len \in Nat /\ GetNumSkip(b) = len
  BY DEF BothWays, BuilderType
<1>2. size \in Nat /\ Len(s) \in Nat /\ size <= UsizeMax
  BY LenProperties, Zenon
<1>3. NumHeadBytes(b) = len
  BY <1>1 DEF NumHeadBytes, GetNumSkip, NoSkip, BuilderType
<1>4. ~LengthOverflows(n) /\ n <= b.max_frame_len /\ FieldHolds(n, len)
  BY Zenon DEF Encodable, Readable
<1>5. encode(b, data) = f \o data
  BY Zenon DEF encode, Field
<1> HIDE DEF size, adj
<1>6. n \in Nat
  BY <1>1, <1>2, <1>4 DEF LengthOverflows
<1> HIDE DEF n
<1>7. f \in Seq(Byte) /\ Len(f) = len
  BY <1>1, <1>4, <1>6, FieldIsBytes
<1> HIDE DEF f
<1> DEFINE w == SubSeq(s, p + 1, e)
<1>8. /\ Len(w) = len + size
      /\ \A i \in 1 .. len + size : w[i] = IF i <= len THEN f[i] ELSE data[i - len]
  <2>1. /\ Len(f \o data) = Len(f) + Len(data)
        /\ \A i \in 1 .. Len(f) + Len(data) :
             (f \o data)[i] = IF i <= Len(f) THEN f[i] ELSE data[i - Len(f)]
    BY <1>7, ConcatProperties, Zenon
  <2>2. w = f \o data
    BY <1>5
  <2> HIDE DEF w
  <2> QED
    BY <1>7, <2>1, <2>2, Zenon DEF size
<1>9. /\ Len(w) = IF p <= e THEN e - p ELSE 0
      /\ \A i \in 1 .. e - p : w[i] = s[p + i]
  BY Sliced
<1> HIDE DEF w, len
<1>10. e = p + len + size /\ e - p = len + size
  BY <1>1, <1>2, <1>8, <1>9
<1>11. \A k \in 1 .. len : s[p + k] = f[k]
  <2> SUFFICES ASSUME NEW k \in 1 .. len PROVE s[p + k] = f[k]
    OBVIOUS
  <2>1. k \in 1 .. len + size /\ k <= len
    BY <1>1, <1>2
  <2> QED
    BY <1>8, <1>9, <1>10, <2>1, Zenon
<1>12. LengthField(b, s, p) = n
  BY <1>1, <1>4, <1>6, <1>11, FieldReadsBack DEF f, len
<1>13. AdjustedLength(b, s, p) = size
  <2>1. n + adj = size
    BY <1>1, <1>2 DEF n
  <2> QED
    BY <1>12, <2>1, Zenon DEF AdjustedLength, adj
<1>14. BodyStart(b, p) = p + len /\ BodyEnd(b, s, p) = e
  BY <1>1, <1>10, <1>13, Zenon DEF BodyStart, BodyEnd
<1>15. SubSeq(s, (p + len) + 1, e) = data
  <2> DEFINE a == p + len
             d == SubSeq(s, a + 1, e)
  <2>1. a \in Nat /\ a <= e /\ e - a = size
    BY <1>1, <1>2, <1>10
  <2>2. \A i \in 1 .. size : /\ a + i = p + (len + i) /\ len + i \in 1 .. len + size
                            /\ ~(len + i <= len) /\ (len + i) - len = i
    BY <1>1, <1>2
  <2> HIDE DEF a
  <2>3. d \in Seq(Byte) /\ Len(d) = size /\ \A i \in 1 .. size : d[i] = s[a + i]
    BY <2>1, SlicedWithin, Zenon
  <2> HIDE DEF d
  <2>4. \A i \in 1 .. size : d[i] = data[i]
    <3> SUFFICES ASSUME NEW i \in 1 .. size PROVE d[i] = data[i]
      OBVIOUS
    <3>1. d[i] = s[p + (len + i)]
      BY <2>2, <2>3, Zenon
    <3>2. s[p + (len + i)] = w[len + i]
      BY <1>9, <1>10, <2>2, Zenon
    <3>3. w[len + i] = data[(len + i) - len]
      BY <1>8, <2>2, Zenon
    <3> QED
      BY <2>2, <3>1, <3>2, <3>3, Zenon
  <2>5. d = data
    BY <2>3, <2>4, SeqEqual, Zenon DEF size
  <2> QED
    BY <2>5 DEF d, a
<1>16. ~LengthOverflows(size)
  BY <1>2, ConstantsAssumption DEF LengthOverflows
<1>17. ~(n > b.max_frame_len)
  BY <1>1, <1>4, <1>6
<1> QED
  BY <1>3, <1>10, <1>12, <1>13, <1>14, <1>15, <1>16, <1>17, Zenon DEF size, len, Accepts

-----------------------------------------------------------------------------
(* The whole stream *)

\* What is given: the payloads, the stream that encode() made of them, and where it is cut
Given(b, s, ps, cut) ==
  /\ BothWays(b) /\ s \in Seq(Byte) /\ ps \in Seq(Seq(Byte))
  /\ cut \in [0 .. Len(ps) -> 0 .. Len(s)]
  /\ cut[0] = 0 /\ cut[Len(ps)] = Len(s)
  /\ \A i \in 1 .. Len(ps) :
       /\ Encodable(b, ps[i]) /\ Readable(b, Len(ps[i])) /\ Len(ps[i]) <= UsizeMax
       /\ SubSeq(s, cut[i - 1] + 1, cut[i]) = encode(b, ps[i])

(* Cuts is what its recursive definition says, and its values increase. *)
LEMMA CutsAre ==
  ASSUME NEW b, NEW ps \in Seq(Seq(Byte)), b.length_field_len \in Nat
  PROVE  /\ Cuts(b, ps) \in [0 .. Len(ps) -> Nat]
         /\ Cuts(b, ps)[0] = 0
         /\ \A i \in 0 .. Len(ps) : Cuts(b, ps)[i] <= Cuts(b, ps)[Len(ps)]
<1> DEFINE L == Len(ps)
           S == 0 .. L
           w == b.length_field_len
           m == [i \in S |-> i]
           base == [i \in S |-> 0]
           nx == [i \in S |-> i - 1]
           size == [i \in S |-> IF i = 0 THEN 0 ELSE w + Len(ps[i])]
           g == [i \in S |-> [n \in Nat |-> n + size[i]]]
           Eq(c) == [i \in S |-> IF i = 0 THEN 0 ELSE c[i - 1] + w + Len(ps[i])]
<1>1. L \in Nat
  BY LenProperties, Zenon
<1>2. \A i \in S : i # 0 => i \in 1 .. L /\ i - 1 \in S /\ i - 1 < i
  BY <1>1
<1>3. \A i \in S : size[i] \in Nat /\ (i # 0 => Len(ps[i]) \in Nat)
  <2> SUFFICES ASSUME NEW i \in S, i # 0 PROVE Len(ps[i]) \in Nat
    OBVIOUS
  <2>1. ps[i] \in Seq(Byte)
    BY <1>2, ElementOfSeq, Zenon
  <2> QED
    BY <2>1, LenProperties, Zenon
<1>4. \A i \in S : /\ m[i] = i /\ i \in Nat /\ base[i] = 0 /\ nx[i] = i - 1
                   /\ i # 0 => size[i] = w + Len(ps[i])
                   /\ \A n \in Nat : g[i][n] = n + size[i]
  <2>1. \A i \in S : i \in Nat
    BY <1>1
  <2> QED
    BY <2>1, Zenon
<1>5. Recursive(S, Nat, {0}, L, m, base, g, nx)
  <2>1. m \in [S -> 0 .. L] /\ base \in [S -> Nat]
    BY Zenon
  <2>2. \A i \in S, n \in Nat : n + size[i] \in Nat
    <3> HIDE DEF size
    <3> QED
      BY <1>3
  <2>3. g \in [S -> [Nat -> Nat]]
    BY <2>2, Zenon
  <2>4. \A i \in S : i # 0 => nx[i] \in S /\ m[nx[i]] < m[i]
    BY <1>2, <1>4, Zenon
  <2> QED
    BY <1>1, <2>1, <2>3, <2>4, Zenon DEF Recursive
<1> HIDE DEF m, base, nx, g
<1>6. IsDefined(S, Nat, {0}, base, g, nx)
  BY <1>5, RecursionDefines, Zenon
<1>7. PICK f \in [S -> Nat] :
        \A i \in S : f[i] = IF i \in {0} THEN base[i] ELSE g[i][f[nx[i]]]
  BY <1>6 DEF IsDefined
<1>8. ASSUME NEW i \in S
      PROVE  f[i] = IF i = 0 THEN 0 ELSE f[i - 1] + w + Len(ps[i])
  <2>1. CASE i = 0
    BY <1>4, <1>7, <2>1, Zenon
  <2>2. CASE i # 0
    <3>1. i - 1 \in S /\ nx[i] = i - 1 /\ f[i - 1] \in Nat
      BY <1>2, <1>4, <1>7, <2>2, Zenon
    <3>2. f[i] = f[i - 1] + (w + Len(ps[i]))
      <4>1. f[i] = g[i][f[i - 1]]
        BY <1>7, <2>2, <3>1, Zenon
      <4>2. g[i][f[i - 1]] = f[i - 1] + size[i] /\ size[i] = w + Len(ps[i])
        BY <1>4, <2>2, <3>1, Zenon
      <4> HIDE DEF size, w
      <4> QED
        BY <4>1, <4>2, Zenon
    <3>3. Len(ps[i]) \in Nat
      BY <1>3, <2>2
    <3> QED
      BY <2>2, <3>1, <3>2, <3>3
  <2> QED
    BY <2>1, <2>2
<1>9. f = Eq(f)
  BY <1>7, <1>8, Zenon
<1>10. Cuts(b, ps) = CHOOSE c : c = Eq(c)
  BY Zenon DEF Cuts
<1> DEFINE C == Cuts(b, ps)
<1>11. C = Eq(C)
  <2> HIDE DEF Eq
  <2> QED
    BY <1>9, <1>10, Zenon
<1> HIDE DEF C
<1>12. \A i \in S : C[i] = IF i = 0 THEN 0 ELSE C[i - 1] + w + Len(ps[i])
  BY <1>11, Zenon
<1>13. /\ C[0] = 0 /\ 0 \in S
       /\ \A n \in Nat : n + 1 \in S => /\ n \in S /\ Len(ps[n + 1]) \in Nat
                                        /\ C[n + 1] = C[n] + w + Len(ps[n + 1])
  <2>1. 0 \in S /\ \A n \in Nat : n + 1 \in S => n \in S /\ n + 1 # 0 /\ (n + 1) - 1 = n
    BY <1>1
  <2> QED
    BY <1>3, <1>12, <2>1, Zenon
<1> HIDE DEF S, w
<1> DEFINE T == {n \in Nat : n \in S => C[n] \in Nat}
<1>14. \A n \in Nat : n \in T
  <2>1. 0 \in T
    BY <1>13
  <2>2. ASSUME NEW n \in Nat, n \in T
        PROVE  n + 1 \in T
    <3> DEFINE d == Len(ps[n + 1])
    <3>1. n + 1 \in S => C[n] \in Nat /\ d \in Nat /\ C[n + 1] = C[n] + w + d
      BY <1>13, <2>2, Zenon
    <3> HIDE DEF d
    <3>2. n + 1 \in S => C[n + 1] \in Nat
      BY <3>1 DEF w
    <3> QED
      BY <3>2
  <2> HIDE DEF T
  <2> QED
    BY <2>1, <2>2, Induction, Zenon
<1> DEFINE V == {n \in Nat : n \in S => \A i \in 0 .. n : C[i] <= C[n]}
<1>15. \A n \in Nat : n \in V
  <2>1. 0 \in V
    BY <1>13
  <2>2. ASSUME NEW n \in Nat, n \in V
        PROVE  n + 1 \in V
    <3>0. n + 1 \in Nat
      OBVIOUS
    <3> SUFFICES ASSUME n + 1 \in S, NEW i \in 0 .. n + 1 PROVE C[i] <= C[n + 1]
      BY <3>0, Zenon
    <3> DEFINE d == Len(ps[n + 1])
    <3>1. /\ n \in S /\ d \in Nat /\ C[n + 1] = C[n] + w + d
          /\ C[n] \in Nat /\ C[n + 1] \in Nat
      BY <1>13, <1>14, <3>0, Zenon
    <3>2. C[n] <= C[n + 1]
      <4> HIDE DEF d
      <4> QED
        BY <3>1 DEF w
    <3>3. CASE i = n + 1
      BY <3>1, <3>3
    <3>4. CASE i # n + 1
      <4>1. i \in 0 .. n /\ i \in Nat /\ i \in S
        BY <3>1, <3>4, <1>1 DEF S
      <4>2. C[i] <= C[n] /\ C[i] \in Nat
        BY <1>14, <2>2, <3>1, <4>1, Zenon
      <4> QED
        BY <3>1, <3>2, <4>2
    <3> QED
      BY <3>3, <3>4
  <2> HIDE DEF V
  <2> QED
    BY <2>1, <2>2, Induction, Zenon
<1>16. L \in S /\ \A i \in S : i \in Nat /\ i \in 0 .. L
  BY <1>1 DEF S
<1>17. C \in [S -> Nat]
  BY <1>11, <1>14, <1>16, Zenon
<1>18. \A i \in S : C[i] <= C[L]
  BY <1>15, <1>16, <1>1, Zenon
<1> QED
  BY <1>13, <1>17, <1>18, Zenon DEF C, S

(* What RoundTrip is about is given. *)
LEMMA WrittenIsGiven ==
  ASSUME NEW b, NEW s \in Seq(Byte), NEW ps \in Seq(Seq(Byte)),
         BothWays(b), WrittenAs(b, s, ps)
  PROVE  Given(b, s, ps, Cuts(b, ps))
<1> DEFINE c == Cuts(b, ps)
<1>1. /\ c[Len(ps)] = Len(s)
      /\ \A i \in 1 .. Len(ps) :
           /\ Encodable(b, ps[i]) /\ Readable(b, Len(ps[i])) /\ Len(ps[i]) <= UsizeMax
           /\ SubSeq(s, c[i - 1] + 1, c[i]) = encode(b, ps[i])
  BY Zenon DEF WrittenAs
<1>2. b.length_field_len \in Nat
  BY DEF BothWays, BuilderType
<1>3. /\ c \in [0 .. Len(ps) -> Nat] /\ c[0] = 0
      /\ \A i \in 0 .. Len(ps) : c[i] <= c[Len(ps)]
  BY <1>2, CutsAre, Zenon
<1>4. Len(s) \in Nat
  BY LenProperties, Zenon
<1> HIDE DEF c
<1>5. c \in [0 .. Len(ps) -> 0 .. Len(s)]
  <2>1. ASSUME NEW i \in 0 .. Len(ps)
        PROVE  c[i] \in 0 .. Len(s)
    <3>1. c[i] \in Nat /\ c[i] <= Len(s)
      BY <1>1, <1>3, Zenon
    <3> QED
      BY <1>4, <3>1
  <2> QED
    BY <1>3, <2>1, Zenon
<1>6. Given(b, s, ps, c)
  BY <1>1, <1>3, <1>5, Zenon DEF Given
<1> QED
  BY <1>6 DEF c

\* The inductive invariant next to that of LengthCodec: the decoder is between two
\* payloads, or has remembered the length of the one it is in.
Tracks(b, s, ps, cut) ==
  /\ builder = b /\ stream = s /\ status = "ok"
  /\ Len(frames) <= Len(ps)
  /\ NextHead = cut[Len(frames)]
  /\ \A i \in 1 .. Len(frames) : frames[i].body = ps[i]
  /\ state # Head_ => Len(frames) < Len(ps)

(* What decode() finds behind the first j payloads. *)
LEMMA NextPayload ==
  ASSUME NEW b, NEW s, NEW ps, NEW cut, Given(b, s, ps, cut),
         NEW j \in Nat, j < Len(ps)
  PROVE  /\ cut[j] \in Nat /\ cut[j + 1] \in Nat /\ cut[j + 1] <= Len(s)
         /\ ps[j + 1] \in Seq(Byte) /\ Len(ps[j + 1]) \in Nat
         /\ b.length_field_len \in 1 .. 8 /\ GetNumSkip(b) = b.length_field_len
         /\ Accepts(b, s, cut[j], cut[j + 1], ps[j + 1])
<1>1. /\ BothWays(b) /\ s \in Seq(Byte) /\ ps \in Seq(Seq(Byte))
      /\ Len(ps) \in Nat /\ Len(s) \in Nat
  BY LenProperties, Zenon DEF Given
<1>2. /\ j \in 0 .. Len(ps) /\ j + 1 \in 0 .. Len(ps) /\ j + 1 \in 1 .. Len(ps)
      /\ (j + 1) - 1 = j
  BY <1>1
<1>3. cut[j] \in 0 .. Len(s) /\ cut[j + 1] \in 0 .. Len(s)
  BY <1>2, Zenon DEF Given
<1>4. cut[j] \in Nat /\ cut[j + 1] \in Nat /\ cut[j + 1] <= Len(s)
  BY <1>1, <1>3
<1>5. /\ Encodable(b, ps[j + 1]) /\ Readable(b, Len(ps[j + 1])) /\ Len(ps[j + 1]) <= UsizeMax
      /\ SubSeq(s, cut[(j + 1) - 1] + 1, cut[j + 1]) = encode(b, ps[j + 1])
  BY <1>2, Zenon DEF Given
<1>6. ps[j + 1] \in Seq(Byte)
  BY <1>1, <1>2, ElementOfSeq, Zenon
<1>7. Len(ps[j + 1]) \in Nat
  BY <1>6, LenProperties, Zenon
<1>8. b.length_field_len \in 1 .. 8 /\ GetNumSkip(b) = b.length_field_len
  BY <1>1 DEF BothWays, BuilderType
<1>9. SubSeq(s, cut[j] + 1, cut[j + 1]) = encode(b, ps[j + 1])
  BY <1>2, <1>5, Zenon
<1>10. Accepts(b, s, cut[j], cut[j + 1], ps[j + 1])
  BY <1>1, <1>4, <1>5, <1>6, <1>9, FrameReadsBack, Zenon
<1> QED
  BY <1>4, <1>6, <1>7, <1>8, <1>10

(* decode_data() returns the next payload. *)
LEMMA PayloadReturned ==
  ASSUME NEW b, NEW s, NEW ps, NEW cut, Given(b, s, ps, cut),
         IInv, Tracks(b, s, ps, cut), Len(frames) < Len(ps),
         DecodeData(NextHead, BodyStart(builder, NextHead),
                    AdjustedLength(builder, stream, NextHead))
  PROVE  Tracks(b, s, ps, cut)'
<1> DEFINE j == Len(frames)
           p == NextHead
           from == BodyStart(builder, p)
           n == AdjustedLength(builder, stream, p)
           new == [at |-> p, body |-> SubSeq(stream, from + 1, from + n)]
<1>1. /\ builder = b /\ stream = s /\ status = "ok" /\ p = cut[j]
      /\ \A i \in 1 .. j : frames[i].body = ps[i]
  BY DEF Tracks
<1>2. /\ frames' = Append(frames, new) /\ pos' = from + n /\ state' = Head_
      /\ builder' = builder /\ stream' = stream /\ status' = status
  BY Zenon DEF DecodeData
<1>3. j \in Nat /\ ps \in Seq(Seq(Byte)) /\ Len(ps) \in Nat
      /\ frames \in Seq([at : Nat, body : Seq(Byte)])
  BY LenProperties, Zenon DEF IInv, TypeOK, Given
<1>4. /\ SubSeq(s, BodyStart(b, p) + 1, BodyEnd(b, s, p)) = ps[j + 1]
      /\ BodyEnd(b, s, p) = cut[j + 1]
      /\ p \in Nat /\ ps[j + 1] \in Seq(Byte)
  <2>1. /\ Accepts(b, s, cut[j], cut[j + 1], ps[j + 1])
        /\ cut[j] \in Nat /\ ps[j + 1] \in Seq(Byte)
    BY <1>3, NextPayload, Zenon
  <2> QED
    BY <1>1, <2>1, Zenon DEF Accepts
<1>5. /\ from + n = cut[j + 1] /\ new.body = ps[j + 1]
      /\ new \in [at : Nat, body : Seq(Byte)]
  <2>1. BodyEnd(b, s, p) = from + n
    BY <1>1, Zenon DEF BodyEnd
  <2> QED
    BY <1>1, <1>4, <2>1
<1> HIDE DEF new, n, from, p
<1>6. /\ Len(frames') = j + 1
      /\ \A i \in 1 .. j : frames'[i] = frames[i]
      /\ frames'[j + 1] = new
  BY <1>2, <1>3, <1>5, Appended
<1>7. NextHead' = cut[Len(frames')]
  BY <1>2, <1>5, <1>6 DEF NextHead
<1>8. \A i \in 1 .. Len(frames') : frames'[i].body = ps[i]
  <2> SUFFICES ASSUME NEW i \in 1 .. Len(frames') PROVE frames'[i].body = ps[i]
    OBVIOUS
  <2>1. i \in 1 .. j \/ i = j + 1
    BY <1>3, <1>6
  <2> QED
    BY <1>1, <1>5, <1>6, <2>1
<1>9. Len(frames') <= Len(ps)
  BY <1>3, <1>6
<1> QED
  BY <1>1, <1>2, <1>7, <1>8, <1>9 DEF Tracks

(* A head in the buffer is that of one more payload, and good. *)
LEMMA HeadIsAPayloads ==
  ASSUME NEW b, NEW s, NEW ps, NEW cut, Given(b, s, ps, cut),
         IInv, Tracks(b, s, ps, cut), HeadArrived
  PROVE  /\ Len(frames) < Len(ps) /\ NextHead = pos /\ ~HeadRejected
         /\ AdjustedLength(builder, stream, pos) \in Nat
<1> DEFINE j == Len(frames)
<1>1. /\ builder = b /\ stream = s /\ pos = cut[j] /\ NextHead = pos /\ j <= Len(ps)
  BY DEF Tracks, HeadArrived, NextHead
<1>2. /\ j \in Nat /\ Len(ps) \in Nat /\ Len(s) \in Nat
      /\ recvd \in Nat /\ pos \in Nat /\ recvd <= Len(s)
      /\ b.length_field_len \in Nat \ {0} /\ b \in BuilderType
  <2>1. /\ frames \in Seq([at : Nat, body : Seq(Byte)]) /\ s \in Seq(Byte)
        /\ ps \in Seq(Seq(Byte))
    BY Zenon DEF IInv, TypeOK, Given
  <2>2. j \in Nat /\ Len(ps) \in Nat /\ Len(s) \in Nat
    BY <2>1, LenProperties, Zenon
  <2>3. b \in BuilderType
    BY DEF Given, BothWays
  <2>4. b.length_field_len \in Nat \ {0}
    BY <2>3 DEF BuilderType
  <2> QED
    BY <1>1, <2>2, <2>3, <2>4 DEF IInv, TypeOK
<1>3. recvd - pos >= NumHeadBytes(b)
  BY <1>1 DEF HeadArrived, Buffered
<1>4. NumHeadBytes(b) \in Nat /\ NumHeadBytes(b) >= b.length_field_len
  <2>1. /\ NumHeadBytes(b) \in Nat /\ b.length_field_offset \in Nat
        /\ b.length_field_offset + b.length_field_len <= NumHeadBytes(b)
    BY <1>2, HeadBytes, Zenon
  <2> QED
    BY <1>2, <2>1
<1>5. pos < Len(s)
  BY <1>2, <1>3, <1>4
<1>6. j # Len(ps)
  <2>1. cut[Len(ps)] = Len(s)
    BY DEF Given
  <2> QED
    BY <1>1, <1>2, <1>5, <2>1
<1>7. j < Len(ps)
  BY <1>1, <1>2, <1>6
<1>8. /\ ~(LengthField(b, s, pos) > b.max_frame_len)
      /\ ~LengthOverflows(AdjustedLength(b, s, pos))
      /\ AdjustedLength(b, s, pos) = Len(ps[j + 1]) /\ Len(ps[j + 1]) \in Nat
  <2>1. Accepts(b, s, cut[j], cut[j + 1], ps[j + 1]) /\ Len(ps[j + 1]) \in Nat
    BY <1>2, <1>7, NextPayload, Zenon
  <2> QED
    BY <1>1, <2>1, Zenon DEF Accepts
<1> QED
  BY <1>1, <1>7, <1>8 DEF HeadRejected

(* Every step keeps to the payloads, as long as nobody changes the maximum. *)
LEMMA StepTracks ==
  ASSUME NEW b, NEW s, NEW ps, NEW cut, Given(b, s, ps, cut), MaxLens = {},
         IInv, Tracks(b, s, ps, cut), [Next]_vars
  PROVE  Tracks(b, s, ps, cut)'
<1>1. CASE UNCHANGED vars
  BY <1>1 DEF vars, Tracks, NextHead
<1>2. ASSUME NEW k \in 1 .. Len(stream), Receive(k)
      PROVE  Tracks(b, s, ps, cut)'
  BY <1>2 DEF Receive, Tracks, NextHead
<1>3. CASE DecodeHeadFails
  BY <1>3, HeadIsAPayloads DEF DecodeHeadFails
<1>4. CASE DecodeHeadOnly
  <2>1. /\ HeadArrived
        /\ pos' = BodyStart(builder, pos)
        /\ state' = AdjustedLength(builder, stream, pos)
        /\ UNCHANGED <<builder, stream, recvd, frames, status>>
    BY <1>4 DEF DecodeHeadOnly
  <2>2. Len(frames) < Len(ps) /\ NextHead = pos /\ ~HeadRejected /\ state' \in Nat
    BY <2>1, HeadIsAPayloads
  <2>3. pos = pos' - GetNumSkip(builder)
    BY <2>1, <2>2, AcceptedHead DEF IInv
  <2>4. NextHead' = NextHead
    BY <2>1, <2>2, <2>3 DEF NextHead, Head_
  <2> QED
    BY <2>1, <2>2, <2>4 DEF Tracks
<1>5. CASE DecodeHeadAndData
  <2>1. /\ HeadArrived
        /\ DecodeData(pos, BodyStart(builder, pos), AdjustedLength(builder, stream, pos))
    BY <1>5 DEF DecodeHeadAndData
  <2>2. Len(frames) < Len(ps) /\ NextHead = pos
    BY <2>1, HeadIsAPayloads
  <2> QED
    BY <2>1, <2>2, PayloadReturned
<1>6. CASE DecodeRest
  <2>1. state # Head_ /\ DecodeData(pos - GetNumSkip(builder), pos, state)
    BY <1>6 DEF DecodeRest
  <2>2. /\ NextHead = pos - GetNumSkip(builder)
        /\ state = AdjustedLength(builder, stream, NextHead)
        /\ Len(frames) < Len(ps)
    BY <2>1 DEF NextHead, IInv, RememberedLengthIsTheHeads, Tracks
  <2>3. pos = BodyStart(builder, NextHead)
    <3>1. pos \in Nat /\ GetNumSkip(builder) \in Nat
      BY HeadBytes DEF IInv, TypeOK
    <3> QED
      BY <2>2, <3>1 DEF BodyStart
  <2> QED
    BY <2>1, <2>2, <2>3, PayloadReturned
<1> QED
  BY <1>1, <1>2, <1>3, <1>4, <1>5, <1>6 DEF Next, decode

(* A decoder that keeps to the payloads reads them back, and stops behind the last. *)
LEMMA TracksReadsBack ==
  ASSUME NEW b, NEW s, NEW ps, NEW cut, Given(b, s, ps, cut),
         IInv, Tracks(b, s, ps, cut)
  PROVE  status = "ok" /\ FramesAre(ps)
<1> DEFINE j == Len(frames)
<1>1. Len(frames) \in Nat /\ Len(ps) \in Nat /\ Len(s) \in Nat /\ pos \in Nat
  <2>1. /\ frames \in Seq([at : Nat, body : Seq(Byte)]) /\ s \in Seq(Byte)
        /\ ps \in Seq(Seq(Byte))
    BY Zenon DEF IInv, TypeOK, Given
  <2>2. j \in Nat /\ Len(ps) \in Nat /\ Len(s) \in Nat
    BY <2>1, LenProperties, Zenon
  <2> QED
    BY <2>2 DEF IInv, TypeOK
<1>2. ASSUME Drained, j # Len(ps)
      PROVE  FALSE
  <2>1. j < Len(ps)
    BY <1>1, <1>2 DEF Tracks
  <2>2. /\ builder = b /\ stream = s /\ NextHead = cut[j] /\ recvd = Len(s)
    BY <1>2 DEF Tracks, Drained
  <2> DEFINE len == b.length_field_len
             size == Len(ps[j + 1])
             end == cut[j + 1]
             skip == GetNumSkip(b)
             head == NumHeadBytes(b)
             next == cut[j]
  <2>3. /\ next \in Nat /\ end \in Nat /\ end <= Len(s) /\ size \in Nat /\ len \in 1 .. 8
        /\ head = len /\ skip = len /\ AdjustedLength(b, s, cut[j]) = size
        /\ end = next + len + size
    <3>1. /\ cut[j] \in Nat /\ cut[j + 1] \in Nat /\ cut[j + 1] <= Len(s)
          /\ Len(ps[j + 1]) \in Nat
          /\ b.length_field_len \in 1 .. 8 /\ GetNumSkip(b) = b.length_field_len
          /\ Accepts(b, s, cut[j], cut[j + 1], ps[j + 1])
      BY <1>1, <2>1, NextPayload, Zenon
    <3> QED
      BY <3>1, Zenon DEF Accepts
  <2>4. IF state = Head_ THEN Len(s) - pos < head /\ pos = next
                         ELSE Len(s) - pos < size /\ pos - skip = next
    BY <1>2, <2>2, <2>3 DEF Drained, Buffered, NextHead, IInv, RememberedLengthIsTheHeads
  <2> HIDE DEF len, size, end, skip, head, next
  <2> QED
    BY <1>1, <2>3, <2>4
<1> QED
  BY <1>2 DEF FramesAre, Tracks

\* The decoder keeps to every list of payloads that the stream may be the encodings of
KeepsToPayloads ==
  \A ps \in PayloadLists :
    BothWays(builder) /\ WrittenAs(builder, stream, ps)
      => Tracks(builder, stream, ps, Cuts(builder, ps))

(* What encode() writes, decode() with the same configuration reads back: every list of
   payloads that the maximum, as either side counts it, and the width of the field allow;
   any width, byte order and adjustment of the field; however the bytes arrive. No call
   fails, and nothing is left over at the end. *)
THEOREM EncodedIsReadBack == MaxLens = {} => (Spec => []RoundTrip)
<1> SUFFICES ASSUME MaxLens = {} PROVE Spec => []RoundTrip
  OBVIOUS
<1>0. ASSUME IInv, NEW ps \in PayloadLists, BothWays(builder), WrittenAs(builder, stream, ps)
      PROVE  Given(builder, stream, ps, Cuts(builder, ps)) /\ ps \in Seq(Seq(Byte))
  <2>1. stream \in Seq(Byte) /\ ps \in Seq(Seq(Byte))
    BY <1>0, ConstantsAssumption DEF IInv, TypeOK
  <2> QED
    BY <1>0, <2>1, WrittenIsGiven, Zenon
<1>1. IInv /\ Init => KeepsToPayloads
  <2> SUFFICES ASSUME IInv, Init, NEW ps \in PayloadLists,
                      BothWays(builder), WrittenAs(builder, stream, ps)
               PROVE  Tracks(builder, stream, ps, Cuts(builder, ps))
    BY Zenon DEF KeepsToPayloads
  <2> DEFINE cut == Cuts(builder, ps)
  <2>1. cut[0] = 0 /\ Len(ps) \in Nat
    BY <1>0, LenProperties, Zenon DEF Given
  <2>2. NextHead = 0 /\ Len(frames) = 0 /\ state = Head_ /\ status = "ok"
    BY EmptyFacts DEF Init, NextHead
  <2> HIDE DEF cut
  <2>3. Tracks(builder, stream, ps, cut)
    BY <2>1, <2>2 DEF Tracks
  <2> QED
    BY <2>3 DEF cut
<1>2. IInv /\ KeepsToPayloads /\ [Next]_vars => KeepsToPayloads'
  <2> SUFFICES ASSUME IInv, KeepsToPayloads, [Next]_vars, NEW ps \in PayloadLists,
                      BothWays(builder'), WrittenAs(builder', stream', ps)
               PROVE  Tracks(builder, stream, ps, Cuts(builder, ps))'
    BY Zenon DEF KeepsToPayloads
  <2>1. builder' = builder /\ stream' = stream
    BY DEF Next, decode, Receive, DecodeHeadFails, DecodeHeadOnly, DecodeHeadAndData,
           DecodeRest, DecodeData, vars
  <2>2. BothWays(builder) /\ WrittenAs(builder, stream, ps)
    BY <2>1, Zenon
  <2>3. PICK b, s, cut : b = builder /\ s = stream /\ cut = Cuts(builder, ps)
    OBVIOUS
  <2>4. Given(b, s, ps, cut) /\ Tracks(b, s, ps, cut)
    BY <1>0, <2>2, <2>3, Zenon DEF KeepsToPayloads
  <2>5. Tracks(b, s, ps, cut)'
    BY <2>4, StepTracks
  <2>6. builder' = b /\ stream' = s /\ Cuts(builder', ps) = cut
    BY <2>1, <2>3, Zenon
  <2> QED
    BY <2>5, <2>6 DEF Tracks
<1>3. IInv /\ KeepsToPayloads => RoundTrip
  <2> SUFFICES ASSUME IInv, KeepsToPayloads, NEW ps \in PayloadLists,
                      BothWays(builder), WrittenAs(builder, stream, ps)
               PROVE  status = "ok" /\ FramesAre(ps)
    BY Zenon DEF RoundTrip
  <2>1. Given(builder, stream, ps, Cuts(builder, ps))
    BY <1>0
  <2>2. Tracks(builder, stream, ps, Cuts(builder, ps))
    BY Zenon DEF KeepsToPayloads
  <2> QED
    BY <2>1, <2>2, TracksReadsBack, Zenon
<1> QED
  BY <1>1, <1>2, <1>3, InitIInv, StepIInv, PTL DEF Spec

=============================================================================

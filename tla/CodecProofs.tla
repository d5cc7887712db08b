---------------------------- MODULE CodecProofs ----------------------------
(* Proofs about the codecs, for all requests and replies: with fields of any value, and
   with any number of operations in a multi. *)
EXTENDS Codecs, JuteProofs

-----------------------------------------------------------------------------
(* The turns of the codecs *)

\* Where a turn starts from
Starting ==
  \/ kind = "request" /\ item \in GoodFrames \cup RefusedFrames \cup OtherFrames
  \/ kind = "reply" /\ item \in GoodReplies \cup RefusedReplies \cup OtherReplies
  \/ IsRecord /\ item \in RowsOf(rec.wire)

\* What is read and written is what the codecs make of it
RequestTurn ==
  kind = "request" =>
    /\ packet = Refused("none") \/ packet = decode(item)
    /\ sent = <<>> \/ (packet.st = "ok" /\ sent = <<encode(packet)>>)
ReplyTurn ==
  kind = "reply" =>
    /\ packet = Refused("none") \/ packet = decodeReply(item.frame, Asks)
    /\ sent = <<>> \/ (packet.st = "ok" /\ sent = <<encodeReply(packet)>>)
RecordTurn ==
  IsRecord =>
    /\ packet = Refused("none") \/ packet = Deserialize(rec, Serialize(rec, item) \o Following)
    /\ sent = <<>> \/ sent = <<[len |-> Size(rec, item), body |-> Serialize(rec, item)]>>

TurnInv == Starting /\ RequestTurn /\ ReplyTurn /\ RecordTurn

(* Requests, replies and records are told apart. *)
LEMMA KindsDiffer ==
  /\ "request" \notin DOMAIN Records /\ "reply" \notin DOMAIN Records
  /\ "request" # "reply"
  BY DEF Records

(* No step of a codec takes a turn anywhere else. *)
THEOREM TurnsAreTaken == Spec => []TurnInv
<1> USE DEF IsRecord, rec, Asks
<1>1. Init => TurnInv
  BY Zenon DEF Init, TurnInv, Starting, RequestTurn, ReplyTurn, RecordTurn
<1>2. TurnInv /\ [Next]_vars => TurnInv'
  <2> SUFFICES ASSUME TurnInv, [Next]_vars PROVE TurnInv'
    OBVIOUS
  <2> USE DEF TurnInv
  <2>0. packet = Refused("none") => packet.st # "ok"
    BY DEF Refused
  <2>1. CASE UNCHANGED vars
    BY <2>1, Zenon DEF vars, Starting, RequestTurn, ReplyTurn, RecordTurn
  <2>2. CASE DecodeRequest
    <3>1. kind = "request" /\ packet' = decode(item) /\ UNCHANGED <<kind, item, sent>>
            /\ packet.st = "none"
      BY <2>2, Zenon DEF DecodeRequest, Read
    <3>2. packet.st # "ok"
      BY <3>1
    <3>3. kind \notin DOMAIN Records /\ kind # "reply"
      BY <3>1, KindsDiffer, Zenon
    <3>4. sent = <<>>
      BY <3>1, <3>2, Zenon DEF RequestTurn
    <3> QED
      BY <3>1, <3>3, <3>4, Zenon DEF Starting, RequestTurn, ReplyTurn, RecordTurn
  <2>3. CASE EncodeRequest
    <3>1. /\ kind = "request" /\ sent' = <<encode(packet)>> /\ UNCHANGED <<kind, item, packet>>
          /\ packet.st = "ok"
      BY <2>3, Zenon DEF EncodeRequest, Write
    <3>2. kind \notin DOMAIN Records /\ kind # "reply"
      BY <3>1, KindsDiffer, Zenon
    <3> QED
      BY <3>1, <3>2, Zenon DEF Starting, RequestTurn, ReplyTurn, RecordTurn
  <2>4. CASE DecodeReply
    <3>1. /\ kind = "reply" /\ packet' = decodeReply(item.frame, Asks)
          /\ UNCHANGED <<kind, item, sent>> /\ packet.st = "none"
      BY <2>4, Zenon DEF DecodeReply, Read
    <3>2. packet.st # "ok"
      BY <3>1
    <3>3. kind \notin DOMAIN Records /\ kind # "request"
      BY <3>1, KindsDiffer, Zenon
    <3>4. sent = <<>>
      BY <3>1, <3>2, Zenon DEF ReplyTurn
    <3> QED
      BY <3>1, <3>3, <3>4, Zenon DEF Starting, RequestTurn, ReplyTurn, RecordTurn
  <2>5. CASE EncodeReply
    <3>1. /\ kind = "reply" /\ sent' = <<encodeReply(packet)>> /\ UNCHANGED <<kind, item, packet>>
          /\ packet.st = "ok"
      BY <2>5, Zenon DEF EncodeReply, Write
    <3>2. kind \notin DOMAIN Records /\ kind # "request"
      BY <3>1, KindsDiffer, Zenon
    <3> QED
      BY <3>1, <3>2, Zenon DEF Starting, RequestTurn, ReplyTurn, RecordTurn
  <2>6. CASE WriteRecord
    <3>1. /\ kind \in DOMAIN Records /\ UNCHANGED <<kind, item, packet>>
          /\ sent' = <<[len |-> Size(rec, item), body |-> Serialize(rec, item)]>>
      BY <2>6, Zenon DEF WriteRecord, Write
    <3>2. kind # "request" /\ kind # "reply"
      BY <3>1, KindsDiffer, Zenon
    <3> QED
      BY <3>1, <3>2, Zenon DEF Starting, RequestTurn, ReplyTurn, RecordTurn
  <2>7. CASE ReadRecord
    <3>1. PICK i \in DOMAIN sent :
            /\ kind \in DOMAIN Records /\ UNCHANGED <<kind, item, sent>>
            /\ packet' = Deserialize(rec, sent[i].body \o Following)
      BY <2>7, Zenon DEF ReadRecord, Read
    <3>2. kind # "request" /\ kind # "reply"
      BY <3>1, KindsDiffer, Zenon
    <3>3. sent[i].body = Serialize(rec, item)
      <4> DEFINE w == [len |-> Size(rec, item), body |-> Serialize(rec, item)]
      <4>1. sent = <<>> \/ sent = <<w>>
        BY <3>1, Zenon DEF RecordTurn
      <4>2. w.body = Serialize(rec, item)
        BY Zenon
      <4> HIDE DEF w
      <4>3. sent[i] = w
        BY <3>1, <4>1
      <4> QED
        BY <4>2, <4>3, Zenon
    <3> QED
      BY <3>1, <3>2, <3>3, Zenon DEF Starting, RequestTurn, ReplyTurn, RecordTurn
  <2> QED
    BY <2>1, <2>2, <2>3, <2>4, <2>5, <2>6, <2>7, Zenon DEF Next
<1> QED
  BY <1>1, <1>2, PTL DEF Spec

(* A record read back from the middle of a buffer is the one that was written, and the reader
   stops at its last byte: for every record of proto.rs, whatever its fields hold and whatever
   is written behind it. *)
THEOREM RecordsReadBack == Spec => []ReadsBackToItsEnd
<1>1. TurnInv => ReadsBackToItsEnd
  <2> SUFFICES ASSUME TurnInv, IsRecord, packet.st # "none"
               PROVE  packet = [st |-> "ok", val |-> item, rest |-> Following]
    BY Zenon DEF ReadsBackToItsEnd
  <2>1. packet = Deserialize(rec, Serialize(rec, item) \o Following)
    <3>1. Refused("none").st = "none"
      BY DEF Refused
    <3> QED
      BY <3>1, Zenon DEF TurnInv, RecordTurn
  <2>2. rec.wire \in Seq(Fields)
    BY RecordsFit, Zenon DEF Fits, IsRecord, rec
  <2>3. item \in RowsOf(rec.wire)
    BY KindsDiffer, Zenon DEF TurnInv, Starting, IsRecord
  <2>4. item \in DOMAIN RecPut(rec)
    BY <2>2, <2>3, RowsOfRecord, Zenon
  <2> DEFINE toks == RecPut(rec)[item] \o Following
  <2>5. RecPut(rec)[item] = Serialize(rec, item) /\ RecPut(rec)[item] \in Seq(Tokens)
    BY <2>2, <2>4, RecPutIs, Zenon DEF IsPut
  <2>6. Following \in Seq(Tokens)
    BY CodecsAssumption, Zenon
  <2>7. toks \in Seq(Tokens)
    BY <2>5, <2>6, ConcatProperties, Zenon
  <2>8. DecodesBack(toks, Deserialize(rec, toks), RecPut(rec))
    <3> HIDE DEF toks
    <3> QED
      BY <2>2, <2>7, RecordRead, Zenon DEF Starts
  <2> QED
    BY <2>1, <2>4, <2>5, <2>6, <2>8, Zenon DEF DecodesBack
<1> QED
  BY <1>1, TurnsAreTaken, PTL

-----------------------------------------------------------------------------
(* Requests *)

\* What was read of toks is what is written as `body`, of the size `size`
Whole(toks, g, body, size) ==
  g.st = "ok" =>
    /\ body \in Seq(Tokens) /\ g.rest \in Seq(Tokens)
    /\ toks = body \o g.rest
    /\ size = Width(body) /\ size \in Nat

\* The rows a record reads and writes
RowsIn(R) == DOMAIN RecPut(R)

(* A record is read as it is written, and sized as it is wide. *)
LEMMA RecordWhole ==
  ASSUME NEW toks \in Seq(Tokens), NEW R, Fits(Fields, R)
  PROVE  LET g == Deserialize(R, toks)
         IN  /\ g.st \in Outcomes /\ g.val \in Seq(FieldVal) /\ g.rest \in Seq(Tokens)
             /\ g.st = "ok" => g.val \in RowsIn(R)
             /\ Whole(toks, g, Serialize(R, g.val), Size(R, g.val))
<1> DEFINE g == Deserialize(R, toks)
<1>1. R.wire \in Seq(Fields) /\ Fits(WireFields, R)
  <2>1. Fields \subseteq WireFields
    BY Zenon DEF WireFields
  <2>2. R.wire \in Seq(Fields) /\ WellSized(R)
    BY Zenon DEF Fits
  <2>3. R.wire \in Seq(WireFields)
    BY <2>1, <2>2, SeqMonotonic
  <2> QED
    BY <2>2, <2>3, Zenon DEF Fits
<1>2. Starts(toks, g, Seq(FieldVal), RecPut(R))
  BY <1>1, RecordRead, Zenon
<1> HIDE DEF g
<1>3. g \in [st : Outcomes, val : Seq(FieldVal), rest : Seq(Tokens)]
  BY <1>2, Zenon DEF Starts
<1>4. g.st \in Outcomes /\ g.val \in Seq(FieldVal) /\ g.rest \in Seq(Tokens)
  BY <1>3
<1>5. ASSUME g.st = "ok"
      PROVE  g.val \in RowsIn(R) /\ Whole(toks, g, Serialize(R, g.val), Size(R, g.val))
  <2>1. g.val \in RowsIn(R) /\ toks = RecPut(R)[g.val] \o g.rest
    BY <1>2, <1>5, Zenon DEF Starts, Decodes, RowsIn
  <2>2. RecPut(R)[g.val] = Serialize(R, g.val)
    BY <1>1, <2>1, RecPutIs, Zenon DEF RowsIn
  <2>3. g.val \in RowsFor(R)
    <3>1. Len(g.val) = Len(R.wire) /\ \A i \in 1 .. Len(R.wire) : g.val[i] \in FieldSet(R.wire[i])
      BY <1>1, <2>1, RecPutIs, Zenon DEF RowsIn
    <3>2. \A i \in 1 .. Len(R.wire) : R.wire[i] \in Fields
      BY <1>1, LenProperties, ElementOfSeq, Zenon
    <3>3. "read_only" \notin Fields
      BY WidthsOfFields
    <3> QED
      BY <1>4, <3>1, <3>2, <3>3, Zenon DEF RowsFor, WireSet
  <2>4. /\ Width(Serialize(R, g.val)) = Size(R, g.val)
        /\ Serialize(R, g.val) \in Seq(Tokens) /\ Size(R, g.val) \in Nat
    BY <1>1, <2>3, RecordWidth, Zenon
  <2> QED
    BY <1>4, <2>1, <2>2, <2>4, Zenon DEF Whole
<1>6. g.st # "ok" => Whole(toks, g, Serialize(R, g.val), Size(R, g.val))
  BY Zenon DEF Whole
<1> QED
  BY <1>4, <1>5, <1>6, Zenon DEF g

(* The bytes that a client or a server writes for the fields of a record are read back, whatever
   follows them. *)
LEMMA ImageReadBack ==
  ASSUME NEW R, R.wire \in Seq(Fields), NEW row \in RowsOf(R.wire), NEW rest \in Seq(Tokens)
  PROVE  LET image == ImageOf(R.wire, row)
         IN  /\ image \in Seq(Tokens) /\ image = Serialize(R, row)
             /\ Deserialize(R, image \o rest) = [st |-> "ok", val |-> row, rest |-> rest]
<1> DEFINE toks == RecPut(R)[row] \o rest
<1>1. row \in DOMAIN RecPut(R) /\ ImageOf(R.wire, row) = Serialize(R, row)
  BY RowsOfRecord, Zenon
<1>2. RecPut(R)[row] = Serialize(R, row) /\ RecPut(R)[row] \in Seq(Tokens)
  BY <1>1, RecPutIs, Zenon DEF IsPut
<1>3. toks \in Seq(Tokens)
  BY <1>2, ConcatProperties, Zenon
<1>4. DecodesBack(toks, Deserialize(R, toks), RecPut(R))
  <2> HIDE DEF toks
  <2> QED
    BY <1>3, RecordRead, Zenon DEF Starts
<1>5. Deserialize(R, toks) = [st |-> "ok", val |-> row, rest |-> rest]
  BY <1>1, <1>4, Zenon DEF DecodesBack
<1> QED
  BY <1>1, <1>2, <1>5, Zenon

(* size() of every request is right. *)
LEMMA RequestsFit ==
  /\ \A v \in DOMAIN RequestRecord : v # "Connect" => Fits(Fields, RequestRecord[v])
  /\ RequestRecord["Connect"] = ConnectRequest
  /\ Fits(Fields, MultiHeader) /\ Fits(Fields, RequestHeader)
  /\ "Multi" \notin DOMAIN RequestRecord /\ "Connect" \in DOMAIN RequestRecord
<1>1. \A R \in SmallRecords : Fits(Fields, R)
  BY SmallFit, Zenon
<1>2. \A v \in DOMAIN RequestRecord : v # "Connect" => RequestRecord[v] \in SmallRecords \cup {NoBody}
  BY SmallOnes DEF RequestRecord
<1>3. /\ RequestRecord["Connect"] = ConnectRequest
      /\ "Multi" \notin DOMAIN RequestRecord /\ "Connect" \in DOMAIN RequestRecord
  BY DEF RequestRecord
<1>4. MultiHeader \in SmallRecords /\ RequestHeader \in SmallRecords
  BY SmallOnes, Zenon
<1> QED
  BY <1>1, <1>2, <1>3, <1>4, WireFits, Zenon

(* Every opcode is read as a request with a record of its own. *)
LEMMA VariantsAre ==
  /\ \A op \in DOMAIN DataVariant : DataVariant[op] \in DOMAIN RequestRecord \ {"Connect"}
  /\ \A op \in DOMAIN MultiVariant : MultiVariant[op] \in DOMAIN RequestRecord \ {"Connect"}
  BY DEF DataVariant, MultiVariant, RequestRecord

-----------------------------------------------------------------------------
(* The operations of a multi *)

\* An operation as the loop keeps it, and the loop's state
MultiOps ==
  UNION {[header : RowsIn(MultiHeader), variant : {v}, val : RowsIn(RequestRecord[v])] :
           v \in DOMAIN RequestRecord \ {"Connect"}}
MultiStates ==
  [st : Outcomes \cup {"loop"}, rest : Seq(Tokens), done_header : Seq(FieldVal), ops : Seq(MultiOps)]

PutOps(ops) == FlattenSeq([i \in DOMAIN ops |-> SerializeOp(ops[i])])
SizeOps(ops) == Total([i \in DOMAIN ops |-> SizeOp(ops[i])])

\* The operations read so far, and the last header, are what was read of toks
Consumed(toks, m) ==
  /\ m.st = "loop" => toks = PutOps(m.ops) \o m.rest
  /\ m.st = "ok" => /\ m.done_header \in RowsIn(MultiHeader)
                    /\ toks = PutOps(m.ops) \o (Serialize(MultiHeader, m.done_header) \o m.rest)

(* A row of a record is written in as many tokens as its size() says. *)
LEMMA RowIs ==
  ASSUME NEW R, Fits(Fields, R), NEW row \in RowsIn(R)
  PROVE  /\ Serialize(R, row) \in Seq(Tokens)
         /\ Width(Serialize(R, row)) = Size(R, row) /\ Size(R, row) \in Nat
<1> DEFINE toks == Serialize(R, row) \o <<>>
<1>1. R.wire \in Seq(Fields)
  BY Zenon DEF Fits
<1>2. RecPut(R)[row] = Serialize(R, row) /\ RecPut(R)[row] \in Seq(Tokens)
  BY <1>1, RecPutIs, Zenon DEF IsPut, RowsIn
<1>3. <<>> \in Seq(Tokens) /\ toks \in Seq(Tokens)
  BY <1>2, ConcatProperties, EmptyFacts, Zenon
<1>4. DecodesBack(toks, Deserialize(R, toks), RecPut(R))
  <2> HIDE DEF toks
  <2> QED
    BY <1>1, <1>3, RecordRead, Zenon DEF Starts
<1>5. Deserialize(R, toks) = [st |-> "ok", val |-> row, rest |-> <<>>]
  BY <1>2, <1>3, <1>4, Zenon DEF DecodesBack, RowsIn
<1> DEFINE g == Deserialize(R, toks)
<1>6. g.st = "ok" /\ g.val = row
  <2> HIDE DEF g, toks
  <2>1. g = [st |-> "ok", val |-> row, rest |-> <<>>]
    BY <1>5, Zenon DEF g
  <2> QED
    BY <2>1
<1>7. Whole(toks, Deserialize(R, toks), Serialize(R, row), Size(R, row))
  <2> HIDE DEF toks
  <2> QED
    BY <1>3, <1>6, RecordWhole, Zenon
<1> QED
  BY <1>6, <1>7, Zenon DEF Whole

(* An operation is written as wide as its size() says. *)
LEMMA OpIs ==
  ASSUME NEW op \in MultiOps
  PROVE  /\ SerializeOp(op) \in Seq(Tokens)
         /\ Width(SerializeOp(op)) = SizeOp(op) /\ SizeOp(op) \in Nat
<1> DEFINE R == RequestRecord[op.variant]
           a == Serialize(MultiHeader, op.header)
           b == Serialize(R, op.val)
<1>1. /\ op.variant \in DOMAIN RequestRecord \ {"Connect"}
      /\ op.header \in RowsIn(MultiHeader) /\ op.val \in RowsIn(R)
  BY DEF MultiOps
<1>2. Fits(Fields, R) /\ Fits(Fields, MultiHeader)
  BY <1>1, RequestsFit, Zenon
<1>3. /\ a \in Seq(Tokens) /\ Width(a) = Size(MultiHeader, op.header)
         /\ Size(MultiHeader, op.header) \in Nat
      /\ b \in Seq(Tokens) /\ Width(b) = Size(R, op.val) /\ Size(R, op.val) \in Nat
  BY <1>1, <1>2, RowIs, Zenon
<1>4. SerializeOp(op) = a \o b /\ SizeOp(op) = Size(MultiHeader, op.header) + Size(R, op.val)
  BY Zenon DEF SerializeOp, SizeOp
<1> HIDE DEF a, b, R
<1>5. Width(a \o b) = Width(a) + Width(b) /\ a \o b \in Seq(Tokens)
  BY <1>3, WidthOfConcat, Zenon
<1> QED
  BY <1>3, <1>4, <1>5

(* So are several. *)
LEMMA OpsAre ==
  ASSUME NEW ops \in Seq(MultiOps)
  PROVE  /\ PutOps(ops) \in Seq(Tokens)
         /\ Width(PutOps(ops)) = SizeOps(ops)
<1> DEFINE n == Len(ops)
           ss == [i \in DOMAIN ops |-> SerializeOp(ops[i])]
<1>1. n \in Nat /\ DOMAIN ops = 1 .. n /\ \A i \in 1 .. n : ops[i] \in MultiOps
  BY LenProperties, ElementOfSeq, Zenon
<1>2. \A i \in 1 .. n : SerializeOp(ops[i]) \in Seq(Tokens)
        /\ Width(SerializeOp(ops[i])) = SizeOp(ops[i])
  BY <1>1, OpIs, Zenon
<1>3. ss \in [1 .. n -> Seq(Tokens)]
  BY <1>1, <1>2, Zenon
<1>4. [i \in 1 .. n |-> Width(ss[i])] = [i \in DOMAIN ops |-> SizeOp(ops[i])]
  BY <1>1, <1>2, Zenon
<1>5. PutOps(ops) = FlattenSeq(ss)
  BY Zenon DEF PutOps
<1> HIDE DEF ss, n
<1>6. /\ Width(FlattenSeq(ss)) = Total([i \in 1 .. n |-> Width(ss[i])])
      /\ FlattenSeq(ss) \in Seq(Tokens)
  BY <1>1, <1>3, WidthOfFlat, Zenon
<1> QED
  BY <1>4, <1>5, <1>6, Zenon DEF SizeOps

(* One more sequence is put behind the others. *)
LEMMA FlattenAppend ==
  ASSUME NEW S, NEW ss \in Seq(Seq(S)), NEW s \in Seq(S)
  PROVE  FlattenSeq(Append(ss, s)) = FlattenSeq(ss) \o s
<1> DEFINE n == Len(ss)
           tt == Append(ss, s)
<1>1. /\ tt \in Seq(Seq(S)) /\ Len(tt) = n + 1 /\ (\A i \in 1 .. n : tt[i] = ss[i])
      /\ tt[n + 1] = s /\ n \in Nat
  BY Appended
<1> HIDE DEF tt, n
<1>2. PICK J : Joins(J, S, ss)
  BY FlattenIs, Zenon
<1>3. PICK K : Joins(K, S, tt)
  BY <1>1, FlattenIs, Zenon
<1>4. /\ J[0] = <<>> /\ (\A i \in 1 .. n : J[i] = J[i - 1] \o ss[i])
      /\ FlattenSeq(ss) = J[n]
  BY <1>2, Zenon DEF Joins, n
<1>5. /\ K[0] = <<>> /\ (\A i \in 1 .. n + 1 : K[i] = K[i - 1] \o tt[i])
      /\ FlattenSeq(tt) = K[n + 1]
  BY <1>1, <1>3, Zenon DEF Joins
<1>6. /\ \A i \in 1 .. n : i \in 1 .. n + 1 /\ i - 1 \in 0 .. n /\ i \in 0 .. n
      /\ n + 1 \in 1 .. n + 1 /\ (n + 1) - 1 = n /\ 0 \in 0 .. n /\ n \in 0 .. n
  BY <1>1
<1> DEFINE T == {i \in 0 .. n : J[i] = K[i]}
<1>7. 0 \in T
  BY <1>4, <1>5, <1>6, Zenon
<1>8. \A i \in 1 .. n : i - 1 \in T => i \in T
  BY <1>1, <1>4, <1>5, <1>6, Zenon
<1> HIDE DEF T
<1>9. n \in T
  BY <1>1, <1>6, <1>7, <1>8, InductionTo, Zenon
<1>10. K[n + 1] = K[n] \o s
  BY <1>1, <1>5, <1>6, Zenon
<1>11. J[n] = K[n]
  BY <1>9, Zenon DEF T
<1> QED
  BY <1>4, <1>5, <1>10, <1>11, Zenon DEF tt

(* An operation is written behind those before it. *)
LEMMA OpsAppend ==
  ASSUME NEW ops \in Seq(MultiOps), NEW op \in MultiOps
  PROVE  /\ PutOps(Append(ops, op)) = PutOps(ops) \o SerializeOp(op)
         /\ Append(ops, op) \in Seq(MultiOps)
<1> DEFINE n == Len(ops)
           more == Append(ops, op)
           ss == [i \in DOMAIN ops |-> SerializeOp(ops[i])]
           tt == [i \in DOMAIN more |-> SerializeOp(more[i])]
           uu == Append(ss, SerializeOp(op))
<1>1. n \in Nat /\ DOMAIN ops = 1 .. n /\ \A i \in 1 .. n : ops[i] \in MultiOps
  BY LenProperties, ElementOfSeq, Zenon
<1>2. /\ more \in Seq(MultiOps) /\ Len(more) = n + 1
      /\ (\A i \in 1 .. n : more[i] = ops[i]) /\ more[n + 1] = op
  BY Appended
<1> HIDE DEF more
<1>3. DOMAIN more = 1 .. n + 1 /\ \A i \in 1 .. n + 1 : more[i] \in MultiOps
  BY <1>2, LenProperties, ElementOfSeq, Zenon
<1>4. SerializeOp(op) \in Seq(Tokens)
  BY OpIs, Zenon
<1>5. ss \in [1 .. n -> Seq(Tokens)] /\ tt \in [1 .. n + 1 -> Seq(Tokens)]
  BY <1>1, <1>3, OpIs, Zenon
<1>6. (\A i \in 1 .. n : ss[i] = SerializeOp(ops[i]))
        /\ (\A i \in 1 .. n + 1 : tt[i] = SerializeOp(more[i]))
  BY <1>1, <1>3, Zenon
<1>14. PutOps(ops) = FlattenSeq(ss) /\ PutOps(more) = FlattenSeq(tt)
  BY Zenon DEF PutOps
<1> HIDE DEF n, ss, tt
<1>7. ss \in Seq(Seq(Tokens)) /\ Len(ss) = n
  BY <1>1, <1>5
<1>8. tt \in Seq(Seq(Tokens)) /\ Len(tt) = n + 1
  BY <1>1, <1>5
<1>9. /\ uu \in Seq(Seq(Tokens)) /\ Len(uu) = n + 1 /\ (\A i \in 1 .. n : uu[i] = ss[i])
      /\ uu[n + 1] = SerializeOp(op)
  <2>1. \A e \in Seq(Tokens) : /\ Append(ss, e) \in Seq(Seq(Tokens)) /\ Len(Append(ss, e)) = n + 1
                               /\ (\A i \in 1 .. n : Append(ss, e)[i] = ss[i])
                                  /\ Append(ss, e)[n + 1] = e
    BY <1>7, Appended
  <2> QED
    BY <1>4, <2>1, Zenon
<1> HIDE DEF uu
<1>10. \A i \in 1 .. n + 1 : i \in 1 .. n \/ i = n + 1
  BY <1>1
<1>11. n + 1 \in 1 .. n + 1 /\ \A i \in 1 .. n : i \in 1 .. n + 1
  BY <1>1
<1>12. \A i \in 1 .. n + 1 : tt[i] = uu[i]
  BY <1>2, <1>6, <1>9, <1>10, <1>11, Zenon
<1>13. tt = uu
  BY <1>8, <1>9, <1>12, SeqEqual
<1>15. FlattenSeq(uu) = FlattenSeq(ss) \o SerializeOp(op)
  BY <1>4, <1>7, FlattenAppend, Zenon DEF uu
<1> QED
  BY <1>2, <1>13, <1>14, <1>15, Zenon DEF more

\* The loop's states that account for toks
Accounted(toks) == {m \in MultiStates : Consumed(toks, m)}

(* What a state of the loop is made of. *)
LEMMA MultiStateIs ==
  ASSUME NEW m \in MultiStates
  PROVE  /\ m.st \in Outcomes \cup {"loop"} /\ m.rest \in Seq(Tokens)
         /\ m.done_header \in Seq(FieldVal) /\ m.ops \in Seq(MultiOps)
         /\ \A how \in Outcomes : Stop(m, how) \in MultiStates /\ Stop(m, how).st = how
  BY DEF MultiStates, Stop

(* The loop stops for good on an Err, a panic or a misread. *)
LEMMA MultiStops ==
  ASSUME NEW toks, NEW m \in MultiStates, NEW how \in Outcomes, how # "ok"
  PROVE  Stop(m, how) \in Accounted(toks)
<1>1. how # "loop"
  BY DEF Outcomes
<1>2. Stop(m, how) \in MultiStates /\ Stop(m, how).st = how
  BY MultiStateIs, Zenon
<1> QED
  BY <1>1, <1>2, Zenon DEF Accounted, Consumed

(* The header that says it was the last. *)
LEMMA MultiEnds ==
  ASSUME NEW toks, NEW m \in Accounted(toks), m.st = "loop",
         NEW header \in RowsIn(MultiHeader), header \in Seq(FieldVal), NEW rest \in Seq(Tokens),
         m.rest = Serialize(MultiHeader, header) \o rest
  PROVE  [st |-> "ok", rest |-> rest, done_header |-> header, ops |-> m.ops] \in Accounted(toks)
<1> DEFINE x == [st |-> "ok", rest |-> rest, done_header |-> header, ops |-> m.ops]
<1>1. m \in MultiStates /\ toks = PutOps(m.ops) \o m.rest
  BY Zenon DEF Accounted, Consumed
<1>2. m.ops \in Seq(MultiOps)
  BY <1>1, MultiStateIs, Zenon
<1>3. "ok" \in Outcomes \cup {"loop"} /\ "ok" # "loop"
  BY DEF Outcomes
<1>4. x \in MultiStates /\ x.st = "ok" /\ x.rest = rest /\ x.done_header = header /\ x.ops = m.ops
  BY <1>2, <1>3 DEF MultiStates
<1> HIDE DEF x
<1>5. x \in Accounted(toks)
  BY <1>1, <1>3, <1>4, Zenon DEF Accounted, Consumed
<1> QED
  BY <1>5, Zenon DEF x

\* Tokens are put one behind the other in any order
Three(s, t, u) == (s \o t) \o u = s \o (t \o u)
Four(s, t, u, w) == s \o (t \o (u \o w)) = (s \o (t \o u)) \o w

(* Three are. *)
LEMMA TokensAssociate ==
  ASSUME NEW s \in Seq(Tokens), NEW t \in Seq(Tokens), NEW u \in Seq(Tokens)
  PROVE  Three(s, t, u)
  BY ConcatAssociative DEF Three

(* Four are. *)
LEMMA FourAssociate ==
  ASSUME NEW s \in Seq(Tokens), NEW t \in Seq(Tokens), NEW u \in Seq(Tokens), NEW w \in Seq(Tokens)
  PROVE  Four(s, t, u, w)
<1>1. t \o u \in Seq(Tokens)
  BY ConcatProperties, Zenon
<1>2. Three(t, u, w) /\ Three(s, t \o u, w)
  BY <1>1, TokensAssociate, Zenon
<1> QED
  BY <1>2, Zenon DEF Three, Four

\* An operation at the beginning of what is left, and the loop after it
OpBehind(m, header, v, val, rest) ==
  m.rest = Serialize(MultiHeader, header) \o (Serialize(RequestRecord[v], val) \o rest)
AfterOp(m, header, v, val, rest) ==
  [st |-> "loop", rest |-> rest, done_header |-> <<>>,
   ops |-> Append(m.ops, [header |-> header, variant |-> v, val |-> val])]

(* One more operation. *)
LEMMA MultiGoesOn ==
  ASSUME NEW toks, NEW m \in Accounted(toks), m.st = "loop", NEW header \in RowsIn(MultiHeader),
         NEW v \in DOMAIN RequestRecord \ {"Connect"}, NEW val \in RowsIn(RequestRecord[v]),
         NEW rest \in Seq(Tokens), OpBehind(m, header, v, val, rest)
  PROVE  AfterOp(m, header, v, val, rest) \in Accounted(toks)
<1> DEFINE op == [header |-> header, variant |-> v, val |-> val]
           ops == Append(m.ops, op)
           x == [st |-> "loop", rest |-> rest, done_header |-> <<>>, ops |-> ops]
           a == Serialize(MultiHeader, header)
           b == Serialize(RequestRecord[v], val)
           c == PutOps(m.ops)
<1>1. m \in MultiStates /\ toks = c \o m.rest
  BY Zenon DEF Accounted, Consumed
<1>2. m.ops \in Seq(MultiOps)
  BY <1>1, MultiStateIs, Zenon
<1>3. op \in MultiOps
  <2>1. op \in [header : RowsIn(MultiHeader), variant : {v}, val : RowsIn(RequestRecord[v])]
    OBVIOUS
  <2> HIDE DEF op
  <2> QED
    BY <2>1, Zenon DEF MultiOps
<1>4. SerializeOp(op) = a \o b
  <2>1. op.header = header /\ op.variant = v /\ op.val = val
    OBVIOUS
  <2> HIDE DEF op
  <2> QED
    BY <2>1, Zenon DEF SerializeOp
<1>5. Fits(Fields, MultiHeader) /\ Fits(Fields, RequestRecord[v])
  BY RequestsFit, Zenon
<1>6. a \in Seq(Tokens) /\ b \in Seq(Tokens) /\ c \in Seq(Tokens)
  BY <1>2, <1>5, RowIs, OpsAre, Zenon
<1> HIDE DEF op
<1>7. PutOps(ops) = c \o (a \o b) /\ ops \in Seq(MultiOps)
  BY <1>2, <1>3, <1>4, OpsAppend, Zenon
<1>8. m.rest = a \o (b \o rest)
  BY Zenon DEF OpBehind
<1> HIDE DEF ops, a, b, c
<1>9. toks = (c \o (a \o b)) \o rest
  <2>1. Four(c, a, b, rest)
    BY <1>6, FourAssociate, Zenon
  <2> QED
    BY <1>1, <1>8, <2>1, Zenon DEF Four
<1>10. "loop" \in Outcomes \cup {"loop"} /\ "ok" # "loop" /\ <<>> \in Seq(FieldVal)
  BY EmptyFacts
<1>11. x \in MultiStates /\ x.st = "loop" /\ x.rest = rest /\ x.ops = ops
  BY <1>7, <1>10 DEF MultiStates
<1> HIDE DEF x
<1>12. x \in Accounted(toks)
  BY <1>7, <1>9, <1>10, <1>11, Zenon DEF Accounted, Consumed
<1> QED
  BY <1>12, Zenon DEF x, ops, op, AfterOp

(* Every turn of the loop accounts for what it takes. *)
LEMMA MultiTurnAccounts ==
  ASSUME NEW toks, NEW m \in Accounted(toks)
  PROVE  MultiTurn(m) \in Accounted(toks)
<1>1. CASE m.st # "loop"
  BY <1>1, Zenon DEF MultiTurn
<1>2. CASE m.st = "loop"
  <2> DEFINE h == Deserialize(MultiHeader, m.rest)
             type == h.val[1]
             op == OpCodeOf(type)
             v == MultiVariant[op]
             R == RequestRecord[v]
             q == Deserialize(R, h.rest)
  <2>1. MultiTurn(m) = MultiHeaderRead(m, h)
    BY <1>2, Zenon DEF MultiTurn
  <2>2. m \in MultiStates
    BY Zenon DEF Accounted
  <2>3. m.rest \in Seq(Tokens)
    BY <2>2, MultiStateIs, Zenon
  <2>4. Fits(Fields, MultiHeader)
    BY RequestsFit, Zenon
  <2>5. /\ h.st \in Outcomes /\ h.val \in Seq(FieldVal) /\ h.rest \in Seq(Tokens)
        /\ h.st = "ok" => h.val \in RowsIn(MultiHeader)
        /\ Whole(m.rest, h, Serialize(MultiHeader, h.val), Size(MultiHeader, h.val))
    BY <2>3, <2>4, RecordWhole, Zenon
  <2> HIDE DEF h
  <2>6. CASE h.st # "ok"
    <3>1. MultiHeaderRead(m, h) = Stop(m, h.st)
      BY <2>6, Zenon DEF MultiHeaderRead
    <3> QED
      BY <2>1, <2>2, <2>5, <2>6, <3>1, MultiStops, Zenon
  <2>7. CASE h.st = "ok"
    <3>1. h.val \in RowsIn(MultiHeader) /\ m.rest = Serialize(MultiHeader, h.val) \o h.rest
      BY <2>5, <2>7, Zenon DEF Whole
    <3>2. CASE h.val[2] = 1
      <4>1. MultiHeaderRead(m, h) = [st |-> "ok", rest |-> h.rest, done_header |-> h.val, ops |-> m.ops]
        BY <2>7, <3>2, Zenon DEF MultiHeaderRead
      <4> QED
        BY <1>2, <2>1, <2>5, <3>1, <4>1, MultiEnds, Zenon
    <3>3. CASE h.val[2] # 1 /\ ~ValidOpCode(type)
      <4>1. MultiHeaderRead(m, h) = Stop(m, "err")
        BY <2>7, <3>3, Zenon DEF MultiHeaderRead
      <4>2. "err" \in Outcomes /\ "err" # "ok"
        BY DEF Outcomes
      <4> QED
        BY <2>1, <2>2, <4>1, <4>2, MultiStops, Zenon
    <3>4. CASE h.val[2] # 1 /\ ValidOpCode(type) /\ op \notin DOMAIN MultiVariant
      <4>1. MultiHeaderRead(m, h) = Stop(m, "panic")
        BY <2>7, <3>4, Zenon DEF MultiHeaderRead
      <4>2. "panic" \in Outcomes /\ "panic" # "ok"
        BY DEF Outcomes
      <4> QED
        BY <2>1, <2>2, <4>1, <4>2, MultiStops, Zenon
    <3>5. CASE h.val[2] # 1 /\ ValidOpCode(type) /\ op \in DOMAIN MultiVariant
      <4>1. MultiHeaderRead(m, h) = MultiOp(m, h.val, v, q)
        BY <2>7, <3>5, Zenon DEF MultiHeaderRead
      <4>2. v \in DOMAIN RequestRecord \ {"Connect"}
        BY <3>5, VariantsAre, Zenon
      <4>3. Fits(Fields, R)
        BY <4>2, RequestsFit, Zenon
      <4> HIDE DEF v
      <4>4. /\ q.st \in Outcomes /\ q.rest \in Seq(Tokens)
            /\ q.st = "ok" => q.val \in RowsIn(R)
            /\ Whole(h.rest, q, Serialize(R, q.val), Size(R, q.val))
        BY <2>5, <4>3, RecordWhole, Zenon
      <4> HIDE DEF q
      <4>5. CASE q.st # "ok"
        <5>1. MultiOp(m, h.val, v, q) = Stop(m, q.st)
          BY <4>5, Zenon DEF MultiOp
        <5> QED
          BY <2>1, <2>2, <4>1, <4>4, <4>5, <5>1, MultiStops, Zenon
      <4>6. CASE q.st = "ok"
        <5>1. MultiOp(m, h.val, v, q) = AfterOp(m, h.val, v, q.val, q.rest)
          BY <4>6, Zenon DEF MultiOp, AfterOp
        <5>2. q.val \in RowsIn(R) /\ OpBehind(m, h.val, v, q.val, q.rest)
          BY <3>1, <4>4, <4>6, Zenon DEF Whole, OpBehind
        <5>3. AfterOp(m, h.val, v, q.val, q.rest) \in Accounted(toks)
          BY <1>2, <3>1, <4>2, <4>4, <5>2, MultiGoesOn, Zenon
        <5> QED
          BY <2>1, <4>1, <5>1, <5>3, Zenon
      <4> QED
        BY <4>5, <4>6, Zenon
    <3> QED
      BY <3>2, <3>3, <3>4, <3>5, Zenon
  <2> QED
    BY <2>6, <2>7, Zenon
<1> QED
  BY <1>1, <1>2, Zenon

\* The states that the loop of a multi goes through
TurnsFrom(states, m, n) ==
  states[0] = m /\ \A i \in 1 .. n : states[i] = MultiTurn(states[i - 1])

(* The turns of the loop, among states that no turn leaves. *)
LEMMA MultiTurnsAre ==
  ASSUME NEW D, NEW b \in D, \A x \in D : MultiTurn(x) \in D, NEW n \in Nat
  PROVE  /\ MultiTurns(b, n) \in [0 .. n -> D]
         /\ TurnsFrom(MultiTurns(b, n), b, n)
<1> DEFINE g == [i \in 1 .. n |-> [x \in D |-> MultiTurn(x)]]
           Eq(s) == [i \in 0 .. n |-> IF i = 0 THEN b ELSE MultiTurn(s[i - 1])]
           F == MultiTurns(b, n)
<1>2. CanIterate(D, n, b, g)
  BY Zenon DEF CanIterate
<1>3. \A i \in 1 .. n, x \in D : g[i][x] = MultiTurn(x)
  BY Zenon
<1>4. /\ \A i \in 1 .. n : i - 1 \in 0 .. n /\ i \in 0 .. n /\ i # 0
      /\ \A i \in 0 .. n : i # 0 => i \in 1 .. n /\ i - 1 \in 0 .. n
      /\ 0 \in 0 .. n /\ n \in 0 .. n
  OBVIOUS
<1> HIDE DEF g
<1>5. PICK f : Iterates(f, D, n, b, g)
  BY <1>2, IterationDefines, Zenon
<1>6. f = Eq(f)
  <2>1. f \in [0 .. n -> D] /\ f[0] = b /\ \A i \in 1 .. n : f[i] = g[i][f[i - 1]]
    BY <1>5, Zenon DEF Iterates
  <2>2. \A i \in 0 .. n : f[i] = IF i = 0 THEN b ELSE MultiTurn(f[i - 1])
    BY <1>3, <1>4, <2>1, ZenonT(40)
  <2> QED
    BY <2>1, <2>2, Zenon
<1>7. F = CHOOSE s : s = Eq(s)
  BY Zenon DEF MultiTurns
<1>8. F = Eq(F)
  <2> HIDE DEF Eq, F
  <2> QED
    BY <1>6, <1>7, Zenon
<1> HIDE DEF F
<1>9. /\ F = [i \in 0 .. n |-> F[i]] /\ F[0] = b
      /\ \A i \in 1 .. n : F[i] = MultiTurn(F[i - 1])
  BY <1>4, <1>8, Zenon
<1>10. Iterates(F, D, n, b, g)
  BY <1>2, <1>3, <1>9, IteratesBySteps, Zenon
<1> QED
  BY <1>9, <1>10, Zenon DEF Iterates, F, TurnsFrom

(* The loop begins with all of it to read. *)
LEMMA MultiStarts ==
  ASSUME NEW toks \in Seq(Tokens)
  PROVE  MultiLoop(toks) \in Accounted(toks)
<1> DEFINE x == MultiLoop(toks)
<1>1. x \in MultiStates /\ x.st = "loop" /\ x.rest = toks /\ x.ops = <<>>
  BY EmptyFacts DEF MultiLoop, MultiStates
<1> HIDE DEF x
<1>2. PutOps(<<>>) \o toks = toks
  <2>1. <<>> \in Seq(Seq(Tokens)) /\ Len(<<>>) = 0 /\ DOMAIN <<>> = {}
    BY EmptyFacts, Zenon
  <2>2. PICK J : Joins(J, Tokens, <<>>)
    BY <2>1, FlattenIs, Zenon
  <2>3. FlattenSeq(<<>>) = <<>>
    BY <2>1, <2>2, Zenon DEF Joins
  <2>4. [i \in DOMAIN <<>> |-> SerializeOp(<<>>[i])] = <<>>
    BY <2>1
  <2>5. PutOps(<<>>) = <<>>
    BY <2>3, <2>4, Zenon DEF PutOps
  <2>6. <<>> \o toks = toks
    BY ConcatEmptySeq, Zenon
  <2> QED
    BY <2>5, <2>6, Zenon
<1>3. "ok" # "loop"
  OBVIOUS
<1>4. x \in Accounted(toks)
  BY <1>1, <1>2, <1>3, Zenon DEF Accounted, Consumed
<1> QED
  BY <1>4, Zenon DEF x

(* What was read of a multi is written as it was, and sized as it is wide. *)
LEMMA MultiWhole ==
  ASSUME NEW toks \in Seq(Tokens)
  PROVE  LET g == DeserializeMulti(toks)
         IN  Whole(toks, g, SerializeMulti(g.val), SizeMulti(g.val))
<1> DEFINE N == Len(toks) + 1
           M == MultiTurns(MultiLoop(toks), N)
           m == M[N]
           g == DeserializeMulti(toks)
           a == PutOps(m.ops)
           b == Serialize(MultiHeader, m.done_header)
<1>1. N \in Nat /\ N \in 0 .. N
  BY LenProperties
<1>2. MultiLoop(toks) \in Accounted(toks)
  BY MultiStarts, Zenon
<1>3. M \in [0 .. N -> Accounted(toks)]
  <2> HIDE DEF N
  <2> QED
    BY <1>1, <1>2, MultiTurnAccounts, MultiTurnsAre, Zenon
<1>4. m \in Accounted(toks)
  <2> HIDE DEF M, N
  <2> QED
    BY <1>1, <1>3, Zenon
<1>5. g = MultiRequest(m)
  BY Zenon DEF DeserializeMulti
<1> HIDE DEF m, M, N
<1>6. g.st = m.st /\ g.rest = m.rest /\ g.val = <<m.ops, m.done_header>>
  <2> HIDE DEF g
  <2> QED
    BY <1>5 DEF MultiRequest
<1>7. g.val[1] = m.ops /\ g.val[2] = m.done_header
  <2> HIDE DEF g
  <2> QED
    BY <1>6
<1> HIDE DEF g
<1>8. m.rest \in Seq(Tokens) /\ m.ops \in Seq(MultiOps)
  BY <1>4, MultiStateIs, Zenon DEF Accounted
<1>9. ASSUME g.st = "ok"
      PROVE  Whole(toks, g, SerializeMulti(g.val), SizeMulti(g.val))
  <2>1. m.done_header \in RowsIn(MultiHeader) /\ toks = a \o (b \o m.rest)
    BY <1>4, <1>6, <1>9, Zenon DEF Accounted, Consumed
  <2>2. /\ b \in Seq(Tokens) /\ Width(b) = Size(MultiHeader, m.done_header)
        /\ Size(MultiHeader, m.done_header) \in Nat
    BY <2>1, RequestsFit, RowIs, Zenon
  <2>3. a \in Seq(Tokens) /\ Width(a) = SizeOps(m.ops)
    BY <1>8, OpsAre, Zenon
  <2>4. SerializeMulti(g.val) = a \o b
          /\ SizeMulti(g.val) = SizeOps(m.ops) + Size(MultiHeader, m.done_header)
    BY <1>7, Zenon DEF SerializeMulti, SizeMulti, PutOps, SizeOps
  <2> HIDE DEF a, b
  <2>5. Width(a \o b) = Width(a) + Width(b) /\ a \o b \in Seq(Tokens) /\ Width(a) \in Nat
    BY <2>2, <2>3, WidthOfConcat, Zenon
  <2>6. Three(a, b, m.rest)
    BY <1>8, <2>2, <2>3, TokensAssociate, Zenon
  <2>7. SizeMulti(g.val) = Width(a \o b) /\ SizeMulti(g.val) \in Nat
    BY <2>2, <2>3, <2>4, <2>5
  <2> QED
    BY <1>6, <1>8, <2>1, <2>4, <2>5, <2>6, <2>7, Zenon DEF Whole, Three
<1> QED
  BY <1>9, Zenon DEF Whole, g

(* Every request that is read is written as it was read, and sized as it is wide. *)
LEMMA RequestWhole ==
  ASSUME NEW v \in (DOMAIN RequestRecord \ {"Connect"}) \cup {"Multi"}, NEW toks \in Seq(Tokens),
         NEW p, p.variant = v
  PROVE  LET g == DeserializeRequest(v, toks)
         IN  p.val = g.val => Whole(toks, g, SerializeRequest(p), SizeRequest(p))
<1> DEFINE g == DeserializeRequest(v, toks)
<1> SUFFICES ASSUME p.val = g.val PROVE Whole(toks, g, SerializeRequest(p), SizeRequest(p))
  BY Zenon
<1>1. CASE v = "Multi"
  <2>1. g = DeserializeMulti(toks) /\ SerializeRequest(p) = SerializeMulti(g.val)
        /\ SizeRequest(p) = SizeMulti(g.val)
    BY <1>1, Zenon DEF DeserializeRequest, SerializeRequest, SizeRequest
  <2> HIDE DEF g
  <2> QED
    BY <2>1, MultiWhole, Zenon
<1>2. CASE v # "Multi"
  <2> DEFINE R == RequestRecord[v]
  <2>1. g = Deserialize(R, toks) /\ SerializeRequest(p) = Serialize(R, g.val)
        /\ SizeRequest(p) = Size(R, g.val)
    BY <1>2, Zenon DEF DeserializeRequest, SerializeRequest, SizeRequest
  <2>2. Fits(Fields, R)
    BY <1>2, RequestsFit, Zenon
  <2> HIDE DEF g
  <2> QED
    BY <2>1, <2>2, RecordWhole, Zenon
<1> QED
  BY <1>1, <1>2, Zenon

-----------------------------------------------------------------------------
(* Connecting *)

\* R has the fields of B, and read_only behind them
EndsInReadOnly(R, B) ==
  /\ B.wire \in Seq(Fields) /\ R.wire \in Seq(WireFields)
  /\ Len(R.wire) = Len(B.wire) + 1
  /\ \A i \in 1 .. Len(B.wire) : R.wire[i] = B.wire[i]
  /\ R.wire[Len(B.wire) + 1] = "read_only"

(* read_only is read as a number, or is 0 when nothing more than a byte is left. *)
LEMMA LastRead ==
  ASSUME NEW r \in ReadersOf(FieldVal)
  PROVE  LET g == GetField(r, "read_only")
         IN  /\ g.st = "ok" => r.st = "ok" /\ \E v \in Int : g.val = Append(r.val, v)
             /\ r.st = "ok" /\ ~(Width(r.rest) > 1) => g.st = "ok"
<1> DEFINE g == GetField(r, "read_only")
<1>1. g = IF r.st # "ok" THEN r ELSE GetReadOnly(r)
  <2>1. "read_only" \notin DOMAIN Vectors
    BY VectorsArePlain, Zenon
  <2>2. "read_only" # "string" /\ "read_only" # "buffer"
    OBVIOUS
  <2> QED
    BY <2>1, <2>2, Zenon DEF GetField, GetPlain
<1>2. CASE r.st # "ok"
  BY <1>1, <1>2, Zenon
<1>3. CASE r.st = "ok" /\ Width(r.rest) > 1
  <2>1. g = GetScalar(r, 1)
    BY <1>1, <1>3, Zenon DEF GetReadOnly
  <2>2. Int \subseteq FieldVal /\ 1 \in Nat \ {0}
    BY DEF FieldVal, Plain
  <2>3. Takes(r, g, ScalarPut(1))
    BY <1>3, <2>1, <2>2, ScalarRead, Zenon DEF Reads
  <2>4. DOMAIN ScalarPut(1) = Int
    BY Zenon DEF ScalarPut
  <2> HIDE DEF g
  <2>5. (g.st = "ok" => \E v \in Int : g.val = Append(r.val, v))
    BY <2>3, <2>4, Zenon DEF Takes
  <2> QED
    BY <1>3, <2>5, Zenon DEF g
<1>4. CASE r.st = "ok" /\ ~(Width(r.rest) > 1)
  <2>1. g = Got(r, 0, r.rest)
    BY <1>1, <1>4, Zenon DEF GetReadOnly
  <2> HIDE DEF g
  <2>2. g.val = Append(r.val, 0) /\ g.st = "ok" /\ 0 \in Int
    BY <1>4, <2>1 DEF Got
  <2> QED
    BY <1>4, <2>2, Zenon DEF g
<1> QED
  BY <1>2, <1>3, <1>4, Zenon

(* A record that ends in read_only is read up to there as it is written. *)
LEMMA ConnectRead ==
  ASSUME NEW toks \in Seq(Tokens), NEW R, NEW B, EndsInReadOnly(R, B)
  PROVE  LET g == Deserialize(R, toks)
         IN  /\ g.st = "ok" =>
                  \E val \in RowsIn(B), v \in Int, rest \in Seq(Tokens) :
                    g.val = Append(val, v) /\ toks = Serialize(B, val) \o rest
             /\ \A val \in RowsIn(B), rest \in Seq(Tokens) :
                  toks = Serialize(B, val) \o rest /\ ~(Width(rest) > 1) => g.st = "ok"
<1> DEFINE n == Len(R.wire)
           m == Len(B.wire)
           first == Reader(toks)
           F == FieldReads(first, R)
           r == F[m]
           g == Deserialize(R, toks)
           put == PutAll(FieldVal, m, FieldPuts(R))
<1>1. /\ B.wire \in Seq(Fields) /\ R.wire \in Seq(WireFields) /\ n = m + 1
         /\ R.wire[n] = "read_only"
      /\ \A i \in 1 .. m : R.wire[i] = B.wire[i]
  BY Zenon DEF EndsInReadOnly
<1>2. m \in Nat /\ DOMAIN B.wire = 1 .. m /\ \A i \in 1 .. m : B.wire[i] \in Fields
  BY <1>1, LenProperties, ElementOfSeq, Zenon
<1>3. DOMAIN R.wire = 1 .. n
  BY <1>1, LenProperties, Zenon
<1>4. first \in ReadersOf(FieldVal)
  <2>1. <<>> \in Seq(FieldVal) /\ "ok" \in Outcomes
    BY EmptyFacts, Zenon DEF Outcomes
  <2> QED
    BY <2>1 DEF ReadersOf, Reader
<1>7. g = F[n]
  BY Zenon DEF Deserialize
<1> HIDE DEF first
<1>5. /\ F \in [0 .. n -> ReadersOf(FieldVal)]
      /\ \A i \in 1 .. n : F[i] = GetField(F[i - 1], R.wire[i])
  <2>1. R.wire \in Seq(WireFields)
    BY <1>1, Zenon
  <2> QED
    BY <1>4, <2>1, FieldReadsIs, ZenonT(40)
<1>6. put = RecPut(B)
  <2>1. \A i \in 1 .. m : FieldPuts(R)[i] = FieldPuts(B)[i]
    <3>1. \A i \in 1 .. m : i \in 1 .. n
      BY <1>1, <1>2
    <3> QED
      BY <1>1, <1>2, <1>3, <3>1, Zenon DEF FieldPuts
  <2>2. AllRows(FieldVal, m, FieldPuts(R)) = AllRows(FieldVal, m, FieldPuts(B))
    BY <2>1, Zenon DEF AllRows
  <2>3. \A val : PutEach(m, FieldPuts(R), val) = PutEach(m, FieldPuts(B), val)
    BY <2>1, Zenon DEF PutEach
  <2> QED
    BY <2>2, <2>3, Zenon DEF PutAll, RecPut
<1> HIDE DEF F, n, m, g, put
<1>8. n \in 1 .. n /\ n - 1 = m /\ m \in 0 .. n
  BY <1>1, <1>2
<1>9. r \in ReadersOf(FieldVal) /\ g = GetField(r, "read_only")
  BY <1>1, <1>5, <1>7, <1>8, Zenon
<1>10. Starts(toks, r, Seq(FieldVal), RecPut(B))
  <2>1. \A i \in 1 .. m : R.wire[i] \in Fields
    BY <1>1, <1>2, Zenon
  <2>2. m \in 0 .. Len(R.wire)
    BY <1>8, Zenon DEF n
  <2>3. Starts(toks, FieldReads(Reader(toks), R)[m], Seq(FieldVal), PutAll(FieldVal, m, FieldPuts(R)))
    BY <1>1, <2>1, <2>2, FieldsRead, Zenon
  <2> QED
    BY <1>6, <2>3, Zenon DEF F, put, first
<1> HIDE DEF r
<1>11. \A val \in RowsIn(B) : RecPut(B)[val] = Serialize(B, val)
  BY <1>1, RecPutIs, Zenon DEF RowsIn
<1>12. r.rest \in Seq(Tokens)
  BY <1>9, ReaderIs, Zenon
<1>13. ASSUME g.st = "ok"
       PROVE  \E val \in RowsIn(B), v \in Int, rest \in Seq(Tokens) :
                g.val = Append(val, v) /\ toks = Serialize(B, val) \o rest
  <2>1. PICK v \in Int : r.st = "ok" /\ g.val = Append(r.val, v)
    BY <1>9, <1>13, LastRead, Zenon
  <2>2. r.val \in RowsIn(B) /\ toks = RecPut(B)[r.val] \o r.rest
    BY <1>10, <2>1, Zenon DEF Starts, Decodes, RowsIn
  <2> QED
    BY <1>11, <1>12, <2>1, <2>2, Zenon
<1>14. ASSUME NEW val \in RowsIn(B), NEW rest \in Seq(Tokens), toks = Serialize(B, val) \o rest,
              ~(Width(rest) > 1)
       PROVE  g.st = "ok"
  <2>1. r = [st |-> "ok", val |-> val, rest |-> rest]
    BY <1>10, <1>11, <1>14, Zenon DEF Starts, DecodesBack, RowsIn
  <2>2. r.st = "ok" /\ r.rest = rest
    BY <2>1
  <2> QED
    BY <1>9, <1>14, <2>2, LastRead, Zenon
<1> QED
  BY <1>13, <1>14, Zenon DEF g

(* A record that ends in read_only is written up to there as the other, and then the byte. *)
LEMMA ConnectWrite ==
  ASSUME NEW R, NEW B, EndsInReadOnly(R, B), NEW val \in RowsIn(B), NEW v \in Int
  PROVE  /\ Append(val, v) \in RowsFor(R)
         /\ Serialize(B, val) \in Seq(Tokens)
         /\ Token(1, v) \in Tokens
         /\ Serialize(R, Append(val, v)) = Serialize(B, val) \o <<Token(1, v)>>
<1> DEFINE m == Len(B.wire)
           row == Append(val, v)
           ss == [i \in 1 .. m |-> PutField(B.wire[i], val[i])]
           tt == [i \in 1 .. m + 1 |-> PutField(R.wire[i], row[i])]
           t == <<Token(1, v)>>
           uu == Append(ss, t)
<1>1. /\ B.wire \in Seq(Fields) /\ R.wire \in Seq(WireFields)
      /\ Len(R.wire) = m + 1 /\ R.wire[m + 1] = "read_only"
      /\ \A i \in 1 .. m : R.wire[i] = B.wire[i]
  BY Zenon DEF EndsInReadOnly
<1>2. m \in Nat /\ DOMAIN B.wire = 1 .. m /\ \A i \in 1 .. m : B.wire[i] \in Fields
  BY <1>1, LenProperties, ElementOfSeq, Zenon
<1>3. DOMAIN R.wire = 1 .. m + 1
  BY <1>1, LenProperties, Zenon
<1>4. val \in Seq(FieldVal) /\ Len(val) = m /\ \A i \in 1 .. m : val[i] \in FieldSet(B.wire[i])
  BY <1>1, RecPutIs, Zenon DEF RowsIn
<1>5. v \in FieldVal
  BY Zenon DEF FieldVal, Plain
<1>6. /\ row \in Seq(FieldVal) /\ Len(row) = m + 1 /\ (\A i \in 1 .. m : row[i] = val[i])
      /\ row[m + 1] = v
  <2> HIDE DEF m
  <2> QED
    BY <1>4, <1>5, Appended
<1>7. "read_only" \notin Fields
  BY WidthsOfFields
<1>8. \A i \in 1 .. m + 1 : i \in 1 .. m \/ i = m + 1
  BY <1>2
<1>9. m + 1 \in 1 .. m + 1 /\ \A i \in 1 .. m : i \in 1 .. m + 1
  BY <1>2
<1>16. Serialize(B, val) = FlattenSeq(ss) /\ Serialize(R, row) = FlattenSeq(tt)
  BY <1>2, <1>3, Zenon DEF Serialize
<1> HIDE DEF m, row
<1>10. \A i \in 1 .. m : B.wire[i] # "read_only"
  BY <1>2, <1>7, Zenon
<1>11. \A i \in 1 .. m + 1 : row[i] \in WireSet(R.wire[i])
  <2>1. \A i \in 1 .. m : row[i] \in WireSet(R.wire[i])
    BY <1>1, <1>4, <1>6, <1>10, Zenon DEF WireSet
  <2>2. row[m + 1] \in WireSet(R.wire[m + 1])
    BY <1>1, <1>6, Zenon DEF WireSet
  <2> QED
    BY <1>8, <2>1, <2>2, Zenon
<1>12. row \in RowsFor(R)
  BY <1>1, <1>6, <1>11, Zenon DEF RowsFor
<1>13. PutField("read_only", v) = t
  <2>1. "read_only" \notin DOMAIN Vectors
    BY VectorsArePlain, Zenon
  <2>2. "read_only" # "string" /\ "read_only" # "buffer"
    OBVIOUS
  <2> QED
    BY <2>1, <2>2, Zenon DEF PutField, PutPlain
<1>14. Token(1, v) \in Tokens /\ t \in Seq(Tokens)
  <2>1. 1 \in Nat \ {0}
    OBVIOUS
  <2>2. Token(1, v) \in Tokens
    BY <2>1, TokensAre, Zenon
  <2> QED
    BY <2>2, WidthOfFew, Zenon
<1>15. ss \in [1 .. m -> Seq(Tokens)]
  <2>1. \A i \in 1 .. m : B.wire[i] \in WireFields /\ val[i] \in WireSet(B.wire[i])
    BY <1>2, <1>4, <1>10, Zenon DEF WireFields, WireSet
  <2> QED
    BY <2>1, FieldWidth, Zenon
<1>17. \A i \in 1 .. m : ss[i] = PutField(B.wire[i], val[i])
  BY Zenon
<1>18. (\A i \in 1 .. m : tt[i] = ss[i]) /\ tt[m + 1] = t
  BY <1>1, <1>6, <1>9, <1>13, Zenon
<1>19. DOMAIN tt = 1 .. m + 1 /\ tt = [i \in 1 .. m + 1 |-> tt[i]]
  BY Zenon
<1> HIDE DEF ss, tt, t
<1>20. tt \in [1 .. m + 1 -> Seq(Tokens)]
  BY <1>8, <1>14, <1>15, <1>18, <1>19, Zenon
<1>21. ss \in Seq(Seq(Tokens)) /\ Len(ss) = m
  BY <1>2, <1>15
<1>22. tt \in Seq(Seq(Tokens)) /\ Len(tt) = m + 1
  BY <1>2, <1>20
<1>23. /\ uu \in Seq(Seq(Tokens)) /\ Len(uu) = m + 1 /\ (\A i \in 1 .. m : uu[i] = ss[i])
       /\ uu[m + 1] = t
  <2>1. \A e \in Seq(Tokens) : /\ Append(ss, e) \in Seq(Seq(Tokens)) /\ Len(Append(ss, e)) = m + 1
                               /\ (\A i \in 1 .. m : Append(ss, e)[i] = ss[i])
                                  /\ Append(ss, e)[m + 1] = e
    BY <1>21, Appended
  <2> QED
    BY <1>14, <2>1, Zenon
<1> HIDE DEF uu
<1>24. \A i \in 1 .. m + 1 : tt[i] = uu[i]
  BY <1>8, <1>18, <1>23, Zenon
<1>25. tt = uu
  BY <1>22, <1>23, <1>24, SeqEqual
<1>26. FlattenSeq(uu) = FlattenSeq(ss) \o t
  BY <1>14, <1>21, FlattenAppend, Zenon DEF uu
<1>27. FlattenSeq(ss) \in Seq(Tokens)
  BY <1>21, FlattenIs, Zenon
<1> QED
  BY <1>12, <1>14, <1>16, <1>25, <1>26, <1>27, Zenon DEF row, t

(* All but the last of a sequence, and what comes first in one. *)
LEMMA PrefixOf ==
  ASSUME NEW s \in Seq(Tokens), NEW rest \in Seq(Tokens), NEW t \in Tokens
  PROVE  IsPrefix(s, s \o rest) /\ Front(s \o <<t>>) = s
<1> DEFINE n == Len(s)
           k == Len(rest)
           w == s \o rest
           x == <<t>>
           y == s \o x
<1>1. n \in Nat /\ k \in Nat /\ x \in Seq(Tokens) /\ Len(x) = 1
  BY LenProperties
<1> HIDE DEF n, k, x
<1>2. w \in Seq(Tokens) /\ Len(w) = n + k
        /\ \A i \in 1 .. n + k : w[i] = IF i <= n THEN s[i] ELSE rest[i - n]
  BY ConcatProperties, Zenon DEF n, k
<1>3. y \in Seq(Tokens) /\ Len(y) = n + 1
        /\ \A i \in 1 .. n + 1 : y[i] = IF i <= n THEN s[i] ELSE x[i - n]
  <2>1. /\ y \in Seq(Tokens) /\ Len(y) = n + Len(x)
        /\ \A i \in 1 .. n + Len(x) : y[i] = IF i <= n THEN s[i] ELSE x[i - n]
    <3>1. x \in Seq(Tokens)
      BY <1>1, Zenon
    <3> QED
      BY <3>1, ConcatProperties, Zenon DEF n
  <2> QED
    BY <1>1, <2>1, Zenon
<1> HIDE DEF w, y
<1>4. n <= n + k /\ (n + 1) - 1 = n /\ n <= n + 1
  BY <1>1
<1>5. \A i \in 1 .. n : i <= n /\ i \in 1 .. n + k /\ i \in 1 .. n + 1
  BY <1>1
<1>6. (\A i \in 1 .. n : s[i] = w[i]) /\ (\A i \in 1 .. n : s[i] = y[i])
  BY <1>2, <1>3, <1>5, Zenon
<1>7. Len(s) = n /\ Len(s) <= Len(w) /\ Len(s) <= Len(y) /\ Len(s) <= Len(s)
  BY <1>1, <1>2, <1>3, <1>4 DEF n
<1>8. s = SubSeq(w, 1, n) /\ s = SubSeq(y, 1, n)
  BY <1>2, <1>3, <1>6, <1>7, IsFront, Zenon
<1>9. s = SubSeq(s, 1, n)
  BY <1>7, IsFront, Zenon
<1>10. IsPrefix(s, w)
  BY <1>7, <1>8, <1>9, Zenon DEF IsPrefix
<1>11. Front(y) = s
  BY <1>3, <1>4, <1>8, Zenon DEF Front
<1> QED
  BY <1>10, <1>11, Zenon DEF w, x, y

-----------------------------------------------------------------------------
(* What decode() makes of a request *)

\* p is written as it was read of f, but for what is left behind its end
Forwarded(f, p, rest) ==
  /\ SerializePacket(p) \in Seq(Tokens) /\ rest \in Seq(Tokens)
  /\ f = SerializePacket(p) \o rest
  /\ SizePacket(p) = Width(SerializePacket(p))
  /\ p.variant # "Connect"

\* The same of a connect request, but for its last byte
ConnectForwarded(f, p) ==
  /\ p.variant = "Connect"
  /\ SizePacket(p) = Width(SerializePacket(p))
  /\ \E head \in Seq(Tokens), t \in Tokens, rest \in Seq(Tokens) :
       SerializePacket(p) = head \o <<t>> /\ f = head \o rest

(* A packet is what was read, if all was well. *)
LEMMA PacketIs ==
  ASSUME NEW header, NEW v, NEW r, NEW assertEmpty, NEW p, p = Packet(header, v, r, assertEmpty)
  PROVE  /\ p.st = "ok" => r.st = "ok"
         /\ p.st = "ok" => p.header = header
         /\ p.st = "ok" => p.variant = v
         /\ p.st = "ok" => p.val = r.val
         /\ r.st = "ok" /\ (assertEmpty => r.rest = <<>>) => p.st = "ok"
<1>1. CASE r.st # "ok"
  <2>1. p = Refused(r.st)
    BY <1>1, Zenon DEF Packet
  <2>2. p.st = r.st
    BY <2>1 DEF Refused
  <2> QED
    BY <1>1, <2>2, Zenon
<1>2. CASE r.st = "ok" /\ assertEmpty /\ r.rest # <<>>
  <2>1. p = Refused("panic")
    BY <1>2, Zenon DEF Packet
  <2>2. p.st = "panic" /\ "panic" # "ok"
    BY <2>1 DEF Refused
  <2> QED
    BY <1>2, <2>2, Zenon
<1>3. CASE r.st = "ok" /\ ~(assertEmpty /\ r.rest # <<>>)
  <2>1. p = [st |-> "ok", header |-> header, variant |-> v, val |-> r.val]
    BY <1>3, Zenon DEF Packet
  <2>2. p.st = "ok" /\ p.header = header /\ p.variant = v /\ p.val = r.val
    BY <2>1
  <2> QED
    BY <1>3, <2>2, Zenon
<1> QED
  BY <1>1, <1>2, <1>3, Zenon

(* A refusal is not a packet. *)
LEMMA RefusedIs ==
  /\ Refused("err").st # "ok" /\ Refused("panic").st # "ok" /\ Refused("none").st # "ok"
  /\ \A how : Refused(how).st = how
  BY DEF Refused

(* A request behind its header. *)
LEMMA HeadedForwarded ==
  ASSUME NEW f, NEW header \in RowsIn(RequestHeader), NEW body \in Seq(Tokens),
         f = Serialize(RequestHeader, header) \o body,
         NEW v \in (DOMAIN RequestRecord \ {"Connect"}) \cup {"Multi"}, NEW assertEmpty,
         NEW p, p = Packet(header, v, DeserializeRequest(v, body), assertEmpty), p.st = "ok"
  PROVE  Forwarded(f, p, DeserializeRequest(v, body).rest)
<1> DEFINE g == DeserializeRequest(v, body)
           a == Serialize(RequestHeader, header)
           b == SerializeRequest(p)
<1>1. g.st = "ok" /\ p.header = header /\ p.variant = v /\ p.val = g.val
  <2>1. p = Packet(header, v, g, assertEmpty)
    OBVIOUS
  <2> HIDE DEF g
  <2> QED
    BY <2>1, PacketIs
<1>2. Whole(body, g, b, SizeRequest(p))
  BY <1>1, RequestWhole, Zenon
<1>3. Fits(Fields, RequestHeader)
  BY RequestsFit, Zenon
<1>4. a \in Seq(Tokens) /\ Width(a) = Size(RequestHeader, header)
        /\ Size(RequestHeader, header) \in Nat
  BY <1>3, RowIs, Zenon
<1>5. header # <<>>
  <2>1. RequestHeader.wire \in Seq(Fields)
    BY <1>3, Zenon DEF Fits
  <2>2. Len(header) = Len(RequestHeader.wire)
    BY <2>1, RecPutIs, Zenon DEF RowsIn
  <2>3. Len(RequestHeader.wire) = 2
    BY DEF RequestHeader, Record
  <2>4. Len(<<>>) = 0 /\ 0 # 2
    BY EmptyFacts
  <2> QED
    BY <2>2, <2>3, <2>4, Zenon
<1>6. SerializePacket(p) = a \o b /\ SizePacket(p) = Size(RequestHeader, header) + SizeRequest(p)
  BY <1>1, <1>5, Zenon DEF SerializePacket, SizePacket
<1> HIDE DEF a, b, g
<1>7. b \in Seq(Tokens) /\ g.rest \in Seq(Tokens) /\ body = b \o g.rest
      /\ SizeRequest(p) = Width(b) /\ SizeRequest(p) \in Nat
  BY <1>1, <1>2, Zenon DEF Whole
<1>8. Width(a \o b) = Width(a) + Width(b) /\ a \o b \in Seq(Tokens)
  BY <1>4, <1>7, WidthOfConcat, Zenon
<1>9. Three(a, b, g.rest)
  BY <1>4, <1>7, TokensAssociate, Zenon
<1>10. f = (a \o b) \o g.rest
  BY <1>7, <1>9, Zenon DEF Three, a
<1>11. SizePacket(p) = Width(a \o b)
  BY <1>4, <1>6, <1>7, <1>8
<1>12. v # "Connect"
  BY RequestsFit
<1> QED
  BY <1>1, <1>6, <1>7, <1>8, <1>10, <1>11, <1>12, Zenon DEF Forwarded, g

(* The control requests. *)
LEMMA ControlsAre ==
  /\ DOMAIN ControlVariant = {-2, -4, -8}
  /\ ControlVariant[-2] = "Ping" /\ ControlVariant[-4] = "Auth"
     /\ ControlVariant[-8] = "SetWatches"
  /\ {"Ping", "Auth", "SetWatches"} \subseteq DOMAIN RequestRecord \ {"Connect", "Multi"}
<1>1. XidCodes.PingXid = -2 /\ XidCodes.AuthXid = -4 /\ XidCodes.SetWatchesXid = -8
  BY DEF XidCodes
<1>2. {"Ping", "Auth", "SetWatches"} \subseteq DOMAIN RequestRecord \ {"Connect", "Multi"}
  BY DEF RequestRecord
<1>3. /\ DOMAIN ControlVariant = {-2, -4, -8}
      /\ ControlVariant[-2] = "Ping" /\ ControlVariant[-4] = "Auth"
         /\ ControlVariant[-8] = "SetWatches"
  BY <1>1 DEF ControlVariant
<1> QED
  BY <1>2, <1>3, Zenon

(* What was read behind a header is written as it was read. *)
LEMMA DecodeHeadedForwards ==
  ASSUME NEW f \in Seq(Tokens), NEW p, p = DecodeHeadedRequest(Deserialize(RequestHeader, f)),
         p.st = "ok"
  PROVE  \E rest \in Seq(Tokens) : Forwarded(f, p, rest)
<1> DEFINE h == Deserialize(RequestHeader, f)
<1>1. /\ h.rest \in Seq(Tokens) /\ (h.st = "ok" => h.val \in RowsIn(RequestHeader))
      /\ Whole(f, h, Serialize(RequestHeader, h.val), Size(RequestHeader, h.val))
  BY RequestsFit, RecordWhole, Zenon
<1>2. p = DecodeHeadedRequest(h)
  OBVIOUS
<1> HIDE DEF h
<1>3. h.st = "ok"
  <2>1. h.st # "ok" => p = Refused(h.st)
    BY <1>2, Zenon DEF DecodeHeadedRequest
  <2> QED
    BY <2>1, RefusedIs, Zenon
<1>4. h.val \in RowsIn(RequestHeader) /\ f = Serialize(RequestHeader, h.val) \o h.rest
  BY <1>1, <1>3, Zenon DEF Whole
<1>5. ASSUME NEW v \in (DOMAIN RequestRecord \ {"Connect"}) \cup {"Multi"}, NEW assertEmpty,
             p = Packet(h.val, v, DeserializeRequest(v, h.rest), assertEmpty)
      PROVE  \E rest \in Seq(Tokens) : Forwarded(f, p, rest)
  <2>1. Forwarded(f, p, DeserializeRequest(v, h.rest).rest)
    BY <1>1, <1>4, <1>5, HeadedForwarded, Zenon
  <2> QED
    BY <2>1, Zenon DEF Forwarded
<1>6. CASE h.val[1] \in DOMAIN ControlVariant
  <2> DEFINE v == ControlVariant[h.val[1]]
  <2>1. v \in DOMAIN RequestRecord \ {"Connect", "Multi"}
    BY <1>6, ControlsAre, Zenon
  <2>2. p = Packet(h.val, v, Deserialize(RequestRecord[v], h.rest), TRUE)
    BY <1>2, <1>3, <1>6, Zenon DEF DecodeHeadedRequest, DecodeControl
  <2> HIDE DEF v
  <2>3. v \in DOMAIN RequestRecord \ {"Connect"} /\ v # "Multi"
    BY <2>1
  <2>4. DeserializeRequest(v, h.rest) = Deserialize(RequestRecord[v], h.rest)
    BY <2>3, Zenon DEF DeserializeRequest
  <2> QED
    BY <1>5, <2>2, <2>3, <2>4, Zenon
<1>7. CASE h.val[1] \notin DOMAIN ControlVariant
  <2> DEFINE type == h.val[2]
             op == OpCodeOf(type)
             v == IF type = OpCodes.Multi THEN "Multi" ELSE DataVariant[op]
  <2>1. p = DecodeData(h.val, h.rest)
    BY <1>2, <1>3, <1>7, Zenon DEF DecodeHeadedRequest
  <2>2. ValidOpCode(type) /\ op \in DOMAIN DataVariant \cup {"Multi"}
    <3>1. ~ValidOpCode(type) => p = Refused("err")
      BY <2>1, Zenon DEF DecodeData
    <3>2. ValidOpCode(type) /\ op \notin DOMAIN DataVariant \cup {"Multi"} => p = Refused("panic")
      BY <2>1, Zenon DEF DecodeData
    <3> HIDE DEF type, op
    <3> QED
      BY <3>1, <3>2, RefusedIs, Zenon
  <2>3. p = Packet(h.val, v, DeserializeRequest(v, h.rest), v \in AssertsEmpty)
    BY <2>1, <2>2, Zenon DEF DecodeData
  <2>4. v \in (DOMAIN RequestRecord \ {"Connect"}) \cup {"Multi"}
    <3>1. op = "Multi" => type = OpCodes.Multi
      <4>1. ValidOpCode(type) => OpCodes[op] = type
        BY Zenon DEF ValidOpCode, OpCodeOf
      <4> QED
        BY <2>2, <4>1, Zenon
    <3> HIDE DEF op, type
    <3> QED
      BY <2>2, <3>1, VariantsAre, Zenon
  <2> HIDE DEF v
  <2> QED
    BY <1>5, <2>3, <2>4, Zenon
<1> QED
  BY <1>6, <1>7, Zenon

\* The fields of a connect request before read_only, which not every client sends
ConnectFields == Record(<<"i32", "i64", "i32", "i64", "buffer">>, 4 + 8 + 4 + 8, {5})

(* A connect request ends in read_only. *)
LEMMA ConnectEnds ==
  /\ EndsInReadOnly(ConnectRequest, ConnectFields)
  /\ Fits(WireFields, ConnectRequest) /\ RequestRecord["Connect"] = ConnectRequest
<1>1. {"i32", "i64", "buffer"} \subseteq Fields /\ "read_only" \in WireFields
        /\ Fields \subseteq WireFields
  BY WidthsOfFields, Zenon DEF WireFields
<1>2. ConnectFields.wire = <<"i32", "i64", "i32", "i64", "buffer">>
  BY DEF ConnectFields, Record
<1>3. ConnectRequest.wire = <<"i32", "i64", "i32", "i64", "buffer", "read_only">>
  BY DEF ConnectRequest, Record
<1>4. ConnectFields.wire \in Seq(Fields) /\ Len(ConnectFields.wire) = 5
  BY <1>1, <1>2
<1>5. /\ Len(ConnectRequest.wire) = 6 /\ ConnectRequest.wire[6] = "read_only"
      /\ \A i \in 1 .. 5 : ConnectRequest.wire[i] = ConnectFields.wire[i]
  BY <1>2, <1>3
<1>6. Fits(WireFields, ConnectRequest)
  BY WireFits, Zenon
<1>7. ConnectRequest.wire \in Seq(WireFields)
  BY <1>6, Zenon DEF Fits
<1>8. EndsInReadOnly(ConnectRequest, ConnectFields)
  BY <1>4, <1>5, <1>7 DEF EndsInReadOnly
<1> QED
  BY <1>6, <1>8, RequestsFit, Zenon

\* What ends in read_only is written as it was read but for that byte
EndsForwarded(f, body, size) ==
  /\ body \in Seq(Tokens) /\ size = Width(body) /\ size \in Nat
  /\ \E head \in Seq(Tokens), t \in Tokens, rest \in Seq(Tokens) :
       body = head \o <<t>> /\ t.w = 1 /\ f = head \o rest

(* A record that ends in read_only is written as it was read, up to its last byte. *)
LEMMA EndsWhole ==
  ASSUME NEW f \in Seq(Tokens), NEW R, NEW B, EndsInReadOnly(R, B), Fits(WireFields, R)
  PROVE  LET g == Deserialize(R, f)
         IN  g.st = "ok" => EndsForwarded(f, Serialize(R, g.val), Size(R, g.val))
<1> DEFINE g == Deserialize(R, f)
<1>1. g.st = "ok" =>
        \E val \in RowsIn(B), v \in Int, rest \in Seq(Tokens) :
          g.val = Append(val, v) /\ f = Serialize(B, val) \o rest
  BY ConnectRead
<1> HIDE DEF g
<1>2. SUFFICES ASSUME g.st = "ok" PROVE EndsForwarded(f, Serialize(R, g.val), Size(R, g.val))
  BY Zenon DEF g
<1>3. PICK val \in RowsIn(B), v \in Int, rest \in Seq(Tokens) :
        g.val = Append(val, v) /\ f = Serialize(B, val) \o rest
  BY <1>1, <1>2, Zenon
<1> DEFINE row == Append(val, v)
<1>4. /\ row \in RowsFor(R) /\ Serialize(B, val) \in Seq(Tokens) /\ Token(1, v) \in Tokens
      /\ Serialize(R, row) = Serialize(B, val) \o <<Token(1, v)>>
  BY ConnectWrite, Zenon
<1> HIDE DEF row
<1>5. /\ Serialize(R, row) \in Seq(Tokens) /\ Width(Serialize(R, row)) = Size(R, row)
      /\ Size(R, row) \in Nat
  BY <1>4, RecordWidth, Zenon
<1>6. g.val = row
  BY <1>3, Zenon DEF row
<1>7. Token(1, v).w = 1
  BY TokensAre
<1> QED
  BY <1>3, <1>4, <1>5, <1>6, <1>7, Zenon DEF EndsForwarded

PacketOf(p, header, v, val) == p.header = header /\ p.variant = v /\ p.val = val

(* What a packet is of. *)
LEMMA PacketFields ==
  ASSUME NEW header, NEW v, NEW val
  PROVE  PacketOf([st |-> "ok", header |-> header, variant |-> v, val |-> val], header, v, val)
  BY DEF PacketOf

(* The packet of a connect request or reply. *)
LEMMA ConnectPacket ==
  ASSUME NEW g, NEW p, p = Packet(<<>>, "Connect", g, FALSE), p.st = "ok"
  PROVE  g.st = "ok" /\ p.header = <<>> /\ p.variant = "Connect" /\ p.val = g.val
<1>1. g.st = "ok"
  BY RefusedIs, Zenon DEF Packet
<1>2. p = [st |-> "ok", header |-> <<>>, variant |-> "Connect", val |-> g.val]
  BY <1>1, Zenon DEF Packet
<1>3. PacketOf(p, <<>>, "Connect", g.val)
  BY <1>2, PacketFields, Zenon
<1> QED
  BY <1>1, <1>3, Zenon DEF PacketOf

(* A connect request is written as it was read, up to its last byte. *)
LEMMA DecodeConnectForwards ==
  ASSUME NEW f \in Seq(Tokens), NEW p,
         p = Packet(<<>>, "Connect", Deserialize(ConnectRequest, f), FALSE), p.st = "ok"
  PROVE  ConnectForwarded(f, p)
<1> DEFINE R == ConnectRequest
           g == Deserialize(R, f)
<1>1. g.st = "ok" /\ p.header = <<>> /\ p.variant = "Connect" /\ p.val = g.val
  BY ConnectPacket, Zenon
<1>2. EndsInReadOnly(R, ConnectFields) /\ Fits(WireFields, R) /\ RequestRecord["Connect"] = R
  BY ConnectEnds, Zenon
<1> HIDE DEF R
<1>3. EndsForwarded(f, Serialize(R, p.val), Size(R, p.val))
  <2>1. EndsForwarded(f, Serialize(R, g.val), Size(R, g.val))
    BY <1>1, <1>2, EndsWhole, Zenon
  <2> HIDE DEF g
  <2> QED
    BY <1>1, <2>1, Zenon
<1>4. SerializeRequest(p) = Serialize(R, p.val) /\ SizeRequest(p) = Size(R, p.val)
  <2>1. "Connect" # "Multi"
    OBVIOUS
  <2> QED
    BY <1>1, <1>2, <2>1, Zenon DEF SerializeRequest, SizeRequest
<1>5. SerializePacket(p) = Serialize(R, p.val)
  <2>1. SerializePacket(p) = <<>> \o Serialize(R, p.val)
    BY <1>1, <1>4, Zenon DEF SerializePacket
  <2> QED
    BY <1>3, <2>1, ConcatEmptySeq, Zenon DEF EndsForwarded
<1>6. SizePacket(p) = Size(R, p.val)
  <2>1. SizePacket(p) = 0 + SizeRequest(p)
    BY <1>1, Zenon DEF SizePacket
  <2>2. SizeRequest(p) \in Nat
    BY <1>3, <1>4, Zenon DEF EndsForwarded
  <2>3. \A n \in Nat : 0 + n = n
    OBVIOUS
  <2> QED
    BY <1>4, <2>1, <2>2, <2>3, Zenon
<1> QED
  BY <1>1, <1>3, <1>5, <1>6, Zenon DEF ConnectForwarded, EndsForwarded

(* A request that is read is written as it was read: all of it, but for the last byte of a
   connect request and what is behind its end. *)
LEMMA DecodeForwards ==
  ASSUME NEW f \in Seq(Tokens), NEW p, p = decode(f), p.st = "ok"
  PROVE  ConnectForwarded(f, p) \/ \E rest \in Seq(Tokens) : Forwarded(f, p, rest)
<1>1. CASE Width(f) > MaxFrameLength
  BY <1>1, RefusedIs, Zenon DEF decode
<1>2. CASE ~(Width(f) > MaxFrameLength) /\ Width(f) < 4 + 4
  BY <1>2, RefusedIs, Zenon DEF decode, DecodeInner
<1>3. CASE /\ ~(Width(f) > MaxFrameLength) /\ ~(Width(f) < 4 + 4)
           /\ f[1] = Token(4, XidCodes.ConnectXid)
  BY <1>3, DecodeConnectForwards, Zenon DEF decode, DecodeInner
<1>4. CASE /\ ~(Width(f) > MaxFrameLength) /\ ~(Width(f) < 4 + 4)
           /\ f[1] # Token(4, XidCodes.ConnectXid)
  BY <1>4, DecodeHeadedForwards, Zenon DEF decode, DecodeInner
<1> QED
  BY <1>1, <1>2, <1>3, <1>4, Zenon

FlatOfThree(a, b, c) == FlattenSeq(<<a, b, c>>) = (a \o b) \o c

(* Two or three sequences, one after the other. *)
LEMMA FlatFew ==
  ASSUME NEW S, NEW a \in Seq(S), NEW b \in Seq(S), NEW c \in Seq(S)
  PROVE  /\ FlattenSeq(<<>>) = <<>>
         /\ FlattenSeq(<<a>>) = a
         /\ FlattenSeq(<<a, b>>) = a \o b
         /\ FlatOfThree(a, b, c)
<1> DEFINE T == Seq(S)
<1>1. FlattenSeq(<<>>) = <<>>
  <2>1. <<>> \in Seq(T) /\ Len(<<>>) = 0
    BY EmptyFacts, Zenon
  <2>2. PICK J : Joins(J, S, <<>>)
    BY <2>1, FlattenIs, Zenon
  <2> QED
    BY <2>1, <2>2, Zenon DEF Joins
<1>2. a \in T /\ b \in T /\ c \in T
  OBVIOUS
<1>3. <<>> \in Seq(T) /\ <<a>> = Append(<<>>, a) /\ <<a>> \in Seq(T)
  <2> HIDE DEF T
  <2> QED
    BY <1>2
<1>4. <<a, b>> = Append(<<a>>, b) /\ <<a, b>> \in Seq(T)
  <2> HIDE DEF T
  <2> QED
    BY <1>2
<1>5. <<a, b, c>> = Append(<<a, b>>, c)
  <2> HIDE DEF T
  <2> QED
    BY <1>2
<1>6. FlattenSeq(<<a>>) = FlattenSeq(<<>>) \o a
  BY <1>3, FlattenAppend, Zenon
<1>7. FlattenSeq(<<a>>) = a
  BY <1>1, <1>6, ConcatEmptySeq, Zenon
<1>8. FlattenSeq(<<a, b>>) = FlattenSeq(<<a>>) \o b
  BY <1>3, <1>4, FlattenAppend, Zenon
<1>9. FlattenSeq(<<a, b, c>>) = FlattenSeq(<<a, b>>) \o c
  BY <1>4, <1>5, FlattenAppend, Zenon
<1> QED
  BY <1>1, <1>7, <1>8, <1>9, Zenon DEF FlatOfThree

(* What a record writes is read back by it, whatever follows. *)
LEMMA WrittenIsRead ==
  ASSUME NEW R, R.wire \in Seq(Fields), NEW row \in RowsIn(R), NEW rest \in Seq(Tokens)
  PROVE  /\ Serialize(R, row) \in Seq(Tokens)
         /\ Serialize(R, row) \o rest \in Seq(Tokens)
         /\ Deserialize(R, Serialize(R, row) \o rest) = [st |-> "ok", val |-> row, rest |-> rest]
<1> DEFINE toks == Serialize(R, row) \o rest
<1>1. RecPut(R)[row] = Serialize(R, row) /\ RecPut(R)[row] \in Seq(Tokens)
  BY RecPutIs, Zenon DEF IsPut, RowsIn
<1>2. toks \in Seq(Tokens)
  BY <1>1, ConcatProperties, Zenon
<1>3. DecodesBack(toks, Deserialize(R, toks), RecPut(R))
  <2> HIDE DEF toks
  <2> QED
    BY <1>2, RecordRead, Zenon DEF Starts
<1>4. toks = RecPut(R)[row] \o rest
  BY <1>1, Zenon
<1>5. Deserialize(R, toks) = [st |-> "ok", val |-> row, rest |-> rest]
  BY <1>3, <1>4, Zenon DEF DecodesBack, RowsIn
<1> QED
  BY <1>1, <1>2, <1>5, Zenon

(* A number is written as it is. *)
LEMMA NumberField ==
  ASSUME NEW field \in ScalarFields, NEW v \in Int
  PROVE  /\ field \in Fields /\ v \in FieldSet(field) /\ v \in FieldVal
         /\ PutField(field, v) = <<Token(ScalarWidth[field], v)>>
         /\ Token(ScalarWidth[field], v) \in Tokens
         /\ PutField(field, v) \in Seq(Tokens)
<1>1. field \in PlainFields /\ field \in Fields
  BY Zenon DEF Fields, PlainFields
<1>2. /\ ScalarWidth[field] \in Nat \ {0} /\ field \notin {"string", "buffer", "read_only"}
  BY <1>1, PlainPutIs, Zenon
<1>3. field \notin DOMAIN Vectors
  BY <1>1, VectorsArePlain, Zenon
<1>4. PutField(field, v) = <<Token(ScalarWidth[field], v)>>
  BY <1>2, <1>3, Zenon DEF PutField, PutPlain
<1>5. Token(ScalarWidth[field], v) \in Tokens
  BY <1>2, TokensAre, Zenon
<1>6. FieldSet(field) = PlainSet(field) /\ v \in PlainSet(field)
  BY <1>2, <1>3, Zenon DEF FieldSet, PlainSet
<1> QED
  BY <1>1, <1>4, <1>5, <1>6, WidthOfFew, Zenon DEF FieldVal, Plain

(* Three tokens. *)
LEMMA TripleIs ==
  ASSUME NEW S, NEW a \in S, NEW b \in S, NEW c \in S
  PROVE  <<a, b>> \o <<c>> = <<a, b, c>>
<1> DEFINE x == <<a, b>>
           y == <<c>>
           w == x \o y
           z == <<a, b, c>>
<1>1. x \in Seq(S) /\ Len(x) = 2 /\ x[1] = a /\ x[2] = b
  OBVIOUS
<1>2. y \in Seq(S) /\ Len(y) = 1 /\ y[1] = c
  OBVIOUS
<1>3. z \in Seq(S) /\ Len(z) = 3 /\ z[1] = a /\ z[2] = b /\ z[3] = c
  OBVIOUS
<1> HIDE DEF x, y, z
<1>4. /\ w \in Seq(S) /\ Len(w) = Len(x) + Len(y)
      /\ \A i \in 1 .. Len(x) + Len(y) : w[i] = IF i <= Len(x) THEN x[i] ELSE y[i - Len(x)]
  BY <1>1, <1>2, ConcatProperties, Zenon
<1> HIDE DEF w
<1>5. Len(w) = 3 /\ \A i \in 1 .. 3 : w[i] = z[i]
  BY <1>1, <1>2, <1>3, <1>4
<1>6. w = z
  BY <1>3, <1>4, <1>5, SeqEqual
<1> QED
  BY <1>6, Zenon DEF w, x, y, z

\* How a record of numbers is written
WiredAs(R, wire) == R.wire = wire
WrittenAs(R, row, toks) ==
  R.wire \in Seq(Fields) /\ row \in RowsIn(R) /\ Serialize(R, row) = toks

(* A record of two numbers. *)
LEMMA TwoNumbers ==
  ASSUME NEW x \in ScalarFields, NEW y \in ScalarFields, NEW R, WiredAs(R, <<x, y>>),
         NEW a \in Int, NEW b \in Int
  PROVE  WrittenAs(R, <<a, b>>, <<Token(ScalarWidth[x], a), Token(ScalarWidth[y], b)>>)
<1> DEFINE row == <<a, b>>
           s == PutField(x, a)
           t == PutField(y, b)
           ss == <<s, t>>
<1>1. /\ x \in Fields /\ a \in FieldSet(x) /\ a \in FieldVal /\ s \in Seq(Tokens)
      /\ s = <<Token(ScalarWidth[x], a)>> /\ Token(ScalarWidth[x], a) \in Tokens
  BY NumberField, Zenon
<1>2. /\ y \in Fields /\ b \in FieldSet(y) /\ b \in FieldVal /\ t \in Seq(Tokens)
      /\ t = <<Token(ScalarWidth[y], b)>> /\ Token(ScalarWidth[y], b) \in Tokens
  BY NumberField, Zenon
<1>3. R.wire \in Seq(Fields) /\ Len(R.wire) = 2 /\ DOMAIN R.wire = 1 .. 2
      /\ R.wire[1] = x /\ R.wire[2] = y
  BY <1>1, <1>2 DEF WiredAs
<1>4. row \in Seq(FieldVal) /\ Len(row) = 2 /\ row[1] = a /\ row[2] = b
  BY <1>1, <1>2
<1>5. \A i \in 1 .. 2 : i = 1 \/ i = 2
  OBVIOUS
<1> HIDE DEF row
<1>6. row \in RowsIn(R)
  <2>1. \A i \in 1 .. 2 : row[i] \in FieldSet(R.wire[i])
    BY <1>1, <1>2, <1>3, <1>4, <1>5, Zenon
  <2>2. R.wire \in Seq(Fields) /\ row \in Seq(FieldVal) /\ Len(row) = Len(R.wire)
        /\ \A i \in 1 .. Len(R.wire) : row[i] \in FieldSet(R.wire[i])
    BY <1>3, <1>4, <2>1, Zenon
  <2> QED
    BY <2>2, RecPutIs, Zenon DEF RowsIn
<1> DEFINE tt == [i \in 1 .. 2 |-> PutField(R.wire[i], row[i])]
<1>7. Serialize(R, row) = FlattenSeq(tt)
  BY <1>3, Zenon DEF Serialize
<1>8. tt[1] = s /\ tt[2] = t
  BY <1>3, <1>4
<1> HIDE DEF s, t
<1>9. tt = ss
  <2> HIDE DEF tt
  <2>1. tt = [i \in 1 .. 2 |-> tt[i]]
    BY Zenon DEF tt
  <2> QED
    BY <1>8, <2>1
<1>10. FlattenSeq(ss) = s \o t
  <2>1. s \in Seq(Tokens) /\ t \in Seq(Tokens)
    BY <1>1, <1>2, Zenon
  <2> QED
    BY <2>1, FlatFew, Zenon
<1>11. s \o t = <<Token(ScalarWidth[x], a), Token(ScalarWidth[y], b)>>
  BY <1>1, <1>2, PairIs, Zenon
<1> QED
  BY <1>3, <1>6, <1>7, <1>9, <1>10, <1>11, Zenon DEF row, WrittenAs

(* A record of three numbers. *)
LEMMA ThreeNumbers ==
  ASSUME NEW x \in ScalarFields, NEW y \in ScalarFields, NEW z \in ScalarFields, NEW R,
         WiredAs(R, <<x, y, z>>), NEW a \in Int, NEW b \in Int, NEW c \in Int
  PROVE  WrittenAs(R, <<a, b, c>>,
           <<Token(ScalarWidth[x], a), Token(ScalarWidth[y], b), Token(ScalarWidth[z], c)>>)
<1> DEFINE row == <<a, b, c>>
           s == PutField(x, a)
           t == PutField(y, b)
           u == PutField(z, c)
           p == Token(ScalarWidth[x], a)
           q == Token(ScalarWidth[y], b)
           r == Token(ScalarWidth[z], c)
           ss == <<s, t, u>>
<1>1. /\ x \in Fields /\ a \in FieldSet(x) /\ a \in FieldVal /\ s \in Seq(Tokens)
      /\ s = <<p>> /\ p \in Tokens
  BY NumberField, Zenon
<1>2. /\ y \in Fields /\ b \in FieldSet(y) /\ b \in FieldVal /\ t \in Seq(Tokens)
      /\ t = <<q>> /\ q \in Tokens
  BY NumberField, Zenon
<1>3. /\ z \in Fields /\ c \in FieldSet(z) /\ c \in FieldVal /\ u \in Seq(Tokens)
      /\ u = <<r>> /\ r \in Tokens
  BY NumberField, Zenon
<1> HIDE DEF p, q, r
<1>4. R.wire \in Seq(Fields) /\ Len(R.wire) = 3 /\ DOMAIN R.wire = 1 .. 3
      /\ R.wire[1] = x /\ R.wire[2] = y /\ R.wire[3] = z
  BY <1>1, <1>2, <1>3 DEF WiredAs
<1>5. row \in Seq(FieldVal) /\ Len(row) = 3 /\ row[1] = a /\ row[2] = b /\ row[3] = c
  BY <1>1, <1>2, <1>3
<1>6. \A i \in 1 .. 3 : i = 1 \/ i = 2 \/ i = 3
  OBVIOUS
<1> HIDE DEF row
<1>7. row \in RowsIn(R)
  <2>1. \A i \in 1 .. 3 : row[i] \in FieldSet(R.wire[i])
    BY <1>1, <1>2, <1>3, <1>4, <1>5, <1>6, Zenon
  <2>2. R.wire \in Seq(Fields) /\ row \in Seq(FieldVal) /\ Len(row) = Len(R.wire)
        /\ \A i \in 1 .. Len(R.wire) : row[i] \in FieldSet(R.wire[i])
    BY <1>4, <1>5, <2>1, Zenon
  <2> QED
    BY <2>2, RecPutIs, Zenon DEF RowsIn
<1> DEFINE tt == [i \in 1 .. 3 |-> PutField(R.wire[i], row[i])]
<1>8. Serialize(R, row) = FlattenSeq(tt)
  BY <1>4, Zenon DEF Serialize
<1>9. tt[1] = s /\ tt[2] = t /\ tt[3] = u
  BY <1>4, <1>5
<1> HIDE DEF s, t, u
<1>10. tt = ss
  <2> HIDE DEF tt
  <2>1. tt = [i \in 1 .. 3 |-> tt[i]]
    BY Zenon DEF tt
  <2> QED
    BY <1>9, <2>1
<1>11. FlattenSeq(ss) = (s \o t) \o u
  <2>1. s \in Seq(Tokens) /\ t \in Seq(Tokens) /\ u \in Seq(Tokens)
    BY <1>1, <1>2, <1>3, Zenon
  <2>2. FlatOfThree(s, t, u)
    BY <2>1, FlatFew, Zenon
  <2> QED
    BY <2>2, Zenon DEF FlatOfThree
<1>12. s \o t = <<p, q>>
  BY <1>1, <1>2, PairIs, Zenon
<1>13. <<p, q>> \o u = <<p, q, r>>
  BY <1>1, <1>2, <1>3, TripleIs, ZenonT(40)
<1> QED
  BY <1>4, <1>7, <1>8, <1>10, <1>11, <1>12, <1>13, Zenon DEF row, p, q, r, WrittenAs

(* The headers, as their sender writes them. *)
LEMMA HeadersRead ==
  ASSUME NEW rest \in Seq(Tokens), NEW a \in Int, NEW b \in Int, NEW c \in Int
  PROVE  /\ <<Token(4, a), Token(4, b)>> \in Seq(Tokens)
         /\ Deserialize(RequestHeader, <<Token(4, a), Token(4, b)>> \o rest) =
              [st |-> "ok", val |-> <<a, b>>, rest |-> rest]
         /\ <<Token(4, a), Token(1, b), Token(4, c)>> \in Seq(Tokens)
         /\ Deserialize(MultiHeader, <<Token(4, a), Token(1, b), Token(4, c)>> \o rest) =
              [st |-> "ok", val |-> <<a, b, c>>, rest |-> rest]
         /\ <<Token(4, a), Token(8, b), Token(4, c)>> \in Seq(Tokens)
         /\ Deserialize(ReplyHeader, <<Token(4, a), Token(8, b), Token(4, c)>> \o rest) =
              [st |-> "ok", val |-> <<a, b, c>>, rest |-> rest]
<1>1. ScalarWidth["i32"] = 4 /\ ScalarWidth["i64"] = 8 /\ ScalarWidth["u8"] = 1
  BY DEF ScalarWidth
<1>2. "i32" \in ScalarFields /\ "i64" \in ScalarFields /\ "u8" \in ScalarFields
  BY Zenon DEF ScalarFields
<1>3. /\ WiredAs(RequestHeader, <<"i32", "i32">>) /\ WiredAs(MultiHeader, <<"i32", "u8", "i32">>)
      /\ WiredAs(ReplyHeader, <<"i32", "i64", "i32">>)
  BY DEF RequestHeader, MultiHeader, ReplyHeader, Record, WiredAs
<1>4. WrittenAs(RequestHeader, <<a, b>>, <<Token(4, a), Token(4, b)>>)
  BY <1>1, <1>2, <1>3, TwoNumbers, Zenon
<1>5. WrittenAs(MultiHeader, <<a, b, c>>, <<Token(4, a), Token(1, b), Token(4, c)>>)
  BY <1>1, <1>2, <1>3, ThreeNumbers, Zenon
<1>6. WrittenAs(ReplyHeader, <<a, b, c>>, <<Token(4, a), Token(8, b), Token(4, c)>>)
  BY <1>1, <1>2, <1>3, ThreeNumbers, Zenon
<1> DEFINE s == <<Token(4, a), Token(4, b)>>
           t == <<Token(4, a), Token(1, b), Token(4, c)>>
           u == <<Token(4, a), Token(8, b), Token(4, c)>>
<1> HIDE DEF s, t, u
<1>7. s \in Seq(Tokens)
        /\ Deserialize(RequestHeader, s \o rest) = [st |-> "ok", val |-> <<a, b>>, rest |-> rest]
  <2>1. RequestHeader.wire \in Seq(Fields) /\ <<a, b>> \in RowsIn(RequestHeader)
          /\ Serialize(RequestHeader, <<a, b>>) = s
    BY <1>4, Zenon DEF WrittenAs, s
  <2> QED
    BY <2>1, WrittenIsRead, Zenon
<1>8. t \in Seq(Tokens)
        /\ Deserialize(MultiHeader, t \o rest) = [st |-> "ok", val |-> <<a, b, c>>, rest |-> rest]
  <2>1. MultiHeader.wire \in Seq(Fields) /\ <<a, b, c>> \in RowsIn(MultiHeader)
          /\ Serialize(MultiHeader, <<a, b, c>>) = t
    BY <1>5, Zenon DEF WrittenAs, t
  <2> QED
    BY <2>1, WrittenIsRead, Zenon
<1>9. u \in Seq(Tokens)
        /\ Deserialize(ReplyHeader, u \o rest) = [st |-> "ok", val |-> <<a, b, c>>, rest |-> rest]
  <2>1. ReplyHeader.wire \in Seq(Fields) /\ <<a, b, c>> \in RowsIn(ReplyHeader)
          /\ Serialize(ReplyHeader, <<a, b, c>>) = u
    BY <1>6, Zenon DEF WrittenAs, u
  <2> QED
    BY <2>1, WrittenIsRead, Zenon
<1> QED
  BY <1>7, <1>8, <1>9, Zenon DEF s, t, u

(* The opcodes are told apart. *)
LEMMA OpCodesAre ==
  /\ \A op \in DOMAIN OpCodes : /\ OpCodes[op] \in Int /\ ValidOpCode(OpCodes[op])
                                /\ OpCodeOf(OpCodes[op]) = op
  /\ OpCodes.Multi = OpCodes["Multi"]
<1>1. \A op \in DOMAIN OpCodes : OpCodes[op] \in Int
  BY DEF OpCodes
<1>2. \A op \in DOMAIN OpCodes, o \in DOMAIN OpCodes : OpCodes[op] = OpCodes[o] => o = op
  BY DEF OpCodes
<1>3. ASSUME NEW op \in DOMAIN OpCodes
      PROVE  ValidOpCode(OpCodes[op]) /\ OpCodeOf(OpCodes[op]) = op
  <2> DEFINE n == OpCodes[op]
  <2>1. ValidOpCode(n)
    BY Zenon DEF ValidOpCode
  <2>2. OpCodeOf(n) \in DOMAIN OpCodes /\ OpCodes[OpCodeOf(n)] = n
    BY <2>1, Zenon DEF ValidOpCode, OpCodeOf
  <2> QED
    BY <1>2, <2>1, <2>2, Zenon
<1> QED
  BY <1>1, <1>3, Zenon

(* One more sequence in front of the others. *)
LEMMA FlattenPrepend ==
  ASSUME NEW S, NEW ss \in Seq(Seq(S)), NEW s \in Seq(S)
  PROVE  FlattenSeq(<<s>> \o ss) = s \o FlattenSeq(ss)
<1> DEFINE n == Len(ss)
           tt == <<s>> \o ss
           D == Seq(S)
<1>1. /\ tt \in Seq(Seq(S)) /\ Len(tt) = 1 + n /\ n \in Nat /\ tt[1] = s
      /\ \A j \in 1 .. n : tt[1 + j] = ss[j]
  <2> HIDE DEF D
  <2>1. ss \in Seq(D) /\ s \in D
    BY Zenon DEF D
  <2>2. /\ tt \in Seq(D) /\ Len(tt) = 1 + n /\ n \in Nat /\ tt[1] = s
        /\ \A j \in 1 .. n : tt[1 + j] = ss[j]
    BY <2>1, Prepended
  <2> QED
    BY <2>2, Zenon DEF D
<1>2. <<>> \in D
  BY EmptyFacts, Zenon
<1>3. PICK suf : Chain(suf, S, ss) /\ suf[n] = <<>>
  BY <1>2, ChainExists, Zenon
<1>4. suf[0] = FlattenSeq(ss) \o <<>>
  BY <1>3, ChainIsFlat, Zenon
<1>5. suf \in [0 .. n -> D] /\ \A i \in 1 .. n : suf[i - 1] = ss[i] \o suf[i]
  BY <1>3, Zenon DEF Chain
<1> HIDE DEF n, tt
<1> DEFINE up == [i \in 0 .. 1 + n |-> IF i = 0 THEN s \o suf[0] ELSE suf[i - 1]]
<1>6. /\ \A i \in 0 .. 1 + n : i = 0 \/ i - 1 \in 0 .. n
      /\ 0 \in 0 .. n /\ 0 \in 0 .. 1 + n /\ 1 + n \in 0 .. 1 + n /\ 1 + n # 0 /\ (1 + n) - 1 = n
      /\ \A i \in 1 .. 1 + n : i # 0 /\ i \in 0 .. 1 + n /\ i - 1 \in 0 .. 1 + n
                               /\ (i = 1 \/ (i - 1 # 0 /\ i - 1 \in 1 .. n /\ 1 + (i - 1) = i))
      /\ 1 - 1 = 0
  BY <1>1
<1>7. s \o suf[0] \in D
  BY <1>5, <1>6, ConcatProperties, Zenon
<1>8. up \in [0 .. 1 + n -> D]
  BY <1>5, <1>6, <1>7, Zenon
<1>9. up[0] = s \o suf[0] /\ \A i \in 1 .. 1 + n : up[i] = suf[i - 1]
  BY <1>6, Zenon
<1> HIDE DEF up
<1>10. ASSUME NEW i \in 1 .. 1 + n
       PROVE  up[i - 1] = tt[i] \o up[i]
  <2>1. CASE i = 1
    BY <1>1, <1>6, <1>9, <2>1, Zenon
  <2>2. CASE i # 1
    <3> DEFINE j == i - 1
    <3>1. j # 0 /\ j \in 1 .. n /\ 1 + j = i /\ j \in 1 .. 1 + n
      BY <1>1, <2>2
    <3> HIDE DEF j
    <3>2. up[j] = suf[j - 1] /\ tt[i] = ss[j]
      BY <1>1, <1>9, <3>1, Zenon
    <3>3. up[i] = suf[j]
      BY <1>9, Zenon DEF j
    <3>4. suf[j - 1] = ss[j] \o suf[j]
      BY <1>5, <3>1, Zenon
    <3>5. up[j] = tt[i] \o up[i]
      BY <3>2, <3>3, <3>4, Zenon
    <3> QED
      BY <3>5, Zenon DEF j
  <2> QED
    BY <2>1, <2>2, Zenon
<1>11. Chain(up, S, tt)
  BY <1>1, <1>8, <1>10, Zenon DEF Chain
<1>12. up[0] = FlattenSeq(tt) \o up[1 + n]
  BY <1>1, <1>11, ChainIsFlat, Zenon
<1>13. FlattenSeq(tt) \in D /\ FlattenSeq(ss) \in D
  BY <1>1, FlattenIs, Zenon
<1>14. FlattenSeq(tt) \o <<>> = FlattenSeq(tt) /\ FlattenSeq(ss) \o <<>> = FlattenSeq(ss)
  BY <1>13, ConcatEmptySeq, Zenon
<1>15. up[1 + n] = <<>>
  <2>1. 1 + n \in 1 .. 1 + n
    BY <1>1
  <2> QED
    BY <1>3, <1>6, <1>9, <2>1, Zenon DEF n
<1> QED
  BY <1>4, <1>9, <1>12, <1>14, <1>15, Zenon DEF tt

(* What a field writes is tokens. *)
LEMMA FieldWritten ==
  ASSUME NEW field \in Fields, NEW v \in FieldSet(field)
  PROVE  PutField(field, v) \in Seq(Tokens)
<1>1. /\ FieldPut(field) \in [DOMAIN FieldPut(field) -> Seq(Tokens)]
      /\ DOMAIN FieldPut(field) = FieldSet(field) /\ FieldPut(field)[v] = PutField(field, v)
  BY FieldPutIs, Zenon DEF IsPut
<1> QED
  BY <1>1, Zenon

(* A number in front of the fields of a record. *)
LEMMA NumberFirst ==
  ASSUME NEW B, NEW fs \in Seq(Fields), WiredAs(B, <<"i32">> \o fs), NEW row \in RowsOf(fs), NEW a \in Int
  PROVE  WrittenAs(B, <<a>> \o row, <<Token(4, a)>> \o ImageOf(fs, row))
<1> DEFINE A == Record(fs, 0, {})
           m == Len(fs)
           val == <<a>> \o row
           w == <<"i32">> \o fs
           ss == [i \in 1 .. m |-> PutField(fs[i], row[i])]
           tt == [i \in 1 .. 1 + m |-> PutField(w[i], val[i])]
           uu == <<PutField("i32", a)>> \o ss
<1>1. A.wire = fs
  BY DEF Record
<1>2. row \in DOMAIN RecPut(A) /\ ImageOf(fs, row) = Serialize(A, row)
  <2> HIDE DEF A
  <2>1. A.wire \in Seq(Fields) /\ row \in RowsOf(A.wire)
    BY <1>1, Zenon
  <2>2. row \in DOMAIN RecPut(A) /\ ImageOf(A.wire, row) = Serialize(A, row)
    BY <2>1, RowsOfRecord, Zenon
  <2> QED
    BY <1>1, <2>2, Zenon
<1> HIDE DEF A
<1>3. row \in Seq(FieldVal) /\ Len(row) = m /\ \A i \in 1 .. m : row[i] \in FieldSet(fs[i])
  <2>1. A.wire \in Seq(Fields)
    BY <1>1, Zenon
  <2> QED
    BY <1>1, <1>2, <2>1, RecPutIs, Zenon
<1>4. m \in Nat /\ DOMAIN fs = 1 .. m /\ \A i \in 1 .. m : fs[i] \in Fields
  BY LenProperties, ElementOfSeq, Zenon
<1>5. /\ "i32" \in Fields /\ a \in FieldSet("i32") /\ a \in FieldVal
      /\ PutField("i32", a) = <<Token(4, a)>> /\ PutField("i32", a) \in Seq(Tokens)
  <2>1. "i32" \in ScalarFields
    BY Zenon DEF ScalarFields
  <2>2. ScalarWidth["i32"] = 4
    BY DEF ScalarWidth
  <2> QED
    BY <2>1, <2>2, NumberField, Zenon
<1>6. /\ w \in Seq(Fields) /\ Len(w) = 1 + m /\ w[1] = "i32" /\ \A j \in 1 .. m : w[1 + j] = fs[j]
  <2>1. "i32" \in Fields
    BY <1>5, Zenon
  <2> QED
    BY <2>1, Prepended
<1> HIDE DEF m
<1>7. /\ val \in Seq(FieldVal) /\ Len(val) = 1 + m /\ val[1] = a
         /\ \A j \in 1 .. m : val[1 + j] = row[j]
  <2>1. /\ val \in Seq(FieldVal) /\ Len(val) = 1 + Len(row) /\ val[1] = a
        /\ \A j \in 1 .. Len(row) : val[1 + j] = row[j]
    BY <1>3, <1>5, Prepended
  <2> QED
    BY <1>3, <2>1, Zenon
<1>8. ImageOf(fs, row) = FlattenSeq(ss)
  BY <1>1, <1>2, <1>4, Zenon DEF Serialize
<1>9. \A i \in 1 .. m : PutField(fs[i], row[i]) \in Seq(Tokens)
  BY <1>3, <1>4, FieldWritten, Zenon
<1>10. ss \in [1 .. m -> Seq(Tokens)] /\ \A i \in 1 .. m : ss[i] = PutField(fs[i], row[i])
  BY <1>9, Zenon
<1> HIDE DEF ss, val, w
<1>11. ss \in Seq(Seq(Tokens)) /\ Len(ss) = m
  <2> DEFINE D == Seq(Tokens)
  <2> HIDE DEF D
  <2>1. ss \in [1 .. m -> D]
    BY <1>10, Zenon DEF D
  <2>2. ss \in Seq(D) /\ Len(ss) = m
    BY <1>4, <2>1
  <2> QED
    BY <2>2, Zenon DEF D
<1>12. /\ uu \in Seq(Seq(Tokens)) /\ Len(uu) = 1 + m /\ uu[1] = PutField("i32", a)
       /\ \A j \in 1 .. m : uu[1 + j] = ss[j]
  <2> DEFINE D == Seq(Tokens)
             e == PutField("i32", a)
  <2> HIDE DEF D, e
  <2>1. ss \in Seq(D) /\ e \in D
    BY <1>5, <1>11, Zenon DEF D, e
  <2> DEFINE vv == <<e>> \o ss
  <2>2. /\ vv \in Seq(D) /\ Len(vv) = 1 + Len(ss) /\ vv[1] = e
        /\ \A j \in 1 .. Len(ss) : vv[1 + j] = ss[j]
    BY <2>1, Prepended
  <2> HIDE DEF vv
  <2>3. vv \in Seq(D) /\ Len(vv) = 1 + m /\ vv[1] = e /\ \A j \in 1 .. m : vv[1 + j] = ss[j]
    BY <1>11, <2>2, Zenon
  <2> QED
    BY <2>3, Zenon DEF D, e, vv
<1>13. tt = [i \in 1 .. 1 + m |-> tt[i]] /\ \A i \in 1 .. 1 + m : tt[i] = PutField(w[i], val[i])
  BY Zenon
<1> HIDE DEF uu, tt
<1>14. /\ \A i \in 1 .. 1 + m : i = 1 \/ (\E j \in 1 .. m : i = 1 + j)
       /\ 1 \in 1 .. 1 + m /\ 1 + m \in Nat /\ \A j \in 1 .. m : 1 + j \in 1 .. 1 + m
  <2>1. \A i \in 1 .. 1 + m : i = 1 \/ (i - 1 \in 1 .. m /\ i = 1 + (i - 1))
    BY <1>4
  <2>2. 1 \in 1 .. 1 + m /\ 1 + m \in Nat /\ \A j \in 1 .. m : 1 + j \in 1 .. 1 + m
    BY <1>4
  <2> QED
    BY <2>1, <2>2, Zenon
<1>15. \A i \in 1 .. 1 + m : tt[i] = uu[i]
  <2>1. tt[1] = uu[1]
    BY <1>6, <1>7, <1>12, <1>13, <1>14, Zenon
  <2>2. ASSUME NEW j \in 1 .. m
        PROVE  tt[1 + j] = uu[1 + j]
    <3>1. tt[1 + j] = PutField(w[1 + j], val[1 + j])
      BY <1>13, <1>14, Zenon
    <3>2. w[1 + j] = fs[j] /\ val[1 + j] = row[j]
      BY <1>6, <1>7, Zenon
    <3>3. uu[1 + j] = PutField(fs[j], row[j])
      BY <1>10, <1>12, Zenon
    <3> QED
      BY <3>1, <3>2, <3>3, Zenon
  <2> QED
    BY <1>14, <2>1, <2>2, Zenon
<1>16. tt = uu
  <2> DEFINE D == Seq(Tokens)
  <2> HIDE DEF D
  <2>1. uu \in Seq(D) /\ Len(uu) = 1 + m
    BY <1>12, Zenon DEF D
  <2>2. DOMAIN uu = 1 .. 1 + m /\ uu = [i \in 1 .. 1 + m |-> uu[i]]
    BY <2>1
  <2> QED
    BY <1>13, <1>15, <2>2, Zenon
<1>17. FlattenSeq(uu) = <<Token(4, a)>> \o FlattenSeq(ss)
  BY <1>5, <1>11, FlattenPrepend, Zenon DEF uu
<1>18. B.wire = w /\ DOMAIN w = 1 .. 1 + m
  BY <1>6, LenProperties, Zenon DEF WiredAs, w
<1>19. Serialize(B, val) = FlattenSeq(tt)
  BY <1>18, Zenon DEF Serialize, tt
<1>20. val \in RowsIn(B)
  <2>1. \A i \in 1 .. 1 + m : val[i] \in FieldSet(w[i])
    <3>1. val[1] \in FieldSet(w[1])
      BY <1>5, <1>6, <1>7, Zenon
    <3>2. ASSUME NEW j \in 1 .. m
          PROVE  val[1 + j] \in FieldSet(w[1 + j])
      <4>1. w[1 + j] = fs[j] /\ val[1 + j] = row[j]
        BY <1>6, <1>7, Zenon
      <4> QED
        BY <1>3, <4>1, Zenon
    <3> QED
      BY <1>14, <3>1, <3>2, Zenon
  <2>2. B.wire \in Seq(Fields) /\ Len(B.wire) = 1 + m
          /\ \A i \in 1 .. Len(B.wire) : val[i] \in FieldSet(B.wire[i])
    BY <1>6, <1>18, <2>1, Zenon
  <2>3. val \in Seq(FieldVal) /\ Len(val) = Len(B.wire)
    BY <1>7, <2>2, Zenon
  <2> QED
    BY <2>2, <2>3, RecPutIs, Zenon DEF RowsIn
<1>21. FlattenSeq(tt) = <<Token(4, a)>> \o ImageOf(fs, row)
  BY <1>8, <1>16, <1>17, Zenon DEF ss
<1> QED
  BY <1>6, <1>18, <1>19, <1>20, <1>21, Zenon DEF WrittenAs, val

-----------------------------------------------------------------------------
(* Well formed requests *)

\* A request is read to its end, and written as it was
ReadWhole(f) ==
  /\ decode(f).st = "ok"
  /\ decode(f).variant # "Connect" => SerializePacket(decode(f)) = f

(* A frame that begins with a header. *)
LEMMA HeaderFirst ==
  ASSUME NEW op \in DOMAIN OpCodes, NEW xid \in Int, NEW body \in Seq(Tokens),
         NEW f, f = Header(xid, op) \o body
  PROVE  /\ f \in Seq(Tokens) /\ f[1] = Token(4, xid) /\ ~(Width(f) < 4 + 4)
         /\ Header(xid, op) \in Seq(Tokens)
         /\ Deserialize(RequestHeader, f) = [st |-> "ok", val |-> <<xid, OpCodes[op]>>, rest |-> body]
<1> DEFINE s == Token(4, xid)
           t == Token(4, OpCodes[op])
           h == <<s, t>>
<1>1. OpCodes[op] \in Int
  BY OpCodesAre, Zenon
<1>2. h \in Seq(Tokens)
        /\ Deserialize(RequestHeader, h \o body) = [st |-> "ok", val |-> <<xid, OpCodes[op]>>, rest |-> body]
  BY <1>1, HeadersRead, Zenon
<1>3. h = Header(xid, op)
  BY Zenon DEF Header
<1>4. s \in Tokens /\ t \in Tokens /\ s.w = 4 /\ t.w = 4
  BY <1>1, TokensAre
<1> HIDE DEF s, t
<1>5. <<s>> \o <<t>> = h
  BY <1>4, PairIs, Zenon
<1>6. Len(h) = 2 /\ h[1] = s
  BY <1>4
<1>7. Width(h) = 4 + 4
  <2>1. Width(<<s>>) = 4 /\ Width(<<t>>) = 4 /\ <<s>> \in Seq(Tokens) /\ <<t>> \in Seq(Tokens)
    BY <1>4, WidthOfFew, Zenon
  <2>2. Width(<<s>> \o <<t>>) = Width(<<s>>) + Width(<<t>>)
    BY <2>1, WidthOfConcat, Zenon
  <2> QED
    BY <1>5, <2>1, <2>2, Zenon
<1> HIDE DEF h
<1>8. f = h \o body
  BY <1>3, Zenon
<1>9. Width(f) = Width(h) + Width(body) /\ f \in Seq(Tokens) /\ Width(body) \in Nat
  BY <1>2, <1>8, WidthOfConcat, Zenon
<1>10. ~(Width(f) < 4 + 4)
  BY <1>7, <1>9
<1>11. f[1] = s
  <2>1. \A i \in 1 .. Len(h) + Len(body) : (h \o body)[i] = IF i <= Len(h) THEN h[i] ELSE body[i - Len(h)]
    BY <1>2, ConcatProperties, Zenon
  <2>2. Len(body) \in Nat
    BY LenProperties, Zenon
  <2>3. 1 \in 1 .. Len(h) + Len(body) /\ 1 <= Len(h)
    BY <1>6, <2>2
  <2> QED
    BY <1>6, <1>8, <2>1, <2>3, Zenon
<1> QED
  BY <1>2, <1>3, <1>8, <1>9, <1>10, <1>11, Zenon DEF s

(* A request behind a header is read by it. *)
LEMMA HeadedDecode ==
  ASSUME NEW op \in DOMAIN OpCodes, NEW xid \in Int, xid # 0, NEW body \in Seq(Tokens),
         NEW f, f = Header(xid, op) \o body, Width(f) <= MaxFrameLength
  PROVE  /\ f \in Seq(Tokens)
         /\ decode(f) = DecodeHeadedRequest([st |-> "ok", val |-> <<xid, OpCodes[op]>>, rest |-> body])
<1>1. /\ f \in Seq(Tokens) /\ f[1] = Token(4, xid) /\ ~(Width(f) < 4 + 4)
      /\ Deserialize(RequestHeader, f) = [st |-> "ok", val |-> <<xid, OpCodes[op]>>, rest |-> body]
  BY HeaderFirst, Zenon
<1>2. f[1] # Token(4, XidCodes.ConnectXid)
  <2>1. XidCodes.ConnectXid = 0
    BY DEF XidCodes
  <2>2. Token(4, xid).v = xid /\ Token(4, 0).v = 0
    BY TokensAre
  <2> QED
    BY <1>1, <2>1, <2>2, Zenon
<1>3. ~(Width(f) > MaxFrameLength)
  <2>1. Width(f) \in Nat
    BY <1>1, WidthsAre, Zenon
  <2> QED
    BY <2>1, MaxFrameLengthAssumption
<1>4. decode(f) = DecodeHeadedRequest(Deserialize(RequestHeader, f))
  BY <1>1, <1>2, <1>3, Zenon DEF decode, DecodeInner
<1> QED
  BY <1>1, <1>4, Zenon

\* The packet p of a request, and that it is all of the frame f
ReadOf(p, xid, op, v, body, assertEmpty) ==
  p = Packet(<<xid, OpCodes[op]>>, v, DeserializeRequest(v, body), assertEmpty)
ReadToItsEnd(v, body) ==
  DeserializeRequest(v, body).st = "ok" /\ DeserializeRequest(v, body).rest = <<>>
IsAllOf(p, f) == p.st = "ok" /\ (p.variant # "Connect" => SerializePacket(p) = f)

(* A request whose record is read to the end of the frame. *)
LEMMA HeadedReadWhole ==
  ASSUME NEW op \in DOMAIN OpCodes, NEW xid \in Int, NEW body \in Seq(Tokens),
         NEW f, f = Header(xid, op) \o body,
         NEW v \in (DOMAIN RequestRecord \ {"Connect"}) \cup {"Multi"}, NEW assertEmpty,
         ReadToItsEnd(v, body), NEW p, ReadOf(p, xid, op, v, body, assertEmpty)
  PROVE  IsAllOf(p, f)
<1> DEFINE header == <<xid, OpCodes[op]>>
           g == DeserializeRequest(v, body)
<1>1. p.st = "ok"
  <2>1. p = Packet(header, v, g, assertEmpty) /\ g.st = "ok" /\ g.rest = <<>>
    BY Zenon DEF ReadOf, ReadToItsEnd
  <2> HIDE DEF g, header
  <2> QED
    BY <2>1, PacketIs
<1>2. OpCodes[op] \in Int
  BY OpCodesAre, Zenon
<1>3. WrittenAs(RequestHeader, header, Header(xid, op))
  <2>1. "i32" \in ScalarFields /\ ScalarWidth["i32"] = 4
    BY DEF ScalarFields, ScalarWidth
  <2>2. WiredAs(RequestHeader, <<"i32", "i32">>)
    BY DEF RequestHeader, Record, WiredAs
  <2>3. WrittenAs(RequestHeader, <<xid, OpCodes[op]>>, <<Token(4, xid), Token(4, OpCodes[op])>>)
    BY <1>2, <2>1, <2>2, TwoNumbers, Zenon
  <2> QED
    BY <2>3, Zenon DEF Header
<1>4. header \in RowsIn(RequestHeader) /\ f = Serialize(RequestHeader, header) \o body
  BY <1>3, Zenon DEF WrittenAs
<1>5. Forwarded(f, p, g.rest)
  <2> HIDE DEF header
  <2>1. p = Packet(header, v, DeserializeRequest(v, body), assertEmpty)
    BY Zenon DEF header, ReadOf
  <2> QED
    BY <1>1, <1>4, <2>1, HeadedForwarded, Zenon
<1>6. SerializePacket(p) \in Seq(Tokens) /\ f = SerializePacket(p) \o <<>>
  BY <1>5, Zenon DEF Forwarded, ReadToItsEnd
<1> QED
  BY <1>1, <1>6, ConcatEmptySeq, Zenon DEF IsAllOf

(* What a client writes for an operation are the fields of the record it is read as. *)
LEMMA ClientFieldsAre ==
  \A op \in DOMAIN ClientFields \ Unsupported :
    /\ op \in DOMAIN OpCodes /\ op \in DOMAIN DataVariant /\ op # "Multi"
    /\ DataVariant[op] \in DOMAIN RequestRecord \ {"Connect", "Multi"}
    /\ RequestRecord[DataVariant[op]].wire = ClientFields[op]
<1>1. /\ CreateRequest.wire = <<"string", "buffer", "vec_acl", "i32">>
      /\ CreateTTLRequest.wire = <<"string", "buffer", "vec_acl", "i32", "i64">>
      /\ DeleteRequest.wire = <<"string", "i32">>
      /\ ExistsRequest.wire = <<"string", "u8">>
      /\ GetDataRequest.wire = <<"string", "u8">>
      /\ SetDataRequest.wire = <<"string", "buffer", "i32">>
      /\ GetACLRequest.wire = <<"string">>
      /\ SetACLRequest.wire = <<"string", "vec_acl", "i32">>
      /\ GetChildrenRequest.wire = <<"string", "u8">>
      /\ GetChildren2Request.wire = <<"string", "u8">>
      /\ SyncRequest.wire = <<"string">>
      /\ CheckWatchesRequest.wire = <<"string", "i32">>
      /\ AuthPacket.wire = <<"i32", "string", "buffer">>
      /\ SetWatches.wire = <<"i64", "vec_string", "vec_string", "vec_string">>
      /\ NoBody.wire = <<>>
  BY DEF CreateRequest, CreateTTLRequest, DeleteRequest, ExistsRequest, GetDataRequest,
         SetDataRequest, GetACLRequest, SetACLRequest, GetChildrenRequest, GetChildren2Request,
         SyncRequest, CheckWatchesRequest, AuthPacket, SetWatches, NoBody, Record
<1> DEFINE Ops == {"Create", "Create2", "CreateContainer", "CreateTtl", "Delete", "Exists",
                   "GetData", "SetData", "GetAcl", "SetAcl", "GetChildren", "GetChildren2",
                   "Sync", "CheckWatches", "SetAuth", "SetWatches", "Close", "WhoAmI"}
<1>2. DOMAIN ClientFields \ Unsupported \subseteq Ops
  BY DEF ClientFields, Unsupported
<1>3. Ops \subseteq DOMAIN OpCodes /\ Ops \subseteq DOMAIN DataVariant /\ "Multi" \notin Ops
  BY DEF OpCodes, DataVariant
<1>4. \A op \in Ops : DataVariant[op] \in DOMAIN RequestRecord \ {"Connect", "Multi"}
  BY DEF DataVariant, RequestRecord
<1>5. \A op \in Ops : RequestRecord[DataVariant[op]].wire = ClientFields[op]
  <2>1. /\ DataVariant["GetData"] = "GetData" /\ DataVariant["CreateTtl"] = "CreateTTL"
        /\ DataVariant["Create"] = "Create" /\ DataVariant["Create2"] = "Create"
        /\ DataVariant["CreateContainer"] = "Create" /\ DataVariant["SetData"] = "SetData"
        /\ DataVariant["GetChildren"] = "GetChildren"
           /\ DataVariant["GetChildren2"] = "GetChildren2"
        /\ DataVariant["Delete"] = "Delete" /\ DataVariant["Exists"] = "Exists"
        /\ DataVariant["GetAcl"] = "GetAcl" /\ DataVariant["SetAcl"] = "SetAcl"
        /\ DataVariant["Close"] = "Close" /\ DataVariant["SetAuth"] = "Auth"
        /\ DataVariant["SetWatches"] = "SetWatches"
           /\ DataVariant["CheckWatches"] = "CheckWatches"
        /\ DataVariant["WhoAmI"] = "Whoami" /\ DataVariant["Sync"] = "Sync"
    BY DEF DataVariant
  <2>2. /\ RequestRecord["Auth"] = AuthPacket /\ RequestRecord["Create"] = CreateRequest
        /\ RequestRecord["CreateTTL"] = CreateTTLRequest
           /\ RequestRecord["Delete"] = DeleteRequest
        /\ RequestRecord["Exists"] = ExistsRequest /\ RequestRecord["GetData"] = GetDataRequest
        /\ RequestRecord["SetData"] = SetDataRequest /\ RequestRecord["GetAcl"] = GetACLRequest
        /\ RequestRecord["SetAcl"] = SetACLRequest
           /\ RequestRecord["GetChildren"] = GetChildrenRequest
        /\ RequestRecord["GetChildren2"] = GetChildren2Request /\ RequestRecord["Whoami"] = NoBody
        /\ RequestRecord["Close"] = NoBody /\ RequestRecord["SetWatches"] = SetWatches
        /\ RequestRecord["CheckWatches"] = CheckWatchesRequest
           /\ RequestRecord["Sync"] = SyncRequest
    BY DEF RequestRecord
  <2>3. /\ ClientFields["GetData"] = <<"string", "u8">>
        /\ ClientFields["CreateTtl"] = <<"string", "buffer", "vec_acl", "i32", "i64">>
        /\ ClientFields["Create"] = <<"string", "buffer", "vec_acl", "i32">>
        /\ ClientFields["Create2"] = <<"string", "buffer", "vec_acl", "i32">>
        /\ ClientFields["CreateContainer"] = <<"string", "buffer", "vec_acl", "i32">>
        /\ ClientFields["SetData"] = <<"string", "buffer", "i32">>
        /\ ClientFields["GetChildren"] = <<"string", "u8">>
        /\ ClientFields["GetChildren2"] = <<"string", "u8">>
        /\ ClientFields["Delete"] = <<"string", "i32">>
        /\ ClientFields["Exists"] = <<"string", "u8">>
        /\ ClientFields["GetAcl"] = <<"string">>
        /\ ClientFields["SetAcl"] = <<"string", "vec_acl", "i32">>
        /\ ClientFields["Close"] = <<>>
        /\ ClientFields["SetAuth"] = <<"i32", "string", "buffer">>
        /\ ClientFields["SetWatches"] = <<"i64", "vec_string", "vec_string", "vec_string">>
        /\ ClientFields["CheckWatches"] = <<"string", "i32">>
        /\ ClientFields["WhoAmI"] = <<>>
        /\ ClientFields["Sync"] = <<"string">>
    BY DEF ClientFields
  <2>4. RequestRecord[DataVariant["GetData"]].wire = ClientFields["GetData"]
    BY <1>1, <2>1, <2>2, <2>3, Zenon
  <2>5. RequestRecord[DataVariant["CreateTtl"]].wire = ClientFields["CreateTtl"]
    BY <1>1, <2>1, <2>2, <2>3, Zenon
  <2>6. RequestRecord[DataVariant["Create"]].wire = ClientFields["Create"]
    BY <1>1, <2>1, <2>2, <2>3, Zenon
  <2>7. RequestRecord[DataVariant["Create2"]].wire = ClientFields["Create2"]
    BY <1>1, <2>1, <2>2, <2>3, Zenon
  <2>8. RequestRecord[DataVariant["CreateContainer"]].wire = ClientFields["CreateContainer"]
    BY <1>1, <2>1, <2>2, <2>3, Zenon
  <2>9. RequestRecord[DataVariant["SetData"]].wire = ClientFields["SetData"]
    BY <1>1, <2>1, <2>2, <2>3, Zenon
  <2>10. RequestRecord[DataVariant["GetChildren"]].wire = ClientFields["GetChildren"]
    BY <1>1, <2>1, <2>2, <2>3, Zenon
  <2>11. RequestRecord[DataVariant["GetChildren2"]].wire = ClientFields["GetChildren2"]
    BY <1>1, <2>1, <2>2, <2>3, Zenon
  <2>12. RequestRecord[DataVariant["Delete"]].wire = ClientFields["Delete"]
    BY <1>1, <2>1, <2>2, <2>3, Zenon
  <2>13. RequestRecord[DataVariant["Exists"]].wire = ClientFields["Exists"]
    BY <1>1, <2>1, <2>2, <2>3, Zenon
  <2>14. RequestRecord[DataVariant["GetAcl"]].wire = ClientFields["GetAcl"]
    BY <1>1, <2>1, <2>2, <2>3, Zenon
  <2>15. RequestRecord[DataVariant["SetAcl"]].wire = ClientFields["SetAcl"]
    BY <1>1, <2>1, <2>2, <2>3, Zenon
  <2>16. RequestRecord[DataVariant["Close"]].wire = ClientFields["Close"]
    BY <1>1, <2>1, <2>2, <2>3, Zenon
  <2>17. RequestRecord[DataVariant["SetAuth"]].wire = ClientFields["SetAuth"]
    BY <1>1, <2>1, <2>2, <2>3, Zenon
  <2>18. RequestRecord[DataVariant["SetWatches"]].wire = ClientFields["SetWatches"]
    BY <1>1, <2>1, <2>2, <2>3, Zenon
  <2>19. RequestRecord[DataVariant["CheckWatches"]].wire = ClientFields["CheckWatches"]
    BY <1>1, <2>1, <2>2, <2>3, Zenon
  <2>20. RequestRecord[DataVariant["WhoAmI"]].wire = ClientFields["WhoAmI"]
    BY <1>1, <2>1, <2>2, <2>3, Zenon
  <2>21. RequestRecord[DataVariant["Sync"]].wire = ClientFields["Sync"]
    BY <1>1, <2>1, <2>2, <2>3, Zenon
  <2> QED
    BY <2>4, <2>5, <2>6, <2>7, <2>8, <2>9, <2>10, <2>11, <2>12, <2>13,
       <2>14, <2>15, <2>16, <2>17, <2>18, <2>19, <2>20, <2>21, Zenon
<1> HIDE DEF Ops
<1> QED
  BY <1>2, <1>3, <1>4, <1>5, Zenon

(* The record of a request is read to its end. *)
LEMMA BodyRead ==
  ASSUME NEW v \in DOMAIN RequestRecord \ {"Connect", "Multi"}, NEW fs, RequestRecord[v].wire = fs,
         NEW b \in Images(fs)
  PROVE  b \in Seq(Tokens) /\ ReadToItsEnd(v, b)
<1> DEFINE R == RequestRecord[v]
           g == DeserializeRequest(v, b)
<1>1. v \in DOMAIN RequestRecord /\ v # "Connect" /\ v # "Multi"
  OBVIOUS
<1>2. R.wire \in Seq(Fields) /\ R.wire = fs
  BY <1>1, RequestsFit, Zenon DEF Fits
<1>3. g = Deserialize(R, b)
  BY <1>1, Zenon DEF DeserializeRequest
<1> HIDE DEF R
<1>4. PICK row \in RowsOf(R.wire) : b = ImageOf(R.wire, row)
  BY <1>2, Zenon DEF Images
<1>5. <<>> \in Seq(Tokens)
  BY EmptyFacts, Zenon
<1>6. b \in Seq(Tokens) /\ Deserialize(R, b \o <<>>) = [st |-> "ok", val |-> row, rest |-> <<>>]
  BY <1>2, <1>4, <1>5, ImageReadBack, Zenon
<1>7. b \o <<>> = b
  BY <1>6, ConcatEmptySeq, Zenon
<1> HIDE DEF g
<1>8. g = [st |-> "ok", val |-> row, rest |-> <<>>]
  BY <1>3, <1>6, <1>7, Zenon
<1>9. g.st = "ok" /\ g.rest = <<>>
  BY <1>8
<1> QED
  BY <1>6, <1>9, Zenon DEF g, ReadToItsEnd

(* The request of an operation is read to its end, and written as it was. *)
LEMMA DataReadWhole ==
  ASSUME NEW op \in DOMAIN ClientFields \ Unsupported, NEW xid \in Xids, NEW b \in Images(ClientFields[op]),
         NEW f, f = Header(xid, op) \o b, Width(f) <= MaxFrameLength
  PROVE  f \in Seq(Tokens) /\ ReadWhole(f)
<1> DEFINE v == DataVariant[op]
           n == OpCodes[op]
           header == <<xid, n>>
           h == [st |-> "ok", val |-> header, rest |-> b]
           p == decode(f)
<1>1. /\ op \in DOMAIN OpCodes /\ op \in DOMAIN DataVariant /\ op # "Multi"
      /\ v \in DOMAIN RequestRecord \ {"Connect", "Multi"}
      /\ RequestRecord[v].wire = ClientFields[op]
  BY ClientFieldsAre, Zenon
<1>2. xid \in Int /\ xid \notin {0, -2, -4, -8}
  BY ProtocolAssumption, Zenon
<1>3. xid # 0 /\ xid \notin DOMAIN ControlVariant
  <2>1. xid # 0 /\ xid \notin {-2, -4, -8}
    BY <1>2
  <2> QED
    BY <2>1, ControlsAre, Zenon
<1> HIDE DEF v
<1>4. b \in Seq(Tokens) /\ ReadToItsEnd(v, b)
  BY <1>1, BodyRead, Zenon
<1>5. f \in Seq(Tokens) /\ p = DecodeHeadedRequest(h)
  BY <1>1, <1>2, <1>3, <1>4, HeadedDecode, Zenon
<1>6. /\ n \in Int /\ ValidOpCode(n) /\ OpCodeOf(n) = op /\ n # OpCodes.Multi
  <2>1. "Multi" \in DOMAIN OpCodes
    BY DEF OpCodes
  <2>2. OpCodeOf(OpCodes["Multi"]) = "Multi" /\ OpCodeOf(n) = op
          /\ OpCodes.Multi = OpCodes["Multi"]
    BY <1>1, <2>1, OpCodesAre, Zenon
  <2> QED
    BY <1>1, <2>2, OpCodesAre, Zenon
<1>7. header[1] = xid /\ header[2] = n
  OBVIOUS
<1> HIDE DEF header, n
<1>8. h.st = "ok" /\ h.val = header /\ h.rest = b
  OBVIOUS
<1> HIDE DEF h, p
<1>9. p = DecodeData(header, b)
  BY <1>3, <1>5, <1>7, <1>8, Zenon DEF DecodeHeadedRequest
<1>10. p = Packet(header, v, DeserializeRequest(v, b), v \in AssertsEmpty)
  BY <1>1, <1>6, <1>7, <1>9, Zenon DEF DecodeData, v
<1>11. v \in (DOMAIN RequestRecord \ {"Connect"}) \cup {"Multi"}
  BY <1>1
<1>12. ReadOf(p, xid, op, v, b, v \in AssertsEmpty)
  BY <1>10, Zenon DEF header, n, ReadOf
<1>13. IsAllOf(p, f)
  BY <1>1, <1>2, <1>4, <1>11, <1>12, HeadedReadWhole, Zenon
<1> QED
  BY <1>5, <1>13, Zenon DEF ReadWhole, p, IsAllOf

(* So is a control request. *)
LEMMA ControlReadWhole ==
  ASSUME NEW op \in DOMAIN OpCodes, NEW xid \in DOMAIN ControlVariant, NEW fs, NEW b \in Images(fs),
         RequestRecord[ControlVariant[xid]].wire = fs,
         NEW f, f = Header(xid, op) \o b, Width(f) <= MaxFrameLength
  PROVE  f \in Seq(Tokens) /\ ReadWhole(f)
<1> DEFINE v == ControlVariant[xid]
           header == <<xid, OpCodes[op]>>
           h == [st |-> "ok", val |-> header, rest |-> b]
           p == decode(f)
<1>1. v \in DOMAIN RequestRecord \ {"Connect", "Multi"}
  BY ControlsAre, Zenon
<1>2. xid \in Int /\ xid # 0
  <2>1. xid \in {-2, -4, -8}
    BY ControlsAre, Zenon
  <2> QED
    BY <2>1
<1> HIDE DEF v
<1>3. RequestRecord[v].wire = fs
  BY Zenon DEF v
<1>4. b \in Seq(Tokens) /\ ReadToItsEnd(v, b)
  BY <1>1, <1>3, BodyRead, Zenon
<1>5. f \in Seq(Tokens) /\ p = DecodeHeadedRequest(h)
  BY <1>2, <1>4, HeadedDecode, Zenon
<1>6. header[1] = xid
  OBVIOUS
<1> HIDE DEF header
<1>7. h.st = "ok" /\ h.val = header /\ h.rest = b
  OBVIOUS
<1> HIDE DEF h, p
<1>8. p = DecodeControl(header, v, b)
  BY <1>5, <1>6, <1>7, Zenon DEF DecodeHeadedRequest, v
<1>9. v # "Multi"
  BY <1>1
<1>10. p = Packet(header, v, DeserializeRequest(v, b), TRUE)
  BY <1>8, <1>9, Zenon DEF DecodeControl, DeserializeRequest
<1>11. v \in (DOMAIN RequestRecord \ {"Connect"}) \cup {"Multi"}
  BY <1>1
<1>12. ReadOf(p, xid, op, v, b, TRUE)
  BY <1>10, Zenon DEF header, ReadOf
<1>13. IsAllOf(p, f)
  BY <1>2, <1>4, <1>11, <1>12, HeadedReadWhole, Zenon
<1> QED
  BY <1>5, <1>13, Zenon DEF ReadWhole, p, IsAllOf

(* A record is no shorter than its fields of a fixed width. *)
LEMMA SizeAtLeast ==
  ASSUME NEW R, Fits(Fields, R), NEW row \in RowsIn(R)
  PROVE  Width(Serialize(R, row)) >= R.fixed /\ R.fixed \in Nat
<1> DEFINE n == Len(R.wire)
           T == [i \in DOMAIN R.wire |-> IF i \in R.sized THEN FieldSize(R.wire[i], row[i]) ELSE 0]
<1>1. R.wire \in Seq(Fields) /\ WellSized(R)
  BY Zenon DEF Fits
<1>2. n \in Nat /\ DOMAIN R.wire = 1 .. n /\ \A i \in 1 .. n : R.wire[i] \in Fields
  BY <1>1, LenProperties, ElementOfSeq, Zenon
<1>3. \A i \in 1 .. n : row[i] \in FieldSet(R.wire[i])
  BY <1>1, RecPutIs, Zenon DEF RowsIn
<1>4. R.wire \in Seq(WireFields) /\ "read_only" \notin Fields /\ Fields \subseteq WireFields
  <2>1. Fields \subseteq WireFields
    BY Zenon DEF WireFields
  <2> QED
    BY <1>1, <2>1, WidthsOfFields, SeqMonotonic
<1> HIDE DEF n
<1>5. ASSUME NEW i \in 1 .. n, i \in R.sized
      PROVE  FieldSize(R.wire[i], row[i]) \in Nat
  <2>1. Varies(R.wire[i])
    BY <1>1, <1>5, Zenon DEF WellSized
  <2>2. R.wire[i] \in WireFields /\ row[i] \in WireSet(R.wire[i])
    BY <1>2, <1>3, <1>4, Zenon DEF WireSet
  <2> QED
    BY <2>1, <2>2, FieldWidth, Zenon
<1>6. T \in [1 .. n -> Nat]
  <2>1. 0 \in Nat
    OBVIOUS
  <2>2. \A i \in 1 .. n : T[i] \in Nat
    BY <1>2, <1>5, <2>1, Zenon
  <2>3. T = [i \in 1 .. n |-> T[i]]
    BY <1>2, Zenon
  <2> HIDE DEF T
  <2> QED
    BY <2>2, <2>3, Zenon
<1>7. Size(R, row) = R.fixed + Total(T)
  BY Zenon DEF Size
<1> HIDE DEF T
<1>8. T \in Seq(Nat)
  BY <1>2, <1>6
<1>9. Total(T) \in Nat
  BY <1>8, SumToIs, Zenon
<1>10. R.fixed \in Nat
  <2>1. FixedWidths(R.wire) \in Seq(Nat)
    BY <1>4, FixedWidthsAre, Zenon
  <2> QED
    BY <1>1, <2>1, SumToIs, Zenon DEF WellSized
<1>11. Width(Serialize(R, row)) = Size(R, row)
  BY RowIs, Zenon
<1> QED
  BY <1>7, <1>9, <1>10, <1>11

(* A connect request or reply, of a client or a server that knows of read_only or does not, is
   read. *)
LEMMA ConnectingIsRead ==
  ASSUME NEW R, NEW B, NEW A, EndsInReadOnly(R, B), WiredAs(B, <<"i32">> \o A.wire),
         Fits(Fields, A), NEW f \in Connecting(A.wire)
  PROVE  /\ f \in Seq(Tokens) /\ f[1] = Token(4, 0) /\ A.fixed \in Nat
         /\ Width(f) >= 4 + A.fixed
         /\ Deserialize(R, f).st = "ok"
<1>0. PICK b \in Images(A.wire), r \in Endings : f = <<Token(4, 0)>> \o b \o r
  BY DEF Connecting
<1>a. A.wire \in Seq(Fields)
  BY Zenon DEF Fits
<1> DEFINE t == Token(4, 0)
           s == <<t>> \o b
<1>1. t \in Tokens /\ t.w = 4 /\ <<t>> \in Seq(Tokens)
  BY TokensAre, WidthOfFew
<1>2. r \in Seq(Tokens) /\ ~(Width(r) > 1) /\ Width(r) \in Nat
  <2>1. \A v \in Int : Token(1, v) \in Tokens /\ Token(1, v).w = 1
    BY TokensAre
  <2>2. \A v \in Int : <<Token(1, v)>> \in Seq(Tokens) /\ Width(<<Token(1, v)>>) = 1
    BY <2>1, WidthOfFew, Zenon
  <2>3. <<>> \in Seq(Tokens) /\ Width(<<>>) = 0
    BY EmptyFacts, WidthOfFew, Zenon
  <2>4. 0 \in Int /\ 1 \in Int
    OBVIOUS
  <2>5. r \in Seq(Tokens) /\ (Width(r) = 1 \/ Width(r) = 0)
    BY <2>2, <2>3, <2>4, Zenon DEF Endings
  <2> QED
    BY <2>5
<1>3. PICK row \in RowsOf(A.wire) : b = ImageOf(A.wire, row)
  BY Zenon DEF Images
<1> DEFINE val == <<0>> \o row
<1>4. WrittenAs(B, val, s)
  <2>1. 0 \in Int
    OBVIOUS
  <2>2. WrittenAs(B, <<0>> \o row, <<Token(4, 0)>> \o ImageOf(A.wire, row))
    BY <1>a, <2>1, NumberFirst, Zenon
  <2> QED
    BY <1>3, <2>2, Zenon
<1>5. b \in Seq(Tokens)
  <2>1. <<>> \in Seq(Tokens)
    BY EmptyFacts, Zenon
  <2> QED
    BY <1>a, <1>3, <2>1, ImageReadBack, Zenon
<1> HIDE DEF t, val
<1>6. Width(s) = 4 + Width(b) /\ s \in Seq(Tokens) /\ Width(b) \in Nat
  <2>1. Width(s) = t.w + Width(b) /\ s \in Seq(Tokens) /\ Width(b) \in Nat
    BY <1>1, <1>5, TokenFirst, Zenon
  <2> QED
    BY <1>1, <2>1, Zenon
<1>7. Len(s) \in Nat /\ Len(s) >= 1 /\ s[1] = t
  <2>1. Len(s) = 1 + Len(b) /\ Len(b) \in Nat /\ s[1] = t
    BY <1>1, <1>5, Prepended
  <2> QED
    BY <2>1
<1>8. f = s \o r
  BY <1>0, Zenon DEF t
<1> HIDE DEF s
<1>9. Width(f) = Width(s) + Width(r) /\ f \in Seq(Tokens)
  BY <1>2, <1>6, <1>8, WidthOfConcat, Zenon
<1>10. Width(f) >= 4 + Width(b)
  BY <1>2, <1>6, <1>9
<1>11. f[1] = t
  <2>1. \A i \in 1 .. Len(s) + Len(r) : (s \o r)[i] = IF i <= Len(s) THEN s[i] ELSE r[i - Len(s)]
    BY <1>2, <1>6, ConcatProperties, Zenon
  <2>2. Len(r) \in Nat
    BY <1>2, LenProperties, Zenon
  <2>3. 1 \in 1 .. Len(s) + Len(r) /\ 1 <= Len(s)
    BY <1>7, <2>2
  <2> QED
    BY <1>7, <1>8, <2>1, <2>3, Zenon
<1>12. val \in RowsIn(B) /\ f = Serialize(B, val) \o r
  BY <1>4, <1>8, Zenon DEF WrittenAs
<1>13. Deserialize(R, f).st = "ok"
  <2>1. \A v \in RowsIn(B), rest \in Seq(Tokens) :
          f = Serialize(B, v) \o rest /\ ~(Width(rest) > 1) => Deserialize(R, f).st = "ok"
    BY <1>9, ConnectRead
  <2> QED
    BY <1>2, <1>12, <2>1, Zenon
<1>14. Width(b) >= A.fixed /\ A.fixed \in Nat
  <2>1. row \in RowsIn(A) /\ b = Serialize(A, row)
    BY <1>a, <1>3, RowsOfRecord, Zenon DEF RowsIn
  <2> QED
    BY <2>1, SizeAtLeast, Zenon
<1>15. Width(f) >= 4 + A.fixed
  BY <1>2, <1>6, <1>9, <1>14
<1> QED
  BY <1>9, <1>11, <1>13, <1>14, <1>15, Zenon DEF t

(* A connect request is read, however its sender ends it. *)
LEMMA ConnectReadWhole ==
  ASSUME NEW f \in ConnectFrames, Width(f) <= MaxFrameLength
  PROVE  f \in Seq(Tokens) /\ ReadWhole(f)
<1> DEFINE A == Record(<<"i64", "i32", "i64", "buffer">>, 8 + 4 + 8, {4})
           B == ConnectFields
           R == ConnectRequest
           fs == <<"i64", "i32", "i64", "buffer">>
           g == Deserialize(R, f)
           p == decode(f)
<1>1. A.wire = fs /\ A.fixed = 8 + 4 + 8 /\ A.sized = {4}
  BY DEF Record
<1>2. Fits(Fields, A)
  <2> HIDE DEF A
  <2>1. /\ A.wire \in Seq(Fields) /\ Len(A.wire) = 4 /\ A.wire[1] = "i64" /\ A.wire[2] = "i32"
        /\ A.wire[3] = "i64" /\ A.wire[4] = "buffer"
    BY <1>1, WidthsOfFields
  <2>2. Fields \subseteq WireFields
    BY Zenon DEF WireFields
  <2>3. A.fixed = FixedWidth(A.wire[1]) + FixedWidth(A.wire[2]) + FixedWidth(A.wire[3]) + FixedWidth(A.wire[4])
    BY <1>1, <2>1, WidthsOfFields
  <2>4. /\ 1 \in A.sized <=> Varies(A.wire[1])
        /\ 2 \in A.sized <=> Varies(A.wire[2])
        /\ 3 \in A.sized <=> Varies(A.wire[3])
        /\ 4 \in A.sized <=> Varies(A.wire[4])
        /\ A.sized \subseteq 1 .. 4
    BY <1>1, <2>1, WidthsOfFields
  <2> QED
    BY <2>1, <2>2, <2>3, <2>4, FourFit, Zenon
<1>3. WiredAs(B, <<"i32">> \o A.wire)
  <2> DEFINE e == "i32"
             x == <<e>> \o fs
             y == <<"i32", "i64", "i32", "i64", "buffer">>
             S == {"i32", "i64", "buffer"}
  <2>1. fs \in Seq(S) /\ Len(fs) = 4
    OBVIOUS
  <2>2. /\ y \in Seq(S) /\ Len(y) = 5 /\ y[1] = e /\ y[2] = fs[1] /\ y[3] = fs[2]
        /\ y[4] = fs[3] /\ y[5] = fs[4] /\ e \in S
    OBVIOUS
  <2>8. B.wire = y
    BY DEF y, ConnectFields, Record
  <2> HIDE DEF fs, y, S, e
  <2>4. x \in Seq(S) /\ Len(x) = 1 + Len(fs) /\ x[1] = e
          /\ \A j \in 1 .. Len(fs) : x[1 + j] = fs[j]
    <3>1. fs \in Seq(S) /\ e \in S
      BY <2>1, <2>2, Zenon
    <3> QED
      BY <3>1, Prepended
  <2> HIDE DEF x
  <2>5. Len(x) = 5 /\ x[1] = e /\ x[2] = fs[1] /\ x[3] = fs[2] /\ x[4] = fs[3] /\ x[5] = fs[4]
    BY <2>1, <2>4
  <2>6. \A i \in 1 .. 5 : x[i] = y[i]
    BY <2>2, <2>5
  <2>7. x = y
    BY <2>2, <2>4, <2>5, <2>6, SeqEqual
  <2> QED
    BY <1>1, <2>7, <2>8, Zenon DEF WiredAs, x, e
<1>4. f \in Connecting(A.wire)
  BY <1>1, Zenon DEF ConnectFrames
<1>5. EndsInReadOnly(R, B)
  BY ConnectEnds, Zenon
<1> HIDE DEF A, B, R, fs
<1>7. /\ f \in Seq(Tokens) /\ f[1] = Token(4, 0) /\ A.fixed \in Nat
      /\ Width(f) >= 4 + A.fixed /\ Deserialize(R, f).st = "ok"
  BY <1>2, <1>3, <1>4, <1>5, ConnectingIsRead, Zenon
<1>9. Width(f) \in Nat
  BY <1>7, WidthsAre, Zenon
<1>10. ~(Width(f) < 4 + 4) /\ ~(Width(f) > MaxFrameLength)
  BY <1>1, <1>7, <1>9, MaxFrameLengthAssumption
<1>11. XidCodes.ConnectXid = 0
  BY DEF XidCodes
<1>12. p = Packet(<<>>, "Connect", g, FALSE)
  BY <1>7, <1>10, <1>11, Zenon DEF decode, DecodeInner, R
<1>13. g.st = "ok"
  BY <1>7, Zenon
<1> HIDE DEF g, p
<1>14. p = [st |-> "ok", header |-> <<>>, variant |-> "Connect", val |-> g.val]
  BY <1>12, <1>13, Zenon DEF Packet
<1>15. PacketOf(p, <<>>, "Connect", g.val)
  BY <1>14, PacketFields, Zenon
<1>16. p.st = "ok"
  BY <1>14, Zenon
<1> QED
  BY <1>7, <1>15, <1>16, Zenon DEF ReadWhole, PacketOf, p

(* What a client writes for an operation of a multi are the fields of the record it is read as. *)
LEMMA MultiFieldsAre ==
  \A op \in DOMAIN MultiFields :
    /\ op \in DOMAIN OpCodes /\ op \in DOMAIN MultiVariant
    /\ MultiVariant[op] \in DOMAIN RequestRecord \ {"Connect"}
    /\ RequestRecord[MultiVariant[op]].wire = MultiFields[op]
<1>1. /\ CreateRequest.wire = <<"string", "buffer", "vec_acl", "i32">>
      /\ CreateTTLRequest.wire = <<"string", "buffer", "vec_acl", "i32", "i64">>
      /\ DeleteRequest.wire = <<"string", "i32">>
      /\ GetDataRequest.wire = <<"string", "u8">>
      /\ SetDataRequest.wire = <<"string", "buffer", "i32">>
      /\ GetChildrenRequest.wire = <<"string", "u8">>
      /\ CheckWatchesRequest.wire = <<"string", "i32">>
  BY DEF CreateRequest, CreateTTLRequest, DeleteRequest, GetDataRequest, SetDataRequest,
         GetChildrenRequest, CheckWatchesRequest, Record
<1> DEFINE Ops == {"Create", "Create2", "CreateContainer", "CreateTtl", "Delete", "SetData",
                   "Check", "GetData", "GetChildren"}
<1>2. DOMAIN MultiFields \subseteq Ops
  BY DEF MultiFields
<1>3. Ops \subseteq DOMAIN OpCodes /\ Ops \subseteq DOMAIN MultiVariant
  BY DEF OpCodes, MultiVariant
<1>4. \A op \in Ops : MultiVariant[op] \in DOMAIN RequestRecord \ {"Connect"}
  BY DEF MultiVariant, RequestRecord
<1>5. \A op \in Ops : RequestRecord[MultiVariant[op]].wire = MultiFields[op]
  <2>1. /\ MultiVariant["Create"] = "Create" /\ MultiVariant["Create2"] = "Create"
        /\ MultiVariant["CreateContainer"] = "Create" /\ MultiVariant["CreateTtl"] = "CreateTTL"
        /\ MultiVariant["Delete"] = "Delete" /\ MultiVariant["SetData"] = "SetData"
        /\ MultiVariant["Check"] = "CheckWatches" /\ MultiVariant["GetData"] = "GetData"
        /\ MultiVariant["GetChildren"] = "GetChildren"
    BY DEF MultiVariant
  <2>2. /\ RequestRecord["Create"] = CreateRequest
           /\ RequestRecord["CreateTTL"] = CreateTTLRequest
        /\ RequestRecord["Delete"] = DeleteRequest /\ RequestRecord["SetData"] = SetDataRequest
        /\ RequestRecord["CheckWatches"] = CheckWatchesRequest
        /\ RequestRecord["GetData"] = GetDataRequest
        /\ RequestRecord["GetChildren"] = GetChildrenRequest
    BY DEF RequestRecord
  <2>3. /\ MultiFields["Create"] = <<"string", "buffer", "vec_acl", "i32">>
        /\ MultiFields["Create2"] = <<"string", "buffer", "vec_acl", "i32">>
        /\ MultiFields["CreateContainer"] = <<"string", "buffer", "vec_acl", "i32">>
        /\ MultiFields["CreateTtl"] = <<"string", "buffer", "vec_acl", "i32", "i64">>
        /\ MultiFields["Delete"] = <<"string", "i32">>
        /\ MultiFields["SetData"] = <<"string", "buffer", "i32">>
        /\ MultiFields["Check"] = <<"string", "i32">>
        /\ MultiFields["GetData"] = <<"string", "u8">>
        /\ MultiFields["GetChildren"] = <<"string", "u8">>
    BY DEF MultiFields
  <2>4. RequestRecord[MultiVariant["Create"]].wire = MultiFields["Create"]
    BY <1>1, <2>1, <2>2, <2>3, Zenon
  <2>5. RequestRecord[MultiVariant["Create2"]].wire = MultiFields["Create2"]
    BY <1>1, <2>1, <2>2, <2>3, Zenon
  <2>6. RequestRecord[MultiVariant["CreateContainer"]].wire = MultiFields["CreateContainer"]
    BY <1>1, <2>1, <2>2, <2>3, Zenon
  <2>7. RequestRecord[MultiVariant["CreateTtl"]].wire = MultiFields["CreateTtl"]
    BY <1>1, <2>1, <2>2, <2>3, Zenon
  <2>8. RequestRecord[MultiVariant["Delete"]].wire = MultiFields["Delete"]
    BY <1>1, <2>1, <2>2, <2>3, Zenon
  <2>9. RequestRecord[MultiVariant["SetData"]].wire = MultiFields["SetData"]
    BY <1>1, <2>1, <2>2, <2>3, Zenon
  <2>10. RequestRecord[MultiVariant["Check"]].wire = MultiFields["Check"]
    BY <1>1, <2>1, <2>2, <2>3, Zenon
  <2>11. RequestRecord[MultiVariant["GetData"]].wire = MultiFields["GetData"]
    BY <1>1, <2>1, <2>2, <2>3, Zenon
  <2>12. RequestRecord[MultiVariant["GetChildren"]].wire = MultiFields["GetChildren"]
    BY <1>1, <2>1, <2>2, <2>3, Zenon
  <2> QED
    BY <2>4, <2>5, <2>6, <2>7, <2>8, <2>9, <2>10, <2>11, <2>12, Zenon
<1> QED
  BY <1>2, <1>3, <1>4, <1>5, Zenon

\* The loop of a multi is at `rest`
LoopAt(m, rest) == m.st = "loop" /\ m.rest = rest
PartBehind(m, op, row, rest) ==
  m.st = "loop" /\ m.rest = MultiPart(op, row) \o rest

(* The loop reads an operation that a client may put in a multi, and goes on behind it. *)
LEMMA PartRead ==
  ASSUME NEW op \in DOMAIN MultiFields, NEW row \in RowsOf(MultiFields[op]),
         NEW rest \in Seq(Tokens), NEW m, PartBehind(m, op, row, rest)
  PROVE  /\ LoopAt(MultiTurn(m), rest)
         /\ MultiPart(op, row) \in Seq(Tokens) /\ Len(MultiPart(op, row)) >= 1
<1> DEFINE v == MultiVariant[op]
           R == RequestRecord[v]
           n == OpCodes[op]
           head == <<Token(4, n), Token(1, 0), Token(4, -1)>>
           image == ImageOf(MultiFields[op], row)
           toks == image \o rest
           h == Deserialize(MultiHeader, head \o toks)
           header == <<n, 0, -1>>
           req == Deserialize(R, toks)
<1>1. /\ op \in DOMAIN OpCodes /\ op \in DOMAIN MultiVariant
      /\ v \in DOMAIN RequestRecord /\ v # "Connect" /\ R.wire = MultiFields[op]
  BY MultiFieldsAre
<1>2. R.wire \in Seq(Fields)
  BY <1>1, RequestsFit, Zenon DEF Fits
<1>3. n \in Int /\ ValidOpCode(n) /\ OpCodeOf(n) = op
  BY <1>1, OpCodesAre, Zenon
<1> HIDE DEF R, n
<1>4. image \in Seq(Tokens) /\ req = [st |-> "ok", val |-> row, rest |-> rest]
  BY <1>1, <1>2, ImageReadBack, Zenon
<1> HIDE DEF image
<1>5. toks \in Seq(Tokens)
  BY <1>4, ConcatProperties, Zenon
<1> HIDE DEF toks
<1>6. head \in Seq(Tokens) /\ h = [st |-> "ok", val |-> header, rest |-> toks]
  <2>1. 0 \in Int /\ -1 \in Int
    OBVIOUS
  <2> QED
    BY <1>3, <1>5, <2>1, HeadersRead, ZenonT(40)
<1>7. Len(head) = 3 /\ header[1] = n /\ header[2] = 0
  OBVIOUS
<1> HIDE DEF head, header, h, req
<1>8. h.st = "ok" /\ h.val = header /\ h.rest = toks
  BY <1>6
<1>9. req.st = "ok" /\ req.rest = rest
  BY <1>4
<1>10. MultiPart(op, row) = head \o image
  BY Zenon DEF MultiPart, MultiHead, head, image, n
<1>11. m.rest = head \o toks
  <2>1. Three(head, image, rest)
    BY <1>4, <1>6, TokensAssociate, Zenon
  <2>2. m.rest = (head \o image) \o rest
    BY <1>10, Zenon DEF PartBehind
  <2> QED
    BY <2>1, <2>2, Zenon DEF Three, toks
<1>12. MultiTurn(m) = MultiHeaderRead(m, h)
  BY <1>11, Zenon DEF MultiTurn, PartBehind, h
<1>13. 0 # 1
  OBVIOUS
<1>14. MultiHeaderRead(m, h) = MultiOp(m, header, v, req)
  BY <1>1, <1>3, <1>7, <1>8, <1>13, Zenon DEF MultiHeaderRead, R, req
<1> DEFINE g == [st |-> "loop", rest |-> req.rest, done_header |-> <<>>,
                 ops |-> Append(m.ops, [header |-> header, variant |-> v, val |-> req.val])]
<1>15. MultiTurn(m) = g
  BY <1>9, <1>12, <1>14, Zenon DEF MultiOp
<1>16. g.st = "loop" /\ g.rest = req.rest
  BY Zenon
<1> HIDE DEF g
<1>17. Len(head \o image) >= 1 /\ head \o image \in Seq(Tokens)
  <2>1. Len(head \o image) = Len(head) + Len(image) /\ head \o image \in Seq(Tokens)
    BY <1>4, <1>6, ConcatProperties, Zenon
  <2>2. Len(image) \in Nat
    BY <1>4, LenProperties, Zenon
  <2> QED
    BY <1>7, <2>1, <2>2
<1> QED
  BY <1>9, <1>10, <1>15, <1>16, <1>17, Zenon DEF LoopAt

(* The loop ends at the header that says it was the last. *)
LEMMA DoneRead ==
  ASSUME NEW m, LoopAt(m, MultiDone)
  PROVE  /\ MultiTurn(m).st = "ok" /\ MultiTurn(m).rest = <<>>
         /\ MultiDone \in Seq(Tokens)
<1> DEFINE h == Deserialize(MultiHeader, MultiDone)
           header == <<-1, 1, -1>>
<1>1. MultiDone \in Seq(Tokens)
        /\ Deserialize(MultiHeader, MultiDone \o <<>>) = [st |-> "ok", val |-> header, rest |-> <<>>]
  <2>1. 1 \in Int /\ -1 \in Int /\ <<>> \in Seq(Tokens)
    BY EmptyFacts
  <2> QED
    BY <2>1, HeadersRead, Zenon DEF MultiDone
<1>2. MultiDone \o <<>> = MultiDone
  BY <1>1, ConcatEmptySeq, Zenon
<1>3. header[2] = 1
  OBVIOUS
<1> HIDE DEF header, h
<1>4. h = [st |-> "ok", val |-> header, rest |-> <<>>]
  BY <1>1, <1>2, Zenon DEF h
<1>5. h.st = "ok" /\ h.val = header /\ h.rest = <<>>
  BY <1>4
<1>6. MultiTurn(m) = MultiHeaderRead(m, h)
  BY Zenon DEF MultiTurn, LoopAt, h
<1> DEFINE g == [st |-> "ok", rest |-> h.rest, done_header |-> h.val, ops |-> m.ops]
<1>7. MultiTurn(m) = g
  BY <1>3, <1>5, <1>6, Zenon DEF MultiHeaderRead
<1>8. g.st = "ok" /\ g.rest = h.rest
  BY Zenon
<1> QED
  BY <1>1, <1>5, <1>7, <1>8, Zenon

(* What a client puts into a multi is read by the loop. *)
LEMMA PartIs ==
  ASSUME NEW part \in MultiParts
  PROVE  /\ part \in Seq(Tokens) /\ Len(part) >= 1
         /\ \A rest \in Seq(Tokens) : \A m : LoopAt(m, part \o rest) => LoopAt(MultiTurn(m), rest)
<1>0. PICK op \in DOMAIN MultiFields : \E row \in OpRows[op] : part = MultiPart(op, row)
  BY Zenon DEF MultiParts
<1>1. PICK row \in OpRows[op] : part = MultiPart(op, row)
  BY <1>0, Zenon
<1>2. row \in RowsOf(MultiFields[op])
  BY OpRowsAssumption, Zenon
<1>3. ASSUME NEW m, NEW rest \in Seq(Tokens), LoopAt(m, part \o rest)
      PROVE  /\ LoopAt(MultiTurn(m), rest) /\ part \in Seq(Tokens) /\ Len(part) >= 1
  <2>1. PartBehind(m, op, row, rest)
    BY <1>1, <1>3, Zenon DEF PartBehind, LoopAt
  <2> QED
    BY <1>1, <1>2, <2>1, PartRead, Zenon
<1> DEFINE x == MultiLoop(part \o <<>>)
<1>4. x.st = "loop" /\ x.rest = part \o <<>>
  BY DEF MultiLoop
<1> HIDE DEF x
<1>5. <<>> \in Seq(Tokens) /\ LoopAt(x, part \o <<>>)
  BY <1>4, EmptyFacts, Zenon DEF LoopAt
<1> QED
  BY <1>3, <1>5, Zenon

(* They are those of the loop that begins with all of it to read. *)
LEMMA MultiTurnsFrom ==
  ASSUME NEW toks \in Seq(Tokens), NEW k \in Nat
  PROVE  TurnsFrom(MultiTurns(MultiLoop(toks), k), MultiLoop(toks), k)
<1>1. MultiLoop(toks) \in Accounted(toks)
  BY MultiStarts, Zenon
<1>2. \A x \in Accounted(toks) : MultiTurn(x) \in Accounted(toks)
  BY MultiTurnAccounts, Zenon
<1> QED
  BY <1>1, <1>2, MultiTurnsAre, Zenon

(* A multi of any number of operations is read to its end. *)
LEMMA PartsRead ==
  ASSUME NEW parts \in Seq(MultiParts)
  PROVE  LET body == FlattenSeq(parts) \o MultiDone
         IN  body \in Seq(Tokens) /\ ReadToItsEnd("Multi", body)
<1> DEFINE body == FlattenSeq(parts) \o MultiDone
           k == Len(parts)
           L == Len(body)
           N == L + 1
           M == MultiTurns(MultiLoop(body), N)
<1>1. k \in Nat /\ \A i \in 1 .. k : parts[i] \in MultiParts
  BY LenProperties, ElementOfSeq, Zenon
<1>2. MultiDone \in Seq(Tokens) /\ <<>> \in Seq(Tokens)
  <2> DEFINE x == MultiLoop(MultiDone)
  <2>1. x.st = "loop" /\ x.rest = MultiDone
    BY DEF MultiLoop
  <2> HIDE DEF x
  <2>2. LoopAt(x, MultiDone)
    BY <2>1, Zenon DEF LoopAt
  <2> QED
    BY <2>2, DoneRead, EmptyFacts, Zenon
<1>3. parts \in Seq(Seq(Tokens))
  <2> DEFINE D == Seq(Tokens)
  <2>1. MultiParts \subseteq D
    BY PartIs, Zenon
  <2> HIDE DEF D
  <2>2. parts \in Seq(D)
    BY <2>1, SeqMonotonic
  <2> QED
    BY <2>2, Zenon DEF D
<1>4. PICK suf : Chain(suf, Tokens, parts) /\ suf[k] = MultiDone
  BY <1>2, <1>3, ChainExists, Zenon
<1>5. suf[0] = body
  BY <1>3, <1>4, ChainIsFlat, Zenon
<1>6. suf \in [0 .. k -> Seq(Tokens)] /\ \A i \in 1 .. k : suf[i - 1] = parts[i] \o suf[i]
  BY <1>4, Zenon DEF Chain
<1> HIDE DEF k
<1>7. /\ \A i \in 1 .. k : i - 1 \in 0 .. k /\ i \in 0 .. k
      /\ 0 \in 0 .. k /\ k \in 0 .. k
  BY <1>1
<1>8. body \in Seq(Tokens) /\ L \in Nat
  BY <1>5, <1>6, <1>7, LenProperties, Zenon
<1> HIDE DEF body
<1>9. MultiLoop(body) \in Accounted(body)
  BY <1>8, MultiStarts, Zenon
<1>10. N \in Nat /\ N \in 0 .. N /\ 0 \in 0 .. N
  BY <1>8
<1>11. /\ M[0] = MultiLoop(body)
       /\ \A i \in 1 .. N : M[i] = MultiTurn(M[i - 1])
  <2> HIDE DEF N
  <2>1. TurnsFrom(MultiTurns(MultiLoop(body), N), MultiLoop(body), N)
    BY <1>8, <1>10, MultiTurnsFrom, Zenon
  <2> QED
    BY <2>1, Zenon DEF TurnsFrom
<1>12. DeserializeMulti(body) = MultiRequest(M[N])
  BY Zenon DEF DeserializeMulti
<1> HIDE DEF M
<1> DEFINE T == {i \in 0 .. k : LoopAt(M[i], suf[i]) /\ Len(suf[i]) + i <= L}
<1>13. 0 \in T
  <2> DEFINE x == MultiLoop(body)
  <2>1. x.st = "loop" /\ x.rest = body
    BY DEF MultiLoop
  <2> HIDE DEF x
  <2>2. LoopAt(M[0], suf[0])
    BY <1>5, <1>11, <2>1, Zenon DEF LoopAt, x
  <2>3. Len(suf[0]) = L
    BY <1>5, Zenon
  <2>4. Len(suf[0]) + 0 <= L
    BY <1>8, <2>3
  <2> QED
    BY <1>7, <2>2, <2>4, Zenon
<1>14. ASSUME NEW i \in 1 .. k, i - 1 \in T
       PROVE  i \in T
  <2>1. LoopAt(M[i - 1], suf[i - 1]) /\ Len(suf[i - 1]) + (i - 1) <= L
    BY <1>14, Zenon
  <2>2. suf[i] \in Seq(Tokens) /\ suf[i - 1] = parts[i] \o suf[i] /\ parts[i] \in MultiParts
    BY <1>1, <1>6, <1>7, Zenon
  <2>3. parts[i] \in Seq(Tokens) /\ Len(parts[i]) >= 1 /\ LoopAt(MultiTurn(M[i - 1]), suf[i])
    BY <2>1, <2>2, PartIs, Zenon
  <2>4. /\ Len(suf[i - 1]) = Len(parts[i]) + Len(suf[i])
        /\ Len(suf[i]) \in Nat /\ Len(parts[i]) \in Nat
    BY <2>2, <2>3, ConcatProperties, LenProperties, Zenon
  <2>5. Len(suf[i]) + i <= L
    <3> DEFINE x == Len(suf[i - 1])
               y == Len(suf[i])
               z == Len(parts[i])
    <3>1. x + (i - 1) <= L /\ x = z + y /\ z >= 1
      BY <2>1, <2>3, <2>4, Zenon
    <3>2. y \in Nat /\ z \in Nat /\ i \in Nat
      BY <1>1, <2>4
    <3> HIDE DEF x, y, z, L
    <3>3. y + i <= L
      BY <1>8, <3>1, <3>2
    <3> QED
      BY <3>3, Zenon DEF y
  <2>6. i \in 1 .. N
    BY <1>8, <2>4, <2>5
  <2>7. M[i] = MultiTurn(M[i - 1])
    BY <1>11, <2>6, Zenon
  <2> QED
    BY <1>7, <2>3, <2>5, <2>7, Zenon
<1> HIDE DEF T
<1>15. k \in T
  BY <1>1, <1>7, <1>13, <1>14, InductionTo, Zenon
<1>16. LoopAt(M[k], MultiDone) /\ Len(MultiDone) + k <= L
  BY <1>4, <1>15, Zenon DEF T
<1>17. k + 1 \in 1 .. N /\ (k + 1) - 1 = k /\ N - (k + 1) \in Nat
  <2>1. Len(MultiDone) \in Nat
    BY <1>2, LenProperties, Zenon
  <2> QED
    BY <1>1, <1>8, <1>16, <2>1
<1>18. M[k + 1].st = "ok" /\ M[k + 1].rest = <<>>
  <2>1. M[k + 1] = MultiTurn(M[k])
    BY <1>11, <1>17, Zenon
  <2> QED
    BY <1>16, <2>1, DoneRead, Zenon
<1> DEFINE d == N - (k + 1)
           U == {i \in 0 .. d : M[k + 1 + i].st = "ok" /\ M[k + 1 + i].rest = <<>>}
<1>19. d \in Nat /\ 0 \in 0 .. d /\ d \in 0 .. d /\ k + 1 + 0 = k + 1 /\ k + 1 + d = N
  BY <1>1, <1>8, <1>17
<1>20. 0 \in U
  BY <1>18, <1>19, Zenon
<1>21. ASSUME NEW i \in 1 .. d, i - 1 \in U
       PROVE  i \in U
  <2>1. i \in 0 .. d /\ k + 1 + i \in 1 .. N /\ (k + 1 + i) - 1 = k + 1 + (i - 1)
    BY <1>1, <1>8, <1>19
  <2>2. M[k + 1 + i] = MultiTurn(M[k + 1 + (i - 1)])
    BY <1>11, <2>1, Zenon
  <2>3. "ok" # "loop"
    OBVIOUS
  <2>4. M[k + 1 + (i - 1)].st = "ok" /\ M[k + 1 + (i - 1)].rest = <<>>
    BY <1>21, Zenon
  <2> DEFINE x == M[k + 1 + (i - 1)]
  <2> HIDE DEF x
  <2>5. MultiTurn(x) = x
    BY <2>3, <2>4, Zenon DEF MultiTurn, x
  <2>6. M[k + 1 + i] = x
    BY <2>2, <2>5, Zenon DEF x
  <2> QED
    BY <2>1, <2>4, <2>6, Zenon DEF x
<1> HIDE DEF U, d
<1>22. d \in U
  BY <1>19, <1>20, <1>21, InductionTo, Zenon
<1>23. M[N].st = "ok" /\ M[N].rest = <<>>
  BY <1>19, <1>22, Zenon DEF U
<1> DEFINE m == M[N]
           g == DeserializeMulti(body)
<1>24. g = MultiRequest(m)
  BY <1>12, Zenon
<1> HIDE DEF g, m
<1>25. g.st = m.st /\ g.rest = m.rest
  BY <1>24 DEF MultiRequest
<1>26. DeserializeRequest("Multi", body) = g
  BY Zenon DEF DeserializeRequest, g
<1>27. g.st = "ok" /\ g.rest = <<>>
  BY <1>23, <1>25, Zenon DEF m
<1> QED
  BY <1>8, <1>26, <1>27, Zenon DEF ReadToItsEnd, body

(* A multi is read to its end, and written as it was. *)
LEMMA MultiReadWhole ==
  ASSUME NEW xid \in Xids, NEW parts \in Seq(MultiParts),
         NEW f, f = Header(xid, "Multi") \o FlattenSeq(parts) \o MultiDone, Width(f) <= MaxFrameLength
  PROVE  f \in Seq(Tokens) /\ ReadWhole(f)
<1> DEFINE op == "Multi"
           n == OpCodes[op]
           flat == FlattenSeq(parts)
           b == flat \o MultiDone
           header == <<xid, n>>
           h == [st |-> "ok", val |-> header, rest |-> b]
           p == decode(f)
<1>1. b \in Seq(Tokens) /\ ReadToItsEnd("Multi", b)
  BY PartsRead, Zenon
<1>2. xid \in Int /\ xid \notin {0, -2, -4, -8}
  BY ProtocolAssumption, Zenon
<1>3. xid # 0 /\ xid \notin DOMAIN ControlVariant
  <2>1. xid # 0 /\ xid \notin {-2, -4, -8}
    BY <1>2
  <2> QED
    BY <2>1, ControlsAre, Zenon
<1>4. op \in DOMAIN OpCodes
  BY DEF OpCodes
<1>5. n \in Int /\ ValidOpCode(n) /\ OpCodeOf(n) = op /\ n = OpCodes.Multi
  BY <1>4, OpCodesAre, Zenon
<1>6. flat \in Seq(Tokens) /\ MultiDone \in Seq(Tokens)
  <2> DEFINE D == Seq(Tokens)
  <2>1. MultiParts \subseteq D
    BY PartIs, Zenon
  <2>2. parts \in Seq(D)
    <3> HIDE DEF D
    <3> QED
      BY <2>1, SeqMonotonic
  <2>3. flat \in Seq(Tokens)
    BY <2>2, FlattenIs, Zenon
  <2>4. MultiDone \in Seq(Tokens)
    BY TokensAre DEF MultiDone
  <2> QED
    BY <2>3, <2>4, Zenon
<1>7. f = Header(xid, op) \o b
  <2>1. <<>> \in Seq(Tokens)
    BY EmptyFacts, Zenon
  <2>2. Header(xid, op) \in Seq(Tokens)
    <3> DEFINE e == Header(xid, op) \o <<>>
    <3>1. e = Header(xid, op) \o <<>>
      OBVIOUS
    <3> HIDE DEF e
    <3> QED
      BY <1>2, <1>4, <2>1, <3>1, HeaderFirst, Zenon
  <2> HIDE DEF flat
  <2>3. Three(Header(xid, op), flat, MultiDone)
    BY <1>6, <2>2, TokensAssociate, Zenon
  <2> QED
    BY <2>3, Zenon DEF Three, flat
<1> HIDE DEF b, flat
<1>8. f \in Seq(Tokens) /\ p = DecodeHeadedRequest(h)
  BY <1>1, <1>2, <1>3, <1>4, <1>7, HeadedDecode, Zenon
<1>9. header[1] = xid /\ header[2] = n
  OBVIOUS
<1> HIDE DEF header, n
<1>10. h.st = "ok" /\ h.val = header /\ h.rest = b
  OBVIOUS
<1> HIDE DEF h, p
<1>11. p = DecodeData(header, b)
  BY <1>3, <1>8, <1>9, <1>10, Zenon DEF DecodeHeadedRequest
<1>12. p = Packet(header, "Multi", DeserializeRequest("Multi", b), "Multi" \in AssertsEmpty)
  BY <1>5, <1>9, <1>11, Zenon DEF DecodeData
<1>13. ReadOf(p, xid, op, "Multi", b, "Multi" \in AssertsEmpty)
  BY <1>12, Zenon DEF header, n, ReadOf
<1>14. "Multi" \in (DOMAIN RequestRecord \ {"Connect"}) \cup {"Multi"}
  OBVIOUS
<1>15. IsAllOf(p, f)
  BY <1>1, <1>2, <1>4, <1>7, <1>13, <1>14, HeadedReadWhole, Zenon
<1> QED
  BY <1>8, <1>15, Zenon DEF ReadWhole, p, IsAllOf

(* A sequence of a bounded length. *)
LEMMA BoundedIsSeq ==
  ASSUME NEW S, NEW n \in Nat, NEW s \in BoundedSeq(S, n)
  PROVE  s \in Seq(S)
<1>1. PICK m \in 0 .. n : s \in [1 .. m -> S]
  BY Zenon DEF BoundedSeq, SeqOf
<1> QED
  BY <1>1

(* Of no sets there is one row. *)
LEMMA NoRows == Rows(<<>>) = {<<>>}
<1> DEFINE e == <<>>
           n == Len(e)
           b == {e}
           Eq(s) == [i \in 0 .. n |-> IF i = 0 THEN b ELSE Longer(s[i - 1], e[i])]
           F == RowsTo(e)
           f == [i \in 0 .. n |-> b]
<1>1. n = 0
  BY EmptyFacts, Zenon
<1>2. F = CHOOSE s : s = Eq(s)
  BY Zenon DEF RowsTo
<1>3. Rows(<<>>) = F[n]
  BY Zenon DEF Rows
<1> HIDE DEF e, n, b
<1>4. (\A i \in 0 .. n : i = 0) /\ 0 \in 0 .. n
  BY <1>1
<1>5. f = Eq(f)
  BY <1>4, Zenon
<1>6. F = Eq(F)
  <2> HIDE DEF Eq, F, f
  <2> QED
    BY <1>2, <1>5, Zenon
<1> HIDE DEF F
<1>7. F[0] = b
  BY <1>4, <1>6, Zenon
<1> QED
  BY <1>1, <1>3, <1>7, Zenon DEF b, e

(* The control requests of a client are those the proxy reads. *)
LEMMA ControlFramesRead ==
  ASSUME NEW f \in ControlFrames, Width(f) <= MaxFrameLength
  PROVE  f \in Seq(Tokens) /\ ReadWhole(f)
<1>1. /\ AuthPacket.wire = <<"i32", "string", "buffer">>
      /\ SetWatches.wire = <<"i64", "vec_string", "vec_string", "vec_string">>
      /\ NoBody.wire = <<>>
  BY DEF AuthPacket, SetWatches, NoBody, Record
<1>2. /\ RequestRecord["Auth"] = AuthPacket /\ RequestRecord["SetWatches"] = SetWatches
      /\ RequestRecord["Ping"] = NoBody
  BY DEF RequestRecord
<1>3. /\ ClientFields.SetAuth = <<"i32", "string", "buffer">>
      /\ ClientFields.SetWatches = <<"i64", "vec_string", "vec_string", "vec_string">>
  BY DEF ClientFields
<1>4. "Ping" \in DOMAIN OpCodes /\ "SetAuth" \in DOMAIN OpCodes /\ "SetWatches" \in DOMAIN OpCodes
  BY DEF OpCodes
<1>5. -2 \in DOMAIN ControlVariant /\ -4 \in DOMAIN ControlVariant /\ -8 \in DOMAIN ControlVariant
  BY ControlsAre, Zenon
<1>6. CASE f = Header(-2, "Ping")
  <2> DEFINE fs == <<>>
             sets == [i \in DOMAIN fs |-> Values(fs[i])]
  <2>1. DOMAIN fs = {} /\ Len(fs) = 0
    BY EmptyFacts, Zenon
  <2>2. sets = <<>>
    BY <2>1
  <2>3. <<>> \in RowsOf(fs)
    <3>1. <<>> \in Seq(SUBSET FieldVal) /\ Len(<<>>) = 0
      BY EmptyFacts, Zenon
    <3>2. Rows(<<>>) = {<<>>}
      BY <3>1, NoRows, Zenon
    <3> QED
      BY <2>2, <3>2, Zenon DEF RowsOf
  <2>4. ImageOf(fs, <<>>) = <<>>
    <3>1. [i \in DOMAIN <<>> |-> Image(fs[i], <<>>[i])] = <<>>
      BY <2>1
    <3>2. FlattenSeq(<<>>) = <<>>
      <4>1. <<>> \in Seq(Tokens)
        BY EmptyFacts, Zenon
      <4> QED
        BY <4>1, FlatFew, Zenon
    <3> QED
      BY <3>1, <3>2, Zenon DEF ImageOf
  <2>5. <<>> \in Images(fs)
    BY <2>3, <2>4, Zenon DEF Images
  <2>6. RequestRecord[ControlVariant[-2]].wire = fs
    BY <1>1, <1>2, ControlsAre, Zenon
  <2>7. f = Header(-2, "Ping") \o <<>>
    <3>1. <<>> \in Seq(Tokens) /\ -2 \in Int
      BY EmptyFacts
    <3> DEFINE e == Header(-2, "Ping") \o <<>>
    <3>2. e = Header(-2, "Ping") \o <<>>
      OBVIOUS
    <3> HIDE DEF e
    <3>3. Header(-2, "Ping") \in Seq(Tokens)
      BY <1>4, <3>1, <3>2, HeaderFirst, Zenon
    <3> QED
      BY <1>6, <3>3, ConcatEmptySeq, Zenon
  <2> HIDE DEF fs
  <2> QED
    BY <1>4, <1>5, <2>5, <2>6, <2>7, ControlReadWhole, Zenon
<1>7. CASE \E b \in Images(ClientFields.SetAuth) : f = Header(-4, "SetAuth") \o b
  <2> DEFINE fs == ClientFields.SetAuth
  <2>1. RequestRecord[ControlVariant[-4]].wire = fs
    BY <1>1, <1>2, <1>3, ControlsAre, Zenon
  <2>2. PICK b \in Images(fs) : f = Header(-4, "SetAuth") \o b
    BY <1>7, Zenon
  <2> HIDE DEF fs
  <2> QED
    BY <1>4, <1>5, <2>1, <2>2, ControlReadWhole, Zenon
<1>8. CASE \E b \in Images(ClientFields.SetWatches) : f = Header(-8, "SetWatches") \o b
  <2> DEFINE fs == ClientFields.SetWatches
  <2>1. RequestRecord[ControlVariant[-8]].wire = fs
    BY <1>1, <1>2, <1>3, ControlsAre, Zenon
  <2>2. PICK b \in Images(fs) : f = Header(-8, "SetWatches") \o b
    BY <1>8, Zenon
  <2> HIDE DEF fs
  <2> QED
    BY <1>4, <1>5, <2>1, <2>2, ControlReadWhole, Zenon
<1> QED
  BY <1>6, <1>7, <1>8, Zenon DEF ControlFrames

(* No request of a client that the proxy has an arm for is refused, or changed on its way. *)
LEMMA GoodReadWhole ==
  ASSUME NEW f \in GoodFrames
  PROVE  f \in Seq(Tokens) /\ ReadWhole(f)
<1> DEFINE Ops == DOMAIN ClientFields \ Unsupported
<1>1. Width(f) <= MaxFrameLength
        /\ f \in DataFrames(Ops) \cup ControlFrames \cup ConnectFrames \cup MultiFrames
  BY Zenon DEF GoodFrames
<1>2. CASE f \in DataFrames(Ops)
  <2> DEFINE Frames(op) == {Header(xid, op) \o b : xid \in Xids, b \in Images(ClientFields[op])}
  <2>0. f \in UNION {Frames(op) : op \in Ops}
    BY <1>2 DEF DataFrames
  <2>1. PICK op \in Ops : f \in Frames(op)
    <3> HIDE DEF Frames, Ops
    <3> QED
      BY <2>0, Zenon
  <2>2. PICK xid \in Xids, b \in Images(ClientFields[op]) : f = Header(xid, op) \o b
    BY <2>1
  <2> QED
    BY <1>1, <2>2, DataReadWhole, Zenon
<1>3. CASE f \in ControlFrames
  BY <1>1, <1>3, ControlFramesRead, Zenon
<1>4. CASE f \in ConnectFrames
  BY <1>1, <1>4, ConnectReadWhole, Zenon
<1>5. CASE f \in MultiFrames
  <2>1. PICK xid \in Xids, parts \in BoundedSeq(MultiParts, MaxOps) :
          f = Header(xid, "Multi") \o FlattenSeq(parts) \o MultiDone
    BY <1>5 DEF MultiFrames
  <2>2. parts \in Seq(MultiParts)
    BY ProtocolAssumption, BoundedIsSeq, Zenon
  <2> QED
    BY <1>1, <2>1, <2>2, MultiReadWhole, Zenon
<1> QED
  BY <1>1, <1>2, <1>3, <1>4, <1>5, Zenon

-----------------------------------------------------------------------------
(* Well formed requests that are refused *)

\* A request on which decode() panics
Panics(f) == f \in Seq(Tokens) /\ decode(f).st = "panic"

(* A panic while a record is read is one of decode(). *)
LEMMA PanicIsPassedOn ==
  ASSUME NEW header, NEW v, NEW r, NEW assertEmpty, r.st = "panic"
  PROVE  Packet(header, v, r, assertEmpty).st = "panic"
<1>1. "panic" # "ok"
  OBVIOUS
<1>2. Packet(header, v, r, assertEmpty) = Refused("panic")
  BY <1>1, Zenon DEF Packet
<1> QED
  BY <1>2, RefusedIs, Zenon

(* The two parts of a concatenation. *)
LEMMA TwoParts ==
  ASSUME NEW x \in Seq(Tokens), NEW y \in Seq(Tokens), Len(x) > 0
  PROVE  x \o y \in Seq(Tokens) /\ (x \o y)[1] = x[1]
<1>1. x \o y \in Seq(Tokens)
  BY ConcatProperties, Zenon
<1>2. Len(x) \in Nat /\ Len(y) \in Nat
  BY LenProperties, Zenon
<1>3. 1 \in 1 .. Len(x) + Len(y) /\ 1 <= Len(x)
  BY <1>2
<1>4. \A i \in 1 .. Len(x) + Len(y) : (x \o y)[i] = IF i <= Len(x) THEN x[i] ELSE y[i - Len(x)]
  BY ConcatProperties, Zenon
<1> QED
  BY <1>1, <1>3, <1>4, Zenon

\* A number, what is behind it and what ends the frame
Numbered(v, b, rest) == <<Token(4, v)>> \o b \o rest

\* R is a number, what has the fields fs, and maybe more
BehindNumber(R, fs) ==
  /\ R.wire \in Seq(WireFields) /\ 1 + Len(fs) <= Len(R.wire) /\ R.wire[1] = "i32"
  /\ \A j \in 1 .. Len(fs) : R.wire[1 + j] = fs[j]

(* A frame behind a number is read as far as the null in it. *)
LEMMA NullBehindNumber ==
  ASSUME NEW fs \in Seq(Fields), NEW b \in NullImages(fs), NEW v \in Int,
         NEW R, BehindNumber(R, fs), NEW rest \in Seq(Tokens)
  PROVE  /\ Numbered(v, b, rest) \in Seq(Tokens) /\ Numbered(v, b, rest)[1] = Token(4, v)
         /\ Deserialize(R, Numbered(v, b, rest)).st = "panic"
<1> DEFINE toks == Numbered(v, b, rest)
<1>26. toks = <<Token(4, v)>> \o b \o rest
  BY Zenon DEF Numbered
<1> HIDE DEF toks
<1> USE DEF BehindNumber
<1> DEFINE A == Record(fs, 0, {})
<1>25. A.wire = fs
  BY DEF Record
<1> HIDE DEF A
<1> DEFINE n == Len(A.wire)
           m == 1 + n
           t == Token(4, v)
           one == <<t>>
<1>1. PICK row : /\ b = FlattenSeq(row) /\ b \in Seq(Tokens) /\ Len(row) = n
                 /\ SomePieceNull(row, n, FieldPuts(A), NullsOf(A.wire))
  BY <1>25, NullImagesAre, Zenon
<1>2. /\ row \in Seq(Seq(Tokens))
      /\ \A j \in 1 .. n : row[j] \in Written(FieldPuts(A)[j]) \cup NullsOf(A.wire)[j]
      /\ \E j \in 1 .. n : row[j] \in NullsOf(A.wire)[j]
  BY <1>1, Zenon DEF SomePieceNull
<1>3. n \in Nat /\ Len(R.wire) \in Nat /\ n = Len(fs) /\ 1 + n <= Len(R.wire)
  BY <1>25, LenProperties, Zenon
<1>24. \A j \in 1 .. n : 1 + j \in 1 .. m /\ 1 + j \in 1 .. Len(R.wire)
  <2> DEFINE l == Len(R.wire)
  <2>1. n \in Nat /\ l \in Nat /\ 1 + n <= l
    BY <1>3
  <2> HIDE DEF n, l
  <2>2. \A j \in 1 .. n : 1 + j \in 1 .. 1 + n /\ 1 + j \in 1 .. l
    BY <2>1
  <2> QED
    BY <2>2, Zenon DEF l
<1>4. m \in 1 .. Len(R.wire) /\ 1 \in 1 .. Len(R.wire) /\ m \in 0 .. Len(R.wire)
      /\ \A i \in 1 .. m : i \in 1 .. Len(R.wire) /\ (i = 1 \/ (i - 1 \in 1 .. n /\ i = 1 + (i - 1)))
      /\ \A j \in 1 .. n : 1 + j \in 1 .. m /\ 1 + j \in 1 .. Len(R.wire)
      /\ 1 \in 1 .. m
  BY <1>3
<1>5. "i32" \in ScalarFields /\ ScalarWidth["i32"] = 4
  BY DEF ScalarFields, ScalarWidth
<1>6. /\ "i32" \in Fields /\ v \in FieldSet("i32") /\ PutField("i32", v) = one
      /\ t \in Tokens /\ one \in Seq(Tokens)
  BY <1>5, NumberField, Zenon
<1> HIDE DEF t, one
<1> DEFINE pieces == <<one>> \o row
<1>7. /\ pieces \in Seq(Seq(Tokens)) /\ Len(pieces) = 1 + n /\ pieces[1] = one
      /\ \A j \in 1 .. n : pieces[1 + j] = row[j]
  <2> DEFINE D == Seq(Tokens)
  <2> HIDE DEF D
  <2>1. row \in Seq(D) /\ one \in D
    BY <1>2, <1>6, Zenon DEF D
  <2>2. /\ pieces \in Seq(D) /\ Len(pieces) = 1 + Len(row) /\ pieces[1] = one
        /\ \A j \in 1 .. Len(row) : pieces[1 + j] = row[j]
    BY <2>1, Prepended
  <2> QED
    BY <1>1, <2>2, Zenon DEF D
<1>8. FlattenSeq(pieces) = one \o b
  BY <1>1, <1>2, <1>6, FlattenPrepend, Zenon
<1> HIDE DEF pieces, n
<1>9. /\ DOMAIN R.wire = 1 .. Len(R.wire) /\ DOMAIN A.wire = 1 .. n
      /\ \A j \in 1 .. n : A.wire[j] \in Fields
  <2>1. A.wire \in Seq(Fields) /\ R.wire \in Seq(WireFields)
    BY <1>25, Zenon
  <2> QED
    BY <2>1, LenProperties, ElementOfSeq, Zenon DEF n
<1>10. \A i \in 1 .. Len(R.wire) : FieldPuts(R)[i] = FieldPut(R.wire[i]) /\ NullsOf(R.wire)[i] = FieldNulls(R.wire[i])
  BY <1>9, Zenon DEF FieldPuts, NullsOf
<1>11. \A j \in 1 .. n : FieldPuts(A)[j] = FieldPut(A.wire[j]) /\ NullsOf(A.wire)[j] = FieldNulls(A.wire[j])
  BY <1>9, Zenon DEF FieldPuts, NullsOf
<1>12. \A j \in 1 .. n : R.wire[1 + j] = A.wire[j]
  BY <1>3, <1>25, Zenon
<1>13. pieces[1] \in Written(FieldPuts(R)[1])
  <2>1. FieldPuts(R)[1] = FieldPut("i32")
    BY <1>4, <1>10, Zenon
  <2>2. DOMAIN FieldPut("i32") = FieldSet("i32") /\ FieldPut("i32")[v] = PutField("i32", v)
    BY <1>6, FieldPutIs, Zenon
  <2> QED
    BY <1>6, <1>7, <2>1, <2>2, Zenon DEF Written
<1>14. ASSUME NEW j \in 1 .. n
       PROVE  /\ FieldPuts(R)[1 + j] = FieldPuts(A)[j] /\ NullsOf(R.wire)[1 + j] = NullsOf(A.wire)[j]
              /\ pieces[1 + j] = row[j]
  <2>1. 1 + j \in 1 .. Len(R.wire) /\ R.wire[1 + j] = A.wire[j]
    <3>1. 1 + j \in 1 .. Len(R.wire)
      BY <1>24
    <3> QED
      BY <1>12, <3>1, Zenon
  <2> DEFINE i == 1 + j
  <2>2. i \in 1 .. Len(R.wire) /\ R.wire[i] = A.wire[j] /\ i = 1 + j
    BY <2>1, Zenon
  <2> HIDE DEF i, m
  <2>3. FieldPuts(R)[i] = FieldPuts(A)[j] /\ NullsOf(R.wire)[i] = NullsOf(A.wire)[j]
    BY <1>10, <1>11, <2>2, Zenon
  <2> QED
    BY <1>7, <2>2, <2>3, Zenon
<1>15. \A i \in 1 .. m : pieces[i] \in Written(FieldPuts(R)[i]) \cup NullsOf(R.wire)[i]
  <2> SUFFICES ASSUME NEW i \in 1 .. m
               PROVE  pieces[i] \in Written(FieldPuts(R)[i]) \cup NullsOf(R.wire)[i]
    OBVIOUS
  <2>1. CASE i = 1
    BY <1>13, <2>1, Zenon
  <2>2. CASE i - 1 \in 1 .. n /\ i = 1 + (i - 1)
    <3> DEFINE j == i - 1
    <3>1. j \in 1 .. n /\ i = 1 + j
      BY <2>2, Zenon
    <3> HIDE DEF j
    <3> QED
      BY <1>2, <1>14, <3>1, Zenon
  <2> QED
    BY <1>4, <2>1, <2>2, Zenon
<1>16. SomePieceNull(pieces, m, FieldPuts(R), NullsOf(R.wire))
  <2>1. \E i \in 1 .. m : pieces[i] \in NullsOf(R.wire)[i]
    <3>1. PICK j \in 1 .. n : row[j] \in NullsOf(A.wire)[j]
      BY <1>2, Zenon
    <3>2. 1 + j \in 1 .. m
      BY <1>24
    <3> HIDE DEF m
    <3> QED
      BY <1>14, <3>1, <3>2, Zenon
  <2>2. m <= Len(pieces)
    BY <1>3, <1>7 DEF n
  <2> QED
    BY <1>7, <1>15, <2>1, <2>2, Zenon DEF SomePieceNull
<1>17. one \o b \in Seq(Tokens) /\ toks = (one \o b) \o rest
  <2>1. one \o b \in Seq(Tokens)
    BY <1>1, <1>6, ConcatProperties, Zenon
  <2> QED
    BY <1>26, <2>1, Zenon DEF one, t
<1> DEFINE x == one \o b
<1>22. x \in Seq(Tokens) /\ toks = x \o rest
  BY <1>17, Zenon
<1>23. Len(x) = 1 + Len(b) /\ Len(b) \in Nat /\ x[1] = t
  BY <1>1, <1>6, Prepended DEF one
<1> HIDE DEF x
<1>18. toks \in Seq(Tokens) /\ toks[1] = t
  <2>1. Len(x) > 0
    BY <1>23
  <2>2. x \o rest \in Seq(Tokens) /\ (x \o rest)[1] = x[1]
    BY <1>22, <2>1, TwoParts, Zenon
  <2> QED
    BY <1>22, <1>23, <2>2, Zenon
<1>19. \A i \in 1 .. m : R.wire[i] \in Fields
  <2> SUFFICES ASSUME NEW i \in 1 .. m PROVE R.wire[i] \in Fields
    OBVIOUS
  <2>1. CASE i = 1
    BY <1>6, <2>1, Zenon
  <2>2. CASE i - 1 \in 1 .. n /\ i = 1 + (i - 1)
    BY <1>9, <1>12, <2>2, Zenon
  <2> QED
    BY <1>4, <2>1, <2>2, Zenon
<1>20. Deserialize(R, toks).st = "panic"
  <2>1. toks = FlattenSeq(pieces) \o rest
    BY <1>8, <1>17, Zenon
  <2> HIDE DEF m
  <2> QED
    BY <1>4, <1>16, <1>18, <1>19, <2>1, NullStops, Zenon
<1> QED
  BY <1>18, <1>20, Zenon DEF t, toks

(* What ends a connect request or reply is tokens. *)
LEMMA EndingsAre == Endings \subseteq Seq(Tokens)
<1>1. \A v \in Int : Token(1, v) \in Tokens
  BY TokensAre
<1>2. \A v \in Int : <<Token(1, v)>> \in Seq(Tokens)
  BY <1>1, WidthOfFew, Zenon
<1>3. 0 \in Int /\ 1 \in Int
  OBVIOUS
<1> QED
  BY <1>2, <1>3, EmptyFacts, Zenon DEF Endings

(* A connect request without a password is refused, however its sender ends it. *)
LEMMA NullConnectPanics ==
  ASSUME NEW f \in NullConnects, Width(f) <= MaxFrameLength
  PROVE  Panics(f)
<1> DEFINE fs == <<"i64", "i32", "i64", "buffer">>
           R == ConnectRequest
           g == Deserialize(R, f)
<1>1. fs \in Seq(Fields)
  BY WidthsOfFields
<1>2. BehindNumber(R, fs)
  <2>1. R.wire = <<"i32", "i64", "i32", "i64", "buffer", "read_only">>
    BY DEF ConnectRequest, Record
  <2>2. R.wire \in Seq(WireFields)
    BY ConnectEnds, Zenon DEF Fits
  <2> QED
    BY <2>1, <2>2 DEF BehindNumber
<1>3. f \in NullConnecting(fs)
  BY Zenon DEF NullConnects
<1> HIDE DEF fs, R, g
<1>4. PICK b \in NullImages(fs), r \in Endings : f = <<Token(4, 0)>> \o b \o r
  BY <1>3, SMTT(30) DEF NullConnecting
<1>5. f \in Seq(Tokens) /\ f[1] = Token(4, 0) /\ g.st = "panic"
  <2>1. r \in Seq(Tokens) /\ 0 \in Int
    BY EndingsAre
  <2>2. f = Numbered(0, b, r)
    BY <1>4, Zenon DEF Numbered
  <2> QED
    BY <1>1, <1>2, <2>1, <2>2, NullBehindNumber, Zenon DEF g
<1>6. XidCodes.ConnectXid = 0
  BY DEF XidCodes
<1>7. Packet(<<>>, "Connect", g, FALSE).st = "panic"
  BY <1>5, PanicIsPassedOn, Zenon
<1>8. DecodeInner(f).st = "panic"
  <2>1. CASE Width(f) < 4 + 4
    BY <2>1, RefusedIs, Zenon DEF DecodeInner
  <2>2. CASE ~(Width(f) < 4 + 4)
    BY <1>5, <1>6, <1>7, <2>2, Zenon DEF DecodeInner, g, R
  <2> QED
    BY <2>1, <2>2, Zenon
<1>9. ~(Width(f) > MaxFrameLength)
  <2>1. Width(f) \in Nat
    BY <1>5, WidthsAre, Zenon
  <2> QED
    BY <2>1, MaxFrameLengthAssumption
<1> QED
  BY <1>5, <1>8, <1>9, Zenon DEF Panics, decode

(* Behind a header, a record with a null in it is refused. *)
LEMMA NullBodyPanics ==
  ASSUME NEW v \in DOMAIN RequestRecord \ {"Connect", "Multi"}, NEW fs, RequestRecord[v].wire = fs,
         NEW b \in NullImages(fs)
  PROVE  b \in Seq(Tokens) /\ Deserialize(RequestRecord[v], b).st = "panic"
<1> DEFINE R == RequestRecord[v]
<1>1. v \in DOMAIN RequestRecord /\ v # "Connect"
  OBVIOUS
<1>2. R.wire \in Seq(Fields) /\ R.wire = fs
  BY <1>1, RequestsFit, Zenon DEF Fits
<1>3. <<>> \in Seq(Tokens)
  BY EmptyFacts, Zenon
<1> HIDE DEF R
<1>4. b \in Seq(Tokens) /\ Deserialize(R, b \o <<>>).st = "panic"
  BY <1>2, <1>3, NullRead, Zenon
<1>5. b \o <<>> = b
  BY <1>4, ConcatEmptySeq, Zenon
<1> QED
  BY <1>4, <1>5, Zenon DEF R

(* A data request is read as its opcode says. *)
LEMMA HeadedData ==
  ASSUME NEW op \in DOMAIN OpCodes, NEW xid \in Xids, NEW body \in Seq(Tokens),
         NEW f, f = Header(xid, op) \o body, Width(f) <= MaxFrameLength
  PROVE  /\ f \in Seq(Tokens)
         /\ decode(f) = DecodeData(<<xid, OpCodes[op]>>, body)
<1> DEFINE header == <<xid, OpCodes[op]>>
           h == [st |-> "ok", val |-> header, rest |-> body]
<1>1. xid \in Int /\ xid \notin {0, -2, -4, -8}
  BY ProtocolAssumption, Zenon
<1>2. xid # 0 /\ xid \notin DOMAIN ControlVariant
  <2>1. xid # 0 /\ xid \notin {-2, -4, -8}
    BY <1>1
  <2> QED
    BY <2>1, ControlsAre, Zenon
<1>3. f \in Seq(Tokens) /\ decode(f) = DecodeHeadedRequest(h)
  BY <1>1, <1>2, HeadedDecode, Zenon
<1>4. header[1] = xid
  OBVIOUS
<1> HIDE DEF header
<1>5. h.st = "ok" /\ h.val = header /\ h.rest = body
  OBVIOUS
<1> HIDE DEF h
<1>6. DecodeHeadedRequest(h) = DecodeData(header, body)
  BY <1>2, <1>4, <1>5, Zenon DEF DecodeHeadedRequest
<1> QED
  BY <1>3, <1>6, Zenon DEF header

(* A data request with a null is refused. *)
LEMMA NullDataPanics ==
  ASSUME NEW op \in DOMAIN ClientFields \ Unsupported, NEW xid \in Xids,
         NEW b \in NullImages(ClientFields[op]),
         NEW f, f = Header(xid, op) \o b, Width(f) <= MaxFrameLength
  PROVE  Panics(f)
<1> DEFINE v == DataVariant[op]
           n == OpCodes[op]
           header == <<xid, n>>
           r == DeserializeRequest(v, b)
<1>1. /\ op \in DOMAIN OpCodes /\ op \in DOMAIN DataVariant /\ op # "Multi"
      /\ v \in DOMAIN RequestRecord \ {"Connect", "Multi"}
      /\ RequestRecord[v].wire = ClientFields[op]
  BY ClientFieldsAre, Zenon
<1> HIDE DEF v
<1>2. b \in Seq(Tokens) /\ Deserialize(RequestRecord[v], b).st = "panic"
  BY <1>1, NullBodyPanics, Zenon
<1>3. f \in Seq(Tokens) /\ decode(f) = DecodeData(header, b)
  BY <1>1, <1>2, HeadedData, Zenon
<1>4. /\ n \in Int /\ ValidOpCode(n) /\ OpCodeOf(n) = op /\ n # OpCodes.Multi
  <2>1. "Multi" \in DOMAIN OpCodes
    BY DEF OpCodes
  <2>2. OpCodeOf(OpCodes["Multi"]) = "Multi" /\ OpCodeOf(n) = op
          /\ OpCodes.Multi = OpCodes["Multi"]
    BY <1>1, <2>1, OpCodesAre, Zenon
  <2> QED
    BY <1>1, <2>2, OpCodesAre, Zenon
<1>5. v # "Multi"
  BY <1>1
<1>6. r.st = "panic"
  BY <1>2, <1>5, Zenon DEF DeserializeRequest
<1>7. header[2] = n
  OBVIOUS
<1> HIDE DEF header, n, r
<1>8. decode(f) = Packet(header, v, r, v \in AssertsEmpty)
  BY <1>1, <1>3, <1>4, <1>7, Zenon DEF DecodeData, v, r
<1>9. decode(f).st = "panic"
  <2>1. Packet(header, v, r, v \in AssertsEmpty).st = "panic"
    BY <1>6, PanicIsPassedOn, Zenon
  <2> QED
    BY <1>8, <2>1, Zenon
<1> QED
  BY <1>3, <1>9, Zenon DEF Panics

(* A data request of an operation without an arm is refused, whatever it holds. *)
LEMMA UnsupportedPanics ==
  ASSUME NEW op \in Unsupported, NEW xid \in Xids,
         NEW b \in Images(ClientFields[op]) \cup NullImages(ClientFields[op]),
         NEW f, f = Header(xid, op) \o b, Width(f) <= MaxFrameLength
  PROVE  Panics(f)
<1> DEFINE fs == <<"string", "i32">>
           A == Record(fs, 0, {})
           n == OpCodes[op]
           header == <<xid, n>>
<1>1. ClientFields[op] = fs
  BY DEF ClientFields, Unsupported
<1>2. op \in DOMAIN OpCodes /\ op \notin DOMAIN DataVariant \cup {"Multi"}
  BY DEF OpCodes, DataVariant, Unsupported
<1>3. A.wire = fs
  BY DEF Record
<1>4. fs \in Seq(Fields)
  BY WidthsOfFields
<1>5. <<>> \in Seq(Tokens)
  BY EmptyFacts, Zenon
<1> HIDE DEF A, fs
<1>6. b \in Seq(Tokens)
  <2>1. CASE b \in NullImages(fs)
    BY <1>3, <1>4, <1>5, <2>1, NullRead, Zenon
  <2>2. CASE b \in Images(fs)
    <3>1. PICK row \in RowsOf(A.wire) : b = ImageOf(A.wire, row)
      BY <1>3, <2>2, Zenon DEF Images
    <3> QED
      BY <1>3, <1>4, <1>5, <3>1, ImageReadBack, Zenon
  <2> QED
    BY <1>1, <2>1, <2>2, Zenon
<1>7. f \in Seq(Tokens) /\ decode(f) = DecodeData(header, b)
  BY <1>2, <1>6, HeadedData, Zenon
<1>8. ValidOpCode(n) /\ OpCodeOf(n) = op
  BY <1>2, OpCodesAre, Zenon
<1>9. header[2] = n
  OBVIOUS
<1> HIDE DEF header, n
<1>10. decode(f) = Refused("panic")
  BY <1>2, <1>7, <1>8, <1>9, Zenon DEF DecodeData
<1> QED
  BY <1>7, <1>10, RefusedIs, Zenon DEF Panics

(* A control request with a null is refused. *)
LEMMA NullControlPanics ==
  ASSUME NEW op \in DOMAIN OpCodes, NEW xid \in DOMAIN ControlVariant, NEW fs,
         NEW b \in NullImages(fs), RequestRecord[ControlVariant[xid]].wire = fs,
         NEW f, f = Header(xid, op) \o b, Width(f) <= MaxFrameLength
  PROVE  Panics(f)
<1> DEFINE v == ControlVariant[xid]
           header == <<xid, OpCodes[op]>>
           h == [st |-> "ok", val |-> header, rest |-> b]
           r == Deserialize(RequestRecord[v], b)
<1>1. v \in DOMAIN RequestRecord \ {"Connect", "Multi"}
  BY ControlsAre, Zenon
<1>2. xid \in Int /\ xid # 0
  <2>1. xid \in {-2, -4, -8}
    BY ControlsAre, Zenon
  <2> QED
    BY <2>1
<1> HIDE DEF v
<1>3. RequestRecord[v].wire = fs
  BY Zenon DEF v
<1>4. b \in Seq(Tokens) /\ r.st = "panic"
  BY <1>1, <1>3, NullBodyPanics, Zenon
<1>5. f \in Seq(Tokens) /\ decode(f) = DecodeHeadedRequest(h)
  BY <1>2, <1>4, HeadedDecode, Zenon
<1>6. header[1] = xid
  OBVIOUS
<1> HIDE DEF header
<1>7. h.st = "ok" /\ h.val = header /\ h.rest = b
  OBVIOUS
<1> HIDE DEF h, r
<1>8. decode(f) = Packet(header, v, r, TRUE)
  BY <1>5, <1>6, <1>7, Zenon DEF DecodeHeadedRequest, DecodeControl, v, r
<1>9. decode(f).st = "panic"
  <2>1. Packet(header, v, r, TRUE).st = "panic"
    BY <1>4, PanicIsPassedOn, Zenon
  <2> QED
    BY <1>8, <2>1, Zenon
<1> QED
  BY <1>5, <1>9, Zenon DEF Panics

(* The control requests of a client that may have nulls. *)
LEMMA NullControlsPanic ==
  ASSUME NEW f \in NullControls, Width(f) <= MaxFrameLength
  PROVE  Panics(f)
<1>1. /\ RequestRecord["Auth"].wire = ClientFields.SetAuth
      /\ RequestRecord["SetWatches"].wire = ClientFields.SetWatches
  BY DEF AuthPacket, SetWatches, Record, RequestRecord, ClientFields
<1>2. "SetAuth" \in DOMAIN OpCodes /\ "SetWatches" \in DOMAIN OpCodes
  BY DEF OpCodes
<1>3. -4 \in DOMAIN ControlVariant /\ -8 \in DOMAIN ControlVariant
  BY ControlsAre, Zenon
<1>4. CASE \E b \in NullImages(ClientFields.SetAuth) : f = Header(-4, "SetAuth") \o b
  <2> DEFINE fs == ClientFields.SetAuth
  <2>1. RequestRecord[ControlVariant[-4]].wire = fs
    BY <1>1, ControlsAre, Zenon
  <2>2. PICK b \in NullImages(fs) : f = Header(-4, "SetAuth") \o b
    BY <1>4, Zenon
  <2> HIDE DEF fs
  <2> QED
    BY <1>2, <1>3, <2>1, <2>2, NullControlPanics, Zenon
<1>5. CASE \E b \in NullImages(ClientFields.SetWatches) : f = Header(-8, "SetWatches") \o b
  <2> DEFINE fs == ClientFields.SetWatches
  <2>1. RequestRecord[ControlVariant[-8]].wire = fs
    BY <1>1, ControlsAre, Zenon
  <2>2. PICK b \in NullImages(fs) : f = Header(-8, "SetWatches") \o b
    BY <1>5, Zenon
  <2> HIDE DEF fs
  <2> QED
    BY <1>2, <1>3, <2>1, <2>2, NullControlPanics, Zenon
<1> QED
  BY <1>4, <1>5, Zenon DEF NullControls

(* The loop of a multi stops in a panic at an operation with a null. *)
LEMMA NullPartPanics ==
  ASSUME NEW part \in NullParts
  PROVE  /\ part \in Seq(Tokens) /\ Len(part) >= 1
         /\ \A rest \in Seq(Tokens), m \in MultiStates :
              LoopAt(m, part \o rest) => MultiTurn(m).st = "panic"
<1>0. PICK op \in DOMAIN MultiFields : \E b \in OpNulls[op] : part = MultiHead(op) \o b
  BY Zenon DEF NullParts
<1>1. PICK b \in OpNulls[op] : part = MultiHead(op) \o b
  BY <1>0, Zenon
<1> DEFINE v == MultiVariant[op]
           R == RequestRecord[v]
           n == OpCodes[op]
           head == MultiHead(op)
           header == <<n, 0, -1>>
<1>2. b \in NullImages(MultiFields[op])
  BY OpNullsAssumption, Zenon
<1>3. /\ op \in DOMAIN OpCodes /\ op \in DOMAIN MultiVariant
      /\ v \in DOMAIN RequestRecord /\ v # "Connect" /\ R.wire = MultiFields[op]
  BY MultiFieldsAre
<1>4. R.wire \in Seq(Fields)
  BY <1>3, RequestsFit, Zenon DEF Fits
<1>5. n \in Int /\ ValidOpCode(n) /\ OpCodeOf(n) = op
  BY <1>3, OpCodesAre, Zenon
<1>6. head = <<Token(4, n), Token(1, 0), Token(4, -1)>>
  BY Zenon DEF MultiHead
<1>7. Len(head) = 3 /\ header[1] = n /\ header[2] = 0
  BY <1>6
<1> HIDE DEF R, n, head
<1>8. \A toks \in Seq(Tokens) : b \in Seq(Tokens) /\ Deserialize(R, b \o toks).st = "panic"
  BY <1>2, <1>3, <1>4, NullRead, Zenon
<1>9. <<>> \in Seq(Tokens)
  BY EmptyFacts, Zenon
<1>10. b \in Seq(Tokens)
  BY <1>8, <1>9, Zenon
<1>11. 0 \in Int /\ -1 \in Int
  OBVIOUS
<1>12. \A toks \in Seq(Tokens) :
         /\ head \in Seq(Tokens)
         /\ Deserialize(MultiHeader, head \o toks) = [st |-> "ok", val |-> header, rest |-> toks]
  BY <1>5, <1>6, <1>11, HeadersRead, ZenonT(40)
<1>13. head \in Seq(Tokens)
  BY <1>9, <1>12, Zenon
<1>14. part \in Seq(Tokens) /\ Len(part) >= 1
  <2>1. Len(head \o b) = Len(head) + Len(b) /\ head \o b \in Seq(Tokens)
    BY <1>10, <1>13, ConcatProperties, Zenon
  <2>2. Len(b) \in Nat
    BY <1>10, LenProperties, Zenon
  <2>3. part = head \o b
    BY <1>1, Zenon DEF head
  <2> QED
    BY <1>7, <2>1, <2>2, <2>3
<1> HIDE DEF header
<1>15. ASSUME NEW m \in MultiStates, NEW rest \in Seq(Tokens), LoopAt(m, part \o rest)
       PROVE  MultiTurn(m).st = "panic"
  <2> DEFINE toks == b \o rest
             h == Deserialize(MultiHeader, head \o toks)
             req == Deserialize(R, toks)
  <2>1. toks \in Seq(Tokens)
    BY <1>10, ConcatProperties, Zenon
  <2>2. req.st = "panic"
    BY <1>8, Zenon
  <2>3. m.rest = head \o toks
    <3>1. Three(head, b, rest)
      BY <1>10, <1>13, TokensAssociate, Zenon
    <3>2. m.rest = (head \o b) \o rest
      BY <1>1, <1>15, Zenon DEF LoopAt, head
    <3> QED
      BY <3>1, <3>2, Zenon DEF Three
  <2> HIDE DEF toks
  <2>4. h = [st |-> "ok", val |-> header, rest |-> toks]
    BY <1>12, <2>1, Zenon
  <2> HIDE DEF h, req
  <2>5. h.st = "ok" /\ h.val = header /\ h.rest = toks
    BY <2>4
  <2>6. MultiTurn(m) = MultiHeaderRead(m, h)
    BY <1>15, <2>3, Zenon DEF MultiTurn, LoopAt, h
  <2>7. 0 # 1 /\ "panic" # "ok"
    OBVIOUS
  <2>8. MultiHeaderRead(m, h) = MultiOp(m, header, v, req)
    BY <1>3, <1>5, <1>7, <2>5, <2>7, Zenon DEF MultiHeaderRead, R, req, header
  <2>9. MultiTurn(m) = Stop(m, "panic")
    BY <2>2, <2>6, <2>7, <2>8, Zenon DEF MultiOp
  <2>10. "panic" \in Outcomes
    BY DEF Outcomes
  <2>11. Stop(m, "panic").st = "panic"
    BY <2>10, MultiStateIs, Zenon
  <2> QED
    BY <2>9, <2>11, Zenon
<1> QED
  BY <1>14, <1>15, Zenon

(* A multi of any number of operations is refused when there is a null in one of them. *)
LEMMA NullPartsPanic ==
  ASSUME NEW parts \in SomeNull(MultiParts, NullParts, MaxOps)
  PROVE  LET body == FlattenSeq(parts) \o MultiDone
         IN  body \in Seq(Tokens) /\ DeserializeRequest("Multi", body).st = "panic"
<1> DEFINE body == FlattenSeq(parts) \o MultiDone
           k == Len(parts)
           L == Len(body)
           N == L + 1
           M == MultiTurns(MultiLoop(body), N)
<1>1. /\ parts \in Seq(Seq(Tokens)) /\ k \in Nat
      /\ \A i \in 1 .. k : parts[i] \in MultiParts \cup NullParts
      /\ \E i \in 1 .. k : parts[i] \in NullParts
  <2>1. MultiParts \cup NullParts \subseteq Seq(Tokens) /\ MaxOps \in Nat
    BY PartIs, NullPartPanics, ProtocolAssumption, Zenon
  <2>2. /\ parts \in Seq(Seq(Tokens))
        /\ \A i \in 1 .. k : parts[i] \in MultiParts \cup NullParts
        /\ \E i \in 1 .. k : parts[i] \in NullParts
    BY <2>1, SomeNullIs, Zenon
  <2>3. k \in Nat
    BY <2>2, LenProperties, Zenon
  <2> QED
    BY <2>2, <2>3, Zenon
<1>2. MultiDone \in Seq(Tokens)
  BY TokensAre DEF MultiDone
<1>3. PICK suf : Chain(suf, Tokens, parts) /\ suf[k] = MultiDone
  BY <1>1, <1>2, ChainExists, Zenon
<1>4. suf[0] = body
  BY <1>1, <1>3, ChainIsFlat, Zenon
<1>5. suf \in [0 .. k -> Seq(Tokens)] /\ \A i \in 1 .. k : suf[i - 1] = parts[i] \o suf[i]
  BY <1>3, Zenon DEF Chain
<1> HIDE DEF k
<1>6. /\ \A i \in 1 .. k : i - 1 \in 0 .. k /\ i \in 0 .. k
      /\ 0 \in 0 .. k /\ k \in 0 .. k
  BY <1>1
<1>7. body \in Seq(Tokens) /\ L \in Nat
  BY <1>4, <1>5, <1>6, LenProperties, Zenon
<1> HIDE DEF body
<1>8. N \in Nat /\ N \in 0 .. N /\ 0 \in 0 .. N
  BY <1>7
<1>9. /\ M \in [0 .. N -> Accounted(body)]
      /\ M[0] = MultiLoop(body)
      /\ \A i \in 1 .. N : M[i] = MultiTurn(M[i - 1])
  <2> HIDE DEF N
  <2>1. TurnsFrom(MultiTurns(MultiLoop(body), N), MultiLoop(body), N)
    BY <1>7, <1>8, MultiTurnsFrom, Zenon
  <2>2. MultiLoop(body) \in Accounted(body)
    BY <1>7, MultiStarts, Zenon
  <2>3. \A x \in Accounted(body) : MultiTurn(x) \in Accounted(body)
    BY <1>7, MultiTurnAccounts, Zenon
  <2>4. MultiTurns(MultiLoop(body), N) \in [0 .. N -> Accounted(body)]
    BY <1>8, <2>2, <2>3, MultiTurnsAre, Zenon
  <2> QED
    BY <2>1, <2>4, Zenon DEF TurnsFrom
<1>10. \A i \in 0 .. N : M[i] \in MultiStates
  BY <1>9, Zenon DEF Accounted
<1>11. DeserializeMulti(body) = MultiRequest(M[N])
  BY Zenon DEF DeserializeMulti
<1> HIDE DEF M
<1>12. \A x : x.st = "panic" => MultiTurn(x) = x
  <2>1. "panic" # "loop"
    OBVIOUS
  <2> QED
    BY <2>1, Zenon DEF MultiTurn
<1> DEFINE Fine(i) == LoopAt(M[i], suf[i]) /\ \A j \in 1 .. i : parts[j] \notin NullParts
           T == {i \in 0 .. k : Len(suf[i]) + i <= L /\ (Fine(i) \/ M[i].st = "panic")}
<1>13. 0 \in T
  <2> DEFINE x == MultiLoop(body)
  <2>1. x.st = "loop" /\ x.rest = body
    BY DEF MultiLoop
  <2> HIDE DEF x
  <2>2. LoopAt(M[0], suf[0])
    BY <1>4, <1>9, <2>1, Zenon DEF LoopAt, x
  <2>3. Len(suf[0]) = L
    BY <1>4, Zenon
  <2>4. Len(suf[0]) + 0 <= L
    BY <1>7, <2>3
  <2>5. 1 .. 0 = {}
    OBVIOUS
  <2> QED
    BY <1>6, <2>2, <2>4, <2>5, Zenon
<1>14. ASSUME NEW i \in 1 .. k, i - 1 \in T
       PROVE  i \in T
  <2>1. Len(suf[i - 1]) + (i - 1) <= L /\ (Fine(i - 1) \/ M[i - 1].st = "panic")
    BY <1>14, Zenon
  <2>2. suf[i] \in Seq(Tokens) /\ suf[i - 1] = parts[i] \o suf[i]
    BY <1>5, <1>6, Zenon
  <2>3. parts[i] \in Seq(Tokens) /\ Len(parts[i]) >= 1
    BY <1>1, PartIs, NullPartPanics, Zenon
  <2>4. /\ Len(suf[i - 1]) = Len(parts[i]) + Len(suf[i])
        /\ Len(suf[i]) \in Nat /\ Len(parts[i]) \in Nat
    BY <2>2, <2>3, ConcatProperties, LenProperties, Zenon
  <2>5. Len(suf[i]) + i <= L
    <3> DEFINE x == Len(suf[i - 1])
               y == Len(suf[i])
               z == Len(parts[i])
    <3>1. x + (i - 1) <= L /\ x = z + y /\ z >= 1
      BY <2>1, <2>3, <2>4, Zenon
    <3>2. y \in Nat /\ z \in Nat /\ i \in Nat
      BY <1>1, <2>4
    <3> HIDE DEF x, y, z, L
    <3>3. y + i <= L
      BY <1>7, <3>1, <3>2
    <3> QED
      BY <3>3, Zenon DEF y
  <2>6. i \in 1 .. N /\ i - 1 \in 0 .. N
    BY <1>7, <2>4, <2>5
  <2>7. M[i] = MultiTurn(M[i - 1]) /\ M[i - 1] \in MultiStates
    BY <1>9, <1>10, <2>6, Zenon
  <2>8. Fine(i) \/ M[i].st = "panic"
    <3>1. CASE M[i - 1].st = "panic"
      BY <1>12, <2>7, <3>1, Zenon
    <3>2. CASE Fine(i - 1)
      <4>1. LoopAt(M[i - 1], parts[i] \o suf[i])
        BY <2>2, <3>2, Zenon
      <4>2. CASE parts[i] \in NullParts
        BY <2>2, <2>7, <4>1, <4>2, NullPartPanics, Zenon
      <4>3. CASE parts[i] \notin NullParts
        <5>1. LoopAt(M[i], suf[i])
          BY <1>1, <2>2, <2>7, <4>1, <4>3, PartIs, Zenon
        <5>2. \A j \in 1 .. i : j \in 1 .. i - 1 \/ j = i
          BY <1>1
        <5>3. \A j \in 1 .. i : parts[j] \notin NullParts
          BY <3>2, <4>3, <5>2, Zenon
        <5> QED
          BY <5>1, <5>3, Zenon
      <4> QED
        BY <4>2, <4>3, Zenon
    <3> QED
      BY <2>1, <3>1, <3>2, Zenon
  <2> QED
    BY <1>6, <2>5, <2>8, Zenon
<1> HIDE DEF T
<1>15. k \in T
  BY <1>1, <1>6, <1>13, <1>14, InductionTo, Zenon
<1>16. M[k].st = "panic" /\ Len(suf[k]) + k <= L
  BY <1>1, <1>15, Zenon DEF T
<1> DEFINE d == N - k
           U == {i \in 0 .. d : M[k + i].st = "panic"}
<1>17. d \in Nat /\ 0 \in 0 .. d /\ d \in 0 .. d /\ k + 0 = k /\ k + d = N
  <2>1. Len(suf[k]) \in Nat
    BY <1>5, <1>6, LenProperties, Zenon
  <2> QED
    BY <1>1, <1>7, <1>16, <2>1
<1>18. 0 \in U
  BY <1>16, <1>17, Zenon
<1>19. ASSUME NEW i \in 1 .. d, i - 1 \in U
       PROVE  i \in U
  <2>1. i \in 0 .. d /\ k + i \in 1 .. N /\ (k + i) - 1 = k + (i - 1)
    BY <1>1, <1>7, <1>17
  <2>2. M[k + i] = MultiTurn(M[k + (i - 1)])
    BY <1>9, <2>1, Zenon
  <2>3. M[k + (i - 1)].st = "panic"
    BY <1>19, Zenon
  <2> QED
    BY <1>12, <2>1, <2>2, <2>3, Zenon
<1> HIDE DEF U, d
<1>20. d \in U
  BY <1>17, <1>18, <1>19, InductionTo, Zenon
<1>21. M[N].st = "panic"
  BY <1>17, <1>20, Zenon DEF U
<1> DEFINE m == M[N]
           g == DeserializeMulti(body)
<1>22. g = MultiRequest(m)
  BY <1>11, Zenon
<1> HIDE DEF g, m
<1>23. g.st = m.st
  BY <1>22 DEF MultiRequest
<1>24. DeserializeRequest("Multi", body) = g
  BY Zenon DEF DeserializeRequest, g
<1> QED
  BY <1>7, <1>21, <1>23, <1>24, Zenon DEF body, m

(* A multi with a null in one of its operations is refused. *)
LEMMA NullMultiPanics ==
  ASSUME NEW xid \in Xids, NEW parts \in SomeNull(MultiParts, NullParts, MaxOps),
         NEW f, f = Header(xid, "Multi") \o FlattenSeq(parts) \o MultiDone, Width(f) <= MaxFrameLength
  PROVE  Panics(f)
<1> DEFINE op == "Multi"
           n == OpCodes[op]
           flat == FlattenSeq(parts)
           b == flat \o MultiDone
           header == <<xid, n>>
           r == DeserializeRequest(op, b)
<1>1. b \in Seq(Tokens) /\ r.st = "panic"
  BY NullPartsPanic, Zenon
<1>2. op \in DOMAIN OpCodes
  BY DEF OpCodes
<1>3. n \in Int /\ ValidOpCode(n) /\ OpCodeOf(n) = op /\ n = OpCodes.Multi
  BY <1>2, OpCodesAre, Zenon
<1>4. flat \in Seq(Tokens) /\ MultiDone \in Seq(Tokens)
  <2>1. MultiParts \cup NullParts \subseteq Seq(Tokens) /\ MaxOps \in Nat
    BY PartIs, NullPartPanics, ProtocolAssumption, Zenon
  <2>2. parts \in Seq(Seq(Tokens))
    BY <2>1, SomeNullIs, Zenon
  <2>3. flat \in Seq(Tokens)
    BY <2>2, FlattenIs, Zenon
  <2>4. MultiDone \in Seq(Tokens)
    BY TokensAre DEF MultiDone
  <2> QED
    BY <2>3, <2>4, Zenon
<1>5. f = Header(xid, op) \o b
  <2>1. Header(xid, op) \in Seq(Tokens)
    <3>1. xid \in Int /\ <<>> \in Seq(Tokens)
      BY ProtocolAssumption, EmptyFacts
    <3> DEFINE e == Header(xid, op) \o <<>>
    <3>2. e = Header(xid, op) \o <<>>
      OBVIOUS
    <3> HIDE DEF e
    <3> QED
      BY <1>2, <3>1, <3>2, HeaderFirst, Zenon
  <2> HIDE DEF flat
  <2>2. Three(Header(xid, op), flat, MultiDone)
    BY <1>4, <2>1, TokensAssociate, Zenon
  <2> QED
    BY <2>2, Zenon DEF Three, flat
<1> HIDE DEF b, flat
<1>6. f \in Seq(Tokens) /\ decode(f) = DecodeData(header, b)
  BY <1>1, <1>2, <1>5, HeadedData, Zenon
<1>7. header[2] = n
  OBVIOUS
<1> HIDE DEF header, n, r
<1>8. decode(f) = Packet(header, op, r, op \in AssertsEmpty)
  BY <1>3, <1>6, <1>7, Zenon DEF DecodeData, r
<1>9. decode(f).st = "panic"
  <2>1. Packet(header, op, r, op \in AssertsEmpty).st = "panic"
    BY <1>1, PanicIsPassedOn, Zenon
  <2> QED
    BY <1>8, <2>1, Zenon
<1> QED
  BY <1>6, <1>9, Zenon DEF Panics

(* Each of the requests that the decoder has no reading for ends in a panic. *)
LEMMA RefusedPanics ==
  ASSUME NEW f \in RefusedFrames
  PROVE  Panics(f)
<1>1. /\ Width(f) <= MaxFrameLength
      /\ f \in NullData \cup NullControls \cup NullConnects \cup NullMultis \cup DataFrames(Unsupported)
  BY Zenon DEF RefusedFrames
<1>2. CASE f \in NullData
  <2> DEFINE Ops == DOMAIN ClientFields
             Frames(op) == {Header(xid, op) \o b : xid \in Xids, b \in NullImages(ClientFields[op])}
  <2>1. f \in UNION {Frames(op) : op \in Ops}
    BY <1>2 DEF NullData
  <2>2. PICK op \in Ops : f \in Frames(op)
    <3> HIDE DEF Frames, Ops
    <3> QED
      BY <2>1, Zenon
  <2>3. PICK xid \in Xids, b \in NullImages(ClientFields[op]) : f = Header(xid, op) \o b
    BY <2>2
  <2>4. CASE op \in Unsupported
    BY <1>1, <2>3, <2>4, UnsupportedPanics, Zenon
  <2>5. CASE op \notin Unsupported
    BY <1>1, <2>3, <2>5, NullDataPanics, Zenon
  <2> QED
    BY <2>4, <2>5, Zenon
<1>3. CASE f \in DataFrames(Unsupported)
  <2> DEFINE Frames(op) == {Header(xid, op) \o b : xid \in Xids, b \in Images(ClientFields[op])}
  <2>1. f \in UNION {Frames(op) : op \in Unsupported}
    BY <1>3 DEF DataFrames
  <2>2. PICK op \in Unsupported : f \in Frames(op)
    <3> HIDE DEF Frames
    <3> QED
      BY <2>1, Zenon
  <2>3. PICK xid \in Xids, b \in Images(ClientFields[op]) : f = Header(xid, op) \o b
    BY <2>2
  <2> QED
    BY <1>1, <2>3, UnsupportedPanics, Zenon
<1>4. CASE f \in NullControls
  BY <1>1, <1>4, NullControlsPanic, Zenon
<1>5. CASE f \in NullConnects
  BY <1>1, <1>5, NullConnectPanics, Zenon
<1>6. CASE f \in NullMultis
  <2>1. PICK xid \in Xids, parts \in SomeNull(MultiParts, NullParts, MaxOps) :
          f = Header(xid, "Multi") \o FlattenSeq(parts) \o MultiDone
    BY <1>6 DEF NullMultis
  <2> QED
    BY <1>1, <2>1, NullMultiPanics, Zenon
<1> QED
  BY <1>1, <1>2, <1>3, <1>4, <1>5, <1>6, Zenon

-----------------------------------------------------------------------------
(* Requests, whatever they hold *)

(* What a request's turn is about. *)
LEMMA RequestTurnIs ==
  ASSUME TurnInv, kind = "request"
  PROVE  /\ item \in Seq(Tokens)
         /\ packet.st # "none" => packet = decode(item)
         /\ \A i \in DOMAIN sent : packet.st = "ok" /\ sent[i] = encode(packet)
            /\ packet = decode(item)
<1>1. item \in GoodFrames \cup RefusedFrames \cup OtherFrames
  BY KindsDiffer, Zenon DEF TurnInv, Starting, IsRecord
<1>2. item \in Seq(Tokens)
  BY <1>1, GoodReadWhole, RefusedPanics, CodecsAssumption, Zenon DEF Panics
<1>3. packet = Refused("none") \/ packet = decode(item)
  BY Zenon DEF TurnInv, RequestTurn
<1>4. Refused("none").st = "none" /\ Refused("none").st # "ok"
  BY RefusedIs, Zenon
<1>5. ASSUME NEW i \in DOMAIN sent
      PROVE  packet.st = "ok" /\ sent[i] = encode(packet) /\ packet = decode(item)
  <2>1. sent = <<>> \/ (packet.st = "ok" /\ sent = <<encode(packet)>>)
    BY Zenon DEF TurnInv, RequestTurn
  <2>2. sent # <<>>
    BY <1>5, EmptyFacts
  <2> DEFINE e == encode(packet)
  <2> HIDE DEF e
  <2>3. sent = <<e>>
    BY <2>1, <2>2, Zenon DEF e
  <2>4. sent[i] = e
    BY <1>5, <2>3
  <2> QED
    BY <1>3, <1>4, <2>1, <2>2, <2>4, Zenon DEF e
<1> QED
  BY <1>2, <1>3, <1>4, <1>5, Zenon

(* The length put in front of a forwarded request is the number of bytes that follow it, whatever
   the client sent: put_i32(size()) of ClientPacketCodec::encode and what serialize_into() then
   writes, for every request, every multi and every damaged frame that decode() still accepts. *)
THEOREM PrefixIsLength == Spec => []LengthPrefixIsBodyLength
<1>1. TurnInv => LengthPrefixIsBodyLength
  <2> SUFFICES ASSUME TurnInv, kind = "request", NEW i \in DOMAIN sent
               PROVE  sent[i].len = Width(sent[i].body)
    BY Zenon DEF LengthPrefixIsBodyLength
  <2>1. /\ item \in Seq(Tokens) /\ packet.st = "ok" /\ sent[i] = encode(packet)
        /\ packet = decode(item)
    BY RequestTurnIs, Zenon
  <2>2. SizePacket(packet) = Width(SerializePacket(packet))
    BY <2>1, DecodeForwards, Zenon DEF Forwarded, ConnectForwarded
  <2> DEFINE e == encode(packet)
  <2>3. e.len = SizePacket(packet) /\ e.body = SerializePacket(packet)
    BY DEF encode
  <2> HIDE DEF e
  <2> QED
    BY <2>1, <2>2, <2>3, Zenon DEF e
<1> QED
  BY <1>1, TurnsAreTaken, PTL

(* Of the well formed requests of a client, whatever their fields hold and however many operations
   a multi has, ServerPacketCodec::decode panics on those with a null and on those of an operation
   without an arm, and takes every other one. *)
THEOREM RequestsEnd == Spec => []RequestOutcome
<1>1. TurnInv => RequestOutcome
  <2> SUFFICES ASSUME TurnInv, kind = "request", packet.st # "none"
               PROVE  /\ item \in GoodFrames => packet.st = "ok"
                      /\ item \in RefusedFrames => packet.st = "panic"
    BY Zenon DEF RequestOutcome
  <2>1. packet = decode(item)
    BY RequestTurnIs, Zenon
  <2> QED
    BY <2>1, GoodReadWhole, RefusedPanics, Zenon DEF ReadWhole, Panics
<1> QED
  BY <1>1, TurnsAreTaken, PTL

(* What the backend is sent is what the client sent, token by token: all of a well formed request,
   and of any other that decode() accepts the part before what it leaves unread. *)
THEOREM RequestsAreForwarded == Spec => []ForwardedAsSent
<1>1. TurnInv => ForwardedAsSent
  <2> DEFINE Body(i) == IF packet.variant = "Connect" THEN Front(sent[i].body) ELSE sent[i].body
  <2> SUFFICES ASSUME TurnInv, kind = "request", NEW i \in DOMAIN sent
               PROVE  /\ IsPrefix(Body(i), item)
                      /\ item \in GoodFrames /\ packet.variant # "Connect" => Body(i) = item
    BY Zenon DEF ForwardedAsSent
  <2>1. /\ item \in Seq(Tokens) /\ packet.st = "ok" /\ sent[i] = encode(packet)
        /\ packet = decode(item)
    BY RequestTurnIs, Zenon
  <2>2. sent[i].body = SerializePacket(packet)
    <3> DEFINE e == encode(packet)
    <3>1. e.body = SerializePacket(packet)
      BY DEF encode
    <3> HIDE DEF e
    <3> QED
      BY <2>1, <3>1, Zenon DEF e
  <2>3. ConnectForwarded(item, packet) \/ \E rest \in Seq(Tokens) : Forwarded(item, packet, rest)
    BY <2>1, DecodeForwards, Zenon
  <2>4. CASE ConnectForwarded(item, packet)
    <3>1. PICK head \in Seq(Tokens), t \in Tokens, rest \in Seq(Tokens) :
            SerializePacket(packet) = head \o <<t>> /\ item = head \o rest
      BY <2>4, Zenon DEF ConnectForwarded
    <3>2. packet.variant = "Connect"
      BY <2>4, Zenon DEF ConnectForwarded
    <3>3. Body(i) = head
      BY <2>2, <3>1, <3>2, PrefixOf, Zenon
    <3>4. IsPrefix(head, item)
      BY <3>1, PrefixOf, Zenon
    <3> QED
      BY <3>2, <3>3, <3>4, Zenon
  <2>5. ASSUME NEW rest \in Seq(Tokens), Forwarded(item, packet, rest)
        PROVE  /\ IsPrefix(Body(i), item)
               /\ item \in GoodFrames /\ packet.variant # "Connect" => Body(i) = item
    <3>1. /\ SerializePacket(packet) \in Seq(Tokens) /\ item = SerializePacket(packet) \o rest
          /\ packet.variant # "Connect"
      BY <2>5, Zenon DEF Forwarded
    <3>2. Body(i) = SerializePacket(packet)
      BY <2>2, <3>1, Zenon
    <3>3. PICK t : t \in Tokens
      <4>1. Token(1, 0) \in Tokens
        BY TokensAre
      <4> QED
        BY <4>1, Zenon
    <3>4. IsPrefix(SerializePacket(packet), item)
      BY <3>1, <3>3, PrefixOf, Zenon
    <3>5. item \in GoodFrames => SerializePacket(packet) = item
      BY <2>1, <3>1, GoodReadWhole, Zenon DEF ReadWhole
    <3> QED
      BY <3>2, <3>4, <3>5, Zenon
  <2> QED
    BY <2>3, <2>4, <2>5, Zenon
<1> QED
  BY <1>1, TurnsAreTaken, PTL

-----------------------------------------------------------------------------
(* What decodeReply() makes of a reply *)

(* size() of every reply is right, but for what ZkResponse::size() makes of an ACL list. *)
LEMMA ResponsesFit ==
  /\ \A v \in DOMAIN ResponseRecord : v # "Connect" => Fits(Fields, ResponseRecord[v])
  /\ ResponseRecord["Connect"] = ConnectResponse /\ ResponseRecord["Empty"] = NoBody
  /\ ResponseRecord["WatchEvent"] = WatcherEvent
  /\ "Empty" \in DOMAIN ResponseRecord /\ "WatchEvent" \in DOMAIN ResponseRecord
  /\ "Multi" \notin DOMAIN ResponseRecord /\ Fits(Fields, ReplyHeader)
<1>1. \A R \in SmallRecords : Fits(Fields, R)
  BY SmallFit, Zenon
<1>2. Fits(Fields, Then(Record(<<"vec_acl">>, 0, {1}), Stat))
  BY ComposedFit, Zenon DEF GetACLResponse
<1>3. \A v \in DOMAIN ResponseRecord : v # "Connect" =>
        ResponseRecord[v] \in SmallRecords \cup
          {NoBody, Stat, Create2Response, GetDataResponse, Then(Strings, Stat),
           Then(Record(<<"vec_acl">>, 0, {1}), Stat)}
  BY SmallOnes DEF ResponseRecord
<1>4. /\ ResponseRecord["Connect"] = ConnectResponse /\ ResponseRecord["Empty"] = NoBody
      /\ ResponseRecord["WatchEvent"] = WatcherEvent
      /\ "Empty" \in DOMAIN ResponseRecord /\ "WatchEvent" \in DOMAIN ResponseRecord
      /\ "Multi" \notin DOMAIN ResponseRecord
  BY DEF ResponseRecord
<1>5. ReplyHeader \in SmallRecords
  BY SmallOnes, Zenon
<1>6. /\ Fits(Fields, NoBody) /\ Fits(Fields, Stat) /\ Fits(Fields, Create2Response)
      /\ Fits(Fields, GetDataResponse) /\ Fits(Fields, Then(Strings, Stat))
  BY WireFits, StatFits, ComposedFit, Zenon
<1> QED
  BY <1>1, <1>2, <1>3, <1>4, <1>5, <1>6, Zenon

(* Every opcode is answered by a reply with a record of its own. *)
LEMMA ResponseVariantsAre ==
  /\ \A op \in DOMAIN ResponseVariant : ResponseVariant[op] \in DOMAIN ResponseRecord \ {"Connect"}
  /\ "Multi" \notin DOMAIN ResponseVariant
  BY DEF ResponseVariant, ResponseRecord

\* What was read of `body` as the variant v is what its record writes, but for `rest`
ReplyPart(body, v, val, rest) ==
  LET R == ResponseRecord[v]
  IN  Whole(body, [st |-> "ok", val |-> val, rest |-> rest], Serialize(R, val), Size(R, val))

\* p is written as it was read of f, but for what is left behind its end
ReplyForwarded(f, p, rest) ==
  /\ SerializeReply(p) \in Seq(Tokens) /\ rest \in Seq(Tokens)
  /\ f = SerializeReply(p) \o rest
  /\ p.variant # "GetAcl" => SizeReply(p) = Width(SerializeReply(p))
  /\ p.variant \notin {"Connect", "Multi"}

(* A reply behind its header. *)
LEMMA HeadedReplyForwarded ==
  ASSUME NEW f, NEW header \in RowsIn(ReplyHeader), NEW body \in Seq(Tokens),
         f = Serialize(ReplyHeader, header) \o body,
         NEW v \in DOMAIN ResponseRecord \ {"Connect"}, NEW val, NEW rest,
         ReplyPart(body, v, val, rest), NEW p, PacketOf(p, header, v, val)
  PROVE  ReplyForwarded(f, p, rest)
<1> DEFINE R == ResponseRecord[v]
           a == Serialize(ReplyHeader, header)
           b == Serialize(R, val)
           g == [st |-> "ok", val |-> val, rest |-> rest]
<1>1. p.header = header /\ p.variant = v /\ p.val = val
  BY Zenon DEF PacketOf
<1>2. g.st = "ok" /\ g.rest = rest
  OBVIOUS
<1>3. Whole(body, g, b, Size(R, val))
  BY Zenon DEF ReplyPart
<1> HIDE DEF g
<1>4. /\ b \in Seq(Tokens) /\ rest \in Seq(Tokens) /\ body = b \o rest
      /\ Size(R, val) = Width(b) /\ Size(R, val) \in Nat
  BY <1>2, <1>3, Zenon DEF Whole
<1>5. Fits(Fields, ReplyHeader)
  BY ResponsesFit, Zenon
<1>6. a \in Seq(Tokens) /\ Width(a) = Size(ReplyHeader, header)
        /\ Size(ReplyHeader, header) \in Nat
  BY <1>5, RowIs, Zenon
<1>7. header # <<>>
  <2>1. ReplyHeader.wire \in Seq(Fields)
    BY <1>5, Zenon DEF Fits
  <2>2. Len(header) = Len(ReplyHeader.wire)
    BY <2>1, RecPutIs, Zenon DEF RowsIn
  <2>3. Len(ReplyHeader.wire) = 3
    BY DEF ReplyHeader, Record
  <2>4. Len(<<>>) = 0 /\ 0 # 3
    BY EmptyFacts
  <2> QED
    BY <2>2, <2>3, <2>4, Zenon
<1>8. SerializeReply(p) = a \o b
  BY <1>1, <1>7, Zenon DEF SerializeReply
<1>9. v # "GetAcl" => SizeReply(p) = Size(ReplyHeader, header) + Size(R, val)
  BY <1>1, <1>7, Zenon DEF SizeReply, SizeResponse
<1>10. v # "Connect" /\ v # "Multi"
  BY ResponsesFit
<1> HIDE DEF a, b, R
<1>11. Width(a \o b) = Width(a) + Width(b) /\ a \o b \in Seq(Tokens)
  BY <1>4, <1>6, WidthOfConcat, Zenon
<1>12. Three(a, b, rest)
  BY <1>4, <1>6, TokensAssociate, Zenon
<1>13. f = (a \o b) \o rest
  BY <1>4, <1>12, Zenon DEF Three, a
<1>14. v # "GetAcl" => SizeReply(p) = Width(a \o b)
  BY <1>4, <1>6, <1>9, <1>11
<1> QED
  BY <1>1, <1>4, <1>8, <1>10, <1>11, <1>13, <1>14, Zenon DEF ReplyForwarded

(* A record that is written with no fields. *)
LEMMA NothingWritten ==
  /\ Fits(Fields, NoBody) /\ <<>> \in RowsIn(NoBody) /\ Serialize(NoBody, <<>>) = <<>>
<1>1. NoBody.wire = <<>> /\ Fits(Fields, NoBody)
  BY WireFits DEF NoBody, Record
<1>2. DOMAIN <<>> = {} /\ Len(<<>>) = 0 /\ <<>> \in Seq(FieldVal) /\ <<>> \in Seq(Fields)
        /\ <<>> \in Seq(Tokens)
  BY EmptyFacts, Zenon
<1>3. <<>> \in RowsIn(NoBody)
  <2>1. 1 .. 0 = {}
    OBVIOUS
  <2>2. /\ NoBody.wire \in Seq(Fields) /\ <<>> \in Seq(FieldVal) /\ Len(<<>>) = Len(NoBody.wire)
        /\ \A i \in 1 .. Len(NoBody.wire) : <<>>[i] \in FieldSet(NoBody.wire[i])
    BY <1>1, <1>2, <2>1, Zenon
  <2> QED
    BY <2>2, RecPutIs, Zenon DEF RowsIn
<1>4. Serialize(NoBody, <<>>) = <<>>
  <2>1. [i \in DOMAIN NoBody.wire |-> PutField(NoBody.wire[i], <<>>[i])] = <<>>
    BY <1>1, <1>2
  <2>2. FlattenSeq(<<>>) = <<>>
    BY <1>2, FlatFew, Zenon
  <2> QED
    BY <2>1, <2>2, Zenon DEF Serialize
<1> QED
  BY <1>1, <1>3, <1>4, Zenon

(* A reply without a body leaves all that follows its header unread. *)
LEMMA EmptyPart ==
  ASSUME NEW body \in Seq(Tokens)
  PROVE  ReplyPart(body, "Empty", <<>>, body)
<1> DEFINE g == [st |-> "ok", val |-> <<>>, rest |-> body]
           s == Serialize(NoBody, <<>>)
<1>1. s \in Seq(Tokens) /\ Width(s) = Size(NoBody, <<>>) /\ Size(NoBody, <<>>) \in Nat
  BY NothingWritten, RowIs, Zenon
<1>2. body = s \o body
  BY NothingWritten, ConcatEmptySeq, Zenon
<1>3. g.rest = body
  OBVIOUS
<1> HIDE DEF g
<1>4. Whole(body, g, s, Size(NoBody, <<>>))
  BY <1>1, <1>2, <1>3, Zenon DEF Whole
<1>5. ResponseRecord["Empty"] = NoBody
  BY ResponsesFit, Zenon
<1> QED
  BY <1>4, <1>5, Zenon DEF ReplyPart, g

(* What the record of a reply has read. *)
LEMMA RecordPart ==
  ASSUME NEW body \in Seq(Tokens), NEW v \in DOMAIN ResponseRecord \ {"Connect"}
  PROVE  LET q == Deserialize(ResponseRecord[v], body)
         IN  /\ q \in [st : Outcomes, val : Seq(FieldVal), rest : Seq(Tokens)]
             /\ q.st = "ok" => ReplyPart(body, v, q.val, q.rest)
<1> DEFINE R == ResponseRecord[v]
           q == Deserialize(R, body)
           g == [st |-> "ok", val |-> q.val, rest |-> q.rest]
<1>1. Fits(Fields, R)
  BY ResponsesFit, Zenon
<1> HIDE DEF R
<1>2. R.wire \in Seq(Fields)
  BY <1>1, Zenon DEF Fits
<1>3. q \in [st : Outcomes, val : Seq(FieldVal), rest : Seq(Tokens)]
  BY <1>2, RecordRead, Zenon DEF Starts
<1>4. Whole(body, q, Serialize(R, q.val), Size(R, q.val))
  BY <1>1, RecordWhole, Zenon
<1> HIDE DEF q
<1>5. g.st = "ok" /\ g.rest = q.rest
  OBVIOUS
<1> HIDE DEF g
<1>6. q.st = "ok" => Whole(body, g, Serialize(R, q.val), Size(R, q.val))
  BY <1>4, <1>5, Zenon DEF Whole
<1> QED
  BY <1>3, <1>6, Zenon DEF ReplyPart, g, q, R

(* The assertion that ends the arms of ZkResponse::deserialize(). *)
LEMMA AssertEmptyIs ==
  ASSUME NEW q \in [st : Outcomes, val : Seq(FieldVal), rest : Seq(Tokens)]
  PROVE  /\ AssertEmpty(q).st = "ok" => q.st = "ok" /\ AssertEmpty(q) = q
         /\ q.rest = <<>> => AssertEmpty(q) = q
<1>1. CASE q.st = "ok" /\ q.rest # <<>>
  <2>1. AssertEmpty(q) = Stop(q, "panic")
    BY <1>1, Zenon DEF AssertEmpty
  <2>2. Stop(q, "panic").st = "panic"
    BY DEF Stop
  <2>3. "panic" # "ok"
    OBVIOUS
  <2> QED
    BY <1>1, <2>1, <2>2, <2>3, Zenon
<1>2. CASE ~(q.st = "ok" /\ q.rest # <<>>)
  <2>1. AssertEmpty(q) = q
    BY <1>2, Zenon DEF AssertEmpty
  <2> QED
    BY <2>1, Zenon
<1> QED
  BY <1>1, <1>2, Zenon

\* What becomes of a reply: only a multi is not written as it was read
Passed(f, p) == p.variant = "Multi" \/ \E rest \in Seq(Tokens) : ReplyForwarded(f, p, rest)

(* The packet of what was read behind a header. *)
LEMMA HeadedPassed ==
  ASSUME NEW f, NEW header \in RowsIn(ReplyHeader), NEW body \in Seq(Tokens),
         f = Serialize(ReplyHeader, header) \o body,
         NEW v \in DOMAIN ResponseRecord \ {"Connect"}, NEW r, NEW rest, NEW assertEmpty,
         r.st = "ok" => ReplyPart(body, v, r.val, rest),
         NEW p, p = Packet(header, v, r, assertEmpty), p.st = "ok"
  PROVE  Passed(f, p)
<1>1. r.st = "ok" /\ p.header = header /\ p.variant = v /\ p.val = r.val
  BY PacketIs
<1>2. PacketOf(p, header, v, r.val)
  BY <1>1, Zenon DEF PacketOf
<1>3. ReplyForwarded(f, p, rest)
  BY <1>1, <1>2, HeadedReplyForwarded, Zenon
<1> QED
  BY <1>3, Zenon DEF Passed, ReplyForwarded

PacketAs(p, header, v, r, assertEmpty) == p = Packet(header, v, r, assertEmpty)

(* A packet has the variant it was made for. *)
LEMMA PacketVariant ==
  ASSUME NEW header, NEW v, NEW r, NEW assertEmpty,
         NEW p, PacketAs(p, header, v, r, assertEmpty), p.st = "ok"
  PROVE  p.variant = v
  BY PacketIs DEF PacketAs

(* An empty reader. *)
LEMMA ReaderOf ==
  ASSUME NEW toks
  PROVE  Reader(toks).st = "ok" /\ Reader(toks).val = <<>> /\ Reader(toks).rest = toks
  BY DEF Reader

(* What was read behind the header of a reply is written as it was read. *)
LEMMA DecodeHeadedReplyForwards ==
  ASSUME NEW f \in Seq(Tokens), NEW map, NEW p,
         p = DecodeHeaded(Deserialize(ReplyHeader, f), map), p.st = "ok"
  PROVE  Passed(f, p)
<1> DEFINE h == Deserialize(ReplyHeader, f)
<1>1. /\ h.rest \in Seq(Tokens) /\ (h.st = "ok" => h.val \in RowsIn(ReplyHeader))
      /\ Whole(f, h, Serialize(ReplyHeader, h.val), Size(ReplyHeader, h.val))
  BY ResponsesFit, RecordWhole, Zenon
<1>2. p = DecodeHeaded(h, map)
  OBVIOUS
<1> HIDE DEF h
<1>3. h.st = "ok"
  <2>1. h.st # "ok" => p = Refused(h.st)
    BY <1>2, Zenon DEF DecodeHeaded
  <2> QED
    BY <2>1, RefusedIs, Zenon
<1>4. h.val \in RowsIn(ReplyHeader) /\ f = Serialize(ReplyHeader, h.val) \o h.rest
  BY <1>1, <1>3, Zenon DEF Whole
<1>5. "Empty" \in DOMAIN ResponseRecord \ {"Connect"}
        /\ "WatchEvent" \in DOMAIN ResponseRecord \ {"Connect"}
  BY ResponsesFit
<1>6. ASSUME NEW toks, NEW assertEmpty, p = Packet(h.val, "Empty", Reader(toks), assertEmpty)
      PROVE  Passed(f, p)
  <2> DEFINE r == Reader(toks)
  <2>1. ReplyPart(h.rest, "Empty", r.val, h.rest)
    BY <1>1, EmptyPart, ReaderOf, Zenon
  <2> HIDE DEF r
  <2> QED
    BY <1>1, <1>4, <1>5, <1>6, <2>1, HeadedPassed, Zenon DEF r
<1> DEFINE xid == h.val[1]
<1> HIDE DEF xid
<1>7. XidCodes.WatchXid = -1 /\ XidCodes.PingXid = -2 /\ XidCodes.AuthXid = -4
        /\ XidCodes.SetWatchesXid = -8
  BY DEF XidCodes
<1>0. -1 # -2 /\ -1 # -4 /\ -1 # -8 /\ -2 # -4 /\ -2 # -8 /\ -4 # -8
  OBVIOUS
<1>8. CASE xid = -1
  <2>1. p = Packet(h.val, "WatchEvent", Deserialize(WatcherEvent, h.rest), FALSE)
    BY <1>0, <1>2, <1>3, <1>7, <1>8, Zenon DEF DecodeHeaded, xid
  <2> DEFINE R == ResponseRecord["WatchEvent"]
             r == Deserialize(R, h.rest)
  <2>2. p = Packet(h.val, "WatchEvent", r, FALSE)
    BY <2>1, ResponsesFit, Zenon
  <2>3. r.st = "ok" => ReplyPart(h.rest, "WatchEvent", r.val, r.rest)
    BY <1>1, <1>5, RecordPart, Zenon
  <2> HIDE DEF r
  <2> QED
    BY <1>1, <1>4, <1>5, <2>2, <2>3, HeadedPassed, Zenon
<1>9. CASE xid = -2
  <2>1. p = Packet(h.val, "Empty", Reader(<<>>), FALSE)
    BY <1>0, <1>2, <1>3, <1>7, <1>9, Zenon DEF DecodeHeaded, xid
  <2> QED
    BY <1>6, <2>1, Zenon
<1>10. CASE xid = -4
  <2>1. p = Packet(h.val, "Empty", Reader(h.rest), TRUE)
    BY <1>0, <1>2, <1>3, <1>7, <1>10, Zenon DEF DecodeHeaded, xid
  <2> QED
    BY <1>6, <2>1, Zenon
<1>11. CASE xid = -8
  <2>1. p = Refused("panic")
    BY <1>0, <1>2, <1>3, <1>7, <1>11, Zenon DEF DecodeHeaded, xid
  <2> QED
    BY <2>1, RefusedIs, Zenon
<1>12. CASE xid # -1 /\ xid # -2 /\ xid # -4 /\ xid # -8
  <2> DEFINE err == h.val[3]
             op == map[h.val[1]]
  <2>1. p = DecodeAnswer(h.val, h.rest, map)
    BY <1>2, <1>3, <1>7, <1>12, Zenon DEF DecodeHeaded, xid
  <2>2. CASE err # 0
    <3>1. p = Packet(h.val, "Empty", Reader(<<>>), FALSE)
      BY <2>1, <2>2, Zenon DEF DecodeAnswer
    <3> QED
      BY <1>6, <3>1, Zenon
  <2>3. CASE err = 0 /\ h.val[1] \notin DOMAIN map
    <3>1. p = Refused("err")
      BY <2>1, <2>3, Zenon DEF DecodeAnswer
    <3> QED
      BY <3>1, RefusedIs, Zenon
  <2>4. CASE err = 0 /\ h.val[1] \in DOMAIN map
    <3>1. p = DecodeResponse(h.val, op, h.rest)
      BY <2>1, <2>4, Zenon DEF DecodeAnswer
    <3> HIDE DEF op
    <3>2. CASE op = "Multi"
      <4> DEFINE r == DeserializeMultiResponse(h.rest)
      <4>1. p = Packet(h.val, "Multi", r, TRUE)
        BY <3>1, <3>2, ResponseVariantsAre, Zenon DEF DecodeResponse
      <4> DEFINE v == "Multi"
      <4>3. p = Packet(h.val, v, r, TRUE)
        BY <4>1
      <4> HIDE DEF r, v
      <4>4. p.variant = v
        <5>1. PacketAs(p, h.val, v, r, TRUE)
          BY <4>3, Zenon DEF PacketAs
        <5> QED
          BY <5>1, PacketVariant, Zenon
      <4>2. p.variant = "Multi"
        BY <4>4, Zenon DEF v
      <4> QED
        BY <4>2, Zenon DEF Passed
    <3>3. CASE op # "Multi" /\ op \in DOMAIN ResponseVariant
      <4> DEFINE v == ResponseVariant[op]
                 q == Deserialize(ResponseRecord[v], h.rest)
                 r == AssertEmpty(q)
      <4>1. v \in DOMAIN ResponseRecord \ {"Connect"}
        BY <3>3, ResponseVariantsAre, Zenon
      <4>2. p = Packet(h.val, v, r, TRUE)
        BY <3>1, <3>3, Zenon DEF DecodeResponse, DeserializePlain
      <4> HIDE DEF v
      <4>3. /\ q \in [st : Outcomes, val : Seq(FieldVal), rest : Seq(Tokens)]
            /\ q.st = "ok" => ReplyPart(h.rest, v, q.val, q.rest)
        BY <1>1, <4>1, RecordPart, Zenon
      <4> HIDE DEF q
      <4>4. r.st = "ok" => ReplyPart(h.rest, v, r.val, r.rest)
        BY <4>3, AssertEmptyIs, Zenon
      <4> HIDE DEF r
      <4> QED
        BY <1>1, <1>4, <4>1, <4>2, <4>4, HeadedPassed, Zenon
    <3>4. CASE op # "Multi" /\ op \notin DOMAIN ResponseVariant
      <4>1. p = Refused("panic")
        BY <3>1, <3>4, Zenon DEF DecodeResponse
      <4> QED
        BY <4>1, RefusedIs, Zenon
    <3> QED
      BY <3>2, <3>3, <3>4, Zenon
  <2> QED
    BY <2>2, <2>3, <2>4, Zenon
<1> QED
  BY <1>8, <1>9, <1>10, <1>11, <1>12, Zenon

\* The fields of a connect reply before read_only
ConnectReplyFields == Record(<<"i32", "i32", "i64", "buffer">>, 4 + 4 + 8, {4})

(* A connect reply ends in read_only. *)
LEMMA ConnectReplyEnds ==
  EndsInReadOnly(ConnectResponse, ConnectReplyFields) /\ Fits(WireFields, ConnectResponse)
<1>1. {"i32", "i64", "buffer"} \subseteq Fields /\ "read_only" \in WireFields
        /\ Fields \subseteq WireFields
  BY WidthsOfFields, Zenon DEF WireFields
<1>2. ConnectReplyFields.wire = <<"i32", "i32", "i64", "buffer">>
  BY DEF ConnectReplyFields, Record
<1>3. ConnectResponse.wire = <<"i32", "i32", "i64", "buffer", "read_only">>
  BY DEF ConnectResponse, Record
<1>4. ConnectReplyFields.wire \in Seq(Fields) /\ Len(ConnectReplyFields.wire) = 4
  BY <1>1, <1>2
<1>5. /\ Len(ConnectResponse.wire) = 5 /\ ConnectResponse.wire[5] = "read_only"
      /\ \A i \in 1 .. 4 : ConnectResponse.wire[i] = ConnectReplyFields.wire[i]
  BY <1>2, <1>3
<1>6. Fits(WireFields, ConnectResponse)
  BY WireFits, Zenon
<1>7. ConnectResponse.wire \in Seq(WireFields)
  BY <1>6, Zenon DEF Fits
<1>8. EndsInReadOnly(ConnectResponse, ConnectReplyFields)
  BY <1>4, <1>5, <1>7 DEF EndsInReadOnly
<1> QED
  BY <1>6, <1>8, Zenon

\* p is a connect reply, written as it was read of f but for its last byte
ConnectPassed(f, p) ==
  p.variant = "Connect" /\ EndsForwarded(f, SerializeReply(p), SizeReply(p))

(* A connect reply is written as it was read, up to its last byte. *)
LEMMA DecodeConnectReply ==
  ASSUME NEW f \in Seq(Tokens), NEW p,
         p = Packet(<<>>, "Connect", Deserialize(ConnectResponse, f), FALSE), p.st = "ok"
  PROVE  ConnectPassed(f, p)
<1> DEFINE R == ConnectResponse
           g == Deserialize(R, f)
<1>1. g.st = "ok" /\ p.header = <<>> /\ p.variant = "Connect" /\ p.val = g.val
  BY ConnectPacket, Zenon
<1>2. EndsInReadOnly(R, ConnectReplyFields) /\ Fits(WireFields, R)
        /\ ResponseRecord["Connect"] = R
  BY ConnectReplyEnds, ResponsesFit, Zenon
<1> HIDE DEF R
<1>3. EndsForwarded(f, Serialize(R, p.val), Size(R, p.val))
  <2>1. EndsForwarded(f, Serialize(R, g.val), Size(R, g.val))
    BY <1>1, <1>2, EndsWhole, Zenon
  <2> HIDE DEF g
  <2> QED
    BY <1>1, <2>1, Zenon
<1>4. SerializeReply(p) = Serialize(R, p.val)
  <2>1. SerializeReply(p) = <<>> \o Serialize(R, p.val)
    BY <1>1, <1>2, Zenon DEF SerializeReply
  <2> QED
    BY <1>3, <2>1, ConcatEmptySeq, Zenon DEF EndsForwarded
<1>5. SizeReply(p) = Size(R, p.val)
  <2>1. "Connect" # "GetAcl"
    OBVIOUS
  <2>2. SizeReply(p) = 0 + Size(R, p.val)
    BY <1>1, <1>2, <2>1, Zenon DEF SizeReply, SizeResponse
  <2>3. Size(R, p.val) \in Nat
    BY <1>3, Zenon DEF EndsForwarded
  <2>4. \A n \in Nat : 0 + n = n
    OBVIOUS
  <2> QED
    BY <2>2, <2>3, <2>4, Zenon
<1> QED
  BY <1>1, <1>3, <1>4, <1>5, Zenon DEF ConnectPassed

(* A reply that is read is written as it was read: all of it, but for the last byte of a connect
   reply, what is behind its end, and a multi, which is not written at all. *)
LEMMA DecodeReplyForwards ==
  ASSUME NEW f \in Seq(Tokens), NEW map, NEW p, p = decodeReply(f, map), p.st = "ok"
  PROVE  /\ Width(f) \in Nat /\ Width(f) <= MaxFrameLength
         /\ ConnectPassed(f, p) \/ Passed(f, p)
<1>0. Width(f) \in Nat
  BY WidthsAre, Zenon
<1>1. CASE Width(f) > MaxFrameLength
  <2>1. p = Refused("err")
    BY <1>1, Zenon DEF decodeReply
  <2> QED
    BY <2>1, RefusedIs, Zenon
<1>2. CASE ~(Width(f) > MaxFrameLength) /\ Width(f) < 4
  <2>1. p = Refused("panic")
    BY <1>2, Zenon DEF decodeReply
  <2> QED
    BY <2>1, RefusedIs, Zenon
<1>3. CASE ~(Width(f) > MaxFrameLength) /\ ~(Width(f) < 4)
  <2>0. Width(f) <= MaxFrameLength
    BY <1>0, <1>3, MaxFrameLengthAssumption
  <2>1. CASE f[1] = Token(4, XidCodes.ConnectXid)
    <3>1. p = Packet(<<>>, "Connect", Deserialize(ConnectResponse, f), FALSE)
      BY <1>3, <2>0, <2>1, Zenon DEF decodeReply
    <3> QED
      BY <1>0, <2>0, <3>1, DecodeConnectReply, Zenon
  <2>2. CASE f[1] # Token(4, XidCodes.ConnectXid)
    <3>1. p = DecodeHeaded(Deserialize(ReplyHeader, f), map)
      BY <1>3, <2>0, <2>2, Zenon DEF decodeReply
    <3> QED
      BY <1>0, <2>0, <3>1, DecodeHeadedReplyForwards, Zenon
  <2> QED
    BY <2>1, <2>2, Zenon
<1> QED
  BY <1>1, <1>2, <1>3, Zenon

-----------------------------------------------------------------------------
(* Well formed replies *)

(* The loop of a multi's reply that has stopped after its first turn. *)
LEMMA OneReplyTurn ==
  ASSUME NEW f \in Seq(Tokens), NEW g, MultiReplyTurn(MultiReplyLoop(f)) = g, MultiReplyTurn(g) = g
  PROVE  DeserializeMultiResponse(f) = MultiResponse(g)
<1> DEFINE m == MultiReplyLoop(f)
<1>8. MultiReplyTurn(m) = g
  OBVIOUS
<1>10. MultiReplyTurn(g) = g
  OBVIOUS
<1> HIDE DEF m
<1> DEFINE n == Len(f) + 1
           F == MultiReplyTurns(m, n)
           Eq(s) == [i \in 0 .. n |-> IF i = 0 THEN m ELSE MultiReplyTurn(s[i - 1])]
           c == [i \in 0 .. n |-> IF i = 0 THEN m ELSE g]
<1>11. n \in Nat /\ n # 0 /\ n \in 0 .. n /\ 0 \in 0 .. n
  <2>1. Len(f) \in Nat
    BY LenProperties, Zenon
  <2> QED
    BY <2>1
<1>12. F = CHOOSE s : s = Eq(s)
  BY Zenon DEF MultiReplyTurns
<1> HIDE DEF n
<1>13. /\ \A i \in 0 .. n : i # 0 => i - 1 \in 0 .. n
       /\ \A i \in 1 .. n : i # 0 /\ i \in 0 .. n /\ i - 1 \in 0 .. n
  BY <1>11
<1>14. c = Eq(c)
  <2>1. ASSUME NEW i \in 0 .. n
        PROVE  c[i] = IF i = 0 THEN m ELSE MultiReplyTurn(c[i - 1])
    <3>1. CASE i = 0
      BY <3>1, Zenon
    <3>2. CASE i # 0
      <4>1. c[i - 1] = m \/ c[i - 1] = g
        BY <1>13, <3>2, Zenon
      <4> QED
        BY <1>8, <1>10, <3>2, <4>1, Zenon
    <3> QED
      BY <3>1, <3>2, Zenon
  <2> QED
    BY <2>1, Zenon
<1>15. F = Eq(F)
  <2> HIDE DEF Eq, F, c
  <2> QED
    BY <1>12, <1>14, Zenon
<1> HIDE DEF F
<1>16. F[0] = m /\ \A i \in 1 .. n : F[i] = MultiReplyTurn(F[i - 1])
  BY <1>11, <1>13, <1>15, Zenon
<1> DEFINE T == {i \in 0 .. n : F[i] = IF i = 0 THEN m ELSE g}
<1>17. 0 \in T
  BY <1>11, <1>16, Zenon
<1>18. ASSUME NEW i \in 1 .. n, i - 1 \in T
       PROVE  i \in T
  <2>1. F[i - 1] = m \/ F[i - 1] = g
    BY <1>18, Zenon
  <2>2. F[i] = g
    BY <1>8, <1>10, <1>16, <2>1, Zenon
  <2> QED
    BY <1>13, <2>2, Zenon
<1> HIDE DEF T
<1>19. n \in T
  BY <1>11, <1>17, <1>18, InductionTo, Zenon
<1>20. F[n] = g
  BY <1>11, <1>19, Zenon DEF T
<1> QED
  BY <1>20, Zenon DEF DeserializeMultiResponse, m, n, F

(* The reply to a multi without operations is read to its end. *)
LEMMA MultiReplyRead ==
  ASSUME NEW f, f = MultiReplyDone
  PROVE  /\ f \in Seq(Tokens) /\ DeserializeMultiResponse(f).st = "ok"
         /\ DeserializeMultiResponse(f).rest = <<>>
<1> DEFINE h == Deserialize(MultiHeader, f)
           header == <<-1, 1, -1>>
           m == MultiReplyLoop(f)
           g == [st |-> IF m.nested THEN "panic" ELSE "ok", rest |-> h.rest,
                 results |-> m.results, done_header |-> h.val, nested |-> m.nested]
<1>1. f \in Seq(Tokens)
        /\ Deserialize(MultiHeader, f \o <<>>) = [st |-> "ok", val |-> header, rest |-> <<>>]
  <2>1. 1 \in Int /\ -1 \in Int /\ <<>> \in Seq(Tokens)
    BY EmptyFacts
  <2> QED
    BY <2>1, HeadersRead, Zenon DEF MultiReplyDone, MultiReplyHead
<1>2. f \o <<>> = f
  BY <1>1, ConcatEmptySeq, Zenon
<1>3. header[2] = 1
  OBVIOUS
<1> HIDE DEF header, h
<1>4. h = [st |-> "ok", val |-> header, rest |-> <<>>]
  BY <1>1, <1>2, Zenon DEF h
<1>5. h.st = "ok" /\ h.val = header /\ h.rest = <<>>
  BY <1>4
<1>6. m.st = "loop" /\ m.rest = f /\ m.nested = FALSE
  BY DEF MultiReplyLoop
<1> HIDE DEF m
<1>7. MultiReplyTurn(m) = MultiReplyHeaderRead(m, h)
  BY <1>6, Zenon DEF MultiReplyTurn, h
<1>8. MultiReplyTurn(m) = g
  BY <1>3, <1>5, <1>7, Zenon DEF MultiReplyHeaderRead
<1>9. g.st = "ok" /\ g.rest = <<>>
  BY <1>5, <1>6
<1> HIDE DEF g
<1>10. MultiReplyTurn(g) = g
  <2>1. "ok" # "loop"
    OBVIOUS
  <2> QED
    BY <1>9, <2>1, Zenon DEF MultiReplyTurn
<1> DEFINE r == DeserializeMultiResponse(f)
<1>21. r = MultiResponse(g)
  BY <1>1, <1>8, <1>10, OneReplyTurn, Zenon DEF m
<1> HIDE DEF r
<1>22. r.st = g.st /\ r.rest = g.rest
  BY <1>21 DEF MultiResponse
<1> QED
  BY <1>1, <1>9, <1>22, Zenon DEF r

\* The header of a reply, and a reply that is read to its end and written as it was
ReplyHeadOf(xid, zxid, err) == <<Token(4, xid), Token(8, zxid), Token(4, err)>>
ReplyReadWhole(f, map) ==
  /\ decodeReply(f, map).st = "ok"
  /\ decodeReply(f, map).variant \notin {"Connect", "Multi"} => SerializeReply(decodeReply(f, map)) = f

\* The header of f is read, and leaves its body
HeadRead(f, map, header, body) ==
  decodeReply(f, map) = DecodeHeaded([st |-> "ok", val |-> header, rest |-> body], map)

(* A reply that begins with a header. *)
LEMMA ReplyHeaderFirst ==
  ASSUME NEW xid \in Int, xid # 0, NEW zxid \in Int, NEW err \in Int, NEW body \in Seq(Tokens),
         NEW f, f = ReplyHeadOf(xid, zxid, err) \o body, Width(f) <= MaxFrameLength, NEW map
  PROVE  /\ f \in Seq(Tokens)
            /\ WrittenAs(ReplyHeader, <<xid, zxid, err>>, ReplyHeadOf(xid, zxid, err))
         /\ ReplyHeadOf(xid, zxid, err) \in Seq(Tokens)
         /\ HeadRead(f, map, <<xid, zxid, err>>, body)
<1> DEFINE s == Token(4, xid)
           t == Token(8, zxid)
           u == Token(4, err)
           h == <<s, t, u>>
           header == <<xid, zxid, err>>
<1>1. h = ReplyHeadOf(xid, zxid, err)
  BY Zenon DEF ReplyHeadOf
<1>2. h \in Seq(Tokens)
        /\ Deserialize(ReplyHeader, h \o body) = [st |-> "ok", val |-> header, rest |-> body]
  BY HeadersRead, ZenonT(40)
<1>3. WrittenAs(ReplyHeader, header, h)
  <2>1. /\ ScalarWidth["i32"] = 4 /\ ScalarWidth["i64"] = 8
        /\ "i32" \in ScalarFields /\ "i64" \in ScalarFields
    BY DEF ScalarWidth, ScalarFields
  <2>2. WiredAs(ReplyHeader, <<"i32", "i64", "i32">>)
    BY DEF ReplyHeader, Record, WiredAs
  <2> QED
    BY <2>1, <2>2, ThreeNumbers, Zenon
<1>4. s \in Tokens /\ s.w = 4 /\ s.v = xid /\ t \in Tokens /\ u \in Tokens
  BY TokensAre
<1>5. s # Token(4, XidCodes.ConnectXid)
  <2>1. XidCodes.ConnectXid = 0
    BY DEF XidCodes
  <2>2. Token(4, 0).v = 0
    BY TokensAre
  <2> QED
    BY <1>4, <2>1, <2>2, Zenon
<1> HIDE DEF s, t, u
<1>6. Len(h) = 3 /\ h[1] = s
  BY <1>4
<1> HIDE DEF h, header
<1>7. f = h \o body
  BY <1>1, Zenon
<1>8. f \in Seq(Tokens) /\ f # <<>> /\ f[1] = s
  <2>1. /\ Len(h \o body) = Len(h) + Len(body) /\ h \o body \in Seq(Tokens)
        /\ \A i \in 1 .. Len(h) + Len(body) : (h \o body)[i] = IF i <= Len(h) THEN h[i] ELSE body[i - Len(h)]
    BY <1>2, ConcatProperties, Zenon
  <2>2. Len(body) \in Nat
    BY LenProperties, Zenon
  <2>3. 1 \in 1 .. Len(h) + Len(body) /\ 1 <= Len(h) /\ Len(h) + Len(body) # 0
    BY <1>6, <2>2
  <2>4. Len(<<>>) = 0
    BY EmptyFacts, Zenon
  <2> QED
    BY <1>6, <1>7, <2>1, <2>3, <2>4, Zenon
<1>9. ~(Width(f) < 4) /\ ~(Width(f) > MaxFrameLength)
  <2> DEFINE n == Width(f)
             k == Width(Tail(f))
  <2>1. Head(f) = s
    BY <1>8
  <2>2. k \in Nat /\ n = Head(f).w + k
    BY <1>8, WidthOfFew, Zenon
  <2>3. n = 4 + k /\ n <= MaxFrameLength
    BY <1>4, <2>1, <2>2, Zenon
  <2>4. \A i \in Nat : \A j, m \in Nat : j = 4 + i /\ j <= m => ~(j < 4) /\ ~(j > m)
    OBVIOUS
  <2>5. n \in Nat
    BY <1>8, WidthsAre, Zenon
  <2> HIDE DEF n, k
  <2>6. ~(n < 4) /\ ~(n > MaxFrameLength)
    BY <2>2, <2>3, <2>4, <2>5, MaxFrameLengthAssumption, Zenon
  <2> QED
    BY <2>6, Zenon DEF n
<1>10. decodeReply(f, map) = DecodeHeaded(Deserialize(ReplyHeader, f), map)
  BY <1>5, <1>8, <1>9, Zenon DEF decodeReply
<1> QED
  BY <1>1, <1>2, <1>3, <1>7, <1>8, <1>10, Zenon DEF header, HeadRead

(* A reply whose record is read to the end of the frame is written as it was. *)
LEMMA HeadedReplyWhole ==
  ASSUME NEW xid \in Int, xid # 0, NEW zxid \in Int, NEW err \in Int, NEW body \in Seq(Tokens),
         NEW f, f = ReplyHeadOf(xid, zxid, err) \o body, Width(f) <= MaxFrameLength, NEW map,
         NEW v \in DOMAIN ResponseRecord \ {"Connect"}, NEW r, r.st = "ok", r.rest = <<>>,
         ReplyPart(body, v, r.val, <<>>), NEW assertEmpty,
         PacketAs(decodeReply(f, map), <<xid, zxid, err>>, v, r, assertEmpty)
  PROVE  f \in Seq(Tokens) /\ ReplyReadWhole(f, map)
<1> DEFINE header == <<xid, zxid, err>>
           h == ReplyHeadOf(xid, zxid, err)
           p == decodeReply(f, map)
<1>1. f \in Seq(Tokens) /\ WrittenAs(ReplyHeader, header, h)
  BY ReplyHeaderFirst, Zenon
<1>2. header \in RowsIn(ReplyHeader) /\ f = Serialize(ReplyHeader, header) \o body
  BY <1>1, Zenon DEF WrittenAs
<1>3. p = Packet(header, v, r, assertEmpty)
  BY Zenon DEF PacketAs
<1> HIDE DEF header, h, p
<1>4. p.st = "ok" /\ p.header = header /\ p.variant = v /\ p.val = r.val
  BY <1>3, PacketIs
<1>5. PacketOf(p, header, v, r.val)
  BY <1>4, Zenon DEF PacketOf
<1>6. ReplyForwarded(f, p, <<>>)
  BY <1>2, <1>5, HeadedReplyForwarded, Zenon
<1>7. SerializeReply(p) = f
  BY <1>6, ConcatEmptySeq, Zenon DEF ReplyForwarded
<1> QED
  BY <1>1, <1>4, <1>7, Zenon DEF ReplyReadWhole, p

(* What a server writes for the fields of a reply's record is read to its end. *)
LEMMA ReplyBodyRead ==
  ASSUME NEW v \in DOMAIN ResponseRecord \ {"Connect"}, NEW fs, ResponseRecord[v].wire = fs,
         NEW b \in Images(fs)
  PROVE  LET q == Deserialize(ResponseRecord[v], b)
         IN  /\ b \in Seq(Tokens) /\ q.st = "ok" /\ q.rest = <<>>
             /\ ReplyPart(b, v, q.val, <<>>) /\ AssertEmpty(q) = q
<1> DEFINE R == ResponseRecord[v]
           q == Deserialize(R, b)
<1>1. R.wire \in Seq(Fields) /\ R.wire = fs
  BY ResponsesFit, Zenon DEF Fits
<1>2. PICK row \in RowsOf(R.wire) : b = ImageOf(R.wire, row)
  BY <1>1, Zenon DEF Images
<1>3. <<>> \in Seq(Tokens)
  BY EmptyFacts, Zenon
<1> HIDE DEF R
<1>4. b \in Seq(Tokens) /\ Deserialize(R, b \o <<>>) = [st |-> "ok", val |-> row, rest |-> <<>>]
  BY <1>1, <1>2, <1>3, ImageReadBack, Zenon
<1>5. b \o <<>> = b
  BY <1>4, ConcatEmptySeq, Zenon
<1>6. /\ q \in [st : Outcomes, val : Seq(FieldVal), rest : Seq(Tokens)]
      /\ q.st = "ok" => ReplyPart(b, v, q.val, q.rest)
  BY <1>4, RecordPart, Zenon DEF R
<1> HIDE DEF q
<1>7. q = [st |-> "ok", val |-> row, rest |-> <<>>]
  BY <1>4, <1>5, Zenon DEF q
<1>8. q.st = "ok" /\ q.rest = <<>>
  BY <1>7
<1>9. AssertEmpty(q) = q
  BY <1>6, <1>8, AssertEmptyIs, Zenon
<1> QED
  BY <1>4, <1>6, <1>8, <1>9, Zenon DEF q, R

(* The header of a reply alone. *)
LEMMA HeadAlone ==
  ASSUME NEW xid \in Int, NEW zxid \in Int, NEW err \in Int
  PROVE  ReplyHeadOf(xid, zxid, err) = ReplyHeadOf(xid, zxid, err) \o <<>>
<1> DEFINE e == ReplyHeadOf(xid, zxid, err)
<1>1. <<>> \in Seq(Tokens)
  BY EmptyFacts, Zenon
<1>2. e \in Seq(Tokens)
  BY <1>1, HeadersRead, Zenon DEF ReplyHeadOf
<1> HIDE DEF e
<1> QED
  BY <1>2, ConcatEmptySeq, Zenon DEF e

\* The replies that have no body: to a ping or an auth, or of an error
Bodyless(xid, err) == xid = -2 \/ xid = -4 \/ (xid \notin {-1, -2, -4, -8} /\ err # 0)

(* A reply without a body is written as it was read. *)
LEMMA EmptyReplyWhole ==
  ASSUME NEW xid \in Int, xid # 0, NEW zxid \in Int, NEW err \in Int, Bodyless(xid, err),
         NEW f, f = ReplyHeadOf(xid, zxid, err) \o <<>>, Width(f) <= MaxFrameLength, NEW map
  PROVE  f \in Seq(Tokens) /\ ReplyReadWhole(f, map)
<1> DEFINE header == <<xid, zxid, err>>
           g == [st |-> "ok", val |-> header, rest |-> <<>>]
           r == Reader(<<>>)
           p == decodeReply(f, map)
<1>1. <<>> \in Seq(Tokens)
  BY EmptyFacts, Zenon
<1>2. HeadRead(f, map, header, <<>>)
  BY <1>1, ReplyHeaderFirst, Zenon
<1>3. p = DecodeHeaded(g, map)
  BY <1>2, Zenon DEF HeadRead
<1>4. header[1] = xid /\ header[3] = err
  OBVIOUS
<1>5. r.st = "ok" /\ r.val = <<>> /\ r.rest = <<>>
  BY ReaderOf, Zenon
<1>6. ReplyPart(<<>>, "Empty", r.val, <<>>)
  BY <1>1, <1>5, EmptyPart, Zenon
<1> HIDE DEF header
<1>7. g.st = "ok" /\ g.val = header /\ g.rest = <<>>
  OBVIOUS
<1> HIDE DEF g, p
<1>8. XidCodes.WatchXid = -1 /\ XidCodes.PingXid = -2 /\ XidCodes.AuthXid = -4
        /\ XidCodes.SetWatchesXid = -8
  BY DEF XidCodes
<1>9. -1 # -2 /\ -1 # -4 /\ -1 # -8 /\ -2 # -4 /\ -2 # -8 /\ -4 # -8
  OBVIOUS
<1>10. \E assertEmpty : p = Packet(header, "Empty", r, assertEmpty)
  <2>1. CASE xid = -2
    BY <1>3, <1>4, <1>7, <1>8, <1>9, <2>1, Zenon DEF DecodeHeaded
  <2>2. CASE xid = -4
    BY <1>3, <1>4, <1>7, <1>8, <1>9, <2>2, Zenon DEF DecodeHeaded
  <2>3. CASE xid \notin {-1, -2, -4, -8} /\ err # 0
    <3>1. xid # -1 /\ xid # -2 /\ xid # -4 /\ xid # -8
      BY <2>3
    <3>2. p = DecodeAnswer(header, <<>>, map)
      BY <1>3, <1>4, <1>7, <1>8, <3>1, Zenon DEF DecodeHeaded
    <3> QED
      BY <1>4, <2>3, <3>2, Zenon DEF DecodeAnswer
  <2> QED
    BY <2>1, <2>2, <2>3, Zenon DEF Bodyless
<1> HIDE DEF r
<1>11. PICK assertEmpty : PacketAs(p, header, "Empty", r, assertEmpty)
  BY <1>10, Zenon DEF PacketAs
<1>12. "Empty" \in DOMAIN ResponseRecord \ {"Connect"}
  BY ResponsesFit
<1> QED
  BY <1>1, <1>5, <1>6, <1>11, <1>12, HeadedReplyWhole, Zenon DEF p, header

(* What a server answers an operation are the fields of the record it is read as. *)
LEMMA ServerFieldsAre ==
  \A op \in DOMAIN ServerFields \ (PathAlone \cup NoArm) :
    /\ op \in DOMAIN ResponseVariant /\ op # "Multi"
    /\ ResponseVariant[op] \in DOMAIN ResponseRecord \ {"Connect"}
    /\ ResponseRecord[ResponseVariant[op]].wire = ServerFields[op]
<1> DEFINE A == Then(Record(<<"vec_acl">>, 0, {1}), Stat)
           C == Then(Strings, Stat)
           Ops == {"Create", "Create2", "Delete", "Exists", "GetData", "SetData",
                   "GetAcl", "SetAcl", "GetChildren", "GetChildren2", "CheckWatches", "SetAuth",
                   "SetWatches", "Close", "WhoAmI"}
<1>1. \A a, b : Then(a, b).wire = a.wire \o b.wire
  BY DEF Then, Record
<1>2. /\ Stat.wire = StatFields /\ Strings.wire = <<"vec_string">> /\ NoBody.wire = <<>>
      /\ CreateResponse.wire = <<"string">> /\ WhoAmIResponse.wire = <<"vec_client_info">>
      /\ Record(<<"string">>, 0, {1}).wire = <<"string">>
      /\ Record(<<"buffer">>, 0, {1}).wire = <<"buffer">>
      /\ Record(<<"vec_acl">>, 0, {1}).wire = <<"vec_acl">>
  BY DEF Stat, StatFields, Strings, NoBody, CreateResponse, WhoAmIResponse, Record
<1>3. /\ Create2Response.wire = <<"string">> \o StatFields
      /\ GetDataResponse.wire = <<"buffer">> \o StatFields
      /\ A.wire = <<"vec_acl">> \o StatFields /\ C.wire = <<"vec_string">> \o StatFields
  BY <1>1, <1>2, Zenon DEF Create2Response, GetDataResponse
<1>4. DOMAIN ServerFields \ (PathAlone \cup NoArm) \subseteq Ops
  BY DEF ServerFields, PathAlone, NoArm
<1>5. Ops \subseteq DOMAIN ResponseVariant /\ "Multi" \notin Ops
  BY DEF ResponseVariant
<1>6. \A op \in Ops : ResponseRecord[ResponseVariant[op]].wire = ServerFields[op]
  <2>1. /\ ResponseVariant["Create"] = "Create"
        /\ ResponseVariant["Create2"] = "Create2"
        /\ ResponseVariant["Delete"] = "Empty"
        /\ ResponseVariant["Exists"] = "Stat"
        /\ ResponseVariant["GetData"] = "GetData"
        /\ ResponseVariant["SetData"] = "Stat"
        /\ ResponseVariant["GetAcl"] = "GetAcl"
        /\ ResponseVariant["SetAcl"] = "Stat"
        /\ ResponseVariant["GetChildren"] = "Strings"
        /\ ResponseVariant["GetChildren2"] = "GetChildren2"
        /\ ResponseVariant["CheckWatches"] = "Empty"
        /\ ResponseVariant["SetAuth"] = "Empty"
        /\ ResponseVariant["SetWatches"] = "Empty"
        /\ ResponseVariant["Close"] = "Empty"
        /\ ResponseVariant["WhoAmI"] = "WhoAmI"
    BY DEF ResponseVariant
  <2>2. /\ ResponseRecord["Create"] = CreateResponse
        /\ ResponseRecord["Create2"] = Create2Response
        /\ ResponseRecord["Empty"] = NoBody
        /\ ResponseRecord["Stat"] = Stat
        /\ ResponseRecord["GetData"] = GetDataResponse
        /\ ResponseRecord["GetAcl"] = A
        /\ ResponseRecord["Strings"] = Strings
        /\ ResponseRecord["GetChildren2"] = C
        /\ ResponseRecord["WhoAmI"] = WhoAmIResponse
    BY DEF ResponseRecord
  <2>3. /\ ServerFields["Create"] = <<"string">>
        /\ ServerFields["Create2"] = <<"string">> \o StatFields
        /\ ServerFields["Delete"] = <<>>
        /\ ServerFields["Exists"] = StatFields
        /\ ServerFields["GetData"] = <<"buffer">> \o StatFields
        /\ ServerFields["SetData"] = StatFields
        /\ ServerFields["GetAcl"] = <<"vec_acl">> \o StatFields
        /\ ServerFields["SetAcl"] = StatFields
        /\ ServerFields["GetChildren"] = <<"vec_string">>
        /\ ServerFields["GetChildren2"] = <<"vec_string">> \o StatFields
        /\ ServerFields["CheckWatches"] = <<>>
        /\ ServerFields["SetAuth"] = <<>>
        /\ ServerFields["SetWatches"] = <<>>
        /\ ServerFields["Close"] = <<>>
        /\ ServerFields["WhoAmI"] = <<"vec_client_info">>
    BY DEF ServerFields
  <2> HIDE DEF A, C
  <2>4. ResponseRecord[ResponseVariant["Create"]].wire = ServerFields["Create"]
    BY <1>2, <1>3, <2>1, <2>2, <2>3, Zenon
  <2>5. ResponseRecord[ResponseVariant["Create2"]].wire = ServerFields["Create2"]
    BY <1>2, <1>3, <2>1, <2>2, <2>3, Zenon
  <2>6. ResponseRecord[ResponseVariant["Delete"]].wire = ServerFields["Delete"]
    BY <1>2, <1>3, <2>1, <2>2, <2>3, Zenon
  <2>7. ResponseRecord[ResponseVariant["Exists"]].wire = ServerFields["Exists"]
    BY <1>2, <1>3, <2>1, <2>2, <2>3, Zenon
  <2>8. ResponseRecord[ResponseVariant["GetData"]].wire = ServerFields["GetData"]
    BY <1>2, <1>3, <2>1, <2>2, <2>3, Zenon
  <2>9. ResponseRecord[ResponseVariant["SetData"]].wire = ServerFields["SetData"]
    BY <1>2, <1>3, <2>1, <2>2, <2>3, Zenon
  <2>10. ResponseRecord[ResponseVariant["GetAcl"]].wire = ServerFields["GetAcl"]
    BY <1>2, <1>3, <2>1, <2>2, <2>3, Zenon
  <2>11. ResponseRecord[ResponseVariant["SetAcl"]].wire = ServerFields["SetAcl"]
    BY <1>2, <1>3, <2>1, <2>2, <2>3, Zenon
  <2>12. ResponseRecord[ResponseVariant["GetChildren"]].wire = ServerFields["GetChildren"]
    BY <1>2, <1>3, <2>1, <2>2, <2>3, Zenon
  <2>13. ResponseRecord[ResponseVariant["GetChildren2"]].wire = ServerFields["GetChildren2"]
    BY <1>2, <1>3, <2>1, <2>2, <2>3, Zenon
  <2>14. ResponseRecord[ResponseVariant["CheckWatches"]].wire = ServerFields["CheckWatches"]
    BY <1>2, <1>3, <2>1, <2>2, <2>3, Zenon
  <2>15. ResponseRecord[ResponseVariant["SetAuth"]].wire = ServerFields["SetAuth"]
    BY <1>2, <1>3, <2>1, <2>2, <2>3, Zenon
  <2>16. ResponseRecord[ResponseVariant["SetWatches"]].wire = ServerFields["SetWatches"]
    BY <1>2, <1>3, <2>1, <2>2, <2>3, Zenon
  <2>17. ResponseRecord[ResponseVariant["Close"]].wire = ServerFields["Close"]
    BY <1>2, <1>3, <2>1, <2>2, <2>3, Zenon
  <2>18. ResponseRecord[ResponseVariant["WhoAmI"]].wire = ServerFields["WhoAmI"]
    BY <1>2, <1>3, <2>1, <2>2, <2>3, Zenon
  <2> QED
    BY <2>4, <2>5, <2>6, <2>7, <2>8, <2>9, <2>10,
       <2>11, <2>12, <2>13, <2>14, <2>15, <2>16, <2>17, <2>18, Zenon
<1> HIDE DEF Ops
<1> QED
  BY <1>4, <1>5, <1>6, ResponseVariantsAre, Zenon

(* The answer to a request is read to its end, by the opcode that the map has for its xid. *)
LEMMA AnswerWhole ==
  ASSUME NEW op \in DOMAIN ServerFields \ (PathAlone \cup NoArm), NEW xid \in Int,
         xid \notin {0, -1, -2, -4, -8}, NEW zxid \in Int, NEW b \in Images(ServerFields[op]),
         NEW f, f = ReplyHeadOf(xid, zxid, 0) \o b, Width(f) <= MaxFrameLength,
         NEW map, xid \in DOMAIN map, map[xid] = op
  PROVE  f \in Seq(Tokens) /\ ReplyReadWhole(f, map)
<1> DEFINE v == ResponseVariant[op]
           header == <<xid, zxid, 0>>
           g == [st |-> "ok", val |-> header, rest |-> b]
           q == Deserialize(ResponseRecord[v], b)
           p == decodeReply(f, map)
<1>1. /\ op \in DOMAIN ResponseVariant /\ op # "Multi"
         /\ v \in DOMAIN ResponseRecord \ {"Connect"}
      /\ ResponseRecord[v].wire = ServerFields[op]
  BY ServerFieldsAre, Zenon
<1>2. xid # 0 /\ xid # -1 /\ xid # -2 /\ xid # -4 /\ xid # -8 /\ 0 \in Int
  OBVIOUS
<1> HIDE DEF v
<1>3. /\ b \in Seq(Tokens) /\ q.st = "ok" /\ q.rest = <<>>
      /\ ReplyPart(b, v, q.val, <<>>) /\ AssertEmpty(q) = q
  BY <1>1, ReplyBodyRead, Zenon
<1>4. HeadRead(f, map, header, b)
  BY <1>2, <1>3, ReplyHeaderFirst, Zenon
<1>5. p = DecodeHeaded(g, map)
  BY <1>4, Zenon DEF HeadRead
<1>6. header[1] = xid /\ header[3] = 0
  OBVIOUS
<1> HIDE DEF header
<1>7. g.st = "ok" /\ g.val = header /\ g.rest = b
  OBVIOUS
<1> HIDE DEF g, p, q
<1>8. XidCodes.WatchXid = -1 /\ XidCodes.PingXid = -2 /\ XidCodes.AuthXid = -4
        /\ XidCodes.SetWatchesXid = -8
  BY DEF XidCodes
<1>9. p = DecodeAnswer(header, b, map)
  BY <1>2, <1>5, <1>6, <1>7, <1>8, Zenon DEF DecodeHeaded
<1>10. p = DecodeResponse(header, op, b)
  BY <1>6, <1>9, Zenon DEF DecodeAnswer
<1>11. PacketAs(p, header, v, q, TRUE)
  BY <1>1, <1>3, <1>10, Zenon DEF DecodeResponse, DeserializePlain, PacketAs, v, q
<1> QED
  BY <1>1, <1>2, <1>3, <1>11, HeadedReplyWhole, Zenon DEF p, header

(* An event is read to its end. *)
LEMMA EventWhole ==
  ASSUME NEW zxid \in Int, NEW b \in Images(EventFields),
         NEW f, f = ReplyHeadOf(-1, zxid, 0) \o b, Width(f) <= MaxFrameLength, NEW map
  PROVE  f \in Seq(Tokens) /\ ReplyReadWhole(f, map)
<1> DEFINE v == "WatchEvent"
           fs == EventFields
           xid == -1
           header == <<xid, zxid, 0>>
           g == [st |-> "ok", val |-> header, rest |-> b]
           q == Deserialize(ResponseRecord[v], b)
           p == decodeReply(f, map)
<1>1. v \in DOMAIN ResponseRecord \ {"Connect"} /\ ResponseRecord[v] = WatcherEvent
  BY ResponsesFit
<1>2. xid # 0 /\ xid \in Int /\ xid = -1 /\ 0 \in Int
  OBVIOUS
<1>3. WatcherEvent.wire = fs
  BY DEF WatcherEvent, Record, EventFields
<1> HIDE DEF fs, v, xid
<1>4. /\ b \in Seq(Tokens) /\ q.st = "ok" /\ q.rest = <<>> /\ ReplyPart(b, v, q.val, <<>>)
  BY <1>1, <1>3, ReplyBodyRead, Zenon DEF fs
<1>5. f = ReplyHeadOf(xid, zxid, 0) \o b
  BY Zenon DEF xid
<1>6. HeadRead(f, map, header, b)
  BY <1>2, <1>4, <1>5, ReplyHeaderFirst, Zenon
<1>7. p = DecodeHeaded(g, map)
  BY <1>6, Zenon DEF HeadRead
<1>8. header[1] = xid
  OBVIOUS
<1> HIDE DEF header
<1>9. g.st = "ok" /\ g.val = header /\ g.rest = b
  OBVIOUS
<1> HIDE DEF g, p, q
<1>10. XidCodes.WatchXid = -1
  BY DEF XidCodes
<1>0. XidCodes.PingXid = -2 /\ XidCodes.AuthXid = -4 /\ XidCodes.SetWatchesXid = -8
        /\ -1 # -2 /\ -1 # -4 /\ -1 # -8
  BY DEF XidCodes
<1>11. PacketAs(p, header, v, q, FALSE)
  BY <1>0, <1>1, <1>2, <1>7, <1>8, <1>9, <1>10, Zenon DEF DecodeHeaded, PacketAs, q, v
<1> QED
  BY <1>1, <1>2, <1>4, <1>5, <1>11, HeadedReplyWhole, Zenon DEF p, header

\* What was read to its end, and its packet
ReadOut(r) == r.st = "ok" /\ r.rest = <<>>
IsRead(p, v) == p.st = "ok" /\ p.variant = v

(* A packet of what was read to its end. *)
LEMMA PacketRead ==
  ASSUME NEW header, NEW v, NEW r, NEW assertEmpty, NEW p, PacketAs(p, header, v, r, assertEmpty),
         ReadOut(r)
  PROVE  IsRead(p, v)
  BY PacketIs DEF PacketAs, ReadOut, IsRead

(* So is the reply to a multi without operations. *)
LEMMA MultiReplyWhole ==
  ASSUME NEW zxid \in Int, NEW b, b = MultiReplyDone,
         NEW f, f = ReplyHeadOf(1, zxid, 0) \o b, Width(f) <= MaxFrameLength,
         NEW map, 1 \in DOMAIN map, map[1] = "Multi"
  PROVE  f \in Seq(Tokens) /\ ReplyReadWhole(f, map)
<1> DEFINE v == "Multi"
           xid == 1
           header == <<xid, zxid, 0>>
           g == [st |-> "ok", val |-> header, rest |-> b]
           q == DeserializeMultiResponse(b)
           p == decodeReply(f, map)
<1>1. b \in Seq(Tokens) /\ q.st = "ok" /\ q.rest = <<>>
  BY MultiReplyRead, Zenon
<1>2. xid # 0 /\ xid \in Int /\ xid # -1 /\ xid # -2 /\ xid # -4 /\ xid # -8 /\ 0 \in Int
  OBVIOUS
<1>3. xid \in DOMAIN map /\ map[xid] = v /\ f = ReplyHeadOf(xid, zxid, 0) \o b
  OBVIOUS
<1> HIDE DEF xid
<1>4. HeadRead(f, map, header, b) /\ f \in Seq(Tokens)
  BY <1>1, <1>2, <1>3, ReplyHeaderFirst, Zenon
<1>5. p = DecodeHeaded(g, map)
  BY <1>4, Zenon DEF HeadRead
<1>6. header[1] = xid /\ header[3] = 0
  OBVIOUS
<1> HIDE DEF header
<1>7. g.st = "ok" /\ g.val = header /\ g.rest = b
  OBVIOUS
<1> HIDE DEF g, p, q
<1>8. XidCodes.WatchXid = -1 /\ XidCodes.PingXid = -2 /\ XidCodes.AuthXid = -4
        /\ XidCodes.SetWatchesXid = -8
  BY DEF XidCodes
<1>9. p = DecodeAnswer(header, b, map)
  BY <1>2, <1>5, <1>6, <1>7, <1>8, Zenon DEF DecodeHeaded
<1>10. p = DecodeResponse(header, v, b)
  BY <1>3, <1>6, <1>9, Zenon DEF DecodeAnswer
<1>11. PacketAs(p, header, v, q, TRUE)
  BY <1>10, ResponseVariantsAre, Zenon DEF DecodeResponse, PacketAs, q
<1> HIDE DEF v
<1>12. p.st = "ok" /\ p.variant = v
  <2>1. ReadOut(q)
    BY <1>1, Zenon DEF ReadOut
  <2>2. IsRead(p, v)
    BY <1>11, <2>1, PacketRead, Zenon
  <2> QED
    BY <2>2, Zenon DEF IsRead
<1> QED
  BY <1>4, <1>12, Zenon DEF ReplyReadWhole, p, v

(* A connect reply is read, however its sender ends it. *)
LEMMA ConnectReplyWhole ==
  ASSUME NEW f \in Connecting(<<"i32", "i64", "buffer">>), Width(f) <= MaxFrameLength, NEW map
  PROVE  f \in Seq(Tokens) /\ ReplyReadWhole(f, map)
<1> DEFINE A == Record(<<"i32", "i64", "buffer">>, 4 + 8, {3})
           B == ConnectReplyFields
           R == ConnectResponse
           fs == <<"i32", "i64", "buffer">>
           g == Deserialize(R, f)
           p == decodeReply(f, map)
<1>1. A.wire = fs /\ A.fixed = 4 + 8 /\ A.sized = {3}
  BY DEF Record
<1>2. Fits(Fields, A)
  <2> HIDE DEF A
  <2>1. /\ A.wire \in Seq(Fields) /\ Len(A.wire) = 3 /\ A.wire[1] = "i32" /\ A.wire[2] = "i64"
        /\ A.wire[3] = "buffer"
    BY <1>1, WidthsOfFields
  <2>2. Fields \subseteq WireFields
    BY Zenon DEF WireFields
  <2>3. A.fixed = FixedWidth(A.wire[1]) + FixedWidth(A.wire[2]) + FixedWidth(A.wire[3])
    BY <1>1, <2>1, WidthsOfFields
  <2>4. /\ 1 \in A.sized <=> Varies(A.wire[1])
        /\ 2 \in A.sized <=> Varies(A.wire[2])
        /\ 3 \in A.sized <=> Varies(A.wire[3])
        /\ A.sized \subseteq 1 .. 3
    BY <1>1, <2>1, WidthsOfFields
  <2> QED
    BY <2>1, <2>2, <2>3, <2>4, ThreeFit, Zenon
<1>3. WiredAs(B, <<"i32">> \o A.wire)
  <2> DEFINE e == "i32"
             x == <<e>> \o fs
             y == <<"i32", "i32", "i64", "buffer">>
             S == {"i32", "i64", "buffer"}
  <2>1. fs \in Seq(S) /\ Len(fs) = 3
    OBVIOUS
  <2>2. /\ y \in Seq(S) /\ Len(y) = 4 /\ y[1] = e /\ y[2] = fs[1] /\ y[3] = fs[2]
        /\ y[4] = fs[3] /\ e \in S
    OBVIOUS
  <2>3. B.wire = y
    BY DEF y, ConnectReplyFields, Record
  <2> HIDE DEF fs, y, S, e
  <2>4. x \in Seq(S) /\ Len(x) = 1 + Len(fs) /\ x[1] = e
          /\ \A j \in 1 .. Len(fs) : x[1 + j] = fs[j]
    <3>1. fs \in Seq(S) /\ e \in S
      BY <2>1, <2>2, Zenon
    <3> QED
      BY <3>1, Prepended
  <2> HIDE DEF x
  <2>5. Len(x) = 4 /\ x[1] = e /\ x[2] = fs[1] /\ x[3] = fs[2] /\ x[4] = fs[3]
    BY <2>1, <2>4
  <2>6. \A i \in 1 .. 4 : x[i] = y[i]
    BY <2>2, <2>5
  <2>7. x = y
    BY <2>2, <2>4, <2>5, <2>6, SeqEqual
  <2> QED
    BY <1>1, <2>3, <2>7, Zenon DEF WiredAs, x, e
<1>4. f \in Connecting(A.wire)
  BY <1>1, Zenon
<1>5. EndsInReadOnly(R, B)
  BY ConnectReplyEnds, Zenon
<1> HIDE DEF A, B, R, fs
<1>6. /\ f \in Seq(Tokens) /\ f[1] = Token(4, 0) /\ A.fixed \in Nat
      /\ Width(f) >= 4 + A.fixed /\ Deserialize(R, f).st = "ok"
  BY <1>2, <1>3, <1>4, <1>5, ConnectingIsRead, Zenon
<1>7. Width(f) \in Nat
  BY <1>6, WidthsAre, Zenon
<1>8. ~(Width(f) < 4) /\ ~(Width(f) > MaxFrameLength)
  BY <1>1, <1>6, <1>7, MaxFrameLengthAssumption
<1>9. XidCodes.ConnectXid = 0
  BY DEF XidCodes
<1>10. p = Packet(<<>>, "Connect", g, FALSE)
  BY <1>6, <1>8, <1>9, Zenon DEF decodeReply, R
<1>11. g.st = "ok"
  BY <1>6, Zenon
<1> HIDE DEF g, p
<1>12. p = [st |-> "ok", header |-> <<>>, variant |-> "Connect", val |-> g.val]
  BY <1>10, <1>11, Zenon DEF Packet
<1>13. PacketOf(p, <<>>, "Connect", g.val)
  BY <1>12, PacketFields, Zenon
<1>14. p.st = "ok"
  BY <1>12, Zenon
<1> QED
  BY <1>6, <1>13, <1>14, Zenon DEF ReplyReadWhole, PacketOf, p

\* A reply to `op` under `xid` with one of the frames
IsAsked(g, xid, op, frames) == g.xid = xid /\ g.op = op /\ g.frame \in frames

(* What Asked makes. *)
LEMMA AskedIs ==
  ASSUME NEW xid, NEW op, NEW frames, NEW g \in Asked(xid, op, frames)
  PROVE  IsAsked(g, xid, op, frames)
  BY DEF Asked, IsAsked

(* The header of a reply. *)
LEMMA ReplyHeadsAre ==
  ASSUME NEW xid, NEW errors, NEW h \in ReplyHeads(xid, errors)
  PROVE  \E zxid \in Int, err \in errors : h = ReplyHeadOf(xid, zxid, err)
<1>1. Scalars.i64 \subseteq Int
  <2>1. "i64" \in DOMAIN ScalarWidth
    BY DEF ScalarWidth
  <2>2. Scalars["i64"] \in SUBSET Int
    BY <2>1, ProtocolAssumption
  <2> QED
    BY <2>2
<1>2. PICK zxid \in Scalars.i64, err \in errors : h = <<Token(4, xid), Token(8, zxid), Token(4, err)>>
  BY DEF ReplyHeads
<1> QED
  BY <1>1, <1>2, Zenon DEF ReplyHeadOf

\* The frame of a reply is read whole, by the map with the one request it answers
WholeReply(g) ==
  g.frame \in Seq(Tokens) /\ ReplyReadWhole(g.frame, [xid \in {g.xid} |-> g.op])

(* The xids of replies. *)
LEMMA ReplyXidsAre ==
  \A xid \in ReplyXids :
    xid \in Int /\ xid \notin {0, -1, -2, -4, -8} /\ xid # 0 /\ xid # -1 /\ xid # -2
      /\ xid # -4 /\ xid # -8
  BY ProtocolAssumption DEF ReplyXids

\* A reply to `op` under `xid`, which the map of its reader has, with one of the frames
Reply(g, xid, op, frames) ==
  /\ xid \in ReplyXids /\ g.xid = xid /\ g.op = op /\ g.frame \in frames
  /\ xid \in DOMAIN [x \in {g.xid} |-> g.op] /\ [x \in {g.xid} |-> g.op][xid] = op

(* Such a reply. *)
LEMMA ReplyIs ==
  ASSUME NEW xid \in ReplyXids, NEW op, NEW frames, NEW g \in Asked(xid, op, frames)
  PROVE  Reply(g, xid, op, frames)
<1> DEFINE map == [x \in {g.xid} |-> g.op]
<1>1. g.xid = xid /\ g.op = op /\ g.frame \in frames
  BY AskedIs, Zenon DEF IsAsked
<1>2. xid \in DOMAIN map /\ map[xid] = op
  BY <1>1, Zenon
<1> QED
  BY <1>1, <1>2, Zenon DEF Reply

(* The replies to an operation that has succeeded. *)
LEMMA SuccessWhole ==
  ASSUME NEW op \in DOMAIN ServerFields \ (PathAlone \cup NoArm), NEW xid, NEW g,
         Reply(g, xid, op, Replies(xid, ServerFields[op])), Width(g.frame) <= MaxFrameLength
  PROVE  WholeReply(g)
<1> DEFINE f == g.frame
           map == [x \in {g.xid} |-> g.op]
<1>1. f \in Replies(xid, ServerFields[op]) /\ xid \in DOMAIN map /\ map[xid] = op
  BY Zenon DEF Reply
<1>2. xid \in Int /\ xid \notin {0, -1, -2, -4, -8}
  BY ReplyXidsAre, Zenon DEF Reply
<1>3. Width(f) <= MaxFrameLength
  OBVIOUS
<1> HIDE DEF f, map
<1>4. PICK h \in ReplyHeads(xid, {0}), b \in Images(ServerFields[op]) : f = h \o b
  BY <1>1 DEF Replies
<1>5. PICK zxid \in Int : h = ReplyHeadOf(xid, zxid, 0)
  BY ReplyHeadsAre
<1>6. f = ReplyHeadOf(xid, zxid, 0) \o b
  BY <1>4, <1>5, Zenon
<1>7. f \in Seq(Tokens) /\ ReplyReadWhole(f, map)
  BY <1>1, <1>2, <1>3, <1>6, AnswerWhole, Zenon
<1> QED
  BY <1>7, Zenon DEF WholeReply, f, map

(* The replies to an operation that has failed. *)
LEMMA FailureWhole ==
  ASSUME NEW op, NEW xid, NEW g, Reply(g, xid, op, ReplyHeads(xid, Errors)),
         Width(g.frame) <= MaxFrameLength
  PROVE  WholeReply(g)
<1> DEFINE f == g.frame
           map == [x \in {g.xid} |-> g.op]
<1>1. f \in ReplyHeads(xid, Errors)
  BY Zenon DEF Reply
<1>2. xid \in Int /\ xid \notin {0, -1, -2, -4, -8} /\ xid # 0 /\ Errors \subseteq Int \ {0}
  BY ProtocolAssumption, ReplyXidsAre, Zenon DEF Reply
<1>3. Width(f) <= MaxFrameLength
  OBVIOUS
<1> HIDE DEF f, map
<1>4. PICK zxid \in Int, err \in Errors : f = ReplyHeadOf(xid, zxid, err)
  BY <1>1, ReplyHeadsAre
<1>5. err \in Int /\ err # 0
  BY <1>2
<1>6. f = ReplyHeadOf(xid, zxid, err) \o <<>>
  BY <1>2, <1>4, <1>5, HeadAlone, Zenon
<1>7. Bodyless(xid, err)
  BY <1>2, <1>5 DEF Bodyless
<1>8. f \in Seq(Tokens) /\ ReplyReadWhole(f, map)
  BY <1>2, <1>3, <1>5, <1>6, <1>7, EmptyReplyWhole, Zenon
<1> QED
  BY <1>8, Zenon DEF WholeReply, f, map

(* No reply of a server that the decoder has an arm for is refused, or changed on its way. *)
LEMMA GoodReplyWhole ==
  ASSUME NEW g \in GoodReplies
  PROVE  WholeReply(g)
<1> DEFINE f == g.frame
           map == [x \in {g.xid} |-> g.op]
           Ops == DOMAIN ServerFields \ (PathAlone \cup NoArm)
           ask == "GetData"
<1>1. /\ Width(f) <= MaxFrameLength
      /\ g \in Successes(Ops) \cup Failures(DOMAIN ServerFields) \cup ControlReplies({-2, -4})
                 \cup Events \cup ConnectReplies \cup Asked(1, "Multi", MultiReplyFrames(<<>>))
  BY Zenon DEF GoodReplies
<1>2. CASE g \in Successes(Ops)
  <2> DEFINE Sets(xid, op) == Asked(xid, op, Replies(xid, ServerFields[op]))
  <2>1. g \in UNION {Sets(xid, op) : xid \in ReplyXids, op \in Ops}
    BY <1>2 DEF Successes
  <2>2. PICK xid \in ReplyXids, op \in Ops : g \in Sets(xid, op)
    <3> HIDE DEF Sets, Ops
    <3> QED
      BY <2>1
  <2>3. Reply(g, xid, op, Replies(xid, ServerFields[op]))
    BY <2>2, ReplyIs, Zenon
  <2> QED
    BY <1>1, <2>3, SuccessWhole, Zenon
<1>7. CASE g \in Failures(DOMAIN ServerFields)
  <2> DEFINE Sets(xid, op) == Asked(xid, op, ReplyHeads(xid, Errors))
             All == DOMAIN ServerFields
  <2>1. g \in UNION {Sets(xid, op) : xid \in ReplyXids, op \in All}
    BY <1>7 DEF Failures
  <2>2. PICK xid \in ReplyXids, op \in All : g \in Sets(xid, op)
    <3> HIDE DEF Sets, All
    <3> QED
      BY <2>1
  <2>3. Reply(g, xid, op, ReplyHeads(xid, Errors))
    BY <2>2, ReplyIs, Zenon
  <2> QED
    BY <1>1, <2>3, FailureWhole, Zenon
<1>3. CASE g \in ControlReplies({-2, -4})
  <2> DEFINE Frames(xid) == ReplyHeads(xid, Errors \cup {0})
             Sets(xid) == Asked(1, ask, Frames(xid))
  <2>0. g \in UNION {Sets(xid) : xid \in {-2, -4}}
    BY <1>3, Zenon DEF ControlReplies
  <2> HIDE DEF Frames
  <2>1. PICK xid \in {-2, -4} : g \in Sets(xid)
    <3> HIDE DEF Sets
    <3> QED
      BY <2>0
  <2>2. IsAsked(g, 1, ask, Frames(xid))
    BY <2>1, AskedIs, Zenon
  <2>3. f \in ReplyHeads(xid, Errors \cup {0})
    BY <2>2, Zenon DEF IsAsked, Frames
  <2>4. xid \in Int /\ xid # 0 /\ (xid = -2 \/ xid = -4) /\ Errors \cup {0} \subseteq Int
    BY ProtocolAssumption
  <2> HIDE DEF f, map
  <2>5. PICK zxid \in Int, err \in Errors \cup {0} : f = ReplyHeadOf(xid, zxid, err)
    BY <2>3, ReplyHeadsAre
  <2>6. err \in Int
    BY <2>4
  <2>7. f = ReplyHeadOf(xid, zxid, err) \o <<>>
    BY <2>4, <2>5, <2>6, HeadAlone, Zenon
  <2>8. Bodyless(xid, err)
    BY <2>4, Zenon DEF Bodyless
  <2>9. f \in Seq(Tokens) /\ ReplyReadWhole(f, map)
    BY <1>1, <2>4, <2>6, <2>7, <2>8, EmptyReplyWhole, Zenon
  <2> QED
    BY <2>9, Zenon DEF WholeReply, f, map
<1>4. CASE g \in Events
  <2> DEFINE fs == EventFields
  <2>1. IsAsked(g, 1, ask, Replies(-1, fs))
    BY <1>4, AskedIs, Zenon DEF Events
  <2>2. f \in Replies(-1, fs)
    BY <2>1, Zenon DEF IsAsked
  <2> HIDE DEF fs, f, map
  <2>3. PICK h \in ReplyHeads(-1, {0}), b \in Images(fs) : f = h \o b
    BY <2>2 DEF Replies
  <2>4. PICK zxid \in Int : h = ReplyHeadOf(-1, zxid, 0)
    BY ReplyHeadsAre
  <2>5. f = ReplyHeadOf(-1, zxid, 0) \o b
    BY <2>3, <2>4, Zenon
  <2>6. f \in Seq(Tokens) /\ ReplyReadWhole(f, map)
    BY <1>1, <2>5, EventWhole, Zenon DEF fs
  <2> QED
    BY <2>6, Zenon DEF WholeReply, f, map
<1>5. CASE g \in ConnectReplies
  <2> DEFINE fs == ConnectedFields
  <2>1. IsAsked(g, 1, ask, Connecting(fs))
    BY <1>5, AskedIs, Zenon DEF ConnectReplies
  <2>2. f \in Connecting(fs)
    BY <2>1, Zenon DEF IsAsked
  <2> HIDE DEF fs, f, map
  <2>3. f \in Seq(Tokens) /\ ReplyReadWhole(f, map)
    BY <1>1, <2>2, ConnectReplyWhole, Zenon DEF fs, ConnectedFields
  <2> QED
    BY <2>3, Zenon DEF WholeReply, f, map
<1>6. CASE g \in Asked(1, "Multi", MultiReplyFrames(<<>>))
  <2> DEFINE b == MultiReplyDone
             multi == "Multi"
  <2>1. IsAsked(g, 1, multi, MultiReplyFrames(<<>>))
    BY <1>6, AskedIs, Zenon
  <2>2. g.xid = 1 /\ g.op = multi /\ f \in MultiReplyFrames(<<>>)
    BY <2>1, Zenon DEF IsAsked
  <2>3. 1 \in DOMAIN map /\ map[1] = multi
    BY <2>2
  <2> HIDE DEF f, map
  <2>4. PICK h \in ReplyHeads(1, {0}) : f = h \o FlattenSeq(<<>>) \o b
    BY <2>2, Zenon DEF MultiReplyFrames
  <2>5. PICK zxid \in Int : h = ReplyHeadOf(1, zxid, 0)
    BY ReplyHeadsAre
  <2>6. FlattenSeq(<<>>) = <<>>
    <3>1. <<>> \in Seq(Tokens)
      BY EmptyFacts, Zenon
    <3> QED
      BY <3>1, FlatFew, Zenon
  <2>7. h = h \o <<>>
    <3>1. 1 \in Int /\ 0 \in Int
      OBVIOUS
    <3> QED
      BY <2>5, <3>1, HeadAlone, Zenon
  <2>8. f = ReplyHeadOf(1, zxid, 0) \o b
    BY <2>4, <2>5, <2>6, <2>7, Zenon
  <2>9. f \in Seq(Tokens) /\ ReplyReadWhole(f, map)
    BY <1>1, <2>3, <2>8, MultiReplyWhole, Zenon
  <2> QED
    BY <2>9, Zenon DEF WholeReply, f, map
<1> QED
  BY <1>1, <1>2, <1>3, <1>4, <1>5, <1>6, <1>7, Zenon

-----------------------------------------------------------------------------
(* Well formed replies that are refused *)

\* decode() panics on the frame of a reply, by the map with the one request it answers
ReplyPanics(g) ==
  g.frame \in Seq(Tokens) /\ decodeReply(g.frame, [xid \in {g.xid} |-> g.op]).st = "panic"

\* decode() panics on a success of op with this body
AnswerPanics(op, b) ==
  b \in Seq(Tokens) /\ \A header : DecodeResponse(header, op, b).st = "panic"

\* The body b of f is read as the reply to the operation op
AnswerRead(f, map, header, op, b) == decodeReply(f, map) = DecodeResponse(header, op, b)

(* A success is read by the opcode that the map has for its xid. *)
LEMMA AnswerIs ==
  ASSUME NEW xid \in Int, xid \notin {0, -1, -2, -4, -8}, NEW zxid \in Int, NEW b \in Seq(Tokens),
         NEW f, f = ReplyHeadOf(xid, zxid, 0) \o b, Width(f) <= MaxFrameLength,
         NEW map, xid \in DOMAIN map
  PROVE  f \in Seq(Tokens) /\ AnswerRead(f, map, <<xid, zxid, 0>>, map[xid], b)
<1> DEFINE header == <<xid, zxid, 0>>
           g == [st |-> "ok", val |-> header, rest |-> b]
           p == decodeReply(f, map)
<1>1. xid # 0 /\ xid # -1 /\ xid # -2 /\ xid # -4 /\ xid # -8 /\ 0 \in Int
  OBVIOUS
<1>2. HeadRead(f, map, header, b) /\ f \in Seq(Tokens)
  BY <1>1, ReplyHeaderFirst, Zenon
<1>3. p = DecodeHeaded(g, map)
  BY <1>2, Zenon DEF HeadRead
<1>4. header[1] = xid /\ header[3] = 0
  OBVIOUS
<1> HIDE DEF header
<1>5. g.st = "ok" /\ g.val = header /\ g.rest = b
  OBVIOUS
<1> HIDE DEF g, p
<1>6. XidCodes.WatchXid = -1 /\ XidCodes.PingXid = -2 /\ XidCodes.AuthXid = -4
        /\ XidCodes.SetWatchesXid = -8
  BY DEF XidCodes
<1>7. p = DecodeAnswer(header, b, map)
  BY <1>1, <1>3, <1>4, <1>5, <1>6, Zenon DEF DecodeHeaded
<1>8. p = DecodeResponse(header, map[xid], b)
  BY <1>4, <1>7, Zenon DEF DecodeAnswer
<1> QED
  BY <1>2, <1>8, Zenon DEF header, p, AnswerRead

\* A success of op, asked for under xid, with the body b
Answers(g, xid, op, b) ==
  /\ xid \in Int /\ xid \notin {0, -1, -2, -4, -8} /\ g.xid = xid /\ g.op = op
  /\ \E h \in ReplyHeads(xid, {0}) : g.frame = h \o b

(* Its reader panics on a success that it cannot read the body of. *)
LEMMA AnswerRefused ==
  ASSUME NEW xid, NEW op, NEW b, NEW g, Answers(g, xid, op, b), AnswerPanics(op, b),
         Width(g.frame) <= MaxFrameLength
  PROVE  ReplyPanics(g)
<1> DEFINE f == g.frame
           map == [x \in {g.xid} |-> g.op]
<1>1. /\ xid \in Int /\ xid \notin {0, -1, -2, -4, -8} /\ b \in Seq(Tokens)
      /\ xid \in DOMAIN map /\ map[xid] = op
  BY Zenon DEF Answers, AnswerPanics
<1>2. PICK h \in ReplyHeads(xid, {0}) : f = h \o b
  BY Zenon DEF Answers
<1>3. Width(f) <= MaxFrameLength
  OBVIOUS
<1> HIDE DEF f, map
<1>4. PICK zxid \in Int : h = ReplyHeadOf(xid, zxid, 0)
  BY ReplyHeadsAre
<1>5. f = ReplyHeadOf(xid, zxid, 0) \o b
  BY <1>2, <1>4, Zenon
<1>6. f \in Seq(Tokens) /\ AnswerRead(f, map, <<xid, zxid, 0>>, map[xid], b)
  BY <1>1, <1>3, <1>5, AnswerIs, Zenon
<1>7. decodeReply(f, map).st = "panic"
  BY <1>1, <1>6, Zenon DEF AnswerPanics, AnswerRead
<1> QED
  BY <1>6, <1>7, Zenon DEF ReplyPanics, f, map

(* A panic of an arm is one of decode(). *)
LEMMA ArmPanics ==
  ASSUME NEW op \in DOMAIN ResponseVariant, NEW b \in Seq(Tokens), DeserializePlain(op, b).st = "panic"
  PROVE  AnswerPanics(op, b)
<1>1. op # "Multi"
  BY ResponseVariantsAre, Zenon
<1>2. "panic" # "ok"
  OBVIOUS
<1>3. ASSUME NEW header
      PROVE  DecodeResponse(header, op, b) = Refused("panic")
  <2>1. DecodeResponse(header, op, b) = Packet(header, ResponseVariant[op], DeserializePlain(op, b), TRUE)
    BY <1>1, Zenon DEF DecodeResponse
  <2> QED
    BY <1>2, <2>1, Zenon DEF Packet
<1> QED
  BY <1>3, RefusedIs, Zenon DEF AnswerPanics

(* The opcodes that have no arm of ZkResponse::deserialize. *)
LEMMA NoArmPanics ==
  ASSUME NEW op \in NoArm, NEW b \in Seq(Tokens)
  PROVE  AnswerPanics(op, b)
<1>1. op # "Multi" /\ op \notin DOMAIN ResponseVariant
  BY DEF NoArm, ResponseVariant
<1>2. \A header : DecodeResponse(header, op, b) = Refused("panic")
  BY <1>1, Zenon DEF DecodeResponse
<1> QED
  BY <1>2, RefusedIs, Zenon DEF AnswerPanics

(* The arms of the opcodes that are answered by more than they read. *)
LEMMA PathAloneArm ==
  ASSUME NEW op \in PathAlone
  PROVE  /\ op \in DOMAIN ResponseVariant /\ op \in DOMAIN ServerFields
         /\ ResponseRecord[ResponseVariant[op]] = StringElement
         /\ ServerFields[op] = <<"string">> \o StatFields
<1>1. /\ "CreateTtl" \in DOMAIN ResponseVariant /\ ResponseVariant["CreateTtl"] = "String"
      /\ "CreateContainer" \in DOMAIN ResponseVariant /\ ResponseVariant["CreateContainer"] = "String"
  BY DEF ResponseVariant
<1>2. /\ "CreateTtl" \in DOMAIN ServerFields
      /\ ServerFields["CreateTtl"] = <<"string">> \o StatFields
      /\ "CreateContainer" \in DOMAIN ServerFields
      /\ ServerFields["CreateContainer"] = <<"string">> \o StatFields
  BY DEF ServerFields
<1>3. ResponseRecord["String"] = StringElement
  BY DEF ResponseRecord
<1>4. op = "CreateTtl" \/ op = "CreateContainer"
  BY DEF PathAlone
<1> QED
  BY <1>1, <1>2, <1>3, <1>4, Zenon

(* What a server answers is made of fields that the records have. *)
LEMMA AnswersFit ==
  /\ \A op \in DOMAIN ServerFields : ServerFields[op] \in Seq(Fields)
  /\ <<"string">> \o StatFields \in Seq(Fields) /\ Len(<<"string">> \o StatFields) = 12
  /\ (<<"string">> \o StatFields)[1] = "string"
  /\ \A i \in 2 .. 12 : (<<"string">> \o StatFields)[i] \in {"i32", "i64"}
<1> DEFINE fs == <<"string">> \o StatFields
<1>1. /\ Len(fs) = 12 /\ fs[1] = "string" /\ \A i \in 2 .. 12 : fs[i] \in {"i32", "i64"}
      /\ fs \in Seq({"string", "i32", "i64"})
  BY DEF StatFields
<1> HIDE DEF fs
<1>2. {"string", "i32", "i64"} \subseteq Fields
  BY WidthsOfFields
<1>3. fs \in Seq(Fields)
  BY <1>1, <1>2, SeqMonotonic
<1>4. ASSUME NEW op \in DOMAIN ServerFields
      PROVE  ServerFields[op] \in Seq(Fields)
  <2>1. CASE op \in PathAlone
    BY <1>3, <2>1, PathAloneArm, Zenon DEF fs
  <2>2. CASE op \in NoArm
    <3>1. ServerFields[op] = <<"string">> \/ ServerFields[op] = <<>>
      BY <2>2 DEF NoArm, ServerFields
    <3>2. <<"string">> \in Seq(Fields) /\ <<>> \in Seq(Fields)
      BY WidthsOfFields
    <3> QED
      BY <3>1, <3>2, Zenon
  <2>3. CASE op \notin PathAlone \cup NoArm
    <3>1. /\ ResponseVariant[op] \in DOMAIN ResponseRecord \ {"Connect"}
          /\ ResponseRecord[ResponseVariant[op]].wire = ServerFields[op]
      BY <2>3, ServerFieldsAre, Zenon
    <3>2. Fits(Fields, ResponseRecord[ResponseVariant[op]])
      BY <3>1, ResponsesFit, Zenon
    <3> QED
      BY <3>1, <3>2, Zenon DEF Fits
  <2> QED
    BY <2>1, <2>2, <2>3, Zenon
<1> QED
  BY <1>1, <1>3, <1>4, Zenon DEF fs

(* An arm that leaves some of the frame panics, and so does one that panics while it reads. *)
LEMMA LeftPanics ==
  ASSUME NEW op \in DOMAIN ResponseVariant, NEW toks \in Seq(Tokens), NEW q,
         q = Deserialize(ResponseRecord[ResponseVariant[op]], toks),
         q.st = "panic" \/ (q.st = "ok" /\ q.rest # <<>>)
  PROVE  DeserializePlain(op, toks).st = "panic"
<1> DEFINE v == ResponseVariant[op]
           p == DeserializePlain(op, toks)
<1>1. v \in DOMAIN ResponseRecord \ {"Connect"}
  BY ResponseVariantsAre, Zenon
<1>2. p = AssertEmpty(q)
  BY Zenon DEF DeserializePlain
<1>3. q \in [st : Outcomes, val : Seq(FieldVal), rest : Seq(Tokens)]
  BY <1>1, RecordPart, Zenon
<1>4. "panic" # "ok" /\ "panic" \in Outcomes
  BY DEF Outcomes
<1> HIDE DEF p
<1>5. CASE q.st = "panic"
  BY <1>2, <1>4, <1>5, Zenon DEF AssertEmpty, p
<1>6. CASE q.st = "ok" /\ q.rest # <<>>
  <2>1. p = Stop(q, "panic")
    BY <1>2, <1>6, Zenon DEF AssertEmpty
  <2>2. Stop(q, "panic").st = "panic"
    BY <1>3, <1>4 DEF Stop
  <2> QED
    BY <2>1, <2>2, Zenon DEF p
<1> QED
  BY <1>5, <1>6, Zenon DEF p

(* Behind what a server writes for the record of its reply, nothing may follow. *)
LEMMA MoreBehindPanics ==
  ASSUME NEW op \in DOMAIN ResponseVariant, NEW fs,
         ResponseRecord[ResponseVariant[op]].wire = fs, NEW b \in Images(fs),
         NEW more \in Seq(Tokens), more # <<>>
  PROVE  b \in Seq(Tokens) /\ DeserializePlain(op, b \o more).st = "panic"
<1> DEFINE v == ResponseVariant[op]
           R == ResponseRecord[v]
           toks == b \o more
           q == Deserialize(R, toks)
<1>1. v \in DOMAIN ResponseRecord \ {"Connect"}
  BY ResponseVariantsAre, Zenon
<1>2. R.wire \in Seq(Fields) /\ R.wire = fs
  BY <1>1, ResponsesFit, Zenon DEF Fits
<1>3. PICK row \in RowsOf(R.wire) : b = ImageOf(R.wire, row)
  BY <1>2, Zenon DEF Images
<1> HIDE DEF R
<1>4. b \in Seq(Tokens) /\ q = [st |-> "ok", val |-> row, rest |-> more]
  BY <1>2, <1>3, ImageReadBack, Zenon
<1> HIDE DEF q
<1>5. q.st = "ok" /\ q.rest = more
  BY <1>4
<1>6. toks \in Seq(Tokens)
  BY <1>4, ConcatProperties, Zenon
<1> HIDE DEF toks
<1>7. q = Deserialize(ResponseRecord[ResponseVariant[op]], toks)
  BY Zenon DEF q, R
<1>8. DeserializePlain(op, toks).st = "panic"
  BY <1>5, <1>6, <1>7, LeftPanics, Zenon
<1> QED
  BY <1>4, <1>8, Zenon DEF toks

(* Nor may there be a null in it. *)
LEMMA NullAnswerPanics ==
  ASSUME NEW op \in DOMAIN ResponseVariant, NEW fs,
         ResponseRecord[ResponseVariant[op]].wire = fs, NEW b \in NullImages(fs)
  PROVE  b \in Seq(Tokens) /\ DeserializePlain(op, b).st = "panic"
<1> DEFINE v == ResponseVariant[op]
           R == ResponseRecord[v]
           q == Deserialize(R, b)
<1>1. v \in DOMAIN ResponseRecord \ {"Connect"}
  BY ResponseVariantsAre, Zenon
<1>2. R.wire \in Seq(Fields) /\ R.wire = fs
  BY <1>1, ResponsesFit, Zenon DEF Fits
<1>3. <<>> \in Seq(Tokens)
  BY EmptyFacts, Zenon
<1> HIDE DEF R
<1>4. b \in Seq(Tokens) /\ Deserialize(R, b \o <<>>).st = "panic"
  BY <1>2, <1>3, NullRead, Zenon
<1>5. b \o <<>> = b
  BY <1>4, ConcatEmptySeq, Zenon
<1>6. q.st = "panic"
  BY <1>4, <1>5, Zenon
<1> HIDE DEF q
<1>7. q = Deserialize(ResponseRecord[ResponseVariant[op]], b)
  BY Zenon DEF q, R
<1> QED
  BY <1>4, <1>6, <1>7, LeftPanics, Zenon

(* The first two of some pieces. *)
LEMMA TwoPieces ==
  ASSUME NEW pieces \in Seq(Seq(Tokens)), Len(pieces) >= 2
  PROVE  /\ pieces[1] \in Seq(Tokens) /\ pieces[2] \in Seq(Tokens)
         /\ FlattenSeq(pieces) \in Seq(Tokens)
         /\ \E t \in Seq(Tokens), u \in Seq(Tokens) :
              FlattenSeq(pieces) = pieces[1] \o t /\ t = pieces[2] \o u
<1> DEFINE n == Len(pieces)
           D == Seq(Tokens)
<1>1. <<>> \in Seq(Tokens)
  BY EmptyFacts, Zenon
<1>2. PICK suf : Chain(suf, Tokens, pieces) /\ suf[n] = <<>>
  BY <1>1, ChainExists, Zenon
<1>3. suf[0] = FlattenSeq(pieces) \o <<>>
  BY <1>2, ChainIsFlat, Zenon
<1>4. FlattenSeq(pieces) \in Seq(Tokens)
  BY FlattenIs, Zenon
<1>5. suf[0] = FlattenSeq(pieces)
  BY <1>3, <1>4, ConcatEmptySeq, Zenon
<1>6. n \in Nat /\ 1 \in 1 .. n /\ 2 \in 1 .. n /\ 1 - 1 = 0 /\ 2 - 1 = 1 /\ 1 \in 0 .. n /\ 2 \in 0 .. n
  BY LenProperties
<1>7. suf \in [0 .. n -> D] /\ \A i \in 1 .. n : suf[i - 1] = pieces[i] \o suf[i]
  BY <1>2, Zenon DEF Chain
<1>8. pieces[1] \in D /\ pieces[2] \in D
  BY <1>6, ElementOfSeq, Zenon
<1> HIDE DEF n, D
<1>9. suf[1 - 1] = pieces[1] \o suf[1] /\ suf[2 - 1] = pieces[2] \o suf[2]
  BY <1>6, <1>7, Zenon
<1>10. suf[1] \in D /\ suf[2] \in D
  BY <1>6, <1>7, Zenon
<1>11. suf[0] = pieces[1] \o suf[1] /\ suf[1] = pieces[2] \o suf[2]
  BY <1>6, <1>9, Zenon
<1> QED
  BY <1>4, <1>5, <1>8, <1>10, <1>11, Zenon DEF D

\* A path, written or null, and something behind it
PathFirst(b, paths) ==
  \E s \in paths, t \in Seq(Tokens) :
    s \in Seq(Tokens) /\ b = s \o t /\ (t # <<>> \/ s \in FieldNulls("string"))

(* Pieces that begin with a path. *)
LEMMA PathFirstIs ==
  ASSUME NEW pieces \in Seq(Seq(Tokens)), Len(pieces) >= 2, NEW paths, pieces[1] \in paths,
         pieces[2] # <<>> \/ pieces[1] \in FieldNulls("string")
  PROVE  FlattenSeq(pieces) \in Seq(Tokens) /\ PathFirst(FlattenSeq(pieces), paths)
<1> DEFINE b == FlattenSeq(pieces)
           s == pieces[1]
           x == pieces[2]
<1>1. PICK t \in Seq(Tokens), u \in Seq(Tokens) : b = s \o t /\ t = x \o u
  BY TwoPieces, Zenon
<1>2. b \in Seq(Tokens) /\ s \in Seq(Tokens) /\ x \in Seq(Tokens)
  BY TwoPieces, Zenon
<1>3. s \in paths /\ (x # <<>> \/ s \in FieldNulls("string"))
  OBVIOUS
<1> HIDE DEF b, s, x
<1>4. x # <<>> => t # <<>>
  <2>3. Len(x \o u) = Len(x) + Len(u)
    BY <1>2, ConcatProperties, Zenon
  <2>1. Len(t) = Len(x) + Len(u) /\ Len(x) \in Nat /\ Len(u) \in Nat /\ Len(<<>>) = 0
    BY <1>1, <1>2, <2>3, LenProperties, EmptyFacts, Zenon
  <2>2. x # <<>> => Len(x) # 0
    BY <1>2, EmptySeq, Zenon
  <2> QED
    BY <2>1, <2>2
<1> QED
  BY <1>1, <1>2, <1>3, <1>4, Zenon DEF PathFirst, b, s

Paths == Written(FieldPut("string")) \cup FieldNulls("string")

(* Read as a path alone, neither leaves nothing behind. *)
LEMMA PathAlonePanics ==
  ASSUME NEW op \in PathAlone, NEW b \in Seq(Tokens), PathFirst(b, Paths), NEW more \in Seq(Tokens)
  PROVE  DeserializePlain(op, b \o more).st = "panic"
<1> DEFINE toks == b \o more
           r == Reader(toks)
           q == GetField(r, "string")
<1>1. PICK s \in Paths, t \in Seq(Tokens) :
        s \in Seq(Tokens) /\ b = s \o t /\ (t # <<>> \/ s \in FieldNulls("string"))
  BY Zenon DEF PathFirst
<1> DEFINE rest == t \o more
<1>2. /\ op \in DOMAIN ResponseVariant /\ ResponseRecord[ResponseVariant[op]] = StringElement
      /\ "string" \in Fields
  BY PathAloneArm, WidthsOfFields
<1>3. rest \in Seq(Tokens) /\ toks \in Seq(Tokens) /\ toks = s \o rest
  <2>1. Three(s, t, more)
    BY <1>1, TokensAssociate, Zenon
  <2> QED
    BY <1>1, <2>1, ConcatProperties, Zenon DEF Three
<1>4. t # <<>> => rest # <<>>
  <2>1. Len(rest) = Len(t) + Len(more) /\ Len(t) \in Nat /\ Len(more) \in Nat /\ Len(<<>>) = 0
    BY ConcatProperties, LenProperties, EmptyFacts, Zenon
  <2>2. t # <<>> => Len(t) # 0
    BY EmptySeq, Zenon
  <2> QED
    BY <2>1, <2>2
<1> HIDE DEF rest, toks
<1>5. r \in ReadersOf(FieldVal) /\ r.st = "ok" /\ r.rest = s \o rest
  <2>1. r.st = "ok" /\ r.rest = toks
    BY DEF Reader
  <2>2. r \in ReadersOf(FieldVal)
    BY <1>3, EmptyFacts, Zenon DEF ReadersOf, Reader, Outcomes
  <2> QED
    BY <1>3, <2>1, <2>2, Zenon
<1>6. Deserialize(StringElement, toks) = q
  <2>1. StringElement.wire = <<"string">>
    BY DEF StringElement, Record
  <2>2. Len(StringElement.wire) = 1 /\ StringElement.wire[1] = "string" /\ 1 - 1 = 0 /\ 1 \in 1 .. 1
    BY <2>1
  <2>3. StringElement.wire \in Seq(WireFields)
    BY <1>2, <2>1 DEF WireFields
  <2> HIDE DEF r
  <2>4. /\ FieldReads(r, StringElement)[0] = r
        /\ \A i \in 1 .. Len(StringElement.wire) :
             FieldReads(r, StringElement)[i] = GetField(FieldReads(r, StringElement)[i - 1], StringElement.wire[i])
    BY <1>5, <2>3, FieldReadsIs, Zenon
  <2>5. FieldReads(r, StringElement)[1] = GetField(FieldReads(r, StringElement)[1 - 1], "string")
    BY <2>2, <2>4, Zenon
  <2> QED
    BY <2>2, <2>4, <2>5, Zenon DEF Deserialize, r
<1> HIDE DEF r
<1>7. CASE s \in FieldNulls("string")
  <2>1. Meets(r, q, FieldPut("string"), FieldNulls("string"))
    BY <1>2, <1>5, FieldNull, Zenon
  <2>2. q.st = "panic"
    BY <1>3, <1>5, <1>7, <2>1, Zenon DEF Meets, PanicsOn
  <2> QED
    BY <1>2, <1>3, <1>6, <2>2, LeftPanics, Zenon DEF toks
<1>8. CASE s \in Written(FieldPut("string")) /\ t # <<>>
  <2>1. PICK v \in DOMAIN FieldPut("string") : s = FieldPut("string")[v]
    BY <1>8, Zenon DEF Written
  <2>2. TakesBack(r, q, FieldPut("string"))
    BY <1>2, <1>5, FieldRead, Zenon DEF Reads
  <2>3. q = Got(r, v, rest)
    BY <1>3, <1>5, <2>1, <2>2, Zenon DEF TakesBack
  <2> HIDE DEF q
  <2>4. q.st = "ok" /\ q.rest = rest
    BY <1>5, <2>3 DEF Got
  <2>5. q.rest # <<>>
    BY <1>4, <1>8, <2>4, Zenon
  <2>6. q = Deserialize(ResponseRecord[ResponseVariant[op]], toks)
    BY <1>2, <1>6, Zenon DEF q
  <2>7. DeserializePlain(op, toks).st = "panic"
    BY <1>2, <1>3, <2>4, <2>5, <2>6, LeftPanics, Zenon
  <2> QED
    BY <2>7, Zenon DEF toks
<1> QED
  BY <1>1, <1>7, <1>8, Zenon DEF Paths

(* A path and a stat. *)
LEMMA PathAndStat ==
  ASSUME NEW b \in Images(<<"string">> \o StatFields)
  PROVE  b \in Seq(Tokens) /\ PathFirst(b, Paths)
<1> DEFINE fs == <<"string">> \o StatFields
           A == Record(fs, 0, {})
<1>1. fs \in Seq(Fields) /\ Len(fs) = 12 /\ fs[1] = "string" /\ fs[2] \in {"i32", "i64"}
  BY AnswersFit
<1>2. b \in Images(fs)
  OBVIOUS
<1> HIDE DEF fs
<1>3. A.wire = fs
  BY DEF Record
<1> HIDE DEF A
<1>4. PICK row \in RowsOf(A.wire) : b = ImageOf(A.wire, row)
  BY <1>2, <1>3, Zenon DEF Images
<1>5. row \in DOMAIN RecPut(A)
  BY <1>1, <1>3, <1>4, RowsOfRecord, Zenon
<1>6. /\ row \in Seq(FieldVal) /\ Len(row) = 12
      /\ \A i \in 1 .. 12 : row[i] \in FieldSet(fs[i])
  <2>1. DOMAIN RecPut(A) = {val \in Seq(FieldVal) : /\ Len(val) = Len(A.wire)
                              /\ \A i \in 1 .. Len(A.wire) : val[i] \in FieldSet(A.wire[i])}
    BY <1>1, <1>3, RecPutIs, Zenon
  <2> QED
    BY <1>1, <1>3, <1>5, <2>1, Zenon
<1> DEFINE pieces == [i \in 1 .. 12 |-> Image(fs[i], row[i])]
<1>7. b = FlattenSeq(pieces)
  <2>1. DOMAIN row = 1 .. 12
    BY <1>6, LenProperties, Zenon
  <2> QED
    BY <1>3, <1>4, <2>1, Zenon DEF ImageOf
<1>8. ASSUME NEW i \in 1 .. 12
      PROVE  pieces[i] \in Written(FieldPut(fs[i])) /\ pieces[i] \in Seq(Tokens)
  <2> DEFINE f == fs[i]
             v == row[i]
  <2>1. f \in Fields
    BY <1>1, ElementOfSeq, Zenon
  <2>2. v \in FieldSet(f) /\ pieces[i] = Image(f, v)
    BY <1>6, Zenon
  <2> HIDE DEF f, v, pieces
  <2>3. pieces[i] = FieldPut(f)[v] /\ v \in DOMAIN FieldPut(f) /\ IsPut(FieldPut(f), FieldVal)
    BY <2>1, <2>2, FieldIs, FieldPutIs, Zenon
  <2> QED
    BY <2>3, Zenon DEF Written, IsPut, f
<1>9. pieces[1] \in Paths /\ pieces[2] # <<>>
  <2>1. 1 \in 1 .. 12 /\ 2 \in 1 .. 12
    OBVIOUS
  <2> DEFINE f == fs[2]
             v == row[2]
  <2>2. f \in Fields /\ v \in FieldSet(f) /\ pieces[2] = Image(f, v)
    BY <1>1, <1>6, <2>1, ElementOfSeq, Zenon
  <2>3. f \in ScalarFields /\ f \in {"i32", "i64"}
    BY <1>1 DEF ScalarFields
  <2> HIDE DEF f, v
  <2>4. pieces[2] = PutField(f, v)
    BY <2>2, FieldIs, Zenon
  <2>5. v \in Int
    BY <2>2, <2>3 DEF FieldSet, PlainSet, Vectors, ScalarFields
  <2>6. PutField(f, v) = <<Token(ScalarWidth[f], v)>>
    BY <2>3, <2>5, NumberField, Zenon
  <2>7. \A x : <<x>> # <<>>
    OBVIOUS
  <2> QED
    BY <1>1, <1>8, <2>1, <2>4, <2>6, <2>7, Zenon DEF Paths
<1> HIDE DEF pieces
<1>10. pieces \in Seq(Seq(Tokens)) /\ Len(pieces) = 12
  BY <1>8 DEF pieces
<1>11. Len(pieces) >= 2
  BY <1>10
<1> QED
  BY <1>7, <1>9, <1>10, <1>11, PathFirstIs, Zenon

(* A path and a stat of which one, and that is the path, is null. *)
LEMMA NullPathAndStat ==
  ASSUME NEW b \in NullImages(<<"string">> \o StatFields)
  PROVE  b \in Seq(Tokens) /\ PathFirst(b, Paths)
<1> DEFINE fs == <<"string">> \o StatFields
           A == Record(fs, 0, {})
<1>1. /\ fs \in Seq(Fields) /\ Len(fs) = 12 /\ fs[1] = "string"
      /\ \A i \in 2 .. 12 : fs[i] \in {"i32", "i64"}
  BY AnswersFit
<1>2. b \in NullImages(fs)
  OBVIOUS
<1> HIDE DEF fs
<1>3. A.wire = fs
  BY DEF Record
<1> HIDE DEF A
<1>4. PICK pieces : /\ b = FlattenSeq(pieces) /\ b \in Seq(Tokens) /\ Len(pieces) = Len(A.wire)
                    /\ SomePieceNull(pieces, Len(A.wire), FieldPuts(A), NullsOf(A.wire))
  BY <1>1, <1>2, <1>3, NullImagesAre, Zenon
<1>5. /\ pieces \in Seq(Seq(Tokens)) /\ Len(pieces) = 12
      /\ \E i \in 1 .. 12 : pieces[i] \in NullsOf(fs)[i]
  BY <1>1, <1>3, <1>4, Zenon DEF SomePieceNull
<1>6. DOMAIN fs = 1 .. 12
  BY <1>1, LenProperties, Zenon
<1>7. \A i \in 2 .. 12 : FieldNulls(fs[i]) = {}
  <2>1. {"i32", "i64"} \cap DOMAIN ElementFields = {} /\ {"i32", "i64"} \cap {"string", "buffer"} = {}
    BY DEF ElementFields
  <2> QED
    BY <1>1, <2>1, Zenon DEF FieldNulls, PlainNulls
<1>8. \A i \in 1 .. 12 : i = 1 \/ i \in 2 .. 12
  OBVIOUS
<1>9. pieces[1] \in FieldNulls("string")
  <2>1. PICK i \in 1 .. 12 : pieces[i] \in FieldNulls(fs[i])
    BY <1>5, <1>6, Zenon DEF NullsOf
  <2> QED
    BY <1>1, <1>7, <1>8, <2>1, Zenon
<1>10. Len(pieces) >= 2 /\ pieces[1] \in Paths
  BY <1>5, <1>9 DEF Paths
<1> QED
  BY <1>4, <1>5, <1>9, <1>10, PathFirstIs, Zenon

(* No success with a null in it is read. *)
LEMMA NullSuccessPanics ==
  ASSUME NEW op \in DOMAIN ServerFields, NEW b \in NullImages(ServerFields[op])
  PROVE  AnswerPanics(op, b)
<1> DEFINE fs == ServerFields[op]
           A == Record(fs, 0, {})
<1>1. fs \in Seq(Fields)
  BY AnswersFit, Zenon
<1>2. A.wire = fs /\ <<>> \in Seq(Tokens)
  BY EmptyFacts DEF Record
<1> HIDE DEF A, fs
<1>3. b \in Seq(Tokens)
  BY <1>1, <1>2, NullRead, Zenon DEF fs
<1>4. CASE op \in NoArm
  BY <1>3, <1>4, NoArmPanics, Zenon
<1>5. CASE op \in PathAlone
  <2>1. op \in DOMAIN ResponseVariant /\ fs = <<"string">> \o StatFields
    BY <1>5, PathAloneArm, Zenon DEF fs
  <2>2. PathFirst(b, Paths)
    BY <2>1, NullPathAndStat, Zenon DEF fs
  <2>3. DeserializePlain(op, b \o <<>>).st = "panic"
    BY <1>2, <1>3, <1>5, <2>2, PathAlonePanics, Zenon
  <2>4. b \o <<>> = b
    BY <1>3, ConcatEmptySeq, Zenon
  <2>5. DeserializePlain(op, b).st = "panic"
    BY <2>3, <2>4, Zenon
  <2> QED
    BY <1>3, <2>1, <2>5, ArmPanics, Zenon
<1>6. CASE op \notin PathAlone \cup NoArm
  <2>1. op \in DOMAIN ResponseVariant /\ ResponseRecord[ResponseVariant[op]].wire = fs
    BY <1>6, ServerFieldsAre, Zenon DEF fs
  <2>2. DeserializePlain(op, b).st = "panic"
    BY <2>1, NullAnswerPanics, Zenon DEF fs
  <2> QED
    BY <1>3, <2>1, <2>2, ArmPanics, Zenon
<1> QED
  BY <1>4, <1>5, <1>6, Zenon

(* Nor is a success of the operations that are read as a path alone, or not at all. *)
LEMMA ShortReadPanics ==
  ASSUME NEW op \in PathAlone \cup NoArm, NEW b \in Images(ServerFields[op])
  PROVE  AnswerPanics(op, b)
<1>1. CASE op \in NoArm
  <2> DEFINE fs == ServerFields[op]
             A == Record(fs, 0, {})
  <2>1. op \in DOMAIN ServerFields
    BY <1>1 DEF NoArm, ServerFields
  <2>2. fs \in Seq(Fields)
    BY <2>1, AnswersFit, Zenon
  <2>3. A.wire = fs /\ <<>> \in Seq(Tokens)
    BY EmptyFacts DEF Record
  <2> HIDE DEF A
  <2>4. PICK row \in RowsOf(A.wire) : b = ImageOf(A.wire, row)
    BY <2>3, Zenon DEF Images
  <2> HIDE DEF fs
  <2>5. b \in Seq(Tokens)
    BY <2>2, <2>3, <2>4, ImageReadBack, Zenon
  <2> QED
    BY <1>1, <2>5, NoArmPanics, Zenon
<1>2. CASE op \in PathAlone
  <2>1. op \in DOMAIN ResponseVariant /\ ServerFields[op] = <<"string">> \o StatFields
    BY <1>2, PathAloneArm, Zenon
  <2>2. b \in Seq(Tokens) /\ PathFirst(b, Paths) /\ <<>> \in Seq(Tokens)
    BY <2>1, PathAndStat, EmptyFacts, Zenon
  <2>3. DeserializePlain(op, b \o <<>>).st = "panic"
    BY <1>2, <2>2, PathAlonePanics, Zenon
  <2>4. b \o <<>> = b
    BY <2>2, ConcatEmptySeq, Zenon
  <2>5. DeserializePlain(op, b).st = "panic"
    BY <2>3, <2>4, Zenon
  <2> QED
    BY <2>1, <2>2, <2>5, ArmPanics, Zenon
<1> QED
  BY <1>1, <1>2, Zenon

(* A watch event whose path is null is not read. *)
LEMMA NullEventPanics ==
  ASSUME NEW g \in NullEvents, Width(g.frame) <= MaxFrameLength
  PROVE  ReplyPanics(g)
<1> DEFINE f == g.frame
           map == [x \in {g.xid} |-> g.op]
           R == WatcherEvent
           xid == -1
<1>1. f \in NullReplies(xid, EventFields)
  BY AskedIs, Zenon DEF NullEvents, IsAsked
<1>2. xid \in Int /\ xid # 0 /\ 0 \in Int
  OBVIOUS
<1>3. Width(f) <= MaxFrameLength
  OBVIOUS
<1> HIDE DEF f, map
<1>4. PICK h \in ReplyHeads(xid, {0}), b \in NullImages(EventFields) : f = h \o b
  BY <1>1 DEF NullReplies
<1>5. PICK zxid \in Int : h = ReplyHeadOf(xid, zxid, 0)
  BY ReplyHeadsAre
<1>6. R.wire = EventFields
  BY DEF WatcherEvent, Record, EventFields
<1>7. R.wire \in Seq(Fields)
  BY ResponsesFit, Zenon DEF Fits
<1>8. <<>> \in Seq(Tokens)
  BY EmptyFacts, Zenon
<1> HIDE DEF R
<1>9. b \in Seq(Tokens) /\ Deserialize(R, b \o <<>>).st = "panic"
  BY <1>6, <1>7, <1>8, NullRead, Zenon
<1>10. Deserialize(R, b).st = "panic"
  BY <1>9, ConcatEmptySeq, Zenon
<1> DEFINE header == <<xid, zxid, 0>>
           q == [st |-> "ok", val |-> header, rest |-> b]
<1>11. header[1] = xid
  OBVIOUS
<1>12. /\ XidCodes.WatchXid = xid /\ xid # XidCodes.PingXid
       /\ xid # XidCodes.AuthXid /\ xid # XidCodes.SetWatchesXid
  BY DEF XidCodes
<1> HIDE DEF xid
<1>13. f = ReplyHeadOf(xid, zxid, 0) \o b
  BY <1>4, <1>5, Zenon
<1>14. HeadRead(f, map, header, b) /\ f \in Seq(Tokens)
  BY <1>2, <1>3, <1>9, <1>13, ReplyHeaderFirst, Zenon
<1> HIDE DEF header
<1>15. q.st = "ok" /\ q.val = header /\ q.rest = b
  OBVIOUS
<1>16. decodeReply(f, map) = DecodeHeaded(q, map)
  BY <1>14, Zenon DEF HeadRead
<1> HIDE DEF q
<1>17. decodeReply(f, map) = Packet(header, "WatchEvent", Deserialize(R, b), FALSE)
  BY <1>11, <1>12, <1>15, <1>16, Zenon DEF DecodeHeaded, R
<1>18. Packet(header, "WatchEvent", Deserialize(R, b), FALSE).st = "panic"
  BY <1>10, PanicIsPassedOn, Zenon
<1> QED
  BY <1>14, <1>17, <1>18, Zenon DEF ReplyPanics, f, map

(* A reply to set-watches is never read. *)
LEMMA SetWatchesReplyPanics ==
  ASSUME NEW g \in ControlReplies({-8}), Width(g.frame) <= MaxFrameLength
  PROVE  ReplyPanics(g)
<1> DEFINE f == g.frame
           map == [x \in {g.xid} |-> g.op]
           xid == -8
           Frames(x) == ReplyHeads(x, Errors \cup {0})
           Sets(x) == Asked(1, "GetData", Frames(x))
<1>1. g \in UNION {Sets(x) : x \in {-8}}
  BY DEF ControlReplies
<1>2. g \in Sets(xid)
  <2> HIDE DEF Sets
  <2> QED
    BY <1>1
<1>3. f \in Frames(xid)
  <2> HIDE DEF Frames, xid
  <2> QED
    BY <1>2, AskedIs, Zenon DEF IsAsked
<1>4. Width(f) <= MaxFrameLength
  OBVIOUS
<1> HIDE DEF f, map
<1>5. PICK zxid \in Int, err \in Errors \cup {0} : f = ReplyHeadOf(xid, zxid, err)
  BY <1>3, ReplyHeadsAre
<1>6. err \in Int /\ <<>> \in Seq(Tokens) /\ xid \in Int /\ xid # 0
  BY ProtocolAssumption, EmptyFacts
<1> DEFINE header == <<xid, zxid, err>>
           q == [st |-> "ok", val |-> header, rest |-> <<>>]
<1>7. header[1] = xid
  OBVIOUS
<1>8. /\ XidCodes.SetWatchesXid = xid /\ xid # XidCodes.WatchXid
      /\ xid # XidCodes.PingXid /\ xid # XidCodes.AuthXid
  BY DEF XidCodes
<1> HIDE DEF xid
<1>9. f = ReplyHeadOf(xid, zxid, err) \o <<>>
  BY <1>5, <1>6, HeadAlone, Zenon
<1>10. HeadRead(f, map, header, <<>>) /\ f \in Seq(Tokens)
  BY <1>4, <1>6, <1>9, ReplyHeaderFirst, Zenon
<1> HIDE DEF header
<1>11. q.st = "ok" /\ q.val = header
  OBVIOUS
<1>12. decodeReply(f, map) = DecodeHeaded(q, map)
  BY <1>10, Zenon DEF HeadRead
<1> HIDE DEF q
<1>13. decodeReply(f, map) = Refused("panic")
  BY <1>7, <1>8, <1>11, <1>12, Zenon DEF DecodeHeaded
<1> QED
  BY <1>10, <1>13, RefusedIs, Zenon DEF ReplyPanics, f, map

(* A connect reply without a password is not read. *)
LEMMA NullConnectReplyPanics ==
  ASSUME NEW g \in NullConnectReplies, Width(g.frame) <= MaxFrameLength
  PROVE  ReplyPanics(g)
<1> DEFINE f == g.frame
           map == [x \in {g.xid} |-> g.op]
           fs == ConnectedFields
           R == ConnectResponse
           q == Deserialize(R, f)
<1>1. f \in NullConnecting(fs)
  BY AskedIs, Zenon DEF NullConnectReplies, IsAsked
<1>2. fs \in Seq(Fields)
  BY WidthsOfFields DEF ConnectedFields
<1>3. BehindNumber(R, fs)
  <2>1. R.wire = <<"i32", "i32", "i64", "buffer", "read_only">>
    BY DEF ConnectResponse, Record
  <2>2. R.wire \in Seq(WireFields)
    BY ConnectReplyEnds, Zenon DEF Fits
  <2> QED
    BY <2>1, <2>2 DEF BehindNumber, ConnectedFields
<1>4. Width(f) <= MaxFrameLength
  OBVIOUS
<1> HIDE DEF f, map, fs, R, q
<1>5. PICK b \in NullImages(fs), r \in Endings : f = <<Token(4, 0)>> \o b \o r
  BY <1>1, SMTT(30) DEF NullConnecting
<1>6. f \in Seq(Tokens) /\ f[1] = Token(4, 0) /\ q.st = "panic"
  <2>1. r \in Seq(Tokens) /\ 0 \in Int
    BY EndingsAre
  <2>2. f = Numbered(0, b, r)
    BY <1>5, Zenon DEF Numbered
  <2> QED
    BY <1>2, <1>3, <2>1, <2>2, NullBehindNumber, Zenon DEF q
<1>7. XidCodes.ConnectXid = 0
  BY DEF XidCodes
<1>8. Packet(<<>>, "Connect", q, FALSE).st = "panic"
  BY <1>6, PanicIsPassedOn, Zenon
<1>9. ~(Width(f) > MaxFrameLength)
  <2>1. Width(f) \in Nat
    BY <1>6, WidthsAre, Zenon
  <2> QED
    BY <1>4, <2>1, MaxFrameLengthAssumption
<1>10. decodeReply(f, map).st = "panic"
  <2>1. CASE Width(f) < 4
    BY <1>9, <2>1, RefusedIs, Zenon DEF decodeReply
  <2>2. CASE ~(Width(f) < 4)
    BY <1>6, <1>7, <1>8, <1>9, <2>2, Zenon DEF decodeReply, q, R
  <2> QED
    BY <2>1, <2>2, Zenon
<1> QED
  BY <1>6, <1>10, Zenon DEF ReplyPanics, f, map

(* A result of a multi that holds a success. *)
LEMMA ResultIs ==
  ASSUME NEW op \in DOMAIN ResultFields, NEW b \in Images(ResultFields[op]),
         NEW more \in Seq(Tokens), more # <<>>
  PROVE  /\ op \in DOMAIN OpCodes /\ op \in DOMAIN ResponseVariant /\ op # "Multi"
         /\ b \in Seq(Tokens) /\ DeserializePlain(op, b \o more).st = "panic"
<1>1. /\ DOMAIN ResultFields = DOMAIN MultiFields /\ op \in DOMAIN MultiFields
      /\ ResultFields[op] = IF op = "Check" THEN <<>> ELSE ServerFields[op]
  BY Zenon DEF ResultFields
<1>2. DOMAIN MultiFields = {"Create", "Create2", "CreateContainer", "CreateTtl", "Delete", "SetData",
                            "Check", "GetData", "GetChildren"}
  BY DEF MultiFields
<1>3. op \in DOMAIN OpCodes
  BY <1>1, MultiFieldsAre, Zenon
<1>4. CASE op = "Check"
  <2>1. "Check" \in DOMAIN ResponseVariant /\ ResponseRecord[ResponseVariant["Check"]] = NoBody
    BY DEF ResponseVariant, ResponseRecord
  <2>2. NoBody.wire = <<>> /\ "Check" # "Multi"
    BY DEF NoBody, Record
  <2>3. op \in DOMAIN ResponseVariant /\ ResponseRecord[ResponseVariant[op]].wire = ResultFields[op]
    BY <1>1, <1>4, <2>1, <2>2, Zenon
  <2> QED
    BY <1>3, <1>4, <2>2, <2>3, MoreBehindPanics, Zenon
<1>5. CASE op \in PathAlone
  <2>1. op # "Check" /\ op # "Multi"
    BY <1>5 DEF PathAlone
  <2>2. op \in DOMAIN ResponseVariant /\ ResultFields[op] = <<"string">> \o StatFields
    BY <1>1, <1>5, <2>1, PathAloneArm, Zenon
  <2>3. b \in Seq(Tokens) /\ PathFirst(b, Paths)
    BY <2>2, PathAndStat, Zenon
  <2> QED
    BY <1>3, <1>5, <2>1, <2>2, <2>3, PathAlonePanics, Zenon
<1>6. CASE op # "Check" /\ op \notin PathAlone
  <2>1. op \in {"Create", "Create2", "Delete", "SetData", "GetData", "GetChildren"}
    BY <1>1, <1>2, <1>6 DEF PathAlone
  <2>2. op \in DOMAIN ServerFields \ (PathAlone \cup NoArm)
    BY <2>1 DEF ServerFields, PathAlone, NoArm
  <2>3. /\ op \in DOMAIN ResponseVariant /\ op # "Multi"
        /\ ResponseRecord[ResponseVariant[op]].wire = ResultFields[op]
    BY <1>1, <1>6, <2>2, ServerFieldsAre, Zenon
  <2> QED
    BY <1>3, <2>3, MoreBehindPanics, Zenon
<1> QED
  BY <1>4, <1>5, <1>6, Zenon

\* A result of a multi, its header and its body
ResultOf(part, op, b) ==
  op \in DOMAIN ResultFields /\ b \in Images(ResultFields[op])
    /\ part = MultiReplyHead(OpCodes[op], 0, 0) \o b

(* The first result of a multi that holds a success ends its reading. *)
LEMMA FirstResultPanics ==
  ASSUME NEW part, NEW op, NEW b, ResultOf(part, op, b), NEW more \in Seq(Tokens), more # <<>>,
         NEW m, m.st = "loop", m.rest = part \o more, m.nested = FALSE
  PROVE  part \in Seq(Tokens) /\ MultiReplyTurn(m) = Stop(m, "panic")
<1> DEFINE n == OpCodes[op]
           head == MultiReplyHead(n, 0, 0)
           header == <<n, 0, 0>>
           toks == b \o more
           h == Deserialize(MultiHeader, head \o toks)
           q == DeserializePlain(op, toks)
<1>1. /\ op \in DOMAIN OpCodes /\ op \in DOMAIN ResponseVariant /\ op # "Multi"
      /\ b \in Seq(Tokens) /\ q.st = "panic"
  BY ResultIs, Zenon DEF ResultOf
<1>2. n \in Int /\ ValidOpCode(n) /\ OpCodeOf(n) = op
  BY <1>1, OpCodesAre, Zenon
<1>3. n # -1
  <2>1. op \in DOMAIN MultiFields
    BY Zenon DEF ResultOf, ResultFields
  <2>2. DOMAIN MultiFields = {"Create", "Create2", "CreateContainer", "CreateTtl", "Delete", "SetData",
                              "Check", "GetData", "GetChildren"}
    BY DEF MultiFields
  <2>3. /\ OpCodes["Create"] # -1 /\ OpCodes["Create2"] # -1 /\ OpCodes["CreateContainer"] # -1
        /\ OpCodes["CreateTtl"] # -1 /\ OpCodes["Delete"] # -1 /\ OpCodes["SetData"] # -1
        /\ OpCodes["Check"] # -1 /\ OpCodes["GetData"] # -1 /\ OpCodes["GetChildren"] # -1
    BY DEF OpCodes
  <2> QED
    BY <2>1, <2>2, <2>3, Zenon
<1>4. 0 \in Int /\ 0 # 1 /\ "panic" # "ok"
  OBVIOUS
<1>5. header[1] = n /\ header[2] = 0
  OBVIOUS
<1> HIDE DEF n
<1>6. head = <<Token(4, n), Token(1, 0), Token(4, 0)>>
  BY Zenon DEF MultiReplyHead
<1>7. toks \in Seq(Tokens)
  BY <1>1, ConcatProperties, Zenon
<1> HIDE DEF head, toks
<1>8. head \in Seq(Tokens) /\ h = [st |-> "ok", val |-> header, rest |-> toks]
  BY <1>2, <1>4, <1>6, <1>7, HeadersRead, ZenonT(40)
<1>9. part = head \o b
  BY Zenon DEF ResultOf, head, n
<1>10. part \in Seq(Tokens)
  BY <1>1, <1>8, <1>9, ConcatProperties, Zenon
<1>11. m.rest = head \o toks
  <2>1. Three(head, b, more)
    BY <1>1, <1>8, TokensAssociate, Zenon
  <2> QED
    BY <1>9, <2>1, Zenon DEF Three, toks
<1> HIDE DEF header, h, q
<1>12. h.st = "ok" /\ h.val = header /\ h.rest = toks
  BY <1>8
<1>13. MultiReplyTurn(m) = MultiReplyHeaderRead(m, h)
  BY <1>11, Zenon DEF MultiReplyTurn, h
<1>14. MultiReplyHeaderRead(m, h) = MultiResult(m, header, ResponseVariant[op], q)
  BY <1>1, <1>2, <1>3, <1>4, <1>5, <1>12, Zenon DEF MultiReplyHeaderRead, q
<1>15. MultiResult(m, header, ResponseVariant[op], q) = Stop(m, "panic")
  BY <1>1, <1>4, Zenon DEF MultiResult, q
<1> QED
  BY <1>10, <1>13, <1>14, <1>15, Zenon

(* Something behind which there is something is not empty. *)
LEMMA MoreIsLeft ==
  ASSUME NEW x \in Seq(Tokens), NEW u \in Seq(Tokens), u # <<>>
  PROVE  x \o u # <<>>
<1>1. Len(u) \in Nat \ {0} /\ Len(x) \in Nat
  BY EmptySeq, LenProperties, Zenon
<1>2. Len(x \o u) = Len(x) + Len(u)
  BY ConcatProperties, Zenon
<1>3. Len(x \o u) # 0
  BY <1>1, <1>2
<1>4. Len(<<>>) = 0
  OBVIOUS
<1> QED
  BY <1>3, <1>4, Zenon

(* A multi's answer ends in tokens. *)
LEMMA ReplyDoneIs == MultiReplyDone \in Seq(Tokens) /\ MultiReplyDone # <<>>
<1>1. MultiReplyDone \in Seq(Tokens)
  BY MultiReplyRead, Zenon
<1>2. MultiReplyDone # <<>>
  BY DEF MultiReplyDone, MultiReplyHead
<1> QED
  BY <1>1, <1>2, Zenon

(* The results are tokens. *)
LEMMA ResultsAreTokens == Results \subseteq Seq(Tokens)
<1>1. ASSUME NEW part \in Results
      PROVE  part \in Seq(Tokens)
  <2>1. PICK op, b : ResultOf(part, op, b)
    BY Zenon DEF Results, ResultOf
  <2> DEFINE x == [st |-> "loop", rest |-> part \o MultiReplyDone, nested |-> FALSE]
  <2>2. x.st = "loop" /\ x.rest = part \o MultiReplyDone /\ x.nested = FALSE
    OBVIOUS
  <2> HIDE DEF x
  <2> QED
    BY <2>1, <2>2, ReplyDoneIs, FirstResultPanics, Zenon
<1> QED
  BY <1>1, Zenon

(* The results of a multi, one after another. *)
LEMMA MultiPartsFlat ==
  ASSUME NEW parts \in BoundedSeq(Results, MaxOps) \ {<<>>}
  PROVE  FlattenSeq(parts) \in Seq(Tokens)
<1>1. parts \in Seq(Results)
  BY ProtocolAssumption, BoundedIsSeq, Zenon
<1>2. parts \in Seq(Seq(Tokens))
  BY <1>1, ResultsAreTokens, SeqMonotonic
<1> QED
  BY <1>2, FlattenIs, Zenon

(* A multi with a success in it is not read. *)
LEMMA MultiAnswerPanics ==
  ASSUME NEW parts \in BoundedSeq(Results, MaxOps) \ {<<>>}
  PROVE  AnswerPanics("Multi", FlattenSeq(parts) \o MultiReplyDone)
<1> DEFINE flat == FlattenSeq(parts)
           body == flat \o MultiReplyDone
           m == MultiReplyLoop(body)
           k == Len(parts)
<1>1. parts \in Seq(Results) /\ parts # <<>>
  BY ProtocolAssumption, BoundedIsSeq, Zenon
<1>2. \A part \in Results : \E op, b : ResultOf(part, op, b)
  BY Zenon DEF Results, ResultOf
<1>3. MultiReplyDone \in Seq(Tokens) /\ MultiReplyDone # <<>>
  BY ReplyDoneIs, Zenon
<1>4. Results \subseteq Seq(Tokens)
  BY ResultsAreTokens, Zenon
<1>5. parts \in Seq(Seq(Tokens)) /\ k \in Nat /\ k # 0
  <2>1. k \in Nat \ {0}
    BY <1>1, EmptySeq, Zenon
  <2>2. parts \in Seq(Seq(Tokens))
    BY <1>1, <1>4, SeqMonotonic
  <2> QED
    BY <2>1, <2>2
<1>6. PICK suf : Chain(suf, Tokens, parts) /\ suf[k] = MultiReplyDone
  BY <1>3, <1>5, ChainExists, Zenon
<1>7. suf[0] = body
  BY <1>5, <1>6, ChainIsFlat, Zenon
<1>8. suf \in [0 .. k -> Seq(Tokens)] /\ \A i \in 1 .. k : suf[i - 1] = parts[i] \o suf[i]
  BY <1>6, Zenon DEF Chain
<1> HIDE DEF k
<1>9. 1 \in 1 .. k /\ 0 \in 0 .. k /\ 1 \in 0 .. k /\ 1 - 1 = 0 /\ k \in 0 .. k
  BY <1>5
<1>10. parts[1] \in Results
  <2>1. 1 \in 1 .. Len(parts)
    BY <1>9, Zenon DEF k
  <2> QED
    BY <1>1, <2>1, ElementOfSeq, Zenon
<1>11. body = parts[1] \o suf[1] /\ suf[1] \in Seq(Tokens) /\ body \in Seq(Tokens)
  <2>1. suf[1 - 1] = parts[1] \o suf[1]
    BY <1>8, <1>9, Zenon
  <2> QED
    BY <1>7, <1>8, <1>9, <2>1, Zenon
<1>12. suf[1] # <<>>
  <2> DEFINE T == {i \in 0 .. k : suf[k - i] # <<>>}
  <2>0. k - 0 = k /\ k \in Nat /\ k - (k - 1) = 1 /\ k - 1 \in 0 .. k
    BY <1>5
  <2>1. 0 \in T
    BY <1>3, <1>6, <1>9, <2>0, Zenon DEF k
  <2>2. ASSUME NEW i \in 1 .. k, i - 1 \in T
        PROVE  i \in T
    <3> DEFINE j == k - (i - 1)
    <3>1. j \in 1 .. k /\ j \in 0 .. k /\ j - 1 = k - i /\ i \in 0 .. k
      BY <1>5
    <3> HIDE DEF j
    <3>2. suf[j] # <<>>
      BY <2>2, Zenon DEF j
    <3>3. suf[j - 1] = parts[j] \o suf[j] /\ suf[j] \in Seq(Tokens)
      BY <1>8, <3>1, Zenon
    <3>4. j \in 1 .. Len(parts)
      BY <3>1, Zenon DEF k
    <3>5. parts[j] \in Seq(Tokens)
      BY <1>5, <3>4, ElementOfSeq, Zenon
    <3>6. parts[j] \o suf[j] # <<>>
      BY <3>2, <3>3, <3>5, MoreIsLeft, Zenon
    <3> QED
      BY <3>1, <3>3, <3>6, Zenon
  <2> HIDE DEF T
  <2>3. \A i \in 0 .. k : i \in T
    BY <2>0, <2>1, <2>2, InductionTo, Zenon
  <2>4. k - 1 \in T
    BY <2>0, <2>3, Zenon
  <2> QED
    BY <2>0, <2>4, Zenon DEF T
<1>13. m.st = "loop" /\ m.rest = body /\ m.nested = FALSE
  BY DEF MultiReplyLoop
<1> HIDE DEF body, m
<1> DEFINE g == Stop(m, "panic")
<1>14. MultiReplyTurn(m) = g
  <2>1. PICK op, b : ResultOf(parts[1], op, b)
    BY <1>2, <1>10, Zenon
  <2>2. m.rest = parts[1] \o suf[1]
    BY <1>11, <1>13, Zenon
  <2> QED
    BY <1>11, <1>12, <1>13, <2>1, <2>2, FirstResultPanics, Zenon
<1>15. g.st = "panic"
  BY DEF Stop, m, MultiReplyLoop
<1> HIDE DEF g
<1>16. MultiReplyTurn(g) = g
  <2>1. "panic" # "loop"
    OBVIOUS
  <2> QED
    BY <1>15, <2>1, Zenon DEF MultiReplyTurn
<1> DEFINE r == DeserializeMultiResponse(body)
<1>17. r = MultiResponse(g)
  BY <1>11, <1>14, <1>16, OneReplyTurn, Zenon DEF m
<1> HIDE DEF r
<1>18. r.st = "panic"
  BY <1>15, <1>17 DEF MultiResponse
<1>19. ASSUME NEW header
       PROVE  DecodeResponse(header, "Multi", body).st = "panic"
  <2>1. DecodeResponse(header, "Multi", body) = Packet(header, "Multi", r, TRUE)
    BY ResponseVariantsAre, Zenon DEF DecodeResponse, r
  <2>2. Packet(header, "Multi", r, TRUE).st = "panic"
    BY <1>18, PanicIsPassedOn, Zenon
  <2> QED
    BY <2>1, <2>2, Zenon
<1> QED
  BY <1>11, <1>19, Zenon DEF AnswerPanics, body

(* Each of the replies that the decoder has no reading for ends in a panic. *)
LEMMA RefusedReplyPanics ==
  ASSUME NEW g \in RefusedReplies
  PROVE  ReplyPanics(g)
<1> DEFINE Short == PathAlone \cup NoArm
           All == DOMAIN ServerFields
<1>1. /\ Width(g.frame) <= MaxFrameLength
      /\ g \in NullSuccesses(All) \cup NullEvents \cup NullConnectReplies
                 \cup Successes(Short) \cup ControlReplies({-8}) \cup MultiReplies
  BY Zenon DEF RefusedReplies
<1>2. CASE g \in NullSuccesses(All)
  <2> DEFINE Frames(xid, op) == NullReplies(xid, ServerFields[op])
             Sets(xid, op) == Asked(xid, op, Frames(xid, op))
  <2>1. g \in UNION {Sets(xid, op) : xid \in ReplyXids, op \in All}
    BY <1>2 DEF NullSuccesses
  <2>2. PICK xid \in ReplyXids, op \in All : g \in Sets(xid, op)
    <3> HIDE DEF Sets, All
    <3> QED
      BY <2>1
  <2>3. g.xid = xid /\ g.op = op /\ g.frame \in NullReplies(xid, ServerFields[op])
    BY <2>2, AskedIs, Zenon DEF IsAsked
  <2> DEFINE f == g.frame
  <2>4. PICK h \in ReplyHeads(xid, {0}), b \in NullImages(ServerFields[op]) : g.frame = h \o b
    <3>1. f \in NullReplies(xid, ServerFields[op])
      BY <2>3, Zenon
    <3> HIDE DEF f
    <3>2. \E h \in ReplyHeads(xid, {0}), b \in NullImages(ServerFields[op]) : f = h \o b
      BY <3>1 DEF NullReplies
    <3> QED
      BY <3>2, Zenon DEF f
  <2>5. Answers(g, xid, op, b)
    BY <2>3, <2>4, ReplyXidsAre, Zenon DEF Answers
  <2> QED
    BY <1>1, <2>5, NullSuccessPanics, AnswerRefused, Zenon
<1>3. CASE g \in Successes(Short)
  <2> DEFINE Frames(xid, op) == Replies(xid, ServerFields[op])
             Sets(xid, op) == Asked(xid, op, Frames(xid, op))
  <2>1. g \in UNION {Sets(xid, op) : xid \in ReplyXids, op \in Short}
    BY <1>3 DEF Successes
  <2>2. PICK xid \in ReplyXids, op \in Short : g \in Sets(xid, op)
    <3> HIDE DEF Sets, Short
    <3> QED
      BY <2>1
  <2>3. g.xid = xid /\ g.op = op /\ g.frame \in Replies(xid, ServerFields[op])
    BY <2>2, AskedIs, Zenon DEF IsAsked
  <2> DEFINE f == g.frame
  <2>4. PICK h \in ReplyHeads(xid, {0}), b \in Images(ServerFields[op]) : g.frame = h \o b
    <3>1. f \in Replies(xid, ServerFields[op])
      BY <2>3, Zenon
    <3> HIDE DEF f
    <3>2. \E h \in ReplyHeads(xid, {0}), b \in Images(ServerFields[op]) : f = h \o b
      BY <3>1 DEF Replies
    <3> QED
      BY <3>2, Zenon DEF f
  <2>5. Answers(g, xid, op, b)
    BY <2>3, <2>4, ReplyXidsAre, Zenon DEF Answers
  <2> QED
    BY <1>1, <2>5, ShortReadPanics, AnswerRefused, Zenon
<1>4. CASE g \in MultiReplies
  <2> DEFINE Bodies == BoundedSeq(Results, MaxOps) \ {<<>>}
             Sets(parts) == Asked(1, "Multi", MultiReplyFrames(parts))
  <2>1. g \in UNION {Sets(parts) : parts \in Bodies}
    BY <1>4 DEF MultiReplies
  <2>2. PICK parts \in Bodies : g \in Sets(parts)
    <3> HIDE DEF Sets, Bodies
    <3> QED
      BY <2>1
  <2>3. g.xid = 1 /\ g.op = "Multi" /\ g.frame \in MultiReplyFrames(parts)
    BY <2>2, AskedIs, Zenon DEF IsAsked
  <2> DEFINE flat == FlattenSeq(parts)
             b == flat \o MultiReplyDone
  <2>4. AnswerPanics("Multi", b)
    BY <2>2, MultiAnswerPanics, Zenon
  <2>5. PICK h \in ReplyHeads(1, {0}) : g.frame = h \o b
    <3>1. g.frame \in {h \o FlattenSeq(parts) \o MultiReplyDone : h \in ReplyHeads(1, {0})}
      BY <2>3, Zenon DEF MultiReplyFrames
    <3>2. PICK h \in ReplyHeads(1, {0}) : g.frame = h \o FlattenSeq(parts) \o MultiReplyDone
      BY <3>1
    <3>3. PICK zxid \in Int : h = ReplyHeadOf(1, zxid, 0)
      BY <3>2, ReplyHeadsAre
    <3>4. h \in Seq(Tokens)
      BY <3>3, TokensAre DEF ReplyHeadOf
    <3>5. flat \in Seq(Tokens) /\ MultiReplyDone \in Seq(Tokens)
      BY <2>2, MultiPartsFlat, MultiReplyRead, Zenon
    <3> HIDE DEF flat
    <3>6. Three(h, flat, MultiReplyDone)
      BY <3>4, <3>5, TokensAssociate, Zenon
    <3> QED
      BY <3>2, <3>6, Zenon DEF Three, flat
  <2> HIDE DEF b
  <2>6. 1 \in Int /\ 1 \notin {0, -1, -2, -4, -8}
    OBVIOUS
  <2>7. Answers(g, 1, "Multi", b)
    BY <2>3, <2>5, <2>6, Zenon DEF Answers
  <2> QED
    BY <1>1, <2>4, <2>7, AnswerRefused, Zenon
<1> QED
  BY <1>1, <1>2, <1>3, <1>4, NullEventPanics, NullConnectReplyPanics, SetWatchesReplyPanics, Zenon

-----------------------------------------------------------------------------
(* Replies, whatever they hold *)

(* What a reply's turn is about. *)
LEMMA ReplyTurnIs ==
  ASSUME TurnInv, kind = "reply"
  PROVE  /\ item.frame \in Seq(Tokens)
         /\ packet.st # "none" => packet = decodeReply(item.frame, Asks)
         /\ \A i \in DOMAIN sent : /\ packet.st = "ok" /\ sent[i] = encodeReply(packet)
                                   /\ packet = decodeReply(item.frame, Asks)
<1>1. item \in GoodReplies \cup RefusedReplies \cup OtherReplies
  BY KindsDiffer, Zenon DEF TurnInv, Starting, IsRecord
<1>2. item.frame \in Seq(Tokens)
  <2>1. CASE item \in GoodReplies
    BY <2>1, GoodReplyWhole, Zenon DEF WholeReply
  <2>3. CASE item \in RefusedReplies
    BY <2>3, RefusedReplyPanics, Zenon DEF ReplyPanics
  <2>2. CASE item \in OtherReplies
    <3>1. item \in [xid : Int, op : DOMAIN OpCodes, frame : Seq(Tokens)]
      BY <2>2, CodecsAssumption, Zenon
    <3> QED
      BY <3>1
  <2> QED
    BY <1>1, <2>1, <2>2, <2>3, Zenon
<1>3. packet = Refused("none") \/ packet = decodeReply(item.frame, Asks)
  BY Zenon DEF TurnInv, ReplyTurn
<1>4. Refused("none").st = "none" /\ Refused("none").st # "ok"
  BY RefusedIs, Zenon
<1>5. ASSUME NEW i \in DOMAIN sent
      PROVE  packet.st = "ok" /\ sent[i] = encodeReply(packet)
               /\ packet = decodeReply(item.frame, Asks)
  <2>1. sent = <<>> \/ (packet.st = "ok" /\ sent = <<encodeReply(packet)>>)
    BY Zenon DEF TurnInv, ReplyTurn
  <2>2. sent # <<>>
    BY <1>5, EmptyFacts
  <2> DEFINE e == encodeReply(packet)
  <2> HIDE DEF e
  <2>3. sent = <<e>>
    BY <2>1, <2>2, Zenon DEF e
  <2>4. sent[i] = e
    BY <1>5, <2>3
  <2> QED
    BY <1>3, <1>4, <2>1, <2>2, <2>4, Zenon DEF e
<1> QED
  BY <1>2, <1>3, <1>4, <1>5, Zenon

(* Of the well formed replies of a server, whatever their fields hold, ClientPacketCodec::decode
   panics on those with a null, on the successes of create-container and create-ttl, whose arm
   asserts that there is no stat, on those of sync and remove-watches, on the reply to set-watches,
   and on those to a multi whose operations succeeded; it takes every other one. *)
THEOREM RepliesEnd == Spec => []ReplyOutcome
<1>1. TurnInv => ReplyOutcome
  <2> SUFFICES ASSUME TurnInv, kind = "reply", packet.st # "none"
               PROVE  /\ item \in GoodReplies => packet.st = "ok"
                      /\ item \in RefusedReplies => packet.st = "panic"
    BY Zenon DEF ReplyOutcome
  <2>1. packet = decodeReply(item.frame, Asks)
    BY ReplyTurnIs, Zenon
  <2> QED
    BY <2>1, GoodReplyWhole, RefusedReplyPanics, Zenon
       DEF WholeReply, ReplyReadWhole, Asks, ReplyPanics
<1> QED
  BY <1>1, TurnsAreTaken, PTL

\* What encode() makes of a reply
Encoded(e, st, body) == e.st = st /\ e.body = body

(* The three ways in which encode() ends. *)
LEMMA EncodedIs ==
  ASSUME NEW p
  PROVE  /\ p.variant = "Multi" => Encoded(encodeReply(p), "panic", <<>>)
         /\ p.variant # "Multi" /\ Width(SerializeReply(p)) > MaxFrameLength =>
              Encoded(encodeReply(p), "err", <<>>)
         /\ /\ p.variant # "Multi" /\ Width(SerializeReply(p)) \in Nat
            /\ Width(SerializeReply(p)) <= MaxFrameLength
            => Encoded(encodeReply(p), "ok", SerializeReply(p))
<1> DEFINE s == SerializeReply(p)
           e == encodeReply(p)
<1>1. \A st, body : Encoded([st |-> st, body |-> body], st, body)
  BY DEF Encoded
<1>2. Width(s) \in Nat /\ Width(s) <= MaxFrameLength => ~(Width(s) > MaxFrameLength)
  BY MaxFrameLengthAssumption
<1>3. p.variant = "Multi" => e = [st |-> "panic", body |-> <<>>]
  BY Zenon DEF encodeReply
<1>4. p.variant # "Multi" /\ Width(s) > MaxFrameLength => e = [st |-> "err", body |-> <<>>]
  BY Zenon DEF encodeReply
<1>5. p.variant # "Multi" /\ Width(s) \in Nat /\ Width(s) <= MaxFrameLength =>
        e = [st |-> "ok", body |-> s]
  BY <1>2, Zenon DEF encodeReply
<1> HIDE DEF s, e
<1> QED
  BY <1>1, <1>3, <1>4, <1>5, Zenon DEF s, e

(* A reply that is read and not refused again is written as it was read: what encode() makes of
   what decode() has read. *)
LEMMA ReplyEncoded ==
  ASSUME NEW f \in Seq(Tokens), NEW map, NEW p, p = decodeReply(f, map), p.st = "ok",
         NEW e, e = encodeReply(p)
  PROVE  \/ p.variant = "Multi" /\ Encoded(e, "panic", <<>>)
         \/ /\ p.variant = "Connect" /\ Width(f) = MaxFrameLength /\ Encoded(e, "err", <<>>)
         \/ ConnectPassed(f, p) /\ Encoded(e, "ok", SerializeReply(p))
         \/ /\ Encoded(e, "ok", SerializeReply(p))
            /\ \E rest \in Seq(Tokens) : ReplyForwarded(f, p, rest)
<1> DEFINE s == SerializeReply(p)
<1>1. Width(f) \in Nat /\ Width(f) <= MaxFrameLength /\ (ConnectPassed(f, p) \/ Passed(f, p))
  BY DecodeReplyForwards, Zenon
<1>2. CASE p.variant = "Multi"
  BY <1>2, EncodedIs, Zenon
<1>3. ASSUME NEW rest \in Seq(Tokens), ReplyForwarded(f, p, rest)
      PROVE  Encoded(e, "ok", s)
  <2>1. s \in Seq(Tokens) /\ f = s \o rest /\ p.variant # "Multi"
    BY <1>3 DEF ReplyForwarded
  <2>2. Width(f) = Width(s) + Width(rest) /\ Width(s) \in Nat /\ Width(rest) \in Nat
    <3> HIDE DEF s
    <3> QED
      BY <2>1, WidthOfConcat, WidthsAre, Zenon
  <2>3. Width(s) <= MaxFrameLength
    <3> HIDE DEF s
    <3> QED
      BY <1>1, <2>2, MaxFrameLengthAssumption
  <2> QED
    BY <2>1, <2>2, <2>3, EncodedIs, Zenon
<1>4. CASE ConnectPassed(f, p)
  <2>1. p.variant = "Connect" /\ EndsForwarded(f, s, SizeReply(p))
    BY <1>4, Zenon DEF ConnectPassed
  <2>2. PICK head \in Seq(Tokens), t \in Tokens, rest \in Seq(Tokens) :
          s = head \o <<t>> /\ t.w = 1 /\ f = head \o rest
    BY <2>1, Zenon DEF EndsForwarded
  <2>3. p.variant # "Multi"
    BY <2>1
  <2>4. <<t>> \in Seq(Tokens) /\ Width(<<t>>) = 1
    BY <2>2, WidthOfFew, Zenon
  <2>5. Width(s) = Width(head) + 1
    <3>1. Width(head \o <<t>>) = Width(head) + Width(<<t>>)
      BY <2>4, WidthOfConcat, Zenon
    <3> HIDE DEF s
    <3> QED
      BY <2>2, <2>4, <3>1, Zenon
  <2>6. Width(f) = Width(head) + Width(rest) /\ Width(head) \in Nat /\ Width(rest) \in Nat
    BY <2>2, WidthOfConcat, WidthsAre, Zenon
  <2>7. CASE Width(head) + 1 > MaxFrameLength
    <3>1. Width(f) = MaxFrameLength
      <4> DEFINE x == Width(f)
                 y == Width(head)
                 z == Width(rest)
      <4>1. x = y + z /\ y \in Nat /\ z \in Nat /\ x <= MaxFrameLength /\ y + 1 > MaxFrameLength
        BY <1>1, <2>6, <2>7, Zenon
      <4> HIDE DEF x, y, z
      <4>2. x = MaxFrameLength
        BY <4>1, MaxFrameLengthAssumption
      <4> QED
        BY <4>2, Zenon DEF x
    <3> QED
      BY <2>1, <2>3, <2>5, <2>7, <3>1, EncodedIs, Zenon
  <2>8. CASE ~(Width(head) + 1 > MaxFrameLength)
    <3>1. Width(head) + 1 <= MaxFrameLength /\ Width(head) + 1 \in Nat
      BY <2>6, <2>8, MaxFrameLengthAssumption
    <3>2. Encoded(e, "ok", s)
      BY <2>3, <2>5, <3>1, EncodedIs, Zenon
    <3> QED
      BY <1>4, <3>2, Zenon
  <2> QED
    BY <2>7, <2>8, Zenon
<1> QED
  BY <1>1, <1>2, <1>3, <1>4, Zenon DEF Passed

(* What decode() makes of a reply, encode() turns back into it, token by token: all of a well
   formed reply, and of any other that decode() accepts the part before what it leaves unread.
   A multi cannot be encoded, nor a connect reply of the maximal length that had no read_only. *)
THEOREM RepliesAreForwarded == Spec => []ReplyForwardedAsSent
<1>1. TurnInv => ReplyForwardedAsSent
  <2> DEFINE Body(i) == IF packet.variant = "Connect" THEN Front(sent[i].body) ELSE sent[i].body
             f == item.frame
             Goal(i) ==
               /\ \/ sent[i].st = "ok" \/ packet.variant = "Multi"
                  \/ packet.variant = "Connect" /\ Width(f) = MaxFrameLength
               /\ IsPrefix(Body(i), f)
               /\ item \in GoodReplies
                  /\ packet.variant \notin {"Connect", "Multi"} => Body(i) = f
  <2> SUFFICES ASSUME TurnInv, kind = "reply", NEW i \in DOMAIN sent
               PROVE  Goal(i)
    BY Zenon DEF ReplyForwardedAsSent
  <2>1. /\ f \in Seq(Tokens) /\ packet.st = "ok" /\ sent[i] = encodeReply(packet)
        /\ packet = decodeReply(f, Asks)
    BY ReplyTurnIs, Zenon
  <2>2. item \in GoodReplies => WholeReply(item)
    BY GoodReplyWhole, Zenon
  <2>3. item \in GoodReplies
          /\ packet.variant \notin {"Connect", "Multi"} => SerializeReply(packet) = f
    BY <2>1, <2>2, Zenon DEF WholeReply, ReplyReadWhole, Asks
  <2> DEFINE e == sent[i]
  <2>4. \/ packet.variant = "Multi" /\ Encoded(e, "panic", <<>>)
        \/ packet.variant = "Connect" /\ Width(f) = MaxFrameLength /\ Encoded(e, "err", <<>>)
        \/ ConnectPassed(f, packet) /\ Encoded(e, "ok", SerializeReply(packet))
        \/ /\ Encoded(e, "ok", SerializeReply(packet))
           /\ \E rest \in Seq(Tokens) : ReplyForwarded(f, packet, rest)
    <3> HIDE DEF f, e
    <3> QED
      BY <2>1, ReplyEncoded, Zenon DEF e
  <2>5. PICK t : t \in Tokens
    <3>1. Token(1, 0) \in Tokens
      BY TokensAre
    <3> QED
      BY <3>1, Zenon
  <2>6. IsPrefix(<<>>, f) /\ Front(<<>>) = <<>>
    <3>1. <<>> \in Seq(Tokens) /\ <<>> \o f = f
      <4> HIDE DEF f
      <4> QED
        BY <2>1, EmptyFacts, ConcatEmptySeq, Zenon
    <3>2. IsPrefix(<<>>, f)
      BY <2>1, <2>5, <3>1, PrefixOf, Zenon
    <3>3. Front(<<>>) = <<>>
      BY DEF Front
    <3> QED
      BY <3>2, <3>3, Zenon
  <2> HIDE DEF f
  <2>7. CASE packet.variant = "Multi" /\ Encoded(e, "panic", <<>>)
    <3>1. packet.variant # "Connect" /\ ~(packet.variant \notin {"Connect", "Multi"})
      BY <2>7
    <3>2. Body(i) = <<>>
      BY <2>7, <3>1, Zenon DEF Encoded
    <3> HIDE DEF Body
    <3> QED
      BY <2>6, <2>7, <3>1, <3>2, Zenon
  <2>8. CASE packet.variant = "Connect" /\ Width(f) = MaxFrameLength /\ Encoded(e, "err", <<>>)
    <3>1. ~(packet.variant \notin {"Connect", "Multi"})
      BY <2>8
    <3>2. Body(i) = <<>>
      BY <2>6, <2>8, Zenon DEF Encoded
    <3> HIDE DEF Body
    <3> QED
      BY <2>6, <2>8, <3>1, <3>2, Zenon
  <2>9. CASE ConnectPassed(f, packet) /\ Encoded(e, "ok", SerializeReply(packet))
    <3>1. packet.variant = "Connect"
            /\ EndsForwarded(f, SerializeReply(packet), SizeReply(packet))
      BY <2>9, Zenon DEF ConnectPassed
    <3>2. PICK head \in Seq(Tokens), u \in Tokens, rest \in Seq(Tokens) :
            SerializeReply(packet) = head \o <<u>> /\ f = head \o rest
      BY <3>1, Zenon DEF EndsForwarded
    <3>3. ~(packet.variant \notin {"Connect", "Multi"}) /\ e.st = "ok"
      BY <2>9, <3>1 DEF Encoded
    <3>4. Body(i) = head
      BY <2>9, <3>1, <3>2, PrefixOf, Zenon DEF Encoded
    <3>5. IsPrefix(head, f)
      BY <3>2, PrefixOf, Zenon
    <3> HIDE DEF Body
    <3> QED
      BY <3>3, <3>4, <3>5, Zenon
  <2>10. ASSUME NEW rest \in Seq(Tokens), ReplyForwarded(f, packet, rest),
                Encoded(e, "ok", SerializeReply(packet))
         PROVE  Goal(i)
    <3>1. /\ SerializeReply(packet) \in Seq(Tokens) /\ f = SerializeReply(packet) \o rest
          /\ packet.variant # "Connect"
      BY <2>10 DEF ReplyForwarded
    <3>2. Body(i) = SerializeReply(packet) /\ e.st = "ok"
      BY <2>10, <3>1, Zenon DEF Encoded
    <3>3. IsPrefix(SerializeReply(packet), f)
      BY <2>5, <3>1, PrefixOf, Zenon
    <3> HIDE DEF Body
    <3> QED
      BY <2>3, <3>2, <3>3, Zenon
  <2> QED
    BY <2>4, <2>7, <2>8, <2>9, <2>10, Zenon
<1> QED
  BY <1>1, TurnsAreTaken, PTL

(* size() of a record, and of a reply, is the number of bytes its serialize_into() writes: for
   every record of proto.rs and every reply but one with an ACL list, whatever they hold. *)
THEOREM SizesAreWidths == Spec => []SizeIsWidth
<1>1. ASSUME TurnInv, IsRecord, NEW i \in DOMAIN sent
      PROVE  sent[i].len = Width(sent[i].body)
  <2> DEFINE w == [len |-> Size(rec, item), body |-> Serialize(rec, item)]
  <2>1. sent = <<>> \/ sent = <<w>>
    BY <1>1, Zenon DEF TurnInv, RecordTurn
  <2>2. Fits(Fields, rec) /\ rec.wire \in Seq(Fields)
    BY <1>1, RecordsFit, Zenon DEF Fits, IsRecord, rec
  <2>3. item \in RowsOf(rec.wire)
    BY <1>1, KindsDiffer, Zenon DEF TurnInv, Starting, IsRecord
  <2>4. item \in RowsIn(rec)
    BY <2>2, <2>3, RowsOfRecord, Zenon DEF RowsIn
  <2>5. Width(Serialize(rec, item)) = Size(rec, item)
    BY <2>2, <2>4, RowIs, Zenon
  <2>6. w.len = Size(rec, item) /\ w.body = Serialize(rec, item)
    OBVIOUS
  <2> HIDE DEF w
  <2>7. sent[i] = w
    BY <1>1, <2>1, EmptyFacts
  <2> QED
    BY <2>5, <2>6, <2>7, Zenon
<1>2. ASSUME TurnInv, kind = "reply", NEW i \in DOMAIN sent, sent[i].st = "ok",
             packet.variant \notin {"Multi", "GetAcl"}
      PROVE  SizeReply(packet) = Width(sent[i].body)
  <2> DEFINE f == item.frame
             e == sent[i]
             s == SerializeReply(packet)
  <2>1. /\ f \in Seq(Tokens) /\ packet.st = "ok" /\ sent[i] = encodeReply(packet)
        /\ packet = decodeReply(f, Asks)
    BY <1>2, ReplyTurnIs, Zenon
  <2>2. e.st = "ok" /\ packet.variant # "Multi" /\ packet.variant # "GetAcl" /\ "ok" # "err"
    BY <1>2
  <2>3. \/ packet.variant = "Multi" /\ Encoded(e, "panic", <<>>)
        \/ packet.variant = "Connect" /\ Width(f) = MaxFrameLength /\ Encoded(e, "err", <<>>)
        \/ ConnectPassed(f, packet) /\ Encoded(e, "ok", s)
        \/ Encoded(e, "ok", s) /\ \E rest \in Seq(Tokens) : ReplyForwarded(f, packet, rest)
    <3> HIDE DEF f, e
    <3> QED
      BY <2>1, ReplyEncoded, Zenon DEF e
  <2>4. e.body = s
    BY <2>2, <2>3, Zenon DEF Encoded
  <2>5. SizeReply(packet) = Width(s)
    BY <2>2, <2>3, Zenon DEF Encoded, ConnectPassed, EndsForwarded, ReplyForwarded
  <2> QED
    BY <2>4, <2>5, Zenon
<1>3. TurnInv => SizeIsWidth
  BY <1>1, <1>2, Zenon DEF SizeIsWidth
<1> QED
  BY <1>3, TurnsAreTaken, PTL

=============================================================================

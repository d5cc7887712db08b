-------------------------------- MODULE Jute --------------------------------
(***************************************************************************)
(* The records of src/src/proto.rs that requests and replies are made of:  *)
(* how each is read from a frame, written to one, and what its size() says *)
(* it will take.                                                           *)
(*                                                                         *)
(* A frame is a sequence of tokens [w |-> width in bytes, v |-> value]: an *)
(* i32, an i64, a u8, or the contents of a string or a buffer, of which    *)
(* only the length and the identity matter. A read that runs off the end   *)
(* of the frame panics, as bytes::Buf does, and ends the task; a vector    *)
(* the allocator has no memory for aborts, and ends the process. A read    *)
(* that does not end where a token ends is a misread, and what it gives is *)
(* left open.                                                              *)
(***************************************************************************)
EXTENDS Integers, SequencesExt

CONSTANT MaxCapacity    \* the longest vector that the allocator has memory for

ASSUME MaxCapacityAssumption == MaxCapacity \in Nat

\* The contents that String::from_utf8 refuses
NotUtf8 == -1

Tokens == [w : Nat \ {0}, v : Int]
Token(w, v) == [w |-> w, v |-> v]

\* The sums of the first 0, 1, ... of the numbers ns, and of all
SumTo(ns) ==
  LET sum[i \in 0 .. Len(ns)] == IF i = 0 THEN 0 ELSE sum[i - 1] + ns[i] IN sum
Total(ns) == SumTo(ns)[Len(ns)]

Width(toks) == Total([i \in DOMAIN toks |-> toks[i].w])

-----------------------------------------------------------------------------
(* Fields *)

ScalarWidth == [i32 |-> 4, i64 |-> 8, u8 |-> 1]

\* A reader is what a deserialize() has read so far and what is left of the frame.
Reader(toks) == [st |-> "ok", val |-> <<>>, rest |-> toks]
Stop(r, how) == [r EXCEPT !.st = how]
Got(r, v, rest) == [st |-> r.st, val |-> Append(r.val, v), rest |-> rest]

\* get_i32, get_i64, get_u8: w bytes. Bytes of more than one token, or of a part of one,
\* are not what their sender wrote there.
GetScalar(r, w) ==
  IF Width(r.rest) < w THEN Stop(r, "panic")
  ELSE IF Head(r.rest).w # w THEN Stop(r, "misread")
  ELSE Got(r, Head(r.rest).v, Tail(r.rest))

\* The length or count in front of the next value: val is <<n>>
GetLength(r) == GetScalar([r EXCEPT !.val = <<>>], 4)

\* Faulty form: the contents may not reach the end of the frame
GetContents_OffByOne(r, n, isString) ==
  LET len == n.val[1]
  IN  IF n.st # "ok" THEN Stop(r, n.st)
      ELSE IF len > MaxCapacity THEN Stop(r, "abort")
      ELSE IF len < 0 \/ len >= Width(n.rest) THEN Stop(r, "panic")
      ELSE IF len = 0 THEN Got(r, <<>>, n.rest)
      ELSE IF Head(n.rest).w # len THEN Stop(r, "misread")
      ELSE IF isString /\ Head(n.rest).v = NotUtf8 THEN Stop(r, "err")
      ELSE Got(r, <<Head(n.rest)>>, Tail(n.rest))

\* The contents behind the length n: `len as usize` of a negative length is more than any
\* vector can hold, vec![0; len] makes room for them all, and copy_to_slice wants len bytes.
GetContents(r, n, isString) ==
  LET len == n.val[1]
  IN  IF n.st # "ok" THEN Stop(r, n.st)
      ELSE IF len > MaxCapacity THEN Stop(r, "abort")
      ELSE IF len < 0 \/ len > Width(n.rest) THEN Stop(r, "panic")
      ELSE IF len = 0 THEN Got(r, <<>>, n.rest)
      ELSE IF Head(n.rest).w # len THEN Stop(r, "misread")
      ELSE IF isString /\ Head(n.rest).v = NotUtf8 THEN Stop(r, "err")
      ELSE Got(r, <<Head(n.rest)>>, Tail(n.rest))

\* String::deserialize and Vec::<u8>::deserialize
GetBytes(r, isString) == GetContents(r, GetLength(r), isString)

\* read_only of a connect request or reply is read only when more than one byte is left
GetReadOnly(r) ==
  IF Width(r.rest) > 1 THEN GetScalar(r, 1) ELSE Got(r, 0, r.rest)

GetPlain(r, field) ==
  IF r.st # "ok" THEN r
  ELSE CASE field = "string" -> GetBytes(r, TRUE)
         [] field = "buffer" -> GetBytes(r, FALSE)
         [] field = "read_only" -> GetReadOnly(r)
         [] OTHER -> GetScalar(r, ScalarWidth[field])

PutBytes(v) == <<Token(4, Width(v))>> \o v

PutPlain(field, v) ==
  CASE field \in {"string", "buffer"} -> PutBytes(v)
    [] field = "read_only" -> <<Token(1, v)>>
    [] OTHER -> <<Token(ScalarWidth[field], v)>>

BytesSize(v) == 4 + Width(v)

-----------------------------------------------------------------------------
(* Records. `wire` is the order in which the fields are read and written; size() adds   *)
(* the literal `fixed` to the size() of the fields in `sized`.                          *)

Record(wire, fixed, sized) == [wire |-> wire, fixed |-> fixed, sized |-> sized]

\* A record made of two, one after the other
Then(a, b) ==
  Record(a.wire \o b.wire, a.fixed + b.fixed, a.sized \cup {Len(a.wire) + i : i \in b.sized})

\* The elements of the vectors
StringElement == Record(<<"string">>, 0, {1})
Id == Record(<<"string", "string">>, 0, {1, 2})
ACL == Then(Record(<<"i32">>, 4, {}), Id)
ClientInfo == Record(<<"string", "string">>, 0, {1, 2})
Txn == Record(<<"i32", "buffer">>, 4, {2})

Vectors == [vec_string |-> StringElement, vec_id |-> Id, vec_acl |-> ACL,
            vec_client_info |-> ClientInfo, vec_txn |-> Txn]

\* Requests
ConnectRequest ==
  Record(<<"i32", "i64", "i32", "i64", "buffer", "read_only">>, 4 + 8 + 4 + 8 + 1, {5})
SetWatches == Record(<<"i64", "vec_string", "vec_string", "vec_string">>, 8, {2, 3, 4})
RequestHeader == Record(<<"i32", "i32">>, 4 + 4, {})
MultiHeader == Record(<<"i32", "u8", "i32">>, 4 + 1 + 4, {})
AuthPacket == Record(<<"i32", "string", "buffer">>, 4, {2, 3})
GetDataRequest == Record(<<"string", "u8">>, 1, {1})
SetDataRequest == Record(<<"string", "buffer", "i32">>, 4, {1, 2})
CreateRequest == Record(<<"string", "buffer", "vec_acl", "i32">>, 4, {1, 2, 3})

\* Faulty form: size() leaves the ttl out
CreateTTLRequest_NoTtlInSize ==
  Record(<<"string", "buffer", "vec_acl", "i32", "i64">>, 4, {1, 2, 3})

CreateTTLRequest ==
  Record(<<"string", "buffer", "vec_acl", "i32", "i64">>, 4 + 8, {1, 2, 3})
DeleteRequest == Record(<<"string", "i32">>, 4, {1})
GetChildrenRequest == Record(<<"string", "u8">>, 1, {1})
GetChildren2Request == Record(<<"string", "u8">>, 1, {1})
SyncRequest == Record(<<"string">>, 0, {1})
GetACLRequest == Record(<<"string">>, 0, {1})
SetACLRequest == Record(<<"string", "vec_acl", "i32">>, 4, {1, 2})
ExistsRequest == Record(<<"string", "u8">>, 1, {1})
CheckWatchesRequest == Record(<<"string", "i32">>, 4, {1})

\* Replies
Stat ==
  Record(<<"i64", "i64", "i64", "i64", "i32", "i32", "i32", "i64", "i32", "i32", "i64">>,
         8 + 8 + 8 + 8 + 4 + 4 + 4 + 8 + 4 + 4 + 8, {})
ConnectResponse == Record(<<"i32", "i32", "i64", "buffer", "read_only">>, 4 + 4 + 8 + 1, {4})
ReplyHeader == Record(<<"i32", "i64", "i32">>, 4 + 8 + 4, {})
SetDataResponse == Stat
WatcherEvent == Record(<<"i32", "i32", "string">>, 4 + 4, {3})
CreateResponse == Record(<<"string">>, 0, {1})
Create2Response == Then(Record(<<"string">>, 0, {1}), Stat)
GetDataResponse == Then(Record(<<"buffer">>, 0, {1}), Stat)
WhoAmIResponse == Record(<<"vec_client_info">>, 0, {1})

-----------------------------------------------------------------------------
(* Reading, writing and sizing a record *)

\* The reader after each of the fields
PlainReads(r, rec) ==
  LET after[i \in 0 .. Len(rec.wire)] ==
        IF i = 0 THEN r ELSE GetPlain(after[i - 1], rec.wire[i])
  IN  after
GetFlat(r, rec) == PlainReads(r, rec)[Len(rec.wire)]

\* What was read as one value, `inner`, becomes the next value of r
Nested(r, inner) == [inner EXCEPT !.val = Append(r.val, @)]

GetElement(r, rec) ==
  IF r.st # "ok" THEN r ELSE Nested(r, GetFlat([r EXCEPT !.val = <<>>], rec))

\* The reader after each of n elements
ElementReads(r, rec, n) ==
  LET after[i \in 0 .. n] == IF i = 0 THEN r ELSE GetElement(after[i - 1], rec) IN after

\* Faulty form: `0..=len`
GetElements_OneMore(r, n, rec) ==
  IF n.st # "ok" THEN Stop(r, n.st)
  ELSE IF n.val[1] < 0 THEN Stop(r, "panic")
  ELSE IF n.val[1] > MaxCapacity THEN Stop(r, "abort")
  ELSE Nested(r, ElementReads(Reader(n.rest), rec, n.val[1] + 1)[n.val[1] + 1])

\* with_capacity of a negative length panics, and of one the allocator refuses aborts,
\* before anything is read; then len elements
GetElements(r, n, rec) ==
  IF n.st # "ok" THEN Stop(r, n.st)
  ELSE IF n.val[1] < 0 THEN Stop(r, "panic")
  ELSE IF n.val[1] > MaxCapacity THEN Stop(r, "abort")
  ELSE Nested(r, ElementReads(Reader(n.rest), rec, n.val[1])[n.val[1]])

\* Vec::<T>::deserialize
GetVector(r, rec) == IF r.st # "ok" THEN r ELSE GetElements(r, GetLength(r), rec)

GetField(r, field) ==
  IF field \in DOMAIN Vectors THEN GetVector(r, Vectors[field]) ELSE GetPlain(r, field)

FieldReads(r, rec) ==
  LET after[i \in 0 .. Len(rec.wire)] ==
        IF i = 0 THEN r ELSE GetField(after[i - 1], rec.wire[i])
  IN  after

\* T::deserialize(bytes)
Deserialize(rec, toks) == FieldReads(Reader(toks), rec)[Len(rec.wire)]

PutFlat(rec, val) ==
  FlattenSeq([i \in DOMAIN rec.wire |-> PutPlain(rec.wire[i], val[i])])

PutField(field, v) ==
  IF field \in DOMAIN Vectors
  THEN <<Token(4, Len(v))>>
       \o FlattenSeq([j \in DOMAIN v |-> PutFlat(Vectors[field], v[j])])
  ELSE PutPlain(field, v)

\* serialize_into(buffer)
Serialize(rec, val) ==
  FlattenSeq([i \in DOMAIN rec.wire |-> PutField(rec.wire[i], val[i])])

FlatSize(rec, val) ==
  rec.fixed
  + Total([i \in DOMAIN rec.wire |-> IF i \in rec.sized THEN BytesSize(val[i]) ELSE 0])

FieldSize(field, v) ==
  IF field \in DOMAIN Vectors
  THEN 4 + Total([j \in DOMAIN v |-> FlatSize(Vectors[field], v[j])])
  ELSE BytesSize(v)

\* size()
Size(rec, val) ==
  rec.fixed
  + Total([i \in DOMAIN rec.wire |->
            IF i \in rec.sized THEN FieldSize(rec.wire[i], val[i]) ELSE 0])

=============================================================================

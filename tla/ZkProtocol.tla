----------------------------- MODULE ZkProtocol -----------------------------
(***************************************************************************)
(* The two sides of the proxy: what a ZooKeeper client sends and what a    *)
(* server answers, field by field as their protocol has it. Neither is     *)
(* part of src/, and nothing here is taken from how the codecs read or     *)
(* write: that they agree with it is what Codecs checks.                   *)
(***************************************************************************)
EXTENDS ReplyCodec

CONSTANTS
  Scalars,        \* i32, i64, u8 |-> the values of such a field
  Contents,       \* the contents of strings and buffers, as tokens
  MaxElements,    \* bound: the elements of a vector
  MaxOps,         \* bound: the operations of a multi
  OpRows,         \* op |-> the values it has in a multi
  OpNulls,        \* op |-> the bytes with nulls it has in a multi
  Xids,           \* the xids of data requests
  Errors          \* the error codes of failed requests

ASSUME ProtocolAssumption ==
  /\ Scalars \in [DOMAIN ScalarWidth -> SUBSET Int]
  /\ Contents \subseteq Tokens
  /\ MaxElements \in Nat /\ MaxOps \in Nat
  /\ MaxElements <= MaxCapacity /\ \A c \in Contents : c.w <= MaxCapacity
  /\ Xids \subseteq Int
  /\ \A xid \in Xids : xid \notin {0, -2, -4, -8}     \* connect, ping, auth, set watches
  /\ Errors \subseteq Int \ {0}

-----------------------------------------------------------------------------
(* Values and their bytes *)

PlainValues(field) ==
  CASE field = "string" -> {<<>>} \cup {<<c>> : c \in {d \in Contents : d.v # NotUtf8}}
    [] field = "buffer" -> {<<>>} \cup {<<c>> : c \in Contents}
    [] OTHER -> Scalars[field]

\* The rows with one value of each of the first 0, 1, ... sets, and of all
Longer(rows, values) == {Append(row, v) : row \in rows, v \in values}
RowsTo(sets) ==
  LET rows[i \in 0 .. Len(sets)] ==
        IF i = 0 THEN {<<>>} ELSE Longer(rows[i - 1], sets[i])
  IN  rows
Rows(sets) == RowsTo(sets)[Len(sets)]

\* The elements of the vectors
ElementFields ==
  [vec_string |-> <<"string">>, vec_id |-> <<"string", "string">>,
   vec_acl |-> <<"i32", "string", "string">>,
   vec_client_info |-> <<"string", "string">>, vec_txn |-> <<"i32", "buffer">>]

ElementRows(field) ==
  Rows([i \in DOMAIN ElementFields[field] |-> PlainValues(ElementFields[field][i])])

Values(field) ==
  IF field \in DOMAIN ElementFields THEN BoundedSeq(ElementRows(field), MaxElements)
                                    ELSE PlainValues(field)

RowsOf(fields) == Rows([i \in DOMAIN fields |-> Values(fields[i])])

\* A length and the contents, or the number
PlainImage(field, v) ==
  CASE field \in {"string", "buffer"} ->
         IF v = <<>> THEN <<Token(4, 0)>> ELSE <<Token(4, v[1].w), v[1]>>
    [] field = "i32" -> <<Token(4, v)>>
    [] field = "i64" -> <<Token(8, v)>>
    [] field = "u8" -> <<Token(1, v)>>

ElementImage(field, row) ==
  FlattenSeq([i \in DOMAIN row |-> PlainImage(ElementFields[field][i], row[i])])

\* A vector is a count and its elements
Image(field, v) ==
  IF field \in DOMAIN ElementFields
  THEN <<Token(4, Len(v))>> \o FlattenSeq([j \in DOMAIN v |-> ElementImage(field, v[j])])
  ELSE PlainImage(field, v)

ImageOf(fields, row) == FlattenSeq([i \in DOMAIN row |-> Image(fields[i], row[i])])
Images(fields) == {ImageOf(fields, row) : row \in RowsOf(fields)}

-----------------------------------------------------------------------------
(* Nulls: a string, a buffer or a vector that is absent has the length -1, and nothing     *)
(* behind it.                                                                              *)

NullImage == <<Token(4, -1)>>

\* The bytes of rows in which field i has bytes of good[i] or, once at least, of null[i]
WithNulls(good, null) ==
  {FlattenSeq(row) : row \in
     {r \in Rows([i \in DOMAIN good |-> good[i] \cup null[i]]) :
        \E i \in DOMAIN good : r[i] \in null[i]}}

PlainNulls(field) == IF field \in {"string", "buffer"} THEN {NullImage} ELSE {}

ElementNulls(field) ==
  LET fields == ElementFields[field]
  IN  WithNulls([i \in DOMAIN fields |-> {PlainImage(fields[i], v) : v \in PlainValues(fields[i])}],
                [i \in DOMAIN fields |-> PlainNulls(fields[i])])

\* Up to n of the sequences in good or null, one at least in null
SomeNull(good, null, n) ==
  {row \in BoundedSeq(good \cup null, n) : \E i \in DOMAIN row : row[i] \in null}

\* Vectors that are null, or hold elements with nulls
VectorNulls(field) ==
  {NullImage}
  \cup {<<Token(4, Len(row))>> \o FlattenSeq(row) :
          row \in SomeNull({ElementImage(field, r) : r \in ElementRows(field)},
                           ElementNulls(field), MaxElements)}

FieldNulls(field) ==
  IF field \in DOMAIN ElementFields THEN VectorNulls(field) ELSE PlainNulls(field)

NullImages(fields) ==
  WithNulls([i \in DOMAIN fields |-> {Image(fields[i], v) : v \in Values(fields[i])}],
            [i \in DOMAIN fields |-> FieldNulls(fields[i])])

-----------------------------------------------------------------------------
(* Requests of a client. The operations of later versions are left out: reconfig, set-      *)
(* watches2, multi-read and the like are not in this list, and decode_inner() has no arm   *)
(* for them.                                                                               *)

ClientFields ==
  [Create |-> <<"string", "buffer", "vec_acl", "i32">>,
   Create2 |-> <<"string", "buffer", "vec_acl", "i32">>,
   CreateContainer |-> <<"string", "buffer", "vec_acl", "i32">>,
   CreateTtl |-> <<"string", "buffer", "vec_acl", "i32", "i64">>,
   Delete |-> <<"string", "i32">>,
   Exists |-> <<"string", "u8">>,
   GetData |-> <<"string", "u8">>,
   SetData |-> <<"string", "buffer", "i32">>,
   GetAcl |-> <<"string">>,
   SetAcl |-> <<"string", "vec_acl", "i32">>,
   GetChildren |-> <<"string", "u8">>,
   GetChildren2 |-> <<"string", "u8">>,
   Sync |-> <<"string">>,
   CheckWatches |-> <<"string", "i32">>,
   SetAuth |-> <<"i32", "string", "buffer">>,
   SetWatches |-> <<"i64", "vec_string", "vec_string", "vec_string">>,
   Close |-> <<>>,
   WhoAmI |-> <<>>,
   RemoveWatches |-> <<"string", "i32">>,
   AddWatch |-> <<"string", "i32">>]

\* Operations that a client may send and decode_inner() has no arm for
Unsupported == {"RemoveWatches", "AddWatch"}

Header(xid, op) == <<Token(4, xid), Token(4, OpCodes[op])>>

DataFrames(ops) ==
  UNION {{Header(xid, op) \o b : xid \in Xids, b \in Images(ClientFields[op])} : op \in ops}

ControlFrames ==
  {Header(-2, "Ping")}
  \cup {Header(-4, "SetAuth") \o b : b \in Images(ClientFields.SetAuth)}
  \cup {Header(-8, "SetWatches") \o b : b \in Images(ClientFields.SetWatches)}

\* Connecting ends in read_only, unless one of the two sides is too old to know of it
Endings == {<<>>, <<Token(1, 0)>>, <<Token(1, 1)>>}

\* The version of the protocol, 0, stands where other requests and replies have their xid
Connecting(fields) == {<<Token(4, 0)>> \o b \o r : b \in Images(fields), r \in Endings}
ConnectFrames == Connecting(<<"i64", "i32", "i64", "buffer">>)

\* Multi: the operations, each behind a header, and a header that says it was the last
MultiFields ==
  [Create |-> <<"string", "buffer", "vec_acl", "i32">>,
   Create2 |-> <<"string", "buffer", "vec_acl", "i32">>,
   CreateContainer |-> <<"string", "buffer", "vec_acl", "i32">>,
   CreateTtl |-> <<"string", "buffer", "vec_acl", "i32", "i64">>,
   Delete |-> <<"string", "i32">>,
   SetData |-> <<"string", "buffer", "i32">>,
   Check |-> <<"string", "i32">>,
   GetData |-> <<"string", "u8">>,
   GetChildren |-> <<"string", "u8">>]

ASSUME OpRowsAssumption ==
  \A op \in DOMAIN MultiFields : OpRows[op] \subseteq RowsOf(MultiFields[op])

MultiHead(op) == <<Token(4, OpCodes[op]), Token(1, 0), Token(4, -1)>>
MultiPart(op, row) == MultiHead(op) \o ImageOf(MultiFields[op], row)
MultiParts == UNION {{MultiPart(op, row) : row \in OpRows[op]} : op \in DOMAIN MultiFields}
MultiDone == <<Token(4, -1), Token(1, 1), Token(4, -1)>>
MultiFrames ==
  {Header(xid, "Multi") \o FlattenSeq(parts) \o MultiDone :
    xid \in Xids, parts \in BoundedSeq(MultiParts, MaxOps)}

\* Well formed requests that decode_inner() has an arm for, with no null in them
GoodFrames ==
  {f \in DataFrames(DOMAIN ClientFields \ Unsupported) \cup ControlFrames
         \cup ConnectFrames \cup MultiFrames : Width(f) <= MaxFrameLength}

-----------------------------------------------------------------------------
(* The same requests with nulls *)

NullData ==
  UNION {{Header(xid, op) \o b : xid \in Xids, b \in NullImages(ClientFields[op])}
         : op \in DOMAIN ClientFields}

NullControls ==
  {Header(-4, "SetAuth") \o b : b \in NullImages(ClientFields.SetAuth)}
  \cup {Header(-8, "SetWatches") \o b : b \in NullImages(ClientFields.SetWatches)}

NullConnecting(fields) ==
  {<<Token(4, 0)>> \o b \o r : b \in NullImages(fields), r \in Endings}
NullConnects == NullConnecting(<<"i64", "i32", "i64", "buffer">>)

ASSUME OpNullsAssumption ==
  \A op \in DOMAIN MultiFields : OpNulls[op] \subseteq NullImages(MultiFields[op])

NullParts == UNION {{MultiHead(op) \o b : b \in OpNulls[op]} : op \in DOMAIN MultiFields}
NullMultis ==
  {Header(xid, "Multi") \o FlattenSeq(parts) \o MultiDone :
    xid \in Xids, parts \in SomeNull(MultiParts, NullParts, MaxOps)}

\* Well formed requests with nulls, or of operations without an arm
RefusedFrames ==
  {f \in NullData \cup NullControls \cup NullConnects \cup NullMultis
         \cup DataFrames(Unsupported) : Width(f) <= MaxFrameLength}

-----------------------------------------------------------------------------
(* Replies of a server *)

StatFields == <<"i64", "i64", "i64", "i64", "i32", "i32", "i32", "i64", "i32", "i32", "i64">>

\* What a successful reply holds
ServerFields ==
  [Create |-> <<"string">>,
   Create2 |-> <<"string">> \o StatFields,
   CreateContainer |-> <<"string">> \o StatFields,
   CreateTtl |-> <<"string">> \o StatFields,
   Delete |-> <<>>,
   Exists |-> StatFields,
   GetData |-> <<"buffer">> \o StatFields,
   SetData |-> StatFields,
   GetAcl |-> <<"vec_acl">> \o StatFields,
   SetAcl |-> StatFields,
   GetChildren |-> <<"vec_string">>,
   GetChildren2 |-> <<"vec_string">> \o StatFields,
   Sync |-> <<"string">>,
   CheckWatches |-> <<>>,
   RemoveWatches |-> <<>>,
   SetAuth |-> <<>>,
   SetWatches |-> <<>>,
   Close |-> <<>>,
   WhoAmI |-> <<"vec_client_info">>]

\* Replies that are read as a path alone, although a stat is behind it
PathAlone == {"CreateContainer", "CreateTtl"}

\* Replies that are not read at all
NoArm == {"Sync", "RemoveWatches"}

ReplyHeads(xid, errors) ==
  {<<Token(4, xid), Token(8, zxid), Token(4, err)>> : zxid \in Scalars.i64, err \in errors}

Replies(xid, fields) == {h \o b : h \in ReplyHeads(xid, {0}), b \in Images(fields)}
NullReplies(xid, fields) == {h \o b : h \in ReplyHeads(xid, {0}), b \in NullImages(fields)}

\* A reply and the request for which its reader has the opcode in its map
Asked(xid, op, frames) == [xid : {xid}, op : {op}, frame : frames]

\* The xid -1 is that of events: a server does not answer a request under it
ReplyXids == Xids \ {-1}
Successes(ops) ==
  UNION {Asked(xid, op, Replies(xid, ServerFields[op])) : xid \in ReplyXids, op \in ops}
Failures(ops) ==
  UNION {Asked(xid, op, ReplyHeads(xid, Errors)) : xid \in ReplyXids, op \in ops}
NullSuccesses(ops) ==
  UNION {Asked(xid, op, NullReplies(xid, ServerFields[op])) : xid \in ReplyXids, op \in ops}

\* Replies to control requests, and watch events
ControlReplies(xids) ==
  UNION {Asked(1, "GetData", ReplyHeads(xid, Errors \cup {0})) : xid \in xids}
EventFields == <<"i32", "i32", "string">>
Events == Asked(1, "GetData", Replies(-1, EventFields))
NullEvents == Asked(1, "GetData", NullReplies(-1, EventFields))
ConnectedFields == <<"i32", "i64", "buffer">>
ConnectReplies == Asked(1, "GetData", Connecting(ConnectedFields))
NullConnectReplies == Asked(1, "GetData", NullConnecting(ConnectedFields))

\* Multi: a result is a header and what the operation alone would be answered
MultiReplyHead(type, done, err) == <<Token(4, type), Token(1, done), Token(4, err)>>
MultiReplyDone == MultiReplyHead(-1, 1, -1)
MultiReplyFrames(parts) ==
  {h \o FlattenSeq(parts) \o MultiReplyDone : h \in ReplyHeads(1, {0})}

ResultFields ==
  [op \in DOMAIN MultiFields |-> IF op = "Check" THEN <<>> ELSE ServerFields[op]]
Results ==
  UNION {{MultiReplyHead(OpCodes[op], 0, 0) \o b : b \in Images(ResultFields[op])}
         : op \in DOMAIN ResultFields}
MultiReplies ==
  UNION {Asked(1, "Multi", MultiReplyFrames(parts)) :
           parts \in BoundedSeq(Results, MaxOps) \ {<<>>}}

\* Well formed replies that the decoder takes. The reply to a multi that failed is in neither
\* set: it has results behind an error, and the decoder takes the error and drops them.
GoodReplies ==
  {g \in Successes(DOMAIN ServerFields \ (PathAlone \cup NoArm)) \cup Failures(DOMAIN ServerFields)
         \cup ControlReplies({-2, -4}) \cup Events \cup ConnectReplies
         \cup Asked(1, "Multi", MultiReplyFrames(<<>>)) : Width(g.frame) <= MaxFrameLength}

\* Well formed replies that it does not: those with nulls, the successes that it reads as
\* a path or has no arm for, those to set-watches, and to multis with a success in them
RefusedReplies ==
  {g \in NullSuccesses(DOMAIN ServerFields) \cup NullEvents \cup NullConnectReplies
         \cup Successes(PathAlone \cup NoArm) \cup ControlReplies({-8}) \cup MultiReplies :
     Width(g.frame) <= MaxFrameLength}

=============================================================================

----------------------------- MODULE RequestCodec -----------------------------
(***************************************************************************)
(* The request path of src/src/codec.rs: what ServerPacketCodec makes of a *)
(* client's frame, and what ClientPacketCodec writes to the backend for    *)
(* it. The frames are those the length codec has already delimited.        *)
(***************************************************************************)
EXTENDS Jute

CONSTANT MaxFrameLength     \* LENGTH_DELIMITED_CODEC's maximum (1 MiB)

ASSUME MaxFrameLengthAssumption == MaxFrameLength \in Nat

-----------------------------------------------------------------------------
(* Codes *)

OpCodes ==
  [Connect |-> 0, Create |-> 1, Delete |-> 2, Exists |-> 3, GetData |-> 4, SetData |-> 5,
   GetAcl |-> 6, SetAcl |-> 7, GetChildren |-> 8, Sync |-> 9, Ping |-> 11,
   GetChildren2 |-> 12, Check |-> 13, Multi |-> 14, Create2 |-> 15, Reconfig |-> 16,
   CheckWatches |-> 17, RemoveWatches |-> 18, CreateContainer |-> 19, CreateTtl |-> 21,
   MultiRead |-> 22, SetAuth |-> 100, SetWatches |-> 101, Sasl |-> 102,
   GetEphemerals |-> 103, GetAllChildrenNumber |-> 104, SetWatches2 |-> 105,
   AddWatch |-> 106, WhoAmI |-> 107, CreateSession |-> -10, Close |-> -11, Error |-> -1]

\* OpCodes::from_i32
ValidOpCode(n) == \E op \in DOMAIN OpCodes : OpCodes[op] = n
OpCodeOf(n) == CHOOSE op \in DOMAIN OpCodes : OpCodes[op] = n

XidCodes ==
  [ConnectXid |-> 0, WatchXid |-> -1, PingXid |-> -2, AuthXid |-> -4, SetWatchesXid |-> -8]

-----------------------------------------------------------------------------
(* Request: the variants and the record each one carries *)

NoBody == Record(<<>>, 0, {})

RequestRecord ==
  [Connect |-> ConnectRequest, Auth |-> AuthPacket, Create |-> CreateRequest,
   CreateTTL |-> CreateTTLRequest, Delete |-> DeleteRequest, Exists |-> ExistsRequest,
   GetData |-> GetDataRequest, SetData |-> SetDataRequest, GetAcl |-> GetACLRequest,
   SetAcl |-> SetACLRequest, GetChildren |-> GetChildrenRequest,
   GetChildren2 |-> GetChildren2Request, Ping |-> NoBody, Whoami |-> NoBody,
   Close |-> NoBody, SetWatches |-> SetWatches, CheckWatches |-> CheckWatchesRequest,
   Sync |-> SyncRequest]

\* Faulty form: a create with a ttl is read as one without
DataVariant_TtlAsCreate ==
  [GetData |-> "GetData", CreateTtl |-> "Create", Create |-> "Create",
   Create2 |-> "Create", CreateContainer |-> "Create", SetData |-> "SetData",
   GetChildren |-> "GetChildren", GetChildren2 |-> "GetChildren2", Delete |-> "Delete",
   Exists |-> "Exists", GetAcl |-> "GetAcl", SetAcl |-> "SetAcl", Close |-> "Close",
   SetAuth |-> "Auth", SetWatches |-> "SetWatches", CheckWatches |-> "CheckWatches",
   WhoAmI |-> "Whoami", Sync |-> "Sync"]

\* decode_inner(): the data requests it reads, Multi apart
DataVariant ==
  [GetData |-> "GetData", CreateTtl |-> "CreateTTL", Create |-> "Create",
   Create2 |-> "Create", CreateContainer |-> "Create", SetData |-> "SetData",
   GetChildren |-> "GetChildren", GetChildren2 |-> "GetChildren2", Delete |-> "Delete",
   Exists |-> "Exists", GetAcl |-> "GetAcl", SetAcl |-> "SetAcl", Close |-> "Close",
   SetAuth |-> "Auth", SetWatches |-> "SetWatches", CheckWatches |-> "CheckWatches",
   WhoAmI |-> "Whoami", Sync |-> "Sync"]

\* Request::deserialize(): the requests a multi may hold; Check is read as CheckWatches
MultiVariant ==
  [Create |-> "Create", Create2 |-> "Create", CreateTtl |-> "CreateTTL",
   CreateContainer |-> "Create", Delete |-> "Delete", SetData |-> "SetData",
   Check |-> "CheckWatches", GetChildren |-> "GetChildren", Exists |-> "Exists",
   GetData |-> "GetData"]

\* The variants whose decoding asserts that nothing is left of the frame
AssertsEmpty == {"Whoami", "Sync", "Multi"}

-----------------------------------------------------------------------------
(* MultiRequest *)

\* Request::deserialize of one operation, behind its header. ops are [header, variant, val].
MultiOp(m, header, variant, req) ==
  IF req.st # "ok" THEN Stop(m, req.st)
  ELSE [st |-> "loop", rest |-> req.rest, done_header |-> <<>>,
        ops |-> Append(m.ops, [header |-> header, variant |-> variant, val |-> req.val])]

\* What the loop does with the header h that it has read
MultiHeaderRead(m, h) ==
  LET type == h.val[1]
      variant == MultiVariant[OpCodeOf(type)]
  IN  IF h.st # "ok" THEN Stop(m, h.st)
      ELSE IF h.val[2] = 1
           THEN [st |-> "ok", rest |-> h.rest, done_header |-> h.val, ops |-> m.ops]
      ELSE IF ~ValidOpCode(type) THEN Stop(m, "err")
      ELSE IF OpCodeOf(type) \notin DOMAIN MultiVariant THEN Stop(m, "panic")
      ELSE MultiOp(m, h.val, variant, Deserialize(RequestRecord[variant], h.rest))

\* One turn of the loop of MultiRequest::deserialize
MultiTurn(m) ==
  IF m.st = "loop" THEN MultiHeaderRead(m, Deserialize(MultiHeader, m.rest)) ELSE m
MultiTurns(m, n) ==
  LET after[i \in 0 .. n] == IF i = 0 THEN m ELSE MultiTurn(after[i - 1]) IN after

\* MultiRequest { ops, done_header }
MultiRequest(m) == [st |-> m.st, val |-> <<m.ops, m.done_header>>, rest |-> m.rest]

\* MultiRequest::deserialize: every turn takes tokens or stops, so Len(toks) + 1 do
MultiLoop(toks) == [st |-> "loop", rest |-> toks, ops |-> <<>>, done_header |-> <<>>]
DeserializeMulti(toks) ==
  MultiRequest(MultiTurns(MultiLoop(toks), Len(toks) + 1)[Len(toks) + 1])

SerializeOp(op) ==
  Serialize(MultiHeader, op.header) \o Serialize(RequestRecord[op.variant], op.val)
SizeOp(op) == Size(MultiHeader, op.header) + Size(RequestRecord[op.variant], op.val)

SerializeMulti(val) ==
  FlattenSeq([i \in DOMAIN val[1] |-> SerializeOp(val[1][i])])
  \o Serialize(MultiHeader, val[2])

SizeMulti(val) ==
  Total([i \in DOMAIN val[1] |-> SizeOp(val[1][i])]) + Size(MultiHeader, val[2])

-----------------------------------------------------------------------------
(* ServerPacketCodec::decode *)

\* What decoding gives: a RequestPacket (header <<>> is None) when st is "ok"; "err" is
\* an Err and "panic" a panic, both of which end the connection.
Refused(how) == [st |-> how, header |-> <<>>, variant |-> "none", val |-> <<>>]

\* The packet of what deserialize() read, after the assert!(src.is_empty()) if there is one
Packet(header, variant, r, assertEmpty) ==
  IF r.st # "ok" THEN Refused(r.st)
  ELSE IF assertEmpty /\ r.rest # <<>> THEN Refused("panic")
  ELSE [st |-> "ok", header |-> header, variant |-> variant, val |-> r.val]

DeserializeRequest(variant, toks) ==
  IF variant = "Multi" THEN DeserializeMulti(toks)
                       ELSE Deserialize(RequestRecord[variant], toks)

\* decode_inner(): the control requests, by xid
ControlVariant ==
  [xid \in {XidCodes.PingXid, XidCodes.AuthXid, XidCodes.SetWatchesXid} |->
    CASE xid = XidCodes.PingXid -> "Ping"
      [] xid = XidCodes.AuthXid -> "Auth"
      [] xid = XidCodes.SetWatchesXid -> "SetWatches"]

DecodeControl(header, variant, body) ==
  Packet(header, variant, Deserialize(RequestRecord[variant], body), TRUE)

\* decode_inner(): a request with xid > 0, or with a negative one that is not special
DecodeData(header, body) ==
  LET type == header[2]
      variant == IF type = OpCodes.Multi THEN "Multi" ELSE DataVariant[OpCodeOf(type)]
  IN  IF ~ValidOpCode(type) THEN Refused("err")
      ELSE IF OpCodeOf(type) \notin DOMAIN DataVariant \cup {"Multi"} THEN Refused("panic")
      ELSE Packet(header, variant, DeserializeRequest(variant, body),
                  variant \in AssertsEmpty)

\* decode_inner(): the xid and the opcode have been read as h
DecodeHeadedRequest(h) ==
  IF h.st # "ok" THEN Refused(h.st)
  ELSE IF h.val[1] \in DOMAIN ControlVariant
       THEN DecodeControl(h.val, ControlVariant[h.val[1]], h.rest)
       ELSE DecodeData(h.val, h.rest)

\* decode_inner(): looks at the xid, f[1], before it reads anything
DecodeInner(f) ==
  IF Width(f) < 4 + 4 THEN Refused("panic")
  ELSE IF f[1] = Token(4, XidCodes.ConnectXid)
       THEN Packet(<<>>, "Connect", Deserialize(ConnectRequest, f), FALSE)
       ELSE DecodeHeadedRequest(Deserialize(RequestHeader, f))

\* decode(): the length codec refuses a frame above its maximum
decode(f) == IF Width(f) > MaxFrameLength THEN Refused("err") ELSE DecodeInner(f)

-----------------------------------------------------------------------------
(* ClientPacketCodec::encode *)

SerializeRequest(p) ==
  IF p.variant = "Multi" THEN SerializeMulti(p.val)
                         ELSE Serialize(RequestRecord[p.variant], p.val)

SizeRequest(p) ==
  IF p.variant = "Multi" THEN SizeMulti(p.val) ELSE Size(RequestRecord[p.variant], p.val)

\* RequestPacket::serialize_into and size: the header, if any, and the request
SerializePacket(p) ==
  (IF p.header = <<>> THEN <<>> ELSE Serialize(RequestHeader, p.header))
  \o SerializeRequest(p)

SizePacket(p) ==
  (IF p.header = <<>> THEN 0 ELSE Size(RequestHeader, p.header)) + SizeRequest(p)

\* The bytes encode() appends to the write buffer: put_i32(size), then the packet
encode(p) == [len |-> SizePacket(p), body |-> SerializePacket(p)]

\* Faulty form: only data requests are remembered
Remember_DataOnly(map, p) ==
  IF p.header # <<>> /\ p.header[1] > 0
  THEN [xid \in DOMAIN map \cup {p.header[1]} |->
         IF xid = p.header[1] THEN OpCodeOf(p.header[2]) ELSE map[xid]]
  ELSE map

\* Faulty form: the map is keyed by the opcode
Remember_ByOpCode(map, p) ==
  IF p.header # <<>> /\ ValidOpCode(p.header[2])
  THEN [code \in DOMAIN map \cup {p.header[2]} |->
         IF code = p.header[2] THEN OpCodeOf(p.header[2]) ELSE map[code]]
  ELSE map

\* Faulty form: the first request under an xid stays
Remember_IfAbsent(map, p) ==
  IF p.header # <<>> /\ ValidOpCode(p.header[2]) /\ p.header[1] \notin DOMAIN map
  THEN [xid \in DOMAIN map \cup {p.header[1]} |->
         IF xid = p.header[1] THEN OpCodeOf(p.header[2]) ELSE map[xid]]
  ELSE map

\* requests_by_xid after encode(p): the opcode under the xid, if the header has both
Remember(map, p) ==
  IF p.header # <<>> /\ ValidOpCode(p.header[2])
  THEN [xid \in DOMAIN map \cup {p.header[1]} |->
         IF xid = p.header[1] THEN OpCodeOf(p.header[2]) ELSE map[xid]]
  ELSE map

=============================================================================

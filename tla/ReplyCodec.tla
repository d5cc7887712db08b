------------------------------ MODULE ReplyCodec ------------------------------
(***************************************************************************)
(* The reply path of src/src/codec.rs: what ClientPacketCodec makes of a   *)
(* backend's frame, and what ServerPacketCodec writes to the client for    *)
(* it. The connections of server.rs pass replies on as bytes; this is the  *)
(* path that would look into them.                                         *)
(***************************************************************************)
EXTENDS RequestCodec

-----------------------------------------------------------------------------
(* ZkResponse: the variants and the record each one carries *)

Strings == Record(<<"vec_string">>, 0, {1})

ResponseRecord ==
  [Connect |-> ConnectResponse, GetData |-> GetDataResponse, Create |-> CreateResponse,
   Create2 |-> Create2Response, WatchEvent |-> WatcherEvent, WhoAmI |-> WhoAmIResponse,
   GetChildren2 |-> Then(Strings, Stat), Stat |-> Stat, Empty |-> NoBody,
   GetAcl |-> Then(Record(<<"vec_acl">>, 0, {1}), Stat),
   Strings |-> Strings, String |-> StringElement]

\* ZkResponse::deserialize(): the opcodes with an arm of their own, Multi and Connect apart
ResponseVariant ==
  [Exists |-> "Stat", SetData |-> "Stat", SetAcl |-> "Stat", GetData |-> "GetData",
   Delete |-> "Empty", Close |-> "Empty", GetChildren |-> "Strings",
   GetChildren2 |-> "GetChildren2", Create |-> "Create", CreateTtl |-> "String",
   CreateContainer |-> "String", GetAcl |-> "GetAcl", Check |-> "Empty",
   SetAuth |-> "Empty", SetWatches |-> "Empty", Create2 |-> "Create2",
   CheckWatches |-> "Empty", WhoAmI |-> "WhoAmI", Error |-> "Empty"]

\* assert!(src.is_empty()), which ends every one of those arms
AssertEmpty(r) == IF r.st = "ok" /\ r.rest # <<>> THEN Stop(r, "panic") ELSE r

\* One arm; Connect is unreachable!() and the opcodes without an arm are todo!()
DeserializePlain(op, toks) ==
  IF op \in DOMAIN ResponseVariant
  THEN AssertEmpty(Deserialize(ResponseRecord[ResponseVariant[op]], toks))
  ELSE Stop(Reader(toks), "panic")

-----------------------------------------------------------------------------
(* MultiResponse::deserialize. A multi inside a multi reads on until its own end, where  *)
(* it asserts that nothing follows; then the outer one reads its next header from that   *)
(* nothing. Either way it panics, so that only being inside one is remembered.           *)

MultiResult(m, header, variant, r) ==
  IF r.st # "ok" THEN Stop(m, r.st)
  ELSE [m EXCEPT !.rest = r.rest,
                 !.results = Append(@, [header |-> header, variant |-> variant,
                                        val |-> r.val])]

\* What the loop does with the header h that it has read. A result of type -1 is pushed
\* as ZkResponse::Err(err), and nothing of the frame is read for it.
MultiReplyHeaderRead(m, h) ==
  LET type == h.val[1]
      op == OpCodeOf(type)
  IN  IF h.st # "ok" THEN Stop(m, h.st)
      ELSE IF h.val[2] = 1
           THEN [st |-> IF m.nested THEN "panic" ELSE "ok", rest |-> h.rest,
                 results |-> m.results, done_header |-> h.val, nested |-> m.nested]
      ELSE IF type = -1
           THEN MultiResult(m, h.val, "Err", [st |-> "ok", val |-> <<h.val[3]>>,
                                              rest |-> h.rest])
      ELSE IF ~ValidOpCode(type) THEN Stop(m, "err")
      ELSE IF op = "Multi" THEN [m EXCEPT !.rest = h.rest, !.nested = TRUE]
      ELSE IF op \notin DOMAIN ResponseVariant THEN Stop(m, "panic")
      ELSE MultiResult(m, h.val, ResponseVariant[op], DeserializePlain(op, h.rest))

MultiReplyTurn(m) ==
  IF m.st = "loop" THEN MultiReplyHeaderRead(m, Deserialize(MultiHeader, m.rest)) ELSE m
MultiReplyTurns(m, n) ==
  LET after[i \in 0 .. n] == IF i = 0 THEN m ELSE MultiReplyTurn(after[i - 1]) IN after

\* MultiResponse { results, done_header }
MultiResponse(m) == [st |-> m.st, val |-> <<m.results, m.done_header>>, rest |-> m.rest]

MultiReplyLoop(toks) ==
  [st |-> "loop", rest |-> toks, results |-> <<>>, done_header |-> <<>>, nested |-> FALSE]
DeserializeMultiResponse(toks) ==
  MultiResponse(MultiReplyTurns(MultiReplyLoop(toks), Len(toks) + 1)[Len(toks) + 1])

-----------------------------------------------------------------------------
(* ClientPacketCodec::decode. A ResponsePacket has the fields of a RequestPacket. *)

\* ZkResponse::deserialize(src, Some(op))
DecodeResponse(header, op, body) ==
  CASE op = "Multi" ->
         Packet(header, "Multi", DeserializeMultiResponse(body), TRUE)
    [] op \in DOMAIN ResponseVariant ->
         Packet(header, ResponseVariant[op], DeserializePlain(op, body), TRUE)
    [] OTHER -> Refused("panic")

\* Faulty form: a failure is read like a success
DecodeAnswer_BodyOfError(header, body, map) ==
  IF header[1] \notin DOMAIN map THEN Refused("err")
  ELSE DecodeResponse(header, map[header[1]], body)

\* A reply with an ordinary xid: an error has no body, and what a success holds depends
\* on the request that the map has for its xid
DecodeAnswer(header, body, map) ==
  CASE header[3] # 0 -> Packet(header, "Empty", Reader(<<>>), FALSE)
    [] header[3] = 0 /\ header[1] \notin DOMAIN map -> Refused("err")
    [] OTHER -> DecodeResponse(header, map[header[1]], body)

\* What follows the header h. A reply to a ping is not looked at any further.
DecodeHeaded(h, map) ==
  CASE h.st # "ok" -> Refused(h.st)
    [] h.st = "ok" /\ h.val[1] = XidCodes.WatchXid ->
         Packet(h.val, "WatchEvent", Deserialize(WatcherEvent, h.rest), FALSE)
    [] h.st = "ok" /\ h.val[1] = XidCodes.PingXid ->
         Packet(h.val, "Empty", Reader(<<>>), FALSE)
    [] h.st = "ok" /\ h.val[1] = XidCodes.AuthXid ->
         Packet(h.val, "Empty", Reader(h.rest), TRUE)
    [] h.st = "ok" /\ h.val[1] = XidCodes.SetWatchesXid -> Refused("panic")
    [] OTHER -> DecodeAnswer(h.val, h.rest, map)

\* decode(): f[1] is the xid
decodeReply(f, map) ==
  IF Width(f) > MaxFrameLength THEN Refused("err")
  ELSE IF Width(f) < 4 THEN Refused("panic")
  ELSE IF f[1] = Token(4, XidCodes.ConnectXid)
       THEN Packet(<<>>, "Connect", Deserialize(ConnectResponse, f), FALSE)
       ELSE DecodeHeaded(Deserialize(ReplyHeader, f), map)

-----------------------------------------------------------------------------
(* ServerPacketCodec::encode *)

\* Faulty form: nothing is written for a reply that has no body
SerializeReply_EmptyIsNothing(p) ==
  IF p.header = <<>> \/ p.variant = "Empty" THEN Serialize(ResponseRecord[p.variant], p.val)
  ELSE Serialize(ReplyHeader, p.header) \o Serialize(ResponseRecord[p.variant], p.val)

\* ZkResponse::serialize_into and ResponsePacket::serialize_into
SerializeReply(p) ==
  (IF p.header = <<>> THEN <<>> ELSE Serialize(ReplyHeader, p.header))
  \o Serialize(ResponseRecord[p.variant], p.val)

\* ZkResponse::size: that of an ACL list counts 8 bytes for each entry
SizeResponse(p) ==
  IF p.variant = "GetAcl" THEN 4 + Len(p.val[1]) * 8 + Size(Stat, Tail(p.val))
                          ELSE Size(ResponseRecord[p.variant], p.val)

\* ResponsePacket::size
SizeReply(p) ==
  (IF p.header = <<>> THEN 0 ELSE Size(ReplyHeader, p.header)) + SizeResponse(p)

\* encode(): size() only reserves room, and is todo!() for a multi; the length codec puts
\* the length of what was serialized in front of it, and refuses more than its maximum.
encodeReply(p) ==
  CASE p.variant = "Multi" -> [st |-> "panic", body |-> <<>>]
    [] p.variant # "Multi" /\ Width(SerializeReply(p)) > MaxFrameLength ->
         [st |-> "err", body |-> <<>>]
    [] OTHER -> [st |-> "ok", body |-> SerializeReply(p)]

=============================================================================

------------------------------ MODULE MCCodecs ------------------------------
(* Instances of Codecs: small values of the fields, and requests and replies that are     *)
(* damaged in every field, cut short, followed by more, unknown or not supported.         *)
EXTENDS Codecs

MCScalars == [i32 |-> {5}, i64 |-> {9}, u8 |-> {0, 1}]
MCContents == {Token(2, 7), Token(3, NotUtf8)}
MCOpRows ==
  [op \in DOMAIN MultiFields |->
    {CHOOSE row \in RowsOf(MultiFields[op]) : Len(row[1]) > 0}]
\* The fields of an operation in a multi are null or empty
MCOpNulls ==
  [op \in DOMAIN MultiFields |->
    {b \in NullImages(MultiFields[op]) : Len(b) = Len(MultiFields[op])}]
MCXids == {1, -1}
MCErrors == {-101}
MCFollowing == <<Token(4, 2), Token(2, 8)>>

Path == <<Token(4, 2), Token(2, 7)>>

\* Images that deserialize() stops on, other than nulls: bytes that are not UTF-8, bytes
\* past the end of the frame, and more than there is memory for
TooMany == <<Token(4, 2000)>>
BadImage(field) ==
  CASE field = "string" -> {<<Token(4, 2), Token(2, NotUtf8)>>, <<Token(4, 99)>>, TooMany}
    [] field = "buffer" -> {<<Token(4, 99)>>, TooMany}
    [] field \in DOMAIN Vectors -> {<<Token(4, 99)>>, TooMany}
    [] OTHER -> {}

\* The fields with one of them bad, and nothing behind it
BadImages(fields) ==
  UNION { {a \o x : a \in Images(SubSeq(fields, 1, i - 1)), x \in BadImage(fields[i])}
          : i \in DOMAIN fields }

\* A bad field, an unknown operation, a multi without its end or with an operation it may
\* not hold, a frame cut short or with bytes after its end
MCOtherFrames ==
  UNION {{Header(1, op) \o b : b \in BadImages(ClientFields[op])} : op \in DOMAIN ClientFields}
  \cup {<<Token(4, 1), Token(4, 99)>> \o Path, <<Token(4, 1)>>, <<>>,
        Header(1, "Multi") \o MultiPart("Delete", CHOOSE row \in MCOpRows.Delete : TRUE),
        Header(1, "Multi") \o <<Token(4, OpCodes.Sync), Token(1, 0), Token(4, -1)>>
          \o Path \o MultiDone}
  \cup {Front(f) : f \in GoodFrames \ (MultiFrames \cup ConnectFrames)}
  \cup {f \o <<Token(1, 1)>> : f \in GoodFrames}

Head1(err) == <<Token(4, 1), Token(8, 9), Token(4, err)>>

MultiAnswers(parts) == Asked(1, "Multi", MultiReplyFrames(parts))

\* A connect reply without read_only, as long as a frame may be
LongConnect ==
  <<Token(4, 0), Token(4, 5), Token(8, 9), Token(4, MaxFrameLength - 20),
    Token(MaxFrameLength - 20, 7)>>

\* A bad field, a reply cut short or with bytes behind it, to nobody's request, too long,
\* or to a multi with failed, unknown or nested parts
MCOtherReplies ==
  UNION {Asked(1, op, {Head1(0) \o b : b \in BadImages(ServerFields[op])})
         : op \in DOMAIN ServerFields}
  \cup Asked(1, "Ping", {Head1(0)})
  \cup {[g EXCEPT !.frame = Front(g.frame)] :
         g \in {h \in GoodReplies \ ConnectReplies : h.op # "Multi"}}
  \cup {[g EXCEPT !.frame = @ \o <<Token(1, 1)>>] : g \in GoodReplies}
  \cup Asked(1, "Exists", ReplyHeads(2, {0}) \cup {<<>>, <<Token(1, 1)>>, <<Token(4, 1)>>})
  \cup Asked(1, "CreateTtl", {Head1(0) \o Path})
  \cup UNION {MultiAnswers(<<MultiReplyHead(t, 0, -101)>>) :
                t \in {-1, 99, OpCodes.Sync, OpCodes.Multi}}
  \cup MultiAnswers(<<MultiReplyHead(OpCodes.Multi, 0, 0), MultiReplyDone>>)
  \cup Asked(1, "Multi", {Head1(0), Head1(-101) \o MultiReplyHead(-1, 0, -101)
                                      \o <<Token(4, -101)>> \o MultiReplyDone})
  \cup Asked(1, "GetData", {LongConnect})

(* Nothing is left of the frame when the body of a result has been read: the assertion
   assert!(src.is_empty()) of ZkResponse::deserialize() holds for well formed replies to
   multi requests. *)
MultiReplyAccepted ==
  kind = "reply" /\ item \in MultiReplies => packet.st \in {"none", "ok"}

=============================================================================

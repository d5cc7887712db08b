------------------------------- MODULE Codecs -------------------------------
(***************************************************************************)
(* One turn of each codec: a request is decoded and encoded for the        *)
(* backend, a reply is decoded and encoded for the client, and a record is *)
(* written into a buffer that more is written to afterwards and read back  *)
(* from it.                                                                *)
(***************************************************************************)
EXTENDS ZkProtocol, JuteRecords

CONSTANTS
  OtherFrames,    \* requests that are not well formed, or unknown
  OtherReplies,   \* the same of replies
  Following       \* what is written behind a record

ASSUME CodecsAssumption ==
  /\ OtherFrames \subseteq Seq(Tokens)
  /\ OtherReplies \subseteq [xid : Int, op : DOMAIN OpCodes, frame : Seq(Tokens)]
  /\ Following \in Seq(Tokens)

VARIABLES
  kind,       \* "request", "reply" or the name of a record
  item,       \* the frame, the reply with what it answers, or the record's values
  packet,     \* what was read
  sent        \* what was written, once it was

vars == <<kind, item, packet, sent>>

IsRecord == kind \in DOMAIN Records
rec == Records[kind]

Init ==
  /\ \/ kind = "request" /\ item \in GoodFrames \cup RefusedFrames \cup OtherFrames
     \/ kind = "reply" /\ item \in GoodReplies \cup RefusedReplies \cup OtherReplies
     \/ /\ kind \in DOMAIN Records
        /\ item \in RowsOf(rec.wire)
  /\ packet = Refused("none")
  /\ sent = <<>>

Read(result) == packet.st = "none" /\ packet' = result /\ UNCHANGED <<kind, item, sent>>
Write(result) == sent = <<>> /\ sent' = <<result>> /\ UNCHANGED <<kind, item, packet>>

DecodeRequest == kind = "request" /\ Read(decode(item))
EncodeRequest == kind = "request" /\ packet.st = "ok" /\ Write(encode(packet))

\* The map of the connection, as the request that the reply answers has left it
Asks == [xid \in {item.xid} |-> item.op]
DecodeReply == kind = "reply" /\ Read(decodeReply(item.frame, Asks))
EncodeReply == kind = "reply" /\ packet.st = "ok" /\ Write(encodeReply(packet))

WriteRecord == IsRecord /\ Write([len |-> Size(rec, item), body |-> Serialize(rec, item)])
ReadRecord ==
  IsRecord /\ \E i \in DOMAIN sent : Read(Deserialize(rec, sent[i].body \o Following))

Next == DecodeRequest \/ EncodeRequest \/ DecodeReply \/ EncodeReply
        \/ WriteRecord \/ ReadRecord

Spec == Init /\ [][Next]_vars

-----------------------------------------------------------------------------
(* What is read is a packet, a record or a refusal: no read of these frames ends inside
   a token, where the model would say nothing of the value. *)
TypeOK ==
  /\ packet.st \in {"none", "ok", "err", "panic", "abort"}
  /\ Len(sent) \in 0 .. 1

-----------------------------------------------------------------------------
(* Requests *)

(* The length put in front of a forwarded request is the number of bytes that follow it,
   whatever the client sent: size() and serialize_into() of the packet, its header, its
   record and the operations of a multi agree. One byte of difference would shift every
   later request on the connection. *)
LengthPrefixIsBodyLength ==
  kind = "request" => \A i \in DOMAIN sent : sent[i].len = Width(sent[i].body)

(* What the backend is sent is what the client sent, token by token: all of a well formed
   request, and of one with bytes after its end the part before them. The last byte of
   a connect request, read_only, is left out of this (see ReadOnlyIsForwarded). *)
ForwardedAsSent ==
  kind = "request" =>
    \A i \in DOMAIN sent :
      LET body == IF packet.variant = "Connect" THEN Front(sent[i].body) ELSE sent[i].body
      IN  /\ IsPrefix(body, item)
          /\ item \in GoodFrames /\ packet.variant # "Connect" => body = item

(* Of the well formed requests of a client (those of ClientFields, control requests, connect
   requests and multis), the ones that end the connection have a null in them, whose length
   of -1 the decoder takes for a capacity, or an operation without an arm: they end it by a
   panic. Every other one is taken, with neither an Err nor a panic. *)
RequestOutcome ==
  kind = "request" /\ packet.st # "none" =>
    /\ item \in GoodFrames => packet.st = "ok"
    /\ item \in RefusedFrames => packet.st = "panic"

(* A connect request reaches the backend with the read_only the client gave it. *)
ReadOnlyIsForwarded ==
  kind = "request" =>
    \A i \in DOMAIN sent :
      item \in ConnectFrames /\ Last(item).w = 1 => Last(sent[i].body) = Last(item)

-----------------------------------------------------------------------------
(* Replies *)

(* What decode() makes of a reply, encode() turns back into it, token by token: all of a
   well formed reply, and of one with bytes behind its end the part before them. The
   read_only of a connect reply, which decode() drops, is left out; a multi cannot be
   encoded at all, nor a connect reply of the maximal length to which it is added. *)
ReplyForwardedAsSent ==
  kind = "reply" =>
    \A i \in DOMAIN sent :
      LET body == IF packet.variant = "Connect" THEN Front(sent[i].body) ELSE sent[i].body
      IN  /\ \/ sent[i].st = "ok" \/ packet.variant = "Multi"
             \/ packet.variant = "Connect" /\ Width(item.frame) = MaxFrameLength
          /\ IsPrefix(body, item.frame)
          /\ item \in GoodReplies /\ packet.variant \notin {"Connect", "Multi"}
               => body = item.frame

(* Of the well formed replies of a server, met with the opcode that the map holds for their
   xid, the decoder takes all but these, on which it panics: those with a null; the
   successes of create-container and create-ttl, of which it reads the path and asserts
   that there is no stat; those of sync and remove-watches; the reply to set-watches; and
   those to a multi whose operations succeeded. *)
ReplyOutcome ==
  kind = "reply" /\ packet.st # "none" =>
    /\ item \in GoodReplies => packet.st = "ok"
    /\ item \in RefusedReplies => packet.st = "panic"

-----------------------------------------------------------------------------
(* Records, and replies as the records they are *)

(* size() of a record, and of a reply, is the number of bytes its serialize_into() writes:
   the two are written apart for every one of them. A reply with an ACL list is left out,
   for which ZkResponse::size() counts eight bytes an entry. *)
SizeIsWidth ==
  \A i \in DOMAIN sent :
    /\ IsRecord => sent[i].len = Width(sent[i].body)
    /\ kind = "reply" /\ packet.variant \notin {"Multi", "GetAcl"} /\ sent[i].st = "ok"
         => SizeReply(packet) = Width(sent[i].body)

(* A record read back from the middle of a buffer is the one that was written, and the
   reader stops at its last byte: what follows is left for the next record, which is what
   lets headers, requests and the operations of a multi stand one behind the other. *)
ReadsBackToItsEnd ==
  IsRecord /\ packet.st # "none" => packet = [st |-> "ok", val |-> item, rest |-> Following]

=============================================================================

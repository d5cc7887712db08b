--------------------------- MODULE MCReplySession ---------------------------
(* Two xids under which the client asks for replies of different shapes, a ping and an   *)
(* authentication under their own.                                                       *)
EXTENDS ReplySession

MCAsks ==
  [xid : {1}, op : {"Exists", "GetChildren"}] \cup [xid : {2}, op : {"Delete", "Exists"}]
  \cup {[xid |-> XidCodes.PingXid, op |-> "Ping"], [xid |-> XidCodes.AuthXid, op |-> "SetAuth"]}

StatBody == [i \in 1 .. 11 |-> Token(IF i \in {5, 6, 7, 9, 10} THEN 4 ELSE 8, i)]
PathBody == <<Token(4, 2), Token(2, 7)>>

MCBody ==
  [Exists |-> StatBody, GetChildren |-> <<Token(4, 1)>> \o PathBody, Delete |-> <<>>,
   Ping |-> <<>>, SetAuth |-> <<>>]
MCErrors == {-101}
MCEventBody == <<Token(4, 1), Token(4, 3)>> \o PathBody

\* The codecs do their part, reply by reply; the run and the proofs are about the session
ASSUME MCCodecReadsReplies == CodecReadsReplies

=============================================================================

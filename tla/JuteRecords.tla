----------------------------- MODULE JuteRecords -----------------------------
(***************************************************************************)
(* The records of src/src/proto.rs that neither path of the proxy reads or *)
(* writes today: the operations the codecs have no arm for, and what       *)
(* ZooKeeper servers exchange among themselves and keep in their log.      *)
(* They are written with the fields and sizes of Jute.                     *)
(***************************************************************************)
EXTENDS Jute

(* Operations of clients *)

SetWatches2 ==
  Record(<<"i64", "vec_string", "vec_string", "vec_string", "vec_string", "vec_string">>,
         8, 2 .. 6)
ReconfigRequest == Record(<<"string", "string", "string", "i64">>, 8, {1, 2, 3})
GetSASLRequest == Record(<<"buffer">>, 0, {1})
SetSASLRequest == Record(<<"buffer">>, 0, {1})
SetSASLResponse == Record(<<"buffer">>, 0, {1})
GetAllChildrenNumberRequest == Record(<<"string">>, 0, {1})
GetAllChildrenNumberResponse == Record(<<"i32">>, 4, {})
CheckVersionRequest == Record(<<"string", "i32">>, 4, {1})
GetMaxChildrenRequest == Record(<<"string">>, 0, {1})
GetMaxChildrenResponse == Record(<<"i32">>, 4, {})
SetMaxChildrenRequest == Record(<<"string", "i32">>, 4, {1})
SyncResponse == Record(<<"string">>, 0, {1})
SetACLResponse == Stat
AddWatchRequest == Record(<<"string", "i32">>, 4, {1})
RemoveWatchesRequest == Record(<<"string", "i32">>, 4, {1})
ErrorResponse == Record(<<"i32">>, 4, {})
ExistsResponse == Stat
GetChildrenResponse == Record(<<"vec_string">>, 0, {1})
GetChildren2Response == Then(Record(<<"vec_string">>, 0, {1}), Stat)
GetACLResponse == Then(Record(<<"vec_acl">>, 0, {1}), Stat)
GetEphemeralsRequest == Record(<<"string">>, 0, {1})
GetEphemeralsResponse == Record(<<"vec_string">>, 0, {1})

(* Servers among themselves *)

LearnerInfo == Record(<<"i64", "i32", "i64">>, 8 + 4 + 8, {})
QuorumPacket == Record(<<"i32", "i64", "buffer", "vec_id">>, 4 + 8, {3, 4})
QuorumAuthPacket == Record(<<"i64", "i32", "buffer">>, 8 + 4, {3})

(* Log and snapshots *)

StatPersisted ==
  Record(<<"i64", "i64", "i64", "i64", "i32", "i32", "i32", "i64", "i64">>,
         8 + 8 + 8 + 8 + 4 + 4 + 4 + 8 + 8, {})
FileHeader == Record(<<"i32", "i32", "i64">>, 4 + 4 + 8, {})
TxnDigest == Record(<<"i32", "i64">>, 4 + 8, {})
TxnHeader == Record(<<"i64", "i32", "i64", "i64", "i32">>, 8 + 4 + 8 + 8 + 4, {})
CreateTxnV0 == Record(<<"string", "buffer", "vec_acl", "u8">>, 1, {1, 2, 3})

\* Faulty form: size() of the older record, without parent_c_version
CreateTxn_SizeOfV0 == Record(<<"string", "buffer", "vec_acl", "u8", "i32">>, 1, {1, 2, 3})

CreateTxn == Record(<<"string", "buffer", "vec_acl", "u8", "i32">>, 1 + 4, {1, 2, 3})
CreateTTLTxn == Record(<<"string", "buffer", "vec_acl", "i32", "i64">>, 4 + 8, {1, 2, 3})
CreateContainerTxn == Record(<<"string", "buffer", "vec_acl", "i32">>, 4, {1, 2, 3})
DeleteTxn == Record(<<"string">>, 0, {1})
SetDataTxn == Record(<<"string", "buffer", "i32">>, 4, {1, 2})
CheckVersionTxn == Record(<<"string", "i32">>, 4, {1})
SetACLTxn == Record(<<"string", "vec_acl", "i32">>, 4, {1, 2})
SetMaxChildrenTxn == Record(<<"string", "i32">>, 4, {1})
CreateSessionTxn == Record(<<"i32">>, 4, {})
CloseSessionTxn == Record(<<"vec_string">>, 0, {1})
ErrorTxn == Record(<<"i32">>, 4, {})
MultiTxn == Record(<<"vec_txn">>, 0, {1})

-----------------------------------------------------------------------------
\* The records that end in an optional read_only read it by what is left of the frame:
\* they are whole frames, checked as such with the codecs.
Records ==
  [SetWatches |-> SetWatches, RequestHeader |-> RequestHeader, MultiHeader |-> MultiHeader,
   AuthPacket |-> AuthPacket, GetDataRequest |-> GetDataRequest,
   SetDataRequest |-> SetDataRequest, CreateRequest |-> CreateRequest,
   CreateTTLRequest |-> CreateTTLRequest, DeleteRequest |-> DeleteRequest,
   GetChildrenRequest |-> GetChildrenRequest, GetChildren2Request |-> GetChildren2Request,
   SyncRequest |-> SyncRequest, GetACLRequest |-> GetACLRequest,
   SetACLRequest |-> SetACLRequest, ExistsRequest |-> ExistsRequest,
   CheckWatchesRequest |-> CheckWatchesRequest, Id |-> Id, ACL |-> ACL,
   ClientInfo |-> ClientInfo, Txn |-> Txn, Stat |-> Stat, ReplyHeader |-> ReplyHeader,
   SetDataResponse |-> SetDataResponse, WatcherEvent |-> WatcherEvent,
   CreateResponse |-> CreateResponse, Create2Response |-> Create2Response,
   GetDataResponse |-> GetDataResponse, WhoAmIResponse |-> WhoAmIResponse,
   SetWatches2 |-> SetWatches2, ReconfigRequest |-> ReconfigRequest,
   GetSASLRequest |-> GetSASLRequest, SetSASLRequest |-> SetSASLRequest,
   SetSASLResponse |-> SetSASLResponse,
   GetAllChildrenNumberRequest |-> GetAllChildrenNumberRequest,
   GetAllChildrenNumberResponse |-> GetAllChildrenNumberResponse,
   CheckVersionRequest |-> CheckVersionRequest,
   GetMaxChildrenRequest |-> GetMaxChildrenRequest,
   GetMaxChildrenResponse |-> GetMaxChildrenResponse,
   SetMaxChildrenRequest |-> SetMaxChildrenRequest, SyncResponse |-> SyncResponse,
   SetACLResponse |-> SetACLResponse, AddWatchRequest |-> AddWatchRequest,
   RemoveWatchesRequest |-> RemoveWatchesRequest, ErrorResponse |-> ErrorResponse,
   ExistsResponse |-> ExistsResponse, GetChildrenResponse |-> GetChildrenResponse,
   GetChildren2Response |-> GetChildren2Response, GetACLResponse |-> GetACLResponse,
   GetEphemeralsRequest |-> GetEphemeralsRequest,
   GetEphemeralsResponse |-> GetEphemeralsResponse, LearnerInfo |-> LearnerInfo,
   QuorumPacket |-> QuorumPacket, QuorumAuthPacket |-> QuorumAuthPacket,
   StatPersisted |-> StatPersisted, FileHeader |-> FileHeader, TxnDigest |-> TxnDigest,
   TxnHeader |-> TxnHeader, CreateTxnV0 |-> CreateTxnV0, CreateTxn |-> CreateTxn,
   CreateTTLTxn |-> CreateTTLTxn, CreateContainerTxn |-> CreateContainerTxn,
   DeleteTxn |-> DeleteTxn, SetDataTxn |-> SetDataTxn, CheckVersionTxn |-> CheckVersionTxn,
   SetACLTxn |-> SetACLTxn, SetMaxChildrenTxn |-> SetMaxChildrenTxn,
   CreateSessionTxn |-> CreateSessionTxn, CloseSessionTxn |-> CloseSessionTxn,
   ErrorTxn |-> ErrorTxn, MultiTxn |-> MultiTxn]

=============================================================================

----------------------------- MODULE MCProxyConn -----------------------------
(* Instances of ProxyConn: a handful of frames that decode to every kind of outcome. *)
EXTENDS ProxyConn

Path == <<Token(4, 2), Token(2, 7)>>
Frame(xid, op, body) == <<Token(4, xid), Token(4, OpCodes[op])>> \o body

ConnectFrame ==
  <<Token(4, 0), Token(8, 9), Token(4, 30), Token(8, 10), Token(4, 0), Token(1, 0)>>
PingFrame == Frame(XidCodes.PingXid, "Ping", <<>>)
GetDataFrame == Frame(1, "GetData", Path \o <<Token(1, 0)>>)
ExistsFrame == Frame(1, "Exists", Path \o <<Token(1, 1)>>)       \* the same xid again
RemoveWatchesFrame == Frame(2, "RemoveWatches", Path \o <<Token(4, 3)>>)   \* a panic

MCFrames == {ConnectFrame, PingFrame, GetDataFrame, ExistsFrame, RemoveWatchesFrame}
MCFewFrames == {GetDataFrame, RemoveWatchesFrame}

\* No read of these frames ends inside a token
ASSUME NoMisread == \A f \in ClientFrames : Decoded[f].st # "misread"

=============================================================================

----------------------------- MODULE ReplySession -----------------------------
(***************************************************************************)
(* A session whose replies pass through the codecs. encode() of the        *)
(* upstream loop and decode() of the downstream one share requests_by_xid: *)
(* entries are written by the one, read by the other and never removed, so *)
(* that what a reply is read as depends on the order of both loops.        *)
(*                                                                         *)
(* The client does not use an xid again before the reply to it has gone    *)
(* out to it; afterwards it may. The backend answers in order and puts     *)
(* watch events between its answers.                                       *)
(***************************************************************************)
EXTENDS ReplyCodec

CONSTANTS
  Asks,           \* the requests of the client, [xid, op]
  Body,           \* op |-> the body of a successful reply to it
  EventBody,      \* the body of a watch event
  Errors,         \* the error codes of failed requests
  MaxAsks,        \* bound: requests of the session
  MaxEvents       \* bound: watch events of the session

ASSUME SessionAssumption ==
  /\ MaxAsks \in Nat /\ MaxEvents \in Nat
  /\ 0 \notin Errors
  /\ Asks \subseteq [xid : Int, op : DOMAIN Body] /\ DOMAIN Body \subseteq DOMAIN OpCodes

VARIABLES
  alive,            \* neither loop has ended
  c2p,              \* requests on their way from the client
  p2b,              \* requests written to the backend, to be answered
  b2p,              \* replies on their way to the proxy
  requests_by_xid,
  last,             \* the reply decoded last and what was made of it
  asked, answered, events

vars == <<alive, c2p, p2b, b2p, requests_by_xid, last, asked, answered, events>>

None == "none"
Event == [xid |-> XidCodes.WatchXid, op |-> "Event"]
Nothing == [reply |-> [ask |-> Event, err |-> 0], st |-> "none", variant |-> "",
            unchanged |-> FALSE]

Init ==
  /\ alive = TRUE
  /\ c2p = <<>> /\ p2b = <<>> /\ b2p = <<>>
  /\ requests_by_xid = <<>>
  /\ last = Nothing
  /\ asked = 0 /\ answered = 0 /\ events = 0

Outstanding ==
  {q.xid : q \in Range(c2p) \cup Range(p2b)} \cup {r.ask.xid : r \in Range(b2p)}

Ask(q) ==
  /\ asked < MaxAsks
  /\ q.xid > 0 => q.xid \notin Outstanding
  /\ c2p' = Append(c2p, q)
  /\ asked' = asked + 1
  /\ UNCHANGED <<alive, p2b, b2p, requests_by_xid, last, answered, events>>

\* The upstream loop: decode() has the request's header, encode() remembers it and writes
Forward ==
  /\ alive
  /\ c2p # <<>>
  /\ requests_by_xid' =
       Remember(requests_by_xid, [header |-> <<Head(c2p).xid, OpCodes[Head(c2p).op]>>])
  /\ p2b' = Append(p2b, Head(c2p))
  /\ c2p' = Tail(c2p)
  /\ UNCHANGED <<alive, b2p, last, asked, answered, events>>

\* The backend's answers and events are [ask, err], and these are their bytes
Frame(r) ==
  <<Token(4, r.ask.xid), Token(8, 77), Token(4, r.err)>>
  \o (CASE r.ask = Event -> EventBody
        [] r.ask # Event /\ r.err = 0 -> Body[r.ask.op]
        [] OTHER -> <<>>)

Answer(err) ==
  /\ p2b # <<>>
  /\ b2p' = Append(b2p, [ask |-> Head(p2b), err |-> err])
  /\ p2b' = Tail(p2b)
  /\ UNCHANGED <<alive, c2p, requests_by_xid, last, asked, answered, events>>

Notify ==
  /\ events < MaxEvents
  /\ b2p' = Append(b2p, [ask |-> Event, err |-> 0])
  /\ events' = events + 1
  /\ UNCHANGED <<alive, c2p, p2b, requests_by_xid, last, asked, answered>>

\* What decode() makes of each reply, by the request that the map has under its xid: it
\* looks at nothing else of the map. And whether encode() gives the same bytes again.
\* (Merging with the empty function has TLC compute each table once.)
Replies == [ask : Asks, err : {0} \cup Errors] \cup {[ask |-> Event, err |-> 0]}
Readings == [reply : Replies, op : DOMAIN Body \cup {None}]
Decoded ==
  [c \in Readings |->
    decodeReply(Frame(c.reply), IF c.op = None THEN <<>> ELSE c.reply.ask.xid :> c.op)] @@ <<>>
Unchanged ==
  [c \in Readings |->
    Decoded[c].st = "ok" /\ encodeReply(Decoded[c]).body = Frame(c.reply)] @@ <<>>

Remembered(xid) ==
  IF xid \in DOMAIN requests_by_xid THEN requests_by_xid[xid] ELSE None

\* The downstream loop: an Err or a panic of decode() ends it, and anything else is encoded
\* for the client
Deliver ==
  /\ alive
  /\ b2p # <<>>
  /\ LET c == [reply |-> Head(b2p), op |-> Remembered(Head(b2p).ask.xid)]
         ok == Decoded[c].st = "ok"
     IN  /\ alive' = ok
         /\ last' = [reply |-> Head(b2p), st |-> Decoded[c].st,
                     variant |-> Decoded[c].variant, unchanged |-> Unchanged[c]]
         /\ answered' = IF ok /\ Head(b2p).ask # Event THEN answered + 1 ELSE answered
  /\ b2p' = Tail(b2p)
  /\ UNCHANGED <<c2p, p2b, requests_by_xid, asked, events>>

Next ==
  \/ \E q \in Asks : Ask(q)
  \/ Forward
  \/ Answer(0) \/ \E err \in Errors : Answer(err)
  \/ Notify
  \/ Deliver

Spec == Init /\ [][Next]_vars

\* Both loops go on when there is something to read, and the backend answers
FairSpec == Spec /\ WF_vars(Forward) /\ WF_vars(Deliver)
            /\ WF_vars(Answer(0) \/ \E err \in Errors : Answer(err))

-----------------------------------------------------------------------------
(* Properties *)

\* The variant that a reply should be read as
Expected(reply) ==
  CASE reply.ask = Event -> "WatchEvent"
    [] reply.ask # Event /\ (reply.err # 0 \/ reply.ask.xid < 0) -> "Empty"
    [] OTHER -> ResponseVariant[reply.ask.op]

\* What the session needs of the codecs: an answer that meets the entry of its own request,
\* or any entry when it answers under a reserved xid or is an event, is read as what it is
\* and written as it was.
CodecReadsReplies ==
  \A c \in Readings :
    (c.reply.ask.xid > 0 => c.op = c.reply.ask.op) =>
      /\ Decoded[c].st = "ok"
      /\ Decoded[c].variant = Expected(c.reply)
      /\ Unchanged[c]

(* A reply is read as the reply to the request it answers, whichever requests were
   forwarded and answered in the meantime, although a later request under the same xid
   overwrites the entry and nothing ever removes it; and it goes out to the client as the
   backend sent it. *)
AnswersReadAsAsked ==
  last # Nothing =>
    /\ last.st = "ok"
    /\ last.variant = Expected(last.reply)
    /\ last.unchanged

(* The map has the right entry from before the backend can answer until the answer has
   been decoded. *)
OutstandingIsRemembered ==
  \A q \in Range(p2b) \cup {r.ask : r \in Range(b2p)} :
    q.xid > 0 => q.xid \in DOMAIN requests_by_xid /\ requests_by_xid[q.xid] = q.op

(* Every request gets its answer: no reply or event in between ends the session. *)
EveryoneIsAnswered == \A n \in 1 .. MaxAsks : asked >= n ~> answered >= n

=============================================================================

-------------------------- MODULE ReplySessionProofs --------------------------
(* Proofs about ReplySession, for every set of requests and errors and for sessions of any
   length. *)
EXTENDS ReplySession, SequenceLemmas, TLAPS

\* What the backend has been asked and whose answers have not been decoded
InFlight == Range(p2b) \cup {r.ask : r \in Range(b2p)}

TypeInv ==
  /\ c2p \in Seq(Asks) /\ p2b \in Seq(Asks)
  /\ b2p \in Seq(Replies)
  /\ \A xid \in DOMAIN requests_by_xid : requests_by_xid[xid] \in DOMAIN Body

\* The client's rule about xids, as it shows behind the client: no two requests on their
\* way to the proxy have the same xid, and none has that of a request behind the proxy.
\* This is why a forwarded request never overwrites an entry that an answer still needs.
OneWaitsPerXid ==
  \A i, j \in 1 .. Len(c2p) : c2p[i].xid > 0 /\ c2p[i].xid = c2p[j].xid => i = j
NewBehindOld ==
  \A q \in Range(c2p), p \in InFlight : q.xid > 0 => q.xid # p.xid

IInv == TypeInv /\ OneWaitsPerXid /\ NewBehindOld /\ OutstandingIsRemembered

(* No two opcodes have the same number: OpCodes::from_i32 undoes the cast to i32. *)
LEMMA OpCodeOfOpCode == \A op \in DOMAIN OpCodes : OpCodeOf(OpCodes[op]) = op
<1>1. \A a, b \in DOMAIN OpCodes : OpCodes[a] = OpCodes[b] => a = b
  BY DEF OpCodes
<1> QED
  BY <1>1 DEF OpCodeOf

(* The events' xid is that of no request. *)
LEMMA EventXid == Event.xid = -1 /\ ~(Event.xid > 0) /\ Event.xid \in Int
<1>1. XidCodes.WatchXid = -1
  BY DEF XidCodes
<1> QED
  BY <1>1 DEF Event

(* The requests' types. *)
LEMMA AskType ==
  ASSUME NEW q \in Asks
  PROVE  q.xid \in Int /\ q.op \in DOMAIN OpCodes /\ q.op \in DOMAIN Body
BY SessionAssumption

(* What encode() leaves in the map for a request. *)
LEMMA RememberAsk ==
  ASSUME NEW q \in Asks, NEW map
  PROVE  LET after == Remember(map, [header |-> <<q.xid, OpCodes[q.op]>>])
         IN  /\ DOMAIN after = DOMAIN map \cup {q.xid}
             /\ after[q.xid] = q.op
             /\ \A xid \in DOMAIN map : xid = q.xid \/ after[xid] = map[xid]
<1> DEFINE p == [header |-> <<q.xid, OpCodes[q.op]>>]
           after == [xid \in DOMAIN map \cup {q.xid} |->
                       IF xid = q.xid THEN q.op ELSE map[xid]]
<1>1. p.header # <<>> /\ p.header[1] = q.xid /\ p.header[2] = OpCodes[q.op]
  <2> DEFINE x == q.xid
             n == OpCodes[q.op]
  <2> HIDE DEF x, n
  <2>1. <<x, n>> # <<>> /\ <<x, n>>[1] = x /\ <<x, n>>[2] = n
    OBVIOUS
  <2> QED
    BY <2>1 DEF x, n
<1>2. ValidOpCode(OpCodes[q.op]) /\ OpCodeOf(OpCodes[q.op]) = q.op
  BY AskType, OpCodeOfOpCode, Zenon DEF ValidOpCode
<1> HIDE DEF p
<1>3. Remember(map, p) = after
  BY <1>1, <1>2, Zenon DEF Remember
<1>4. /\ DOMAIN after = DOMAIN map \cup {q.xid} /\ after[q.xid] = q.op
      /\ \A xid \in DOMAIN map : xid = q.xid \/ after[xid] = map[xid]
  OBVIOUS
<1> HIDE DEF after
<1> QED
  BY <1>3, <1>4, Zenon DEF p

-----------------------------------------------------------------------------
(* The map *)

(* The initial state. *)
LEMMA InitIInv == Init => IInv
<1> SUFFICES ASSUME Init PROVE IInv
  OBVIOUS
<1>1. c2p = <<>> /\ p2b = <<>> /\ b2p = <<>> /\ Len(c2p) = 0
  BY EmptyFacts, Zenon DEF Init
<1>2. TypeInv
  <2>1. DOMAIN requests_by_xid = {}
    BY EmptyFacts, Zenon DEF Init
  <2> QED
    BY <1>1, <2>1, EmptyFacts, Zenon DEF TypeInv
<1>3. Range(c2p) = {} /\ Range(p2b) = {} /\ Range(b2p) = {}
  BY <1>1, EmptyFacts DEF Range
<1>4. OneWaitsPerXid
  BY <1>1 DEF OneWaitsPerXid
<1> QED
  BY <1>2, <1>3, <1>4, Zenon DEF IInv, NewBehindOld, OutstandingIsRemembered

(* What waits and what is in flight are requests, or events, with integer xids. *)
LEMMA RangeTypes ==
  ASSUME TypeInv
  PROVE  /\ Range(c2p) \subseteq Asks
         /\ InFlight \subseteq Asks \cup {Event}
         /\ \A q \in InFlight : q.xid \in Int
<1>1. \A S, s : s \in Seq(S) => Range(s) \subseteq S
  <2> SUFFICES ASSUME NEW S, NEW s \in Seq(S), NEW i \in DOMAIN s PROVE s[i] \in S
    BY Zenon DEF Range
  <2>1. i \in 1 .. Len(s)
    BY LenProperties, Zenon
  <2> QED
    BY <2>1, ElementOfSeq, Zenon
<1>2. Range(c2p) \subseteq Asks /\ Range(p2b) \subseteq Asks
  BY <1>1, Zenon DEF TypeInv
<1>3. Range(b2p) \subseteq Replies
  BY <1>1, Zenon DEF TypeInv
<1>4. \A r \in Replies : r.ask \in Asks \cup {Event}
  BY DEF Replies
<1>5. InFlight \subseteq Asks \cup {Event}
  BY <1>2, <1>3, <1>4, Zenon DEF InFlight
<1> QED
  BY <1>2, <1>5, AskType, EventXid, Zenon

(* A new request: its xid, if it is an ordinary one, is that of no other. *)
LEMMA AskKeeps ==
  ASSUME IInv, NEW q \in Asks, Ask(q)
  PROVE  IInv'
<1>1. /\ q.xid > 0 => q.xid \notin Outstanding
      /\ c2p' = Append(c2p, q) /\ UNCHANGED <<p2b, b2p, requests_by_xid>>
  BY DEF Ask
<1>2. TypeInv /\ c2p \in Seq(Asks)
  BY DEF IInv, TypeInv
<1>3. /\ c2p' \in Seq(Asks) /\ Len(c2p') = Len(c2p) + 1 /\ Len(c2p) \in Nat
      /\ \A i \in 1 .. Len(c2p) : c2p'[i] = c2p[i]
      /\ c2p'[Len(c2p) + 1] = q
      /\ Range(c2p') = Range(c2p) \cup {q}
  BY <1>1, <1>2, Appended, RangeAppended
<1>4. InFlight' = InFlight
  BY <1>1 DEF InFlight
<1>5. TypeInv'
  BY <1>1, <1>2, <1>3 DEF TypeInv
<1>6. q.xid > 0 => /\ \A p \in Range(c2p) : p.xid # q.xid
                   /\ \A p \in InFlight : p.xid # q.xid
  BY <1>1, Zenon DEF Outstanding, InFlight
<1>7. OneWaitsPerXid'
  <2> SUFFICES ASSUME NEW i \in 1 .. Len(c2p) + 1, NEW j \in 1 .. Len(c2p) + 1,
                      c2p'[i].xid > 0, c2p'[i].xid = c2p'[j].xid
               PROVE  i = j
    BY <1>3, Zenon DEF OneWaitsPerXid
  <2>1. \A k \in 1 .. Len(c2p) + 1 : k \in 1 .. Len(c2p) \/ k = Len(c2p) + 1
    BY <1>3
  <2>2. \A k \in 1 .. Len(c2p) : c2p[k] \in Range(c2p)
    BY <1>2, LenProperties, Zenon DEF Range
  <2>3. CASE i \in 1 .. Len(c2p) /\ j \in 1 .. Len(c2p)
    BY <1>3, <2>3, Zenon DEF IInv, OneWaitsPerXid
  <2>4. CASE i = Len(c2p) + 1 /\ j \in 1 .. Len(c2p)
    BY <1>3, <1>6, <2>2, <2>4, Zenon
  <2>5. CASE i \in 1 .. Len(c2p) /\ j = Len(c2p) + 1
    BY <1>3, <1>6, <2>2, <2>5, Zenon
  <2> QED
    BY <2>1, <2>3, <2>4, <2>5, Zenon
<1>8. NewBehindOld'
  BY <1>3, <1>4, <1>6, Zenon DEF IInv, NewBehindOld
<1>9. OutstandingIsRemembered'
  BY <1>1 DEF IInv, OutstandingIsRemembered
<1> QED
  BY <1>5, <1>7, <1>8, <1>9 DEF IInv

(* A request is forwarded: what it overwrites in the map, no answer in flight needs. *)
LEMMA ForwardKeeps ==
  ASSUME IInv, Forward
  PROVE  IInv'
<1> DEFINE q == Head(c2p)
<1>1. /\ c2p # <<>> /\ c2p' = Tail(c2p) /\ p2b' = Append(p2b, q) /\ UNCHANGED b2p
      /\ requests_by_xid' = Remember(requests_by_xid, [header |-> <<q.xid, OpCodes[q.op]>>])
  BY DEF Forward
<1>2. TypeInv /\ c2p \in Seq(Asks) /\ p2b \in Seq(Asks)
  BY DEF IInv, TypeInv
<1>3. /\ c2p' \in Seq(Asks) /\ Len(c2p') = Len(c2p) - 1 /\ Len(c2p) \in Nat /\ Len(c2p) > 0
      /\ \A i \in 1 .. Len(c2p) - 1 : c2p'[i] = c2p[i + 1]
      /\ q = c2p[1] /\ q \in Asks
      /\ Range(c2p) = {q} \cup Range(c2p')
  BY <1>1, <1>2, Tailed, RangeTailed
<1> HIDE DEF q
<1>4. p2b' \in Seq(Asks) /\ Range(p2b') = Range(p2b) \cup {q}
  BY <1>1, <1>2, <1>3, Appended, RangeAppended
<1>5. InFlight' = InFlight \cup {q}
  BY <1>1, <1>4, Zenon DEF InFlight
<1>7. /\ DOMAIN requests_by_xid' = DOMAIN requests_by_xid \cup {q.xid}
      /\ requests_by_xid'[q.xid] = q.op
      /\ \A xid \in DOMAIN requests_by_xid :
           xid = q.xid \/ requests_by_xid'[xid] = requests_by_xid[xid]
  BY <1>1, <1>3, RememberAsk, Zenon
<1>6. TypeInv'
  <2>1. \A xid \in DOMAIN requests_by_xid' : requests_by_xid'[xid] \in DOMAIN Body
    BY <1>2, <1>3, <1>7, AskType, Zenon DEF TypeInv
  <2> QED
    BY <1>1, <1>2, <1>3, <1>4, <2>1 DEF TypeInv
<1>8. OneWaitsPerXid'
  <2> SUFFICES ASSUME NEW i \in 1 .. Len(c2p) - 1, NEW j \in 1 .. Len(c2p) - 1,
                      c2p'[i].xid > 0, c2p'[i].xid = c2p'[j].xid
               PROVE  i = j
    BY <1>3, Zenon DEF OneWaitsPerXid
  <2>1. i + 1 \in 1 .. Len(c2p) /\ j + 1 \in 1 .. Len(c2p)
    BY <1>3
  <2>2. i + 1 = j + 1
    BY <1>3, <2>1, Zenon DEF IInv, OneWaitsPerXid
  <2> QED
    BY <2>2
<1>9. \A p \in Range(c2p') : q.xid > 0 => p.xid # q.xid
  <2> SUFFICES ASSUME NEW p \in Range(c2p'), q.xid > 0, p.xid = q.xid PROVE FALSE
    BY Zenon
  <2>1. PICK i \in 1 .. Len(c2p) - 1 : p = c2p'[i]
    BY <1>3, LenProperties DEF Range
  <2>2. i + 1 \in 1 .. Len(c2p) /\ 1 \in 1 .. Len(c2p) /\ i + 1 # 1
    BY <1>3
  <2>3. c2p[i + 1].xid = c2p[1].xid /\ c2p[1].xid > 0
    BY <1>3, <2>1, Zenon
  <2> QED
    BY <2>2, <2>3, Zenon DEF IInv, OneWaitsPerXid
<1>10. NewBehindOld'
  <2> SUFFICES ASSUME NEW w \in Range(c2p'), NEW p \in InFlight \cup {q}, w.xid > 0,
                      w.xid = p.xid
               PROVE  FALSE
    BY <1>5, Zenon DEF NewBehindOld
  <2>1. CASE p \in InFlight
    BY <1>3, <2>1, Zenon DEF IInv, NewBehindOld
  <2>2. CASE p = q
    BY <1>9, <2>2, Zenon
  <2> QED
    BY <2>1, <2>2, Zenon
<1>11. OutstandingIsRemembered'
  <2> SUFFICES ASSUME NEW p \in InFlight \cup {q}, p.xid > 0
               PROVE  p.xid \in DOMAIN requests_by_xid' /\ requests_by_xid'[p.xid] = p.op
    BY <1>5, Zenon DEF OutstandingIsRemembered, InFlight
  <2>1. CASE p = q
    BY <1>7, <2>1, Zenon
  <2>2. CASE p \in InFlight
    <3>1. p.xid \in DOMAIN requests_by_xid /\ requests_by_xid[p.xid] = p.op
      BY <2>2, Zenon DEF IInv, OutstandingIsRemembered, InFlight
    <3>2. p.xid # q.xid
      <4>1. q \in Range(c2p)
        BY <1>3, Zenon
      <4> QED
        BY <2>2, <4>1, Zenon DEF IInv, NewBehindOld
    <3> QED
      BY <1>7, <3>1, <3>2, Zenon
  <2> QED
    BY <2>1, <2>2, Zenon
<1> QED
  BY <1>6, <1>8, <1>10, <1>11 DEF IInv

(* Less, or only an event more, is in flight; the rest is as it was. *)
LEMMA FlightKeeps ==
  ASSUME IInv, TypeInv', UNCHANGED <<c2p, requests_by_xid>>,
         InFlight' \subseteq InFlight \cup {Event}
  PROVE  IInv'
<1>1. OneWaitsPerXid'
  <2>1. c2p' = c2p
    OBVIOUS
  <2> QED
    BY <2>1, Zenon DEF IInv, OneWaitsPerXid
<1>2. NewBehindOld'
  <2> SUFFICES ASSUME NEW q \in Range(c2p), NEW p \in InFlight', q.xid > 0, q.xid = p.xid
               PROVE  FALSE
    BY Zenon DEF NewBehindOld
  <2>1. CASE p \in InFlight
    BY <2>1, Zenon DEF IInv, NewBehindOld
  <2>2. CASE p = Event
    BY <2>2, EventXid, Zenon
  <2> QED
    BY <2>1, <2>2, Zenon
<1>3. OutstandingIsRemembered'
  <2> SUFFICES ASSUME NEW p \in InFlight', p.xid > 0
               PROVE  p.xid \in DOMAIN requests_by_xid /\ requests_by_xid[p.xid] = p.op
    BY Zenon DEF OutstandingIsRemembered, InFlight
  <2>1. p # Event
    BY EventXid, Zenon
  <2> QED
    BY <2>1, Zenon DEF IInv, OutstandingIsRemembered, InFlight
<1> QED
  BY <1>1, <1>2, <1>3 DEF IInv

(* Every step keeps the invariant. *)
LEMMA StepIInv == IInv /\ [Next]_vars => IInv'
<1> SUFFICES ASSUME IInv, [Next]_vars PROVE IInv'
  OBVIOUS
<1>0. c2p \in Seq(Asks) /\ p2b \in Seq(Asks) /\ b2p \in Seq(Replies)
  BY DEF IInv, TypeInv
<1>a. /\ \A q \in Asks, e \in {0} \cup Errors : [ask |-> q, err |-> e] \in Replies
      /\ [ask |-> Event, err |-> 0] \in Replies
  BY DEF Replies
<1>b. ASSUME b2p' \in Seq(Replies), p2b' \in Seq(Asks), UNCHANGED <<c2p, requests_by_xid>>
      PROVE  TypeInv'
  BY <1>0, <1>b DEF IInv, TypeInv
<1>1. CASE UNCHANGED vars
  <2>1. UNCHANGED <<c2p, p2b, b2p, requests_by_xid>>
    BY <1>1 DEF vars
  <2>2. TypeInv' /\ InFlight' = InFlight
    BY <1>0, <1>b, <2>1, Zenon DEF InFlight
  <2> QED
    BY <2>1, <2>2, FlightKeeps, Zenon
<1>2. ASSUME NEW q \in Asks, Ask(q)
      PROVE  IInv'
  BY <1>2, AskKeeps
<1>3. CASE Forward
  BY <1>3, ForwardKeeps
<1>4. ASSUME NEW e \in {0} \cup Errors, Answer(e)
      PROVE  IInv'
  <2> DEFINE q == Head(p2b)
             r == [ask |-> q, err |-> e]
  <2>1. /\ p2b # <<>> /\ p2b' = Tail(p2b) /\ b2p' = Append(b2p, r)
        /\ UNCHANGED <<c2p, requests_by_xid>>
    BY <1>4 DEF Answer
  <2>2. p2b' \in Seq(Asks) /\ q \in Asks /\ Range(p2b) = {q} \cup Range(p2b')
    BY <1>0, <2>1, Tailed, RangeTailed
  <2>3. r \in Replies /\ r.ask = q
    BY <1>a, <2>2
  <2> HIDE DEF r, q
  <2>4. b2p' \in Seq(Replies) /\ Range(b2p') = Range(b2p) \cup {r}
    BY <1>0, <2>1, <2>3, Appended, RangeAppended
  <2>5. InFlight' \subseteq InFlight
    BY <2>2, <2>3, <2>4, Zenon DEF InFlight
  <2>6. TypeInv'
    BY <1>b, <2>1, <2>2, <2>4, Zenon
  <2> QED
    BY <2>1, <2>5, <2>6, FlightKeeps, Zenon
<1>5. CASE Notify
  <2> DEFINE r == [ask |-> Event, err |-> 0]
  <2>1. b2p' = Append(b2p, r) /\ UNCHANGED <<c2p, p2b, requests_by_xid>>
    BY <1>5 DEF Notify
  <2>2. r \in Replies /\ r.ask = Event
    BY <1>a
  <2> HIDE DEF r
  <2>3. b2p' \in Seq(Replies) /\ Range(b2p') = Range(b2p) \cup {r}
    BY <1>0, <2>1, <2>2, Appended, RangeAppended
  <2>4. InFlight' \subseteq InFlight \cup {Event}
    BY <2>1, <2>2, <2>3, Zenon DEF InFlight
  <2>5. TypeInv'
    BY <1>0, <1>b, <2>1, <2>3, Zenon
  <2> QED
    BY <2>1, <2>4, <2>5, FlightKeeps, Zenon
<1>6. CASE Deliver
  <2>1. b2p # <<>> /\ b2p' = Tail(b2p) /\ UNCHANGED <<c2p, p2b, requests_by_xid>>
    BY <1>6 DEF Deliver
  <2>2. b2p' \in Seq(Replies) /\ Range(b2p') \subseteq Range(b2p)
    BY <1>0, <2>1, Tailed, RangeTailed
  <2>3. InFlight' \subseteq InFlight
    BY <2>1, <2>2, Zenon DEF InFlight
  <2>4. TypeInv'
    BY <1>0, <1>b, <2>1, <2>2, Zenon
  <2> QED
    BY <2>1, <2>3, <2>4, FlightKeeps, Zenon
<1> QED
  BY <1>1, <1>2, <1>3, <1>4, <1>5, <1>6 DEF Next

(* encode() of the one loop and decode() of the other share requests_by_xid without a lock
   or an agreement between them: still the entry of a request that the backend may answer
   is that request's own, until its answer has been decoded, for a client that keeps its
   xids apart. *)
THEOREM AnswersFindTheirRequest == Spec => []OutstandingIsRemembered
<1>1. IInv => OutstandingIsRemembered
  BY DEF IInv
<1> QED
  BY <1>1, InitIInv, StepIInv, PTL DEF Spec

-----------------------------------------------------------------------------
(* What the replies are read as *)

(* A reply that the downstream loop decodes meets the entry of its own request, or is one
   for which the codec looks at no entry. *)
LEMMA DeliverReads ==
  ASSUME CodecReadsReplies, IInv, Deliver
  PROVE  AnswersReadAsAsked'
<1> DEFINE r == Head(b2p)
           op == Remembered(r.ask.xid)
           c == [reply |-> r, op |-> op]
<1>1. /\ b2p # <<>>
      /\ last' = [reply |-> r, st |-> Decoded[c].st, variant |-> Decoded[c].variant,
                  unchanged |-> Unchanged[c]]
  BY Zenon DEF Deliver
<1>2. r \in Range(b2p) /\ r \in Replies
  <2>1. b2p \in Seq(Replies)
    BY DEF IInv, TypeInv
  <2>2. Head(b2p) \in Replies /\ Range(b2p) = {Head(b2p)} \cup Range(Tail(b2p))
    BY <1>1, <2>1, Tailed, RangeTailed
  <2> QED
    BY <2>2, Zenon
<1>3. r.ask \in InFlight
  BY <1>2, Zenon DEF InFlight
<1> HIDE DEF r
<1>4. r.ask.xid > 0 => op = r.ask.op
  BY <1>3, Zenon DEF IInv, OutstandingIsRemembered, InFlight, Remembered
<1>5. op \in DOMAIN Body \cup {None}
  BY Zenon DEF IInv, TypeInv, Remembered
<1> HIDE DEF op
<1>6. c \in Readings /\ c.reply = r /\ c.op = op
  BY <1>2, <1>5 DEF Readings
<1> HIDE DEF c
<1>7. Decoded[c].st = "ok" /\ Decoded[c].variant = Expected(r) /\ Unchanged[c]
  BY <1>4, <1>6, Zenon DEF CodecReadsReplies
<1>8. /\ last'.reply = r /\ last'.st = Decoded[c].st
      /\ last'.variant = Decoded[c].variant /\ last'.unchanged = Unchanged[c]
  BY <1>1
<1> QED
  BY <1>7, <1>8, Zenon DEF AnswersReadAsAsked

(* Given codecs that read each reply right when they are told the request that it answers,
   the session of the two loops always tells them the right one, whatever is forwarded,
   answered, failed or announced in between: every reply is read as what was asked for and
   goes out as it came. *)
THEOREM AnswersAreReadRight ==
  ASSUME CodecReadsReplies
  PROVE  Spec => []AnswersReadAsAsked
<1>1. Init => AnswersReadAsAsked
  BY DEF Init, AnswersReadAsAsked
<1>2. IInv /\ AnswersReadAsAsked /\ [Next]_vars => AnswersReadAsAsked'
  <2> SUFFICES ASSUME IInv, AnswersReadAsAsked, [Next]_vars PROVE AnswersReadAsAsked'
    OBVIOUS
  <2>1. CASE Deliver
    BY <2>1, DeliverReads
  <2>2. CASE ~Deliver
    <3>1. last' = last
      BY <2>2 DEF Next, vars, Ask, Forward, Answer, Notify
    <3> QED
      BY <3>1, Zenon DEF AnswersReadAsAsked
  <2> QED
    BY <2>1, <2>2
<1> QED
  BY <1>1, <1>2, InitIInv, StepIInv, PTL DEF Spec

=============================================================================

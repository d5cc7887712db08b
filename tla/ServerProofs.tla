---------------------------- MODULE ServerProofs ----------------------------
(* Proofs about Server, for every set of clients, every limit and every number of visits. *)
EXTENDS Server, SequenceLemmas, FiniteSetTheorems, TLAPS

\* A client is in the backlog at most once, and not while it is served; a client that is
\* queued or served has made a connection; and before bind() there is nobody.
Orderly ==
  /\ IsInjective(backlog)
  /\ \A c \in Clients : Queued(c) => task[c] = "none"
  /\ \A c \in Clients : Queued(c) \/ task[c] # "none" => visits[c] > 0
  /\ main = "starting" => \A c \in Clients : task[c] = "none"

IInv == TypeOK /\ Orderly /\ SocketsAreTheTasks

-----------------------------------------------------------------------------
(* Types *)

(* TypeOK, without the sockets, which the other invariants determine. *)
LEMMA ServerTypeFacts ==
  ASSUME TypeOK
  PROVE  /\ limit \in Limits /\ grants \in Grants
         /\ main \in {"starting", "listening", "gone"}
         /\ why \in {"", "bind", "descriptors", "aborted", "memory"}
         /\ backlog \in Seq(Clients) /\ aborted \subseteq Clients
         /\ task \in [Clients -> {"none", "connecting", "running"}]
         /\ visits \in [Clients -> 0 .. MaxVisits]
         /\ \A c \in Clients : visits[c] \in Nat /\ visits[c] <= MaxVisits
         /\ MaxVisits \in Nat
<1>1. \A c \in Clients : visits[c] \in 0 .. MaxVisits
  BY DEF TypeOK
<1>2. \A c \in Clients : visits[c] \in Nat /\ visits[c] <= MaxVisits
  BY <1>1, ServerAssumption
<1> QED
  BY <1>2, ServerAssumption, Zenon DEF TypeOK

(* The head of the backlog and what is behind it. *)
LEMMA BacklogHead ==
  ASSUME TypeOK, Orderly, backlog # <<>>
  PROVE  /\ Head(backlog) \in Clients /\ task[Head(backlog)] = "none"
         /\ visits[Head(backlog)] > 0
         /\ Tail(backlog) \in Seq(Clients) /\ IsInjective(Tail(backlog))
         /\ Range(backlog) = {Head(backlog)} \cup Range(Tail(backlog))
         /\ Head(backlog) \notin Range(Tail(backlog))
<1>1. backlog \in Seq(Clients)
  BY ServerTypeFacts
<1>2. Head(backlog) \in Clients /\ Tail(backlog) \in Seq(Clients)
  BY <1>1, Tailed, Zenon
<1>3. /\ Range(backlog) = {Head(backlog)} \cup Range(Tail(backlog))
      /\ IsInjective(Tail(backlog)) /\ Head(backlog) \notin Range(Tail(backlog))
  BY <1>1, RangeTailed, Zenon DEF Orderly
<1>4. Queued(Head(backlog))
  BY <1>3, Zenon DEF Queued
<1> QED
  BY <1>2, <1>3, <1>4, Zenon DEF Orderly

(* The sockets of different clients, and the two of one, are different. *)
LEMMA SocketsDiffer ==
  ASSUME NEW c, NEW d
  PROVE  /\ c2p(c) # p2b(d)
         /\ c # d => c2p(c) # c2p(d) /\ p2b(c) # p2b(d)
  BY DEF c2p, p2b

\* The sockets that SocketsAreTheTasks says are open, one by one
Held(s) ==
  \E c \in Clients : \/ task[c] # "none" /\ s = c2p(c)
                     \/ task[c] = "running" /\ s = p2b(c)

(* SocketsAreTheTasks says of each socket whether it is open. *)
LEMMA SocketsOneByOne == SocketsAreTheTasks <=> \A s : s \in sockets <=> Held(s)
<1> DEFINE A == {c2p(c) : c \in {d \in Clients : task[d] # "none"}}
           B == {p2b(c) : c \in {d \in Clients : task[d] = "running"}}
<1>1. \A s : s \in A \cup B <=> Held(s)
  BY Zenon DEF Held
<1>2. SocketsAreTheTasks <=> sockets = A \cup B
  BY Zenon DEF SocketsAreTheTasks
<1> HIDE DEF A, B
<1> QED
  BY <1>1, <1>2, Zenon

(* A socket of a client that has made a connection. *)
LEMMA SocketTypes ==
  ASSUME TypeOK, NEW c \in Clients, visits[c] > 0
  PROVE  {c2p(c), p2b(c)}
           \subseteq [end : {"c2p", "p2b"}, client : Clients, visit : 1 .. MaxVisits]
<1>0. visits[c] \in Nat /\ visits[c] <= MaxVisits /\ MaxVisits \in Nat
  BY ServerTypeFacts, Zenon
<1>1. visits[c] \in 1 .. MaxVisits
  BY <1>0
<1> QED
  BY <1>1 DEF c2p, p2b

(* A step that changes the tasks and sockets of one client c, and nobody's visits. *)
LEMMA SocketsChange ==
  ASSUME SocketsAreTheTasks, NEW c \in Clients, visits' = visits,
         \A d \in Clients : d # c => task'[d] = task[d],
         c2p(c) \in sockets' <=> task'[c] # "none",
         p2b(c) \in sockets' <=> task'[c] = "running",
         \A s : s # c2p(c) /\ s # p2b(c) => (s \in sockets' <=> s \in sockets)
  PROVE  SocketsAreTheTasks'
<1>1. \A d : c2p(d)' = c2p(d) /\ p2b(d)' = p2b(d)
  BY DEF c2p, p2b
<1>2. \A s : s \in sockets <=> Held(s)
  BY SocketsOneByOne
<1>3. ASSUME NEW s
      PROVE  s \in sockets' <=> Held(s)'
  <2>1. Held(s)' <=> \E d \in Clients : \/ task'[d] # "none" /\ s = c2p(d)
                                        \/ task'[d] = "running" /\ s = p2b(d)
    BY <1>1, Zenon DEF Held
  <2>2. CASE s = c2p(c)
    <3>1. \A d \in Clients : s # p2b(d) /\ (s = c2p(d) => d = c)
      BY <2>2, SocketsDiffer, Zenon
    <3> QED
      BY <2>1, <2>2, <3>1, Zenon
  <2>3. CASE s = p2b(c)
    <3>1. \A d \in Clients : s # c2p(d) /\ (s = p2b(d) => d = c)
      BY <2>3, SocketsDiffer, Zenon
    <3> QED
      BY <2>1, <2>3, <3>1, Zenon
  <2>4. CASE s # c2p(c) /\ s # p2b(c)
    <3>1. Held(s)' <=> Held(s)
      BY <2>1, <2>4, Zenon DEF Held
    <3> QED
      BY <1>2, <2>4, <3>1, Zenon
  <2> QED
    BY <2>2, <2>3, <2>4
<1>4. (SocketsAreTheTasks <=> \A s : s \in sockets <=> Held(s))'
  BY SocketsOneByOne, PTL
<1> QED
  BY <1>3, <1>4

-----------------------------------------------------------------------------
(* The steps *)

(* The initial state. *)
LEMMA InitIInv == Init => IInv
<1> SUFFICES ASSUME Init PROVE IInv
  OBVIOUS
<1>1. backlog = <<>> /\ backlog \in Seq(Clients) /\ Range(backlog) = {} /\ IsInjective(backlog)
  BY EmptyFacts, Zenon DEF Init, Range, IsInjective
<1>2. /\ task = [c \in Clients |-> "none"] /\ visits = [c \in Clients |-> 0] /\ sockets = {}
      /\ limit \in Limits /\ grants \in Grants
      /\ main = "starting" /\ why = "" /\ aborted = {}
  BY DEF Init
<1>3. 0 \in 0 .. MaxVisits
  BY ServerAssumption
<1>4. TypeOK
  BY <1>1, <1>2, <1>3, Zenon DEF TypeOK
<1>5. Orderly
  BY <1>1, <1>2, Zenon DEF Orderly, Queued
<1>6. SocketsAreTheTasks
  BY <1>2, Zenon DEF SocketsAreTheTasks
<1> QED
  BY <1>4, <1>5, <1>6 DEF IInv

(* The end of the process. *)
LEMMA DieIInv ==
  ASSUME IInv, NEW reason \in {"bind", "descriptors", "aborted", "memory"}, Die(reason)
  PROVE  IInv'
<1>1. /\ main' = "gone" /\ why' = reason /\ backlog' = <<>> /\ aborted' = {}
      /\ task' = [c \in Clients |-> "none"] /\ sockets' = {}
      /\ limit' = limit /\ grants' = grants /\ visits' = visits
  BY DEF Die
<1>2. backlog' \in Seq(Clients) /\ Range(backlog') = {} /\ IsInjective(backlog')
  BY <1>1, EmptyFacts, Zenon DEF Range, IsInjective
<1>3. TypeOK'
  BY <1>1, <1>2, ServerTypeFacts DEF TypeOK, IInv
<1>4. Orderly'
  BY <1>1, <1>2, Zenon DEF Orderly, Queued
<1>5. SocketsAreTheTasks'
  BY <1>1, Zenon DEF SocketsAreTheTasks
<1> QED
  BY <1>3, <1>4, <1>5 DEF IInv

(* A step of one client's task: it becomes `where`, from something other than "none". *)
LEMMA TaskIInv ==
  ASSUME IInv, NEW c \in Clients, task[c] # "none",
         NEW where \in {"none", "connecting", "running"},
         task' = [task EXCEPT ![c] = where],
         sockets' \subseteq sockets \cup {c2p(c), p2b(c)},
         SocketsAreTheTasks',
         UNCHANGED <<limit, grants, main, why, backlog, aborted, visits>>
  PROVE  IInv'
<1>0. TypeOK /\ Orderly
  BY DEF IInv
<1>1. /\ task' \in [Clients -> {"none", "connecting", "running"}]
      /\ \A d \in Clients : d # c => task'[d] = task[d]
  BY <1>0, ServerTypeFacts
<1>2. visits[c] > 0 /\ main # "starting" /\ ~Queued(c)
  BY <1>0, Zenon DEF Orderly
<1>3. TypeOK'
  <2>1. sockets' \subseteq [end : {"c2p", "p2b"}, client : Clients, visit : 1 .. MaxVisits]
    BY <1>0, <1>2, SocketTypes, Zenon DEF TypeOK
  <2> QED
    BY <1>0, <1>1, <2>1, Zenon DEF TypeOK
<1>4. Orderly'
  <2>1. \A d : Queued(d)' <=> Queued(d)
    BY Zenon DEF Queued
  <2>2. \A d \in Clients : Queued(d) => task'[d] = "none"
    BY <1>0, <1>1, <1>2, Zenon DEF Orderly
  <2>3. \A d \in Clients : Queued(d) \/ task'[d] # "none" => visits[d] > 0
    BY <1>0, <1>1, <1>2, Zenon DEF Orderly
  <2> QED
    BY <1>0, <1>2, <2>1, <2>2, <2>3, Zenon DEF Orderly
<1> QED
  BY <1>3, <1>4 DEF IInv

(* accept() gives the first of the backlog a task and a socket. *)
LEMMA AcceptIInv == ASSUME IInv, Accept PROVE IInv'
<1>0. TypeOK /\ Orderly /\ SocketsAreTheTasks
  BY DEF IInv
<1> DEFINE c == Head(backlog)
<1>1. /\ main = "listening" /\ backlog # <<>>
      /\ task' = [task EXCEPT ![c] = "connecting"]
      /\ sockets' = sockets \cup {c2p(c)}
      /\ backlog' = Tail(backlog) /\ aborted' = aborted \ {c}
      /\ UNCHANGED <<limit, grants, main, why, visits>>
  BY DEF Accept
<1>2. /\ c \in Clients /\ task[c] = "none" /\ visits[c] > 0
      /\ backlog' \in Seq(Clients) /\ IsInjective(backlog')
      /\ Range(backlog) = {c} \cup Range(backlog') /\ c \notin Range(backlog')
  BY <1>0, <1>1, BacklogHead
<1> HIDE DEF c
<1>3. /\ task' \in [Clients -> {"none", "connecting", "running"}]
      /\ \A d \in Clients : task'[d] = IF d = c THEN "connecting" ELSE task[d]
  BY <1>0, <1>1, <1>2, ServerTypeFacts
<1>4. TypeOK'
  <2>1. sockets' \subseteq [end : {"c2p", "p2b"}, client : Clients, visit : 1 .. MaxVisits]
    BY <1>0, <1>1, <1>2, SocketTypes, Zenon DEF TypeOK
  <2>2. aborted' \subseteq Clients
    BY <1>0, <1>1, ServerTypeFacts
  <2> QED
    BY <1>0, <1>1, <1>2, <1>3, <2>1, <2>2, Zenon DEF TypeOK
<1>5. Orderly'
  <2>1. \A d : Queued(d)' <=> Queued(d) /\ d # c
    BY <1>2, Zenon DEF Queued
  <2>2. \A d \in Clients : Queued(d)' => task'[d] = "none"
    BY <1>0, <1>3, <2>1, Zenon DEF Orderly
  <2>3. \A d \in Clients : Queued(d)' \/ task'[d] # "none" => visits[d] > 0
    BY <1>0, <1>2, <1>3, <2>1, Zenon DEF Orderly
  <2> QED
    BY <1>1, <1>2, <2>2, <2>3, Zenon DEF Orderly
<1>6. SocketsAreTheTasks'
  <2>1. \A s : s \in sockets <=> Held(s)
    BY <1>0, SocketsOneByOne
  <2>2. ~Held(p2b(c)) /\ c2p(c) # p2b(c)
    <3>1. \A d \in Clients : p2b(c) # c2p(d) /\ (p2b(c) = p2b(d) => c = d)
      BY <1>2, SocketsDiffer, Zenon
    <3> QED
      BY <1>2, <3>1, Zenon DEF Held
  <2>3. c2p(c) \in sockets' /\ p2b(c) \notin sockets'
    BY <1>1, <2>1, <2>2, Zenon
  <2>4. \A s : s # c2p(c) => (s \in sockets' <=> s \in sockets)
    BY <1>1, Zenon
  <2>5. task'[c] = "connecting" /\ \A d \in Clients : d # c => task'[d] = task[d]
    BY <1>2, <1>3, Zenon
  <2> QED
    BY <1>0, <1>1, <1>2, <2>3, <2>4, <2>5, SocketsChange
<1> QED
  BY <1>4, <1>5, <1>6 DEF IInv

(* A client connects again: its earlier sockets, of an earlier visit, are long closed. *)
LEMMA ClientConnectIInv ==
  ASSUME IInv, NEW c \in Clients, ClientConnect(c)
  PROVE  IInv'
<1>0. TypeOK /\ Orderly /\ SocketsAreTheTasks
  BY DEF IInv
<1>1. /\ main = "listening" /\ ~Queued(c) /\ task[c] = "none" /\ visits[c] < MaxVisits
      /\ visits' = [visits EXCEPT ![c] = @ + 1]
      /\ backlog' = Append(backlog, c)
      /\ UNCHANGED <<limit, grants, main, why, aborted, task, sockets>>
  BY DEF ClientConnect
<1>2. /\ backlog' \in Seq(Clients) /\ IsInjective(backlog')
      /\ Range(backlog') = Range(backlog) \cup {c}
  <2>1. backlog \in Seq(Clients) /\ IsInjective(backlog) /\ c \notin Range(backlog)
    BY <1>0, <1>1, ServerTypeFacts, Zenon DEF Orderly, Queued
  <2> QED
    BY <1>1, <2>1, Appended, RangeAppended, Zenon
<1>3. /\ visits' \in [Clients -> 0 .. MaxVisits] /\ visits'[c] > 0
      /\ \A d \in Clients : d # c => visits'[d] = visits[d]
  <2>1. visits[c] \in Nat /\ MaxVisits \in Nat /\ visits \in [Clients -> 0 .. MaxVisits]
    BY <1>0, ServerTypeFacts, Zenon
  <2>2. visits[c] + 1 \in 0 .. MaxVisits /\ visits[c] + 1 > 0
    BY <1>1, <2>1
  <2> QED
    BY <1>1, <2>1, <2>2
<1>4. TypeOK'
  BY <1>0, <1>1, <1>2, <1>3, Zenon DEF TypeOK
<1>5. Orderly'
  <2>1. \A d : Queued(d)' <=> Queued(d) \/ d = c
    BY <1>2, Zenon DEF Queued
  <2>2. \A d \in Clients : Queued(d)' => task'[d] = "none"
    BY <1>0, <1>1, <2>1, Zenon DEF Orderly
  <2>3. \A d \in Clients : Queued(d)' \/ task'[d] # "none" => visits'[d] > 0
    BY <1>0, <1>1, <1>3, <2>1, Zenon DEF Orderly
  <2>4. main' # "starting"
    BY <1>1
  <2> QED
    BY <1>2, <2>2, <2>3, <2>4, Zenon DEF Orderly
<1>6. SocketsAreTheTasks'
  <2>1. \A d \in Clients : d # c => c2p(d)' = c2p(d) /\ p2b(d)' = p2b(d)
    BY <1>3 DEF c2p, p2b
  <2>2. \A s : Held(s)' <=> Held(s)
    BY <1>1, <2>1, Zenon DEF Held
  <2>3. \A s : s \in sockets <=> Held(s)
    BY <1>0, SocketsOneByOne
  <2>4. (SocketsAreTheTasks <=> \A s : s \in sockets <=> Held(s))'
    BY SocketsOneByOne, PTL
  <2> QED
    BY <1>1, <2>2, <2>3, <2>4
<1> QED
  BY <1>4, <1>5, <1>6 DEF IInv

(* Which sockets of c are open. *)
LEMMA SocketsOf ==
  ASSUME SocketsAreTheTasks, NEW c \in Clients
  PROVE  /\ c2p(c) \in sockets <=> task[c] # "none"
         /\ p2b(c) \in sockets <=> task[c] = "running"
         /\ c2p(c) # p2b(c)
<1>1. \A s : s \in sockets <=> Held(s)
  BY SocketsOneByOne
<1>2. \A d \in Clients : /\ c2p(c) # p2b(d) /\ (c2p(c) = c2p(d) => c = d)
                         /\ p2b(c) # c2p(d) /\ (p2b(c) = p2b(d) => c = d)
  BY SocketsDiffer, Zenon
<1> QED
  BY <1>1, <1>2, Zenon DEF Held

(* connect() succeeds. *)
LEMMA TaskConnectIInv ==
  ASSUME IInv, NEW c \in Clients, TaskConnect(c)
  PROVE  IInv'
<1>0. TypeOK /\ SocketsAreTheTasks
  BY DEF IInv
<1>1. /\ task[c] = "connecting" /\ task' = [task EXCEPT ![c] = "running"]
      /\ sockets' = sockets \cup {p2b(c)}
      /\ UNCHANGED <<limit, grants, main, why, backlog, aborted, visits>>
  BY DEF TaskConnect
<1>2. task'[c] = "running" /\ \A d \in Clients : d # c => task'[d] = task[d]
  BY <1>0, <1>1, ServerTypeFacts
<1>3. c2p(c) \in sockets
  BY <1>0, <1>1, SocketsOf
<1>4. SocketsAreTheTasks'
  <2>1. c2p(c) \in sockets' /\ p2b(c) \in sockets'
    BY <1>1, <1>3, Zenon
  <2>2. \A s : s # c2p(c) /\ s # p2b(c) => (s \in sockets' <=> s \in sockets)
    BY <1>1, Zenon
  <2> QED
    BY <1>0, <1>1, <1>2, <2>1, <2>2, SocketsChange
<1> QED
  BY <1>1, <1>4, TaskIInv

(* A task ends, with all its sockets. *)
LEMMA TaskEndIInv ==
  ASSUME IInv, NEW c \in Clients, TaskConnectFail(c) \/ TaskEnd(c)
  PROVE  IInv'
<1>0. TypeOK /\ SocketsAreTheTasks
  BY DEF IInv
<1>1. /\ task[c] # "none" /\ task' = [task EXCEPT ![c] = "none"]
      /\ UNCHANGED <<limit, grants, main, why, backlog, aborted, visits>>
  BY DEF TaskConnectFail, TaskEnd
<1>2. task'[c] = "none" /\ \A d \in Clients : d # c => task'[d] = task[d]
  BY <1>0, <1>1, ServerTypeFacts
<1>3. sockets' = sockets \ {c2p(c), p2b(c)}
  <2>1. CASE TaskConnectFail(c)
    <3>1. task[c] = "connecting" /\ sockets' = sockets \ {c2p(c)}
      BY <2>1 DEF TaskConnectFail
    <3>2. p2b(c) \notin sockets
      BY <1>0, <3>1, SocketsOf
    <3> QED
      BY <3>1, <3>2, Zenon
  <2>2. CASE TaskEnd(c)
    BY <2>2 DEF TaskEnd
  <2> QED
    BY <2>1, <2>2
<1>4. SocketsAreTheTasks'
  <2>1. c2p(c) \notin sockets' /\ p2b(c) \notin sockets'
    BY <1>3, Zenon
  <2>2. \A s : s # c2p(c) /\ s # p2b(c) => (s \in sockets' <=> s \in sockets)
    BY <1>3, Zenon
  <2> QED
    BY <1>0, <1>1, <1>2, <2>1, <2>2, SocketsChange
<1> QED
  BY <1>1, <1>3, <1>4, TaskIInv

(* Every step keeps the invariant. *)
LEMMA StepIInv == IInv /\ [Next]_vars => IInv'
<1> SUFFICES ASSUME IInv, [Next]_vars PROVE IInv'
  OBVIOUS
<1>0. TypeOK /\ Orderly /\ SocketsAreTheTasks
  BY DEF IInv
<1>1. CASE UNCHANGED vars
  BY <1>1, Zenon DEF vars, IInv, TypeOK, Orderly, Queued, SocketsAreTheTasks, c2p, p2b
<1>2. CASE Bind
  <2>1. /\ main' = "listening"
        /\ UNCHANGED <<limit, grants, why, backlog, aborted, task, sockets, visits>>
    BY <1>2 DEF Bind
  <2>2. TypeOK'
    BY <1>0, <2>1, Zenon DEF TypeOK
  <2>3. Orderly'
    BY <1>0, <2>1 DEF Orderly, Queued
  <2>4. SocketsAreTheTasks'
    BY <1>0, <2>1, Zenon DEF SocketsAreTheTasks, c2p, p2b
  <2> QED
    BY <2>2, <2>3, <2>4 DEF IInv
<1>3. CASE BindFail \/ AcceptNoDescriptor \/ AcceptAborted
  BY <1>3, DieIInv DEF BindFail, AcceptNoDescriptor, AcceptAborted
<1>4. CASE Accept
  BY <1>4, AcceptIInv
<1>5. ASSUME NEW c \in Clients, ClientAbort(c)
      PROVE  IInv'
  <2>1. /\ aborted' = aborted \cup {c}
        /\ UNCHANGED <<limit, grants, main, why, backlog, task, sockets, visits>>
    BY <1>5 DEF ClientAbort
  <2>2. TypeOK'
    BY <1>0, <2>1 DEF TypeOK
  <2>3. Orderly'
    BY <1>0, <2>1 DEF Orderly, Queued
  <2>4. SocketsAreTheTasks'
    BY <1>0, <2>1, Zenon DEF SocketsAreTheTasks, c2p, p2b
  <2> QED
    BY <2>2, <2>3, <2>4 DEF IInv
<1>6. ASSUME NEW c \in Clients,
             TaskConnect(c) \/ TaskConnectFail(c) \/ TaskEnd(c) \/ ClientConnect(c)
      PROVE  IInv'
  BY <1>6, TaskConnectIInv, TaskEndIInv, ClientConnectIInv
<1>7. ASSUME NEW c \in Clients, TaskAbort(c)
      PROVE  IInv'
  BY <1>7, DieIInv DEF TaskAbort
<1> QED
  BY <1>1, <1>2, <1>3, <1>4, <1>5, <1>6, <1>7 DEF Next, Loop

(* The types, the order of the backlog and the sockets, always. *)
LEMMA AlwaysIInv == Spec => []IInv
  BY InitIInv, StepIInv, PTL DEF Spec

-----------------------------------------------------------------------------
(* How many sockets there can be *)

(* Every open socket is one of the two that a served client can have. *)
LEMMA TwoSocketsEach ==
  ASSUME IInv
  PROVE  /\ Cardinality(sockets) <= 2 * Cardinality(Served)
         /\ Cardinality(sockets) \in Nat
         /\ IsFiniteSet(Served) /\ Cardinality(Served) \in Nat
<1> DEFINE Two == {"c2p", "p2b"}
           f == [s \in sockets |-> <<s.end, s.client>>]
<1>0. TypeOK /\ Orderly /\ SocketsAreTheTasks
  BY DEF IInv
<1>2. ASSUME NEW s \in sockets
      PROVE  /\ s.end \in Two /\ s.client \in Served
             /\ s = [end |-> s.end, client |-> s.client, visit |-> visits[s.client]]
  <2>1. PICK d \in Clients : \/ task[d] # "none" /\ s = c2p(d)
                             \/ task[d] = "running" /\ s = p2b(d)
    BY <1>0, SocketsOneByOne, Zenon DEF Held
  <2>2. d \in Served
    BY <2>1 DEF Served
  <2> QED
    BY <2>1, <2>2 DEF c2p, p2b
<1>3. IsFiniteSet(Served) /\ Cardinality(Served) \in Nat
  <2>1. Served \subseteq Clients
    BY DEF Served
  <2> QED
    BY <2>1, ServerAssumption, FS_Subset, FS_CardinalityType
<1> HIDE DEF Two
<1>4. f \in Injection(sockets, Two \X Served)
  <2>1. f \in [sockets -> Two \X Served]
    BY <1>2
  <2>2. ASSUME NEW s \in sockets, NEW t \in sockets, f[s] = f[t]
        PROVE  s = t
    <3>1. s.end = t.end /\ s.client = t.client
      BY <2>2
    <3> QED
      BY <1>2, <3>1, Zenon
  <2>3. DOMAIN f = sockets
    OBVIOUS
  <2> HIDE DEF f
  <2> QED
    BY <2>1, <2>2, <2>3, Zenon DEF Injection, IsInjective
<1>6. IsFiniteSet(Two) /\ Cardinality(Two) = 2
  <2>1. IsFiniteSet({"c2p"}) /\ Cardinality({"c2p"}) = 1 /\ "p2b" \notin {"c2p"}
    BY FS_Singleton
  <2>2. Two = {"c2p"} \cup {"p2b"}
    BY DEF Two
  <2> QED
    BY <2>1, <2>2, FS_AddElement
<1>7. IsFiniteSet(Two \X Served) /\ Cardinality(Two \X Served) = 2 * Cardinality(Served)
  BY <1>3, <1>6, FS_Product
<1>8. IsFiniteSet(sockets) /\ Cardinality(sockets) <= Cardinality(Two \X Served)
  BY <1>4, <1>7, FS_Injection, Zenon
<1>9. Cardinality(sockets) \in Nat
  BY <1>8, FS_CardinalityType
<1> QED
  BY <1>3, <1>7, <1>8, <1>9

(* When somebody is in the backlog, the others have fewer than two sockets for each client. *)
LEMMA OneClientWaits ==
  ASSUME IInv, backlog # <<>>
  PROVE  /\ Cardinality(sockets) < 2 * Cardinality(Clients)
         /\ Cardinality(sockets) \in Nat
<1> DEFINE Others == Clients \ {Head(backlog)}
<1>1. Head(backlog) \in Clients /\ task[Head(backlog)] = "none"
  BY BacklogHead DEF IInv
<1>2. Served \subseteq Others
  BY <1>1 DEF Served
<1>3. IsFiniteSet(Others) /\ Cardinality(Others) = Cardinality(Clients) - 1
  BY <1>1, FS_RemoveElement, ServerAssumption
<1>4. Cardinality(Served) <= Cardinality(Others)
  BY <1>2, <1>3, FS_Subset
<1>5. Cardinality(Clients) \in Nat
  BY FS_CardinalityType, ServerAssumption
<1> HIDE DEF Others
<1> QED
  BY <1>3, <1>4, <1>5, TwoSocketsEach

-----------------------------------------------------------------------------
(* The theorems *)

(* The variables of the accept loop and of its tasks keep their types. *)
THEOREM ServerTypes == Spec => []TypeOK
  BY AlwaysIInv, PTL DEF IInv

(* However a task of handle_conn ends, it takes its sockets with it, and nobody else's. *)
THEOREM SocketsEndWithTheirTask == Spec => []SocketsAreTheTasks
  BY AlwaysIInv, PTL DEF IInv

(* accept().unwrap() does not meet a lack of descriptors when there are two for every
   client: a client that waits has none. *)
THEOREM DescriptorsSuffice == Spec => []EnoughDescriptors
<1>1. Init => EnoughDescriptors
  BY DEF Init, EnoughDescriptors
<1>2. IInv /\ EnoughDescriptors /\ [Next]_vars => EnoughDescriptors'
  <2> SUFFICES ASSUME IInv, EnoughDescriptors, [Next]_vars
               PROVE  EnoughDescriptors'
    OBVIOUS
  <2>1. limit' = limit
    BY DEF Next, vars, Loop, Bind, BindFail, Die, Accept, AcceptNoDescriptor, AcceptAborted,
           TaskConnect, TaskConnectFail, TaskEnd, TaskAbort, ClientConnect, ClientAbort
  <2>2. CASE AcceptNoDescriptor
    <3>1. /\ Cardinality(sockets) >= limit /\ Cardinality(sockets) < 2 * Cardinality(Clients)
          /\ Cardinality(sockets) \in Nat
      BY <2>2, OneClientWaits DEF AcceptNoDescriptor
    <3>2. limit \in Nat
      BY ServerAssumption DEF IInv, TypeOK
    <3>3. Cardinality(Clients) \in Nat
      BY ServerAssumption, FS_CardinalityType
    <3> QED
      BY <2>1, <3>1, <3>2, <3>3 DEF EnoughDescriptors
  <2>3. CASE BindFail \/ AcceptAborted \/ \E c \in Clients : TaskAbort(c)
    BY <2>3 DEF BindFail, AcceptAborted, TaskAbort, Die, EnoughDescriptors
  <2>4. CASE /\ ~AcceptNoDescriptor /\ ~BindFail /\ ~AcceptAborted
             /\ \A c \in Clients : ~TaskAbort(c)
    <3>1. why' = why
      BY <2>4 DEF Next, vars, Loop, Bind, Accept, TaskConnect, TaskConnectFail, TaskEnd,
                  ClientConnect, ClientAbort
    <3> QED
      BY <2>1, <3>1 DEF EnoughDescriptors
  <2> QED
    BY <2>2, <2>3, <2>4
<1> QED
  BY <1>1, <1>2, AlwaysIInv, PTL DEF Spec

(* While allocations are granted, nobody has given up in the backlog and descriptors are left,
   no end of one connection, by an error, a panic or a refused connect(), ends another or
   turns a waiting client away. *)
THEOREM ConnectionsAreIndependent == Spec => OthersUndisturbed
<1> DEFINE A == grants /\ aborted = {} /\ 2 * Cardinality(Served) < limit
                => \A c, d \in Clients :
                     c # d /\ Ends(c) => ~Ends(d) /\ (Queued(d) => Queued(d)')
<1>1. IInv /\ [Next]_vars => [A]_vars
  <2> SUFFICES ASSUME IInv, Next,
                      grants, aborted = {}, 2 * Cardinality(Served) < limit,
                      NEW c \in Clients, NEW d \in Clients, c # d, Ends(c)
               PROVE  ~Ends(d) /\ (Queued(d) => Queued(d)')
    BY Zenon
  <2>0. TypeOK /\ Orderly
    BY DEF IInv
  <2>1. \A e \in Clients : Ends(e) <=> task[e] # "none" /\ task'[e] = "none"
    BY Zenon DEF Ends, Served
  <2>2. ~Bind /\ ~BindFail
    BY <2>0, <2>1 DEF Bind, BindFail, Orderly
  <2>3. ~AcceptNoDescriptor /\ ~AcceptAborted /\ \A e \in Clients : ~TaskAbort(e)
    <3>1. limit \in Nat
      BY <2>0, ServerTypeFacts, ServerAssumption
    <3>2. Cardinality(sockets) < limit /\ Cardinality(sockets) \in Nat
      BY <3>1, TwoSocketsEach
    <3> QED
      BY <3>1, <3>2 DEF AcceptNoDescriptor, AcceptAborted, TaskAbort
  <2>4. ~Accept
    <3> SUFFICES ASSUME Accept PROVE FALSE
      OBVIOUS
    <3>1. Head(backlog) \in Clients /\ task[Head(backlog)] = "none"
      BY <2>0, BacklogHead DEF Accept
    <3> QED
      BY <2>0, <2>1, <3>1, ServerTypeFacts DEF Accept
  <2>5. ASSUME NEW e \in Clients, TaskConnect(e) \/ TaskConnectFail(e) \/ TaskEnd(e)
        PROVE  ~Ends(d) /\ (Queued(d) => Queued(d)')
    <3>1. UNCHANGED backlog /\ \A x \in Clients : x # e => task'[x] = task[x]
      BY <2>0, <2>5, ServerTypeFacts DEF TaskConnect, TaskConnectFail, TaskEnd
    <3>2. Queued(d)' <=> Queued(d)
      BY <3>1 DEF Queued
    <3> QED
      BY <2>1, <3>1, <3>2, Zenon
  <2>6. ASSUME NEW e \in Clients, ClientConnect(e) \/ ClientAbort(e)
        PROVE  FALSE
    BY <2>1, <2>6 DEF ClientConnect, ClientAbort
  <2> QED
    BY <2>2, <2>3, <2>4, <2>5, <2>6 DEF Next, Loop
<1> HIDE DEF A
<1>2. Spec => [][A]_vars
  BY <1>1, AlwaysIInv, PTL DEF Spec
<1> QED
  BY <1>2 DEF OthersUndisturbed, A

=============================================================================

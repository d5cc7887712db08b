------------------------------- MODULE Server -------------------------------
(***************************************************************************)
(* The process: main() of src/src/main.rs and ZkServer::start of           *)
(* src/src/server.rs. The accept loop is the main task; every connection   *)
(* is a task of its own (ProxyConn), which holds a socket to its client    *)
(* and, once connected, one to the backend. A panic in a connection's task *)
(* ends that task; a panic in the main task ends the process, and so does  *)
(* an allocation that is refused, in whatever task.                        *)
(***************************************************************************)
EXTENDS Naturals, Sequences, FiniteSets, SequencesExt

CONSTANTS
  Clients,
  Limits,         \* limits of open descriptors it may run under, less those of its own
  Grants,         \* whether its machine may be, or not be, one that grants every allocation
  MaxVisits       \* bound: connections a client makes

ASSUME ServerAssumption ==
  /\ IsFiniteSet(Clients)
  /\ Limits \subseteq Nat /\ Grants \subseteq BOOLEAN /\ MaxVisits \in Nat

VARIABLES
  limit,          \* the limit it does run under
  grants,         \* whether the allocator grants what a decoder asks for: 2^31-1 elements
  main,           \* the main task: "starting", "listening" or "gone"
  why,            \* what ended it: "", "bind", "descriptors", "aborted" or "memory"
  backlog,        \* connections the kernel has set up and accept() has not returned
  aborted,        \* the clients that have given up while in the backlog
  task,           \* c |-> "none", or where the task for c is: "connecting", "running"
  sockets,        \* the open sockets: [end, client, visit]
  visits          \* c |-> the connections that c has made

vars == <<limit, grants, main, why, backlog, aborted, task, sockets, visits>>

\* The sockets of the connection that c makes or has made last
c2p(c) == [end |-> "c2p", client |-> c, visit |-> visits[c]]
p2b(c) == [end |-> "p2b", client |-> c, visit |-> visits[c]]

Init ==
  /\ limit \in Limits /\ grants \in Grants
  /\ main = "starting" /\ why = ""
  /\ backlog = <<>> /\ aborted = {}
  /\ task = [c \in Clients |-> "none"]
  /\ sockets = {}
  /\ visits = [c \in Clients |-> 0]

-----------------------------------------------------------------------------
(* main() and start() *)

Bind ==
  /\ main = "starting"
  /\ main' = "listening"
  /\ UNCHANGED <<limit, grants, why, backlog, aborted, task, sockets, visits>>

\* The process ends, with every task and its sockets: the main task has panicked, main()
\* returns and the runtime drops the others; or it aborts, and the kernel closes the sockets.
Die(reason) ==
  /\ main' = "gone" /\ why' = reason
  /\ backlog' = <<>> /\ aborted' = {}
  /\ task' = [c \in Clients |-> "none"]
  /\ sockets' = {}
  /\ UNCHANGED <<limit, grants, visits>>

\* bind(...).await.unwrap() on an address in use
BindFail == main = "starting" /\ Die("bind")

\* Faulty form: the loop handles the connection itself, without a task of its own
Accept_Inline ==
  /\ main = "listening" /\ backlog # <<>>
  /\ \A c \in Clients : task[c] = "none"
  /\ Cardinality(sockets) < limit
  /\ task' = [task EXCEPT ![Head(backlog)] = "connecting"]
  /\ sockets' = sockets \cup {c2p(Head(backlog))}
  /\ backlog' = Tail(backlog)
  /\ aborted' = aborted \ {Head(backlog)}
  /\ UNCHANGED <<limit, grants, main, why, visits>>

\* accept() returns a socket, which goes to a new task. One whose client has given up may
\* be returned like any other.
Accept ==
  /\ main = "listening" /\ backlog # <<>>
  /\ Cardinality(sockets) < limit
  /\ task' = [task EXCEPT ![Head(backlog)] = "connecting"]
  /\ sockets' = sockets \cup {c2p(Head(backlog))}
  /\ backlog' = Tail(backlog)
  /\ aborted' = aborted \ {Head(backlog)}
  /\ UNCHANGED <<limit, grants, main, why, visits>>

\* accept() has no descriptor for the connection: unwrap()
AcceptNoDescriptor ==
  /\ main = "listening" /\ backlog # <<>>
  /\ Cardinality(sockets) >= limit
  /\ Die("descriptors")

\* accept() reports the connection that was aborted: unwrap()
AcceptAborted ==
  /\ main = "listening" /\ backlog # <<>>
  /\ Head(backlog) \in aborted
  /\ Die("aborted")

-----------------------------------------------------------------------------
(* The tasks *)

\* handle_conn(): TcpStream::connect() succeeds
TaskConnect(c) ==
  /\ task[c] = "connecting"
  /\ Cardinality(sockets) < limit
  /\ task' = [task EXCEPT ![c] = "running"]
  /\ sockets' = sockets \cup {p2b(c)}
  /\ UNCHANGED <<limit, grants, main, why, backlog, aborted, visits>>

\* Faulty form: the failure is passed on to the accept loop
TaskConnectFail_Ends(c) ==
  /\ task[c] = "connecting"
  /\ Die("backend")

\* The backend refuses, or there is no descriptor: unwrap() panics, and the task's socket is
\* dropped with it
TaskConnectFail(c) ==
  /\ task[c] = "connecting"
  /\ task' = [task EXCEPT ![c] = "none"]
  /\ sockets' = sockets \ {c2p(c)}
  /\ UNCHANGED <<limit, grants, main, why, backlog, aborted, visits>>

\* Faulty form: the socket to the backend is left open
TaskEnd_KeepsBackend(c) ==
  /\ task[c] = "running"
  /\ task' = [task EXCEPT ![c] = "none"]
  /\ sockets' = sockets \ {c2p(c)}
  /\ UNCHANGED <<limit, grants, main, why, backlog, aborted, visits>>

\* handle_conn() returns, or panics in a decoder: both sockets are dropped
TaskEnd(c) ==
  /\ task[c] = "running"
  /\ task' = [task EXCEPT ![c] = "none"]
  /\ sockets' = sockets \ {c2p(c), p2b(c)}
  /\ UNCHANGED <<limit, grants, main, why, backlog, aborted, visits>>

\* A decoder makes room for as many bytes or elements as a frame says before it has read
\* one of them; when the allocator refuses, that is no panic: the process aborts.
TaskAbort(c) ==
  /\ task[c] = "running" /\ ~grants
  /\ Die("memory")

-----------------------------------------------------------------------------
(* The clients *)

Queued(c) == c \in Range(backlog)

ClientConnect(c) ==
  /\ main = "listening"
  /\ ~Queued(c) /\ task[c] = "none"
  /\ visits[c] < MaxVisits
  /\ visits' = [visits EXCEPT ![c] = @ + 1]
  /\ backlog' = Append(backlog, c)
  /\ UNCHANGED <<limit, grants, main, why, aborted, task, sockets>>

ClientAbort(c) ==
  /\ Queued(c)
  /\ aborted' = aborted \cup {c}
  /\ UNCHANGED <<limit, grants, main, why, backlog, task, sockets, visits>>

Loop == Accept \/ AcceptNoDescriptor \/ AcceptAborted

Next ==
  \/ Bind \/ BindFail \/ Loop
  \/ \E c \in Clients :
       \/ TaskConnect(c) \/ TaskConnectFail(c) \/ TaskEnd(c) \/ TaskAbort(c)
       \/ ClientConnect(c) \/ ClientAbort(c)

Spec == Init /\ [][Next]_vars

\* The runtime polls the main task and the tasks that can go on; connect() returns. When a
\* connection ends is up to its client and the backend.
FairSpec ==
  /\ Spec
  /\ WF_vars(Loop)
  /\ \A c \in Clients : WF_vars(TaskConnect(c) \/ TaskConnectFail(c))

-----------------------------------------------------------------------------
(* Properties *)

TypeOK ==
  /\ limit \in Limits /\ grants \in Grants
  /\ main \in {"starting", "listening", "gone"}
  /\ why \in {"", "bind", "descriptors", "aborted", "memory"}
  /\ backlog \in Seq(Clients) /\ aborted \subseteq Clients
  /\ task \in [Clients -> {"none", "connecting", "running"}]
  /\ sockets \subseteq [end : {"c2p", "p2b"}, client : Clients, visit : 1 .. MaxVisits]
  /\ visits \in [Clients -> 0 .. MaxVisits]

(* The sockets that are open are those of the connections that are served: none outlives
   its task, however the task ended, and a client that comes back has none of its earlier
   connections. *)
SocketsAreTheTasks ==
  sockets = {c2p(c) : c \in {d \in Clients : task[d] # "none"}}
            \cup {p2b(c) : c \in {d \in Clients : task[d] = "running"}}

(* With two descriptors for every client the accept loop never runs out of them, however
   often the clients come back and their connections fail. *)
EnoughDescriptors ==
  2 * Cardinality(Clients) <= limit => why # "descriptors"

\* The connection of c is served, and ends in this step
Served == {c \in Clients : task[c] # "none"}
Ends(c) == c \in Served /\ c \notin Served'

(* One connection's end is nobody else's, as long as three things hold: every allocation is
   granted, no client has given up in the backlog, and of the descriptors two for each
   served client and one more are there. Then no step ends two connections, or one
   connection together with somebody's place in the backlog: not the return or the panic of
   a task, not a backend that refuses, and the accept loop goes on. Each of the three is
   needed, since each keeps away one of the ways in which the whole process ends. *)
OthersUndisturbed ==
  [][grants /\ aborted = {} /\ 2 * Cardinality(Served) < limit
     => \A c, d \in Clients :
          c # d /\ Ends(c) => ~Ends(d) /\ (Queued(d) => Queued(d)')]_vars

(* Whoever is in the backlog is served while others are, for as long as those stay, or
   sees the process end. *)
EveryoneIsAccepted ==
  \A c \in Clients : Queued(c) ~> task[c] # "none" \/ main = "gone"

=============================================================================

-------------------------------- MODULE Relay --------------------------------
(***************************************************************************)
(* What a connection through the proxy promises, without tasks, channels   *)
(* or buffers: the client's requests reach the backend in order, each in   *)
(* the form Passed gives it, nothing after the first one that is refused;  *)
(* the backend's bytes reach the client in order; and after the connection *)
(* is closed nothing more reaches either.                                  *)
(***************************************************************************)
EXTENDS Naturals, Sequences

CONSTANTS
  Requests,       \* what a client may send
  Bytes,          \* what a backend may send
  Passes(_),      \* the requests that are passed on ...
  Passed(_)       \* ... and what the backend gets for one

VARIABLES
  stage,          \* "opening", "open" or "closed"
  sent,           \* the requests the client has sent
  passed,         \* what the backend has been sent
  replied,        \* the bytes the backend has sent
  delivered       \* the bytes the client has been sent

vars == <<stage, sent, passed, replied, delivered>>

Init ==
  /\ stage = "opening"
  /\ sent = <<>>
  /\ passed = <<>>
  /\ replied = <<>>
  /\ delivered = <<>>

Open ==
  /\ stage = "opening"
  /\ stage' = "open"
  /\ UNCHANGED <<sent, passed, replied, delivered>>

Close ==
  /\ stage # "closed"
  /\ stage' = "closed"
  /\ UNCHANGED <<sent, passed, replied, delivered>>

Send(r) ==
  /\ sent' = Append(sent, r)
  /\ UNCHANGED <<stage, passed, replied, delivered>>

Reply(b) ==
  /\ stage = "open"
  /\ replied' = Append(replied, b)
  /\ UNCHANGED <<stage, sent, passed, delivered>>

\* The next request, which like all those before it is not refused
Pass ==
  /\ stage = "open"
  /\ Len(passed) < Len(sent)
  /\ \A i \in 1 .. Len(passed) + 1 : Passes(sent[i])
  /\ passed' = Append(passed, Passed(sent[Len(passed) + 1]))
  /\ UNCHANGED <<stage, sent, replied, delivered>>

\* Some of the bytes not delivered yet
Deliver(n) ==
  /\ stage = "open"
  /\ delivered' = delivered \o SubSeq(replied, Len(delivered) + 1, n)
  /\ UNCHANGED <<stage, sent, passed, replied>>

Next ==
  \/ Open \/ Close
  \/ \E r \in Requests : Send(r)
  \/ \E b \in Bytes : Reply(b)
  \/ Pass
  \/ \E n \in Len(delivered) + 1 .. Len(replied) : Deliver(n)

Spec == Init /\ [][Next]_vars

=============================================================================

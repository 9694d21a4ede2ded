-------------------------------- MODULE CnWire --------------------------------
(***************************************************************************)
(* What a client and a server of the connection oriented protocol          *)
(* (ncklib/transport/cn) share: one connection, a reliable byte stream in  *)
(* each direction that may break, and the packets of calls on it.          *)
(***************************************************************************)
EXTENDS CnCallSM, Integers, Sequences, FiniteSets

CONSTANTS
  NCalls,      \* calls the client makes on the association, one at a time
  MaybeCalls,  \* those made with rpc_c_call_maybe
  MaxIn,       \* bound: request fragments of each call
  MaxOut       \* bound: response fragments its manager sends before it returns

Calls == 1..NCalls

ASSUME WireAssumption ==
  /\ NCalls \in Nat /\ MaxIn \in [Calls -> Nat \ {0}] /\ MaxOut \in [Calls -> Nat]
  /\ MaybeCalls \subseteq Calls

VARIABLES
  up,    \* is the connection up?
  c2s,   \* packets on their way to the server
  s2c    \* packets on their way to the client

wireVars == <<up, c2s, s2c>>

\* The fields a property or a handler looks at; n numbers the fragments of a
\* request or of a response.
Packet(type, k, n, last, alert, alerts) ==
  [type |-> type, call |-> k, n |-> n, last |-> last, alert |-> alert, alerts |-> alerts]

Request(k, n, last, alert) == Packet("request", k, n, last, alert, 0)
RemoteAlert(k) == Packet("alert", k, 0, FALSE, TRUE, 0)
Orphaned(k) == Packet("orphaned", k, 0, TRUE, FALSE, 0)
Response(k, n, last, alert, alerts) == Packet("response", k, n, last, alert, alerts)
Fault(k, alert, alerts) == Packet("fault", k, 0, TRUE, alert, alerts)

\* rpc__cn_assoc_queue_dummy_frag: the association's own element, which tells a
\* waiter to look again.
Dummy == Packet("dummy", 0, 0, FALSE, FALSE, 0)

\* A receive queue as the loops around rpc__cn_assoc_receive_frag see it: they
\* skip that element, of which an association has one.
SkipDummy(msgs) ==
  IF msgs # <<>> /\ Head(msgs) = Dummy THEN Tail(msgs) ELSE msgs

\* receive_packet: one recvmsg may bring further packets, which stay in the
\* overflow buffer.  `ovf' counts those a receiver has; this is what it has after
\* the next packet of its stream.
ReadAhead(ovf, stream) == IF ovf > 0 THEN {ovf - 1} ELSE 0..(Len(stream) - 1)

Maybe(k) == k \in MaybeCalls

WireInit == up = TRUE /\ c2s = <<>> /\ s2c = <<>>
=============================================================================

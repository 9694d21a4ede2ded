-------------------------------- MODULE CnBind --------------------------------
(***************************************************************************)
(* What the two ends of the associations of one client with one server     *)
(* share (ncklib/transport/cn/cnassoc.c): connections, each a stream in    *)
(* both directions that may break, and the packets that set associations   *)
(* up, make calls on them and ask for their end.  A group is known by the  *)
(* connection whose association was its first.                             *)
(***************************************************************************)
EXTENDS Integers, Sequences, FiniteSets

CONSTANTS
  Threads,      \* client threads
  Patient,      \* those whose binding has rpc_c_binding_infinite_timeout
  MaxConns,     \* bound: connections the client tries to make
  MaxCalls,     \* bound: calls it makes
  MaxFaults,    \* bound: connections that break or cannot be made, and callers
                \* that are cancelled and do not wait any more
  MaxShutdowns  \* RPC_C_CN_ASSOC_SERVER_MAX_SHUTDOWN_REQ_COUNT, 2 in the code

Conns == 1..MaxConns
Calls == 1..MaxCalls
NoConn == 0

ASSUME BindAssumption ==
  /\ Patient \subseteq Threads
  /\ {MaxConns, MaxCalls, MaxFaults, MaxShutdowns} \subseteq Nat

VARIABLES
  net,    \* connections: is it up, and what is on its way to each end
  kind,   \* what each call is for: it opens or closes a context handle, or not
  breaks  \* how many connections have failed

netVars == <<net, kind, breaks>>

Message(type, group, call) == [type |-> type, group |-> group, call |-> call]
Bind(g) == Message("bind", g, 0)
BindAck(g) == Message("ack", g, 0)
BindNak == Message("nak", 0, 0)
Shutdown == Message("shutdown", 0, 0)
Request(c) == Message("request", 0, c)
Orphaned(c) == Message("orphaned", 0, c)
Response(c) == Message("response", 0, c)

\* What is sent to an end that is gone is lost; sendmsg need not say so.
ToServer(n, a, p) == IF n[a].up THEN [n EXCEPT ![a].c2s = Append(@, p)] ELSE n
ToClient(n, a, p) == IF n[a].up THEN [n EXCEPT ![a].s2c = Append(@, p)] ELSE n

NetInit ==
  /\ net = [a \in Conns |-> [up |-> FALSE, c2s |-> <<>>, s2c |-> <<>>]]
  /\ kind = [c \in Calls |-> "none"]
  /\ breaks = 0

-----------------------------------------------------------------------------
(* Groups, on both sides: the associations in the order they joined *)

Members(list) == {list[i] : i \in DOMAIN list}

\* An association is unlinked at the place where it stands.
Unlink(list, i) == [k \in 1..(Len(list) - 1) |-> IF k < i THEN list[k] ELSE list[k + 1]]
Without(list, a) ==
  IF a \in Members(list) THEN Unlink(list, CHOOSE i \in DOMAIN list : list[i] = a) ELSE list

\* rpc__cn_assoc_reclaim ends or asks for the end of one association of a group
\* that was idle at the tick before too (RPC_C_CN_ASSOC_SCANNED); since ticks may
\* come at any time, it is any that is idle.
Idle(list, acb) == {a \in Members(list) : acb[a].users = 0}

\* SHUTDOWN_ALLOWED_PRED, and which groups are scanned: an association of a group
\* with context handles stays unless there is another one.
MayShrink(g) == g.refs = 0 \/ Len(g.list) > 1
=============================================================================

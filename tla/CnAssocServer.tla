---------------------------- MODULE CnAssocServer ----------------------------
(***************************************************************************)
(* The server's end of associations and association groups: the server     *)
(* state machines (cnsassm.c, cnsasgsm.c), the calls as far as groups      *)
(* count them (rpc__cn_assoc_push_call, rpc__cn_assoc_pop_call), the       *)
(* monitoring of clients that hold context handles (rpc__cn_network_mon)   *)
(* and their rundown when a client is gone.  A group is created by the     *)
(* first association of a client and is called after its connection.       *)
(***************************************************************************)
EXTENDS CnBind

VARIABLES
  srv,  \* acb: the associations; grp: the groups
  ex    \* the call executors

serverVars == <<srv, ex>>

\* life, ref, users, ok, reqs, rx and cancel as for the client.
NoAcb == [life |-> "new", st |-> "CLOSED", ref |-> 0, users |-> 0, ok |-> TRUE,
          grp |-> 0, reqs |-> 0, rx |-> "idle", cancel |-> FALSE]

\* list: the associations, calls: grp_callcnt, refs: grp_refcnt;
\* aborted is a history: the timer has ended an association of it by itself.
NewGroup == [st |-> "NEW", list |-> <<>>, calls |-> 0, refs |-> 0, aborted |-> FALSE]

\* grp is a history: the group that counts the call.
NoCall == [pc |-> "none", a |-> 0, grp |-> 0, orphan |-> FALSE]

ServerInit ==
  /\ srv = [acb |-> [a \in Conns |-> NoAcb], grp |-> [a \in Conns |-> NewGroup]]
  /\ ex = [c \in Calls |-> NoCall]

-----------------------------------------------------------------------------
(* Groups *)

\* Mutant: the handles are run down although calls still use them.
RundownAtOnce(s, g) == s.grp[g].st = "CALL_WAIT"

\* When grp_callcnt of a group without associations is zero (NO_CALLS_IND)
NoCalls(s, g) == s.grp[g].st = "CALL_WAIT" /\ s.grp[g].calls = 0

\* rundown_handles_action_rtn
Rundown(s, a, g) ==
  IF ~NoCalls(s, g) THEN s
  ELSE [s EXCEPT !.acb[a].grp = 0,
                 !.grp[g] = [@ EXCEPT !.st = "CLOSED", !.refs = 0]]

\* rpc__cn_assoc_grp_rem_assoc (decr_assoc_count_action_rtn): only the last
\* association of the group keeps the group's identifier.
RemFromServerGroup(s, a) ==
  LET g == s.acb[a].grp
      rest == Without(s.grp[g].list, a)
  IN  CASE g = 0 -> s
        [] g # 0 /\ rest = <<>> ->
             Rundown([s EXCEPT !.grp[g] = [@ EXCEPT !.list = <<>>, !.st = "CALL_WAIT"]], a, g)
        [] OTHER -> [s EXCEPT !.grp[g].list = rest, !.acb[a].grp = 0]

MarkServer(s, a) == [s EXCEPT !.acb[a].st = "CLOSED", !.acb[a].ok = FALSE]

DeallocServerAcb(s, a) ==
  IF s.acb[a].ref > 1 THEN [s EXCEPT !.acb[a].ref = @ - 1]
  ELSE [s EXCEPT !.acb[a] = [NoAcb EXCEPT !.life = "freed"]]

-----------------------------------------------------------------------------
(* The receiver of a connection *)

\* rpc__cn_assoc_listen
Accepts(a) ==
  /\ srv.acb[a].life = "new" /\ net[a].up
  /\ srv' = [srv EXCEPT !.acb[a] = [NoAcb EXCEPT !.life = "live", !.ref = 1, !.rx = "recv"]]
  /\ UNCHANGED <<ex, net, kind, breaks>>

Joins(s, g) == g # 0 /\ s.grp[g].st = "ACTIVE"

\* Mutant: the group of an association is always a new one.
AddToNew(s, a, g) ==
  [s EXCEPT !.acb[a] = [@ EXCEPT !.st = "OPEN", !.grp = a],
            !.grp[a] = [s.grp[a] EXCEPT !.st = "ACTIVE", !.list = Append(@, a)]]

\* accept_add_action_rtn
AddTo(s, a, g) ==
  [s EXCEPT !.acb[a] = [@ EXCEPT !.st = "OPEN", !.grp = g],
            !.grp[g] = [s.grp[g] EXCEPT !.st = "ACTIVE", !.list = Append(@, a)]]

\* do_assoc_req_action_rtn with accept_add_action_rtn or reject_assoc_action_rtn:
\* an association joins the group it names, or has a new one.
BindInd(a, g) ==
  \/ /\ Joins(srv, g) /\ srv' = AddTo(srv, a, g)
     /\ net' = ToClient([net EXCEPT ![a].c2s = Tail(@)], a, BindAck(g))
  \/ /\ g = 0 /\ srv' = AddTo(srv, a, a)
     /\ net' = ToClient([net EXCEPT ![a].c2s = Tail(@)], a, BindAck(a))
  \/ /\ g # 0 /\ ~Joins(srv, g) /\ UNCHANGED srv
     /\ net' = ToClient([net EXCEPT ![a].c2s = Tail(@)], a, BindNak)

\* rpc__cn_assoc_alloc and rpc__cn_assoc_push_call
RequestInd(a, c) ==
  /\ srv' = [srv EXCEPT !.acb[a] = [srv.acb[a] EXCEPT !.ref = @ + 1, !.users = @ + 1],
                        !.grp[srv.acb[a].grp].calls = @ + 1]
  /\ ex' = [ex EXCEPT ![c] = [NoCall EXCEPT !.pc = "run", !.a = a, !.grp = srv.acb[a].grp]]

ServerTakes(a) ==
  /\ srv.acb[a].rx = "recv" /\ srv.acb[a].ok /\ ~srv.acb[a].cancel /\ net[a].c2s # <<>>
  /\ LET p == Head(net[a].c2s) IN
       \/ /\ p.type = "bind" /\ BindInd(a, p.group) /\ UNCHANGED ex
       \/ /\ p.type = "request" /\ srv.acb[a].st = "OPEN" /\ RequestInd(a, p.call)
          /\ net' = [net EXCEPT ![a].c2s = Tail(@)]
       \/ /\ p.type = "orphaned"
          /\ ex' = [ex EXCEPT ![p.call].orphan = ex[p.call].pc = "run"]
          /\ net' = [net EXCEPT ![a].c2s = Tail(@)] /\ UNCHANGED srv
  /\ UNCHANGED <<kind, breaks>>

\* NO_CONN_IND (rem_mark_cancel_action_rtn: executors are cancelled, and come to
\* their end in their own time), or a cancel; then the connection is closed.
ServerEnds(a) ==
  LET b == srv.acb[a]
      s == IF b.cancel \/ b.st # "OPEN" THEN srv
           ELSE MarkServer(RemFromServerGroup(srv, a), a)
  IN
  /\ b.rx = "recv" /\ (b.cancel \/ ~b.ok \/ ~net[a].up)
  /\ net' = [net EXCEPT ![a] = [@ EXCEPT !.up = FALSE, !.c2s = <<>>]]
  /\ srv' = DeallocServerAcb([s EXCEPT !.acb[a] = [@ EXCEPT !.rx = "done",
                                                            !.cancel = FALSE]], a)
  /\ UNCHANGED <<ex, kind, breaks>>

-----------------------------------------------------------------------------
(* Call executors *)

GroupOf(c) == srv.acb[ex[c].a].grp

\* Mutant: a handle that is given out is not counted.
MonForgets(s, g) == s

Mon(s, g) == [s EXCEPT !.grp[g].refs = @ + 1]

\* The manager makes or destroys a context handle (rpc__cn_network_mon and
\* stop_mon, which find active groups only) and the response is sent.
Responds(c) ==
  LET g == GroupOf(c)
      found == g # 0 /\ srv.grp[g].st = "ACTIVE"
  IN
  /\ ex[c].pc = "run"
  /\ srv' = CASE found /\ kind[c] = "open" -> Mon(srv, g)
              [] found /\ kind[c] = "close" /\ srv.grp[g].refs > 0 ->
                   [srv EXCEPT !.grp[g].refs = @ - 1]
              [] OTHER -> srv
  /\ net' = IF ex[c].orphan \/ ~srv.acb[ex[c].a].ok THEN net
            ELSE ToClient(net, ex[c].a, Response(c))
  /\ ex' = [ex EXCEPT ![c] = [@ EXCEPT !.pc = "sent", !.orphan = FALSE]]
  /\ UNCHANGED <<kind, breaks>>

\* Mutant: nobody looks if it was the group's last call.
CountOutOnly(s, a, g) == [s EXCEPT !.grp[g].calls = @ - 1]

\* rpc__cn_assoc_pop_call, for the call's group
CountOut(s, a, g) == Rundown([s EXCEPT !.grp[g].calls = @ - 1], a, g)

\* rpc__cn_call_end: rpc__cn_assoc_pop_call counts the call out of the group its
\* association is in, and rpc__cn_assoc_dealloc gives the association up.
ExecutorEnds(c) ==
  LET a == ex[c].a
      g == GroupOf(c)
      s == IF g = 0 THEN srv ELSE CountOut(srv, a, g)
  IN
  /\ ex[c].pc = "sent"
  /\ srv' = DeallocServerAcb(
              [s EXCEPT !.acb[a] = [s.acb[a] EXCEPT !.ok = TRUE,
                 !.users = @ - (IF s.acb[a].st = "OPEN" THEN 1 ELSE 0)]], a)
  /\ ex' = [ex EXCEPT ![c].pc = "ended"]
  /\ UNCHANGED <<net, kind, breaks>>

-----------------------------------------------------------------------------
\* rpc__cn_assoc_timer_reclaim over a group of the server: the client is asked for
\* the end of the association (send_shutdown_req_action_rtn) and after
\* MaxShutdowns + 1 times without success it is aborted.
ServerReclaims(g) ==
  /\ srv.grp[g].st = "ACTIVE" /\ MayShrink(srv.grp[g])
  /\ \E a \in Idle(srv.grp[g].list, srv.acb) :
       \/ /\ srv.acb[a].reqs <= MaxShutdowns
          /\ srv' = [srv EXCEPT !.acb[a].reqs = @ + 1]
          /\ net' = ToClient(net, a, Shutdown)
       \/ /\ srv.acb[a].reqs > MaxShutdowns
          /\ srv' = [MarkServer(RemFromServerGroup(srv, a), a)
                       EXCEPT !.acb[a].cancel = TRUE, !.grp[g].aborted = TRUE]
          /\ UNCHANGED net
  /\ UNCHANGED <<ex, kind, breaks>>

ServerReceiver(a) == Accepts(a) \/ ServerTakes(a) \/ ServerEnds(a)
ExecutorStep(c) == Responds(c) \/ ExecutorEnds(c)
=============================================================================

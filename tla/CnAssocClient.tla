---------------------------- MODULE CnAssocClient ----------------------------
(***************************************************************************)
(* The client's end of associations and association groups:                *)
(* rpc__cn_assoc_request and what it calls (cnassoc.c), the client state   *)
(* machines (cncassm.c, cncasgsm.c), the receiver threads (cnrcvr.c), the  *)
(* timer that reclaims idle associations, and context handles              *)
(* (rpc__cn_network_maint).  Everything runs under RPC_CN_LOCK, which a    *)
(* thread gives up to connect, to wait and to sleep.                       *)
(***************************************************************************)
EXTENDS CnBind

VARIABLES
  cli,       \* acb: the associations; grp: the groups
  thr,       \* the calling threads
  creating,  \* grp_new_in_progress
  ctx,       \* the context handle of the run and its group, here and at the server
  abandons,  \* how many callers were cancelled
  calls      \* how many calls were begun

clientVars == <<cli, thr, creating, ctx, abandons, calls>>

\* cn is cn_ctlblk.cn_state, users is assoc_ref_count, ref assoc_acb_ref_count, ok
\* tells if assoc_status is rpc_s_ok, and syn if the syntax was negotiated; shut
\* is RPC_C_CN_ASSOC_SHUTDOWN_REQUESTED and reqs assoc_shutdown_req_count.  rx is
\* the receiver thread; cancel is a cancel that is posted to it.
NewAcb == [life |-> "new", st |-> "CLOSED", cn |-> "CLOSED", ref |-> 0, users |-> 0,
           owner |-> {}, ok |-> TRUE, syn |-> FALSE, grp |-> 0, shut |-> FALSE, reqs |-> 0, rx |-> "idle", cancel |-> FALSE]

NoGroup == [st |-> "CLOSED", remid |-> 0, list |-> <<>>, refs |-> 0]

IdleThread == [pc |-> "idle", a |-> 0, hold |-> FALSE, call |-> 0, grp |-> 0]

\* The handle has been closed, or is lost with a call.
NoHandle == [st |-> "gone", grp |-> 0, remid |-> 0]

ClientInit ==
  /\ cli = [acb |-> [a \in Conns |-> NewAcb], grp |-> [a \in Conns |-> NoGroup]]
  /\ thr = [t \in Threads |-> IdleThread]
  /\ creating = FALSE
  /\ ctx = [st |-> "none", grp |-> 0, remid |-> 0]
  /\ abandons = 0 /\ calls = 0

Active(c) == {g \in Conns : c.grp[g].st = "ACTIVE"}

-----------------------------------------------------------------------------
(* Action routines of the state machines *)

\* Mutant: the association stays on the list of its group.
RemLeavesList(c, a) == [c EXCEPT !.acb[a].grp = 0]

\* rpc__cn_assoc_grp_rem_assoc and the group's REM_ASSOC: the last association
\* takes the group with it.
RemFromGroup(c, a) ==
  LET g == c.acb[a].grp
      rest == Without(c.grp[g].list, a)
  IN  IF g = 0 THEN c
      ELSE [c EXCEPT !.acb[a].grp = 0,
                     !.grp[g] = IF rest = <<>> THEN NoGroup ELSE [@ EXCEPT !.list = rest]]

\* Mutant: the connection is left to the other end.
LeaveConnect(c, a) == c

\* abort_assoc_action_rtn: the receiver closes the connection when it sees the
\* cancel.
CloseConnect(c, a) == [c EXCEPT !.acb[a].cancel = @ \/ c.acb[a].cn = "OPEN"]

\* mark_assoc_action_rtn
MarkAssoc(c, a, ok) == [c EXCEPT !.acb[a].st = "CLOSED", !.acb[a].ok = ok]

RemMarkAbort(c, a, ok) == MarkAssoc(CloseConnect(RemFromGroup(c, a), a), a, ok)

\* An event in a state that has no entry for it: rpc__cn_sm_eval_event fails.
Illegal(c, a) == [c EXCEPT !.acb[a].st = "ILLEGAL"]

\* Mutant: the count is for the receivers alone.
DeallocAcbAtOnce(c, a) == [c EXCEPT !.acb[a] = [NewAcb EXCEPT !.life = "freed"]]

\* rpc__cn_assoc_acb_dealloc
DeallocAcb(c, a) ==
  IF c.acb[a].ref > 1 THEN [c EXCEPT !.acb[a].ref = @ - 1]
  ELSE [c EXCEPT !.acb[a] = [NewAcb EXCEPT !.life = "freed"]]

\* rpc__cn_assoc_alloc: ALLOCATE_REQ in the open and active states
Allocate(c, a, t) ==
  [c EXCEPT !.acb[a] = [c.acb[a] EXCEPT !.ref = @ + 1, !.users = @ + 1,
                                         !.st = "ACTIVE", !.owner = {t}]]

\* rpc__cn_assoc_pop_call: CALLS_DONE
PopCall(c, a, t) ==
  LET d == [c EXCEPT !.acb[a] = [c.acb[a] EXCEPT !.ok = TRUE,
                                                  !.owner = @ \ {t}]]
  IN  CASE c.acb[a].st \in {"ACTIVE", "CLOSED"} -> d
        [] c.acb[a].st = "CALL_DONE_WAIT" -> [d EXCEPT !.acb[a].st = "CLOSED"]
        [] OTHER -> Illegal(d, a)

\* rpc__cn_assoc_dealloc: DEALLOCATE_REQ (decr_active_action_rtn)
Deallocate(c, a) ==
  LET d == [c EXCEPT !.acb[a] = [@ EXCEPT !.ok = TRUE]]
      e == [d EXCEPT !.acb[a] = [d.acb[a] EXCEPT !.users = @ - 1, !.st = "OPEN"]]
      b == c.acb[a]
  IN  DeallocAcb(CASE b.st \in {"CLOSED", "CALL_DONE_WAIT"} -> d
                   [] b.st = "ACTIVE" /\ b.shut /\ MayShrink(c.grp[b.grp]) ->
                        RemMarkAbort(e, a, TRUE)
                   [] b.st = "ACTIVE" /\ ~(b.shut /\ MayShrink(c.grp[b.grp])) -> e
                   [] OTHER -> Illegal(d, a), a)

\* shutdown_allowed_action_rtn; the status stays ok for the client's own request.
ShutdownIfAllowed(c, a, ok) ==
  IF MayShrink(c.grp[c.acb[a].grp]) THEN RemMarkAbort(c, a, ok)
  ELSE [c EXCEPT !.acb[a].shut = TRUE]

-----------------------------------------------------------------------------
(* rpc__cn_assoc_request *)

\* A call begins.  At most one context handle is opened in a run.
Begin(t) ==
  /\ thr[t].pc = "idle" /\ calls < MaxCalls
  /\ calls' = calls + 1
  /\ \E k \in {"plain", "open", "close"} :
       /\ k = "open" => ctx.st = "none"
       /\ k = "close" => ctx.st = "held"
       /\ kind' = [kind EXCEPT ![calls + 1] = k]
       /\ ctx' = CASE k = "plain" -> ctx
                   [] OTHER -> [ctx EXCEPT !.st = "busy"]
  /\ thr' = [thr EXCEPT ![t] = [IdleThread EXCEPT !.pc = "request", !.call = calls + 1]]
  /\ UNCHANGED <<cli, creating, abandons, net, breaks>>

\* The head of the loop, also for one who waited for grp_new_wt.
AtRequest(t) == thr[t].pc = "request" \/ (thr[t].pc = "grpwait" /\ ~creating)

\* The places of the group's list where there is a free association
Free(g) == {i \in DOMAIN cli.grp[g].list : cli.acb[cli.grp[g].list[i]].users = 0}

\* The first free association of the group is taken (one of the interface that it
\* was bound for, so there is nothing to alter).
Reuse(t) ==
  /\ AtRequest(t)
  /\ \E g \in Active(cli) : \E i \in Free(g) :
       LET a == cli.grp[g].list[i] IN
       /\ \A j \in Free(g) : i <= j
       /\ cli' = Allocate(cli, a, t)
       /\ thr' = [thr EXCEPT ![t] = [@ EXCEPT !.pc = "call", !.a = a, !.grp = g]]
  /\ UNCHANGED <<creating, ctx, abandons, calls, net, kind, breaks>>

Unused == {a \in Conns : cli.acb[a].life = "new"}

\* Mutant: the association is anybody's until it is open.
OpenedUncounted(c, a, t) ==
  [c EXCEPT !.acb[a] = [NewAcb EXCEPT !.life = "live", !.cn = "CONNECTING", !.ref = 1,
                                      !.owner = {t}]]

\* rpc__cn_assoc_acb_alloc and rpc__cn_assoc_open up to the connect: the count of
\* users keeps others away until this thread has it.
Opened(c, a, t) ==
  [c EXCEPT !.acb[a] = [NewAcb EXCEPT !.life = "live", !.cn = "CONNECTING", !.ref = 1,
                                      !.users = 1, !.owner = {t}]]

Connecting(t, hold, remid) ==
  /\ \E a \in Unused :
       /\ \A b \in Unused : a <= b
       /\ cli' = Opened(cli, a, t)
       /\ thr' = [thr EXCEPT ![t] = [thr[t] EXCEPT !.pc = "connect", !.a = a,
                                                   !.grp = remid, !.hold = @ \/ hold]]
  /\ UNCHANGED <<ctx, abandons, calls, net, kind, breaks>>

\* Another association for a group whose associations are all in use
OpenSecond(t) ==
  /\ AtRequest(t)
  /\ \E g \in Active(cli) : Free(g) = {} /\ Connecting(t, FALSE, cli.grp[g].remid)
  /\ UNCHANGED creating

\* Mutant: nobody waits for the creator of a group.
NoCreator == TRUE

MayCreate == ~creating

\* The first association of a group: one thread at a time
OpenFirst(t) ==
  /\ AtRequest(t) /\ Active(cli) = {} /\ MayCreate
  /\ creating' = TRUE
  /\ Connecting(t, TRUE, 0)

WaitForCreator(t) ==
  /\ thr[t].pc = "request" /\ Active(cli) = {} /\ ~MayCreate
  /\ thr' = [thr EXCEPT ![t].pc = "grpwait"]
  /\ UNCHANGED <<cli, creating, ctx, abandons, calls, net, kind, breaks>>

\* Mutant: the flag is left set.
KeepCreating(t) == creating' = creating

\* What rpc__cn_assoc_request does when rpc__cn_assoc_open has returned: the flag
\* is cleared by a thread that set it in any pass through the loop.
StopCreating(t) == creating' = (creating /\ ~thr[t].hold)

Uncount(c, a) == [c EXCEPT !.acb[a] = [c.acb[a] EXCEPT !.ref = @ - 1, !.users = @ - 1]]

CallFails(t) ==
  ctx' = IF kind[thr[t].call] = "plain" THEN ctx ELSE NoHandle

\* The association is given up, by its last holder for good.  A failure to connect
\* is retried by a binding without timeout.
OpenFails(t, c, retry) ==
  LET a == thr[t].a IN
  /\ StopCreating(t)
  /\ cli' = DeallocAcb([Uncount(c, a) EXCEPT !.acb[a].ref = @ + 1], a)
  /\ IF retry /\ t \in Patient
     THEN /\ thr' = [thr EXCEPT ![t] = [@ EXCEPT !.pc = "sleep", !.a = 0, !.grp = 0]]
          /\ UNCHANGED ctx
     ELSE thr' = [thr EXCEPT ![t] = IdleThread] /\ CallFails(t)

\* rpc__cn_network_req_connect succeeds: the receiver is woken and the bind is sent
\* (request_conn_action_rtn, init_assoc_action_rtn).
Connects(t) ==
  LET a == thr[t].a IN
  /\ thr[t].pc = "connect"
  /\ cli' = [cli EXCEPT !.acb[a].cn = "OPEN", !.acb[a].st = "INIT_WAIT"]
  /\ net' = [net EXCEPT ![a] = [up |-> TRUE, c2s |-> <<Bind(thr[t].grp)>>, s2c |-> <<>>]]
  /\ thr' = [thr EXCEPT ![t].pc = "bindwait"]
  /\ UNCHANGED <<creating, ctx, abandons, calls, kind, breaks>>

\* ... or the connection breaks before the bind is sent, and is left open.
BindSendFails(t) ==
  LET a == thr[t].a IN
  /\ thr[t].pc = "connect" /\ breaks + abandons < MaxFaults
  /\ OpenFails(t, MarkAssoc([cli EXCEPT !.acb[a].cn = "OPEN"], a, FALSE), FALSE)
  /\ breaks' = breaks + 1
  /\ UNCHANGED <<abandons, calls, net, kind>>

ConnectFails(t) ==
  /\ thr[t].pc = "connect" /\ breaks + abandons < MaxFaults
  /\ OpenFails(t, MarkAssoc([cli EXCEPT !.acb[thr[t].a].cn = "CLOSED"], thr[t].a, FALSE), TRUE)
  /\ breaks' = breaks + 1
  /\ UNCHANGED <<abandons, calls, net, kind>>

Abandons(t) ==
  /\ breaks + abandons < MaxFaults /\ abandons' = abandons + 1
  /\ UNCHANGED <<calls, kind, breaks>>

\* rpc__cn_call_local_cancel lets a caller go whose cancel timeout is over.  From
\* connect it comes back with rpc_s_cancel_timeout, which counts as a failure to
\* connect; from the other waits it returns.
ConnectAbandoned(t) ==
  /\ thr[t].pc = "connect" /\ Abandons(t)
  /\ OpenFails(t, MarkAssoc(cli, thr[t].a, FALSE), TRUE)
  /\ UNCHANGED net

BindAbandoned(t) ==
  /\ thr[t].pc = "bindwait" /\ Abandons(t)
  /\ OpenFails(t, cli, FALSE)
  /\ UNCHANGED net

WaitAbandoned(t) ==
  /\ thr[t].pc \in {"grpwait", "sleep"} /\ Abandons(t)
  /\ thr' = [thr EXCEPT ![t] = IdleThread] /\ CallFails(t)
  /\ UNCHANGED <<cli, creating, net>>

\* The end of rpc__cn_assoc_open's wait for the syntax.
Bound(t) ==
  LET a == thr[t].a
      b == cli.acb[a]
  IN
  /\ thr[t].pc = "bindwait" /\ b.ok /\ b.syn
  /\ StopCreating(t)
  /\ cli' = Allocate(Uncount(cli, a), a, t)
  /\ thr' = [thr EXCEPT ![t] = [@ EXCEPT !.pc = "call", !.grp = b.grp]]
  /\ UNCHANGED <<ctx, abandons, calls, net, kind, breaks>>

BindFails(t) ==
  /\ thr[t].pc = "bindwait" /\ ~cli.acb[thr[t].a].ok
  /\ OpenFails(t, cli, FALSE)
  /\ UNCHANGED <<abandons, calls, net, kind, breaks>>

\* The back-off of a binding without timeout; with one address there is no other
\* group to reclaim associations from.
Slept(t) ==
  /\ thr[t].pc = "sleep"
  /\ thr' = [thr EXCEPT ![t].pc = "request"]
  /\ UNCHANGED <<cli, creating, ctx, abandons, calls, net, kind, breaks>>

-----------------------------------------------------------------------------
(* A call, as far as associations are concerned *)

SendsRequest(t) ==
  LET a == thr[t].a IN
  /\ thr[t].pc = "call"
  /\ net' = IF cli.acb[a].ok THEN ToServer(net, a, Request(thr[t].call)) ELSE net
  /\ thr' = [thr EXCEPT ![t].pc = "wait"]
  /\ UNCHANGED <<cli, creating, ctx, abandons, calls, kind, breaks>>

\* The response has a context handle in it (rpc__cn_network_maint), or has NIL for
\* one that was in the request (rpc__cn_network_stop_maint).
Maintains(t) ==
  LET g == IF kind[thr[t].call] = "open" THEN thr[t].grp ELSE ctx.grp
      found == g \in Active(cli)
  IN
  /\ thr[t].pc = "reply" /\ kind[thr[t].call] # "plain"
  /\ \/ /\ kind[thr[t].call] = "open" /\ found
        /\ ctx' = [st |-> "held", grp |-> g, remid |-> cli.grp[g].remid]
        /\ cli' = [cli EXCEPT !.grp[g].refs = @ + 1]
     \/ /\ kind[thr[t].call] = "close" /\ found
        /\ ctx' = NoHandle
        /\ cli' = [cli EXCEPT !.grp[g].refs = @ - 1]
     \/ /\ ~found /\ ctx' = NoHandle
        /\ UNCHANGED cli
  /\ thr' = [thr EXCEPT ![t].pc = "done"]
  /\ UNCHANGED <<creating, abandons, calls, net, kind, breaks>>

Leave(t) ==
  /\ cli' = Deallocate(PopCall(cli, thr[t].a, t), thr[t].a)
  /\ thr' = [thr EXCEPT ![t] = IdleThread]
  /\ UNCHANGED creating

\* rpc__cn_call_end, after the response ...
CallEnds(t) ==
  /\ \/ thr[t].pc = "done"
     \/ thr[t].pc = "reply" /\ kind[thr[t].call] = "plain"
  /\ Leave(t)
  /\ UNCHANGED <<ctx, abandons, calls, net, kind, breaks>>

\* ... after an error, which the status of the association tells ...
CallBreaks(t) ==
  /\ thr[t].pc = "wait" /\ ~cli.acb[thr[t].a].ok
  /\ Leave(t) /\ CallFails(t)
  /\ UNCHANGED <<abandons, calls, net, kind, breaks>>

\* ... and when the caller does not wait any more.
CallAbandoned(t) ==
  /\ thr[t].pc = "wait" /\ cli.acb[thr[t].a].ok /\ Abandons(t)
  /\ net' = ToServer(net, thr[t].a, Orphaned(thr[t].call))
  /\ Leave(t) /\ CallFails(t)

-----------------------------------------------------------------------------
(* The receiver thread of an association *)

\* A cancel that finds it before it receives is used up by its wait.
ReceiverStarts(a) ==
  /\ cli.acb[a].rx = "idle" /\ cli.acb[a].cn = "OPEN"
  /\ cli' = IF cli.acb[a].cancel THEN [cli EXCEPT !.acb[a].cancel = FALSE]
            ELSE [cli EXCEPT !.acb[a].rx = "recv", !.acb[a].ref = @ + 1]
  /\ UNCHANGED <<thr, creating, ctx, abandons, calls, net, kind, breaks>>

\* rpc__cn_assoc_grp_lkup_by_remid, or else rpc__cn_assoc_grp_alloc
GroupFor(c, a, remid) ==
  IF \E g \in Active(c) : c.grp[g].remid = remid
  THEN CHOOSE g \in Active(c) : c.grp[g].remid = remid
  ELSE a

\* add_mark_set_action_rtn
AcceptConf(c, a, remid) ==
  LET g == GroupFor(c, a, remid) IN
  IF c.acb[a].st # "INIT_WAIT" THEN c
  ELSE [c EXCEPT !.acb[a] = [@ EXCEPT !.st = "OPEN", !.syn = TRUE, !.grp = g],
                 !.grp[g] = [c.grp[g] EXCEPT !.st = "ACTIVE", !.remid = remid,
                                             !.list = Append(@, a)]]

\* retry_assoc_action_rtn for a rejection that is not about the version
RejectConf(c, a) ==
  IF c.acb[a].st # "INIT_WAIT" THEN c ELSE MarkAssoc(CloseConnect(c, a), a, FALSE)

\* The packet that the server asks for an end with
ShutdownInd(c, a) ==
  CASE c.acb[a].st = "OPEN" -> ShutdownIfAllowed(c, a, FALSE)
    [] c.acb[a].st = "ACTIVE" -> [c EXCEPT !.acb[a].shut = TRUE]
    [] OTHER -> c

ReceiverTakes(a) ==
  LET p == Head(net[a].s2c)
      owners == {t \in cli.acb[a].owner : thr[t].pc = "wait" /\ thr[t].call = p.call}
  IN
  /\ cli.acb[a].rx = "recv" /\ cli.acb[a].ok /\ ~cli.acb[a].cancel /\ net[a].s2c # <<>>
  /\ net' = [net EXCEPT ![a].s2c = Tail(@)]
  /\ cli' = CASE p.type = "ack" -> AcceptConf(cli, a, p.group)
              [] p.type = "nak" -> RejectConf(cli, a)
              [] p.type = "shutdown" -> ShutdownInd(cli, a)
              [] p.type = "response" -> cli
  /\ thr' = [t \in Threads |-> IF p.type = "response" /\ t \in owners
                               THEN [thr[t] EXCEPT !.pc = "reply"] ELSE thr[t]]
  /\ UNCHANGED <<creating, ctx, abandons, calls, kind, breaks>>

\* rpc__cn_assoc_post_error: NO_CONN_IND
NoConnInd(c, a) ==
  CASE c.acb[a].st = "INIT_WAIT" -> MarkAssoc(c, a, FALSE)
    [] c.acb[a].st = "OPEN" -> MarkAssoc(RemFromGroup(c, a), a, FALSE)
    [] c.acb[a].st = "ACTIVE" ->
         [MarkAssoc(RemFromGroup(c, a), a, FALSE) EXCEPT !.acb[a].st = "CALL_DONE_WAIT"]
    [] OTHER -> c

\* The connection is gone, or the receiver is cancelled, or the association is
\* closed: rpc__cn_network_receiver closes its end.
ReceiverEnds(a) ==
  LET b == cli.acb[a]
      c == IF b.cancel THEN cli ELSE NoConnInd(cli, a)
  IN
  /\ b.rx = "recv" /\ (b.cancel \/ ~b.ok \/ ~net[a].up)
  /\ net' = [net EXCEPT ![a] = [@ EXCEPT !.up = FALSE, !.s2c = <<>>]]
  /\ cli' = DeallocAcb([c EXCEPT !.acb[a] = [@ EXCEPT !.cn = "CLOSED", !.rx = "done",
                                                      !.cancel = FALSE]], a)
  /\ UNCHANGED <<thr, creating, ctx, abandons, calls, kind, breaks>>

-----------------------------------------------------------------------------
\* rpc__cn_assoc_timer_reclaim over a group of the client (SHUTDOWN_REQ, ABORT_REQ)
ClientReclaims(g) ==
  /\ g \in Active(cli) /\ MayShrink(cli.grp[g])
  /\ \E a \in Idle(cli.grp[g].list, cli.acb) :
       cli' = IF cli.acb[a].reqs <= MaxShutdowns
              THEN [ShutdownIfAllowed(cli, a, TRUE) EXCEPT !.acb[a].reqs = @ + 1]
              ELSE RemMarkAbort(cli, a, FALSE)
  /\ UNCHANGED <<thr, creating, ctx, abandons, calls, net, kind, breaks>>

\* What a caller does of itself, and what stops it
CallerRuns(t) ==
  \/ Reuse(t) \/ OpenSecond(t) \/ OpenFirst(t) \/ WaitForCreator(t)
  \/ Connects(t) \/ Bound(t) \/ BindFails(t) \/ Slept(t)
  \/ SendsRequest(t) \/ Maintains(t) \/ CallEnds(t) \/ CallBreaks(t)

CallerStops(t) ==
  \/ BindSendFails(t) \/ ConnectFails(t) \/ ConnectAbandoned(t)
  \/ BindAbandoned(t) \/ WaitAbandoned(t) \/ CallAbandoned(t)

ClientReceiver(a) == ReceiverStarts(a) \/ ReceiverTakes(a) \/ ReceiverEnds(a)
=============================================================================

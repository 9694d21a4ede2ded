------------------------------- MODULE CnServer -------------------------------
(***************************************************************************)
(* The server half of a connection oriented association: the receiver      *)
(* thread of the connection (cnrcvr.c), the call executors (cncthd.c) and  *)
(* the action routines of cnsclsm.c.                                       *)
(*                                                                         *)
(* As in CnClient an action is what a thread does while it holds the       *)
(* global mutex.  Each call has its own record, the call rep together with *)
(* the program counter of the thread that works for it: a call thread, or  *)
(* the receiver itself while it rejects or withdraws the call ("mine").    *)
(***************************************************************************)
EXTENDS CnWire

VARIABLES
  sv,    \* the association and its receiver thread
  ex,    \* the calls, by their number
  seen   \* history: the request fragments each manager was given

serverVars == <<sv, ex, seen>>

\* looks: the call rep that a waiting thread saw on the association.  History:
\* has the manager taken a cancel (acted), was a cancel refused because the call
\* took no more (late), was the packet given up that ends the call (unsaid)?
NoRep == [pc |-> "none", st |-> "INIT", status |-> "ok", assoc |-> FALSE,
          gotlast |-> FALSE, executed |-> FALSE, nsent |-> 0,
          sending |-> Dummy, failed |-> FALSE, then |-> "mgr",
          looks |-> 0, woken |-> FALSE, mine |-> FALSE,
          accepting |-> FALSE, queuing |-> TRUE, count |-> 0, hadPending |-> FALSE,
          alerts |-> 0, cancelled |-> FALSE, acted |-> FALSE, late |-> FALSE, unsaid |-> FALSE]

\* sendmsg is cn_ctlblk.in_sendmsg; overlap is history: did a call ever find
\* another one on the association?
ServerInit ==
  /\ sv = [assoc |-> "OPEN", astat |-> "ok", link |-> 0, ref |-> 0, msgs |-> <<>>,
           sendmsg |-> FALSE, rcvr |-> "recv", ovf |-> 0, fatal |-> "none", victim |-> 0,
           overlap |-> FALSE]
  /\ ex = [k \in Calls |-> NoRep]
  /\ seen = [k \in Calls |-> <<>>]

Running == sv.fatal = "none"
Waiters(e) == {k \in Calls : e[k].pc = "wait"}

\* rpc__cn_call_sm_protocol_error, and what else ends the process: the
\* connection goes with it.
Abort(s, what, k) == sv' = [s EXCEPT !.fatal = what, !.victim = k] /\ up' = FALSE

-----------------------------------------------------------------------------
(* Cancels, under the lock of the call (comcthd.c) *)

\* rpc__cthread_cancel
Cancel(r) ==
  IF ~r.accepting THEN [r EXCEPT !.late = TRUE]
  ELSE [r EXCEPT !.count = @ + 1, !.cancelled = @ \/ ~r.queuing]

\* Mutant: the cancel that is pending on the thread is thrown away.
CancelCafForgets(r) ==
  IF ~r.accepting THEN r
  ELSE [r EXCEPT !.accepting = FALSE, !.count = 0, !.cancelled = FALSE]

\* rpc__cthread_cancel_caf: no more cancels, and was one left over?
CancelCaf(r) ==
  IF ~r.accepting THEN r
  ELSE [r EXCEPT !.accepting = FALSE, !.hadPending = r.count > 0 /\ r.cancelled,
                 !.cancelled = IF r.count > 0 THEN FALSE ELSE @, !.count = 0]

\* rpc__cthread_cancel_enable_post
EnablePost(r) ==
  IF r.accepting /\ r.queuing
  THEN [r EXCEPT !.queuing = FALSE, !.cancelled = @ \/ r.count > 0] ELSE r

-----------------------------------------------------------------------------
(* The queue of the association and the threads waiting for it *)

\* RPC_COND_SIGNAL of assoc_msg_cond: the waiters that may be the one woken, 0
\* for none.
Signalled(e) ==
  LET asleep == {k \in Waiters(e) : ~e[k].woken} IN IF asleep = {} THEN {0} ELSE asleep

Wake(e, k) == IF k = 0 THEN e ELSE [e EXCEPT ![k].woken = TRUE]

\* rpc__cn_assoc_queue_dummy_frag; the one element that is already at the tail
\* stays there.
QueueDummy(msgs) ==
  IF msgs # <<>> /\ msgs[Len(msgs)] = Dummy THEN msgs ELSE Append(msgs, Dummy)

\* Mutant: the link to the call stays.
FreeRepKeepsLink(s, k) == [s EXCEPT !.astat = "ok", !.ref = @ - 1, !.msgs = <<>>]

\* Mutant: what the call did not read stays in the queue.
FreeRepKeepsQueue(s, k) ==
  [s EXCEPT !.link = IF @ = k THEN 0 ELSE @, !.astat = "ok", !.ref = @ - 1]

\* rpc__cn_assoc_pop_call and rpc__cn_assoc_dealloc of a call that still has its
\* association: the link goes if it is this call's, the status is reset, and the
\* queue is emptied unless the association is already on another call.
FreeRep(s, k) ==
  LET link == IF s.link = k THEN 0 ELSE s.link IN
  [s EXCEPT !.link = link, !.astat = "ok", !.ref = @ - 1,
            !.msgs = IF link = 0 THEN <<>> ELSE @]

-----------------------------------------------------------------------------
(* Sending (rpc__cn_transmit_buffers and rpc__cn_assoc_send_frag) *)

SendFrag(s, e, k, p, then) ==
  /\ sv' = [s EXCEPT !.sendmsg = TRUE]
  /\ ex' = [e EXCEPT ![k].pc = "send", ![k].sending = p, ![k].then = then, ![k].failed = FALSE]

\* The last packet of a call says whether a cancel was left over and how many
\* alerts came in.
LastResponse(k) == Response(k, ex[k].nsent + 1, TRUE, ex[k].hadPending, ex[k].alerts)
LastFault(k) == Fault(k, ex[k].hadPending, ex[k].alerts)

\* The socket takes the packet; on a connection that is down it is lost or an
\* error comes back.
ServerSendmsg(k) ==
  /\ ex[k].pc = "send"
  /\ IF up THEN s2c' = Append(s2c, ex[k].sending) /\ ex' = [ex EXCEPT ![k].pc = "sent"]
     ELSE UNCHANGED s2c /\ \E f \in BOOLEAN : ex' = [ex EXCEPT ![k].pc = "sent", ![k].failed = f]
  /\ UNCHANGED <<up, c2s, sv, seen>>

\* The rest of rpc__cn_call_end
EndCall(s, e, k) ==
  /\ sv' = [(IF e[k].assoc THEN FreeRep(s, k) ELSE s)
              EXCEPT !.rcvr = IF ~e[k].mine THEN @
                              ELSE IF s.assoc = "CLOSED" THEN "done" ELSE "recv"]
  /\ ex' = [e EXCEPT ![k] = [NoRep EXCEPT !.pc = "freed", !.gotlast = e[k].gotlast, !.acted = e[k].acted,
                                         !.late = e[k].late, !.unsaid = e[k].unsaid]]

\* The lock is taken again: the manager goes on, the executor goes on to
\* rpc__cn_call_end, or that routine goes on.
ServerSent(k) ==
  /\ ex[k].pc = "sent"
  /\ LET s == [sv EXCEPT !.sendmsg = FALSE, !.astat = IF ex[k].failed THEN "closed" ELSE @] IN
     IF ex[k].then = "freed" THEN EndCall(s, ex, k)
     ELSE sv' = s /\ ex' = [ex EXCEPT ![k].pc = ex[k].then]
  /\ UNCHANGED <<wireVars, seen>>

\* A cancel of the call thread is delivered in sendmsg while the manager runs:
\* the send is given up.  The code looks at the call that the association is
\* linked to, to tell a server from a client; there may be none any more.
ServerSendmsgCancelled(k) ==
  /\ ex[k].pc = "send" /\ ex[k].then = "mgr" /\ ex[k].cancelled
  /\ IF sv.link = 0 THEN Abort(sv, "null_call_rep", k) /\ UNCHANGED ex
     ELSE /\ sv' = [sv EXCEPT !.sendmsg = FALSE]
          /\ ex' = [ex EXCEPT ![k].pc = "mgr", ![k].failed = TRUE, ![k].cancelled = FALSE,
                              ![k].acted = TRUE, ![k].unsaid = ex[k].sending.last]
          /\ UNCHANGED up
  /\ UNCHANGED <<c2s, s2c, seen>>

-----------------------------------------------------------------------------
(* The call executor (rpc__cn_call_executor) *)

\* The executor goes on without a fragment, the stub fails.
ReceiveFails(r) == IF r.executed THEN [r EXCEPT !.pc = "mgr", !.failed = TRUE]
                   ELSE [r EXCEPT !.pc = "caf"]

\* rpc__cn_assoc_receive_frag and the loop around it that skips dummy fragments
ReceiveFrag(s, e, k) ==
  LET r == e[k]
      msgs == SkipDummy(s.msgs)
  IN  CASE s.astat # "ok" ->
             /\ sv' = [s EXCEPT !.msgs = IF @ = <<>> THEN @ ELSE Tail(@)]
             /\ ex' = [e EXCEPT ![k] = ReceiveFails(e[k])]
             /\ UNCHANGED seen
        [] s.astat = "ok" /\ msgs = <<>> ->
             /\ sv' = [s EXCEPT !.msgs = <<>>]
             /\ ex' = [e EXCEPT ![k].pc = "wait", ![k].looks = s.link, ![k].woken = FALSE]
             /\ UNCHANGED seen
        [] OTHER ->
             /\ sv' = [s EXCEPT !.msgs = Tail(msgs)]
             /\ ex' = [e EXCEPT ![k].pc = IF r.executed THEN "mgr" ELSE "recvd",
                                ![k].executed = TRUE, ![k].gotlast = Head(msgs).last]
             /\ seen' = [seen EXCEPT ![k] = Append(@, <<Head(msgs).call, Head(msgs).n>>)]

\* rpc_call_receive: an orphaned call gets an error at once.
CallReceiveFor(k) ==
  /\ IF ex[k].status = "orphaned"
     THEN /\ ex' = [ex EXCEPT ![k] = ReceiveFails(ex[k])]
          /\ UNCHANGED <<sv, seen>>
     ELSE ReceiveFrag(sv, ex, k)
  /\ UNCHANGED wireVars

\* The first request fragment
ExecutorReceives(k) == ex[k].pc = "ready" /\ CallReceiveFor(k)

\* A thread that was signalled has the lock: the association may be on another
\* call by now.
ExecutorWakes(k) ==
  /\ ex[k].pc = "wait" /\ ex[k].woken
  /\ IF ex[k].looks # sv.link
     THEN /\ ex' = [ex EXCEPT ![k] = [ReceiveFails(ex[k]) EXCEPT !.woken = FALSE]]
          /\ UNCHANGED <<sv, seen>>
     ELSE ReceiveFrag(sv, [ex EXCEPT ![k].woken = FALSE], k)
  /\ UNCHANGED wireVars

\* A cancel is delivered in the wait while the manager runs.
ExecutorWaitCancelled(k) ==
  /\ ex[k].pc = "wait" /\ ex[k].executed /\ ex[k].cancelled
  /\ ex' = [ex EXCEPT ![k] = [ReceiveFails(ex[k]) EXCEPT !.woken = FALSE, !.cancelled = FALSE,
                                                   !.acted = TRUE]]
  /\ UNCHANGED <<wireVars, sv, seen>>

\* Into the server stub; the data representation is read through call_r->assoc
\* without the lock.
Invoke(k) ==
  /\ ex[k].pc = "recvd"
  /\ IF ex[k].assoc
     THEN ex' = [ex EXCEPT ![k] = [EnablePost(ex[k]) EXCEPT !.pc = "mgr"]] /\ UNCHANGED <<sv, up>>
     ELSE Abort(sv, "null_assoc", k) /\ UNCHANGED ex
  /\ UNCHANGED <<c2s, s2c, seen>>

\* A manager that has returned a fault does no more than return.
Faulted(k) == ex[k].st = "COMPLETED" /\ ex[k].status = "ok"
InManager(k) == ex[k].pc = "mgr" /\ ~Faulted(k)

ManagerReceives(k) == InManager(k) /\ ~ex[k].failed /\ ~ex[k].gotlast /\ CallReceiveFor(k)

\* rpc_call_transmit: send_call_resp_action_rtn.  The stub sends once it has
\* the whole request.
ManagerSends(k) ==
  /\ InManager(k) /\ ~ex[k].failed /\ ex[k].gotlast
  /\ ex[k].nsent < MaxOut[k] /\ ex[k].status # "orphaned"
  /\ CASE ~ServerLegal(ex[k].st, "send") -> Abort(sv, "send", k) /\ UNCHANGED ex
       [] ServerLegal(ex[k].st, "send") /\ sv.astat # "ok" ->
            ex' = [ex EXCEPT ![k].status = "orphaned"] /\ UNCHANGED <<sv, up>>
       [] OTHER ->
            /\ UNCHANGED up
            /\ LET n == ex[k].nsent + 1
                   e == [ex EXCEPT ![k].nsent = n]
               IN  IF Maybe(k) THEN ex' = e /\ UNCHANGED sv
                   ELSE SendFrag(sv, e, k, Response(k, n, FALSE, FALSE, 0), "mgr")
  /\ UNCHANGED <<c2s, s2c, seen>>

\* The two fault events, in the two states in which they are legal: the call is
\* complete, and a fault goes out unless the call is a maybe call or the
\* association has failed.
FaultEvent(s, e, k, event, then) ==
  /\ IF ~ServerLegal(e[k].st, event)
     THEN Abort(s, event, k) /\ ex' = e
     ELSE /\ UNCHANGED up
          /\ LET f == [e EXCEPT ![k].st = "COMPLETED",
                                ![k].status = IF s.astat # "ok" /\ e[k].st = "RESPONSE" /\ ~Maybe(k)
                                              THEN "orphaned" ELSE @]
             IN  IF Maybe(k) \/ s.astat # "ok" THEN sv' = s /\ ex' = [f EXCEPT ![k].pc = then]
                 ELSE SendFrag(s, f, k, LastFault(k), then)
  /\ UNCHANGED <<s2c, seen>>

\* rpc_call_transmit_fault
ManagerFaults(k) ==
  /\ InManager(k) /\ ex[k].status # "orphaned"
  /\ FaultEvent(sv, ex, k, "fault", "mgr") /\ UNCHANGED c2s

\* rpc__cn_call_reject: the status that the fault carries replaces whatever
\* status the call has.
CallReject(s, e, k) ==
  FaultEvent(s, [e EXCEPT ![k].status = "rejected"], k, "fault_dne", "ending")

\* The manager takes the cancel that is pending on its thread.
ManagerTakesCancel(k) ==
  /\ InManager(k) /\ ex[k].cancelled
  /\ ex' = [ex EXCEPT ![k].cancelled = FALSE, ![k].acted = TRUE]
  /\ UNCHANGED <<wireVars, sv, seen>>

\* The executor refuses the call (no such interface, operation or object), or
\* the stub has failed: no more cancels, then rpc__cn_call_reject.
ExecutorRefuses(k) ==
  /\ ex[k].pc = "ready" \/ InManager(k)
  /\ ex' = [ex EXCEPT ![k] = [CancelCaf(ex[k]) EXCEPT !.pc = "rejecting"]]
  /\ UNCHANGED <<wireVars, sv, seen>>

ExecutorRejects(k) == ex[k].pc = "rejecting" /\ CallReject(sv, ex, k) /\ UNCHANGED c2s

\* The stub has returned, or the first fragment could not be had.  A stub that
\* has not the whole request, or that the runtime has failed, returns a fault
\* first unless the call is over anyway.
ManagerReturns(k) ==
  /\ \/ ex[k].pc = "caf"
     \/ ex[k].pc = "mgr" /\ \/ ex[k].gotlast /\ ~ex[k].failed
                            \/ ex[k].st = "COMPLETED" \/ ex[k].status = "orphaned"
  /\ ex' = [ex EXCEPT ![k] = [CancelCaf(ex[k]) EXCEPT !.pc = "ending"]]
  /\ UNCHANGED <<wireVars, sv, seen>>

\* rpc__cn_call_end: what is left of the response goes out if the whole request
\* has come in.
ServerCallEnd(k) ==
  /\ ex[k].pc = "ending"
  /\ LET e == [ex EXCEPT ![k].st = IF @ = "REQUEST" THEN "NO_NSTATE" ELSE "COMPLETED"] IN
     IF ex[k].st = "RESPONSE" /\ ~Maybe(k) /\ ex[k].status # "orphaned"
     THEN SendFrag(sv, e, k, LastResponse(k), "freed")
     ELSE EndCall(sv, e, k)
  /\ UNCHANGED <<wireVars, seen>>

\* The pool gives a queued call to a thread.
ExecutorStarts(k) ==
  /\ ex[k].pc = "queued" /\ ex' = [ex EXCEPT ![k].pc = "ready"]
  /\ UNCHANGED <<wireVars, sv, seen>>
-----------------------------------------------------------------------------
(* The receiver thread.  As in the client, what an earlier read has left in   *)
(* the overflow buffer is handed on whatever the executors do.                *)

ReceiverReady == sv.rcvr = "recv" /\ ~sv.sendmsg

Arrives(type) ==
  /\ c2s # <<>> /\ Head(c2s).type = type
  /\ \/ ReceiverReady /\ sv.astat = "ok"
     \/ sv.rcvr = "recv" /\ sv.ovf > 0

\* The first fragment of a request: a new call rep is linked to the association
\* (rpc__cn_assoc_push_call), whatever call was linked before, takes a reference
\* (rpc__cn_assoc_alloc) and the fragment is queued for its executor
\* (handle_first_frag_action_rtn).
NewCall(p) ==
  LET r == [NoRep EXCEPT !.assoc = TRUE, !.accepting = TRUE,
                         !.st = IF p.last THEN "RESPONSE" ELSE "REQUEST"]
  IN  IF p.alert THEN Cancel(r) ELSE r

PushCall(s, p) ==
  [s EXCEPT !.link = p.call, !.ref = @ + 1, !.msgs = Append(@, p),
            !.overlap = @ \/ s.link # 0]

\* rpc__cthread_invoke_null gives the call to a thread, queues it or refuses it;
\* a call that is refused gets a fault, from the receiver.
FirstFragment ==
  /\ Arrives("request") /\ Head(c2s).n = 1
  /\ \E n \in ReadAhead(sv.ovf, c2s) :
       LET p == Head(c2s)
           s == PushCall([sv EXCEPT !.ovf = n], p)
           e == [ex EXCEPT ![p.call] = NewCall(p)]
       IN  \/ /\ \E pc \in {"ready", "queued"} : ex' = [e EXCEPT ![p.call].pc = pc]
              /\ sv' = s /\ UNCHANGED <<up, s2c, seen>>
           \/ CallReject([s EXCEPT !.rcvr = "busy"], [e EXCEPT ![p.call].mine = TRUE], p.call)
  /\ c2s' = Tail(c2s)

\* RPC_CN_POST_CALL_SM_EVENT: a packet is for the call linked to the
\* association, or is dropped.  The call id of a maybe call is never set.
ForLinkedCall(p) == sv.link # 0 /\ p.call = sv.link /\ ~Maybe(p.call)

\* Mutant: the call never leaves the request state.
HandleFragKeepsState(s, p) ==
  /\ sv' = [s EXCEPT !.msgs = Append(@, p)]
  /\ \E w \in Signalled(ex) : ex' = Wake(ex, w)

\* handle_frag_action_rtn
HandleFrag(s, p) ==
  /\ sv' = [s EXCEPT !.msgs = Append(@, p)]
  /\ \E w \in Signalled(ex) :
       ex' = Wake([ex EXCEPT ![p.call].st = IF p.last THEN "RESPONSE" ELSE "REQUEST"], w)

\* process_alert_msg_action_rtn
ProcessAlert(s, p) ==
  /\ ex' = [ex EXCEPT ![p.call] = Cancel([ex[p.call] EXCEPT !.alerts = @ + 1])]
  /\ sv' = s

\* Mutant: the call keeps the association that was given back.
StopOrphanKeepsAssoc(s, p) ==
  /\ sv' = FreeRep(s, p.call)
  /\ \E w \in Signalled(ex) :
       ex' = Wake([ex EXCEPT ![p.call] = [Cancel(@) EXCEPT !.st = "COMPLETED", !.status = "orphaned"]], w)

\* stop_orphan_action_rtn: a call that is still queued is ended here, the
\* association of one that runs is taken away and its thread woken and cancelled.
StopOrphan(s, p) ==
  LET k == p.call
      e == [ex EXCEPT ![k].status = "orphaned"]
  IN  IF ex[k].pc = "queued"
      THEN /\ sv' = [s EXCEPT !.rcvr = "busy"]
           /\ ex' = [e EXCEPT ![k].pc = "ending", ![k].mine = TRUE]
      ELSE /\ sv' = FreeRep(s, k)
           /\ \E w \in Signalled(e) :
                ex' = Wake([e EXCEPT ![k] = [Cancel(e[k]) EXCEPT !.st = "COMPLETED", !.assoc = FALSE]], w)

Event(p) == CASE p.type = "request" -> "recv"
              [] p.type = "alert" -> "remote_alert"
              [] p.type = "orphaned" -> "orphaned"

LaterPacket ==
  /\ \E type \in {"request", "alert", "orphaned"} : Arrives(type)
  /\ \E m \in ReadAhead(sv.ovf, c2s) :
       LET p == Head(c2s)
           s == [sv EXCEPT !.ovf = m]
       IN  /\ p.type = "request" => p.n > 1
           /\ CASE ~ForLinkedCall(p) -> sv' = s /\ UNCHANGED <<ex, up>>
                [] ForLinkedCall(p) /\ ~ServerLegal(ex[p.call].st, Event(p)) ->
                     Abort(s, Event(p), p.call) /\ UNCHANGED ex
                [] OTHER ->
                     /\ UNCHANGED up
                     /\ \/ ServerDoes(ex[p.call].st, Event(p), "handle_frag") /\ HandleFrag(s, p)
                        \/ ServerDoes(ex[p.call].st, Event(p), "process_alert_msg") /\ ProcessAlert(s, p)
                        \/ ServerDoes(ex[p.call].st, Event(p), "stop_orphan") /\ StopOrphan(s, p)
                        \/ ServerDoes(ex[p.call].st, Event(p), "COMPLETED") /\ sv' = s /\ UNCHANGED ex
  /\ c2s' = Tail(c2s) /\ UNCHANGED <<s2c, seen>>

\* Mutant: the threads of the association are neither woken nor cancelled.
ServerDisconnectsQuietly ==
  /\ ReceiverReady /\ sv.ovf = 0 /\ ~up
  /\ sv' = [sv EXCEPT !.assoc = "CLOSED", !.astat = "closed", !.rcvr = "done"]
  /\ UNCHANGED <<wireVars, ex, seen>>

\* The connection is gone (rem_mark_cancel_action_rtn): the linked call is ended
\* if it is still queued, otherwise its thread is cancelled; waiters are woken.
ServerDisconnects ==
  /\ ReceiverReady /\ sv.ovf = 0 /\ ~up
  /\ LET s == [sv EXCEPT !.assoc = "CLOSED", !.astat = "closed", !.msgs = QueueDummy(@)]
         k == sv.link
     IN  \E w \in Signalled(ex) :
           LET e == Wake(ex, w) IN
           CASE k = 0 -> sv' = [s EXCEPT !.rcvr = "done"] /\ ex' = e
             [] k # 0 /\ ex[k].pc = "queued" ->
                  /\ sv' = [s EXCEPT !.rcvr = "busy"]
                  /\ ex' = [e EXCEPT ![k].pc = "ending", ![k].mine = TRUE]
             [] OTHER ->
                  /\ sv' = [s EXCEPT !.rcvr = "done"]
                  /\ \E v \in Signalled(e) : ex' = Wake([e EXCEPT ![k] = Cancel(e[k])], v)
  /\ UNCHANGED <<wireVars, seen>>

-----------------------------------------------------------------------------
ExecutorStep(k) ==
  /\ Running
  /\ \/ ExecutorStarts(k) \/ ExecutorReceives(k) \/ ExecutorWakes(k)
     \/ ExecutorWaitCancelled(k) \/ Invoke(k) \/ ManagerReceives(k)
     \/ ManagerSends(k) \/ ManagerFaults(k) \/ ManagerTakesCancel(k)
     \/ ExecutorRefuses(k) \/ ExecutorRejects(k) \/ ManagerReturns(k)
     \/ ServerCallEnd(k) \/ ServerSendmsg(k) \/ ServerSent(k)
     \/ ServerSendmsgCancelled(k)

ServerReceiver ==
  /\ Running
  /\ \/ FirstFragment \/ LaterPacket \/ ServerDisconnects
=============================================================================

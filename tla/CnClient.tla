------------------------------- MODULE CnClient -------------------------------
(***************************************************************************)
(* The client half of a connection oriented association: the thread that   *)
(* makes the calls (cncall.c and the action routines of cncclsm.c), the    *)
(* receiver thread of the connection (cnrcvr.c) and the cancel timer.      *)
(*                                                                         *)
(* Everything runs under the global mutex, so an action is what a thread   *)
(* does between two places that release it: around sendmsg ("send" before  *)
(* and "sent" after the packet is out), in the wait for a fragment         *)
(* ("sleep"), and while the client stub runs ("stub").                     *)
(***************************************************************************)
EXTENDS CnWire

CONSTANTS
  MaxCancels,     \* bound: how often another thread cancels the calling thread
  CancelTimeout   \* "finite" or "infinite": rpc_mgmt_set_cancel_timeout

ASSUME ClientAssumption ==
  MaxCancels \in Nat /\ CancelTimeout \in {"finite", "infinite"}

VARIABLES
  cl,      \* the calling thread, its call rep and its association
  canc,    \* cancels of the calling thread and the cancel timer
  result   \* history: how each call ended for its caller

clientVars == <<cl, canc, result>>

NoCall == [pc |-> "idle", call |-> 0, st |-> "INIT", status |-> "ok", err |-> "ok",
           sending |-> Dummy, failed |-> FALSE, then |-> "stub",
           nsent |-> 0, phase |-> "in", got |-> <<>>, gotlast |-> FALSE,
           assoc |-> "OPEN", astat |-> "ok", link |-> 0, msgs |-> <<>>,
           rcvr |-> TRUE, ovf |-> 0, fatal |-> "none"]

\* pending: a cancel is pending on the thread; accepting, count and hadPending:
\* cancel.server_is_accepting, server_count and server_had_pending.  History:
\* has this call taken a cancel (caught), was one not forwarded (dropped), did
\* the last word of the call come in while one was being sent (crossed)?
NoCancels == [pending |-> FALSE, posted |-> 0, accepting |-> FALSE, count |-> 0,
              local |-> 0, hadPending |-> FALSE, running |-> FALSE,
              timer |-> FALSE, proc |-> 0, caught |-> FALSE,
              dropped |-> FALSE, crossed |-> FALSE, timedOut |-> FALSE]

ClientInit ==
  /\ cl = NoCall /\ canc = NoCancels
  /\ result = [k \in Calls |-> "none"]

InCall == cl.pc # "idle"
InSendmsg == cl.pc \in {"send", "sent"}
Alive == cl.fatal = "none"

-----------------------------------------------------------------------------
(* Cancels *)

\* rpc__cn_call_start_cancel_timer, for a call whose status is ok
StartTimer(c) ==
  IF c.running \/ CancelTimeout = "infinite" THEN c
  ELSE [c EXCEPT !.running = TRUE, !.timer = TRUE]

\* rpc__cn_call_stop_cancel_timer: timer_running stays as it is
StopTimer(c) == IF c.running THEN [c EXCEPT !.timer = FALSE] ELSE c

\* A cancel delivered in sendmsg or in the wait for a fragment
Catch(c, status) ==
  LET d == [c EXCEPT !.pending = FALSE, !.caught = TRUE, !.local = @ + 1] IN
  IF status = "ok" THEN StartTimer(d) ELSE d

-----------------------------------------------------------------------------
(* The receive queue *)

\* The head of the queue becomes what rpc_call_transceive or rpc_call_receive
\* returns.
Take(c, p) ==
  IF p.type = "fault" THEN [c EXCEPT !.pc = "stub", !.gotlast = TRUE, !.err = "fault"]
  ELSE [c EXCEPT !.pc = "stub", !.got = Append(@, <<p.call, p.n>>), !.gotlast = p.last,
                 !.err = c.status]

\* rpc__cn_assoc_receive_frag and the loop around it that skips dummy fragments
Receive(c) ==
  LET msgs == SkipDummy(c.msgs) IN
  CASE c.astat # "ok" -> [c EXCEPT !.pc = "stub", !.err = c.astat]
    [] c.astat = "ok" /\ msgs = <<>> -> [c EXCEPT !.pc = "sleep", !.msgs = <<>>]
    [] OTHER -> Take([c EXCEPT !.msgs = Tail(msgs)], Head(msgs))

-----------------------------------------------------------------------------
(* Going on under the lock *)

Goto(c, then) == IF then = "recv" THEN Receive(c) ELSE [c EXCEPT !.pc = "stub"]

BeginSend(c, p, then) == [c EXCEPT !.pc = "send", !.sending = p, !.then = then, !.failed = FALSE]

\* rpc__cn_call_forward_cancel: each cancel caught so far becomes a packet if
\* the call is in a state to send one, and is dropped otherwise.  err is the
\* status of the call when there was a cancel to forward.
ForwardThen(c, k, then) ==
  LET d == IF k.local > 0 THEN [c EXCEPT !.err = c.status] ELSE c IN
  IF k.local = 0 \/ ~k.accepting
  THEN cl' = Goto(d, then) /\ canc' = k
  ELSE CASE ClientDoes(c.st, "local_alert", "forward_alert") ->
              cl' = BeginSend(d, RemoteAlert(c.call), then) /\ canc' = k
         [] ~ClientLegal(c.st, "local_alert") ->
              cl' = [c EXCEPT !.fatal = "local_alert"] /\ canc' = k
         [] OTHER -> cl' = Goto(d, then) /\ canc' = [k EXCEPT !.local = 0, !.dropped = TRUE]

-----------------------------------------------------------------------------
(* Operations of the client stub *)

\* rpc_call_start on an open association: allocate_assoc_action_rtn gets it,
\* rpc__cn_assoc_alloc makes it active and rpc__cn_assoc_push_call links it.
CallStart ==
  /\ cl.pc = "idle" /\ cl.call < NCalls /\ cl.assoc = "OPEN" /\ cl.astat = "ok"
  /\ cl' = [NoCall EXCEPT !.pc = "stub", !.call = cl.call + 1, !.st = "STUB_WAIT",
                          !.assoc = "ACTIVE", !.link = cl.call + 1, !.rcvr = cl.rcvr, !.ovf = cl.ovf]
  /\ UNCHANGED <<wireVars, canc, result>>

\* rpc__cn_transmit_buffers for the client: the first fragment carries a cancel
\* that is already there.
FirstAlert == cl.nsent = 0 /\ (canc.local > 0 \/ canc.pending)

TransmitBuffers(last) ==
  LET alert == FirstAlert
      k == IF ~alert THEN canc
           ELSE IF canc.local > 0 THEN [canc EXCEPT !.local = @ - 1]
           ELSE StartTimer([canc EXCEPT !.pending = FALSE, !.caught = TRUE])
  IN  /\ canc' = [k EXCEPT !.accepting = TRUE]
      /\ cl' = BeginSend([cl EXCEPT !.nsent = @ + 1, !.phase = IF last THEN "out" ELSE "in"],
                         Request(cl.call, cl.nsent + 1, last, alert),
                         IF last /\ ~Maybe(cl.call) THEN "recv" ELSE "stub")

AtStub == cl.pc = "stub" /\ cl.err = "ok" /\ Alive

\* rpc_call_transmit whose data only fills a buffer
CallTransmitBuffers ==
  /\ AtStub /\ cl.phase = "in" /\ ClientDoes(cl.st, "transmit", "transmit_req")
  /\ ForwardThen([cl EXCEPT !.st = "REQUEST"], canc, "stub")
  /\ UNCHANGED <<wireVars, result>>

\* rpc_call_transmit that fills a fragment, which goes out
CallTransmitSends ==
  /\ AtStub /\ cl.phase = "in" /\ cl.nsent + 1 < MaxIn[cl.call]
  /\ ClientDoes(cl.st, "transmit", "transmit_req")
  /\ TransmitBuffers(FALSE)
  /\ UNCHANGED <<wireVars, result>>

\* rpc_call_transmit after the server's fault has come in: the state machine
\* stays where it is, nothing is sent and the stub is not told yet.
CallTransmitFailed ==
  /\ AtStub /\ cl.phase = "in" /\ cl.st \in {"FAILED", "CFDNE"}
  /\ ForwardThen(cl, canc, "stub")
  /\ UNCHANGED <<wireVars, result>>

\* rpc_call_transceive: the last fragment goes out, then the thread waits for
\* the first one of the response.
CallTransceive ==
  /\ AtStub /\ cl.phase = "in"
  /\ ClientDoes(cl.st, "last_transmit", "send_last_frag")
  /\ TransmitBuffers(TRUE)
  /\ UNCHANGED <<wireVars, result>>

CallTransceiveFailed ==
  /\ AtStub /\ cl.phase = "in" /\ cl.st \in {"FAILED", "CFDNE"}
  /\ IF cl.status = "ok"
     THEN ForwardThen([cl EXCEPT !.phase = "out"], canc, "recv")
     ELSE cl' = [cl EXCEPT !.phase = "out", !.err = cl.status] /\ UNCHANGED canc
  /\ UNCHANGED <<wireVars, result>>

\* rpc_call_receive for more of the response
CallReceive ==
  /\ AtStub /\ cl.phase = "out" /\ ~Maybe(cl.call) /\ ~cl.gotlast
  /\ cl' = Receive(cl)
  /\ UNCHANGED <<wireVars, canc, result>>

-----------------------------------------------------------------------------
(* sendmsg and the wait for a fragment *)

\* The socket takes the packet.  On a connection that is down it may still do
\* so, and the packet is lost, or it reports an error.
Sendmsg ==
  /\ cl.pc = "send" /\ Alive
  /\ IF up THEN c2s' = Append(c2s, cl.sending) /\ cl' = [cl EXCEPT !.pc = "sent"]
     ELSE UNCHANGED c2s /\ \E f \in BOOLEAN : cl' = [cl EXCEPT !.pc = "sent", !.failed = f]
  /\ UNCHANGED <<up, s2c, canc, result>>

\* What the caller is told in the end
Outcome(c) ==
  CASE c.err = "fault" -> "fault"
    [] c.err # "ok" -> "error"
    [] c.err = "ok" /\ c.phase = "out" /\ (c.gotlast \/ Maybe(c.call)) -> "ok"
    [] OTHER -> "abandoned"

\* The rest of rpc__cn_call_end: rpc__cn_assoc_pop_call breaks the link and ends
\* the wait for the call's end, rpc__cn_assoc_dealloc gives the association back
\* and empties its queue, and cancels the server did not take are posted again.
Finish(c, k) ==
  /\ result' = [result EXCEPT ![c.call] = Outcome(c)]
  /\ cl' = [NoCall EXCEPT !.call = c.call, !.rcvr = c.rcvr, !.ovf = c.ovf,
                          !.assoc = IF c.assoc = "CALL_DONE_WAIT" THEN "CLOSED"
                                    ELSE IF c.assoc = "ACTIVE" THEN "OPEN" ELSE c.assoc]
  /\ canc' = [NoCancels EXCEPT !.pending = k.pending \/ k.hadPending \/ k.local > 0,
                               !.posted = k.posted, !.proc = k.proc,
                               !.timer = k.timer /\ ~k.running]

\* What follows a packet that went out, or failed to.  send_last_frag leaves
\* the request state whatever became of the fragment; only rpc_call_transmit
\* looks at the status of the send.
AfterSend(c, k) ==
  CASE c.sending.type = "alert" ->
         /\ ForwardThen([c EXCEPT !.err = c.status],
                        [k EXCEPT !.local = @ - 1, !.count = @ + 1], c.then)
         /\ UNCHANGED result
    [] c.sending.type = "orphaned" -> Finish([c EXCEPT !.st = "FAILED"], k)
    [] c.sending.type = "request" /\ ~c.sending.last ->
         /\ ForwardThen([c EXCEPT !.st = "REQUEST",
                                  !.err = IF ~c.failed THEN @
                                          ELSE IF c.status # "ok" THEN c.status
                                          ELSE "closed"], k, "stub")
         /\ UNCHANGED result
    [] c.sending.type = "request" /\ c.sending.last ->
         LET d == [c EXCEPT !.st = IF Maybe(c.call) THEN "COMPLETED" ELSE "RESPONSE"] IN
         /\ IF c.status = "ok" THEN ForwardThen(d, k, c.then)
            ELSE cl' = [d EXCEPT !.pc = "stub", !.err = c.status] /\ canc' = k
         /\ UNCHANGED result

\* The lock is taken again.
Sent ==
  /\ cl.pc = "sent" /\ Alive
  /\ AfterSend(IF cl.failed THEN [cl EXCEPT !.astat = "closed"] ELSE cl, canc)
  /\ UNCHANGED wireVars

\* A cancel is delivered in sendmsg before anything went out: the send is tried
\* again, unless the call has failed.
SendmsgCancelled ==
  /\ cl.pc = "send" /\ canc.pending /\ Alive
  /\ IF cl.status = "ok"
     THEN canc' = Catch(canc, "ok") /\ UNCHANGED <<cl, result>>
     ELSE AfterSend([cl EXCEPT !.failed = TRUE], Catch(canc, cl.status))
  /\ UNCHANGED wireVars

\* The waiting thread is signalled and finds a fragment or a bad status.
Awake ==
  /\ cl.pc = "sleep" /\ Alive /\ (cl.msgs # <<>> \/ cl.astat # "ok")
  /\ cl' = Receive(cl)
  /\ UNCHANGED <<wireVars, canc, result>>

\* A cancel is delivered in the wait (rpc__cn_call_local_cancel).
SleepCancelled ==
  /\ cl.pc = "sleep" /\ canc.pending /\ Alive
  /\ IF cl.status = "ok" THEN ForwardThen(cl, Catch(canc, "ok"), "recv")
     ELSE /\ cl' = [cl EXCEPT !.pc = "stub", !.err = cl.status]
          /\ canc' = Catch(canc, cl.status)
  /\ UNCHANGED <<wireVars, result>>

\* rpc_call_end: a call in progress is aborted, with word to the server.
CallEnd ==
  /\ cl.pc = "stub" /\ Alive /\ UNCHANGED wireVars
  /\ IF ClientDoes(cl.st, "end", "abort_send")
     THEN cl' = BeginSend(cl, Orphaned(cl.call), "end") /\ UNCHANGED <<canc, result>>
     ELSE Finish(cl, canc)

-----------------------------------------------------------------------------
(* The receiver thread.  Having read from the socket it waits until no send   *)
(* of the association is under way and looks at the association's status; a  *)
(* packet that an earlier read has left in the overflow buffer is handed on   *)
(* without either.                                                            *)

ReceiverFree == Alive /\ cl.rcvr /\ ~InSendmsg

Receivable ==
  /\ s2c # <<>>
  /\ \/ ReceiverFree /\ cl.astat = "ok"
     \/ Alive /\ cl.rcvr /\ cl.ovf > 0

\* Mutant: the call id of a packet is not looked at.
ForAnyCall(p) == cl.link # 0

\* RPC_CN_POST_CALL_SM_EVENT: a packet is for the call linked to the
\* association, or is dropped.
ForCall(p) == cl.link # 0 /\ p.call = cl.link

\* handle_recv_frag_action_rtn: with the last fragment the call is complete and
\* what the server says of cancels is compared with what was sent.
CancelsUp(p) ==
  IF ~p.last THEN canc
  ELSE StopTimer([canc EXCEPT !.hadPending = @ \/ canc.count > p.alerts \/ p.alert,
                              !.crossed = InSendmsg /\ cl.sending.type = "alert"])

HandleRecvFrag(c, p) ==
  /\ cl' = [c EXCEPT !.st = IF p.last THEN "COMPLETED" ELSE "RESPONSE", !.msgs = Append(@, p)]
  /\ canc' = CancelsUp(p)

\* raise_fault_action_rtn
RaiseFault(c, p) ==
  /\ cl' = [c EXCEPT !.st = "FAILED", !.msgs = Append(@, p)]
  /\ canc' = CancelsUp(p)

ClientReceives ==
  /\ Receivable
  /\ \E n \in ReadAhead(cl.ovf, s2c) :
       LET p == Head(s2c)
           e == IF p.type = "response" THEN "recv" ELSE "fault"
           c == [cl EXCEPT !.ovf = n]
       IN  CASE ~ForCall(p) -> cl' = c /\ UNCHANGED canc
             [] ForCall(p) /\ ~ClientLegal(cl.st, e) -> cl' = [c EXCEPT !.fatal = e] /\ UNCHANGED canc
             [] ForCall(p) /\ ClientDoes(cl.st, e, "handle_recv_frag") -> HandleRecvFrag(c, p)
             [] ForCall(p) /\ ClientDoes(cl.st, e, "raise_fault") -> RaiseFault(c, p)
  /\ s2c' = Tail(s2c) /\ UNCHANGED <<up, c2s, result>>

\* Mutant: the calling thread is not told.
ClientDisconnectsSilently ==
  /\ ReceiverFree /\ cl.ovf = 0 /\ ~up
  /\ cl' = [cl EXCEPT !.rcvr = FALSE,
                      !.assoc = IF @ = "ACTIVE" THEN "CALL_DONE_WAIT" ELSE "CLOSED"]
  /\ UNCHANGED <<wireVars, canc, result>>

\* The connection is gone (rpc__cn_assoc_post_error): a call in progress is
\* woken and its end waited for, otherwise the association is closed at once.
ClientDisconnects ==
  /\ ReceiverFree /\ cl.ovf = 0 /\ ~up
  /\ cl' = [cl EXCEPT !.rcvr = FALSE, !.astat = "closed",
                      !.assoc = IF @ = "ACTIVE" THEN "CALL_DONE_WAIT" ELSE "CLOSED",
                      !.msgs = IF cl.assoc = "ACTIVE" THEN Append(@, Dummy) ELSE @]
  /\ UNCHANGED <<wireVars, canc, result>>

-----------------------------------------------------------------------------
(* Cancels from outside *)

\* Another thread cancels the calling thread.
PostCancel ==
  /\ Alive /\ InCall /\ canc.posted < MaxCancels
  /\ canc' = [canc EXCEPT !.pending = TRUE, !.posted = @ + 1]
  /\ UNCHANGED <<wireVars, cl, result>>

\* The timer thread takes the timer off its list and calls the routine.
TimerFires ==
  /\ canc.timer /\ canc.proc = 0 /\ Alive
  /\ canc' = [canc EXCEPT !.timer = FALSE, !.proc = cl.call]
  /\ UNCHANGED <<wireVars, cl, result>>

\* rpc__cn_call_cancel_timer has the lock.  The call rep it was given may have
\* been freed meanwhile, and used again for the next call or not.
CancelTimer ==
  /\ canc.proc # 0 /\ Alive
  /\ \E reused \in BOOLEAN :
       LET mine == InCall /\ (canc.proc = cl.call \/ reused) IN
       /\ cl' = IF mine THEN [cl EXCEPT !.status = "cancel_timeout"] ELSE cl
       /\ canc' = IF mine THEN [canc EXCEPT !.pending = TRUE, !.running = FALSE,
                                            !.hadPending = TRUE, !.proc = 0, !.timedOut = (canc.proc = cl.call)]
                  ELSE [canc EXCEPT !.pending = TRUE, !.proc = 0]
  /\ UNCHANGED <<wireVars, result>>

-----------------------------------------------------------------------------
CallerStep ==
  \/ CallTransmitBuffers \/ CallTransmitSends \/ CallTransmitFailed
  \/ CallTransceive \/ CallTransceiveFailed \/ CallReceive
  \/ Sendmsg \/ Sent \/ SendmsgCancelled \/ Awake \/ SleepCancelled
  \/ CallEnd

ClientReceiver == ClientReceives \/ ClientDisconnects
=============================================================================

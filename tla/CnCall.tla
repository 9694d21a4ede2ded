------------------------------- MODULE CnCall -------------------------------
(***************************************************************************)
(* Calls over one connection oriented association: CnClient and CnServer   *)
(* joined by the two byte streams of CnWire.                               *)
(***************************************************************************)
EXTENDS CnClient, CnServer

vars == <<wireVars, clientVars, serverVars>>

Init == WireInit /\ ClientInit /\ ServerInit

\* The connection breaks.  A receiver may still read what is on its way to it;
\* the rest is lost when it finds the connection closed.
Break ==
  /\ up /\ up' = FALSE
  /\ UNCHANGED <<c2s, s2c, clientVars, serverVars>>

ClientStep ==
  \/ CallStart \/ CallerStep \/ ClientReceiver
  \/ PostCancel \/ TimerFires \/ CancelTimer

ServerStep == ServerReceiver \/ \E k \in Calls : ExecutorStep(k)

Next ==
  \/ ClientStep /\ UNCHANGED serverVars
  \/ ServerStep /\ UNCHANGED clientVars
  \/ Break

Spec == Init /\ [][Next]_vars

\* The threads of the client and the two receivers run; nobody has to make a
\* call, to cancel one or to let the connection be.
ThreadsRun ==
  /\ WF_vars(CallerStep /\ UNCHANGED serverVars)
  /\ WF_vars(ClientReceiver /\ UNCHANGED serverVars)
  /\ WF_vars((TimerFires \/ CancelTimer) /\ UNCHANGED serverVars)
  /\ WF_vars(ServerReceiver /\ UNCHANGED clientVars)

\* A manager need not return ...
SlowSpec == Spec /\ ThreadsRun

\* ... or does.
FairSpec ==
  /\ Spec /\ ThreadsRun
  /\ \A k \in Calls : WF_vars(ExecutorStep(k) /\ UNCHANGED clientVars)

-----------------------------------------------------------------------------
(* Properties *)

(* TypeOK: a call that has ended has given its reference back once.          *)
TypeOK ==
  /\ up \in BOOLEAN
  /\ cl.st \in ClientCallStates /\ cl.link \in {0, cl.call}
  /\ sv.link \in Calls \cup {0} /\ sv.ref \in 0..NCalls
  /\ \A k \in Calls : ex[k].st \in ServerCallStates /\ ex[k].count \in Nat
  /\ canc.local \in Nat /\ canc.count \in Nat
  /\ \A k \in Calls : result[k] \in {"none", "ok", "fault", "error", "abandoned"}

(* AssocTracksCalls: the server's association counts the calls that hold it, *)
(* and the call it points to, which every packet is handed to, has not been  *)
(* freed (rpc__cn_assoc_push_call, pop_call and dealloc, stop_orphan).       *)
AssocTracksCalls ==
  /\ sv.ref = Cardinality({k \in Calls : ex[k].assoc})
  /\ Running /\ sv.link # 0 => ex[sv.link].assoc

(* ClientNeverIllegal: no packet of the server, in whatever state of the     *)
(* client's call it comes in, is an illegal transition, which would abort    *)
(* the client process (rpc__cn_call_sm_protocol_error).                      *)
ClientNeverIllegal == Alive

(* ServerNeverIllegal: the same of the server; it does not hold.             *)
ServerNeverIllegal == Running

(* IllegalOnlyAfterCompletion: a server aborts only over a call that had     *)
(* been completed, by a fault or as an orphan, before its executor was done  *)
(* with it, or after another call took the association from under one that   *)
(* still ran (send_call_resp_action_rtn, rpc__cn_assoc_send_frag).           *)
IllegalOnlyAfterCompletion ==
  Running \/ LET k == sv.victim IN
    \/ sv.fatal \in {"null_assoc", "null_call_rep"} /\ ex[k].status = "orphaned"
    \/ sv.fatal \in {"recv", "fault_dne", "remote_alert"} /\ ex[k].st = "COMPLETED"
    \/ sv.fatal \in {"send", "null_call_rep"} /\ sv.overlap

\* The fragments of one message, in order and without a gap
InOrder(frags, k) == \A i \in 1..Len(frags) : frags[i] = <<k, i>>

(* OwnResponse: a caller is given the response to its own call only, in      *)
(* order and without a gap, whatever a call before it left on the connection *)
(* (rpc__cn_assoc_receive_frag, handle_recv_frag_action_rtn).                *)
OwnResponse == InOrder(cl.got, cl.call)

(* OwnRequest: a manager is given the request of its own call only; it does  *)
(* not hold.                                                                 *)
OwnRequest == \A k \in Calls : InOrder(seen[k], k)

(* OwnRequestUnlessOverlap: it holds as long as no call starts on the        *)
(* association before the one before it has left it, and then a caller that  *)
(* is told that its call succeeded knows that the manager had all of it.     *)
OwnRequestUnlessOverlap ==
  sv.overlap \/ /\ OwnRequest
                /\ \A k \in Calls \ MaybeCalls : result[k] = "ok" => ex[k].gotlast

(* CancelNotLost: when a call succeeds although its caller was cancelled in  *)
(* it, the manager has taken the cancel or the caller is cancelled again     *)
(* (rpc__cn_call_end).  Three windows are open in the code: a cancel caught  *)
(* when the response is already complete is dropped instead of forwarded,    *)
(* one that the server counts after rpc__cthread_cancel_caf is refused, and  *)
(* one is not counted as sent yet when the last fragment of the response,    *)
(* from the overflow buffer, is compared with the count.                     *)
CancelNotLost ==
  [][\A k \in Calls :
       result[k] = "none" /\ result'[k] = "ok" /\ ~Maybe(k) /\ canc.caught
       => canc'.pending \/ ex[k].acted \/ canc.dropped \/ ex[k].late \/ canc.crossed]_vars

(* CancelEndsCall: a call whose caller is cancelled ends, by the cancel      *)
(* timeout if the manager does not return; it does not hold.                 *)
CancelEndsCall == canc.caught ~> ~InCall

(* CallReturns: if managers return, so do calls, through faults, aborted     *)
(* calls, cancels, and a connection that breaks at any point.  One case is   *)
(* open: a cancel that interrupts the sending of a fault.                    *)
CallReturns == InCall ~> (~InCall \/ ex[cl.call].unsaid)

(* DisconnectEndsCalls: when the connection is gone every call executor of   *)
(* the server comes to its end, those that wait for a fragment included      *)
(* (rem_mark_cancel_action_rtn, rpc__cn_assoc_queue_dummy_frag), unless      *)
(* another call has reset the status of the association under it.            *)
DisconnectEndsCalls ==
  (sv.assoc = "CLOSED" /\ ~sv.overlap)
    ~> (~Running \/ \A k \in Calls : ex[k].pc \in {"none", "freed"})
=============================================================================

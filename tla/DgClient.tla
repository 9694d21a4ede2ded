------------------------------- MODULE DgClient -------------------------------
(***************************************************************************)
(* The client half of the datagram protocol for one activity: calls on one *)
(* binding handle (rpc__dg_call_start, _transceive, _end in dgccall.c and  *)
(* dg.c), the handlers of the server's packets (dgclsn.c), the client's    *)
(* timers and its answer to the server's who-are-you callback (conv.c).    *)
(*                                                                         *)
(* `ccall' is the handle's call.  While it is in the state "recv",         *)
(* "orphan" or "final" it is in the table the handlers look in; when it is *)
(* "idle" it is only cached for the next call, and it is "none" once it is *)
(* uncached.  The sequence numbers come from the activity's client         *)
(* connection table entry and go on when the call handle is a new one.     *)
(***************************************************************************)
EXTENDS DgPackets

CONSTANTS
  MaxGiveUps,   \* bound: calls that fail because the client stops waiting
  MaxResets     \* bound: resets of the binding handle

ASSUME RetryAssumption == MaxGiveUps \in Nat /\ MaxResets \in Nat

VARIABLES
  hboot,     \* the handle's server_boot, 0 while it is not bound to an instance
  ccall,     \* the call
  outcome,   \* history: how each call ended for the application
  giveups, resets

clientVars == <<awaited, hboot, ccall, outcome, giveups, resets>>

NoCcall == [state |-> "none", seq |-> 0, kind |-> "none", boot |-> 0,
            bound |-> FALSE, xq |-> FALSE, done |-> FALSE, ran |-> 0,
            status |-> "ok", reject |-> "none", quack |-> FALSE]

ClientInit ==
  /\ net = {} /\ awaited = 0 /\ hboot = 0 /\ ccall = NoCcall
  /\ outcome = [n \in Seqs |-> "none"]
  /\ giveups = 0 /\ resets = 0

InTable == ccall.state \in {"recv", "orphan", "final"}
\* The next number of the activity: every earlier one has an outcome or is
\* the call in progress.
NextSeq == Cardinality({n \in Seqs : outcome[n] # "none"}) + 1

\* RPC_DG_CCALL_SET_STATE_IDLE: the boot time stays with the cached call.
IdleCcall == [NoCcall EXCEPT !.state = "idle", !.boot = ccall.boot]
AckIfFinal ==
  IF ccall.state = "final" THEN {Packet("ack", ccall.seq, ccall.boot)} ELSE {}

-----------------------------------------------------------------------------
(* The application's thread *)

\* A new call handle takes the boot time from the binding, a cached one
\* keeps its own; both start with rpc_s_ok and nothing received.
InitialBoot == IF ccall.state = "none" THEN hboot ELSE ccall.boot

\* rpc__dg_call_start and the transmission of the request.
StartCall(kind) ==
  /\ ccall.state \in {"none", "idle", "final"} /\ NextSeq \in Seqs
  /\ ccall' = [NoCcall EXCEPT !.state = "recv", !.seq = NextSeq, !.kind = kind,
                 !.boot = InitialBoot, !.bound = hboot # 0, !.xq = TRUE]
  /\ outcome' = [outcome EXCEPT ![NextSeq] = "pending"]
  /\ awaited' = NextSeq
  /\ net' = net \cup {Request(NextSeq, InitialBoot, kind)}
  /\ UNCHANGED <<hboot, giveups, resets>>

\* Mutant: idempotent calls are taken to need the boot time too.
DidMgrExecuteIfBound ==
  ccall.boot # 0 /\ ccall.reject \notin {"unk_if", "who_are_you_failed", "wrong_boot_time"}

\* rpc__dg_call_did_mgr_execute
DidMgrExecute ==
  /\ ~(ccall.boot = 0 /\ ccall.kind # "idem")
  /\ ccall.reject \notin {"unk_if", "who_are_you_failed", "wrong_boot_time"}

\* How the call ends for the application: with a result; failed; or failed
\* with the assurance that the manager did not run.  A call that fails after
\* its result came may have returned it before.
Outcomes ==
  (IF ccall.done /\ ccall.reject = "none" THEN {"ok"} ELSE {})
    \cup (IF ccall.status # "ok"
          THEN {IF DidMgrExecute THEN "failed" ELSE "denied"} ELSE {})

\* rpc__dg_call_transceive returns, binding the handle, and rpc__dg_call_end.
EndCall(result) ==
  /\ ccall.state = "recv" /\ result \in Outcomes
  /\ outcome' = [outcome EXCEPT ![ccall.seq] = result]
  /\ hboot' = IF hboot = 0 /\ ccall.bound THEN ccall.boot ELSE hboot
  /\ IF ~ccall.done
     THEN /\ ccall' = [ccall EXCEPT !.state = "orphan"]
          /\ net' = net \cup {Packet("quit", ccall.seq, ccall.boot)}
          /\ UNCHANGED awaited
     ELSE /\ ccall' = IF ccall.status = "ok" /\ ccall.kind # "idem"
                      THEN [ccall EXCEPT !.state = "final"] ELSE IdleCcall
          /\ awaited' = 0 /\ net' = Lasting
  /\ UNCHANGED <<giveups, resets>>

\* The end of rpc__dg_call_end's wait for the quack.
EndOrphan ==
  /\ ccall.state = "orphan" /\ ccall.quack
  /\ ccall' = IdleCcall /\ awaited' = 0 /\ net' = Lasting
  /\ UNCHANGED <<hboot, outcome, giveups, resets>>

\* rpc__dg_binding_reset, where there is something to reset.
ResetBinding ==
  /\ ccall.state \in {"none", "idle", "final"} /\ resets < MaxResets
  /\ ~(hboot = 0 /\ ccall.state = "none")
  /\ hboot' = 0 /\ ccall' = NoCcall /\ resets' = resets + 1
  /\ net' = net \cup AckIfFinal
  /\ UNCHANGED <<awaited, outcome, giveups>>

-----------------------------------------------------------------------------
(* Timers (rpc__dg_ccall_timer) *)

Waiting == ccall.state = "recv" /\ ccall.status = "ok" /\ ~ccall.done

\* The ping recv_state_timer sends while the call waits for its reply.
Ping == Packet("ping", ccall.seq, ccall.boot)

\* The pings went unanswered, or the call's own time is up.
GiveUp ==
  /\ ccall.state = "recv" /\ ccall.status = "ok" /\ giveups < MaxGiveUps
  /\ ccall' = [ccall EXCEPT !.status = "timeout"]
  /\ giveups' = giveups + 1
  /\ UNCHANGED <<awaited, net, hboot, outcome, resets>>

\* Mutant: the timer of an orphaned call only sends the quit again.
OrphanTimeoutRetries ==
  /\ ccall.state = "orphan" /\ ~ccall.quack
  /\ net' = net \cup {Packet("quit", ccall.seq, ccall.boot)}
  /\ UNCHANGED <<awaited, ccall, hboot, outcome, giveups, resets>>

OrphanTimeout ==
  /\ ccall.state = "orphan" /\ ~ccall.quack
  /\ ccall' = [ccall EXCEPT !.quack = TRUE]
  /\ UNCHANGED <<awaited, net, hboot, outcome, giveups, resets>>

FinalAcks ==
  /\ ccall.state = "final"
  /\ ccall' = IdleCcall /\ net' = net \cup AckIfFinal
  /\ UNCHANGED <<awaited, hboot, outcome, giveups, resets>>

Uncache ==
  /\ ccall.state = "idle" /\ ccall' = NoCcall
  /\ UNCHANGED <<awaited, net, hboot, outcome, giveups, resets>>

-----------------------------------------------------------------------------
(* Packets *)

ChkServerBoot(p) == ccall.boot \in {0, p.boot}
Fail(c, status) == IF c.status = "ok" THEN [c EXCEPT !.status = status] ELSE c

\* rpc__dg_do_common_response: does the reply belong to the call?
Belongs(p) ==
  /\ InTable /\ p.seq = ccall.seq /\ ~ccall.done
  /\ p.type = "working" => ccall.state = "recv"
  /\ p.type = "response" => ccall.state # "orphan"
\* The first reply binds the call to the server that sent it.
Bind(p) == IF ccall.bound THEN ccall
           ELSE [ccall EXCEPT !.bound = TRUE, !.boot = p.boot]

Replied(p, c) ==
  /\ Belongs(p)
  /\ ccall' = IF ChkServerBoot(p) THEN c ELSE Fail(ccall, "wrong_boot_time")
  /\ UNCHANGED <<awaited, net, hboot, outcome, giveups, resets>>

DoResponse(p) ==
  /\ p \in Received("response")
  /\ Replied(p, [Bind(p) EXCEPT !.xq = FALSE, !.done = TRUE, !.ran = p.ran])

\* A response for an earlier call: the server may forget it.
AckOldResponse(p) ==
  /\ p \in Received("response") /\ (~InTable \/ p.seq < ccall.seq)
  /\ net' = net \cup {Packet("ack", p.seq, p.boot)}
  /\ UNCHANGED clientVars

DoReject(p) ==
  /\ p \in Received("reject")
  /\ Replied(p, IF ccall.state = "orphan" THEN [Bind(p) EXCEPT !.quack = TRUE]
                ELSE Fail([Bind(p) EXCEPT !.xq = FALSE, !.done = TRUE,
                                          !.reject = p.body], p.body))

DoWorking(p) ==
  /\ p \in Received("working")
  /\ Replied(p, [Bind(p) EXCEPT !.xq = ccall.xq /\ ccall.kind = "idem"])

DoQuack(p) ==
  /\ p \in Received("quack") /\ ccall.state = "orphan"
  /\ Replied(p, [Bind(p) EXCEPT !.quack = TRUE])

\* rpc__dg_do_nocall: the request is sent again while it is still queued.
DoNocall(p) ==
  /\ p \in Received("nocall")
  /\ ccall.state = "recv" /\ p.seq = ccall.seq /\ ccall.status = "ok"
  /\ IF ChkServerBoot(p)
     THEN /\ ccall.xq
          /\ net' = net \cup {Request(ccall.seq, ccall.boot, ccall.kind)}
          /\ UNCHANGED ccall
     ELSE ccall' = Fail(ccall, "wrong_boot_time") /\ UNCHANGED net
  /\ UNCHANGED <<awaited, hboot, outcome, giveups, resets>>

ClientReceives ==
  \E p \in net :
    \/ DoResponse(p)
    \/ AckOldResponse(p)
    \/ DoReject(p)
    \/ DoWorking(p)
    \/ DoQuack(p)
    \/ DoNocall(p)

\* Mutant: the caller's boot time is not compared with the call's.
WayAnswerAny(boot) == IF InTable THEN ccall.seq ELSE 0

\* conv_who_are_you: the answer to a server with the given boot time, 0 when
\* there is no such call or it belongs to another instance of the server.
WayAnswer(boot) == IF InTable /\ ccall.boot \in {0, boot} THEN ccall.seq ELSE 0
WayStash(boot) ==
  ccall' = IF InTable /\ ccall.boot = 0 THEN [ccall EXCEPT !.boot = boot] ELSE ccall

ClientStep ==
  \/ \E kind \in Kinds : StartCall(kind)
  \/ \E result \in {"ok", "failed", "denied"} : EndCall(result)
  \/ EndOrphan
  \/ ResetBinding
  \/ GiveUp
  \/ OrphanTimeout
  \/ FinalAcks
  \/ Uncache
=============================================================================

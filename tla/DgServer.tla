------------------------------- MODULE DgServer -------------------------------
(***************************************************************************)
(* The server half of the datagram protocol for one activity: the packet   *)
(* handlers of dgslsn.c, the server connection table entry (dgsct.c), the  *)
(* server call handles (dgscall.c) and the call executors (dgexec.c).      *)
(*                                                                         *)
(* A packet handler runs under the global lock and the call's lock and is  *)
(* one action.  An executor holds the call's lock except where             *)
(* rpc__dg_execute_call releases it: before and after the who-are-you      *)
(* callback, during the callback and while the manager runs.  Those are    *)
(* its program counters.                                                   *)
(***************************************************************************)
EXTENDS DgPackets

CONSTANTS
  Scalls,     \* call handles, numbered 1..n
  Executors   \* call threads that run this activity's calls, numbered too

ASSUME SlotAssumption == Scalls \subseteq Nat \ {0} /\ Executors \subseteq Nat

VARIABLES
  sboot,    \* rpc_g_dg_server_boot_time
  scte,     \* the activity's entry in the server connection table
  scall,    \* its call handles
  exe,      \* the call executors
  ways,     \* boot times for which a who-are-you callback was sent
  execs,    \* history: how often the manager ran for each call
  overtaken \* history: was a who-are-you callback overtaken by a newer call?

serverVars == <<sboot, scte, scall, exe, ways, execs, overtaken>>

NoScte == [present |-> FALSE, high |-> 0, valid |-> FALSE, scall |-> 0]
FreeScall == [state |-> "free", seq |-> 0, kind |-> "none", rq |-> FALSE, needs |-> FALSE]
IdleExecutor == [pc |-> "none", scall |-> 0, seq |-> 0, kind |-> "none",
                 ans |-> {}, st |-> "ok"]

ServerInit ==
  /\ sboot = 1 /\ scte = NoScte /\ ways = {}
  /\ scall = [s \in Scalls |-> FreeScall]
  /\ exe = [x \in Executors |-> IdleExecutor]
  /\ execs = [n \in Seqs |-> 0] /\ overtaken = FALSE

-----------------------------------------------------------------------------
(* Lookup and bookkeeping *)

\* rpc__dg_svr_chk_and_set_sboot: an unknown boot time is filled in.
ChkSboot(p) == p.boot \in {0, sboot}

\* rpc__dg_sct_inq_scall: the entry's call handle, unless it is newer than
\* the packet or is no longer the entry's highest call.
InqScall(e, seq) ==
  IF e.scall # 0 /\ scall[e.scall].seq <= seq /\ scall[e.scall].seq = e.high
  THEN e.scall ELSE 0

LiveExecutors(ex, s) == {x \in Executors : ex[x].pc # "none" /\ ex[x].scall = s}

\* A handle that neither the entry nor an executor refers to is freed.
Reclaim(sc, e, ex) ==
  [s \in Scalls |->
     IF e.scall # s /\ LiveExecutors(ex, s) = {} THEN FreeScall ELSE sc[s]]

\* RPC_DG_SCT_IS_WAY_VALIDATED
IsWayValidated == scte.valid /\ ~scall[scte.scall].needs

\* Mutant: the handle is made idle and stays the entry's.
OrphanCallReuses(s) ==
  scte' = scte /\ scall' = [scall EXCEPT ![s].state = "idle"]

\* Mutant: the handle becomes an orphan but the entry still refers to it.
OrphanCallKeeps(s) ==
  scte' = scte /\ scall' = [scall EXCEPT ![s].state = "orphan"]

\* rpc__dg_scall_orphan_call: the handle leaves the entry; its executor, if
\* any, finds out when it next looks at the state.
OrphanCall(s) ==
  LET e == [scte EXCEPT !.scall = 0] IN
  /\ scte' = e
  /\ scall' = Reclaim([scall EXCEPT ![s].state = "orphan"], e, exe)

-----------------------------------------------------------------------------
(* Packets *)

\* rpc__dg_svr_chk_and_set_sboot on a packet for another instance of the server.
WrongBoot(p) ==
  /\ p \in net /\ p.type \in {"request", "quit", "ack"}
  /\ ~ChkSboot(p)
  /\ Send(Reject(p.seq, p.boot, "wrong_boot_time"))
  /\ UNCHANGED serverVars

\* rpc__dg_sct_get: the entry of the activity, made if there is none.
SctGet(seq) ==
  IF scte.present THEN scte
  ELSE [present |-> TRUE, high |-> seq - 1, valid |-> FALSE, scall |-> 0]

\* Mutant: the idempotent flag is not looked at.
DoRequestCommonReruns(high, state, p) ==
  CASE p.seq = high /\ state = "idle" -> "new_call"
    [] p.seq = high /\ state = "recv" -> "cur_call"
    [] p.seq = high /\ state = "final" -> "ping"
    [] p.seq > high /\ state \in {"idle", "final"} -> "new_call"
    [] p.seq > high /\ state = "recv" -> "orphan_cur_call"
    [] OTHER -> "old"

\* do_request_common: what to do with a request, given the highest call and
\* the state of its handle (idle if it has none).
DoRequestCommon(high, state, p) ==
  CASE p.seq = high /\ state = "idle" ->
         IF p.kind = "idem" THEN "new_call" ELSE "non_idem_rerun"
    [] p.seq = high /\ state = "recv" -> "cur_call"
    [] p.seq = high /\ state = "final" -> "ping"
    [] p.seq > high /\ state \in {"idle", "final"} -> "new_call"
    [] p.seq > high /\ state = "recv" -> "orphan_cur_call"
    [] OTHER -> "old"

\* rpc__dg_do_request up to the decision; an "old" request is dropped, and one
\* for a call in its final state only sends the response again.
Decide(p, decision) ==
  LET e == SctGet(p.seq)
      s == InqScall(e, p.seq)
  IN  /\ p \in Received("request") /\ ChkSboot(p)
      /\ decision = DoRequestCommon(e.high, IF s = 0 THEN "idle" ELSE scall[s].state, p)

\* Another packet of the call in progress: only client_needs_sboot changes,
\* the packet itself is a duplicate.
RequestCurrent(p) ==
  /\ Decide(p, "cur_call")
  /\ scall' = [scall EXCEPT ![scte.scall].needs = p.boot = 0]
  /\ UNCHANGED <<net, sboot, scte, exe, ways, execs, overtaken>>

\* A newer call ends the one in progress; the packet is dropped and the
\* client will send it again.
RequestOrphans(p) ==
  /\ Decide(p, "orphan_cur_call")
  /\ OrphanCall(scte.scall)
  /\ UNCHANGED <<net, sboot, exe, ways, execs, overtaken>>

RequestRerun(p) ==
  /\ Decide(p, "non_idem_rerun")
  /\ Send(Reject(p.seq, sboot, "proto_error"))
  /\ UNCHANGED serverVars

FreeScalls == {s \in Scalls : scall[s].state = "free"}
FreeExecutors == {x \in Executors : exe[x].pc = "none"}
Least(S) == CHOOSE s \in S : \A t \in S : s <= t

\* rpc__dg_sct_new_call: the entry's handle is used again whatever its state,
\* or a new one is allocated.
NewCallHandle(e) == IF e.scall # 0 THEN e.scall ELSE Least(FreeScalls)
CanAllocate(e) == e.scall # 0 \/ FreeScalls # {}

NewScall(p, state) ==
  [state |-> state, seq |-> p.seq, kind |-> p.kind, rq |-> state = "recv",
   needs |-> p.boot = 0]

\* A new call: its handle is set up and a call executor is started for it.
RequestNew(p) ==
  LET e == SctGet(p.seq)
      s == NewCallHandle(e)
      x == Least(FreeExecutors)
  IN  /\ Decide(p, "new_call") /\ CanAllocate(e) /\ FreeExecutors # {}
      /\ scte' = [e EXCEPT !.high = p.seq, !.scall = s]
      /\ scall' = [scall EXCEPT ![s] = NewScall(p, "recv")]
      /\ exe' = [exe EXCEPT ![x] = [IdleExecutor EXCEPT !.pc = "start", !.scall = s]]
      /\ UNCHANGED <<net, sboot, ways, execs, overtaken>>

\* Mutant: the entry's high_seq is backed out before the new call has raised it.
RequestNoThreadTooSoon(p) ==
  LET e == SctGet(p.seq)
      s == NewCallHandle(e)
  IN  /\ Decide(p, "new_call") /\ CanAllocate(e)
      /\ scte' = [e EXCEPT !.high = @ - 1, !.scall = s]
      /\ scall' = [scall EXCEPT ![s] = NewScall(p, "idle")]
      /\ UNCHANGED <<net, sboot, exe, ways, execs, overtaken>>

\* ... or the call thread pools refuse it, and rpc__dg_sct_backout_new_call
\* forgets that it came.
RequestNoThread(p) ==
  LET e == SctGet(p.seq)
      s == NewCallHandle(e)
  IN  /\ Decide(p, "new_call") /\ CanAllocate(e)
      /\ scte' = [e EXCEPT !.high = p.seq - 1, !.scall = s]
      /\ scall' = [scall EXCEPT ![s] = NewScall(p, "idle")]
      /\ UNCHANGED <<net, sboot, exe, ways, execs, overtaken>>

\* rpc__dg_do_ping.  A call in its final state sends its response again.
PingReply(p) ==
  LET s == IF scte.present THEN InqScall(scte, p.seq) ELSE 0
      current == s # 0 /\ scall[s].seq = p.seq
  IN  IF ~ChkSboot(p) THEN Reject(p.seq, p.boot, "wrong_boot_time")
      ELSE IF current /\ scall[s].state = "final"
      THEN CHOOSE q \in Received("response") \cup Received("reject") :
             q.seq = p.seq /\ q.boot = sboot
      ELSE Packet(IF current /\ scall[s].state = "recv" THEN "working" ELSE "nocall",
                  p.seq, sboot)

\* A ping that is late does what one sent later does, so it is not kept in
\* the network: it is answered when it is sent, or lost.
DoPing(p) == Send(PingReply(p)) /\ UNCHANGED serverVars

\* rpc__dg_do_quit: an orphan quit is always acknowledged once the call is
\* known, and ends it unless it is idle.
DoQuit(p) ==
  LET s == IF scte.present THEN InqScall(scte, p.seq) ELSE 0 IN
  /\ p \in Received("quit") /\ ChkSboot(p) /\ s # 0
  /\ Send(Packet("quack", p.seq, sboot))
  /\ IF scall[s].seq = p.seq /\ scall[s].state # "idle"
     THEN OrphanCall(s)
     ELSE UNCHANGED <<scte, scall>>
  /\ UNCHANGED <<sboot, exe, ways, execs, overtaken>>

\* rpc__dg_do_ack
DoAck(p) ==
  LET s == IF scte.present THEN InqScall(scte, p.seq) ELSE 0 IN
  /\ p \in Received("ack") /\ ChkSboot(p) /\ s # 0
  /\ scall[s].seq = p.seq /\ scall[s].state = "final"
  /\ scall' = [scall EXCEPT ![s].state = "idle"]
  /\ UNCHANGED <<net, sboot, scte, exe, ways, execs, overtaken>>

ServerReceives ==
  \E p \in net :
    \/ WrongBoot(p)
    \/ RequestCurrent(p)
    \/ RequestOrphans(p)
    \/ RequestRerun(p)
    \/ RequestNew(p)
    \/ RequestNoThread(p)
    \/ DoQuit(p)
    \/ DoAck(p)

-----------------------------------------------------------------------------
(* Call executors (rpc__dg_execute_call) *)

At(x, pc) == exe[x].pc = pc
Handle(x) == scall[exe[x].scall]

\* END_OF_CALL without a response: an orphan stays one, any other call is idle.
EndOfCall(x) ==
  LET s == exe[x].scall
      ex == [exe EXCEPT ![x] = IdleExecutor]
      state == IF scall[s].state = "orphan" THEN "orphan" ELSE "idle"
  IN  /\ exe' = ex
      /\ scall' = Reclaim([scall EXCEPT ![s].state = state], scte, ex)
      /\ UNCHANGED <<net, sboot, scte, ways, execs, overtaken>>

\* The response or reject is sent under the handle's sequence number; the
\* handle keeps it until it is acknowledged, unless the call is idempotent.
SendReply(x, reply, kind) ==
  LET s == exe[x].scall
      ex == [exe EXCEPT ![x] = IdleExecutor]
      state == IF kind = "idem" THEN "idle" ELSE "final"
  IN  /\ Send(reply)
      /\ exe' = ex
      /\ scall' = Reclaim([scall EXCEPT ![s].state = state, ![s].rq = FALSE], scte, ex)
      /\ UNCHANGED <<sboot, scte, ways, execs, overtaken>>

\* The manager starts on the request the executor took from the queue.
CallStub(x, seq, kind, sc) ==
  /\ exe' = [exe EXCEPT ![x].pc = "stub", ![x].seq = seq, ![x].kind = kind,
                        ![x].ans = {}]
  /\ execs' = [execs EXCEPT ![seq] = IF kind = "idem" THEN 1 ELSE @ + 1]
  /\ scall' = sc
  /\ UNCHANGED <<net, sboot, scte, ways, overtaken>>

NotReceiving(x) == Handle(x).state # "recv"

\* The executor's first look at the call.
StartAborts(x) == At(x, "start") /\ NotReceiving(x) /\ EndOfCall(x)

\* It takes the request from the queue.  (Were the queue empty, the assert
\* behind rpc__dg_call_receive_int would end the process: see Crash.)
TakeRequest(x) ==
  At(x, "start") /\ ~NotReceiving(x) /\ Handle(x).rq

Taken(x) == [scall EXCEPT ![exe[x].scall].rq = FALSE]

RejectUnknown(x) ==
  /\ TakeRequest(x) /\ Handle(x).kind = "unknown"
  /\ SendReply(x, Reject(Handle(x).seq, sboot, "unk_if"), "unknown")

\* A non-idempotent call must be the highest one the client has confirmed.
NeedsWay(x) == Handle(x).kind = "nonidem" /\ ~IsWayValidated
OldSequence(x) == Handle(x).kind = "nonidem" /\ Handle(x).seq # scte.high

StartCallsStub(x) ==
  /\ TakeRequest(x) /\ Handle(x).kind # "unknown"
  /\ ~NeedsWay(x) /\ ~OldSequence(x)
  /\ CallStub(x, Handle(x).seq, Handle(x).kind, Taken(x))

StartIsOld(x) ==
  /\ TakeRequest(x) /\ Handle(x).kind # "unknown"
  /\ ~NeedsWay(x) /\ OldSequence(x)
  /\ EndOfCall(x)

\* The call's lock is released to take the global lock first.
StartNeedsWay(x) ==
  /\ TakeRequest(x) /\ Handle(x).kind # "unknown" /\ NeedsWay(x)
  /\ exe' = [exe EXCEPT ![x].pc = "lock", ![x].seq = Handle(x).seq,
                        ![x].kind = Handle(x).kind]
  /\ scall' = Taken(x)
  /\ UNCHANGED <<net, sboot, scte, ways, execs, overtaken>>

LockAborts(x) == At(x, "lock") /\ NotReceiving(x) /\ EndOfCall(x)

\* rpc__dg_sct_way_validate up to the callback, which runs unlocked.
WayValidate(x) ==
  /\ At(x, "lock") /\ ~NotReceiving(x)
  /\ IF IsWayValidated
     THEN exe' = [exe EXCEPT ![x].pc = "relock", ![x].st = "ok"] /\ UNCHANGED ways
     ELSE exe' = [exe EXCEPT ![x].pc = "way"] /\ ways' = ways \cup {sboot}
  /\ UNCHANGED <<net, sboot, scte, scall, execs, overtaken>>

\* While the callback ran the client went on to a newer call, and answered with
\* it or has sent its request.
Overtaken(x, seq) == seq # exe[x].seq \/ scte.scall \notin {0, exe[x].scall}

HighSeqAfterWay(seq) == IF seq < scte.high THEN scte.high ELSE seq

\* ... and after it: the sequence number the client gave is the highest one,
\* and the handle the entry has now is taken to know the boot time.
WaySucceeds(x) ==
  /\ At(x, "way")
  /\ \E seq \in exe[x].ans \ {0} :
       /\ overtaken' = (overtaken \/ Overtaken(x, seq))
       /\ scte' = [scte EXCEPT !.high = HighSeqAfterWay(seq), !.valid = TRUE]
  /\ scall' = [s \in Scalls |->
                 IF s = scte.scall THEN [scall[s] EXCEPT !.needs = FALSE] ELSE scall[s]]
  /\ exe' = [exe EXCEPT ![x].pc = "relock", ![x].st = "ok", ![x].ans = {}]
  /\ UNCHANGED <<net, sboot, ways, execs>>

\* The callback fails: the client answered that it does not know the activity
\* or this server (0), or does not answer at all.
WayFails(x) ==
  /\ At(x, "way")
  /\ exe' = [exe EXCEPT ![x].pc = "relock", ![x].st = "failed", ![x].ans = {}]
  /\ UNCHANGED <<net, sboot, scte, scall, ways, execs, overtaken>>

\* The global lock was released and the call's lock is taken again.
RelockAborts(x) ==
  /\ At(x, "relock")
  /\ NotReceiving(x) \/ (exe[x].st = "ok" /\ Handle(x).seq # scte.high)
  /\ EndOfCall(x)

RelockRejects(x) ==
  /\ At(x, "relock") /\ ~NotReceiving(x) /\ exe[x].st # "ok"
  /\ SendReply(x, Reject(Handle(x).seq, sboot, "who_are_you_failed"), exe[x].kind)

RelockCallsStub(x) ==
  /\ At(x, "relock") /\ ~NotReceiving(x) /\ exe[x].st = "ok"
  /\ Handle(x).seq = scte.high
  /\ CallStub(x, exe[x].seq, exe[x].kind, scall)

\* The manager returns.
StubReturns(x) ==
  /\ At(x, "stub") /\ ~NotReceiving(x)
  /\ SendReply(x, Response(Handle(x).seq, sboot, exe[x].seq), exe[x].kind)

StubOrphaned(x) == At(x, "stub") /\ NotReceiving(x) /\ EndOfCall(x)

ExecutorStep(x) ==
  \/ StartAborts(x)
  \/ RejectUnknown(x)
  \/ StartCallsStub(x)
  \/ StartIsOld(x)
  \/ StartNeedsWay(x)
  \/ LockAborts(x)
  \/ WayValidate(x)
  \/ WaySucceeds(x)
  \/ WayFails(x)
  \/ RelockAborts(x)
  \/ RelockRejects(x)
  \/ RelockCallsStub(x)
  \/ StubReturns(x)
  \/ StubOrphaned(x)

-----------------------------------------------------------------------------
(* Timers and crashes *)

\* Mutant: the timer only sends the response again.
FinalTimeoutResends ==
  /\ scte.scall # 0 /\ scall[scte.scall].state = "final"
  /\ UNCHANGED <<net, serverVars>>

\* rpc__dg_scall_timer: nobody acknowledged the response ...
FinalTimeout ==
  /\ scte.scall # 0 /\ scall[scte.scall].state = "final"
  /\ scall' = [scall EXCEPT ![scte.scall].state = "idle"]
  /\ UNCHANGED <<net, sboot, scte, exe, ways, execs, overtaken>>

\* ... or the handle has been idle for long enough to be uncached.
IdleTimeout ==
  /\ scte.scall # 0 /\ scall[scte.scall].state = "idle"
  /\ scte' = [scte EXCEPT !.scall = 0]
  /\ scall' = Reclaim(scall, [scte EXCEPT !.scall = 0], exe)
  /\ UNCHANGED <<net, sboot, exe, ways, execs, overtaken>>

\* rpc__dg_sct_timer: an entry that nothing refers to is forgotten.
SctTimer ==
  /\ scte.present /\ scte.scall = 0
  /\ \A x \in Executors : exe[x].pc # "way"
  /\ scte' = NoScte
  /\ UNCHANGED <<sboot, scall, exe, ways, execs, overtaken>>

\* The server process ends and is started again with a later boot time.
Crash ==
  /\ sboot < MaxBoot
  /\ sboot' = sboot + 1 /\ scte' = NoScte
  /\ scall' = [s \in Scalls |-> FreeScall]
  /\ exe' = [x \in Executors |-> IdleExecutor]
  /\ UNCHANGED <<net, ways, execs, overtaken>>
=============================================================================

-------------------------------- MODULE DgCall --------------------------------
(***************************************************************************)
(* A client and a server of the datagram protocol (ncklib/transport/dg)    *)
(* joined by the network and by the who-are-you callback, for the calls of *)
(* one activity.  The server may crash and come back with a new boot time. *)
(***************************************************************************)
EXTENDS DgServer, DgClient

vars == <<net, serverVars, clientVars>>

\* A who-are-you callback reaches the client, which answers it under its
\* locks; the callback is idempotent and may reach it more than once.
WhoAreYou(x) ==
  /\ exe[x].pc = "way"
  /\ exe' = [exe EXCEPT ![x].ans = @ \cup {WayAnswer(sboot)}]
  /\ WayStash(sboot)
  /\ UNCHANGED <<net, awaited, sboot, scte, scall, ways, execs, overtaken, hboot, outcome, giveups, resets>>

\* A late copy of one reaches it; nobody waits for the answer any more.
LateWhoAreYou(boot) ==
  /\ boot \in ways /\ WayStash(boot)
  /\ UNCHANGED <<net, serverVars, awaited, hboot, outcome, giveups, resets>>

\* A ping of the waiting client reaches the server.
PingServer == Waiting /\ DoPing(Ping) /\ UNCHANGED clientVars

\* The connection table keeps an entry ten minutes after its last use.
\* Assumption: by then no client is still in a call and no packet is under way.
ForgetActivity == ~InTable /\ SctTimer /\ net' = {}

Init == ServerInit /\ ClientInit

ServerStep ==
  \/ ServerReceives
  \/ \E x \in Executors : ExecutorStep(x)
  \/ FinalTimeout
  \/ IdleTimeout
  \/ Crash

Next ==
  \/ ServerStep /\ UNCHANGED clientVars
  \/ ForgetActivity /\ UNCHANGED clientVars
  \/ PingServer
  \/ (ClientReceives \/ ClientStep) /\ UNCHANGED serverVars
  \/ \E x \in Executors : WhoAreYou(x)
  \/ \E boot \in Boots : LateWhoAreYou(boot)

Spec == Init /\ [][Next]_vars

\* What the client does without hearing from the server.
ClientTimeouts ==
  \/ GiveUp
  \/ \E result \in {"ok", "failed", "denied"} : EndCall(result)
  \/ EndOrphan
  \/ OrphanTimeout
  \/ FinalAcks

(* Timers run and threads are scheduled; a manager returns, and so does the *)
(* who-are-you callback, whose own timeout is finite.  The client's         *)
(* communication timeout is finite too.  Nothing is assumed of the network. *)
Fairness ==
  /\ WF_vars(ClientTimeouts /\ UNCHANGED serverVars)
  /\ \A x \in Executors : WF_vars(ExecutorStep(x) /\ UNCHANGED clientVars)
  /\ WF_vars((FinalTimeout \/ IdleTimeout) /\ UNCHANGED clientVars)

FairSpec == Spec /\ Fairness

-----------------------------------------------------------------------------
(* Properties *)

(* TypeOK: the state of both sides; among its bounds, high_seq and the       *)
(* sequence numbers stay those of the activity's calls.                     *)
Status == {"ok", "timeout", "wrong_boot_time", "proto_error", "unk_if", "who_are_you_failed"}
ServerTypes ==
  /\ sboot \in Boots \ {0} /\ ways \subseteq Boots
  /\ scte \in [present : BOOLEAN, high : 0..MaxSeq, valid : BOOLEAN, scall : Scalls \cup {0}]
  /\ scall \in [Scalls -> [state : {"free", "recv", "final", "idle", "orphan"},
                           seq : 0..MaxSeq, kind : Kinds \cup {"none"},
                           rq : BOOLEAN, needs : BOOLEAN]]
  /\ DOMAIN exe = Executors
  /\ \A x \in Executors :
       /\ exe[x].pc \in {"none", "start", "lock", "way", "relock", "stub"}
       /\ exe[x].scall \in Scalls \cup {0} /\ exe[x].seq \in 0..MaxSeq
       /\ exe[x].kind \in Kinds \cup {"none"} /\ exe[x].ans \subseteq 0..MaxSeq
       /\ exe[x].st \in {"ok", "failed"}
  /\ execs \in [Seqs -> Nat] /\ overtaken \in BOOLEAN
ClientTypes ==
  /\ hboot \in Boots /\ awaited \in 0..MaxSeq
  /\ ccall \in [state : {"none", "idle", "recv", "orphan", "final"}, seq : 0..MaxSeq,
                kind : Kinds \cup {"none"}, boot : Boots, bound : BOOLEAN,
                xq : BOOLEAN, done : BOOLEAN, ran : 0..MaxSeq, status : Status,
                reject : Status \cup {"none"}, quack : BOOLEAN]
  /\ outcome \in [Seqs -> {"none", "pending", "ok", "failed", "denied"}]
  /\ giveups \in 0..MaxGiveUps /\ resets \in 0..MaxResets
TypeOK ==
  /\ \A p \in net : p.seq \in Seqs /\ p.boot \in Boots /\ p.ran \in 0..MaxSeq
  /\ ServerTypes /\ ClientTypes

(* AtMostOnce: whatever the network loses or repeats, and however often the *)
(* server restarts, the manager of a non-idempotent call starts at most     *)
(* once (executors that check high_seq, who-are-you, boot times).           *)
AtMostOnce == \A n \in Seqs : execs[n] <= 1

(* ResponseIsOurs: the result the client's call has received was computed   *)
(* from that call's own request, although a call handle and its executor    *)
(* outlive the call on the server.                                          *)
ResponseIsOurs == ccall.ran \in {0, ccall.seq}

\* The call whose outcome is reported as "it did not run" although it did.
DeniedButRan ==
  \E n \in Seqs : outcome'[n] = "denied" /\ outcome[n] # "denied" /\ execs[n] > 0

(* DenialIsTrue: when rpc__dg_call_did_mgr_execute tells the application    *)
(* that a failed call did not run, it has not run.                          *)
DenialIsTrue == [][~DeniedButRan]_vars

(* The three do not hold as they stand (rpc__dg_sct_way_validate runs the   *)
(* callback unlocked and the client may go on to a newer call during it).   *)
(* That is the only way in which they fail, a restart apart:                *)

(* OnceUnlessOvertaken: a non-idempotent manager starts at most once unless *)
(* a newer call overtook a who-are-you callback.                            *)
OnceUnlessOvertaken == overtaken \/ AtMostOnce

(* OwnResponseUnlessOvertaken: a client gets another call's result only     *)
(* after a newer call overtook a who-are-you callback.                      *)
OwnResponseUnlessOvertaken == overtaken \/ ResponseIsOurs

(* DenialTrueUnlessRestarted: a call that ran is reported as one that did   *)
(* not only after an overtaken callback or a restart of the server.         *)
DenialTrueUnlessRestarted == [][DeniedButRan => overtaken \/ sboot > 1]_vars

(* HandlesFollowExecutors: a call handle that is receiving is the one its   *)
(* connection table entry knows and has an executor that will end it; an    *)
(* orphan exists only while an executor still has to notice it.             *)
HandlesFollowExecutors ==
  \A s \in Scalls :
    /\ scall[s].state = "recv" => scte.scall = s /\ LiveExecutors(exe, s) # {}
    /\ scall[s].state = "orphan" => scte.scall # s /\ LiveExecutors(exe, s) # {}

(* ImplementsContract: the two sides together implement DgContract.         *)
Contract == INSTANCE DgContract
ImplementsContract == Contract!Spec

(* CallReturns: a call ends for the client whatever happens to the packets  *)
(* and to the server: rpc__dg_call_end waits for a quack only so long.      *)
CallReturns ==
  ccall.state \in {"recv", "orphan"} ~> ccall.state \in {"none", "idle", "final"}

(* HandlesAreReleased: the server gets its call handles back although the   *)
(* client never acknowledges the response or has gone away.                 *)
HandleInUse(s) == scall[s].state \in {"recv", "final", "orphan"}
HandlesAreReleased == \A s \in Scalls : HandleInUse(s) ~> ~HandleInUse(s)
=============================================================================

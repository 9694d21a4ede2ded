------------------------------ MODULE DgTransfer ------------------------------
(***************************************************************************)
(* One fragmented request or response between a client and a server of the *)
(* datagram protocol, from the first fragment the sender's stub fills to   *)
(* the packet that tells the sender that everything arrived.               *)
(*                                                                         *)
(* Timers are the runtime's answer to losses.  One that fires while the    *)
(* network is empty and every thread waits costs nothing; one that fires   *)
(* earlier (a slow peer, a slow network) is a fault.                       *)
(***************************************************************************)
EXTENDS DgSender, DgReceiver

vars == <<fragVars, senderVars, receiverVars>>

Init == FragInit /\ SenderInit /\ ReceiverInit

\* A request that ended, or a response the client has or does without.
Finished ==
  IF role = "client" THEN Ended
  ELSE rcv.pc = "failed" \/ (rcv.pc = "over" /\ Ended)

Quiet == net = Silence /\ ~SenderBusy /\ ~ReceiverBusy

Timers ==
  LET cost == IF Quiet THEN 0 ELSE 1
  IN  \/ UNCHANGED receiverVars /\ SenderTimer(cost)
      \/ UNCHANGED senderVars /\ ReceiverTimer(cost)

Deliver ==
  \/ UNCHANGED receiverVars /\ \E p \in Arriving("back") : SenderGets(p)
  \/ UNCHANGED senderVars /\ \E p \in Arriving("there") : ReceiverGets(p)

Threads ==
  \/ UNCHANGED receiverVars /\ SenderThread
  \/ UNCHANGED senderVars /\ ReceiverThread

Runs == ~Finished /\ (Threads \/ Deliver \/ Timers)

Lose == ~Finished /\ (Loses("there") \/ Loses("back")) /\ UNCHANGED <<senderVars, receiverVars>>

Next == Runs \/ Lose

Spec == Init /\ [][Next]_vars
FairSpec == Spec /\ WF_vars(Runs)

-----------------------------------------------------------------------------
(* Properties *)

\* Type, and the accounting of the congestion window (rpc__dg_call_xmit,
\* rpc__dg_fack_common, rpc__dg_xmitq_restart): as long as fragments are queued,
\* cwindow_size counts those marked in_cwindow and freqs_out those of them that
\* ask for a fack; only what was sent is in the window or to be sent again; the
\* receive queue does not outgrow its limit.
TypeOK ==
  /\ role \in Roles /\ len \in Lengths /\ faults \in 0..MaxFaults
  /\ snd.pc \in {"fill", "push", "sent", "done", "failed"}
  /\ rcv.pc \in {"none", "recv", "over", "failed"}
  /\ xq.q \subseteq 0..(xq.next - 1) /\ xq.unsent..(xq.next - 1) \subseteq xq.q
  /\ xq.cw \cup xq.re \subseteq {f \in xq.q : f < xq.unsent}
  /\ xq.q # {} => xq.cwindow = Cardinality(xq.cw) /\ xq.freqs = Cardinality(xq.cw \ xq.quiet)
  /\ xq.maxb \in InitialMaxBlast..MaxBlast /\ xq.blast \in 0..MaxBlast
  /\ rq.q \subseteq 0..(len - 1) /\ Cardinality(rq.q) <= MaxQueue
  /\ rq.next \in 0..len /\ rcv.got \in 0..len

\* A fragment the sender frees is queued at the receiver or was consumed by it
\* (cumulative and selective acknowledgements, rpc__dg_fack_common); the receiver
\* takes the message for complete only when it is (all_pkts_recvd), although the
\* sender may mark an earlier fragment as its last; a call whose peer answered
\* has delivered everything.
NothingLost ==
  /\ snd.pc # "failed" => 0..(xq.next - 1) \subseteq xq.q \cup rq.q \cup 0..(rcv.got - 1)
  /\ rq.all => rq.next = len
  /\ snd.pc = "done" => rcv.got = len

\* One end gives the message up: a request fails, or a response fails before
\* the client has it.
GaveUp ==
  \/ snd.pc = "failed" /\ (role = "client" \/ ~rq.all)
  \/ rcv.pc = "failed"

\* Retransmissions, pings and their answers make up for a lost, late, duplicated
\* or dropped packet: nobody gives up before as many faults as it retries
\* (rpc__dg_call_xmitq_timer, recv_state_timer, rpc__dg_do_nocall, ping_common).
GivesUpOnlyAfterFaults ==
  GaveUp => faults >= (IF MaxTries < MaxPings THEN MaxTries ELSE MaxPings)

\* The client has the response and its acknowledgement is lost, but facks have
\* emptied the server's transmit queue: nothing is left to send again, and the
\* timer of the final state leaves the call alone.
LeftFinal == role = "server" /\ snd.pc = "sent" /\ xq.q = {} /\ rcv.pc = "over"

\* Every transfer ends, with the message delivered or given up: no window, lost
\* wakeup or lost fack leaves both ends waiting for each other.
TransferEnds == <>(Finished \/ LeftFinal)

\* As TransferEnds, for the server's call too: "Retransmit response if necessary;
\* eventually give up and change to the idle state" (dgscall.c:591).
FinalStateEnds == <>Finished
=============================================================================

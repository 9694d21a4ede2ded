----------------------------- MODULE CnLegalProofs -----------------------------
(***************************************************************************)
(* Proofs about CnCall for every number of calls, of fragments and of      *)
(* cancels: whatever the server and the connection do, no event that comes *)
(* to the client's state machine is illegal, and the server is aborted     *)
(* only over a call that had been completed or by calls that overlap.      *)
(***************************************************************************)
EXTENDS CnCallProofs

-----------------------------------------------------------------------------
(* The invariant *)

\* The calling thread c is at a place of cncclsm.c where no event that can come is
\* illegal: a call that has sent nothing is still with its stub, and a call whose
\* last fragment is out waits for the response or is over.
Orderly(c) ==
  /\ c.fatal = "none"
  /\ c.pc = "idle" => c.link = 0
  /\ c.pc # "idle" => c.st \in {"STUB_WAIT", "REQUEST", "RESPONSE", "COMPLETED", "FAILED"}
  /\ c.pc # "idle" /\ c.st = "STUB_WAIT" =>
       IF c.pc \in {"send", "sent"} THEN c.sending.type = "request"
       ELSE c.pc = "stub" /\ c.nsent = 0
  /\ c.pc # "idle" /\ c.phase = "out" =>
       \/ c.st \in {"RESPONSE", "COMPLETED", "FAILED"}
       \/ c.pc \in {"send", "sent"} /\ c.sending.type = "request"
  /\ c.pc \in {"send", "sent"} /\ c.sending.type = "request"
       => (c.sending.last <=> c.phase = "out")

\* The last fragment of the request has been sent.
Asked(c) == c.phase = "out" /\ ~(c.pc = "send" /\ c.sending.type = "request")

\* The server's call has said its last.
Done(r) == r.pc = "freed" \/ (r.st = "COMPLETED" /\ r.pc # "send")

\* What is said last is said when the call is complete (cnsclsm.c).
Speaker(r, k) ==
  /\ r.pc = "none" => r.st = "INIT"
  /\ r.pc = "send" =>
       /\ ~Maybe(k)
       /\ r.sending.last => r.st = "COMPLETED"
       /\ r.sending.type = "fault" => r.sending.last

\* A packet of a call comes from its executor; nothing of the call follows its last.
Speech(s, r, k) ==
  \A i \in 1..Len(s) : s[i].call = k =>
    /\ r.pc # "none" /\ ~Maybe(k)
    /\ s[i].type = "fault" => s[i].last
    /\ s[i].last => Done(r) /\ \A j \in 1..Len(s) : i < j => s[j].call # k

Says == \A k \in Calls : Speaker(ex[k], k) /\ Speech(s2c, ex[k], k)

\* Nothing of call k is on its way, and nothing will be.
Silent(k) == (\A i \in 1..Len(s2c) : s2c[i].call # k) /\ (Maybe(k) \/ Done(ex[k]))

\* The last fragment of the request of call k
Closes(p, k) == p.type = "request" /\ p.last /\ p.call = k

\* The server answers call k, or can.
Answering(k) ==
  \/ ex[k].st = "RESPONSE"
  \/ ex[k].pc = "send" /\ ex[k].sending.type = "response"
  \/ \E i \in 1..Len(s2c) : s2c[i].type = "response" /\ s2c[i].call = k
  \/ \E i \in 1..Len(c2s) : Closes(c2s[i], k)

\* A packet of the call comes when the call can do with it.
Timely(c, p) ==
  p.call = c.call => c.st # "STUB_WAIT" /\ (p.type = "response" => c.st # "REQUEST")

\* So will what an earlier read has left for the receiver thread, which does not
\* wait until a send is over.
Ahead ==
  /\ cl.ovf <= Len(s2c)
  /\ InCall => \A i \in 1..Len(s2c) : i <= cl.ovf => Timely(cl, s2c[i])

LegalInv ==
  /\ Orderly(cl) /\ Says
  /\ InCall /\ cl.st \in {"COMPLETED", "FAILED"} => Silent(cl.call)
  /\ InCall /\ Answering(cl.call) => Asked(cl)

-----------------------------------------------------------------------------
(* What a step of the server does to a call *)

\* The record r of call k becomes q: a call that is over stays so, an executor
\* begins to answer when it may, and can answer when the request is complete.
Speaks(r, q, k) ==
  /\ q.pc = "none" => r.pc = "none" /\ q.st = r.st
  /\ Done(r) => Done(q)
  /\ q.pc = "send" =>
       IF r.pc = "send" THEN q.sending = r.sending /\ (r.st = "COMPLETED" => q.st = "COMPLETED")
       ELSE /\ Speaker(q, k)
            /\ q.sending.type = "response" => r.st = "RESPONSE"
  /\ q.st = "RESPONSE" => r.st = "RESPONSE" \/ \E i \in 1..Len(c2s) : Closes(c2s[i], k)

\* A call that is only nudged
LEMMA NudgedSpeaks ==
  ASSUME NEW k, NEW r, NEW q, Nudged(r, q)
  PROVE  Speaks(r, q, k)
BY DEF Nudged, Speaks, Done

\* A step in which nothing is said and the state machine does not move
LEMMA QuietSpeaks ==
  ASSUME NEW k, NEW r, NEW q, q.st = r.st, q.pc \notin {"none", "send"}, r.pc # "freed"
  PROVE  Speaks(r, q, k)
BY DEF Speaks, Done

\* The other calls are left alone.
LEMMA AloneSpeaks ==
  ASSUME ex \in [Calls -> ServerReps], NEW k \in Calls, NEW q, ex' = [ex EXCEPT ![k] = q],
         Speaks(ex[k], q, k)
  PROVE  \A j \in Calls : Speaks(ex[j], ex'[j], j)
<1> TAKE j \in Calls
<1>1. CASE j = k
  BY <1>1
<1>2. CASE j # k
  <2>1. ex'[j] = ex[j] /\ ex[j] \in ServerReps
    BY <1>2
  <2>2. Nudged(ex[j], ex'[j])
    BY <2>1 DEF Nudged
  <2> QED BY <2>2, NudgedSpeaks
<1> QED BY <1>1, <1>2

\* Nothing is said: the executor looks for a fragment.
LEMMA ReceiverSpeaks ==
  ASSUME CallInv, NEW k \in Calls,
         ExecutorReceives(k) \/ ManagerReceives(k) \/ ExecutorWakes(k) \/ ExecutorWaitCancelled(k)
  PROVE  \A j \in Calls : Speaks(ex[j], ex'[j], j)
<1>1. sv \in Assocs /\ ex \in [Calls -> ServerReps] /\ ex[k] \in ServerReps
  BY AtStep
<1>2. PICK r \in ServerReps : r = ex[k]
  BY <1>1
<1>3. r.pc # "freed"
  BY <1>2 DEF ExecutorReceives, ManagerReceives, ExecutorWakes, ExecutorWaitCancelled, InManager
<1>4. ASSUME NEW q, Received(r, q), ex' = [ex EXCEPT ![k] = q]
      PROVE  \A j \in Calls : Speaks(ex[j], ex'[j], j)
  <2>1. q.st = r.st /\ q.pc \notin {"none", "send"}
    BY <1>4 DEF Received
  <2>2. Speaks(r, q, k)
    BY <1>3, <2>1, QuietSpeaks
  <2> QED BY <1>1, <1>2, <1>4, <2>2, AloneSpeaks
<1>5. PICK m : m = ReceiveFails(r)
  OBVIOUS
<1>6. Received(r, m) /\ m \in ServerReps /\ Nudged(r, r)
  BY <1>5, ReceiveFailsEffect DEF Received, Nudged
<1>7. CASE ExecutorReceives(k) \/ ManagerReceives(k)
  <2>1. CallReceiveFor(k)
    BY <1>7 DEF ExecutorReceives, ManagerReceives
  <2>2. CASE ex[k].status = "orphaned"
    <3>1. ex' = [ex EXCEPT ![k] = m]
      BY <1>2, <1>5, <2>1, <2>2 DEF CallReceiveFor
    <3> QED BY <1>4, <1>6, <3>1
  <2>3. CASE ex[k].status # "orphaned"
    <3>1. ReceiveFrag(sv, ex, k)
      BY <2>1, <2>3 DEF CallReceiveFor
    <3> QED BY <1>1, <1>2, <1>4, <3>1, ReceiveFragEffect
  <2> QED BY <2>2, <2>3
<1>8. CASE ExecutorWakes(k) /\ ex[k].looks # sv.link
  <2>1. PICK q : q = [m EXCEPT !.woken = FALSE]
    OBVIOUS
  <2>2. q \in ServerReps
    BY <1>6, <2>1, ZenonT(60) DEF ServerReps
  <2>3. Nudged(m, q)
    BY <1>6, <2>1, <2>2 DEF Nudged, ServerReps
  <2>4. ex' = [ex EXCEPT ![k] = q]
    BY <1>2, <1>5, <1>8, <2>1 DEF ExecutorWakes
  <2> QED BY <1>4, <1>6, <2>3, <2>4, ReceivedNudged
<1>9. CASE ExecutorWakes(k) /\ ex[k].looks = sv.link
  <2>1. PICK s : s = [r EXCEPT !.woken = FALSE]
    OBVIOUS
  <2>2. s \in ServerReps
    BY <2>1 DEF ServerReps
  <2>3. Nudged(r, s)
    BY <2>1, <2>2 DEF Nudged, ServerReps
  <2>4. PICK e : e = [ex EXCEPT ![k] = s]
    OBVIOUS
  <2>5. ReceiveFrag(sv, e, k)
    BY <1>2, <1>9, <2>1, <2>4 DEF ExecutorWakes
  <2>6. e \in [Calls -> ServerReps] /\ e[k] = s
    BY <1>1, <2>2, <2>4
  <2>7. PICK q : ex' = [e EXCEPT ![k] = q] /\ Received(s, q)
    BY <1>1, <2>5, <2>6, ReceiveFragEffect
  <2>8. ex' = [ex EXCEPT ![k] = q]
    BY <1>1, <2>4, <2>7
  <2>9. Nudged(q, q)
    BY <2>7 DEF Nudged, Received
  <2> QED BY <1>4, <2>3, <2>7, <2>8, <2>9, ReceivedNudged
<1>10. CASE ExecutorWaitCancelled(k)
  <2>1. PICK q : q = [m EXCEPT !.woken = FALSE, !.cancelled = FALSE, !.acted = TRUE]
    OBVIOUS
  <2>2. q.st = m.st /\ q.pc = m.pc
    BY <1>6, <2>1 DEF ServerReps
  <2>3. ex' = [ex EXCEPT ![k] = q]
    BY <1>2, <1>5, <1>10, <2>1 DEF ExecutorWaitCancelled
  <2>4. q.st = r.st /\ q.pc \notin {"none", "send"}
    BY <1>6, <2>2 DEF Received
  <2>5. Speaks(r, q, k)
    BY <1>3, <2>4, QuietSpeaks
  <2> QED BY <1>1, <1>2, <2>3, <2>5, AloneSpeaks
<1> QED BY <1>7, <1>8, <1>9, <1>10

\* Nor when it gets the call, enters the stub, takes a cancel, gives a send up,
\* refuses the call or is done with it.
LEMMA TurnSpeaks ==
  ASSUME CallInv, NEW k \in Calls,
         \/ ExecutorStarts(k) \/ Invoke(k) \/ ExecutorRefuses(k) \/ ManagerReturns(k)
         \/ ManagerTakesCancel(k) \/ ServerSendmsgCancelled(k)
  PROVE  \A j \in Calls : Speaks(ex[j], ex'[j], j)
<1>1. sv \in Assocs /\ ex \in [Calls -> ServerReps] /\ ex[k] \in ServerReps
  BY AtStep
<1>2. PICK r \in ServerReps : r = ex[k]
  BY <1>1
<1>3. r.pc \notin {"none", "freed"}
  BY <1>2 DEF ExecutorStarts, Invoke, ExecutorRefuses, ManagerReturns, ManagerTakesCancel,
     ServerSendmsgCancelled, InManager
<1>4. ASSUME NEW q, ex' = [ex EXCEPT ![k] = q], q.st = r.st, q.pc \notin {"none", "send"}
      PROVE  \A j \in Calls : Speaks(ex[j], ex'[j], j)
  <2>1. Speaks(r, q, k)
    BY <1>3, <1>4, QuietSpeaks
  <2> QED BY <1>1, <1>2, <1>4, <2>1, AloneSpeaks
<1>5. ASSUME NEW m, Nudged(r, m), NEW pc \in {"ready", "mgr", "rejecting", "ending"},
             ex' = [ex EXCEPT ![k] = [m EXCEPT !.pc = pc]]
      PROVE  \A j \in Calls : Speaks(ex[j], ex'[j], j)
  <2>1. PICK q : q = [m EXCEPT !.pc = pc]
    OBVIOUS
  <2>2. Turns(r, q, pc)
    BY <1>5, <2>1, TurnEffect
  <2> QED BY <1>4, <1>5, <2>1, <2>2 DEF Turns
<1>6. Nudged(r, r) /\ Nudged(r, CancelCaf(r)) /\ Nudged(r, EnablePost(r))
  BY CancelNudges DEF Nudged
<1>7. CASE ExecutorStarts(k)
  <2>1. ex' = [ex EXCEPT ![k] = [r EXCEPT !.pc = "ready"]]
    BY <1>2, <1>7 DEF ExecutorStarts
  <2> QED BY <1>5, <1>6, <2>1
<1>8. CASE Invoke(k)
  <2>1. CASE ex[k].assoc
    <3>1. ex' = [ex EXCEPT ![k] = [EnablePost(r) EXCEPT !.pc = "mgr"]]
      BY <1>2, <1>8, <2>1 DEF Invoke
    <3> QED BY <1>5, <1>6, <3>1
  <2>2. CASE ~ex[k].assoc
    <3>1. ex' = [ex EXCEPT ![k] = r]
      BY <1>1, <1>2, <1>8, <2>2 DEF Invoke
    <3>2. r.pc = "recvd"
      BY <1>2, <1>8 DEF Invoke
    <3> QED BY <1>4, <3>1, <3>2
  <2> QED BY <2>1, <2>2
<1>9. CASE ExecutorRefuses(k)
  <2>1. ex' = [ex EXCEPT ![k] = [CancelCaf(r) EXCEPT !.pc = "rejecting"]]
    BY <1>2, <1>9 DEF ExecutorRefuses
  <2> QED BY <1>5, <1>6, <2>1
<1>10. CASE ManagerReturns(k)
  <2>1. ex' = [ex EXCEPT ![k] = [CancelCaf(r) EXCEPT !.pc = "ending"]]
    BY <1>2, <1>10 DEF ManagerReturns
  <2> QED BY <1>5, <1>6, <2>1
<1>11. CASE ManagerTakesCancel(k)
  <2>1. PICK q : q = [r EXCEPT !.cancelled = FALSE, !.acted = TRUE]
    OBVIOUS
  <2>2. q.st = r.st /\ q.pc = r.pc
    BY <2>1 DEF ServerReps
  <2>3. ex' = [ex EXCEPT ![k] = q]
    BY <1>2, <1>11, <2>1 DEF ManagerTakesCancel
  <2>4. r.pc = "mgr"
    BY <1>2, <1>11 DEF ManagerTakesCancel, InManager
  <2> QED BY <1>4, <2>2, <2>3, <2>4
<1>13. CASE ServerSendmsgCancelled(k) /\ sv.link = 0
  <2>1. ex' = ex
    BY <1>13 DEF ServerSendmsgCancelled
  <2>2. \A j \in Calls : Nudged(ex[j], ex'[j])
    BY <1>1, <2>1 DEF Nudged
  <2> QED BY <2>2, NudgedSpeaks
<1>12. CASE ServerSendmsgCancelled(k) /\ sv.link # 0
  <2>1. PICK q : q = [r EXCEPT !.pc = "mgr", !.failed = TRUE, !.cancelled = FALSE, !.acted = TRUE,
                               !.unsaid = r.sending.last]
    OBVIOUS
  <2>2. q.st = r.st /\ q.pc = "mgr"
    BY <2>1 DEF ServerReps
  <2>3. ex' = [ex EXCEPT ![k] = q]
    BY <1>2, <1>12, <2>1 DEF ServerSendmsgCancelled
  <2> QED BY <1>4, <2>2, <2>3
<1> QED BY <1>7, <1>8, <1>9, <1>10, <1>11, <1>12, <1>13

\* A nudge after a step makes no difference.
LEMMA SpeaksNudged ==
  ASSUME NEW k, NEW r, NEW q, NEW s, Speaks(r, q, k), Nudged(q, s)
  PROVE  Speaks(r, s, k)
BY DEF Speaks, Speaker, Nudged, Done

\* A call makes a step and somebody may be woken.
LEMMA WokenSpeaks ==
  ASSUME ex \in [Calls -> ServerReps], NEW k \in Calls, NEW q \in ServerReps,
         NEW w \in Calls \cup {0}, ex' = Wake([ex EXCEPT ![k] = q], w), Speaks(ex[k], q, k)
  PROVE  \A j \in Calls : Speaks(ex[j], ex'[j], j)
<1>1. PICK e : e = [ex EXCEPT ![k] = q]
  OBVIOUS
<1>2. e \in [Calls -> ServerReps] /\ e[k] = q /\ \A j \in Calls : j # k => e[j] = ex[j]
  BY <1>1
<1>3. \A j \in Calls : Nudged(e[j], ex'[j])
  BY <1>1, <1>2, WakesNudge
<1> TAKE j \in Calls
<1>4. CASE j = k
  BY <1>2, <1>3, <1>4, SpeaksNudged
<1>5. CASE j # k
  <2>1. Nudged(ex[j], ex'[j])
    BY <1>2, <1>3, <1>5
  <2> QED BY <2>1, NudgedSpeaks
<1> QED BY <1>4, <1>5

\* What a fault event says: the call was not complete, is now, and the fault that
\* goes out is the last packet.
Accuses(e, k, event, then) ==
  \/ ex' = e /\ ~ServerLegal(e[k].st, event)
  \/ /\ e[k].st \in {"REQUEST", "RESPONSE"}
     /\ \E q : /\ ex' = [e EXCEPT ![k] = q] /\ q.st = "COMPLETED"
               /\ \/ q.pc = then
                  \/ /\ q.pc = "send" /\ ~Maybe(k)
                     /\ q.sending.last /\ q.sending.type = "fault"

\* The two fault events
LEMMA FaultSpeech ==
  ASSUME NEW s \in Assocs, NEW e \in [Calls -> ServerReps],
         NEW k \in Calls, NEW event \in {"fault", "fault_dne"}, NEW then \in {"mgr", "ending"},
         FaultEvent(s, e, k, event, then)
  PROVE  Accuses(e, k, event, then)
<1>1. CASE ~ServerLegal(e[k].st, event)
  BY <1>1 DEF FaultEvent, Accuses
<1>2. CASE ServerLegal(e[k].st, event)
  <2>1. PICK r \in ServerReps : r = e[k]
    OBVIOUS
  <2>2. r.st \in {"REQUEST", "RESPONSE"}
    <3>1. r.st \in ServerCallStates
      BY DEF ServerReps
    <3> QED BY <1>2, <2>1, <3>1, ServerStates DEF ServerLegal, ServerCallTable
  <2>3. PICK status : status = IF s.astat # "ok" /\ r.st = "RESPONSE" /\ ~Maybe(k) THEN "orphaned"
                               ELSE r.status
    OBVIOUS
  <2>4. PICK c : c = [r EXCEPT !.st = "COMPLETED", !.status = status]
    OBVIOUS
  <2>5. PICK f : f = [e EXCEPT ![k].st = "COMPLETED", ![k].status = status]
    OBVIOUS
  <2>6. f = [e EXCEPT ![k] = c]
    BY <2>1, <2>4, <2>5
  <2>7. IF Maybe(k) \/ s.astat # "ok" THEN ex' = [f EXCEPT ![k].pc = then]
        ELSE SendFrag(s, f, k, LastFault(k), then)
    BY <1>2, <2>1, <2>3, <2>5 DEF FaultEvent
  <2>8. CASE Maybe(k) \/ s.astat # "ok"
    <3>1. PICK q : q = [c EXCEPT !.pc = then]
      OBVIOUS
    <3>2. ex' = [e EXCEPT ![k] = q]
      BY <2>6, <2>7, <2>8, <3>1
    <3>3. q.st = "COMPLETED" /\ q.pc = then
      BY <2>4, <3>1 DEF ServerReps
    <3> QED BY <2>1, <2>2, <3>2, <3>3 DEF Accuses
  <2>9. CASE ~Maybe(k) /\ s.astat = "ok"
    <3>1. PICK p : p = LastFault(k)
      OBVIOUS
    <3>2. p.last = TRUE /\ p.type = "fault"
      BY <3>1 DEF LastFault, Fault, Packet
    <3>3. PICK q : q = [c EXCEPT !.pc = "send", !.sending = p, !.then = then, !.failed = FALSE]
      OBVIOUS
    <3>4. ex' = [e EXCEPT ![k] = q]
      BY <2>6, <2>7, <2>9, <3>1, <3>3 DEF SendFrag
    <3>5. q.st = "COMPLETED" /\ q.pc = "send" /\ q.sending = p
      BY <2>4, <3>3 DEF ServerReps
    <3> QED BY <2>1, <2>2, <2>9, <3>2, <3>4, <3>5 DEF Accuses
  <2> QED BY <2>8, <2>9
<1> QED BY <1>1, <1>2

\* A call that had not ended has, and may say so.
LEMMA FaultedSpeaks ==
  ASSUME NEW k \in Calls, NEW r, NEW q, ~Done(r), r.pc # "send", q.st = "COMPLETED",
         \/ q.pc \in {"mgr", "ending"}
         \/ q.pc = "send" /\ ~Maybe(k) /\ q.sending.last /\ q.sending.type = "fault"
  PROVE  Speaks(r, q, k)
BY DEF Speaks, Speaker

\* The steps in which a fault may go out
LEMMA FaultsSpeak ==
  ASSUME CallInv, NEW k \in Calls, ManagerFaults(k) \/ ExecutorRejects(k)
  PROVE  \A j \in Calls : Speaks(ex[j], ex'[j], j)
<1>1. ex \in [Calls -> ServerReps]
  BY AtStep
<1>2. PICK r \in ServerReps : r = ex[k]
  BY <1>1
<1>3. PICK c : c = [r EXCEPT !.status = "rejected"]
  OBVIOUS
<1>4. c \in ServerReps /\ c.st = r.st /\ c.pc = r.pc
  BY <1>3 DEF ServerReps
<1>5. PICK m \in ServerReps, event \in {"fault", "fault_dne"}, then \in {"mgr", "ending"} :
        /\ m.st = r.st /\ m.pc = r.pc
        /\ FaultEvent(sv, [ex EXCEPT ![k] = m], k, event, then)
        /\ r.pc \in {"mgr", "rejecting"}
  <2>1. CASE ManagerFaults(k)
    <3>1. ex = [ex EXCEPT ![k] = r]
      BY <1>1, <1>2
    <3>2. FaultEvent(sv, ex, k, "fault", "mgr") /\ r.pc = "mgr"
      BY <1>2, <2>1 DEF ManagerFaults, InManager
    <3> QED BY <3>1, <3>2
  <2>2. CASE ExecutorRejects(k)
    <3>1. [ex EXCEPT ![k].status = "rejected"] = [ex EXCEPT ![k] = c]
      BY <1>2, <1>3
    <3>2. FaultEvent(sv, [ex EXCEPT ![k].status = "rejected"], k, "fault_dne", "ending")
      BY <2>2 DEF ExecutorRejects, CallReject
    <3>3. r.pc = "rejecting"
      BY <1>2, <2>2 DEF ExecutorRejects
    <3> QED BY <1>4, <3>1, <3>2, <3>3
  <2> QED BY <2>1, <2>2
<1>6. PICK e : e = [ex EXCEPT ![k] = m]
  OBVIOUS
<1>7. e \in [Calls -> ServerReps] /\ e[k] = m
  BY <1>1, <1>6
<1>8. FaultEvent(sv, e, k, event, then)
  BY <1>5, <1>6
<1>9. Accuses(e, k, event, then)
  <2>1. sv \in Assocs
    BY AtStep
  <2> QED BY <1>7, <1>8, <2>1, FaultSpeech
<1>10. CASE ex' = e
  <2>1. m.pc \notin {"none", "send"} /\ r.pc # "freed"
    BY <1>5
  <2>2. Speaks(r, m, k)
    BY <1>5, <2>1, QuietSpeaks
  <2> QED BY <1>1, <1>2, <1>6, <1>10, <2>2, AloneSpeaks
<1>11. ASSUME m.st \in {"REQUEST", "RESPONSE"},
              NEW q, ex' = [e EXCEPT ![k] = q], q.st = "COMPLETED",
              \/ q.pc = then
              \/ q.pc = "send" /\ ~Maybe(k) /\ q.sending.last /\ q.sending.type = "fault"
       PROVE  \A j \in Calls : Speaks(ex[j], ex'[j], j)
  <2>1. ~Done(r) /\ r.pc # "send"
    BY <1>5, <1>11 DEF Done
  <2>2. Speaks(r, q, k)
    BY <1>11, <2>1, FaultedSpeaks
  <2>3. ex' = [ex EXCEPT ![k] = q]
    BY <1>1, <1>6, <1>11
  <2> QED BY <1>1, <1>2, <2>2, <2>3, AloneSpeaks
<1> QED BY <1>7, <1>9, <1>10, <1>11 DEF Accuses

\* The rest of rpc__cn_call_end: the record is as before the call.
LEMMA EndCallSpeaks ==
  ASSUME ex \in [Calls -> ServerReps], NEW s, NEW k \in Calls, NEW m \in ServerReps,
         EndCall(s, [ex EXCEPT ![k] = m], k)
  PROVE  \A j \in Calls : Speaks(ex[j], ex'[j], j)
<1>1. PICK n : n = NoRep
  OBVIOUS
<1>2. n \in ServerReps /\ n.st = "INIT"
  <2>1. n.st = "INIT"
    BY <1>1 DEF NoRep
  <2> QED BY <1>1, <2>1, NoRepType
<1>3. PICK e : e = [ex EXCEPT ![k] = m]
  OBVIOUS
<1>4. PICK q : q = [n EXCEPT !.pc = "freed", !.gotlast = e[k].gotlast, !.acted = e[k].acted,
                             !.late = e[k].late, !.unsaid = e[k].unsaid]
  OBVIOUS
<1>5. ex' = [e EXCEPT ![k] = q]
  BY <1>1, <1>3, <1>4 DEF EndCall
<1>6. ex' = [ex EXCEPT ![k] = q]
  BY <1>3, <1>5
<1>7. q.pc = "freed" /\ q.st = "INIT"
  BY <1>2, <1>4 DEF ServerReps
<1>8. Speaks(ex[k], q, k)
  BY <1>7 DEF Speaks, Done
<1> QED BY <1>6, <1>8, AloneSpeaks

\* The call ends, at once or after the last of the response.
LEMMA EndSpeaks ==
  ASSUME CallInv, NEW k \in Calls, ServerCallEnd(k) \/ ServerSent(k)
  PROVE  \A j \in Calls : Speaks(ex[j], ex'[j], j)
<1>1. sv \in Assocs /\ ex \in [Calls -> ServerReps]
  BY AtStep
<1>2. PICK r \in ServerReps : r = ex[k]
  BY <1>1
<1>3. CASE ServerCallEnd(k)
  <2>1. PICK st \in {"NO_NSTATE", "COMPLETED"} : st = IF r.st = "REQUEST" THEN "NO_NSTATE" ELSE "COMPLETED"
    OBVIOUS
  <2>2. PICK m : m = [r EXCEPT !.st = st]
    OBVIOUS
  <2>3. m \in ServerReps
    <3>1. st \in ServerCallStates
      BY ServerStates
    <3> QED BY <2>2, <3>1 DEF ServerReps
  <2>4. PICK e : e = [ex EXCEPT ![k] = m]
    OBVIOUS
  <2>5. [ex EXCEPT ![k].st = IF @ = "REQUEST" THEN "NO_NSTATE" ELSE "COMPLETED"] = e
    BY <1>1, <1>2, <2>1, <2>2, <2>4
  <2>6. r.pc = "ending"
    BY <1>2, <1>3 DEF ServerCallEnd
  <2>7. CASE ex[k].st = "RESPONSE" /\ ~Maybe(k) /\ ex[k].status # "orphaned"
    <3>1. PICK p : p = LastResponse(k)
      OBVIOUS
    <3>2. SendFrag(sv, e, k, p, "freed")
      BY <1>3, <2>5, <2>7, <3>1 DEF ServerCallEnd
    <3>3. p.type = "response"
      BY <3>1 DEF LastResponse, Response, Packet
    <3>4. PICK q : q = [m EXCEPT !.pc = "send", !.sending = p, !.then = "freed", !.failed = FALSE]
      OBVIOUS
    <3>5. ex' = [ex EXCEPT ![k] = q]
      BY <1>1, <2>4, <3>2, <3>4 DEF SendFrag
    <3>6. q.pc = "send" /\ q.sending = p /\ q.st = "COMPLETED"
      <4>1. q.pc = "send" /\ q.sending = p /\ q.st = m.st
        BY <2>3, <3>4 DEF ServerReps
      <4>2. m.st = st
        BY <2>2 DEF ServerReps
      <4> QED BY <1>2, <2>1, <2>7, <4>1, <4>2
    <3>7. Speaks(r, q, k)
      BY <1>2, <2>6, <2>7, <3>3, <3>6 DEF Speaks, Speaker, Done
    <3> QED BY <1>1, <1>2, <3>5, <3>7, AloneSpeaks
  <2>8. CASE ~(ex[k].st = "RESPONSE" /\ ~Maybe(k) /\ ex[k].status # "orphaned")
    <3>1. EndCall(sv, e, k)
      BY <1>3, <2>5, <2>8 DEF ServerCallEnd
    <3>2. EndCall(sv, [ex EXCEPT ![k] = m], k)
      BY <2>4, <3>1
    <3> QED BY <1>1, <2>3, <3>2, EndCallSpeaks
  <2> QED BY <2>7, <2>8
<1>4. CASE ServerSent(k)
  <2>1. PICK s : s = [sv EXCEPT !.sendmsg = FALSE, !.astat = IF ex[k].failed THEN "closed" ELSE @]
    OBVIOUS
  <2>2. r.pc = "sent"
    BY <1>2, <1>4 DEF ServerSent
  <2>3. CASE r.then = "freed"
    <3>1. EndCall(s, ex, k)
      BY <1>2, <1>4, <2>1, <2>3 DEF ServerSent
    <3>2. ex = [ex EXCEPT ![k] = r]
      BY <1>1, <1>2
    <3>3. EndCall(s, [ex EXCEPT ![k] = r], k)
      BY <3>1, <3>2
    <3> QED BY <1>1, <3>3, EndCallSpeaks
  <2>4. CASE r.then # "freed"
    <3>1. PICK then \in {"mgr", "ending"} : then = r.then
      BY <2>4 DEF ServerReps
    <3>2. PICK q : q = [r EXCEPT !.pc = then]
      OBVIOUS
    <3>3. ex' = [ex EXCEPT ![k] = q]
      BY <1>2, <1>4, <2>4, <3>1, <3>2 DEF ServerSent
    <3>4. q.pc = then /\ q.st = r.st
      BY <3>2 DEF ServerReps
    <3>5. Speaks(r, q, k)
      BY <2>2, <3>1, <3>4, QuietSpeaks
    <3> QED BY <1>1, <1>2, <3>3, <3>5, AloneSpeaks
  <2> QED BY <2>3, <2>4
<1> QED BY <1>3, <1>4

\* rpc_call_transmit: nothing of the response but its last fragment is the last.
LEMMA ResponseSpeaks ==
  ASSUME CallInv, NEW k \in Calls, ManagerSends(k)
  PROVE  \A j \in Calls : Speaks(ex[j], ex'[j], j)
<1>1. sv \in Assocs /\ ex \in [Calls -> ServerReps]
  BY AtStep
<1>2. PICK r \in ServerReps : r = ex[k]
  BY <1>1
<1>3. r.pc = "mgr"
  BY <1>2 DEF ManagerSends, InManager
<1>4. ASSUME NEW q, ex' = [ex EXCEPT ![k] = q], q.st = r.st, q.pc = r.pc
      PROVE  \A j \in Calls : Speaks(ex[j], ex'[j], j)
  <2>1. Speaks(r, q, k)
    BY <1>3, <1>4, QuietSpeaks
  <2> QED BY <1>1, <1>2, <1>4, <2>1, AloneSpeaks
<1>5. PICK n \in Nat : n = r.nsent + 1
  BY DEF ServerReps
<1>6. PICK m : m = [r EXCEPT !.nsent = n]
  OBVIOUS
<1>7. m \in ServerReps /\ m.pc = r.pc /\ m.st = r.st
  BY <1>6 DEF ServerReps
<1>8. [ex EXCEPT ![k].nsent = ex[k].nsent + 1] = [ex EXCEPT ![k] = m]
  BY <1>1, <1>2, <1>5, <1>6
<1>9. CASE ~ServerLegal(ex[k].st, "send")
  <2>1. ex' = [ex EXCEPT ![k] = r]
    BY <1>1, <1>2, <1>9 DEF ManagerSends
  <2> QED BY <1>4, <2>1
<1>10. CASE ServerLegal(ex[k].st, "send") /\ sv.astat # "ok"
  <2>1. PICK q : q = [r EXCEPT !.status = "orphaned"]
    OBVIOUS
  <2>2. q.pc = r.pc /\ q.st = r.st
    BY <2>1 DEF ServerReps
  <2>3. ex' = [ex EXCEPT ![k] = q]
    BY <1>2, <1>10, <2>1 DEF ManagerSends
  <2> QED BY <1>4, <2>2, <2>3
<1>11. CASE ServerLegal(ex[k].st, "send") /\ sv.astat = "ok"
  <2>1. r.st = "RESPONSE"
    BY <1>2, <1>11, SendsInResponse DEF ServerReps
  <2>2. PICK p : p = Response(k, n, FALSE, FALSE, 0)
    OBVIOUS
  <2>3. p.last = FALSE /\ p.type = "response"
    BY <2>2 DEF Response, Packet
  <2>4. PICK e : e = [ex EXCEPT ![k] = m]
    OBVIOUS
  <2>5. IF Maybe(k) THEN ex' = e ELSE SendFrag(sv, e, k, p, "mgr")
    BY <1>2, <1>5, <1>8, <1>11, <2>2, <2>4 DEF ManagerSends
  <2>6. CASE Maybe(k)
    BY <1>4, <1>7, <2>4, <2>5, <2>6
  <2>7. CASE ~Maybe(k)
    <3>1. PICK q : q = [m EXCEPT !.pc = "send", !.sending = p, !.then = "mgr", !.failed = FALSE]
      OBVIOUS
    <3>2. ex' = [ex EXCEPT ![k] = q]
      BY <1>1, <2>4, <2>5, <2>7, <3>1 DEF SendFrag
    <3>3. q.pc = "send" /\ q.sending = p /\ q.st = r.st
      BY <1>7, <3>1 DEF ServerReps
    <3>4. Speaks(r, q, k)
      BY <1>3, <2>1, <2>3, <2>7, <3>3 DEF Speaks, Speaker, Done
    <3> QED BY <1>1, <1>2, <3>2, <3>4, AloneSpeaks
  <2> QED BY <2>6, <2>7
<1> QED BY <1>9, <1>10, <1>11

-----------------------------------------------------------------------------
(* What a step of the server's receiver does to a call *)

\* A new call is answered only when its first fragment is its last.
LEMMA NewCallState ==
  ASSUME NEW p \in Packets
  PROVE  /\ NewCall(p) \in ServerReps
         /\ NewCall(p).st = IF p.last THEN "RESPONSE" ELSE "REQUEST"
<1>1. PICK n \in ServerReps : n = NoRep
  BY NoRepType
<1>2. PICK st \in {"REQUEST", "RESPONSE"} : st = IF p.last THEN "RESPONSE" ELSE "REQUEST"
  OBVIOUS
<1>3. PICK r : r = [n EXCEPT !.assoc = TRUE, !.accepting = TRUE, !.st = st]
  OBVIOUS
<1>4. r \in ServerReps
  <2>1. st \in ServerCallStates
    BY ServerStates
  <2> QED BY <1>3, <2>1 DEF ServerReps
<1>5. r.st = st
  BY <1>3 DEF ServerReps
<1>6. PICK q : q = NewCall(p)
  OBVIOUS
<1>7. q = IF p.alert THEN Cancel(r) ELSE r
  BY <1>1, <1>2, <1>3, <1>6 DEF NewCall
<1>8. q \in ServerReps /\ q.st = r.st
  BY <1>4, <1>7, CancelNudges DEF Nudged
<1> QED BY <1>2, <1>5, <1>6, <1>8

\* The first fragment of a request
LEMMA FirstSpeaks ==
  ASSUME CallInv, Says, FirstFragment
  PROVE  \A j \in Calls : Speaks(ex[j], ex'[j], j)
<1>1. /\ ex \in [Calls -> ServerReps] /\ sv \in Assocs /\ c2s \in Seq(Packets) /\ cl.call \in Nat
  BY DEF CallInv, ServerTypes, WireTypes, ClientTypes, ClientReps
<1>2. c2s # <<>> /\ Begins(Head(c2s))
  BY DEF FirstFragment, Arrives, Begins
<1>3. PICK p \in Packets : p = Head(c2s) /\ p = c2s[1] /\ 1 \in 1..Len(c2s)
  BY <1>1, <1>2, TailPackets
<1>4. PICK k \in Calls : k = p.call
  <2>1. p.call \in 1..cl.call
    BY <1>3 DEF CallInv, BeginsOnce
  <2> QED BY <1>1, <2>1, WireAssumption DEF CallInv, ClientTypes, Calls
<1>5. ex[k].pc = "none"
  BY <1>2, <1>3, <1>4 DEF CallInv, BeginsOnce
<1>6. PICK r \in ServerReps : r = ex[k]
  BY <1>1
<1>7. r.pc = "none" /\ r.st = "INIT" /\ ~Done(r)
  BY <1>5, <1>6 DEF Says, Speaker, Done
<1>8. PICK m \in ServerReps : m = NewCall(p) /\ m.st = IF p.last THEN "RESPONSE" ELSE "REQUEST"
  BY NewCallState
<1>9. m.st = "RESPONSE" => \E i \in 1..Len(c2s) : Closes(c2s[i], k)
  BY <1>2, <1>3, <1>4, <1>8 DEF Closes, Begins
<1>0. PICK a \in Assocs : ReadsOn(a) /\ FirstOn(a, p)
  BY <1>3, FirstReads
<1>10. PICK s \in Assocs : s = PushCall(a, p)
  BY <1>0, <1>4, PushCallEffect
<1>11. PICK e : e = [ex EXCEPT ![k] = m]
  OBVIOUS
<1>12. e \in [Calls -> ServerReps] /\ e[k] = m
  BY <1>1, <1>11
<1>13. CASE \E pc \in {"ready", "queued"} : ex' = [e EXCEPT ![k].pc = pc]
  <2>1. PICK pc \in {"ready", "queued"} : ex' = [e EXCEPT ![k].pc = pc]
    BY <1>13
  <2>2. PICK q : q = [m EXCEPT !.pc = pc]
    OBVIOUS
  <2>3. q.pc = pc /\ q.st = m.st
    BY <2>2 DEF ServerReps
  <2>4. ex' = [ex EXCEPT ![k] = q]
    BY <1>1, <1>11, <1>12, <2>1, <2>2
  <2>5. Speaks(r, q, k)
    BY <1>7, <1>9, <2>1, <2>3 DEF Speaks
  <2> QED BY <1>1, <1>6, <2>4, <2>5, AloneSpeaks
<1>14. CASE CallReject([s EXCEPT !.rcvr = "busy"], [e EXCEPT ![k].mine = TRUE], k)
  <2>1. PICK o : o = [m EXCEPT !.mine = TRUE, !.status = "rejected"]
    OBVIOUS
  <2>2. o \in ServerReps
    BY <2>1, ZenonT(40) DEF ServerReps
  <2>3. o.st = m.st
    BY <2>1 DEF ServerReps
  <2>4. PICK f : f = [ex EXCEPT ![k] = o]
    OBVIOUS
  <2>5. f \in [Calls -> ServerReps] /\ f[k] = o
    BY <1>1, <2>2, <2>4
  <2>6. PICK t : t = [s EXCEPT !.rcvr = "busy"]
    OBVIOUS
  <2>7. t \in Assocs
    BY <1>10, <2>6, RcvrTyped
  <2>8. [[e EXCEPT ![k].mine = TRUE] EXCEPT ![k].status = "rejected"] = f
    BY <1>1, <1>11, <1>12, <2>1, <2>4
  <2>9. FaultEvent(t, f, k, "fault_dne", "ending")
    BY <1>14, <2>6, <2>8 DEF CallReject
  <2>10. Accuses(f, k, "fault_dne", "ending")
    BY <2>5, <2>7, <2>9, FaultSpeech
  <2>11. ServerLegal(f[k].st, "fault_dne")
    BY <1>8, <2>3, <2>5, FaultLegal
  <2>12. PICK q : /\ ex' = [f EXCEPT ![k] = q] /\ q.st = "COMPLETED"
                  /\ \/ q.pc = "ending"
                     \/ /\ q.pc = "send" /\ ~Maybe(k)
                        /\ q.sending.last /\ q.sending.type = "fault"
    BY <2>10, <2>11 DEF Accuses
  <2>13. Speaks(r, q, k)
    BY <1>7, <2>12, FaultedSpeaks
  <2>14. ex' = [ex EXCEPT ![k] = q]
    BY <1>1, <2>4, <2>12
  <2> QED BY <1>1, <1>6, <2>13, <2>14, AloneSpeaks
<1>15. \/ \E pc \in {"ready", "queued"} : ex' = [e EXCEPT ![k].pc = pc]
       \/ CallReject([s EXCEPT !.rcvr = "busy"], [e EXCEPT ![k].mine = TRUE], k)
  BY <1>0, <1>4, <1>8, <1>10, <1>11 DEF FirstOn
<1> QED BY <1>13, <1>14, <1>15

\* Only a request goes on.
LEMMA HandlesRequests ==
  ASSUME NEW s \in ServerCallStates, NEW p \in Packets,
         p.type \in {"request", "alert", "orphaned"}, ServerDoes(s, Event(p), "handle_frag")
  PROVE  p.type = "request" /\ s = "REQUEST"
<1>1. s = "REQUEST"
  BY LaterEvents
<1>2. p.type # "alert"
  <2>1. SUFFICES ASSUME p.type = "alert" PROVE FALSE
    OBVIOUS
  <2>2. Event(p) = "remote_alert"
    BY <2>1 DEF Event
  <2> QED BY <1>1, <2>2 DEF ServerDoes, ServerLegal, ServerCallTable
<1>3. p.type # "orphaned"
  <2>1. SUFFICES ASSUME p.type = "orphaned" PROVE FALSE
    OBVIOUS
  <2>2. Event(p) = "orphaned"
    BY <2>1 DEF Event
  <2> QED BY <1>1, <2>2 DEF ServerDoes, ServerLegal, ServerCallTable
<1> QED BY <1>1, <1>2, <1>3

\* The call has been given up by its caller.
LEMMA OrphanSpeaks ==
  ASSUME ex \in [Calls -> ServerReps], NEW p, NEW k \in Calls, p.call = k,
         ex[k].pc # "none", NEW s, StopOrphan(s, p)
  PROVE  \A j \in Calls : Speaks(ex[j], ex'[j], j)
<1>1. PICK r \in ServerReps : r = ex[k]
  OBVIOUS
<1>2. PICK m : m = [r EXCEPT !.status = "orphaned"]
  OBVIOUS
<1>3. m \in ServerReps
  BY <1>2 DEF ServerReps
<1>4. m.pc = r.pc /\ m.st = r.st /\ m.sending = r.sending
  BY <1>2 DEF ServerReps
<1>5. PICK e : e = [ex EXCEPT ![k] = m]
  OBVIOUS
<1>6. e = [ex EXCEPT ![k].status = "orphaned"] /\ e[k] = m
  BY <1>1, <1>2, <1>5
<1>7. CASE ex[k].pc = "queued"
  <2>1. PICK q : q = [m EXCEPT !.pc = "ending", !.mine = TRUE]
    OBVIOUS
  <2>2. ex' = [e EXCEPT ![k].pc = "ending", ![k].mine = TRUE]
    BY <1>6, <1>7 DEF StopOrphan
  <2>3. ex' = [ex EXCEPT ![k] = q]
    BY <1>5, <1>6, <2>1, <2>2
  <2>4. q.pc = "ending" /\ q.st = r.st
    BY <1>3, <1>4, <2>1 DEF ServerReps
  <2>5. Speaks(r, q, k)
    BY <1>1, <1>7, <2>4, QuietSpeaks
  <2> QED BY <1>1, <2>3, <2>5, AloneSpeaks
<1>8. CASE ex[k].pc # "queued"
  <2>1. PICK c : c = Cancel(m)
    OBVIOUS
  <2>2. Nudged(m, c) /\ c \in ServerReps
    BY <1>3, <2>1, CancelNudges DEF Nudged
  <2>3. PICK q : q = [c EXCEPT !.st = "COMPLETED", !.assoc = FALSE]
    OBVIOUS
  <2>4. q \in ServerReps
    <3>1. "COMPLETED" \in ServerCallStates
      BY ServerStates
    <3>2. PICK st \in ServerCallStates : st = "COMPLETED"
      BY <3>1
    <3>3. c \in ServerReps /\ q = [c EXCEPT !.st = st, !.assoc = FALSE]
      BY <2>2, <2>3, <3>2
    <3> QED BY <3>3, ZenonT(60) DEF ServerReps
  <2>5. q.pc = r.pc /\ q.st = "COMPLETED" /\ q.sending = r.sending
    <3>1. q.pc = c.pc /\ q.st = "COMPLETED" /\ q.sending = c.sending
      BY <2>2, <2>3 DEF ServerReps
    <3> QED BY <1>4, <2>2, <3>1 DEF Nudged
  <2>6. PICK w \in Calls \cup {0} : ex' = Wake([e EXCEPT ![k] = q], w)
    BY <1>6, <1>8, <2>1, <2>3 DEF StopOrphan, Signalled, Waiters
  <2>7. [e EXCEPT ![k] = q] = [ex EXCEPT ![k] = q]
    BY <1>5
  <2>8. Speaks(r, q, k)
    BY <1>1, <2>5 DEF Speaks, Done
  <2> QED BY <1>1, <2>4, <2>6, <2>7, <2>8, WokenSpeaks
<1> QED BY <1>7, <1>8

\* A packet of a call that exists, or existed
LEMMA LaterSpeaks ==
  ASSUME CallInv, LaterPacket
  PROVE  \A j \in Calls : Speaks(ex[j], ex'[j], j)
<1>1. ex \in [Calls -> ServerReps] /\ sv \in Assocs /\ c2s \in Seq(Packets)
  BY DEF CallInv, ServerTypes, WireTypes
<1>2. c2s # <<>> /\ Head(c2s).type \in {"request", "alert", "orphaned"}
  BY DEF LaterPacket, Arrives
<1>3. PICK p \in Packets : p = Head(c2s) /\ p = c2s[1] /\ 1 \in 1..Len(c2s)
  BY <1>1, <1>2, TailPackets
<1>0. PICK s \in Assocs : ReadsOn(s) /\ LaterOn(s, p)
  BY <1>3, LaterReads
<1>4. ASSUME ex' = ex
      PROVE  \A j \in Calls : Speaks(ex[j], ex'[j], j)
  <2>1. \A j \in Calls : Nudged(ex[j], ex'[j])
    BY <1>1, <1>4 DEF Nudged
  <2> QED BY <2>1, NudgedSpeaks
<1>5. CASE ~ForLinkedCall(p)
  <2>1. ex' = ex
    BY <1>0, <1>5 DEF LaterOn
  <2> QED BY <1>4, <2>1
<1>6. CASE ForLinkedCall(p)
  <2>1. PICK k \in Calls : k = sv.link /\ p.call = k
    BY <1>1, <1>6 DEF ForLinkedCall, Assocs
  <2>2. ex[k].pc # "none"
    BY <2>1 DEF CallInv, BeginsOnce, Calls
  <2>3. PICK r \in ServerReps : r = ex[k]
    BY <1>1
  <2>4. CASE ~ServerLegal(r.st, Event(p))
    <3>1. ex' = ex
      BY <1>0, <1>6, <2>1, <2>3, <2>4 DEF LaterOn
    <3> QED BY <1>4, <3>1
  <2>5. CASE ServerLegal(r.st, Event(p))
    <3>1. \/ ServerDoes(r.st, Event(p), "handle_frag") /\ HandleFrag(s, p)
          \/ ProcessAlert(s, p) \/ StopOrphan(s, p) \/ ex' = ex
      BY <1>0, <1>6, <2>1, <2>3, <2>5 DEF LaterOn
    <3>2. CASE ServerDoes(r.st, Event(p), "handle_frag") /\ HandleFrag(s, p)
      <4>1. p.type = "request" /\ r.st = "REQUEST"
        BY <1>2, <1>3, <3>2, HandlesRequests DEF ServerReps
      <4>2. PICK st \in {"REQUEST", "RESPONSE"} : st = IF p.last THEN "RESPONSE" ELSE "REQUEST"
        OBVIOUS
      <4>3. PICK q : q = [r EXCEPT !.st = st]
        OBVIOUS
      <4>4. q \in ServerReps
        <5>1. st \in ServerCallStates
          BY ServerStates
        <5> QED BY <4>3, <5>1 DEF ServerReps
      <4>5. q.st = st /\ q.pc = r.pc /\ q.sending = r.sending
        BY <4>3 DEF ServerReps
      <4>6. PICK w \in Calls \cup {0} : ex' = Wake([ex EXCEPT ![k] = q], w)
        BY <2>1, <2>3, <3>2, <4>2, <4>3 DEF HandleFrag, Signalled, Waiters
      <4>7. st = "RESPONSE" => \E i \in 1..Len(c2s) : Closes(c2s[i], k)
        BY <1>3, <2>1, <4>1, <4>2 DEF Closes
      <4>8. Speaks(r, q, k)
        BY <2>2, <2>3, <4>1, <4>5, <4>7 DEF Speaks, Done
      <4> QED BY <1>1, <2>3, <4>4, <4>6, <4>8, WokenSpeaks
    <3>3. CASE ProcessAlert(s, p)
      <4>1. PICK n \in Nat : n = r.alerts + 1
        BY DEF ServerReps
      <4>2. PICK m : m = [r EXCEPT !.alerts = n]
        OBVIOUS
      <4>3. m \in ServerReps
        BY <4>2 DEF ServerReps
      <4>4. Nudged(r, m)
        BY <4>2, <4>3 DEF Nudged, ServerReps
      <4>5. Nudged(r, Cancel(m))
        BY <4>3, <4>4, CancelNudges, NudgedTwice
      <4>6. ex' = [ex EXCEPT ![k] = Cancel(m)]
        BY <2>1, <2>3, <3>3, <4>1, <4>2 DEF ProcessAlert
      <4>7. Speaks(r, Cancel(m), k)
        BY <4>5, NudgedSpeaks
      <4> QED BY <1>1, <2>3, <4>6, <4>7, AloneSpeaks
    <3>4. CASE StopOrphan(s, p)
      BY <1>1, <2>1, <2>2, <3>4, OrphanSpeaks
    <3> QED BY <1>4, <3>1, <3>2, <3>3, <3>4
  <2> QED BY <2>4, <2>5
<1> QED BY <1>5, <1>6

\* The connection is gone: threads are woken or cancelled, a queued call is ended.
LEMMA DisconnectSpeaks ==
  ASSUME CallInv, ServerDisconnects
  PROVE  \A j \in Calls : Speaks(ex[j], ex'[j], j)
<1>1. sv \in Assocs /\ ex \in [Calls -> ServerReps]
  BY DEF CallInv, ServerTypes
<1>2. PICK w \in Signalled(ex) :
        LET e == Wake(ex, w)
            k == sv.link
        IN  \/ k = 0 /\ ex' = e
            \/ /\ k # 0 /\ ex[k].pc = "queued"
               /\ ex' = [e EXCEPT ![k].pc = "ending", ![k].mine = TRUE]
            \/ /\ k # 0 /\ ex[k].pc # "queued"
               /\ \E v \in Signalled(e) : ex' = Wake([e EXCEPT ![k] = Cancel(e[k])], v)
  BY DEF ServerDisconnects
<1>3. PICK e : e = Wake(ex, w)
  OBVIOUS
<1>4. e \in [Calls -> ServerReps] /\ \A j \in Calls : Nudged(ex[j], e[j])
  BY <1>1, <1>2, <1>3, WakeNudges
<1>5. CASE sv.link = 0
  <2>1. ex' = e
    BY <1>2, <1>3, <1>5
  <2> QED BY <1>4, <2>1, NudgedSpeaks
<1>6. CASE sv.link # 0 /\ ex[sv.link].pc = "queued"
  <2>1. PICK k \in Calls : k = sv.link
    BY <1>1, <1>6 DEF Assocs
  <2>2. PICK r \in ServerReps : r = e[k]
    BY <1>4
  <2>3. PICK q : q = [r EXCEPT !.pc = "ending", !.mine = TRUE]
    OBVIOUS
  <2>4. q.pc = "ending" /\ q.st = ex[k].st /\ ex[k].pc # "freed"
    <3>1. q.pc = "ending" /\ q.st = r.st
      BY <2>3 DEF ServerReps
    <3> QED BY <1>4, <1>6, <2>1, <2>2, <3>1 DEF Nudged
  <2>5. ex' = [e EXCEPT ![k] = q]
    BY <1>2, <1>3, <1>6, <2>1, <2>2, <2>3
  <2>6. ex'[k] = q /\ \A j \in Calls : j # k => ex'[j] = e[j]
    BY <1>4, <2>5
  <2>7. Speaks(ex[k], ex'[k], k)
    BY <2>4, <2>6, QuietSpeaks
  <2>8. \A j \in Calls : j # k => Speaks(ex[j], ex'[j], j)
    BY <1>4, <2>6, NudgedSpeaks
  <2> QED BY <2>7, <2>8
<1>7. CASE sv.link # 0 /\ ex[sv.link].pc # "queued"
  <2>1. PICK k \in Calls : k = sv.link
    BY <1>1, <1>7 DEF Assocs
  <2>2. PICK c : c = [e EXCEPT ![k] = Cancel(e[k])]
    OBVIOUS
  <2>3. PICK v \in Signalled(e) : ex' = Wake(c, v)
    BY <1>2, <1>3, <1>7, <2>1, <2>2
  <2>4. Nudged(e[k], Cancel(e[k])) /\ Cancel(e[k]) \in ServerReps
    BY <1>4, CancelNudges DEF Nudged
  <2>5. c \in [Calls -> ServerReps] /\ \A j \in Calls : Nudged(e[j], c[j])
    <3>1. c \in [Calls -> ServerReps]
      BY <1>4, <2>2, <2>4
    <3>2. \A j \in Calls : j # k => c[j] = e[j] /\ c[j] \in ServerReps
      BY <1>4, <2>2
    <3>3. c[k] = Cancel(e[k])
      BY <1>4, <2>2
    <3>4. \A j \in Calls : j # k => Nudged(e[j], c[j])
      BY <3>2 DEF Nudged
    <3> QED BY <2>4, <3>1, <3>3, <3>4
  <2>6. PICK u \in Calls \cup {0} : u = v
    BY <2>3 DEF Signalled, Waiters
  <2>7. \A j \in Calls : Nudged(c[j], Wake(c, v)[j])
    BY <2>5, <2>6, WakesNudge
  <2>8. \A j \in Calls : Nudged(ex[j], ex'[j])
    BY <1>4, <2>3, <2>5, <2>7, NudgedTwice
  <2> QED BY <2>8, NudgedSpeaks
<1> QED BY <1>5, <1>6, <1>7

-----------------------------------------------------------------------------
(* The invariant, for the server's steps *)

\* What is left of a queue when its head is read, or the connection breaks
Shortens(s, t) == t = s \/ (s # <<>> /\ t = Tail(s)) \/ t = <<>>

\* The packets of t are those of s, so many places on.
Later(s, t, d) ==
  \A i \in 1..Len(t) : i \in Nat /\ i + d \in 1..Len(s) /\ t[i] = s[i + d]

\* What is left has come so many places nearer.
LEMMA ShorterPackets ==
  ASSUME NEW s \in Seq(Packets), NEW t, Shortens(s, t)
  PROVE  \E d \in Nat : Later(s, t, d)
<1>1. CASE t = s
  BY <1>1, 0 \in Nat DEF Later
<1>2. CASE s # <<>> /\ t = Tail(s)
  BY <1>2, TailPackets, 1 \in Nat DEF Later
<1>3. CASE t = <<>>
  BY <1>3, 0 \in Nat DEF Later
<1> QED BY <1>1, <1>2, <1>3 DEF Shortens

\* What has been said of a call was said, and the last of it is still the last.
LEMMA SpeechShorter ==
  ASSUME NEW s \in Seq(Packets), NEW t, Shortens(s, t), NEW k, NEW r, NEW q, Speech(s, r, k),
         r.pc # "none" => q.pc # "none", Done(r) => Done(q)
  PROVE  Speech(t, q, k)
<1>0. PICK d \in Nat : Later(s, t, d)
  BY ShorterPackets
<1>1. \A i \in 1..Len(t) : i \in Nat /\ i + d \in 1..Len(s) /\ t[i] = s[i + d]
  BY <1>0 DEF Later
<1>2. SUFFICES ASSUME NEW i \in 1..Len(t), t[i].call = k
               PROVE  /\ q.pc # "none" /\ ~Maybe(k)
                      /\ t[i].type = "fault" => t[i].last
                      /\ t[i].last => Done(q) /\ \A j \in 1..Len(t) : i < j => t[j].call # k
  BY DEF Speech
<1>3. PICK n \in 1..Len(s) : n = i + d /\ t[i] = s[n]
  BY <1>1
<1>4. /\ r.pc # "none" /\ ~Maybe(k)
      /\ s[n].type = "fault" => s[n].last
      /\ s[n].last => Done(r) /\ \A j \in 1..Len(s) : n < j => s[j].call # k
  BY <1>2, <1>3 DEF Speech
<1>5. ASSUME t[i].last, NEW j \in 1..Len(t), i < j
      PROVE  t[j].call # k
  <2>1. j + d \in 1..Len(s) /\ t[j] = s[j + d] /\ n < j + d
    BY <1>1, <1>3, <1>5
  <2> QED BY <1>3, <1>4, <1>5, <2>1
<1> QED BY <1>3, <1>4, <1>5

\* The calls go on saying what they may.
LEMMA SaysOn ==
  ASSUME CallInv, Says, Shortens(s2c, s2c'), \A k \in Calls : Speaks(ex[k], ex'[k], k)
  PROVE  Says'
<1>1. SUFFICES ASSUME NEW k \in Calls
               PROVE  Speaker(ex'[k], k) /\ Speech(s2c', ex'[k], k)
  BY DEF Says
<1>2. Speaker(ex[k], k) /\ Speech(s2c, ex[k], k) /\ Speaks(ex[k], ex'[k], k)
  BY DEF Says
<1>3. Speaker(ex'[k], k)
  BY <1>2 DEF Speaker, Speaks
<1>4. Speech(s2c', ex'[k], k)
  <2>1. s2c \in Seq(Packets)
    BY DEF CallInv, WireTypes
  <2> QED BY <1>2, <2>1, SpeechShorter DEF Speaks
<1> QED BY <1>3, <1>4

\* A call that has nothing to say stays so.
LEMMA SilentOn ==
  ASSUME CallInv, NEW k \in Calls, Silent(k), Shortens(s2c, s2c'), Speaks(ex[k], ex'[k], k)
  PROVE  (\A i \in 1..Len(s2c') : s2c'[i].call # k) /\ (Maybe(k) \/ Done(ex'[k]))
<1>1. s2c \in Seq(Packets)
  BY DEF CallInv, WireTypes
<1>2. PICK d \in Nat : Later(s2c, s2c', d)
  BY <1>1, ShorterPackets
<1> QED BY <1>2 DEF Later, Silent, Speaks

\* A call that is answered was.
LEMMA AnsweringOn ==
  ASSUME CallInv, NEW k \in Calls, Shortens(s2c, s2c'), Shortens(c2s, c2s'),
         Speaks(ex[k], ex'[k], k),
         \/ ex'[k].st = "RESPONSE"
         \/ ex'[k].pc = "send" /\ ex'[k].sending.type = "response"
         \/ \E i \in 1..Len(s2c') : s2c'[i].type = "response" /\ s2c'[i].call = k
         \/ \E i \in 1..Len(c2s') : Closes(c2s'[i], k)
  PROVE  Answering(k)
<1>1. s2c \in Seq(Packets) /\ c2s \in Seq(Packets)
  BY DEF CallInv, WireTypes
<1>2. PICK d \in Nat : Later(s2c, s2c', d)
  BY <1>1, ShorterPackets
<1>3. PICK e \in Nat : Later(c2s, c2s', e)
  BY <1>1, ShorterPackets
<1>4. CASE ex'[k].st = "RESPONSE"
  BY <1>4 DEF Speaks, Answering
<1>5. CASE ex'[k].pc = "send" /\ ex'[k].sending.type = "response"
  BY <1>5 DEF Speaks, Answering
<1>6. CASE \E i \in 1..Len(s2c') : s2c'[i].type = "response" /\ s2c'[i].call = k
  BY <1>2, <1>6 DEF Later, Answering
<1>7. CASE \E i \in 1..Len(c2s') : Closes(c2s'[i], k)
  BY <1>3, <1>7 DEF Later, Answering
<1> QED BY <1>4, <1>5, <1>6, <1>7

\* The calling thread, its state machine and what it sends are where they were.
Unmoved(c, d) ==
  /\ d.pc = c.pc /\ d.call = c.call /\ d.link = c.link /\ d.st = c.st /\ d.phase = c.phase
  /\ d.nsent = c.nsent /\ d.sending = c.sending /\ d.fatal = c.fatal

\* As long as nothing is put on the wire.
LEMMA QuietKeepsLegal ==
  ASSUME CallInv, LegalInv, Unmoved(cl, cl'), Shortens(s2c, s2c'), Shortens(c2s, c2s'),
         \A k \in Calls : Speaks(ex[k], ex'[k], k)
  PROVE  LegalInv'
<1>1. Orderly(cl') /\ Says'
  BY SaysOn DEF LegalInv, Unmoved, Orderly
<1>2. SUFFICES ASSUME InCall
               PROVE  /\ cl.st \in {"COMPLETED", "FAILED"} => Silent(cl.call)'
                      /\ Answering(cl.call)' => Asked(cl)
  BY <1>1 DEF LegalInv, InCall, Asked, Unmoved
<1>3. PICK k \in Calls : k = cl.call /\ cl'.call = k
  BY <1>2 DEF CallInv, ClientTypes, ClientReps, Calls, Unmoved
<1>4. ASSUME cl.st \in {"COMPLETED", "FAILED"}
      PROVE  Silent(cl.call)'
  <2>1. Silent(k)
    BY <1>2, <1>3, <1>4 DEF LegalInv
  <2> QED BY <1>3, <2>1, SilentOn DEF Silent
<1>5. ASSUME Answering(cl.call)'
      PROVE  Asked(cl)
  <2>1. Answering(k)
    BY <1>3, <1>5, AnsweringOn DEF Answering
  <2> QED BY <1>2, <1>3, <2>1 DEF LegalInv
<1> QED BY <1>4, <1>5

\* What a call says comes to the end of the queue; it had not said its last.
LEMMA SpeechLonger ==
  ASSUME NEW s \in Seq(Packets), NEW p \in Packets, NEW k, NEW r, NEW q, Speech(s, r, k),
         r.pc # "none" => q.pc # "none", Done(r) => Done(q),
         p.call = k => /\ q.pc # "none" /\ ~Maybe(k) /\ ~Done(r)
                       /\ p.type = "fault" => p.last
                       /\ p.last => Done(q)
  PROVE  Speech(Append(s, p), q, k)
<1>1. PICK t : t = Append(s, p)
  OBVIOUS
<1>2. \A i \in 1..Len(t) : i \in Nat /\ ((t[i] = p /\ i = Len(s) + 1) \/ (i \in 1..Len(s) /\ t[i] = s[i]))
  BY <1>1
<1>3. Len(t) = Len(s) + 1 /\ Len(s) \in Nat
  BY <1>1
<1>4. SUFFICES ASSUME NEW i \in 1..Len(t), t[i].call = k
               PROVE  /\ q.pc # "none" /\ ~Maybe(k)
                      /\ t[i].type = "fault" => t[i].last
                      /\ t[i].last => Done(q) /\ \A j \in 1..Len(t) : i < j => t[j].call # k
  BY <1>1 DEF Speech
<1>5. CASE t[i] = p /\ i = Len(s) + 1
  <2>1. \A j \in 1..Len(t) : ~(i < j)
    BY <1>3, <1>5
  <2> QED BY <1>4, <1>5, <2>1
<1>6. CASE i \in 1..Len(s) /\ t[i] = s[i]
  <2>1. /\ r.pc # "none" /\ ~Maybe(k)
        /\ s[i].type = "fault" => s[i].last
        /\ s[i].last => Done(r) /\ \A j \in 1..Len(s) : i < j => s[j].call # k
    BY <1>4, <1>6 DEF Speech
  <2>2. ASSUME t[i].last, NEW j \in 1..Len(t), i < j
        PROVE  t[j].call # k
    <3>1. Done(r)
      BY <1>6, <2>1, <2>2
    <3>2. CASE t[j] = p
      BY <3>1, <3>2
    <3>3. CASE j \in 1..Len(s) /\ t[j] = s[j]
      BY <1>6, <2>1, <2>2, <3>3
    <3> QED BY <1>2, <3>2, <3>3
  <2> QED BY <1>6, <2>1, <2>2
<1> QED BY <1>2, <1>5, <1>6

\* The server's packet goes out: it is said as it was meant.
LEMMA SendmsgKeepsLegal ==
  ASSUME CallInv, LegalInv, cl' = cl, NEW k \in Calls, ServerSendmsg(k)
  PROVE  LegalInv'
<1>1. ex \in [Calls -> ServerReps] /\ Stage(ex[k], k) /\ s2c \in Seq(Packets)
  BY AtStep DEF CallInv, WireTypes
<1>2. PICK r \in ServerReps : r = ex[k]
  BY <1>1
<1>3. r.pc = "send" /\ ~Done(r) /\ c2s' = c2s
  BY <1>2 DEF ServerSendmsg, Done
<1>4. Says /\ Orderly(cl)
  BY DEF LegalInv
<1>5. CASE ~up
  <2>1. PICK f \in BOOLEAN : ex' = [ex EXCEPT ![k].pc = "sent", ![k].failed = f]
    BY <1>5 DEF ServerSendmsg
  <2>2. PICK q : q = [r EXCEPT !.pc = "sent", !.failed = f]
    OBVIOUS
  <2>3. q.pc = "sent" /\ q.st = r.st
    BY <2>2 DEF ServerReps
  <2>4. ex' = [ex EXCEPT ![k] = q]
    BY <1>1, <1>2, <2>1, <2>2
  <2>5. Speaks(r, q, k)
    BY <1>3, <2>3, QuietSpeaks
  <2>6. \A j \in Calls : Speaks(ex[j], ex'[j], j)
    BY <1>1, <1>2, <2>4, <2>5, AloneSpeaks
  <2>7. Shortens(s2c, s2c') /\ Shortens(c2s, c2s')
    BY <1>3, <1>5 DEF ServerSendmsg, Shortens
  <2>8. Unmoved(cl, cl')
    BY DEF Unmoved
  <2> QED BY <2>6, <2>7, <2>8, QuietKeepsLegal
<1>6. CASE up
  <2>1. PICK p \in Packets : p = r.sending
    BY DEF ServerReps
  <2>2. PICK q : q = [r EXCEPT !.pc = "sent"]
    OBVIOUS
  <2>3. q.pc = "sent" /\ q.st = r.st
    BY <2>2 DEF ServerReps
  <2>4. ex' = [ex EXCEPT ![k] = q] /\ s2c' = Append(s2c, p)
    BY <1>1, <1>2, <1>6, <2>1, <2>2 DEF ServerSendmsg
  <2>5. ex'[k] = q /\ \A j \in Calls : j # k => ex'[j] = ex[j]
    BY <1>1, <2>4
  <2>6. p.call = k /\ ~Maybe(k) /\ (p.type = "fault" => p.last) /\ (p.last => Done(q))
    <3>1. Speaker(r, k)
      BY <1>2, <1>4 DEF Says
    <3>2. p.call = k
      BY <1>1, <1>2, <1>3, <2>1 DEF Stage
    <3> QED BY <1>3, <2>1, <2>3, <3>1, <3>2 DEF Speaker, Done
  <2>7. Says'
    <3>1. SUFFICES ASSUME NEW j \in Calls
                   PROVE  Speaker(ex'[j], j) /\ Speech(s2c', ex'[j], j)
      BY DEF Says
    <3>2. Speaker(ex[j], j) /\ Speech(s2c, ex[j], j)
      BY <1>4 DEF Says
    <3>3. CASE j = k
      <4>1. Speaker(q, k)
        BY <2>3 DEF Speaker
      <4>2. Speech(Append(s2c, p), q, k)
        BY <1>1, <1>2, <1>3, <2>3, <2>6, <3>2, <3>3, SpeechLonger
      <4> QED BY <2>4, <2>5, <3>3, <4>1, <4>2
    <3>4. CASE j # k
      <4>1. Speech(Append(s2c, p), ex[j], j)
        BY <1>1, <2>6, <3>2, <3>4, SpeechLonger
      <4> QED BY <2>4, <2>5, <3>2, <3>4, <4>1
    <3> QED BY <3>3, <3>4
  <2>8. SUFFICES ASSUME InCall
                 PROVE  /\ cl.st \in {"COMPLETED", "FAILED"} => Silent(cl.call)'
                        /\ Answering(cl.call)' => Asked(cl)
    BY <1>4, <2>7 DEF LegalInv, InCall, Asked, Orderly
  <2>9. PICK j \in Calls : j = cl.call /\ cl'.call = j
    BY <2>8 DEF CallInv, ClientTypes, ClientReps, Calls
  <2>10. PICK t : t = s2c'
    OBVIOUS
  <2>11. \A i \in 1..Len(t) : t[i] = p \/ (i \in 1..Len(s2c) /\ t[i] = s2c[i])
    BY <1>1, <2>4, <2>10, AppendPackets
  <2>12. ASSUME cl.st \in {"COMPLETED", "FAILED"}
         PROVE  Silent(cl.call)'
    <3>1. Silent(j)
      BY <2>8, <2>9, <2>12 DEF LegalInv
    <3>2. j # k
      BY <1>2, <1>3, <2>6, <3>1 DEF Silent
    <3>3. \A i \in 1..Len(t) : t[i].call # j
      BY <2>6, <2>11, <3>1, <3>2 DEF Silent
    <3> QED BY <2>5, <2>9, <2>10, <3>1, <3>2, <3>3 DEF Silent
  <2>13. ASSUME Answering(cl.call)'
         PROVE  Asked(cl)
    <3>0. SUFFICES Answering(j)
      BY <2>8, <2>9 DEF LegalInv
    <3>1. \/ ex'[j].st = "RESPONSE"
          \/ ex'[j].pc = "send" /\ ex'[j].sending.type = "response"
          \/ \E i \in 1..Len(t) : t[i].type = "response" /\ t[i].call = j
          \/ \E i \in 1..Len(c2s) : Closes(c2s[i], j)
      BY <1>3, <2>9, <2>10, <2>13 DEF Answering
    <3>2. CASE ex'[j].st = "RESPONSE"
      BY <1>2, <2>3, <2>5, <3>2 DEF Answering
    <3>3. CASE ex'[j].pc = "send" /\ ex'[j].sending.type = "response"
      BY <2>3, <2>5, <3>3 DEF Answering
    <3>4. CASE \E i \in 1..Len(t) : t[i].type = "response" /\ t[i].call = j
      BY <1>2, <1>3, <2>1, <2>6, <2>11, <3>4 DEF Answering
    <3>5. CASE \E i \in 1..Len(c2s) : Closes(c2s[i], j)
      BY <3>5, SMTT(30) DEF Answering
    <3> QED BY <3>1, <3>2, <3>3, <3>4, <3>5
  <2> QED BY <2>12, <2>13
<1> QED BY <1>5, <1>6

\* An executor puts nothing on the wire but in sendmsg.
LEMMA ExecutorWire ==
  ASSUME NEW k \in Calls, ExecutorStep(k), ~ServerSendmsg(k)
  PROVE  c2s' = c2s /\ s2c' = s2c
BY DEF ExecutorStep, ExecutorStarts, ExecutorReceives, ExecutorWakes, ExecutorWaitCancelled,
   Invoke, ManagerReceives, CallReceiveFor, ManagerSends, ManagerFaults, ManagerTakesCancel,
   ExecutorRefuses, ExecutorRejects, CallReject, FaultEvent, ManagerReturns, ServerCallEnd,
   ServerSent, ServerSendmsgCancelled, wireVars

\* The receiver thread has what it had.
LEMMA AheadKept ==
  ASSUME Ahead, Unmoved(cl, cl'), cl'.ovf = cl.ovf, s2c' = s2c
  PROVE  Ahead'
BY DEF Ahead, Unmoved, InCall, Timely

\* What the server sends comes behind it.
LEMMA ServerKeepsAhead ==
  ASSUME CallInv, LegalInv, Ahead, ServerStep, UNCHANGED clientVars
  PROVE  Ahead'
<1>1. cl' = cl /\ Unmoved(cl, cl') /\ s2c \in Seq(Packets) /\ cl.ovf \in Nat
  BY DEF clientVars, Unmoved, CallInv, WireTypes, ClientTypes, ClientReps
<1>2. ASSUME NEW k \in Calls, ServerSendmsg(k), s2c' # s2c
      PROVE  Ahead'
  <2>1. PICK p \in Packets : s2c' = Append(s2c, p)
    BY <1>2, AtStep DEF ServerSendmsg, ServerReps
  <2>2. PICK t : t = s2c'
    OBVIOUS
  <2>3. Len(s2c) \in Nat /\ Len(t) = Len(s2c) + 1 /\ \A i \in 1..Len(s2c) : t[i] = s2c[i]
    BY <1>1, <2>1, <2>2
  <2>4. cl.ovf <= Len(s2c)
    BY DEF Ahead
  <2>5. ASSUME InCall, NEW i \in 1..Len(t), i <= cl.ovf
        PROVE  Timely(cl, t[i])
    <3>1. i \in 1..Len(s2c)
      BY <1>1, <2>3, <2>4, <2>5
    <3> QED BY <2>3, <2>5, <3>1 DEF Ahead
  <2> QED BY <1>1, <2>2, <2>3, <2>4, <2>5 DEF Ahead, InCall
<1>3. CASE s2c' = s2c
  BY <1>1, <1>3, AheadKept
<1>4. CASE s2c' # s2c
  <2>1. PICK k \in Calls : ServerSendmsg(k)
    <3>1. ~(FirstFragment \/ LaterPacket \/ ServerDisconnects)
      BY <1>4 DEF FirstFragment, LaterPacket, CallReject, FaultEvent, ServerDisconnects, wireVars
    <3> QED BY <1>4, <3>1, ExecutorWire DEF ServerStep, ServerReceiver
  <2> QED BY <1>2, <1>4, <2>1
<1> QED BY <1>3, <1>4

\* No step of the server breaks the invariant.
LEMMA ServerKeepsLegal ==
  ASSUME CallInv, LegalInv, ServerStep, UNCHANGED clientVars
  PROVE  LegalInv'
<1>1. cl' = cl /\ Unmoved(cl, cl')
  BY DEF clientVars, Unmoved
<1>2. CASE FirstFragment \/ LaterPacket \/ ServerDisconnects
  <2>1. \A j \in Calls : Speaks(ex[j], ex'[j], j)
    BY <1>2, FirstSpeaks, LaterSpeaks, DisconnectSpeaks DEF LegalInv
  <2>2. Shortens(s2c, s2c') /\ Shortens(c2s, c2s')
    <3>1. CASE FirstFragment \/ LaterPacket
      <4>1. c2s # <<>> /\ c2s' = Tail(c2s) /\ s2c' = s2c
        BY <3>1 DEF FirstFragment, LaterPacket, CallReject, FaultEvent, Arrives
      <4> QED BY <4>1, SMTT(30) DEF Shortens
    <3>2. CASE ServerDisconnects
      BY <3>2 DEF ServerDisconnects, wireVars, Shortens
    <3> QED BY <1>2, <3>1, <3>2, SMTT(30)
  <2> QED BY <1>1, <2>1, <2>2, QuietKeepsLegal
<1>3. ASSUME NEW k \in Calls, ExecutorStep(k)
      PROVE  LegalInv'
  <2>1. CASE ServerSendmsg(k)
    BY <1>1, <2>1, SendmsgKeepsLegal
  <2>2. CASE ~ServerSendmsg(k)
    <3>1. \A j \in Calls : Speaks(ex[j], ex'[j], j)
      BY <1>3, <2>2, ReceiverSpeaks, TurnSpeaks, FaultsSpeak, EndSpeaks, ResponseSpeaks
      DEF ExecutorStep
    <3>2. c2s' = c2s /\ s2c' = s2c
      BY <1>3, <2>2, ExecutorWire
    <3> QED BY <1>1, <3>1, <3>2, QuietKeepsLegal DEF Shortens
  <2> QED BY <2>1, <2>2
<1> QED BY <1>2, <1>3 DEF ServerStep, ServerReceiver

\* Nor does the connection when it breaks.
LEMMA BreakKeepsLegal ==
  ASSUME CallInv, LegalInv, Break
  PROVE  LegalInv' /\ (Ahead => Ahead')
<1>1. Unmoved(cl, cl') /\ ex' = ex /\ Shortens(s2c, s2c') /\ Shortens(c2s, c2s')
  BY DEF Break, clientVars, serverVars, Shortens, Unmoved
<1>2. \A j \in Calls : Speaks(ex[j], ex'[j], j)
  <2>1. ex \in [Calls -> ServerReps]
    BY DEF CallInv, ServerTypes
  <2>2. \A j \in Calls : Nudged(ex[j], ex'[j])
    BY <1>1, <2>1 DEF Nudged
  <2> QED BY <2>2, NudgedSpeaks
<1>3. cl' = cl /\ s2c' = s2c
  BY DEF Break, clientVars
<1> QED BY <1>1, <1>2, <1>3, QuietKeepsLegal, AheadKept

-----------------------------------------------------------------------------
(* The invariant, for the client's steps *)

\* A state in which a cancel may be forwarded (cncclsm.c)
Settled(c) == c.st \in {"REQUEST", "RESPONSE", "COMPLETED", "FAILED"}

\* The thread goes on, or sends a remote alert first; its state machine stays.
Going(c, d) ==
  /\ d.call = c.call /\ d.link = c.link /\ d.st = c.st /\ d.phase = c.phase /\ d.fatal = c.fatal /\ d.ovf = c.ovf
  /\ d.pc \in {"stub", "sleep"} \/ (d.pc = "send" /\ d.sending.type = "alert")

\* What a step of the calling thread does to the state machine of its call
Turned(c, d) ==
  /\ d.ovf = c.ovf
  /\ d.pc # "idle" =>
    /\ d.call = c.call
    /\ d.st = "STUB_WAIT" => c.st = "STUB_WAIT"
    /\ d.st = "REQUEST" => c.st = "REQUEST" \/ ~Asked(d)
    /\ d.st = "FAILED" => c.st = "FAILED"
    /\ d.st = "COMPLETED" => c.st = "COMPLETED" \/ Maybe(c.call)
    /\ Asked(c) => Asked(d)

\* rpc__cn_assoc_receive_frag leaves the state machine alone.
LEMMA ReceiveGoing ==
  ASSUME NEW c \in ClientReps
  PROVE  Going(c, Receive(c))
<1>1. PICK m : m = SkipDummy(c.msgs)
  OBVIOUS
<1>2. PICK d : d = Receive(c)
  OBVIOUS
<1>3. CASE c.astat # "ok"
  <2>1. d = [c EXCEPT !.pc = "stub", !.err = c.astat]
    BY <1>2, <1>3 DEF Receive
  <2>2. d.pc = "stub"
    BY <2>1 DEF ClientReps
  <2>3. d.call = c.call /\ d.link = c.link /\ d.st = c.st /\ d.phase = c.phase /\ d.fatal = c.fatal /\ d.ovf = c.ovf
    BY <2>1 DEF ClientReps
  <2> QED BY <1>2, <2>2, <2>3 DEF Going
<1>4. CASE c.astat = "ok" /\ m = <<>>
  <2>1. d = [c EXCEPT !.pc = "sleep", !.msgs = <<>>]
    BY <1>1, <1>2, <1>4 DEF Receive
  <2>2. d.pc = "sleep"
    BY <2>1 DEF ClientReps
  <2>3. d.call = c.call /\ d.link = c.link /\ d.st = c.st /\ d.phase = c.phase /\ d.fatal = c.fatal /\ d.ovf = c.ovf
    BY <2>1 DEF ClientReps
  <2> QED BY <1>2, <2>2, <2>3 DEF Going
<1>5. CASE c.astat = "ok" /\ m # <<>>
  <2>1. PICK e : e = [c EXCEPT !.msgs = Tail(m)]
    OBVIOUS
  <2>2. PICK p : p = Head(m)
    OBVIOUS
  <2>3. d = Take(e, p)
    BY <1>1, <1>2, <1>5, <2>1, <2>2 DEF Receive
  <2>4. CASE p.type = "fault"
    <3>1. d = [e EXCEPT !.pc = "stub", !.gotlast = TRUE, !.err = "fault"]
      BY <2>3, <2>4 DEF Take
    <3>2. d.pc = "stub"
      BY <2>1, <3>1 DEF ClientReps
    <3>3. d.call = c.call /\ d.link = c.link /\ d.st = c.st /\ d.phase = c.phase /\ d.fatal = c.fatal /\ d.ovf = c.ovf
      BY <2>1, <3>1 DEF ClientReps
    <3> QED BY <1>2, <3>2, <3>3 DEF Going
  <2>5. CASE p.type # "fault"
    <3>1. PICK got : got = Append(e.got, <<p.call, p.n>>)
      OBVIOUS
    <3>2. d = [e EXCEPT !.pc = "stub", !.got = got, !.gotlast = p.last, !.err = e.status]
      BY <2>1, <2>3, <2>5, <3>1 DEF Take, ClientReps
    <3>3. d.pc = "stub"
      BY <2>1, <3>2 DEF ClientReps
    <3>4. d.call = c.call /\ d.link = c.link /\ d.st = c.st /\ d.phase = c.phase /\ d.fatal = c.fatal /\ d.ovf = c.ovf
      BY <2>1, <3>2 DEF ClientReps
    <3> QED BY <1>2, <3>3, <3>4 DEF Going
  <2> QED BY <2>4, <2>5
<1> QED BY <1>3, <1>4, <1>5

\* So does going on.
LEMMA GotoGoing ==
  ASSUME NEW c \in ClientReps, NEW then
  PROVE  Going(c, Goto(c, then))
<1>1. CASE then = "recv"
  BY <1>1, ReceiveGoing DEF Goto
<1>2. CASE then # "recv"
  <2>1. PICK d : d = Goto(c, then) /\ d = [c EXCEPT !.pc = "stub"]
    BY <1>2 DEF Goto
  <2>2. d.pc = "stub"
    BY <2>1 DEF ClientReps
  <2>3. d.call = c.call /\ d.link = c.link /\ d.st = c.st /\ d.phase = c.phase /\ d.fatal = c.fatal /\ d.ovf = c.ovf
    BY <2>1 DEF ClientReps
  <2> QED BY <2>1, <2>2, <2>3 DEF Going
<1> QED BY <1>1, <1>2

\* A local alert is legal, and what it leads to leaves the state as it is.
LEMMA AlertLegal ==
  ASSUME NEW c, Settled(c)
  PROVE  ClientLegal(c.st, "local_alert")
BY DEF Settled, ClientLegal, ClientCallTable

\* rpc__cn_call_forward_cancel, where it may be called
LEMMA ForwardGoing ==
  ASSUME NEW c \in ClientReps, NEW k, NEW then, ForwardThen(c, k, then), Settled(c)
  PROVE  Going(c, cl')
<1>1. PICK d : d = IF k.local > 0 THEN [c EXCEPT !.err = c.status] ELSE c
  OBVIOUS
<1>2. d \in ClientReps /\ Unmoved(c, d) /\ d.ovf = c.ovf
  <2>1. d = c \/ d = [c EXCEPT !.err = c.status]
    BY <1>1
  <2>2. d \in ClientReps
    BY <2>1 DEF ClientReps
  <2>3. d.pc = c.pc /\ d.call = c.call /\ d.link = c.link /\ d.st = c.st /\ d.phase = c.phase
    BY <2>1 DEF ClientReps
  <2>4. d.nsent = c.nsent /\ d.sending = c.sending /\ d.fatal = c.fatal /\ d.ovf = c.ovf
    BY <2>1 DEF ClientReps
  <2> QED BY <2>2, <2>3, <2>4 DEF Unmoved
<1>3. ClientLegal(c.st, "local_alert")
  BY AlertLegal
<1>4. cl' = Goto(d, then) \/ cl' = BeginSend(d, RemoteAlert(c.call), then)
  BY <1>1, <1>3 DEF ForwardThen
<1>5. CASE cl' = Goto(d, then)
  <2>1. Going(d, cl')
    BY <1>2, <1>5, GotoGoing
  <2> QED BY <1>2, <2>1 DEF Going, Unmoved
<1>6. CASE cl' = BeginSend(d, RemoteAlert(c.call), then)
  <2>0. PICK p : p = RemoteAlert(c.call)
    OBVIOUS
  <2>1. p.type = "alert"
    BY <2>0 DEF RemoteAlert, Packet
  <2>2. PICK e : e = cl' /\ e = [d EXCEPT !.pc = "send", !.sending = p, !.then = then, !.failed = FALSE]
    BY <1>6, <2>0 DEF BeginSend
  <2>3. e.pc = "send" /\ e.sending = p
    BY <1>2, <2>2 DEF ClientReps
  <2>4. e.call = d.call /\ e.link = d.link /\ e.st = d.st /\ e.phase = d.phase /\ e.fatal = d.fatal /\ e.ovf = d.ovf
    BY <1>2, <2>2 DEF ClientReps
  <2> QED BY <1>2, <2>1, <2>2, <2>3, <2>4 DEF Going, Unmoved
<1> QED BY <1>4, <1>5, <1>6

\* A thread that goes on is where nothing illegal can come.
LEMMA GoingTurns ==
  ASSUME NEW b, NEW c, NEW d, Going(c, d), Settled(c), c.fatal = "none",
         c.phase = "out" => c.st # "REQUEST",
         c.call = b.call, c.ovf = b.ovf, b.phase = "out" => c.phase = "out",
         c.st = "FAILED" => b.st = "FAILED",
         c.st = "COMPLETED" => b.st = "COMPLETED" \/ Maybe(b.call)
  PROVE  Orderly(d) /\ Turned(b, d)
<1>1. d.pc # "idle"
  BY DEF Going
<1>2. Turned(b, d)
  BY DEF Going, Settled, Turned, Asked
<1>3. Orderly(d)
  BY <1>1 DEF Going, Settled, Orderly
<1> QED BY <1>2, <1>3

\* The rest of rpc__cn_call_end
LEMMA FinishTurns ==
  ASSUME NEW b, NEW c, NEW k, Finish(c, k), c.ovf = b.ovf
  PROVE  Orderly(cl') /\ Turned(b, cl')
<1>1. PICK n \in ClientReps : n = NoCall /\ n.pc = "idle" /\ n.link = 0 /\ n.fatal = "none"
  <2>1. NoCall.pc = "idle" /\ NoCall.link = 0 /\ NoCall.fatal = "none"
    BY DEF NoCall
  <2> QED BY <2>1, NoCallType
<1>2. PICK a : cl' = [n EXCEPT !.call = c.call, !.rcvr = c.rcvr, !.ovf = c.ovf, !.assoc = a]
  BY <1>1 DEF Finish
<1>3. PICK d : d = cl' /\ d = [n EXCEPT !.call = c.call, !.rcvr = c.rcvr, !.ovf = c.ovf, !.assoc = a]
  BY <1>2
<1>4. d.pc = "idle" /\ d.link = 0 /\ d.fatal = "none" /\ d.ovf = c.ovf
  BY <1>1, <1>3 DEF ClientReps
<1> QED BY <1>3, <1>4 DEF Orderly, Turned

\* rpc__cn_transmit_buffers: a request is about to be sent.
LEMMA TransmitTurns ==
  ASSUME ClientTypes, InCall, Orderly(cl), cl.phase = "in", NEW last \in BOOLEAN, TransmitBuffers(last)
  PROVE  Orderly(cl') /\ Turned(cl, cl')
<1>1. PICK c \in ClientReps : c = cl /\ c.pc # "idle"
  BY DEF ClientTypes, InCall
<1>2. PICK p : p = Request(cl.call, cl.nsent + 1, last, FirstAlert)
  OBVIOUS
<1>3. p.type = "request" /\ p.last = last
  BY <1>2 DEF Request, Packet
<1>4. PICK phase : phase = IF last THEN "out" ELSE "in"
  OBVIOUS
<1>5. PICK then : then = IF last /\ ~Maybe(cl.call) THEN "recv" ELSE "stub"
  OBVIOUS
<1>6. PICK n : n = cl.nsent + 1
  OBVIOUS
<1>7. PICK e : e = [c EXCEPT !.nsent = n, !.phase = phase]
  OBVIOUS
<1>8. cl' = BeginSend(e, p, then)
  <2>1. [cl EXCEPT !.nsent = @ + 1, !.phase = phase] = e
    BY <1>1, <1>6, <1>7 DEF ClientReps
  <2> QED BY <1>2, <1>4, <1>5, <2>1 DEF TransmitBuffers
<1>9. PICK d : d = cl' /\ d = [e EXCEPT !.pc = "send", !.sending = p, !.then = then, !.failed = FALSE]
  BY <1>8 DEF BeginSend
<1>10. d.pc = "send" /\ d.sending = p /\ d.phase = phase
  BY <1>7, <1>9 DEF ClientReps
<1>11. d.call = c.call /\ d.st = c.st /\ d.fatal = c.fatal /\ d.ovf = c.ovf
  BY <1>7, <1>9 DEF ClientReps
<1>12. Turned(cl, d)
  BY <1>1, <1>11 DEF Turned, Asked
<1>13. Orderly(d)
  BY <1>1, <1>3, <1>4, <1>10, <1>11 DEF Orderly
<1> QED BY <1>9, <1>12, <1>13

\* What the stub does of the call is in order.
LEMMA StubTurns ==
  ASSUME ClientTypes, Orderly(cl),
         \/ CallTransmitBuffers \/ CallTransmitSends \/ CallTransmitFailed
         \/ CallTransceive \/ CallTransceiveFailed \/ CallReceive
  PROVE  Orderly(cl') /\ Turned(cl, cl')
<1>1. PICK c \in ClientReps : c = cl /\ c.pc = "stub" /\ c.fatal = "none" /\ InCall
  BY DEF CallTransmitBuffers, CallTransmitSends, CallTransmitFailed, CallTransceive,
         CallTransceiveFailed, CallReceive, AtStub, InCall, ClientTypes, Alive
<1>2. c.phase = "out" => c.st \in {"RESPONSE", "COMPLETED", "FAILED"}
  BY <1>1 DEF Orderly
<1>3. CASE CallTransmitBuffers
  <2>1. PICK e : e = [c EXCEPT !.st = "REQUEST"]
    OBVIOUS
  <2>2. e \in ClientReps
    <3>1. "REQUEST" \in ClientCallStates
      BY ClientStates
    <3> QED BY <2>1, <3>1 DEF ClientReps
  <2>3. e.st = "REQUEST" /\ e.phase = c.phase /\ e.fatal = c.fatal /\ e.ovf = c.ovf /\ e.call = c.call
    BY <2>1 DEF ClientReps
  <2>4. ForwardThen(e, canc, "stub") /\ cl.phase = "in"
    BY <1>1, <1>3, <2>1 DEF CallTransmitBuffers
  <2>5. Settled(e)
    BY <2>3 DEF Settled
  <2>6. Going(e, cl')
    BY <2>2, <2>4, <2>5, ForwardGoing
  <2> QED BY <1>1, <2>3, <2>4, <2>5, <2>6, GoingTurns
<1>4. CASE CallTransmitSends
  <2>1. TransmitBuffers(FALSE) /\ cl.phase = "in"
    BY <1>4 DEF CallTransmitSends
  <2> QED BY <1>1, <2>1, TransmitTurns
<1>5. CASE CallTransmitFailed
  <2>1. ForwardThen(cl, canc, "stub") /\ cl.phase = "in" /\ cl.st \in {"FAILED", "CFDNE"}
    BY <1>5 DEF CallTransmitFailed
  <2>2. cl.st = "FAILED"
    BY <1>1, <2>1 DEF Orderly
  <2>3. Settled(c) /\ Going(c, cl')
    BY <1>1, <2>1, <2>2, ForwardGoing DEF Settled
  <2> QED BY <1>1, <2>2, <2>3, GoingTurns
<1>6. CASE CallTransceive
  <2>1. TransmitBuffers(TRUE) /\ cl.phase = "in"
    BY <1>6 DEF CallTransceive
  <2> QED BY <1>1, <2>1, TransmitTurns
<1>7. CASE CallTransceiveFailed
  <2>1. cl.st = "FAILED"
    BY <1>1, <1>7 DEF Orderly, CallTransceiveFailed
  <2>2. CASE cl.status = "ok"
    <3>1. PICK e : e = [c EXCEPT !.phase = "out"]
      OBVIOUS
    <3>2. e \in ClientReps
      BY <3>1, SMTT(30) DEF ClientReps
    <3>3. e.st = c.st /\ e.phase = "out" /\ e.fatal = c.fatal /\ e.ovf = c.ovf /\ e.call = c.call
      BY <3>1 DEF ClientReps
    <3>4. ForwardThen(e, canc, "recv")
      BY <1>1, <1>7, <2>2, <3>1 DEF CallTransceiveFailed
    <3>5. Settled(e) /\ Going(e, cl')
      BY <1>1, <2>1, <3>2, <3>3, <3>4, ForwardGoing DEF Settled
    <3> QED BY <1>1, <2>1, <3>3, <3>5, GoingTurns
  <2>3. CASE cl.status # "ok"
    <3>1. PICK d : d = cl' /\ d = [c EXCEPT !.phase = "out", !.err = c.status]
      BY <1>1, <1>7, <2>3 DEF CallTransceiveFailed
    <3>2. d.pc = c.pc /\ d.st = c.st /\ d.phase = "out" /\ d.fatal = c.fatal /\ d.ovf = c.ovf /\ d.call = c.call
      BY <3>1 DEF ClientReps
    <3>3. Orderly(d) /\ Turned(cl, d)
      BY <1>1, <2>1, <3>2 DEF Orderly, Turned, Asked
    <3> QED BY <3>1, <3>3
  <2> QED BY <2>2, <2>3
<1>8. CASE CallReceive
  <2>1. cl.phase = "out" /\ cl' = Receive(cl)
    BY <1>8 DEF CallReceive
  <2>2. Settled(c) /\ Going(c, cl')
    BY <1>1, <1>2, <2>1, ReceiveGoing DEF Settled
  <2> QED BY <1>1, <1>2, <2>1, <2>2, GoingTurns
<1> QED BY <1>3, <1>4, <1>5, <1>6, <1>7, <1>8

\* What follows a packet that went out, or did not, is in order.
LEMMA AfterSendTurns ==
  ASSUME ClientTypes, Orderly(cl), InSendmsg, NEW c \in ClientReps, Unmoved(cl, c),
         c.ovf = cl.ovf, NEW k, AfterSend(c, k)
  PROVE  Orderly(cl') /\ Turned(cl, cl')
<1>1. /\ c.pc \in {"send", "sent"} /\ c.fatal = "none" /\ Orderly(c)
      /\ c.phase = cl.phase /\ c.st = cl.st /\ c.call = cl.call
  BY DEF InSendmsg, Unmoved, Orderly
<1>2. CASE c.sending.type = "alert"
  <2>1. PICK e : e = [c EXCEPT !.err = c.status]
    OBVIOUS
  <2>2. e \in ClientReps
    BY <2>1, ZenonT(40) DEF ClientReps
  <2>3. e.st = c.st /\ e.phase = c.phase /\ e.fatal = c.fatal /\ e.ovf = c.ovf /\ e.call = c.call
    BY <2>1 DEF ClientReps
  <2>4. PICK j : ForwardThen(e, j, c.then)
    BY <1>2, <2>1 DEF AfterSend
  <2>5. Settled(e)
    BY <1>1, <1>2, <2>3 DEF Orderly, Settled
  <2>6. Going(e, cl')
    BY <2>2, <2>4, <2>5, ForwardGoing
  <2>7. e.phase = "out" => e.st # "REQUEST"
    BY <1>1, <1>2, <2>3 DEF Orderly
  <2> QED BY <1>1, <2>3, <2>5, <2>6, <2>7, GoingTurns
<1>3. CASE c.sending.type = "orphaned"
  <2>1. PICK e : e = [c EXCEPT !.st = "FAILED"] /\ Finish(e, k)
    BY <1>3 DEF AfterSend
  <2>2. e.ovf = cl.ovf
    BY <2>1 DEF ClientReps
  <2> QED BY <2>1, <2>2, FinishTurns
<1>4. CASE c.sending.type = "request" /\ ~c.sending.last
  <2>1. PICK err \in {"ok", "fault", "closed", "cancel_timeout"} :
          ForwardThen([c EXCEPT !.st = "REQUEST", !.err = err], k, "stub")
    BY <1>4 DEF AfterSend, ClientReps
  <2>2. PICK e : e = [c EXCEPT !.st = "REQUEST", !.err = err]
    OBVIOUS
  <2>3. e \in ClientReps
    <3>1. "REQUEST" \in ClientCallStates
      BY ClientStates
    <3> QED BY <2>2, <3>1, ZenonT(40) DEF ClientReps
  <2>4. e.st = "REQUEST" /\ e.phase = c.phase /\ e.fatal = c.fatal /\ e.ovf = c.ovf /\ e.call = c.call
    BY <2>2 DEF ClientReps
  <2>5. Settled(e) /\ Going(e, cl')
    BY <2>1, <2>2, <2>3, <2>4, ForwardGoing DEF Settled
  <2>6. e.phase # "out"
    BY <1>1, <1>4, <2>4 DEF Orderly
  <2> QED BY <1>1, <2>4, <2>5, <2>6, GoingTurns
<1>5. CASE c.sending.type = "request" /\ c.sending.last
  <2>1. PICK st \in {"COMPLETED", "RESPONSE"} : st = IF Maybe(c.call) THEN "COMPLETED" ELSE "RESPONSE"
    OBVIOUS
  <2>2. PICK e : e = [c EXCEPT !.st = st]
    OBVIOUS
  <2>3. IF c.status = "ok" THEN ForwardThen(e, k, c.then)
        ELSE cl' = [e EXCEPT !.pc = "stub", !.err = c.status] /\ canc' = k
    BY <1>5, <2>1, <2>2 DEF AfterSend
  <2>4. e \in ClientReps
    <3>1. st \in ClientCallStates
      BY ClientStates
    <3> QED BY <2>2, <3>1 DEF ClientReps
  <2>5. e.st = st /\ e.phase = c.phase /\ e.fatal = c.fatal /\ e.ovf = c.ovf /\ e.call = c.call /\ e.link = c.link
    BY <2>2 DEF ClientReps
  <2>6. Settled(e)
    BY <2>5 DEF Settled
  <2>7. Going(e, cl')
    <3>1. CASE c.status = "ok"
      BY <2>3, <2>4, <2>6, <3>1, ForwardGoing
    <3>2. CASE c.status # "ok"
      <4>1. PICK d : d = cl' /\ d = [e EXCEPT !.pc = "stub", !.err = c.status]
        BY <2>3, <3>2
      <4>2. d.pc = "stub"
        BY <2>4, <4>1 DEF ClientReps
      <4>3. d.call = e.call /\ d.link = e.link /\ d.st = e.st /\ d.phase = e.phase /\ d.fatal = e.fatal
        BY <2>4, <4>1 DEF ClientReps
      <4> QED BY <4>1, <4>2, <4>3 DEF Going
    <3> QED BY <3>1, <3>2
  <2> QED BY <1>1, <2>1, <2>5, <2>6, <2>7, GoingTurns
<1>6. c.sending.type \in {"alert", "orphaned", "request"}
  BY DEF ClientTypes, Sendable, Unmoved
<1> QED BY <1>2, <1>3, <1>4, <1>5, <1>6

\* Sending and waiting
LEMMA WaitTurns ==
  ASSUME ClientTypes, Orderly(cl), Sendmsg \/ Sent \/ SendmsgCancelled \/ Awake \/ SleepCancelled
  PROVE  Orderly(cl') /\ Turned(cl, cl')
<1>1. PICK c \in ClientReps : c = cl
  BY DEF ClientTypes
<1>2. CASE Sendmsg
  <2>1. PICK f : cl' = [c EXCEPT !.pc = "sent", !.failed = f]
    <3>1. [c EXCEPT !.pc = "sent"] = [c EXCEPT !.pc = "sent", !.failed = c.failed]
      BY DEF ClientReps
    <3> QED BY <1>1, <1>2, <3>1 DEF Sendmsg
  <2>2. PICK d : d = cl' /\ d = [c EXCEPT !.pc = "sent", !.failed = f]
    BY <2>1
  <2>3. d.pc = "sent" /\ d.sending = c.sending /\ d.phase = c.phase
    BY <2>2 DEF ClientReps
  <2>4. d.call = c.call /\ d.st = c.st /\ d.fatal = c.fatal /\ d.ovf = c.ovf
    BY <2>2 DEF ClientReps
  <2>5. c.pc = "send"
    BY <1>1, <1>2 DEF Sendmsg
  <2>6. Orderly(d) /\ Turned(cl, d)
    BY <1>1, <2>3, <2>4, <2>5 DEF Orderly, Turned, Asked
  <2> QED BY <2>2, <2>6
<1>3. CASE Sent
  <2>1. PICK d : d = IF cl.failed THEN [cl EXCEPT !.astat = "closed"] ELSE cl
    OBVIOUS
  <2>2. d = c \/ d = [c EXCEPT !.astat = "closed"]
    BY <1>1, <2>1
  <2>3. d \in ClientReps
    BY <2>2, ZenonT(60) DEF ClientReps
  <2>4. d.pc = c.pc /\ d.call = c.call /\ d.link = c.link /\ d.st = c.st /\ d.phase = c.phase
    BY <2>2 DEF ClientReps
  <2>5. d.nsent = c.nsent /\ d.sending = c.sending /\ d.fatal = c.fatal /\ d.ovf = c.ovf
    BY <2>2 DEF ClientReps
  <2>6. Unmoved(cl, d) /\ d.ovf = cl.ovf /\ AfterSend(d, canc) /\ InSendmsg
    BY <1>1, <1>3, <2>1, <2>4, <2>5 DEF Unmoved, Sent, InSendmsg
  <2> QED BY <2>3, <2>6, AfterSendTurns
<1>4. CASE SendmsgCancelled
  <2>1. CASE cl.status = "ok"
    <3>1. cl' = cl
      BY <1>4, <2>1 DEF SendmsgCancelled
    <3> QED BY <3>1 DEF Turned, Asked, Orderly
  <2>2. CASE cl.status # "ok"
    <3>1. PICK d : d = [c EXCEPT !.failed = TRUE]
      OBVIOUS
    <3>2. d \in ClientReps
      BY <3>1 DEF ClientReps
    <3>3. d.pc = c.pc /\ d.call = c.call /\ d.link = c.link /\ d.st = c.st /\ d.phase = c.phase
      BY <3>1 DEF ClientReps
    <3>4. d.nsent = c.nsent /\ d.sending = c.sending /\ d.fatal = c.fatal /\ d.ovf = c.ovf
      BY <3>1 DEF ClientReps
    <3>5. PICK k : AfterSend(d, k)
      BY <1>1, <1>4, <2>2, <3>1 DEF SendmsgCancelled
    <3>6. Unmoved(cl, d) /\ d.ovf = cl.ovf /\ InSendmsg
      BY <1>1, <1>4, <3>3, <3>4 DEF Unmoved, SendmsgCancelled, InSendmsg
    <3> QED BY <3>2, <3>5, <3>6, AfterSendTurns
  <2> QED BY <2>1, <2>2
<1>5. CASE Awake \/ SleepCancelled
  <2>1. c.pc = "sleep"
    BY <1>1, <1>5 DEF Awake, SleepCancelled
  <2>2. Settled(c) /\ c.fatal = "none" /\ (c.phase = "out" => c.st # "REQUEST")
    BY <1>1, <2>1 DEF Orderly, Settled
  <2>3. Going(c, cl')
    <3>1. CASE Awake
      BY <1>1, <3>1, ReceiveGoing DEF Awake
    <3>2. CASE SleepCancelled /\ cl.status = "ok"
      <4>1. PICK k : ForwardThen(c, k, "recv")
        BY <1>1, <3>2 DEF SleepCancelled
      <4> QED BY <2>2, <4>1, ForwardGoing
    <3>3. CASE SleepCancelled /\ cl.status # "ok"
      <4>1. PICK d : d = cl' /\ d = [c EXCEPT !.pc = "stub", !.err = c.status]
        BY <1>1, <3>3 DEF SleepCancelled
      <4>2. d.pc = "stub"
        BY <4>1 DEF ClientReps
      <4>3. d.call = c.call /\ d.link = c.link /\ d.st = c.st /\ d.phase = c.phase /\ d.fatal = c.fatal /\ d.ovf = c.ovf
        BY <4>1 DEF ClientReps
      <4> QED BY <4>1, <4>2, <4>3 DEF Going
    <3> QED BY <1>5, <3>1, <3>2, <3>3
  <2> QED BY <1>1, <2>2, <2>3, GoingTurns
<1> QED BY <1>2, <1>3, <1>4, <1>5

\* rpc_call_end
LEMMA EndTurns ==
  ASSUME ClientTypes, Orderly(cl), CallEnd
  PROVE  Orderly(cl') /\ Turned(cl, cl')
<1>1. CASE ~ClientDoes(cl.st, "end", "abort_send")
  BY <1>1, FinishTurns DEF CallEnd
<1>2. CASE ClientDoes(cl.st, "end", "abort_send")
  <2>1. PICK c \in ClientReps : c = cl /\ c.pc = "stub"
    BY DEF ClientTypes, CallEnd
  <2>2. c.st # "STUB_WAIT"
    BY <1>2, <2>1 DEF ClientDoes, ClientLegal, ClientCallTable
  <2>3. PICK p : p = Orphaned(cl.call)
    OBVIOUS
  <2>4. p.type = "orphaned"
    BY <2>3 DEF Orphaned, Packet
  <2>5. PICK d : d = cl' /\ d = [c EXCEPT !.pc = "send", !.sending = p, !.then = "end", !.failed = FALSE]
    BY <1>2, <2>1, <2>3 DEF CallEnd, BeginSend
  <2>6. d.pc = "send" /\ d.sending = p /\ d.phase = c.phase
    BY <2>5 DEF ClientReps
  <2>7. d.call = c.call /\ d.st = c.st /\ d.fatal = c.fatal /\ d.ovf = c.ovf
    BY <2>5 DEF ClientReps
  <2>8. Orderly(d) /\ Turned(cl, d)
    BY <2>1, <2>2, <2>4, <2>6, <2>7 DEF Orderly, Turned, Asked
  <2> QED BY <2>5, <2>8
<1> QED BY <1>1, <1>2

\* A packet that goes out leaves the call where it is.
LEMMA SendsInPlace ==
  ASSUME ClientTypes, CallerStep, c2s' # c2s
  PROVE  cl'.phase = cl.phase
<1>1. Sendmsg
  BY DEF CallerStep, CallTransmitBuffers, CallTransmitSends, CallTransmitFailed,
     CallTransceive, CallTransceiveFailed, CallReceive, Sent, SendmsgCancelled,
     Awake, SleepCancelled, CallEnd, wireVars
<1> QED BY <1>1 DEF Sendmsg, ClientTypes, ClientReps

\* A step of the calling thread keeps the invariant.
LEMMA CallerKeepsLegal ==
  ASSUME CallInv, LegalInv, CallerStep, ServerKeeps
  PROVE  LegalInv' /\ Turned(cl, cl')
<1>1. /\ ClientTypes /\ Orderly(cl) /\ Says /\ c2s \in Seq(Packets) /\ ex' = ex
      /\ InSendmsg => cl.sending \in Packets
  BY DEF CallInv, LegalInv, WireTypes, ServerKeeps, serverVars, ClientTypes, ClientReps
<1>2. Orderly(cl') /\ Turned(cl, cl')
  BY <1>1, StubTurns, WaitTurns, EndTurns DEF CallerStep
<1>3. CallerWire
  BY <1>1, CallerSteps
<1>4. s2c' = s2c /\ Says'
  BY <1>1, <1>3 DEF CallerWire, Says
<1>5. SUFFICES ASSUME InCall'
               PROVE  /\ (cl.st \in {"COMPLETED", "FAILED"})' => Silent(cl.call)'
                      /\ Answering(cl.call)' => Asked(cl)'
  BY <1>2, <1>4 DEF LegalInv
<1>6. PICK d : d = cl'
  OBVIOUS
<1>7. /\ d.call = cl.call /\ (d.st = "FAILED" => cl.st = "FAILED")
      /\ d.st = "COMPLETED" => cl.st = "COMPLETED" \/ Maybe(cl.call)
      /\ Asked(cl) => Asked(d)
  BY <1>2, <1>5, <1>6 DEF InCall, Turned
<1>8. InCall
  BY <1>3 DEF CallerWire
<1>9. PICK k \in Calls : k = cl.call /\ k = d.call
  BY <1>1, <1>7, <1>8 DEF ClientTypes, ClientReps, Calls
<1>10. ASSUME d.st \in {"COMPLETED", "FAILED"}
       PROVE  Silent(k)
  <2>1. CASE cl.st \in {"COMPLETED", "FAILED"}
    BY <1>8, <1>9, <2>1 DEF LegalInv
  <2>2. CASE Maybe(k)
    BY <1>1, <2>2 DEF Says, Speech, Silent
  <2> QED BY <1>7, <1>9, <1>10, <2>1, <2>2
<1>11. (cl.st \in {"COMPLETED", "FAILED"})' => Silent(cl.call)'
  <2>1. Silent(k) => Silent(cl.call)'
    BY <1>1, <1>4, <1>6, <1>9 DEF Silent
  <2> QED BY <1>6, <1>10, <2>1
<1>12. ASSUME Answering(cl.call)'
       PROVE  Asked(d)
  <2>1. PICK t : t = c2s'
    OBVIOUS
  <2>2. \/ ex[k].st = "RESPONSE"
        \/ ex[k].pc = "send" /\ ex[k].sending.type = "response"
        \/ \E i \in 1..Len(s2c) : s2c[i].type = "response" /\ s2c[i].call = k
        \/ \E i \in 1..Len(t) : Closes(t[i], k)
    BY <1>1, <1>4, <1>6, <1>9, <1>12, <2>1 DEF Answering
  <2>3. CASE \E i \in 1..Len(t) : Closes(t[i], k)
    <3>1. CASE t = c2s
      <4>1. Answering(k)
        BY <2>3, <3>1 DEF Answering
      <4> QED BY <1>7, <1>8, <1>9, <4>1 DEF LegalInv
    <3>2. CASE cl.pc = "send" /\ cl'.pc = "sent" /\ t = Append(c2s, cl.sending) /\ t # c2s
      <4>1. PICK i \in 1..Len(t) : Closes(t[i], k)
        BY <2>3
      <4>2. PICK p \in Packets : p = cl.sending
        BY <1>1, <3>2 DEF InSendmsg
      <4>3. t[i] = p \/ (i \in 1..Len(c2s) /\ t[i] = c2s[i])
        BY <1>1, <3>2, <4>2, AppendPackets
      <4>4. CASE t[i] = p
        <5>1. cl.phase = "out"
          BY <1>1, <3>2, <4>1, <4>2, <4>4 DEF Orderly, Closes
        <5>2. d.phase = cl.phase
          BY <1>1, <1>6, <2>1, <3>2, SendsInPlace
        <5> QED BY <1>6, <3>2, <5>1, <5>2 DEF Asked
      <4>5. CASE i \in 1..Len(c2s) /\ t[i] = c2s[i]
        <5>1. Answering(k)
          BY <4>1, <4>5 DEF Answering
        <5> QED BY <1>7, <1>8, <1>9, <5>1 DEF LegalInv
      <4> QED BY <4>3, <4>4, <4>5
    <3> QED BY <1>3, <2>1, <3>1, <3>2 DEF CallerWire
  <2>4. CASE ~\E i \in 1..Len(t) : Closes(t[i], k)
    <3>1. Answering(k)
      BY <2>2, <2>4 DEF Answering
    <3> QED BY <1>7, <1>8, <1>9, <3>1 DEF LegalInv
  <2> QED BY <2>3, <2>4
<1> QED BY <1>6, <1>11, <1>12

\* No call of the server moves.
LEMMA StillSpeaks ==
  ASSUME CallInv, ServerKeeps
  PROVE  ex' = ex /\ \A j \in Calls : Speaks(ex[j], ex'[j], j)
<1>1. ex' = ex /\ ex \in [Calls -> ServerReps]
  BY DEF ServerKeeps, serverVars, CallInv, ServerTypes
<1>2. \A j \in Calls : Nudged(ex[j], ex'[j])
  BY <1>1 DEF Nudged
<1> QED BY <1>1, <1>2, NudgedSpeaks

\* What becomes of a response, and of a fault (cncclsm.c)
LEMMA ReceiverDoes ==
  /\ ClientDoes("RESPONSE", "recv", "handle_recv_frag")
  /\ ~ClientDoes("RESPONSE", "recv", "raise_fault")
  /\ \A st \in {"REQUEST", "RESPONSE"} :
       ClientDoes(st, "fault", "raise_fault") /\ ~ClientDoes(st, "fault", "handle_recv_frag")
BY DEF ClientDoes, ClientLegal, ClientCallTable

\* Nothing is put before what was read ahead, and the call goes forward.
LEMMA CallerKeepsAhead ==
  ASSUME CallInv, LegalInv, Ahead, LegalInv', Turned(cl, cl'), CallerStep, ServerKeeps
  PROVE  Ahead'
<1>1. CallerWire
  <2>1. ClientTypes /\ (InSendmsg => cl.sending \in Packets)
    BY DEF CallInv, ClientTypes, ClientReps
  <2> QED BY <2>1, CallerSteps
<1>2. s2c' = s2c /\ InCall
  BY <1>1 DEF CallerWire
<1>3. PICK d : d = cl' /\ d.ovf = cl.ovf
  BY DEF Turned
<1>4. SUFFICES ASSUME d.pc # "idle", NEW i \in 1..Len(s2c), i <= cl.ovf, s2c[i].call = d.call
               PROVE  d.st # "STUB_WAIT" /\ (s2c[i].type = "response" => d.st # "REQUEST")
  BY <1>2, <1>3 DEF Ahead, InCall, Timely
<1>5. /\ d.call = cl.call
      /\ d.st = "STUB_WAIT" => cl.st = "STUB_WAIT"
      /\ d.st = "REQUEST" => cl.st = "REQUEST" \/ ~Asked(d)
      /\ Asked(cl) => Asked(d)
  BY <1>3, <1>4 DEF Turned
<1>6. cl.st # "STUB_WAIT" /\ (s2c[i].type = "response" => cl.st # "REQUEST")
  BY <1>2, <1>4, <1>5 DEF Ahead, Timely
<1>7. s2c[i].type = "response" => Asked(cl)
  BY <1>2, <1>4, <1>5 DEF LegalInv, Answering
<1> QED BY <1>5, <1>6, <1>7

\* What the thread sends does not hold back is in time.
LEMMA TimelyWhenFree ==
  ASSUME CallInv, LegalInv, InCall, ~InSendmsg, NEW i \in 1..Len(s2c)
  PROVE  Timely(cl, s2c[i])
<1>1. Orderly(cl) /\ Says /\ cl.pc \notin {"idle", "send", "sent"}
  BY DEF LegalInv, InSendmsg, InCall
<1>2. SUFFICES ASSUME s2c[i].call = cl.call
               PROVE  cl.st # "STUB_WAIT" /\ (s2c[i].type = "response" => cl.st # "REQUEST")
  BY DEF Timely
<1>3. PICK k \in Calls : k = cl.call
  BY <1>1 DEF CallInv, ClientTypes, ClientReps, Calls
<1>4. ex[k].pc # "none"
  BY <1>1, <1>2, <1>3 DEF Says, Speech
<1>5. ASSUME cl.st = "STUB_WAIT" PROVE FALSE
  <2>1. cl.nsent = 0
    BY <1>1, <1>5 DEF Orderly
  <2>2. Unknown(k)
    BY <1>3, <2>1 DEF CallInv, BeginsOnce
  <2> QED BY <1>4, <2>2 DEF Unknown
<1>6. ASSUME s2c[i].type = "response" PROVE cl.st # "REQUEST"
  <2>1. Asked(cl)
    BY <1>2, <1>3, <1>6 DEF Answering, LegalInv
  <2> QED BY <1>1, <2>1 DEF Orderly, Asked
<1> QED BY <1>5, <1>6

\* A packet for the call comes when the call waits for it.
LEMMA ArrivesInTime ==
  ASSUME CallInv, LegalInv, Ahead, Receivable, ForCall(Head(s2c))
  PROVE  /\ InCall /\ cl.call \in Calls /\ Head(s2c).call = cl.call
         /\ cl.st \in {"REQUEST", "RESPONSE"}
         /\ Head(s2c).type = "response" => cl.st = "RESPONSE"
         /\ Head(s2c).type \in {"response", "fault"}
         /\ Head(s2c).type = "fault" => Head(s2c).last
         /\ Head(s2c).last => /\ Done(ex[cl.call])
                              /\ \A i \in 1..Len(Tail(s2c)) : Tail(s2c)[i].call # cl.call
<1>1. s2c \in Seq(Packets) /\ s2c # <<>> /\ ClientTypes /\ Orderly(cl) /\ Says
  BY DEF CallInv, WireTypes, LegalInv, Receivable
<1>2. PICK p \in Packets : p = Head(s2c) /\ p = s2c[1] /\ 1 \in 1..Len(s2c)
  BY <1>1, TailPackets
<1>3. InCall
  BY <1>1 DEF ForCall, Orderly, InCall
<1>4. PICK k \in Calls : k = cl.call /\ k = p.call
  BY <1>1, <1>2, <1>3 DEF ForCall, ClientTypes, ClientReps, Calls
<1>5. p.type \in {"response", "fault"}
  BY <1>2 DEF CallInv, BeginsOnce
<1>6. /\ ex[k].pc # "none" /\ ~Maybe(k)
      /\ p.type = "fault" => p.last
      /\ p.last => Done(ex[k]) /\ \A j \in 1..Len(s2c) : 1 < j => s2c[j].call # k
  BY <1>1, <1>2, <1>4 DEF Says, Speech
<1>7. cl.st \notin {"COMPLETED", "FAILED"}
  <2>1. SUFFICES ASSUME cl.st \in {"COMPLETED", "FAILED"} PROVE FALSE
    OBVIOUS
  <2>2. Silent(k)
    BY <1>3, <1>4, <2>1 DEF LegalInv
  <2> QED BY <1>2, <1>4, <2>2 DEF Silent
<1>8. Timely(cl, p)
  <2>1. CASE ~InSendmsg
    BY <1>2, <1>3, <2>1, TimelyWhenFree
  <2>2. CASE InSendmsg
    <3>1. cl.ovf > 0 /\ cl.ovf \in Nat
      BY <2>2 DEF Receivable, ReceiverFree, CallInv, ClientTypes, ClientReps
    <3> QED BY <1>2, <1>3, <3>1 DEF Ahead
  <2> QED BY <2>1, <2>2
<1>9. cl.st \in {"REQUEST", "RESPONSE"} /\ (p.type = "response" => cl.st = "RESPONSE")
  BY <1>1, <1>3, <1>4, <1>7, <1>8 DEF Orderly, InCall, Timely
<1>10. ASSUME p.last
       PROVE  \A i \in 1..Len(Tail(s2c)) : Tail(s2c)[i].call # k
  <2>1. PICK t : t = Tail(s2c)
    OBVIOUS
  <2>2. \A i \in 1..Len(t) : i \in Nat /\ i >= 1 /\ i + 1 \in 1..Len(s2c) /\ t[i] = s2c[i + 1]
    BY <1>1, <1>2, <2>1
  <2>3. \A i \in 1..Len(t) : t[i].call # k
    BY <1>6, <1>10, <2>2
  <2> QED BY <2>1, <2>3
<1> QED BY <1>2, <1>3, <1>4, <1>5, <1>6, <1>9, <1>10

\* The receiver thread drops a packet, or gives it to the state machine.
LEMMA ReceiverMoves ==
  ASSUME CallInv, LegalInv, Ahead, ClientReceives
  PROVE  /\ s2c \in Seq(Packets) /\ s2c # <<>> /\ s2c' = Tail(s2c) /\ c2s' = c2s
         /\ cl'.ovf \in ReadAhead(cl.ovf, s2c)
         /\ cl'.pc = cl.pc /\ cl'.call = cl.call /\ cl'.link = cl.link /\ cl'.phase = cl.phase
         /\ cl'.nsent = cl.nsent /\ cl'.sending = cl.sending /\ cl'.fatal = cl.fatal
         /\ \/ cl'.st = cl.st
            \/ /\ ForCall(Head(s2c)) /\ cl'.st \in {"RESPONSE", "COMPLETED", "FAILED"}
               /\ cl'.st \in {"COMPLETED", "FAILED"} => Head(s2c).last
<1>1. /\ s2c \in Seq(Packets) /\ s2c # <<>> /\ s2c' = Tail(s2c) /\ c2s' = c2s
      /\ Receivable
  BY ReceivesFrom DEF ClientReceives
<1>2. PICK p : p = Head(s2c)
  OBVIOUS
<1>3. PICK c \in ClientReps :
        Beside(cl, c) /\ Handles(c, p) /\ c.ovf \in ReadAhead(cl.ovf, s2c)
  BY <1>2, ReceivesFrom
<1>4. CASE ~ForCall(p)
  BY <1>1, <1>3, <1>4 DEF Handles, Beside
<1>5. CASE ForCall(p)
  <2>1. /\ cl.st \in {"REQUEST", "RESPONSE"} /\ p.type \in {"response", "fault"}
        /\ p.type = "response" => cl.st = "RESPONSE"
        /\ p.type = "fault" => p.last
    BY <1>1, <1>2, <1>5, ArrivesInTime
  <2>2. PICK st \in {"RESPONSE", "COMPLETED", "FAILED"} :
          /\ cl' = [c EXCEPT !.st = st, !.msgs = Append(@, p)]
          /\ st \in {"COMPLETED", "FAILED"} => p.last
    <3>1. CASE p.type = "response"
      <4>1. HandleRecvFrag(c, p)
        BY <1>3, <1>5, <2>1, <3>1, ReceiverDoes DEF Handles, ClientDoes
      <4> QED BY <4>1 DEF HandleRecvFrag
    <3>2. CASE p.type = "fault"
      <4>1. RaiseFault(c, p)
        BY <1>3, <1>5, <2>1, <3>2, ReceiverDoes DEF Handles, ClientDoes
      <4> QED BY <2>1, <3>2, <4>1 DEF RaiseFault
    <3> QED BY <2>1, <3>1, <3>2
  <2>3. PICK d, m : d = cl' /\ d = [c EXCEPT !.st = st, !.msgs = m]
    BY <2>2
  <2>4. /\ d.pc = c.pc /\ d.call = c.call /\ d.link = c.link /\ d.st = st
        /\ d.phase = c.phase /\ d.ovf = c.ovf
    BY <2>3 DEF ClientReps
  <2>5. d.nsent = c.nsent /\ d.sending = c.sending /\ d.fatal = c.fatal
    BY <2>3 DEF ClientReps
  <2> QED BY <1>1, <1>2, <1>3, <1>5, <2>2, <2>3, <2>4, <2>5 DEF Beside
<1> QED BY <1>4, <1>5

\* That keeps the invariant.
LEMMA ReceivesKeepsLegal ==
  ASSUME CallInv, LegalInv, Ahead, ClientReceives, ServerKeeps
  PROVE  LegalInv'
<1>1. PICK p : p = Head(s2c)
  OBVIOUS
<1>2. PICK d : d = cl'
  OBVIOUS
<1>3. /\ s2c \in Seq(Packets) /\ s2c # <<>> /\ s2c' = Tail(s2c) /\ c2s' = c2s
      /\ d.pc = cl.pc /\ d.call = cl.call /\ d.link = cl.link /\ d.phase = cl.phase
      /\ d.nsent = cl.nsent /\ d.sending = cl.sending /\ d.fatal = cl.fatal
      /\ \/ d.st = cl.st
         \/ /\ ForCall(p) /\ d.st \in {"RESPONSE", "COMPLETED", "FAILED"}
            /\ d.st \in {"COMPLETED", "FAILED"} => p.last
  BY <1>1, <1>2, ReceiverMoves
<1>4. ex' = ex /\ \A j \in Calls : Speaks(ex[j], ex'[j], j)
  BY StillSpeaks
<1>5. Shortens(s2c, s2c') /\ Shortens(c2s, c2s')
  BY <1>3 DEF Shortens
<1>6. CASE d.st = cl.st
  <2>1. Unmoved(cl, cl')
    BY <1>2, <1>3, <1>6 DEF Unmoved
  <2> QED BY <1>4, <1>5, <2>1, QuietKeepsLegal
<1>7. CASE /\ ForCall(p) /\ d.st \in {"RESPONSE", "COMPLETED", "FAILED"}
           /\ d.st \in {"COMPLETED", "FAILED"} => p.last
  <2>1. /\ InCall /\ cl.call \in Calls /\ cl.st \in {"REQUEST", "RESPONSE"}
        /\ p.last => /\ Done(ex[cl.call])
                     /\ \A i \in 1..Len(Tail(s2c)) : Tail(s2c)[i].call # cl.call
    <3>1. Receivable
      BY DEF ClientReceives
    <3> QED BY <1>1, <1>7, <3>1, ArrivesInTime
  <2>2. Orderly(cl) /\ Says
    BY DEF LegalInv
  <2>3. Orderly(d)
    BY <1>3, <1>7, <2>1, <2>2 DEF Orderly, InCall
  <2>4. Says'
    BY <1>4, <1>5, <2>2, SaysOn
  <2>5. PICK k \in Calls : k = cl.call /\ k = d.call
    BY <1>3, <2>1
  <2>6. d.st \in {"COMPLETED", "FAILED"} => Silent(cl.call)'
    BY <1>2, <1>3, <1>4, <1>7, <2>1, <2>5 DEF Silent
  <2>7. ASSUME Answering(cl.call)'
        PROVE  Asked(d)
    <3>1. Answering(k)
      BY <1>2, <1>4, <1>5, <2>5, <2>7, AnsweringOn DEF Answering
    <3>2. Asked(cl)
      BY <2>1, <2>5, <3>1 DEF LegalInv
    <3> QED BY <1>3, <3>2 DEF Asked
  <2> QED BY <1>2, <2>3, <2>4, <2>6, <2>7 DEF LegalInv
<1> QED BY <1>3, <1>6, <1>7

\* What it has read besides was not held back by a send: the rest stays in time.
LEMMA ReceivesKeepsAhead ==
  ASSUME CallInv, LegalInv, Ahead, ClientReceives
  PROVE  Ahead'
<1>1. PICK d, t : d = cl' /\ t = s2c'
  OBVIOUS
<1>2. /\ s2c \in Seq(Packets) /\ s2c # <<>> /\ t = Tail(s2c)
      /\ d.ovf \in ReadAhead(cl.ovf, s2c) /\ d.pc = cl.pc /\ d.call = cl.call
      /\ d.st = cl.st \/ d.st \in {"RESPONSE", "COMPLETED", "FAILED"}
  BY <1>1, ReceiverMoves
<1>3. /\ cl.ovf \in Nat /\ cl.ovf <= Len(s2c) /\ Receivable
      /\ Len(t) \in Nat /\ Len(t) + 1 = Len(s2c)
      /\ \A i \in 1..Len(t) : i \in Nat /\ i + 1 \in 1..Len(s2c) /\ t[i] = s2c[i + 1]
  <2>1. Len(s2c) \in Nat /\ Len(s2c) >= 1
    BY <1>2
  <2>2. Len(t) + 1 = Len(s2c) /\ \A i \in 1..Len(t) : t[i] = s2c[i + 1]
    BY <1>2
  <2> QED BY <2>1, <2>2 DEF CallInv, ClientTypes, ClientReps, Ahead, ClientReceives
<1>4. CASE cl.ovf > 0
  <2>1. d.ovf = cl.ovf - 1
    BY <1>2, <1>4 DEF ReadAhead
  <2>2. ASSUME InCall, NEW i \in 1..Len(t), i <= d.ovf
        PROVE  Timely(cl, t[i])
    <3>1. i + 1 <= cl.ovf
      BY <1>3, <2>1, <2>2
    <3> QED BY <1>3, <2>2, <3>1 DEF Ahead
  <2> QED BY <1>1, <1>2, <1>3, <2>1, <2>2 DEF Ahead, InCall, Timely
<1>5. CASE cl.ovf = 0
  <2>1. d.ovf \in 0..(Len(s2c) - 1) /\ ~InSendmsg
    BY <1>2, <1>3, <1>5 DEF ReadAhead, Receivable, ReceiverFree
  <2>2. ASSUME InCall, NEW i \in 1..Len(t)
        PROVE  Timely(cl, t[i])
    BY <1>3, <2>1, <2>2, TimelyWhenFree
  <2> QED BY <1>1, <1>2, <1>3, <2>1, <2>2 DEF Ahead, InCall, Timely
<1> QED BY <1>3, <1>4, <1>5

\* Steps that leave the calling thread and its call alone
LEMMA AsideKeepsLegal ==
  ASSUME CallInv, LegalInv, ServerKeeps,
         ClientDisconnects \/ PostCancel \/ TimerFires \/ CancelTimer
  PROVE  LegalInv' /\ (Ahead => Ahead')
<1>1. \A j \in Calls : Speaks(ex[j], ex'[j], j)
  BY StillSpeaks
<1>2. Shortens(s2c, s2c') /\ Shortens(c2s, c2s')
  BY DEF ClientDisconnects, PostCancel, TimerFires, CancelTimer, wireVars, Shortens
<1>3. PICK c \in ClientReps : c = cl
  BY DEF CallInv, ClientTypes
<1>4. Unmoved(cl, cl') /\ cl'.ovf = cl.ovf
  <2>1. PICK d : d = cl'
    OBVIOUS
  <2>2. CASE ClientDisconnects
    <3>1. PICK assoc, msgs : d = [c EXCEPT !.rcvr = FALSE, !.astat = "closed",
                                           !.assoc = assoc, !.msgs = msgs]
      <4>1. PICK assoc : assoc = IF c.assoc = "ACTIVE" THEN "CALL_DONE_WAIT" ELSE "CLOSED"
        OBVIOUS
      <4>2. PICK msgs : msgs = IF c.assoc = "ACTIVE" THEN Append(c.msgs, Dummy) ELSE c.msgs
        OBVIOUS
      <4>3. d = [c EXCEPT !.rcvr = FALSE, !.astat = "closed", !.assoc = assoc, !.msgs = msgs]
        BY <1>3, <2>1, <2>2, <4>1, <4>2 DEF ClientDisconnects, ClientReps
      <4> QED BY <4>3
    <3>2. d.pc = c.pc /\ d.call = c.call /\ d.link = c.link /\ d.st = c.st /\ d.phase = c.phase
      BY <3>1 DEF ClientReps
    <3>3. d.nsent = c.nsent /\ d.sending = c.sending /\ d.fatal = c.fatal /\ d.ovf = c.ovf
      BY <3>1 DEF ClientReps
    <3> QED BY <1>3, <2>1, <3>2, <3>3 DEF Unmoved
  <2>3. CASE CancelTimer
    <3>1. d = c \/ d = [c EXCEPT !.status = "cancel_timeout"]
      BY <1>3, <2>1, <2>3 DEF CancelTimer
    <3>2. d.pc = c.pc /\ d.call = c.call /\ d.link = c.link /\ d.st = c.st /\ d.phase = c.phase
      BY <3>1 DEF ClientReps
    <3>3. d.nsent = c.nsent /\ d.sending = c.sending /\ d.fatal = c.fatal /\ d.ovf = c.ovf
      BY <3>1 DEF ClientReps
    <3> QED BY <1>3, <2>1, <3>2, <3>3 DEF Unmoved
  <2>4. CASE PostCancel \/ TimerFires
    BY <2>4 DEF PostCancel, TimerFires, Unmoved
  <2> QED BY <2>2, <2>3, <2>4
<1>5. s2c' = s2c
  BY DEF ClientDisconnects, PostCancel, TimerFires, CancelTimer, wireVars
<1> QED BY <1>1, <1>2, <1>4, <1>5, QuietKeepsLegal, AheadKept

\* A new call has sent nothing, and nothing of it is anywhere.
LEMMA CallStartKeepsLegal ==
  ASSUME CallInv, LegalInv, ServerKeeps, CallStart
  PROVE  LegalInv' /\ (Ahead => Ahead')
<1> DEFINE k == cl.call + 1
<1>1. /\ ex' = ex /\ UNCHANGED <<c2s, s2c>>
      /\ cl' = [NoCall EXCEPT !.pc = "stub", !.call = k, !.st = "STUB_WAIT",
                              !.assoc = "ACTIVE", !.link = k, !.rcvr = cl.rcvr, !.ovf = cl.ovf]
  BY DEF ServerKeeps, serverVars, CallStart, wireVars
<1>2. cl.call \in Nat /\ cl.call < NCalls /\ NCalls \in Nat
  BY WireAssumption DEF CallInv, ClientTypes, ClientReps, CallStart
<1>3. k \in Nat /\ k \in Calls /\ k > cl.call
  BY <1>2 DEF Calls
<1> HIDE DEF k
<1>4. PICK d : d = cl'
  OBVIOUS
<1>5. /\ d.pc = "stub" /\ d.call = k /\ d.st = "STUB_WAIT" /\ d.nsent = 0
      /\ d.phase = "in" /\ d.fatal = "none" /\ d.ovf = cl.ovf
  BY <1>1, <1>4 DEF NoCall
<1>6. Orderly(cl')
  BY <1>4, <1>5 DEF Orderly
<1>7. Says'
  <2>1. \A j \in Calls : Speaks(ex[j], ex'[j], j)
    BY StillSpeaks
  <2> QED BY <1>1, <2>1, SaysOn DEF LegalInv, Shortens
<1>8. /\ ex[k].pc = "none"
      /\ \A i \in 1..Len(c2s) : c2s[i].call # k
      /\ \A i \in 1..Len(s2c) : s2c[i].call # k
  BY <1>2, <1>3 DEF CallInv, BeginsOnce
<1>9. ex[k].st = "INIT"
  BY <1>3, <1>8 DEF LegalInv, Says, Speaker
<1>10. ~Answering(k)
  BY <1>8, <1>9 DEF Answering, Closes
<1>11. ~Answering(cl.call)'
  BY <1>1, <1>4, <1>5, <1>10 DEF Answering
<1>12. Ahead => Ahead'
  BY <1>1, <1>4, <1>5, <1>8 DEF Ahead, Timely
<1> QED BY <1>4, <1>5, <1>6, <1>7, <1>11, <1>12 DEF LegalInv

-----------------------------------------------------------------------------
(* The theorem *)

\* It holds at first: there is no call.
LEMMA LegalInvInit == Init => LegalInv /\ Ahead
<1> SUFFICES ASSUME Init PROVE LegalInv /\ Ahead
  OBVIOUS
<1>1. s2c = <<>> /\ cl = NoCall /\ ex = [k \in Calls |-> NoRep]
  BY DEF Init, WireInit, ClientInit, ServerInit
<1>2. cl.pc = "idle" /\ cl.link = 0 /\ cl.fatal = "none" /\ cl.ovf = 0
  BY <1>1 DEF NoCall
<1>3. \A k \in Calls : ex[k].pc = "none" /\ ex[k].st = "INIT"
  BY <1>1 DEF NoRep
<1>4. Says
  BY <1>1, <1>3 DEF Says, Speaker, Speech
<1> QED BY <1>1, <1>2, <1>4 DEF LegalInv, Orderly, InCall, Ahead

\* Every step keeps it.
LEMMA LegalInvNext == CallInv /\ LegalInv /\ Ahead /\ [Next]_vars => (LegalInv /\ Ahead)'
<1> SUFFICES ASSUME CallInv, LegalInv, Ahead, [Next]_vars PROVE LegalInv' /\ Ahead'
  OBVIOUS
<1>1. CASE ClientStep /\ UNCHANGED serverVars
  <2>1. ServerKeeps
    BY <1>1 DEF ServerKeeps
  <2>2. CASE CallStart
    BY <2>1, <2>2, CallStartKeepsLegal
  <2>3. CASE CallerStep
    BY <2>1, <2>3, CallerKeepsLegal, CallerKeepsAhead
  <2>4. CASE ClientReceives
    BY <2>1, <2>4, ReceivesKeepsLegal, ReceivesKeepsAhead
  <2>5. CASE ClientDisconnects \/ PostCancel \/ TimerFires \/ CancelTimer
    BY <2>1, <2>5, AsideKeepsLegal
  <2> QED BY <1>1, <2>2, <2>3, <2>4, <2>5 DEF ClientStep, ClientReceiver
<1>2. CASE ServerStep /\ UNCHANGED clientVars
  BY <1>2, ServerKeepsLegal, ServerKeepsAhead
<1>3. CASE Break
  BY <1>3, BreakKeepsLegal
<1>4. CASE UNCHANGED vars
  BY <1>4 DEF vars, wireVars, clientVars, serverVars, LegalInv, Says, Speaker, Speech,
     Done, Silent, InCall, Answering, Ahead, Timely
<1> QED BY <1>1, <1>2, <1>3, <1>4 DEF Next

\* No packet of the server, in whatever state of the client's call it comes in, and
\* nothing the caller does itself, is an illegal transition: the client process is
\* never aborted (rpc__cn_call_sm_protocol_error), however the calls end, whoever
\* cancels them and whenever the connection breaks, for every number of calls, of
\* fragments and of cancels.
THEOREM ClientNeverIllegalHolds == Spec => []ClientNeverIllegal
<1>1. Init => CallInv /\ LegalInv /\ Ahead
  BY CallInvInit, LegalInvInit
<1>2. CallInv /\ LegalInv /\ Ahead /\ [Next]_vars => (CallInv /\ LegalInv /\ Ahead)'
  BY CallInvNext, LegalInvNext
<1>3. LegalInv => ClientNeverIllegal
  BY DEF LegalInv, Orderly, ClientNeverIllegal, Alive
<1> QED BY <1>1, <1>2, <1>3, PTL DEF Spec

-----------------------------------------------------------------------------
(* The server's aborts: the invariant *)

\* The call's thread is in the manager or on its way there.
Working(r) ==
  \/ r.pc \in {"queued", "ready", "wait", "recvd", "mgr"}
  \/ r.pc \in {"send", "sent"} /\ r.then = "mgr"

\* A call that has begun is in one of three states; until it is refused or ended
\* it holds its association or is known to be an orphan.
Sound(r) ==
  /\ r.pc \notin {"none", "freed"} => r.st \in {"REQUEST", "RESPONSE", "COMPLETED"}
  /\ Working(r) => r.status # "rejected" /\ (r.assoc \/ r.status = "orphaned")

\* The last fragment of a request is the last of its request.
Finishes(s) ==
  \A i, j \in 1..Len(s) :
    i < j /\ Closes(s[i], s[i].call) => ~(s[j].type = "request" /\ s[j].call = s[i].call)

\* Nothing of the request of call k is on its way.
NoMore(s, k) == \A i \in 1..Len(s) : ~(s[i].type = "request" /\ s[i].call = k)

Closed == Finishes(c2s) /\ \A k \in Calls : ex[k].st = "RESPONSE" => NoMore(c2s, k)

\* As long as calls do not overlap the fragments in the queue of the association,
\* and those that have been read from it, are the linked call's.
Apart ==
  ~sv.overlap =>
    /\ \A k \in Calls :
         /\ ex[k].assoc => sv.link = k
         /\ ex[k].gotlast => ex[k].st # "REQUEST"
         /\ ex[k].pc = "wait" => ex[k].looks = k
    /\ \A i \in 1..Len(sv.msgs) : sv.msgs[i].last => sv.link # 0 /\ ex[sv.link].st # "REQUEST"

BlameInv ==
  /\ \A k \in Calls : Sound(ex[k])
  /\ Closed /\ Apart /\ IllegalOnlyAfterCompletion

-----------------------------------------------------------------------------
(* What a step of the server does to a call *)

\* The record r of call k becomes q: the call takes no association, no state but
\* the last, and a last fragment only from its own request.
Fair(r, q, k) ==
  /\ Sound(q)
  /\ q.assoc => r.assoc
  /\ q.st \in {"REQUEST", "RESPONSE"} => q.st = r.st
  /\ ~sv.overlap =>
       /\ q.gotlast => r.gotlast \/ q.st # "REQUEST"
       /\ q.pc = "wait" => q.looks = k

\* The association stays with its call, or is given back and emptied; nothing but
\* the head of its queue goes.
Drains ==
  /\ sv'.overlap = sv.overlap
  /\ \/ /\ sv'.link = sv.link
        /\ \A i \in 1..Len(sv'.msgs) : sv'.msgs[i].last => \E j \in 1..Len(sv.msgs) : sv.msgs[j].last
     \/ sv.link # 0 /\ ~ex'[sv.link].assoc /\ sv'.link = 0 /\ sv'.msgs = <<>>

Behaves == (\A j \in Calls : Fair(ex[j], ex'[j], j)) /\ Drains /\ IllegalOnlyAfterCompletion'

\* What is left of the packets
LEMMA ShorterFinishes ==
  ASSUME NEW s \in Seq(Packets), NEW t, Shortens(s, t)
  PROVE  /\ Finishes(s) => Finishes(t)
         /\ \A k : NoMore(s, k) => NoMore(t, k)
<1>1. PICK d : Later(s, t, d) /\ d \in Nat
  BY ShorterPackets
<1>2. \A i \in 1..Len(t) : i \in Nat /\ i + d \in 1..Len(s) /\ t[i] = s[i + d]
  BY <1>1 DEF Later
<1>3. ASSUME Finishes(s), NEW i \in 1..Len(t), NEW j \in 1..Len(t), i < j,
             Closes(t[i], t[i].call)
      PROVE  ~(t[j].type = "request" /\ t[j].call = t[i].call)
  <2>1. i + d < j + d
    BY <1>1, <1>2, <1>3
  <2> QED BY <1>2, <1>3, <2>1 DEF Finishes
<1>4. Finishes(s) => Finishes(t)
  BY <1>3 DEF Finishes
<1>5. \A k : NoMore(s, k) => NoMore(t, k)
  BY <1>2 DEF NoMore
<1> QED BY <1>4, <1>5

\* Such a step, in which a packet may be read, keeps the invariant.
LEMMA BehavesKeepsBlame ==
  ASSUME CallInv, BlameInv, Behaves, Shortens(c2s, c2s')
  PROVE  BlameInv'
<1>1. sv.link \in Calls \cup {0} /\ c2s \in Seq(Packets)
  BY DEF CallInv, ServerTypes, Assocs, WireTypes
<1>2. \A k \in Calls : Fair(ex[k], ex'[k], k)
  BY DEF Behaves
<1>3. \A k \in Calls : Sound(ex'[k])
  BY <1>2 DEF Fair
<1>4. Finishes(c2s') /\ \A k \in Calls : NoMore(c2s, k) => NoMore(c2s', k)
  BY <1>1, ShorterFinishes DEF BlameInv, Closed
<1>5. Closed'
  BY <1>2, <1>4 DEF Fair, BlameInv, Closed, Finishes, NoMore
<1>6. ASSUME ~sv'.overlap
      PROVE  /\ \A k \in Calls : /\ ex'[k].assoc => sv'.link = k
                                 /\ ex'[k].gotlast => ex'[k].st # "REQUEST"
                                 /\ ex'[k].pc = "wait" => ex'[k].looks = k
             /\ \A i \in 1..Len(sv'.msgs) :
                  sv'.msgs[i].last => sv'.link # 0 /\ ex'[sv'.link].st # "REQUEST"
  <2>1. ~sv.overlap
    BY <1>6 DEF Behaves, Drains
  <2>2. ASSUME NEW k \in Calls
        PROVE  /\ ex'[k].gotlast => ex'[k].st # "REQUEST"
               /\ ex'[k].pc = "wait" => ex'[k].looks = k
    BY <1>2, <2>1 DEF Fair, BlameInv, Apart
  <2>3. ASSUME NEW k \in Calls, ex'[k].assoc
        PROVE  sv'.link = k
    <3>1. sv.link = k
      BY <1>2, <2>1, <2>3 DEF Fair, BlameInv, Apart
    <3> QED BY <2>3, <3>1 DEF Behaves, Drains
  <2>4. ASSUME NEW i \in 1..Len(sv'.msgs), sv'.msgs[i].last
        PROVE  sv'.link # 0 /\ ex'[sv'.link].st # "REQUEST"
    <3>1. CASE sv'.link = sv.link
                 /\ \E j \in 1..Len(sv.msgs) : sv.msgs[j].last
      <4>1. sv.link # 0 /\ ex[sv.link].st # "REQUEST"
        BY <2>1, <3>1 DEF BlameInv, Apart
      <4> QED BY <1>1, <1>2, <3>1, <4>1 DEF Fair
    <3>2. CASE sv'.msgs = <<>>
      BY <2>4, <3>2
    <3> QED BY <2>4, <3>1, <3>2 DEF Behaves, Drains
  <2> QED BY <2>2, <2>3, <2>4
<1>7. Apart'
  BY <1>6 DEF Apart
<1> QED BY <1>3, <1>5, <1>7 DEF BlameInv, Behaves

\* Where a step of the thread of call k begins
LEMMA AtBlame ==
  ASSUME CallInv, BlameInv, NEW k \in Calls
  PROVE  /\ sv \in Assocs /\ ex \in [Calls -> ServerReps] /\ ex[k] \in ServerReps
         /\ Sound(ex[k]) /\ \A j \in Calls : Fair(ex[j], ex[j], j)
BY AtStep DEF BlameInv, Fair, Apart

\* Nothing comes to be read either.
Kept(r, q) == q.gotlast = r.gotlast /\ q.looks = r.looks

\* A call that is only nudged
LEMMA NudgedFair ==
  ASSUME NEW k \in Calls, NEW r, NEW m, NEW q, Fair(r, m, k), Nudged(m, q), Kept(m, q)
  PROVE  Fair(r, q, k)
BY DEF Nudged, Kept, Fair, Sound, Working

\* What cancels do to a call
LEMMA CancelKept ==
  ASSUME NEW r \in ServerReps
  PROVE  Kept(r, Cancel(r)) /\ Kept(r, CancelCaf(r)) /\ Kept(r, EnablePost(r))
<1>1. Kept(r, Cancel(r))
  BY DEF Cancel, Kept, ServerReps
<1>2. Kept(r, CancelCaf(r))
  BY DEF CancelCaf, Kept, ServerReps
<1>3. Kept(r, EnablePost(r))
  BY DEF EnablePost, Kept, ServerReps
<1> QED BY <1>1, <1>2, <1>3

\* And the signal that wakes it
LEMMA WakeKept ==
  ASSUME NEW e \in [Calls -> ServerReps], NEW w \in Calls \cup {0}
  PROVE  \A j \in Calls : Kept(e[j], Wake(e, w)[j])
<1>1. CASE w = 0
  BY <1>1 DEF Wake, Kept
<1>2. CASE w # 0
  <2>1. PICK q : q = [e[w] EXCEPT !.woken = TRUE]
    OBVIOUS
  <2>2. w \in Calls /\ e[w] \in ServerReps /\ Wake(e, w) = [e EXCEPT ![w] = q]
    BY <1>2, <2>1 DEF Wake
  <2>3. Kept(e[w], q)
    BY <2>1, <2>2 DEF Kept, ServerReps
  <2>4. \A j \in Calls : Kept(e[j], e[j])
    BY DEF Kept
  <2> QED BY <2>2, <2>3, <2>4
<1> QED BY <1>1, <1>2

\* The other calls are left alone.
LEMMA AloneFair ==
  ASSUME CallInv, BlameInv, NEW k \in Calls, NEW q, ex' = [ex EXCEPT ![k] = q], Fair(ex[k], q, k)
  PROVE  \A j \in Calls : Fair(ex[j], ex'[j], j)
BY AtBlame

\* A call makes a step and somebody may be woken.
LEMMA WokenFair ==
  ASSUME CallInv, BlameInv, NEW k \in Calls, NEW q \in ServerReps,
         NEW w \in Calls \cup {0}, ex' = Wake([ex EXCEPT ![k] = q], w), Fair(ex[k], q, k)
  PROVE  \A j \in Calls : Fair(ex[j], ex'[j], j)
<1>1. PICK e : e = [ex EXCEPT ![k] = q]
  OBVIOUS
<1>2. /\ e \in [Calls -> ServerReps] /\ e[k] = q /\ \A j \in Calls : j # k => e[j] = ex[j]
  BY <1>1, AtBlame
<1>3. \A j \in Calls : Fair(ex[j], e[j], j)
  BY <1>2, AtBlame
<1>4. \A j \in Calls : Nudged(e[j], ex'[j]) /\ Kept(e[j], ex'[j])
  BY <1>1, <1>2, WakesNudge, WakeKept
<1> QED BY <1>3, <1>4, NudgedFair

\* A thread that goes on from where it is
LEMMA GoesOnFair ==
  ASSUME CallInv, BlameInv, NEW k \in Calls, NEW r, NEW q, r = ex[k],
         q.st = r.st, q.status = r.status, q.assoc = r.assoc, q.gotlast = r.gotlast,
         q.pc \notin {"none", "freed", "wait"}, r.pc \notin {"none", "freed"},
         Working(q) => Working(r)
  PROVE  Fair(r, q, k)
BY AtBlame DEF Fair, Sound, BlameInv, Apart

\* The association is left as it is but for what says how a send goes.
LEMMA SameDrains ==
  ASSUME sv \in Assocs, Running, NEW s, sv' = s,
         s.overlap = sv.overlap, s.link = sv.link, s.msgs = sv.msgs, s.fatal = sv.fatal
  PROVE  Drains /\ IllegalOnlyAfterCompletion'
BY DEF Drains, IllegalOnlyAfterCompletion, Running

\* rpc__cn_call_sm_protocol_error leaves the association to its call.
LEMMA AbortDrains ==
  ASSUME NEW s \in Assocs, NEW k \in Calls,
         NEW what \in {"null_assoc", "null_call_rep", "send", "fault", "fault_dne", "recv",
                       "remote_alert", "orphaned"},
         s.overlap = sv.overlap, s.link = sv.link, s.msgs = sv.msgs, Abort(s, what, k)
  PROVE  Drains /\ sv'.fatal = what /\ sv'.victim = k
<1>1. PICK t : t = [s EXCEPT !.fatal = what, !.victim = k]
  OBVIOUS
<1>2. t.fatal = what /\ t.victim = k /\ t.overlap = s.overlap /\ t.link = s.link /\ t.msgs = s.msgs
  BY <1>1 DEF Assocs
<1>3. sv' = t
  BY <1>1 DEF Abort
<1> QED BY <1>2, <1>3 DEF Drains

\* The thread gets the call, refuses it, is done with it, takes a cancel, gives a
\* send up or has sent.
LEMMA TurnBehaves ==
  ASSUME CallInv, BlameInv, Running, NEW k \in Calls,
         \/ ExecutorStarts(k) \/ ExecutorRefuses(k) \/ ManagerReturns(k)
         \/ ManagerTakesCancel(k) \/ ServerSendmsgCancelled(k) \/ ServerSendmsg(k)
         \/ ServerSent(k) /\ ex[k].then # "freed"
  PROVE  Behaves
<1>1. sv \in Assocs /\ ex \in [Calls -> ServerReps]
  BY AtBlame
<1>2. PICK r \in ServerReps : r = ex[k]
  BY <1>1
<1>3. ASSUME NEW q, ex' = [ex EXCEPT ![k] = q],
             q.st = r.st, q.status = r.status, q.assoc = r.assoc, q.gotlast = r.gotlast,
             q.pc \notin {"none", "freed", "wait"}, r.pc \notin {"none", "freed"},
             Working(q) => Working(r)
      PROVE  \A j \in Calls : Fair(ex[j], ex'[j], j)
  <2>1. Fair(r, q, k)
    BY <1>2, <1>3, GoesOnFair
  <2> QED BY <1>2, <1>3, <2>1, AloneFair
<1>4. ASSUME NEW m, Nudged(r, m), Kept(r, m), NEW pc \in {"ready", "mgr", "rejecting", "ending"},
             ex' = [ex EXCEPT ![k] = [m EXCEPT !.pc = pc]], r.pc \notin {"none", "freed"},
             pc \in {"ready", "mgr"} => Working(r)
      PROVE  \A j \in Calls : Fair(ex[j], ex'[j], j)
  <2>1. PICK q : q = [m EXCEPT !.pc = pc]
    OBVIOUS
  <2>2. Turns(r, q, pc)
    BY <1>4, <2>1, TurnEffect
  <2>3. q.gotlast = r.gotlast
    BY <1>4, <2>1 DEF Nudged, Kept, ServerReps
  <2>4. Working(q) => Working(r)
    BY <1>4, <2>2 DEF Turns, Working
  <2> QED BY <1>3, <1>4, <2>1, <2>2, <2>3, <2>4 DEF Turns
<1>5. Nudged(r, r) /\ Kept(r, r) /\ Nudged(r, CancelCaf(r)) /\ Kept(r, CancelCaf(r))
  BY CancelNudges, CancelKept DEF Nudged, Kept
<1>6. ASSUME sv' = sv
      PROVE  Drains /\ IllegalOnlyAfterCompletion'
  BY <1>1, <1>6, SameDrains
<1>7. ASSUME NEW a \in {"ok", "closed"}, sv' = [sv EXCEPT !.sendmsg = FALSE, !.astat = a]
      PROVE  Drains /\ IllegalOnlyAfterCompletion'
  <2>1. PICK s : s = [sv EXCEPT !.sendmsg = FALSE, !.astat = a]
    OBVIOUS
  <2>2. s.overlap = sv.overlap /\ s.link = sv.link /\ s.msgs = sv.msgs /\ s.fatal = sv.fatal
    BY <1>1, <2>1 DEF Assocs
  <2> QED BY <1>1, <1>7, <2>1, <2>2, SameDrains
<1>8. CASE ExecutorStarts(k)
  <2>1. ex' = [ex EXCEPT ![k] = [r EXCEPT !.pc = "ready"]] /\ sv' = sv /\ r.pc = "queued"
    BY <1>2, <1>8 DEF ExecutorStarts
  <2> QED BY <1>4, <1>5, <1>6, <2>1 DEF Behaves, Working
<1>9. CASE ExecutorRefuses(k)
  <2>1. ex' = [ex EXCEPT ![k] = [CancelCaf(r) EXCEPT !.pc = "rejecting"]] /\ sv' = sv
    BY <1>2, <1>9 DEF ExecutorRefuses
  <2>2. r.pc \in {"ready", "mgr"}
    BY <1>2, <1>9 DEF ExecutorRefuses, InManager
  <2> QED BY <1>4, <1>5, <1>6, <2>1, <2>2 DEF Behaves
<1>10. CASE ManagerReturns(k)
  <2>1. ex' = [ex EXCEPT ![k] = [CancelCaf(r) EXCEPT !.pc = "ending"]] /\ sv' = sv
    BY <1>2, <1>10 DEF ManagerReturns
  <2>2. r.pc \in {"caf", "mgr"}
    BY <1>2, <1>10 DEF ManagerReturns
  <2> QED BY <1>4, <1>5, <1>6, <2>1, <2>2 DEF Behaves
<1>11. CASE ManagerTakesCancel(k)
  <2>1. PICK q : q = [r EXCEPT !.cancelled = FALSE, !.acted = TRUE]
    OBVIOUS
  <2>2. q.st = r.st /\ q.pc = r.pc /\ q.status = r.status /\ q.assoc = r.assoc
    BY <2>1 DEF ServerReps
  <2>3. q.gotlast = r.gotlast /\ q.then = r.then
    BY <2>1 DEF ServerReps
  <2>4. ex' = [ex EXCEPT ![k] = q] /\ sv' = sv /\ r.pc = "mgr"
    BY <1>2, <1>11, <2>1 DEF ManagerTakesCancel, InManager
  <2> QED BY <1>3, <1>6, <2>2, <2>3, <2>4 DEF Behaves, Working
<1>15. CASE ServerSendmsgCancelled(k) /\ sv.link = 0
  <2>1. Abort(sv, "null_call_rep", k) /\ ex' = ex /\ r.pc = "send" /\ r.then = "mgr"
    BY <1>2, <1>15 DEF ServerSendmsgCancelled
  <2>2. Drains /\ sv'.fatal = "null_call_rep" /\ sv'.victim = k
    BY <1>1, <2>1, AbortDrains
  <2>3. r.assoc \/ r.status = "orphaned"
    BY <1>2, <2>1, AtBlame DEF Sound, Working
  <2>4. sv'.overlap \/ r.status = "orphaned"
    <3>1. k # 0
      BY WireAssumption DEF Calls
    <3> QED BY <1>2, <1>15, <2>2, <2>3, <3>1 DEF Drains, BlameInv, Apart
  <2>5. IllegalOnlyAfterCompletion'
    BY <1>2, <2>1, <2>2, <2>4 DEF IllegalOnlyAfterCompletion
  <2>6. \A j \in Calls : Fair(ex[j], ex'[j], j)
    BY <2>1, AtBlame
  <2> QED BY <2>2, <2>5, <2>6 DEF Behaves
<1>12. CASE ServerSendmsgCancelled(k) /\ sv.link # 0
  <2>1. PICK q : q = [r EXCEPT !.pc = "mgr", !.failed = TRUE, !.cancelled = FALSE, !.acted = TRUE,
                               !.unsaid = r.sending.last]
    OBVIOUS
  <2>2. q.st = r.st /\ q.pc = "mgr" /\ q.status = r.status /\ q.assoc = r.assoc
    BY <2>1 DEF ServerReps
  <2>3. q.gotlast = r.gotlast
    BY <2>1 DEF ServerReps
  <2>4. ex' = [ex EXCEPT ![k] = q] /\ r.pc = "send" /\ r.then = "mgr"
    BY <1>2, <1>12, <2>1 DEF ServerSendmsgCancelled
  <2>5. sv' = [sv EXCEPT !.sendmsg = FALSE, !.astat = sv.astat] /\ sv.astat \in {"ok", "closed"}
    BY <1>1, <1>12, SendOver DEF ServerSendmsgCancelled
  <2> QED BY <1>3, <1>7, <2>2, <2>3, <2>4, <2>5 DEF Behaves, Working
<1>13. CASE ServerSendmsg(k)
  <2>1. PICK f \in BOOLEAN :
          ex' = [ex EXCEPT ![k] = [r EXCEPT !.pc = "sent"]]
          \/ ex' = [ex EXCEPT ![k] = [r EXCEPT !.pc = "sent", !.failed = f]]
    BY <1>2, <1>13 DEF ServerSendmsg
  <2>2. PICK q : ex' = [ex EXCEPT ![k] = q] /\
          (q = [r EXCEPT !.pc = "sent"] \/ q = [r EXCEPT !.pc = "sent", !.failed = f])
    BY <2>1
  <2>3. q.st = r.st /\ q.pc = "sent" /\ q.status = r.status /\ q.assoc = r.assoc
    BY <2>2 DEF ServerReps
  <2>4. q.gotlast = r.gotlast /\ q.then = r.then
    BY <2>2 DEF ServerReps
  <2>5. r.pc = "send" /\ sv' = sv
    BY <1>2, <1>13 DEF ServerSendmsg
  <2> QED BY <1>3, <1>6, <2>2, <2>3, <2>4, <2>5 DEF Behaves, Working
<1>14. CASE ServerSent(k) /\ ex[k].then # "freed"
  <2>1. PICK q : q = [r EXCEPT !.pc = r.then]
    OBVIOUS
  <2>2. PICK a \in {"ok", "closed"} : a = IF r.failed THEN "closed" ELSE sv.astat
    BY <1>1 DEF Assocs
  <2>3. /\ ex' = [ex EXCEPT ![k] = q] /\ r.pc = "sent"
        /\ sv' = [sv EXCEPT !.sendmsg = FALSE, !.astat = a]
    BY <1>1, <1>2, <1>14, <2>1, <2>2 DEF ServerSent
  <2>4. q.st = r.st /\ q.pc = r.then /\ q.status = r.status /\ q.assoc = r.assoc
    BY <2>1 DEF ServerReps
  <2>5. q.gotlast = r.gotlast /\ q.then = r.then /\ r.then \in {"mgr", "ending"}
    BY <1>2, <1>14, <2>1 DEF ServerReps
  <2> QED BY <1>3, <1>7, <2>3, <2>4, <2>5 DEF Behaves, Working
<1> QED BY <1>8, <1>9, <1>10, <1>11, <1>12, <1>13, <1>14, <1>15

\* Into the stub: the call has its association unless it is an orphan.
LEMMA InvokeBehaves ==
  ASSUME CallInv, BlameInv, Running, NEW k \in Calls, Invoke(k)
  PROVE  Behaves
<1>1. sv \in Assocs /\ ex \in [Calls -> ServerReps] /\ Sound(ex[k])
  BY AtBlame
<1>2. PICK r \in ServerReps : r = ex[k]
  BY <1>1
<1>3. r.pc = "recvd"
  BY <1>2 DEF Invoke
<1>4. CASE r.assoc
  <2>1. PICK m : m = EnablePost(r)
    OBVIOUS
  <2>2. Nudged(r, m) /\ Kept(r, m)
    BY <2>1, CancelNudges, CancelKept
  <2>3. PICK q : q = [m EXCEPT !.pc = "mgr"]
    OBVIOUS
  <2>4. Turns(r, q, "mgr")
    BY <2>2, <2>3, TurnEffect
  <2>5. q.gotlast = r.gotlast
    BY <2>2, <2>3 DEF Nudged, Kept, ServerReps
  <2>6. ex' = [ex EXCEPT ![k] = q] /\ sv' = sv
    BY <1>2, <1>4, <2>1, <2>3 DEF Invoke
  <2>7. Fair(r, q, k)
    BY <1>2, <1>3, <2>4, <2>5, GoesOnFair DEF Turns, Working
  <2>8. \A j \in Calls : Fair(ex[j], ex'[j], j)
    BY <1>2, <2>6, <2>7, AloneFair
  <2> QED BY <1>1, <2>6, <2>8, SameDrains DEF Behaves
<1>5. CASE ~r.assoc
  <2>1. r.status = "orphaned"
    BY <1>1, <1>2, <1>3, <1>5 DEF Sound, Working
  <2>2. Abort(sv, "null_assoc", k) /\ ex' = ex
    BY <1>2, <1>5 DEF Invoke
  <2>3. Drains /\ sv'.fatal = "null_assoc" /\ sv'.victim = k
    BY <1>1, <2>2, AbortDrains
  <2>4. IllegalOnlyAfterCompletion'
    BY <1>2, <2>1, <2>2, <2>3 DEF IllegalOnlyAfterCompletion
  <2>5. \A j \in Calls : Fair(ex[j], ex'[j], j)
    BY <2>2, AtBlame
  <2> QED BY <2>3, <2>4, <2>5 DEF Behaves
<1> QED BY <1>4, <1>5

\* What a thread reads comes from the queue of the association; it waits for the
\* call that is linked.
Looked(s, r, q) ==
  /\ q.gotlast => r.gotlast \/ \E j \in 1..Len(s.msgs) : s.msgs[j].last
  /\ q.pc = "wait" => q.looks = s.link

\* And of the association only the queue changes.
QueueDrains(s, t) ==
  /\ t.overlap = s.overlap /\ t.link = s.link /\ t.fatal = s.fatal
  /\ \A i \in 1..Len(t.msgs) : t.msgs[i].last => \E j \in 1..Len(s.msgs) : s.msgs[j].last

\* The dummy fragment is no last fragment.
LEMMA SkipDummyLast ==
  ASSUME NEW s \in Seq(Packets)
  PROVE  /\ SkipDummy(s) \in Seq(Packets)
         /\ \A i \in 1..Len(SkipDummy(s)) :
              SkipDummy(s)[i].last => \E j \in 1..Len(s) : s[j].last
<1>1. CASE s # <<>> /\ Head(s) = Dummy
  BY <1>1, TailPackets DEF SkipDummy
<1>2. CASE ~(s # <<>> /\ Head(s) = Dummy)
  BY <1>2 DEF SkipDummy
<1> QED BY <1>1, <1>2

\* rpc__cn_assoc_receive_frag for a call executor
LEMMA ReceiveFragLooks ==
  ASSUME NEW s \in Assocs, NEW e \in [Calls -> ServerReps], NEW k \in Calls, ReceiveFrag(s, e, k)
  PROVE  QueueDrains(s, sv') /\ \E q : ex' = [e EXCEPT ![k] = q] /\ Received(e[k], q)
                                       /\ Looked(s, e[k], q)
<1> DEFINE m == SkipDummy(s.msgs)
<1>1. PICK r \in ServerReps : r = e[k]
  OBVIOUS
<1>2. PICK q : ex' = [e EXCEPT ![k] = q] /\ Received(r, q)
  BY <1>1, ReceiveFragEffect
<1>3. ex'[k] = q
  BY <1>2
<1>4. /\ s.msgs \in Seq(Packets) /\ m \in Seq(Packets)
      /\ \A i \in 1..Len(m) : m[i].last => \E j \in 1..Len(s.msgs) : s.msgs[j].last
  BY SkipDummyLast DEF Assocs
<1>5. ASSUME NEW msgs, sv' = [s EXCEPT !.msgs = msgs],
             \A i \in 1..Len(msgs) : msgs[i].last => \E j \in 1..Len(s.msgs) : s.msgs[j].last
      PROVE  QueueDrains(s, sv')
  <2>1. PICK t : t = sv'
    OBVIOUS
  <2>2. t.overlap = s.overlap /\ t.link = s.link /\ t.fatal = s.fatal /\ t.msgs = msgs
    BY <1>5, <2>1 DEF Assocs
  <2> QED BY <1>5, <2>1, <2>2 DEF QueueDrains
<1> HIDE DEF m
<1>6. CASE s.astat # "ok"
  <2>1. PICK n : n = ReceiveFails(r)
    OBVIOUS
  <2>2. n.gotlast = r.gotlast /\ n.pc # "wait"
    BY <2>1 DEF ReceiveFails, ServerReps
  <2>3. ex' = [e EXCEPT ![k] = n]
    BY <1>1, <1>6, <2>1 DEF ReceiveFrag
  <2>4. q = n
    BY <1>3, <2>3
  <2>5. PICK msgs : msgs = IF s.msgs = <<>> THEN s.msgs ELSE Tail(s.msgs)
    OBVIOUS
  <2>6. sv' = [s EXCEPT !.msgs = msgs]
    BY <1>6, <2>5 DEF ReceiveFrag, Assocs
  <2>7. \A i \in 1..Len(msgs) : msgs[i].last => \E j \in 1..Len(s.msgs) : s.msgs[j].last
    BY <1>4, <2>5, TailPackets
  <2> QED BY <1>1, <1>2, <1>5, <2>2, <2>4, <2>6, <2>7 DEF Looked
<1>7. CASE s.astat = "ok" /\ m = <<>>
  <2>1. PICK n : n = [r EXCEPT !.pc = "wait", !.looks = s.link, !.woken = FALSE]
    OBVIOUS
  <2>2. sv' = [s EXCEPT !.msgs = <<>>] /\ ex' = [e EXCEPT ![k] = n]
    BY <1>1, <1>7, <2>1 DEF ReceiveFrag, m
  <2>3. n.gotlast = r.gotlast /\ n.looks = s.link
    BY <2>1 DEF ServerReps
  <2>4. q = n
    BY <1>3, <2>2
  <2>5. QueueDrains(s, sv')
    <3>1. PICK msgs : msgs = <<>>
      OBVIOUS
    <3>2. \A i \in 1..Len(msgs) : FALSE
      BY <3>1
    <3>3. sv' = [s EXCEPT !.msgs = msgs]
      BY <2>2, <3>1
    <3> QED BY <1>5, <3>2, <3>3
  <2> QED BY <1>1, <1>2, <2>3, <2>4, <2>5 DEF Looked
<1>8. CASE s.astat = "ok" /\ m # <<>>
  <2>1. PICK n : n = [r EXCEPT !.pc = IF r.executed THEN "mgr" ELSE "recvd",
                               !.executed = TRUE, !.gotlast = Head(m).last]
    OBVIOUS
  <2>2. sv' = [s EXCEPT !.msgs = Tail(m)] /\ ex' = [e EXCEPT ![k] = n]
    BY <1>1, <1>8, <2>1 DEF ReceiveFrag, m
  <2>3. n.gotlast = Head(m).last /\ n.pc # "wait"
    BY <2>1 DEF ServerReps
  <2>4. q = n
    BY <1>3, <2>2
  <2>5. Head(m).last => \E j \in 1..Len(s.msgs) : s.msgs[j].last
    BY <1>4, <1>8, TailPackets
  <2>6. \A i \in 1..Len(Tail(m)) : Tail(m)[i].last => \E j \in 1..Len(s.msgs) : s.msgs[j].last
    BY <1>4, <1>8, TailPackets
  <2> QED BY <1>1, <1>2, <1>5, <2>2, <2>3, <2>4, <2>5, <2>6 DEF Looked
<1> QED BY <1>6, <1>7, <1>8 DEF m

\* A thread reads from its own association, or nothing.
LEMMA ReceivedFair ==
  ASSUME CallInv, BlameInv, NEW k \in Calls, NEW r, NEW q, r = ex[k], Received(r, q), Working(r),
         \/ q.gotlast = r.gotlast /\ q.pc # "wait"
         \/ Looked(sv, r, q) /\ (sv.overlap \/ sv.link = k)
  PROVE  Fair(r, q, k)
<1>1. Sound(r)
  BY AtBlame
<1>2. q.st = r.st /\ q.status = r.status /\ q.assoc = r.assoc /\ q.pc \notin {"none", "freed"}
  BY DEF Received
<1>3. Sound(q)
  BY <1>1, <1>2 DEF Sound, Working
<1>4. ASSUME ~sv.overlap
      PROVE  (q.gotlast => r.gotlast \/ q.st # "REQUEST") /\ (q.pc = "wait" => q.looks = k)
  BY <1>2, <1>4 DEF Looked, BlameInv, Apart
<1> QED BY <1>2, <1>3, <1>4 DEF Fair

\* The executor looks for a fragment.
LEMMA ReceiveBehaves ==
  ASSUME CallInv, BlameInv, Running, NEW k \in Calls,
         ExecutorReceives(k) \/ ManagerReceives(k) \/ ExecutorWakes(k) \/ ExecutorWaitCancelled(k)
  PROVE  Behaves
<1>1. sv \in Assocs /\ ex \in [Calls -> ServerReps] /\ Sound(ex[k])
  BY AtBlame
<1>2. PICK r \in ServerReps : r = ex[k]
  BY <1>1
<1>3. Working(r)
  BY <1>2 DEF ExecutorReceives, ManagerReceives, ExecutorWakes, ExecutorWaitCancelled, InManager,
     Working
<1>4. ASSUME NEW q, Received(r, q), ex' = [ex EXCEPT ![k] = q],
             \/ q.gotlast = r.gotlast /\ q.pc # "wait"
             \/ Looked(sv, r, q) /\ (sv.overlap \/ sv.link = k)
      PROVE  \A j \in Calls : Fair(ex[j], ex'[j], j)
  <2>1. Fair(r, q, k)
    BY <1>2, <1>3, <1>4, ReceivedFair
  <2> QED BY <1>2, <1>4, <2>1, AloneFair
<1>5. (sv' = sv \/ QueueDrains(sv, sv')) => Drains /\ IllegalOnlyAfterCompletion'
  <2>1. sv' = sv => Drains /\ IllegalOnlyAfterCompletion'
    BY <1>1, SameDrains
  <2>2. QueueDrains(sv, sv') => Drains /\ IllegalOnlyAfterCompletion'
    BY DEF QueueDrains, Drains, IllegalOnlyAfterCompletion, Running
  <2> QED BY <2>1, <2>2
<1>6. PICK m : m = ReceiveFails(r)
  OBVIOUS
<1>7. /\ Received(r, m) /\ m \in ServerReps /\ Nudged(r, r)
      /\ m.gotlast = r.gotlast /\ m.pc # "wait"
  <2>1. m.gotlast = r.gotlast /\ m.pc # "wait"
    BY <1>6 DEF ReceiveFails, ServerReps
  <2> QED BY <1>6, <2>1, ReceiveFailsEffect DEF Received, Nudged
<1>8. CASE ExecutorReceives(k) \/ ManagerReceives(k)
  <2>1. CallReceiveFor(k)
    BY <1>8 DEF ExecutorReceives, ManagerReceives
  <2>2. CASE r.status = "orphaned"
    <3>1. ex' = [ex EXCEPT ![k] = m] /\ sv' = sv
      BY <1>2, <1>6, <2>1, <2>2 DEF CallReceiveFor
    <3> QED BY <1>4, <1>5, <1>7, <3>1 DEF Behaves
  <2>3. CASE r.status # "orphaned"
    <3>1. ReceiveFrag(sv, ex, k)
      BY <1>2, <2>1, <2>3 DEF CallReceiveFor
    <3>2. sv.overlap \/ sv.link = k
      BY <1>1, <1>2, <1>3, <2>3 DEF Sound, BlameInv, Apart
    <3>3. QueueDrains(sv, sv')
      BY <1>1, <3>1, ReceiveFragLooks
    <3>4. PICK q : ex' = [ex EXCEPT ![k] = q] /\ Received(r, q) /\ Looked(sv, r, q)
      BY <1>1, <1>2, <3>1, ReceiveFragLooks
    <3> QED BY <1>4, <1>5, <3>2, <3>3, <3>4 DEF Behaves
  <2> QED BY <2>2, <2>3
<1>9. CASE ExecutorWakes(k) /\ r.looks # sv.link
  <2>1. PICK q : q = [m EXCEPT !.woken = FALSE]
    OBVIOUS
  <2>2. q \in ServerReps
    BY <1>7, <2>1, ZenonT(60) DEF ServerReps
  <2>3. Nudged(m, q)
    BY <1>7, <2>1, <2>2 DEF Nudged, ServerReps
  <2>4. q.gotlast = m.gotlast /\ q.pc = m.pc
    BY <1>7, <2>1 DEF ServerReps
  <2>5. ex' = [ex EXCEPT ![k] = q] /\ sv' = sv
    BY <1>2, <1>6, <1>9, <2>1 DEF ExecutorWakes
  <2>6. Received(r, q)
    BY <1>7, <2>3, ReceivedNudged
  <2> QED BY <1>4, <1>5, <1>7, <2>4, <2>5, <2>6 DEF Behaves
<1>10. CASE ExecutorWakes(k) /\ r.looks = sv.link
  <2>1. PICK s : s = [r EXCEPT !.woken = FALSE]
    OBVIOUS
  <2>2. s \in ServerReps
    BY <2>1, ZenonT(60) DEF ServerReps
  <2>3. Nudged(r, s) /\ s.gotlast = r.gotlast
    <3>1. s.gotlast = r.gotlast
      BY <2>1 DEF ServerReps
    <3> QED BY <2>1, <2>2, <3>1 DEF Nudged, ServerReps
  <2>4. PICK e : e = [ex EXCEPT ![k] = s]
    OBVIOUS
  <2>5. ReceiveFrag(sv, e, k) /\ r.pc = "wait"
    BY <1>2, <1>10, <2>1, <2>4 DEF ExecutorWakes
  <2>6. e \in [Calls -> ServerReps] /\ e[k] = s
    BY <1>1, <2>2, <2>4
  <2>7. QueueDrains(sv, sv')
    BY <1>1, <2>5, <2>6, ReceiveFragLooks
  <2>8. PICK q : ex' = [e EXCEPT ![k] = q] /\ Received(s, q) /\ Looked(sv, s, q)
    BY <1>1, <2>5, <2>6, ReceiveFragLooks
  <2>9. ex' = [ex EXCEPT ![k] = q] /\ Nudged(q, q) /\ Looked(sv, r, q)
    BY <1>1, <2>3, <2>4, <2>8 DEF Nudged, Received, Looked
  <2>10. sv.overlap \/ sv.link = k
    BY <1>2, <1>10, <2>5 DEF BlameInv, Apart
  <2>11. Received(r, q)
    BY <2>3, <2>8, <2>9, ReceivedNudged
  <2> QED BY <1>4, <1>5, <2>7, <2>9, <2>10, <2>11 DEF Behaves
<1>11. CASE ExecutorWaitCancelled(k)
  <2>1. PICK q : q = [m EXCEPT !.woken = FALSE, !.cancelled = FALSE, !.acted = TRUE]
    OBVIOUS
  <2>2. q \in ServerReps
    BY <1>7, <2>1, ZenonT(60) DEF ServerReps
  <2>3. Nudged(m, q)
    BY <1>7, <2>1, <2>2 DEF Nudged, ServerReps
  <2>4. q.gotlast = m.gotlast /\ q.pc = m.pc
    BY <1>7, <2>1 DEF ServerReps
  <2>5. ex' = [ex EXCEPT ![k] = q] /\ sv' = sv
    BY <1>2, <1>6, <1>11, <2>1 DEF ExecutorWaitCancelled
  <2>6. Received(r, q)
    BY <1>7, <2>3, ReceivedNudged
  <2> QED BY <1>4, <1>5, <1>7, <2>4, <2>5, <2>6 DEF Behaves
<1> QED BY <1>2, <1>8, <1>9, <1>10, <1>11

\* The fields that matter here of the association are those of s.
LikeAssoc(s, t) ==
  t.overlap = s.overlap /\ t.link = s.link /\ t.msgs = s.msgs /\ t.fatal = s.fatal

\* A fault event aborts, or completes a call that was not complete and sends a fault
\* or is done.
Charges(s, e, k, event, then) ==
  \/ ~ServerLegal(e[k].st, event) /\ ex' = e /\ Abort(s, event, k)
  \/ /\ LikeAssoc(s, sv')
     /\ \E q : /\ ex' = [e EXCEPT ![k] = q] /\ q.st = "COMPLETED"
               /\ q.assoc = e[k].assoc /\ q.status \in {e[k].status, "orphaned"}
               /\ q.pc = then \/ (q.pc = "send" /\ q.then = then)

\* The two fault events (cnsclsm.c)
LEMMA FaultCharges ==
  ASSUME NEW s \in Assocs, NEW e \in [Calls -> ServerReps],
         NEW k \in Calls, NEW event \in {"fault", "fault_dne"}, NEW then \in {"mgr", "ending"},
         FaultEvent(s, e, k, event, then)
  PROVE  Charges(s, e, k, event, then)
<1>1. CASE ~ServerLegal(e[k].st, event)
  BY <1>1 DEF FaultEvent, Charges
<1>2. CASE ServerLegal(e[k].st, event)
  <2>1. PICK r \in ServerReps : r = e[k]
    OBVIOUS
  <2>2. PICK status \in {r.status, "orphaned"} :
          status = IF s.astat # "ok" /\ r.st = "RESPONSE" /\ ~Maybe(k) THEN "orphaned" ELSE r.status
    OBVIOUS
  <2>3. PICK c : c = [r EXCEPT !.st = "COMPLETED", !.status = status]
    OBVIOUS
  <2>4. PICK f : f = [e EXCEPT ![k].st = "COMPLETED", ![k].status = status]
    OBVIOUS
  <2>5. f = [e EXCEPT ![k] = c]
    BY <2>1, <2>3, <2>4
  <2>6. IF Maybe(k) \/ s.astat # "ok" THEN sv' = s /\ ex' = [f EXCEPT ![k].pc = then]
        ELSE SendFrag(s, f, k, LastFault(k), then)
    BY <1>2, <2>1, <2>2, <2>4 DEF FaultEvent
  <2>7. CASE Maybe(k) \/ s.astat # "ok"
    <3>1. PICK q : q = [c EXCEPT !.pc = then]
      OBVIOUS
    <3>2. ex' = [e EXCEPT ![k] = q] /\ sv' = s
      BY <2>5, <2>6, <2>7, <3>1
    <3>3. q.st = "COMPLETED" /\ q.pc = then /\ q.assoc = r.assoc /\ q.status = status
      BY <2>3, <3>1 DEF ServerReps
    <3> QED BY <2>1, <2>2, <3>2, <3>3 DEF Charges, LikeAssoc
  <2>8. CASE ~Maybe(k) /\ s.astat = "ok"
    <3>1. PICK p : p = LastFault(k)
      OBVIOUS
    <3>2. PICK q : q = [c EXCEPT !.pc = "send", !.sending = p, !.then = then, !.failed = FALSE]
      OBVIOUS
    <3>3. ex' = [e EXCEPT ![k] = q] /\ sv' = [s EXCEPT !.sendmsg = TRUE]
      BY <2>5, <2>6, <2>8, <3>1, <3>2 DEF SendFrag
    <3>4. q.st = "COMPLETED" /\ q.pc = "send" /\ q.then = then
      BY <2>3, <3>2 DEF ServerReps
    <3>5. q.assoc = r.assoc /\ q.status = status
      BY <2>3, <3>2 DEF ServerReps
    <3>6. LikeAssoc(s, sv')
      <4>1. PICK t : t = [s EXCEPT !.sendmsg = TRUE]
        OBVIOUS
      <4>2. LikeAssoc(s, t)
        BY <4>1 DEF Assocs, LikeAssoc
      <4> QED BY <3>3, <4>1, <4>2
    <3> QED BY <2>1, <2>2, <3>3, <3>4, <3>5, <3>6 DEF Charges
  <2> QED BY <2>7, <2>8
<1> QED BY <1>1, <1>2

\* A fault is illegal only in a call that is complete.
LEMMA FaultIllegal ==
  ASSUME NEW st \in {"REQUEST", "RESPONSE", "COMPLETED"}, NEW event \in {"fault", "fault_dne"},
         ~ServerLegal(st, event)
  PROVE  st = "COMPLETED"
BY DEF ServerLegal, ServerCallTable

\* A manager that still does something is not in a call that is complete.
LEMMA ManagerOpen ==
  ASSUME CallInv, BlameInv, NEW k \in Calls, InManager(k), ex[k].status # "orphaned"
  PROVE  ex[k].st \in {"REQUEST", "RESPONSE"} /\ ex[k].pc = "mgr" /\ ex[k].assoc
<1>1. Sound(ex[k]) /\ ex[k] \in ServerReps /\ ex[k].pc = "mgr"
  BY AtBlame DEF InManager
<1>2. ex[k].status = "ok" /\ ex[k].assoc
  BY <1>1 DEF Sound, Working, ServerReps
<1>3. ex[k].st # "COMPLETED"
  BY <1>2 DEF InManager, Faulted
<1> QED BY <1>1, <1>2, <1>3 DEF Sound

\* The steps in which a fault may go out
LEMMA FaultsBehave ==
  ASSUME CallInv, BlameInv, Running, NEW k \in Calls, ManagerFaults(k) \/ ExecutorRejects(k)
  PROVE  Behaves
<1>1. sv \in Assocs /\ ex \in [Calls -> ServerReps] /\ Sound(ex[k])
  BY AtBlame
<1>2. PICK r \in ServerReps : r = ex[k]
  BY <1>1
<1>3. CASE ManagerFaults(k)
  <2>1. r.st \in {"REQUEST", "RESPONSE"} /\ r.pc = "mgr"
    BY <1>2, <1>3, ManagerOpen DEF ManagerFaults
  <2>2. FaultEvent(sv, ex, k, "fault", "mgr")
    BY <1>3 DEF ManagerFaults
  <2>3. Charges(sv, ex, k, "fault", "mgr")
    BY <1>1, <2>2, FaultCharges
  <2>4. ServerLegal(r.st, "fault")
    BY <2>1, FaultIllegal
  <2>5. PICK q : /\ ex' = [ex EXCEPT ![k] = q] /\ q.st = "COMPLETED"
                 /\ q.assoc = r.assoc /\ q.status \in {r.status, "orphaned"}
                 /\ q.pc = "mgr" \/ (q.pc = "send" /\ q.then = "mgr")
    BY <1>2, <2>3, <2>4 DEF Charges
  <2>6. LikeAssoc(sv, sv')
    BY <1>2, <2>3, <2>4 DEF Charges
  <2>7. Sound(q)
    BY <1>1, <1>2, <2>1, <2>5 DEF Sound, Working
  <2>8. Fair(r, q, k)
    BY <2>5, <2>7 DEF Fair
  <2>9. \A j \in Calls : Fair(ex[j], ex'[j], j)
    BY <1>2, <2>5, <2>8, AloneFair
  <2> QED BY <1>1, <2>6, <2>9, SameDrains DEF Behaves, LikeAssoc
<1>4. CASE ExecutorRejects(k)
  <2>1. PICK c : c = [r EXCEPT !.status = "rejected"]
    OBVIOUS
  <2>2. c \in ServerReps /\ c.st = r.st /\ c.pc = r.pc /\ c.assoc = r.assoc /\ c.gotlast = r.gotlast
    BY <2>1 DEF ServerReps
  <2>3. PICK e : e = [ex EXCEPT ![k] = c]
    OBVIOUS
  <2>4. e \in [Calls -> ServerReps] /\ e[k] = c
    BY <1>1, <2>2, <2>3
  <2>5. [ex EXCEPT ![k].status = "rejected"] = e
    BY <1>2, <2>1, <2>3
  <2>6. FaultEvent(sv, e, k, "fault_dne", "ending") /\ r.pc = "rejecting"
    BY <1>2, <1>4, <2>5 DEF ExecutorRejects, CallReject
  <2>7. Charges(sv, e, k, "fault_dne", "ending")
    BY <1>1, <2>4, <2>6, FaultCharges
  <2>8. r.st \in {"REQUEST", "RESPONSE", "COMPLETED"}
    BY <1>1, <1>2, <2>6 DEF Sound
  <2>9. CASE ~ServerLegal(c.st, "fault_dne") /\ ex' = e /\ Abort(sv, "fault_dne", k)
    <3>1. c.st = "COMPLETED"
      BY <2>2, <2>8, <2>9, FaultIllegal
    <3>2. Sound(c)
      BY <2>2, <2>6, <2>8 DEF Sound, Working
    <3>3. Fair(r, c, k)
      BY <2>2, <2>6, <3>1, <3>2 DEF Fair
    <3>4. \A j \in Calls : Fair(ex[j], ex'[j], j)
      BY <1>2, <2>3, <2>9, <3>3, AloneFair
    <3>5. Drains /\ sv'.fatal = "fault_dne" /\ sv'.victim = k
      BY <1>1, <2>9, AbortDrains
    <3>6. IllegalOnlyAfterCompletion'
      BY <2>4, <2>9, <3>1, <3>5 DEF IllegalOnlyAfterCompletion
    <3> QED BY <3>4, <3>5, <3>6 DEF Behaves
  <2>10. CASE ~(~ServerLegal(c.st, "fault_dne") /\ ex' = e /\ Abort(sv, "fault_dne", k))
    <3>1. PICK q : /\ ex' = [e EXCEPT ![k] = q] /\ q.st = "COMPLETED"
                   /\ q.assoc = c.assoc /\ q.status \in {c.status, "orphaned"}
                   /\ q.pc = "ending" \/ (q.pc = "send" /\ q.then = "ending")
      BY <2>4, <2>7, <2>10 DEF Charges
    <3>2. LikeAssoc(sv, sv')
      BY <2>4, <2>7, <2>10 DEF Charges
    <3>3. ex' = [ex EXCEPT ![k] = q]
      BY <1>1, <2>3, <3>1
    <3>4. Sound(q)
      BY <3>1 DEF Sound, Working
    <3>5. Fair(r, q, k)
      BY <2>2, <3>1, <3>4 DEF Fair
    <3>6. \A j \in Calls : Fair(ex[j], ex'[j], j)
      BY <1>2, <3>3, <3>5, AloneFair
    <3> QED BY <1>1, <3>2, <3>6, SameDrains DEF Behaves, LikeAssoc
  <2> QED BY <2>9, <2>10
<1> QED BY <1>3, <1>4

\* rpc_call_transmit: only a manager that has read another call's last fragment
\* sends too early.
LEMMA SendsBehave ==
  ASSUME CallInv, BlameInv, Running, NEW k \in Calls, ManagerSends(k)
  PROVE  Behaves
<1>1. sv \in Assocs /\ ex \in [Calls -> ServerReps]
  BY AtBlame
<1>2. PICK r \in ServerReps : r = ex[k]
  BY <1>1
<1>3. r.st \in {"REQUEST", "RESPONSE"} /\ r.pc = "mgr" /\ r.assoc /\ r.gotlast
  BY <1>2, ManagerOpen DEF ManagerSends
<1>4. Sound(r)
  BY <1>2, AtBlame
<1>5. ASSUME NEW q, ex' = [ex EXCEPT ![k] = q], q.st = r.st, q.assoc = r.assoc,
             q.status \in {r.status, "orphaned"}, q.gotlast = r.gotlast,
             q.pc \in {"mgr", "send"}
      PROVE  \A j \in Calls : Fair(ex[j], ex'[j], j)
  <2>1. Sound(q)
    BY <1>3, <1>4, <1>5 DEF Sound, Working
  <2>2. Fair(r, q, k)
    BY <1>5, <2>1 DEF Fair
  <2> QED BY <1>2, <1>5, <2>2, AloneFair
<1>6. CASE ~ServerLegal(r.st, "send")
  <2>1. Abort(sv, "send", k) /\ ex' = ex
    BY <1>2, <1>6 DEF ManagerSends
  <2>2. r.st = "REQUEST"
    BY <1>3, <1>6 DEF ServerLegal, ServerCallTable
  <2>3. sv.overlap
    BY <1>2, <1>3, <2>2 DEF BlameInv, Apart
  <2>4. Drains /\ sv'.fatal = "send" /\ sv'.victim = k
    BY <1>1, <2>1, AbortDrains
  <2>5. IllegalOnlyAfterCompletion'
    BY <2>3, <2>4 DEF IllegalOnlyAfterCompletion, Drains
  <2>6. \A j \in Calls : Fair(ex[j], ex'[j], j)
    BY <2>1, AtBlame
  <2> QED BY <2>4, <2>5, <2>6 DEF Behaves
<1>7. CASE ServerLegal(r.st, "send") /\ sv.astat # "ok"
  <2>1. PICK q : q = [r EXCEPT !.status = "orphaned"]
    OBVIOUS
  <2>2. q.pc = r.pc /\ q.st = r.st /\ q.assoc = r.assoc /\ q.gotlast = r.gotlast
    BY <2>1 DEF ServerReps
  <2>3. ex' = [ex EXCEPT ![k] = q] /\ sv' = sv /\ q.status = "orphaned"
    BY <1>2, <1>7, <2>1 DEF ManagerSends, ServerReps
  <2>4. \A j \in Calls : Fair(ex[j], ex'[j], j)
    BY <1>3, <1>5, <2>2, <2>3
  <2> QED BY <1>1, <2>3, <2>4, SameDrains DEF Behaves
<1>8. CASE ServerLegal(r.st, "send") /\ sv.astat = "ok"
  <2>1. PICK n \in Nat : n = r.nsent + 1
    BY DEF ServerReps
  <2>2. PICK m : m = [r EXCEPT !.nsent = n]
    OBVIOUS
  <2>3. /\ m \in ServerReps /\ m.pc = r.pc /\ m.st = r.st /\ m.assoc = r.assoc
        /\ m.gotlast = r.gotlast /\ m.status = r.status
    BY <2>2 DEF ServerReps
  <2>4. PICK p : p = Response(k, n, FALSE, FALSE, 0)
    OBVIOUS
  <2>5. PICK e : e = [ex EXCEPT ![k] = m]
    OBVIOUS
  <2>6. [ex EXCEPT ![k].nsent = ex[k].nsent + 1] = e
    BY <1>1, <1>2, <2>1, <2>2, <2>5
  <2>7. IF Maybe(k) THEN ex' = e /\ sv' = sv ELSE SendFrag(sv, e, k, p, "mgr")
    BY <1>2, <1>8, <2>1, <2>4, <2>6 DEF ManagerSends
  <2>8. CASE Maybe(k)
    <3>1. \A j \in Calls : Fair(ex[j], ex'[j], j)
      BY <1>3, <1>5, <2>3, <2>5, <2>7, <2>8
    <3> QED BY <1>1, <2>7, <2>8, <3>1, SameDrains DEF Behaves
  <2>9. CASE ~Maybe(k)
    <3>1. PICK q : q = [m EXCEPT !.pc = "send", !.sending = p, !.then = "mgr", !.failed = FALSE]
      OBVIOUS
    <3>2. ex' = [ex EXCEPT ![k] = q] /\ sv' = [sv EXCEPT !.sendmsg = TRUE]
      BY <1>1, <2>5, <2>7, <2>9, <3>1 DEF SendFrag
    <3>3. q.pc = "send" /\ q.st = r.st /\ q.assoc = r.assoc
      BY <2>3, <3>1 DEF ServerReps
    <3>4. q.gotlast = r.gotlast /\ q.status = r.status
      BY <2>3, <3>1 DEF ServerReps
    <3>5. \A j \in Calls : Fair(ex[j], ex'[j], j)
      BY <1>5, <3>2, <3>3, <3>4
    <3>6. LikeAssoc(sv, sv')
      <4>1. PICK t : t = [sv EXCEPT !.sendmsg = TRUE]
        OBVIOUS
      <4>2. LikeAssoc(sv, t)
        BY <1>1, <4>1 DEF Assocs, LikeAssoc
      <4> QED BY <3>2, <4>1, <4>2
    <3> QED BY <1>1, <3>5, <3>6, SameDrains DEF Behaves, LikeAssoc
  <2> QED BY <2>8, <2>9
<1> QED BY <1>6, <1>7, <1>8

\* rpc__cn_assoc_dealloc: what it leaves of the association
LEMMA FreeRepLeaves ==
  ASSUME NEW s \in Assocs, NEW k \in Calls
  PROVE  LET t == FreeRep(s, k) IN
         /\ t \in Assocs /\ t.overlap = s.overlap /\ t.fatal = s.fatal
         /\ t.link = IF s.link = k THEN 0 ELSE s.link
         /\ t.msgs = IF t.link = 0 THEN <<>> ELSE s.msgs
<1>1. PICK l : l = IF s.link = k THEN 0 ELSE s.link
  OBVIOUS
<1>2. PICK m : m = IF l = 0 THEN <<>> ELSE s.msgs
  OBVIOUS
<1>3. PICK t : t = [s EXCEPT !.link = l, !.astat = "ok", !.ref = s.ref - 1, !.msgs = m]
  OBVIOUS
<1>4. t = FreeRep(s, k)
  BY <1>1, <1>2, <1>3 DEF FreeRep, Assocs
<1>5. t.overlap = s.overlap /\ t.fatal = s.fatal /\ t.link = l /\ t.msgs = m
  BY <1>3 DEF Assocs
<1> QED BY <1>1, <1>2, <1>4, <1>5, FreeRepEffect

\* When its call has no association any more
LEMMA FreedDrains ==
  ASSUME NEW a \in Assocs, LikeAssoc(sv, a), Running, NEW k \in Calls, NEW s,
         s = FreeRep(a, k), ~ex'[k].assoc,
         sv'.overlap = s.overlap, sv'.link = s.link, sv'.msgs = s.msgs, sv'.fatal = s.fatal
  PROVE  Drains /\ IllegalOnlyAfterCompletion'
<1>1. /\ s.overlap = sv.overlap /\ s.fatal = sv.fatal
      /\ s.link = IF sv.link = k THEN 0 ELSE sv.link
      /\ s.msgs = IF s.link = 0 THEN <<>> ELSE sv.msgs
  BY FreeRepLeaves DEF LikeAssoc
<1>2. k # 0
  BY WireAssumption DEF Calls
<1>3. s.msgs = <<>> => \A i \in 1..Len(s.msgs) : FALSE
  OBVIOUS
<1>4. Drains
  BY <1>1, <1>2, <1>3 DEF Drains
<1> QED BY <1>1, <1>4 DEF IllegalOnlyAfterCompletion, Running

\* The rest of rpc__cn_call_end
LEMMA EndCallBehaves ==
  ASSUME CallInv, BlameInv, Running, NEW s \in Assocs, LikeAssoc(sv, s), NEW k \in Calls,
         NEW m \in ServerReps, m.assoc = ex[k].assoc, EndCall(s, [ex EXCEPT ![k] = m], k)
  PROVE  Behaves
<1>1. sv \in Assocs /\ ex \in [Calls -> ServerReps]
  BY AtBlame
<1>2. PICK n : n = NoRep
  OBVIOUS
<1>3. n \in ServerReps /\ n.st = "INIT" /\ ~n.assoc
  <2>1. n.st = "INIT" /\ ~n.assoc
    BY <1>2 DEF NoRep
  <2> QED BY <1>2, <2>1, NoRepType
<1>4. PICK e : e = [ex EXCEPT ![k] = m]
  OBVIOUS
<1>5. PICK q : q = [n EXCEPT !.pc = "freed", !.gotlast = e[k].gotlast, !.acted = e[k].acted,
                             !.late = e[k].late, !.unsaid = e[k].unsaid]
  OBVIOUS
<1>6. ex' = [ex EXCEPT ![k] = q] /\ e[k] = m
  BY <1>1, <1>2, <1>4, <1>5 DEF EndCall
<1>7. q.pc = "freed" /\ q.st = "INIT" /\ ~q.assoc
  BY <1>3, <1>5 DEF ServerReps
<1>8. Fair(ex[k], q, k)
  BY <1>7 DEF Fair, Sound, Working
<1>9. \A j \in Calls : Fair(ex[j], ex'[j], j)
  BY <1>6, <1>8, AloneFair
<1>10. PICK f : f = IF m.assoc THEN FreeRep(s, k) ELSE s
  OBVIOUS
<1>11. f \in Assocs
  BY <1>10, FreeRepEffect
<1>12. PICK rcvr : sv' = [f EXCEPT !.rcvr = rcvr]
  <2>1. sv' = [f EXCEPT !.rcvr = IF ~m.mine THEN f.rcvr
                                 ELSE IF s.assoc = "CLOSED" THEN "done" ELSE "recv"]
    BY <1>4, <1>6, <1>10, <1>11 DEF EndCall, Assocs
  <2> QED BY <2>1
<1>13. LikeAssoc(f, sv')
  <2>1. PICK t : t = [f EXCEPT !.rcvr = rcvr]
    OBVIOUS
  <2>2. LikeAssoc(f, t)
    BY <1>11, <2>1 DEF Assocs, LikeAssoc
  <2> QED BY <1>12, <2>1, <2>2
<1>14. Drains /\ IllegalOnlyAfterCompletion'
  <2>1. CASE m.assoc
    <3>1. PICK g : g = FreeRep(sv, k)
      OBVIOUS
    <3>2. LikeAssoc(g, f)
      BY <1>1, <1>10, <2>1, <3>1, FreeRepLeaves DEF LikeAssoc
    <3>3. LikeAssoc(g, sv') /\ ~ex'[k].assoc
      BY <1>1, <1>6, <1>7, <1>13, <3>2 DEF LikeAssoc
    <3> QED BY <1>1, <3>1, <3>3, FreedDrains DEF LikeAssoc
  <2>2. CASE ~m.assoc
    <3>1. LikeAssoc(sv, sv')
      BY <1>10, <1>13, <2>2 DEF LikeAssoc
    <3> QED BY <1>1, <3>1, SameDrains DEF LikeAssoc
  <2> QED BY <2>1, <2>2
<1> QED BY <1>9, <1>14 DEF Behaves

\* The call ends, at once or after the last of the response.
LEMMA EndBehaves ==
  ASSUME CallInv, BlameInv, Running, NEW k \in Calls,
         ServerCallEnd(k) \/ (ServerSent(k) /\ ex[k].then = "freed")
  PROVE  Behaves
<1>1. sv \in Assocs /\ ex \in [Calls -> ServerReps]
  BY AtBlame
<1>2. PICK r \in ServerReps : r = ex[k]
  BY <1>1
<1>3. CASE ServerCallEnd(k)
  <2>1. PICK st \in {"NO_NSTATE", "COMPLETED"} : st = IF r.st = "REQUEST" THEN "NO_NSTATE" ELSE "COMPLETED"
    OBVIOUS
  <2>2. PICK m : m = [r EXCEPT !.st = st]
    OBVIOUS
  <2>3. m \in ServerReps /\ m.assoc = r.assoc /\ m.st = st
    <3>1. st \in ServerCallStates
      BY ServerStates
    <3> QED BY <2>2, <3>1 DEF ServerReps
  <2>4. PICK e : e = [ex EXCEPT ![k] = m]
    OBVIOUS
  <2>5. [ex EXCEPT ![k].st = IF @ = "REQUEST" THEN "NO_NSTATE" ELSE "COMPLETED"] = e
    BY <1>1, <1>2, <2>1, <2>2, <2>4
  <2>6. CASE r.st = "RESPONSE" /\ ~Maybe(k) /\ r.status # "orphaned"
    <3>1. PICK p : p = LastResponse(k)
      OBVIOUS
    <3>2. SendFrag(sv, e, k, p, "freed")
      BY <1>2, <1>3, <2>5, <2>6, <3>1 DEF ServerCallEnd
    <3>3. PICK q : q = [m EXCEPT !.pc = "send", !.sending = p, !.then = "freed", !.failed = FALSE]
      OBVIOUS
    <3>4. ex' = [ex EXCEPT ![k] = q] /\ sv' = [sv EXCEPT !.sendmsg = TRUE]
      BY <1>1, <2>4, <3>2, <3>3 DEF SendFrag
    <3>5. q.pc = "send" /\ q.st = m.st /\ q.then = "freed" /\ q.assoc = m.assoc
      BY <2>3, <3>3 DEF ServerReps
    <3>6. q.st = "COMPLETED"
      BY <2>1, <2>3, <2>6, <3>5
    <3>7. Fair(r, q, k)
      BY <2>3, <3>5, <3>6 DEF Fair, Sound, Working
    <3>8. \A j \in Calls : Fair(ex[j], ex'[j], j)
      BY <1>2, <3>4, <3>7, AloneFair
    <3>9. LikeAssoc(sv, sv')
      <4>1. PICK t : t = [sv EXCEPT !.sendmsg = TRUE]
        OBVIOUS
      <4>2. LikeAssoc(sv, t)
        BY <1>1, <4>1 DEF Assocs, LikeAssoc
      <4> QED BY <3>4, <4>1, <4>2
    <3> QED BY <1>1, <3>8, <3>9, SameDrains DEF Behaves, LikeAssoc
  <2>7. CASE ~(r.st = "RESPONSE" /\ ~Maybe(k) /\ r.status # "orphaned")
    <3>1. EndCall(sv, [ex EXCEPT ![k] = m], k)
      BY <1>2, <1>3, <2>4, <2>5, <2>7 DEF ServerCallEnd
    <3>2. LikeAssoc(sv, sv)
      BY DEF LikeAssoc
    <3> QED BY <1>1, <1>2, <2>3, <3>1, <3>2, EndCallBehaves
  <2> QED BY <2>6, <2>7
<1>4. CASE ServerSent(k) /\ ex[k].then = "freed"
  <2>1. PICK a \in {"ok", "closed"} : a = IF r.failed THEN "closed" ELSE sv.astat
    BY <1>1 DEF Assocs
  <2>2. PICK s : s = [sv EXCEPT !.sendmsg = FALSE, !.astat = a]
    OBVIOUS
  <2>3. s \in Assocs /\ LikeAssoc(sv, s)
    BY <1>1, <2>2 DEF Assocs, LikeAssoc
  <2>4. EndCall(s, ex, k)
    BY <1>1, <1>2, <1>4, <2>1, <2>2 DEF ServerSent
  <2>5. ex = [ex EXCEPT ![k] = r]
    BY <1>1, <1>2
  <2>6. EndCall(s, [ex EXCEPT ![k] = r], k)
    BY <2>4, <2>5
  <2> QED BY <1>2, <2>3, <2>6, EndCallBehaves
<1> QED BY <1>3, <1>4

\* A step of the thread of a call
LEMMA ExecutorBehaves ==
  ASSUME CallInv, BlameInv, NEW k \in Calls, ExecutorStep(k)
  PROVE  Behaves
BY TurnBehaves, InvokeBehaves, ReceiveBehaves, SendsBehave, FaultsBehave, EndBehaves DEF ExecutorStep

-----------------------------------------------------------------------------
(* What a step of the server's receiver does to a call *)

\* The call that is linked has begun and has not ended.
LEMMA LinkedOpen ==
  ASSUME CallInv, BlameInv, Running, NEW k \in Calls, sv.link = k
  PROVE  /\ ex[k].assoc /\ ex[k].pc \notin {"none", "freed"}
         /\ ex[k].st \in {"REQUEST", "RESPONSE", "COMPLETED"}
<1>1. k # 0
  BY WireAssumption DEF Calls
<1>2. ex[k].assoc /\ Stage(ex[k], k) /\ Sound(ex[k])
  BY <1>1, AtStep, AtBlame DEF CallInv, AssocTracksCalls
<1> QED BY <1>2 DEF Stage, Sound

\* The call has been given up by its caller.
LEMMA OrphanBehaves ==
  ASSUME CallInv, BlameInv, Running, NEW p, NEW k \in Calls, p.call = k, sv.link = k,
         NEW s \in Assocs, ReadsOn(s), StopOrphan(s, p)
  PROVE  Behaves
<1>1. sv \in Assocs /\ ex \in [Calls -> ServerReps]
  BY AtBlame
<1>0. LikeAssoc(sv, s)
  BY <1>1, ReadsOnEffect DEF LikeAssoc
<1>2. PICK r \in ServerReps : r = ex[k]
  BY <1>1
<1>3. r.pc \notin {"none", "freed"} /\ r.st \in {"REQUEST", "RESPONSE", "COMPLETED"} /\ Fair(r, r, k)
  BY <1>2, LinkedOpen, AtBlame
<1>4. PICK m : m = [r EXCEPT !.status = "orphaned"]
  OBVIOUS
<1>5. m \in ServerReps /\ m.pc = r.pc /\ m.st = r.st /\ m.assoc = r.assoc
  BY <1>4 DEF ServerReps
<1>6. m.gotlast = r.gotlast /\ m.looks = r.looks /\ m.status = "orphaned"
  BY <1>4 DEF ServerReps
<1>7. PICK e : e = [ex EXCEPT ![k] = m]
  OBVIOUS
<1>8. e = [ex EXCEPT ![k].status = "orphaned"] /\ e[k] = m
  BY <1>1, <1>2, <1>4, <1>7
<1>9. CASE r.pc = "queued"
  <2>1. PICK q : q = [m EXCEPT !.pc = "ending", !.mine = TRUE]
    OBVIOUS
  <2>2. ex' = [e EXCEPT ![k].pc = "ending", ![k].mine = TRUE] /\ sv' = [s EXCEPT !.rcvr = "busy"]
    BY <1>2, <1>8, <1>9 DEF StopOrphan
  <2>3. ex' = [ex EXCEPT ![k] = q]
    BY <1>1, <1>7, <1>8, <2>1, <2>2
  <2>4. q.pc = "ending" /\ q.st = r.st /\ q.assoc = r.assoc /\ q.gotlast = r.gotlast
    <3>1. q.pc = "ending" /\ q.st = m.st /\ q.assoc = m.assoc /\ q.gotlast = m.gotlast
      BY <1>5, <2>1 DEF ServerReps
    <3> QED BY <1>5, <1>6, <3>1
  <2>5. Fair(r, q, k)
    BY <1>3, <2>4 DEF Fair, Sound, Working
  <2>6. \A j \in Calls : Fair(ex[j], ex'[j], j)
    BY <1>2, <2>3, <2>5, AloneFair
  <2>7. LikeAssoc(sv, sv')
    <3>1. PICK t : t = [s EXCEPT !.rcvr = "busy"]
      OBVIOUS
    <3>2. LikeAssoc(sv, t)
      BY <1>0, <3>1 DEF Assocs, LikeAssoc
    <3> QED BY <2>2, <3>1, <3>2
  <2> QED BY <1>1, <2>6, <2>7, SameDrains DEF Behaves, LikeAssoc
<1>10. CASE r.pc # "queued"
  <2>1. PICK c : c = Cancel(m)
    OBVIOUS
  <2>2. Nudged(m, c) /\ Kept(m, c) /\ c \in ServerReps
    BY <1>5, <2>1, CancelNudges, CancelKept DEF Nudged
  <2>3. PICK q : q = [c EXCEPT !.st = "COMPLETED", !.assoc = FALSE]
    OBVIOUS
  <2>4. q \in ServerReps
    <3>1. "COMPLETED" \in ServerCallStates
      BY ServerStates
    <3>2. PICK st \in ServerCallStates : st = "COMPLETED"
      BY <3>1
    <3>3. c \in ServerReps /\ q = [c EXCEPT !.st = st, !.assoc = FALSE]
      BY <2>2, <2>3, <3>2
    <3> QED BY <3>3, ZenonT(60) DEF ServerReps
  <2>5. q.st = "COMPLETED" /\ ~q.assoc /\ q.pc = r.pc /\ q.status = "orphaned" /\ q.looks = r.looks
    <3>1. q.st = "COMPLETED" /\ ~q.assoc /\ q.pc = c.pc /\ q.status = c.status /\ q.looks = c.looks
      BY <2>2, <2>3 DEF ServerReps
    <3> QED BY <1>5, <1>6, <2>2, <3>1 DEF Nudged, Kept
  <2>6. Fair(r, q, k)
    BY <1>3, <2>5 DEF Fair, Sound
  <2>7. PICK w \in Calls \cup {0} : ex' = Wake([e EXCEPT ![k] = q], w)
    BY <1>2, <1>8, <1>10, <2>1, <2>3 DEF StopOrphan, Signalled, Waiters
  <2>8. [e EXCEPT ![k] = q] = [ex EXCEPT ![k] = q]
    BY <1>1, <1>7
  <2>9. \A j \in Calls : Fair(ex[j], ex'[j], j)
    BY <1>2, <2>4, <2>6, <2>7, <2>8, WokenFair
  <2>10. ~ex'[k].assoc
    <3>1. PICK f : f = [ex EXCEPT ![k] = q]
      OBVIOUS
    <3>2. f \in [Calls -> ServerReps] /\ f[k] = q
      BY <1>1, <2>4, <3>1
    <3>3. Nudged(f[k], ex'[k])
      BY <2>7, <2>8, <3>1, <3>2, WakesNudge
    <3> QED BY <2>5, <3>2, <3>3 DEF Nudged
  <2>11. sv' = FreeRep(s, k)
    BY <1>2, <1>10 DEF StopOrphan
  <2> QED BY <1>0, <2>9, <2>10, <2>11, FreedDrains DEF Behaves
<1> QED BY <1>9, <1>10

\* After the last fragment nothing of the request comes.
LEMMA HeadFinishes ==
  ASSUME NEW s \in Seq(Packets), s # <<>>, Finishes(s), NEW k, Closes(Head(s), k)
  PROVE  NoMore(Tail(s), k)
<1>1. /\ Head(s) = s[1] /\ 1 \in 1..Len(s)
      /\ \A i \in 1..Len(Tail(s)) : i \in Nat /\ i + 1 \in 1..Len(s) /\ i + 1 # 1 /\ Tail(s)[i] = s[i + 1]
  BY TailPackets
<1>2. ASSUME NEW i \in 1..Len(Tail(s))
      PROVE  ~(Tail(s)[i].type = "request" /\ Tail(s)[i].call = k)
  <2>1. 1 < i + 1 /\ i + 1 \in 1..Len(s) /\ Tail(s)[i] = s[i + 1]
    BY <1>1
  <2>2. Closes(s[1], s[1].call) /\ s[1].call = k
    BY <1>1 DEF Closes
  <2> QED BY <1>1, <2>1, <2>2 DEF Finishes
<1> QED BY <1>2 DEF NoMore

\* A fragment of the request of the call that is linked (handle_frag_action_rtn)
LEMMA HandleFragKeepsBlame ==
  ASSUME CallInv, BlameInv, Running, NEW p \in Packets, NEW k \in Calls, p.call = k, sv.link = k,
         c2s # <<>>, p = Head(c2s), c2s' = Tail(c2s), p.type = "request", ex[k].st = "REQUEST",
         NEW s \in Assocs, ReadsOn(s), HandleFrag(s, p)
  PROVE  BlameInv'
<1>1. sv \in Assocs /\ ex \in [Calls -> ServerReps] /\ c2s \in Seq(Packets)
  BY AtBlame DEF CallInv, WireTypes
<1>2. PICK r \in ServerReps : r = ex[k]
  BY <1>1
<1>3. r.pc \notin {"none", "freed"} /\ Sound(r) /\ k # 0
  BY <1>2, LinkedOpen, AtBlame, WireAssumption DEF Calls
<1>4. PICK st \in {"REQUEST", "RESPONSE"} : st = IF p.last THEN "RESPONSE" ELSE "REQUEST"
  OBVIOUS
<1>5. PICK q : q = [r EXCEPT !.st = st]
  OBVIOUS
<1>6. q \in ServerReps
  <2>1. st \in ServerCallStates
    BY ServerStates
  <2> QED BY <1>5, <2>1 DEF ServerReps
<1>7. q.st = st /\ q.pc = r.pc /\ q.status = r.status /\ q.assoc = r.assoc /\ q.then = r.then
  BY <1>5 DEF ServerReps
<1>8. q.gotlast = r.gotlast /\ q.looks = r.looks
  BY <1>5 DEF ServerReps
<1>9. PICK e : e = [ex EXCEPT ![k] = q]
  OBVIOUS
<1>10. e \in [Calls -> ServerReps] /\ e[k] = q /\ \A j \in Calls : j # k => e[j] = ex[j]
  BY <1>1, <1>6, <1>9
<1>11. PICK w \in Calls \cup {0} : ex' = Wake(e, w)
  BY <1>2, <1>4, <1>5, <1>9 DEF HandleFrag, Signalled, Waiters
<1>12. \A j \in Calls : Nudged(e[j], ex'[j]) /\ Kept(e[j], ex'[j])
  BY <1>10, <1>11, WakesNudge, WakeKept
<1>13. /\ ex'[k].st = st /\ ex'[k].pc = r.pc /\ ex'[k].status = r.status /\ ex'[k].assoc = r.assoc
       /\ ex'[k].then = r.then /\ ex'[k].gotlast = r.gotlast /\ ex'[k].looks = r.looks
  BY <1>7, <1>8, <1>10, <1>12 DEF Nudged, Kept
<1>14. \A j \in Calls : j # k => Nudged(ex[j], ex'[j]) /\ Kept(ex[j], ex'[j])
  BY <1>10, <1>12
<1>15. \A j \in Calls : Sound(ex'[j])
  <2>1. Sound(ex'[k])
    BY <1>3, <1>13 DEF Sound, Working
  <2>2. \A j \in Calls : j # k => Sound(ex'[j])
    BY <1>14, NudgedFair, AtBlame DEF Fair
  <2> QED BY <2>1, <2>2
<1>16. Closed'
  <2>1. PICK t : t = c2s' /\ t = Tail(c2s)
    OBVIOUS
  <2>2. Finishes(t) /\ \A j : NoMore(c2s, j) => NoMore(t, j)
    BY <1>1, <2>1, ShorterFinishes DEF Shortens, BlameInv, Closed
  <2>3. ASSUME st = "RESPONSE"
        PROVE  NoMore(t, k)
    <3>1. Closes(p, k)
      BY <1>4, <2>3 DEF Closes
    <3> QED BY <1>1, <2>1, <3>1, HeadFinishes DEF BlameInv, Closed
  <2>4. \A j \in Calls : ex'[j].st = "RESPONSE" => NoMore(t, j)
    BY <1>13, <1>14, <2>2, <2>3 DEF Nudged, BlameInv, Closed
  <2> QED BY <2>1, <2>2, <2>4 DEF Closed, Finishes, NoMore
<1>17. PICK msgs : msgs = Append(sv.msgs, p)
  OBVIOUS
<1>18. /\ sv'.overlap = sv.overlap /\ sv'.link = sv.link /\ sv'.fatal = sv.fatal
       /\ sv'.msgs = msgs
  <2>1. PICK t : t = [s EXCEPT !.msgs = msgs]
    OBVIOUS
  <2>2. s.overlap = sv.overlap /\ s.link = sv.link /\ s.fatal = sv.fatal /\ s.msgs = sv.msgs
    BY <1>1, ReadsOnEffect
  <2>3. t.overlap = sv.overlap /\ t.link = sv.link /\ t.fatal = sv.fatal /\ t.msgs = msgs
    BY <2>1, <2>2 DEF Assocs
  <2> QED BY <1>17, <2>1, <2>2, <2>3 DEF HandleFrag
<1>19. ASSUME ~sv.overlap
       PROVE  /\ \A j \in Calls : /\ ex'[j].assoc => sv'.link = j
                                  /\ ex'[j].gotlast => ex'[j].st # "REQUEST"
                                  /\ ex'[j].pc = "wait" => ex'[j].looks = j
              /\ \A i \in 1..Len(msgs) : msgs[i].last => sv'.link # 0 /\ ex'[sv'.link].st # "REQUEST"
  <2>1. /\ \A j \in Calls : /\ ex[j].assoc => sv.link = j
                            /\ ex[j].gotlast => ex[j].st # "REQUEST"
                            /\ ex[j].pc = "wait" => ex[j].looks = j
        /\ \A i \in 1..Len(sv.msgs) : ~sv.msgs[i].last
    BY <1>19 DEF BlameInv, Apart
  <2>2. ASSUME NEW i \in 1..Len(msgs), msgs[i].last
        PROVE  sv'.link # 0 /\ ex'[sv'.link].st # "REQUEST"
    <3>1. sv.msgs \in Seq(Packets)
      BY <1>1 DEF Assocs
    <3>2. msgs[i] = p \/ (i \in 1..Len(sv.msgs) /\ msgs[i] = sv.msgs[i])
      BY <1>17, <3>1, AppendPackets
    <3>3. p.last
      BY <2>1, <2>2, <3>2
    <3> QED BY <1>3, <1>4, <1>13, <1>18, <3>3
  <2> QED BY <1>2, <1>13, <1>14, <1>18, <2>1, <2>2 DEF Nudged, Kept
<1>20. Apart' /\ IllegalOnlyAfterCompletion'
  BY <1>18, <1>19 DEF Apart, IllegalOnlyAfterCompletion, Running
<1> QED BY <1>15, <1>16, <1>20 DEF BlameInv

\* Where a packet is illegal: in a call that is complete, or a fragment after the last.
LEMMA EventIllegal ==
  ASSUME NEW st \in {"REQUEST", "RESPONSE", "COMPLETED"},
         NEW event \in {"recv", "remote_alert", "orphaned"}, ~ServerLegal(st, event)
  PROVE  /\ event # "orphaned"
         /\ st = "COMPLETED" \/ (st = "RESPONSE" /\ event = "recv")
BY DEF ServerLegal, ServerCallTable

\* A packet that does not begin a call
LEMMA LaterPacketKeepsBlame ==
  ASSUME CallInv, BlameInv, Running, LaterPacket
  PROVE  BlameInv'
<1>1. ex \in [Calls -> ServerReps] /\ sv \in Assocs /\ c2s \in Seq(Packets)
  BY DEF CallInv, ServerTypes, WireTypes
<1>2. /\ c2s # <<>> /\ Head(c2s).type \in {"request", "alert", "orphaned"} /\ c2s' = Tail(c2s)
  BY DEF LaterPacket, Arrives
<1>3. PICK p \in Packets : p = Head(c2s) /\ p = c2s[1] /\ 1 \in 1..Len(c2s)
  BY <1>1, <1>2, TailPackets
<1>4. Shortens(c2s, c2s')
  BY <1>2 DEF Shortens
<1>0. PICK s \in Assocs : ReadsOn(s) /\ LaterOn(s, p)
  BY <1>3, LaterReads
<1>8. LikeAssoc(sv, s)
  BY <1>0, <1>1, ReadsOnEffect DEF LikeAssoc
<1>5. ASSUME sv' = s, ex' = ex
      PROVE  BlameInv'
  <2>1. \A j \in Calls : Fair(ex[j], ex'[j], j)
    BY <1>5, AtBlame
  <2> QED BY <1>1, <1>4, <1>5, <1>8, <2>1, SameDrains, BehavesKeepsBlame DEF Behaves, LikeAssoc
<1>6. CASE ~ForLinkedCall(p)
  BY <1>0, <1>5, <1>6 DEF LaterOn
<1>7. CASE ForLinkedCall(p)
  <2>1. PICK k \in Calls : k = sv.link /\ p.call = k
    BY <1>1, <1>7 DEF ForLinkedCall, Assocs
  <2>2. PICK r \in ServerReps : r = ex[k]
    BY <1>1
  <2>3. r.st \in {"REQUEST", "RESPONSE", "COMPLETED"} /\ Fair(r, r, k)
    BY <2>1, <2>2, LinkedOpen, AtBlame
  <2>4. p.type = "request" => r.st # "RESPONSE"
    BY <1>3, <2>1, <2>2 DEF BlameInv, Closed, NoMore
  <2>5. CASE ~ServerLegal(r.st, Event(p))
    <3>1. PICK event \in {"recv", "remote_alert", "orphaned"} :
            event = Event(p) /\ (event = "recv" <=> p.type = "request")
      BY <1>2, <1>3 DEF Event
    <3>2. Abort(s, event, k) /\ ex' = ex
      BY <1>0, <1>7, <2>1, <2>2, <2>5, <3>1 DEF LaterOn
    <3>3. event \in {"recv", "remote_alert"} /\ r.st = "COMPLETED"
      BY <2>3, <2>4, <2>5, <3>1, EventIllegal
    <3>4. Drains /\ sv'.fatal = event /\ sv'.victim = k
      BY <1>8, <3>2, AbortDrains DEF LikeAssoc
    <3>5. IllegalOnlyAfterCompletion'
      BY <2>2, <3>2, <3>3, <3>4 DEF IllegalOnlyAfterCompletion
    <3>6. \A j \in Calls : Fair(ex[j], ex'[j], j)
      BY <3>2, AtBlame
    <3> QED BY <1>4, <3>4, <3>5, <3>6, BehavesKeepsBlame DEF Behaves
  <2>6. CASE ServerLegal(r.st, Event(p))
    <3>1. \/ ServerDoes(r.st, Event(p), "handle_frag") /\ HandleFrag(s, p)
          \/ ProcessAlert(s, p) \/ StopOrphan(s, p) \/ (sv' = s /\ ex' = ex)
      BY <1>0, <1>7, <2>1, <2>2, <2>6 DEF LaterOn
    <3>2. CASE ServerDoes(r.st, Event(p), "handle_frag") /\ HandleFrag(s, p)
      <4>1. p.type = "request" /\ r.st = "REQUEST"
        BY <1>2, <1>3, <3>2, HandlesRequests DEF ServerReps
      <4> QED BY <1>0, <1>2, <1>3, <2>1, <2>2, <3>2, <4>1, HandleFragKeepsBlame
    <3>3. CASE ProcessAlert(s, p)
      <4>1. PICK n \in Nat : n = r.alerts + 1
        BY DEF ServerReps
      <4>2. PICK m : m = [r EXCEPT !.alerts = n]
        OBVIOUS
      <4>3. m \in ServerReps
        BY <4>2 DEF ServerReps
      <4>4. Nudged(r, m)
        BY <4>2, <4>3 DEF Nudged, ServerReps
      <4>5. Kept(r, m)
        BY <4>2, <4>3 DEF Kept, ServerReps
      <4>6. PICK q : q = Cancel(m)
        OBVIOUS
      <4>7. Nudged(r, q)
        BY <4>3, <4>4, <4>6, CancelNudges, NudgedTwice
      <4>8. Kept(r, q)
        BY <4>3, <4>5, <4>6, CancelKept DEF Kept
      <4>9. ex' = [ex EXCEPT ![k] = q] /\ sv' = s
        BY <2>1, <2>2, <3>3, <4>1, <4>2, <4>6 DEF ProcessAlert
      <4>10. Fair(r, q, k)
        BY <2>3, <4>7, <4>8, NudgedFair
      <4>11. \A j \in Calls : Fair(ex[j], ex'[j], j)
        BY <2>2, <4>9, <4>10, AloneFair
      <4> QED BY <1>1, <1>4, <1>8, <4>9, <4>11, SameDrains, BehavesKeepsBlame DEF Behaves, LikeAssoc
    <3>4. CASE StopOrphan(s, p)
      BY <1>0, <1>4, <2>1, <3>4, OrphanBehaves, BehavesKeepsBlame
    <3> QED BY <1>5, <3>1, <3>2, <3>3, <3>4
  <2> QED BY <2>5, <2>6
<1> QED BY <1>6, <1>7

\* The dummy fragment is not the last of anything.
LEMMA QueueDummyLast ==
  ASSUME NEW s \in Seq(Packets)
  PROVE  \A i \in 1..Len(QueueDummy(s)) : QueueDummy(s)[i].last => \E j \in 1..Len(s) : s[j].last
<1>1. PICK d \in Packets : d = Dummy /\ ~d.last
  BY DummyType DEF Dummy, Packet
<1>2. QueueDummy(s) = s \/ QueueDummy(s) = Append(s, d)
  BY <1>1 DEF QueueDummy
<1>3. CASE QueueDummy(s) = s
  BY <1>3
<1>4. CASE QueueDummy(s) = Append(s, d)
  BY <1>1, <1>4, AppendPackets
<1> QED BY <1>2, <1>3, <1>4

\* The connection is gone.
LEMMA DisconnectBehaves ==
  ASSUME CallInv, BlameInv, Running, ServerDisconnects
  PROVE  Behaves
<1>1. sv \in Assocs /\ ex \in [Calls -> ServerReps]
  BY DEF CallInv, ServerTypes
<1>2. PICK w \in Signalled(ex) :
        LET e == Wake(ex, w)
            k == sv.link
        IN  \/ k = 0 /\ ex' = e
            \/ /\ k # 0 /\ ex[k].pc = "queued"
               /\ ex' = [e EXCEPT ![k].pc = "ending", ![k].mine = TRUE]
            \/ /\ k # 0 /\ ex[k].pc # "queued"
               /\ \E v \in Signalled(e) : ex' = Wake([e EXCEPT ![k] = Cancel(e[k])], v)
  BY DEF ServerDisconnects
<1>3. PICK e : e = Wake(ex, w)
  OBVIOUS
<1>4. e \in [Calls -> ServerReps] /\ \A j \in Calls : Nudged(ex[j], e[j]) /\ Kept(ex[j], e[j])
  BY <1>1, <1>2, <1>3, WakesNudge, WakeKept DEF Signalled, Waiters
<1>5. \A j \in Calls : Fair(ex[j], e[j], j)
  BY <1>4, AtBlame, NudgedFair
<1>6. Drains /\ IllegalOnlyAfterCompletion'
  <2>1. PICK m : m = QueueDummy(sv.msgs)
    OBVIOUS
  <2>2. PICK rcvr : sv' = [sv EXCEPT !.assoc = "CLOSED", !.astat = "closed", !.msgs = m, !.rcvr = rcvr]
    BY <1>1, <2>1 DEF ServerDisconnects
  <2>3. PICK s : s = [sv EXCEPT !.assoc = "CLOSED", !.astat = "closed", !.msgs = m, !.rcvr = rcvr]
    OBVIOUS
  <2>4. s.overlap = sv.overlap /\ s.link = sv.link /\ s.msgs = m /\ s.fatal = sv.fatal
    BY <1>1, <2>3 DEF Assocs
  <2>5. \A i \in 1..Len(m) : m[i].last => \E j \in 1..Len(sv.msgs) : sv.msgs[j].last
    BY <1>1, <2>1, QueueDummyLast DEF Assocs
  <2>6. sv' = s
    BY <2>2, <2>3
  <2> QED BY <2>4, <2>5, <2>6 DEF Drains, IllegalOnlyAfterCompletion, Running
<1>7. CASE sv.link = 0
  <2>1. ex' = e
    BY <1>2, <1>3, <1>7
  <2> QED BY <1>5, <1>6, <2>1 DEF Behaves
<1>8. CASE sv.link # 0 /\ ex[sv.link].pc = "queued"
  <2>1. PICK k \in Calls : k = sv.link
    BY <1>1, <1>8 DEF Assocs
  <2>2. PICK r \in ServerReps : r = e[k]
    BY <1>4
  <2>3. PICK q : q = [r EXCEPT !.pc = "ending", !.mine = TRUE]
    OBVIOUS
  <2>4. q.pc = "ending" /\ q.st = r.st /\ q.assoc = r.assoc /\ q.gotlast = r.gotlast
    BY <2>3 DEF ServerReps
  <2>5. r.st \in {"REQUEST", "RESPONSE", "COMPLETED"} /\ Fair(ex[k], r, k)
    BY <1>4, <1>5, <2>1, <2>2, LinkedOpen DEF Nudged
  <2>6. ex' = [e EXCEPT ![k] = q]
    BY <1>2, <1>3, <1>8, <2>1, <2>2, <2>3
  <2>7. ex'[k] = q /\ \A j \in Calls : j # k => ex'[j] = e[j]
    BY <1>4, <2>6
  <2>8. Fair(ex[k], q, k)
    BY <2>4, <2>5 DEF Fair, Sound, Working
  <2> QED BY <1>5, <1>6, <2>7, <2>8 DEF Behaves
<1>9. CASE sv.link # 0 /\ ex[sv.link].pc # "queued"
  <2>1. PICK k \in Calls : k = sv.link
    BY <1>1, <1>9 DEF Assocs
  <2>2. PICK q : q = Cancel(e[k])
    OBVIOUS
  <2>3. PICK c : c = [e EXCEPT ![k] = q]
    OBVIOUS
  <2>4. PICK v \in Signalled(e) : ex' = Wake(c, v)
    BY <1>2, <1>3, <1>9, <2>1, <2>2, <2>3
  <2>5. Nudged(e[k], q) /\ q \in ServerReps /\ Kept(e[k], q)
    BY <1>4, <2>2, CancelNudges, CancelKept DEF Nudged
  <2>6. c \in [Calls -> ServerReps] /\ c[k] = q /\ \A j \in Calls : j # k => c[j] = e[j]
    BY <1>4, <2>3, <2>5
  <2>7. \A j \in Calls : Fair(ex[j], c[j], j)
    BY <1>5, <2>5, <2>6, NudgedFair
  <2>8. PICK u \in Calls \cup {0} : u = v
    BY <2>4 DEF Signalled, Waiters
  <2>9. \A j \in Calls : Nudged(c[j], ex'[j]) /\ Kept(c[j], ex'[j])
    BY <2>4, <2>6, <2>8, WakesNudge, WakeKept
  <2> QED BY <1>6, <2>7, <2>9, NudgedFair DEF Behaves
<1> QED BY <1>7, <1>8, <1>9

\* A new call has read nothing and is not refused yet.
LEMMA NewCallFresh ==
  ASSUME NEW p \in Packets
  PROVE  NewCall(p).status = "ok" /\ ~NewCall(p).gotlast
<1>1. PICK n \in ServerReps : n = NoRep
  BY NoRepType
<1>2. n.status = "ok" /\ n.gotlast = FALSE
  BY <1>1 DEF NoRep
<1>3. PICK st \in {"REQUEST", "RESPONSE"} : st = IF p.last THEN "RESPONSE" ELSE "REQUEST"
  OBVIOUS
<1>4. PICK r : r = [n EXCEPT !.assoc = TRUE, !.accepting = TRUE, !.st = st]
  OBVIOUS
<1>5. r \in ServerReps
  <2>1. st \in ServerCallStates
    BY ServerStates
  <2> QED BY <1>4, <2>1 DEF ServerReps
<1>6. r.status = n.status /\ r.gotlast = n.gotlast
  BY <1>4 DEF ServerReps
<1>7. PICK q : q = NewCall(p)
  OBVIOUS
<1>8. q = IF p.alert THEN Cancel(r) ELSE r
  BY <1>1, <1>3, <1>4, <1>7 DEF NewCall
<1>9. q.status = r.status /\ q.gotlast = r.gotlast
  BY <1>5, <1>8, CancelNudges, CancelKept DEF Nudged, Kept
<1> QED BY <1>2, <1>6, <1>7, <1>9

\* The call that begins, given to an executor or refused
Begun(q, st) ==
  /\ Sound(q) /\ q.pc # "wait" /\ q.st \in {st, "COMPLETED"}
  /\ q.gotlast => q.st # "REQUEST"

\* The first fragment of a request
LEMMA FirstFragmentBegins ==
  ASSUME CallInv, FirstFragment, NEW p \in Packets, p = Head(c2s), NEW k \in Calls, k = p.call
  PROVE  \E q, a : /\ ex' = [ex EXCEPT ![k] = q] /\ Begun(q, NewCall(p).st)
                   /\ a \in Assocs /\ ReadsOn(a) /\ LikeAssoc(PushCall(a, p), sv')
<1>1. sv \in Assocs /\ ex \in [Calls -> ServerReps]
  BY AtStep
<1>2. PICK m \in ServerReps : m = NewCall(p)
  BY NewCallEffect
<1>3. m.assoc /\ m.st \in {"REQUEST", "RESPONSE"} /\ m.status = "ok" /\ ~m.gotlast
  BY <1>2, NewCallEffect, NewCallFresh
<1>0. PICK a \in Assocs : ReadsOn(a) /\ FirstOn(a, p)
  BY FirstReads
<1>4. PICK s \in Assocs : s = PushCall(a, p)
  BY <1>1, PushCallEffect
<1>5. PICK e : e = [ex EXCEPT ![k] = m]
  OBVIOUS
<1>6. e \in [Calls -> ServerReps] /\ e[k] = m
  BY <1>1, <1>5
<1>7. CASE sv' = s /\ \E pc \in {"ready", "queued"} : ex' = [e EXCEPT ![k].pc = pc]
  <2>1. PICK pc \in {"ready", "queued"} : ex' = [e EXCEPT ![k].pc = pc]
    BY <1>7
  <2>2. PICK q : q = [m EXCEPT !.pc = pc]
    OBVIOUS
  <2>3. q.pc = pc /\ q.st = m.st /\ q.assoc = m.assoc
    BY <2>2 DEF ServerReps
  <2>4. q.status = m.status /\ q.gotlast = m.gotlast
    BY <2>2 DEF ServerReps
  <2>5. ex' = [ex EXCEPT ![k] = q]
    BY <1>1, <1>5, <1>6, <2>1, <2>2
  <2>6. Begun(q, m.st)
    BY <1>3, <2>3, <2>4 DEF Begun, Sound
  <2> QED BY <1>0, <1>2, <1>4, <1>7, <2>5, <2>6 DEF LikeAssoc
<1>8. CASE CallReject([s EXCEPT !.rcvr = "busy"], [e EXCEPT ![k].mine = TRUE], k)
  <2>1. PICK o : o = [m EXCEPT !.mine = TRUE, !.status = "rejected"]
    OBVIOUS
  <2>2. o \in ServerReps
    BY <2>1 DEF ServerReps
  <2>3. o.st = m.st
    BY <2>1 DEF ServerReps
  <2>4. PICK f : f = [ex EXCEPT ![k] = o]
    OBVIOUS
  <2>5. f \in [Calls -> ServerReps] /\ f[k] = o
    BY <1>1, <2>2, <2>4
  <2>6. PICK t : t = [s EXCEPT !.rcvr = "busy"]
    OBVIOUS
  <2>7. t \in Assocs /\ LikeAssoc(s, t)
    <3>1. t \in Assocs
      BY <2>6, RcvrTyped
    <3>2. LikeAssoc(s, t)
      BY <1>4, <2>6 DEF Assocs, LikeAssoc
    <3> QED BY <3>1, <3>2
  <2>8. [[e EXCEPT ![k].mine = TRUE] EXCEPT ![k].status = "rejected"] = f
    BY <1>1, <1>5, <1>6, <2>1, <2>4
  <2>9. FaultEvent(t, f, k, "fault_dne", "ending")
    BY <1>8, <2>6, <2>8 DEF CallReject
  <2>10. Charges(t, f, k, "fault_dne", "ending")
    BY <2>5, <2>7, <2>9, FaultCharges
  <2>11. ServerLegal(f[k].st, "fault_dne")
    BY <1>3, <2>3, <2>5, FaultLegal
  <2>12. PICK q : /\ ex' = [f EXCEPT ![k] = q] /\ q.st = "COMPLETED"
                  /\ q.pc = "ending" \/ (q.pc = "send" /\ q.then = "ending")
    BY <2>10, <2>11 DEF Charges
  <2>13. Begun(q, m.st)
    BY <2>12 DEF Begun, Sound, Working
  <2>14. ex' = [ex EXCEPT ![k] = q]
    BY <1>1, <2>4, <2>12
  <2>15. LikeAssoc(s, sv')
    BY <2>7, <2>10, <2>11 DEF Charges, LikeAssoc
  <2> QED BY <1>0, <1>2, <1>4, <2>13, <2>14, <2>15
<1>9. \/ sv' = s /\ \E pc \in {"ready", "queued"} : ex' = [e EXCEPT ![k].pc = pc]
      \/ CallReject([s EXCEPT !.rcvr = "busy"], [e EXCEPT ![k].mine = TRUE], k)
  BY <1>0, <1>2, <1>4, <1>5 DEF FirstOn
<1> QED BY <1>7, <1>8, <1>9

\* The call that begins is alone, or the calls overlap from here on.
LEMMA FirstFragmentKeepsBlame ==
  ASSUME CallInv, BlameInv, Running, FirstFragment
  PROVE  BlameInv'
<1>1. /\ ex \in [Calls -> ServerReps] /\ sv \in Assocs /\ c2s \in Seq(Packets) /\ cl.call \in Nat
  BY DEF CallInv, ServerTypes, WireTypes, ClientTypes, ClientReps
<1>2. c2s # <<>> /\ Head(c2s).type = "request" /\ c2s' = Tail(c2s)
  BY DEF FirstFragment, Arrives
<1>3. PICK p \in Packets : p = Head(c2s) /\ p = c2s[1] /\ 1 \in 1..Len(c2s)
  BY <1>1, <1>2, TailPackets
<1>4. PICK k \in Calls : k = p.call /\ k # 0
  <2>1. p.call \in 1..cl.call
    BY <1>3 DEF CallInv, BeginsOnce
  <2> QED BY <1>1, <2>1, WireAssumption DEF CallInv, ClientTypes, Calls
<1>5. PICK st \in {"REQUEST", "RESPONSE"} :
        st = NewCall(p).st /\ st = IF p.last THEN "RESPONSE" ELSE "REQUEST"
  BY NewCallState
<1>6. PICK q, a : /\ ex' = [ex EXCEPT ![k] = q] /\ Begun(q, st)
                  /\ a \in Assocs /\ ReadsOn(a) /\ LikeAssoc(PushCall(a, p), sv')
  BY <1>3, <1>4, <1>5, FirstFragmentBegins
<1>7. ex'[k] = q /\ \A j \in Calls : j # k => ex'[j] = ex[j]
  BY <1>1, <1>6
<1>8. PICK msgs : msgs = Append(sv.msgs, p)
  OBVIOUS
<1>9. /\ sv'.overlap = (sv.overlap \/ sv.link # 0) /\ sv'.link = k
      /\ sv'.msgs = msgs /\ sv'.fatal = sv.fatal
  <2>6. /\ a.overlap = sv.overlap /\ a.link = sv.link /\ a.msgs = sv.msgs
        /\ a.fatal = sv.fatal /\ a.ref = sv.ref
    BY <1>1, <1>6, ReadsOnEffect
  <2>1. PICK o : o = (sv.overlap \/ sv.link # 0)
    OBVIOUS
  <2>2. PICK ref : ref = sv.ref + 1
    OBVIOUS
  <2>3. PICK s : s = [a EXCEPT !.link = k, !.ref = ref, !.msgs = msgs, !.overlap = o]
    OBVIOUS
  <2>4. s.overlap = o /\ s.link = k /\ s.msgs = msgs /\ s.fatal = sv.fatal
    BY <1>6, <2>3, <2>6 DEF Assocs
  <2>5. s = PushCall(a, p)
    BY <1>4, <1>8, <2>1, <2>2, <2>3, <2>6 DEF PushCall
  <2> QED BY <1>6, <2>1, <2>4, <2>5 DEF LikeAssoc
<1>10. \A j \in Calls : Sound(ex'[j])
  BY <1>6, <1>7 DEF BlameInv, Begun
<1>11. Closed'
  <2>1. PICK t : t = c2s' /\ t = Tail(c2s)
    BY <1>2
  <2>2. Finishes(t) /\ \A j : NoMore(c2s, j) => NoMore(t, j)
    BY <1>1, <1>2, <2>1, ShorterFinishes DEF Shortens, BlameInv, Closed
  <2>3. ASSUME q.st = "RESPONSE"
        PROVE  NoMore(t, k)
    <3>1. st = "RESPONSE"
      BY <1>6, <2>3 DEF Begun
    <3>2. Closes(p, k)
      BY <1>2, <1>3, <1>4, <1>5, <3>1 DEF Closes
    <3> QED BY <1>1, <1>2, <1>3, <2>1, <3>2, HeadFinishes DEF BlameInv, Closed
  <2>4. \A j \in Calls : ex'[j].st = "RESPONSE" => NoMore(t, j)
    BY <1>7, <2>2, <2>3 DEF BlameInv, Closed
  <2> QED BY <2>1, <2>2, <2>4 DEF Closed, Finishes, NoMore
<1>12. ASSUME ~sv'.overlap
       PROVE  /\ \A j \in Calls : /\ ex'[j].assoc => sv'.link = j
                                  /\ ex'[j].gotlast => ex'[j].st # "REQUEST"
                                  /\ ex'[j].pc = "wait" => ex'[j].looks = j
              /\ \A i \in 1..Len(msgs) : msgs[i].last => ex'[k].st # "REQUEST"
  <2>1. ~sv.overlap /\ sv.link = 0
    BY <1>9, <1>12
  <2>2. \A j \in Calls : j # 0
    BY WireAssumption DEF Calls
  <2>3. /\ \A j \in Calls : /\ ~ex[j].assoc
                            /\ ex[j].gotlast => ex[j].st # "REQUEST"
                            /\ ex[j].pc = "wait" => ex[j].looks = j
        /\ \A i \in 1..Len(sv.msgs) : ~sv.msgs[i].last
    BY <2>1, <2>2 DEF BlameInv, Apart
  <2>4. ASSUME NEW i \in 1..Len(msgs), msgs[i].last
        PROVE  ex'[k].st # "REQUEST"
    <3>1. sv.msgs \in Seq(Packets)
      BY <1>1 DEF Assocs
    <3>2. msgs[i] = p \/ (i \in 1..Len(sv.msgs) /\ msgs[i] = sv.msgs[i])
      BY <1>8, <3>1, AppendPackets
    <3>3. p.last
      BY <2>3, <2>4, <3>2
    <3> QED BY <1>5, <1>6, <1>7, <3>3 DEF Begun
  <2> QED BY <1>6, <1>7, <1>9, <2>3, <2>4 DEF Begun
<1>13. Apart'
  BY <1>4, <1>9, <1>12 DEF Apart
<1>14. IllegalOnlyAfterCompletion'
  BY <1>9 DEF IllegalOnlyAfterCompletion, Running
<1> QED BY <1>10, <1>11, <1>13, <1>14 DEF BlameInv

-----------------------------------------------------------------------------
(* The server's aborts: the theorem *)

\* No step of the server breaks the invariant.
LEMMA ServerKeepsBlame ==
  ASSUME CallInv, BlameInv, ServerStep
  PROVE  BlameInv'
<1>1. CASE ServerReceiver
  <2>1. Running
    BY <1>1 DEF ServerReceiver
  <2>2. CASE ServerDisconnects
    <3>1. Shortens(c2s, c2s')
      BY <2>2 DEF ServerDisconnects, wireVars, Shortens
    <3> QED BY <2>1, <2>2, <3>1, DisconnectBehaves, BehavesKeepsBlame
  <2> QED BY <1>1, <2>1, <2>2, FirstFragmentKeepsBlame, LaterPacketKeepsBlame DEF ServerReceiver
<1>2. ASSUME NEW k \in Calls, ExecutorStep(k)
      PROVE  BlameInv'
  <2>1. c2s' = c2s
    <3>1. CASE ServerSendmsg(k)
      BY <3>1 DEF ServerSendmsg
    <3>2. CASE ~ServerSendmsg(k)
      BY <1>2, <3>2, ExecutorWire
    <3> QED BY <3>1, <3>2
  <2> QED BY <1>2, <2>1, ExecutorBehaves, BehavesKeepsBlame DEF Shortens
<1> QED BY <1>1, <1>2 DEF ServerStep

\* A fragment comes to the end of a request that is not finished.
LEMMA LongerFinishes ==
  ASSUME NEW s \in Seq(Packets), NEW p \in Packets, Finishes(s),
         p.type = "request" => \A i \in 1..Len(s) : ~Closes(s[i], p.call)
  PROVE  Finishes(Append(s, p))
<1>1. PICK t : t = Append(s, p)
  OBVIOUS
<1>2. \A i \in 1..Len(t) : i \in Nat /\ ((t[i] = p /\ i = Len(s) + 1) \/ (i \in 1..Len(s) /\ t[i] = s[i]))
  BY <1>1
<1>3. Len(t) = Len(s) + 1 /\ Len(s) \in Nat
  BY <1>1
<1>4. ASSUME NEW i \in 1..Len(t), NEW j \in 1..Len(t), i < j, Closes(t[i], t[i].call)
      PROVE  ~(t[j].type = "request" /\ t[j].call = t[i].call)
  <2>1. i \in 1..Len(s) /\ t[i] = s[i]
    BY <1>2, <1>3, <1>4
  <2>2. CASE t[j] = p
    BY <1>4, <2>1, <2>2
  <2>3. CASE j \in 1..Len(s) /\ t[j] = s[j]
    BY <1>4, <2>1, <2>3 DEF Finishes
  <2> QED BY <1>2, <2>2, <2>3
<1>5. Finishes(t)
  BY <1>4 DEF Finishes
<1> QED BY <1>1, <1>5

\* The server stays where it is.
LEMMA WireKeepsBlame ==
  ASSUME BlameInv, UNCHANGED serverVars, Closed'
  PROVE  BlameInv'
BY DEF BlameInv, serverVars, Apart, IllegalOnlyAfterCompletion, Running

\* A step in which nothing is put on the wire to the server
LEMMA QuietKeepsBlame ==
  ASSUME CallInv, BlameInv, UNCHANGED serverVars, Shortens(c2s, c2s')
  PROVE  BlameInv'
<1>1. c2s \in Seq(Packets) /\ ex' = ex
  BY DEF CallInv, WireTypes, serverVars
<1>2. PICK t : t = c2s'
  OBVIOUS
<1>3. Finishes(t) /\ \A k : NoMore(c2s, k) => NoMore(t, k)
  BY <1>1, <1>2, ShorterFinishes DEF BlameInv, Closed
<1>4. Closed'
  BY <1>1, <1>2, <1>3 DEF BlameInv, Closed, Finishes, NoMore
<1> QED BY <1>4, WireKeepsBlame

\* The caller sends a fragment only as long as the request is not finished.
LEMMA CallerKeepsBlame ==
  ASSUME CallInv, LegalInv, BlameInv, CallerStep, UNCHANGED serverVars
  PROVE  BlameInv'
<1>1. ClientTypes /\ c2s \in Seq(Packets) /\ ex' = ex
  BY DEF CallInv, WireTypes, serverVars
<1>2. CallerWire
  BY <1>1, CallerSteps
<1>3. CASE c2s' = c2s
  BY <1>3, QuietKeepsBlame DEF Shortens
<1>4. CASE cl.pc = "send" /\ c2s' = Append(c2s, cl.sending)
  <2>1. InCall /\ InSendmsg
    BY <1>4 DEF InCall, InSendmsg
  <2>2. PICK p \in Packets : p = cl.sending /\ p.call = cl.call
    BY <1>1, <2>1 DEF ClientTypes, ClientReps, Sendable
  <2>3. PICK k \in Calls : k = p.call
    BY <1>1, <2>1, <2>2 DEF ClientTypes, ClientReps, Calls
  <2>4. ASSUME p.type = "request"
        PROVE  ex[k].st # "RESPONSE" /\ \A i \in 1..Len(c2s) : ~Closes(c2s[i], k)
    <3>1. ~Asked(cl)
      BY <1>4, <2>2, <2>4 DEF Asked
    <3>2. ~Answering(k)
      BY <2>1, <2>2, <2>3, <3>1 DEF LegalInv
    <3> QED BY <3>2 DEF Answering
  <2>5. PICK t : t = Append(c2s, p)
    OBVIOUS
  <2>6. Finishes(t)
    BY <1>1, <2>3, <2>4, <2>5, LongerFinishes DEF BlameInv, Closed
  <2>7. ASSUME NEW j \in Calls, ex[j].st = "RESPONSE"
        PROVE  NoMore(t, j)
    <3>1. NoMore(c2s, j) /\ ~(p.type = "request" /\ p.call = j)
      BY <2>3, <2>4, <2>7 DEF BlameInv, Closed
    <3>2. \A i \in 1..Len(t) : t[i] = p \/ (i \in 1..Len(c2s) /\ t[i] = c2s[i])
      BY <1>1, <2>5, AppendPackets
    <3> QED BY <3>1, <3>2 DEF NoMore
  <2>8. c2s' = t
    BY <1>4, <2>2, <2>5
  <2>9. Closed'
    BY <1>1, <2>6, <2>7, <2>8 DEF Closed, Finishes, NoMore
  <2> QED BY <2>9, WireKeepsBlame
<1> QED BY <1>2, <1>3, <1>4 DEF CallerWire

\* It holds at first: there is no call and nothing on the wire.
LEMMA BlameInvInit == Init => BlameInv
<1> SUFFICES ASSUME Init PROVE BlameInv
  OBVIOUS
<1>1. c2s = <<>> /\ ex = [k \in Calls |-> NoRep] /\ sv.fatal = "none" /\ sv.msgs = <<>>
  BY DEF Init, WireInit, ServerInit
<1>2. \A k \in Calls : /\ ex[k].pc = "none" /\ ex[k].st = "INIT"
                       /\ ex[k].assoc = FALSE /\ ex[k].gotlast = FALSE
  BY <1>1 DEF NoRep
<1>3. \A k \in Calls : Sound(ex[k])
  BY <1>2 DEF Sound, Working
<1>4. Closed
  BY <1>1, <1>2 DEF Closed, Finishes
<1>5. Apart /\ IllegalOnlyAfterCompletion
  BY <1>1, <1>2 DEF Apart, IllegalOnlyAfterCompletion, Running
<1> QED BY <1>3, <1>4, <1>5 DEF BlameInv

\* Every step keeps it.
LEMMA BlameInvNext == CallInv /\ LegalInv /\ BlameInv /\ [Next]_vars => BlameInv'
<1> SUFFICES ASSUME CallInv, LegalInv, BlameInv, [Next]_vars PROVE BlameInv'
  OBVIOUS
<1>1. CASE ClientStep /\ UNCHANGED serverVars
  <2>1. CASE CallerStep
    BY <1>1, <2>1, CallerKeepsBlame
  <2>2. CASE ~CallerStep
    <3>1. c2s' = c2s
      BY <1>1, <2>2 DEF ClientStep, ClientReceiver, CallStart, ClientReceives, ClientDisconnects,
         PostCancel, TimerFires, CancelTimer, wireVars
    <3> QED BY <1>1, <3>1, QuietKeepsBlame DEF Shortens
  <2> QED BY <2>1, <2>2
<1>2. CASE ServerStep /\ UNCHANGED clientVars
  BY <1>2, ServerKeepsBlame
<1>3. CASE Break
  BY <1>3, QuietKeepsBlame DEF Break, Shortens
<1>4. CASE UNCHANGED vars
  BY <1>4, QuietKeepsBlame DEF vars, wireVars, Shortens
<1> QED BY <1>1, <1>2, <1>3, <1>4 DEF Next

\* A server aborts (rpc__cn_call_sm_protocol_error, cnsclsm.c; call_r->assoc in
\* rpc__cn_call_executor) only over a call that had been completed, by a fault or as
\* an orphan, before its executor was done with it, or when the calls overlap on the
\* association and an executor answers with what belongs to another: no fragment
\* after the last, no alert and no fault is illegal in a call that goes its way, for
\* every number of calls, of fragments and of cancels.
THEOREM IllegalOnlyAfterCompletionHolds == Spec => []IllegalOnlyAfterCompletion
<1>1. Init => CallInv /\ LegalInv /\ Ahead /\ BlameInv
  BY CallInvInit, LegalInvInit, BlameInvInit
<1>2. CallInv /\ LegalInv /\ Ahead /\ BlameInv /\ [Next]_vars => (CallInv /\ LegalInv /\ Ahead /\ BlameInv)'
  BY CallInvNext, LegalInvNext, BlameInvNext
<1>3. BlameInv => IllegalOnlyAfterCompletion
  BY DEF BlameInv
<1> QED BY <1>1, <1>2, <1>3, PTL DEF Spec
=============================================================================

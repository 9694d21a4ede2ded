------------------------------- MODULE DgSender -------------------------------
(***************************************************************************)
(* The sending end of a fragmented transfer: the transmit queue (dgxq.c),  *)
(* blasts and the retransmission timer (dgcall.c), the thread that fills   *)
(* the queue (rpc__dg_call_transmit_int), the processing of facks          *)
(* (dglsn.c), nocalls and pings.                                           *)
(*                                                                         *)
(* Everything holds the call's lock.  The thread gives it up between two   *)
(* calls of its stub and in rpc__dg_call_wait, whose waits end when a      *)
(* blast is ready (RPC_DG_START_XMIT).                                     *)
(***************************************************************************)
EXTENDS DgFrags

CONSTANTS
  InitialWindow,     \* RPC_C_DG_INITIAL_WINDOW_SIZE
  InitialMaxBlast,   \* RPC_C_DG_INITIAL_MAX_BLAST_SIZE
  MaxBlast,          \* RPC_C_DG_MAX_BLAST_SIZE
  Reservations,      \* packets the call may have reserved: subset of {1, 2}
  MaxTries           \* retransmissions or pings until the peer is taken for dead

ASSUME SenderAssumption ==
  /\ InitialWindow \in Nat \ {0} /\ InitialMaxBlast \in Nat \ {0}
  /\ MaxBlast \in Nat \ {0, 1} /\ InitialMaxBlast <= MaxBlast
  /\ (MaxBlast - InitialMaxBlast) % 2 = 0
  /\ Reservations \subseteq {1, 2} /\ MaxTries \in Nat \ {0}

VARIABLES
  xq,    \* the transmit queue
  snd    \* the sending thread, and a client's pings

senderVars == <<xq, snd>>

AllFrags == 0..(Max(Lengths) - 1)

\* q: the fragments on the queue; unsent: first_unsent, next if it is NULL; re:
\* rexmitq; cw: those with in_cwindow; quiet: those with PF_NO_FACK in their flags;
\* sent: their serial_num; tries: retransmissions since awaiting_ack was set.
SenderInit ==
  /\ \E n \in Reservations :
     xq = [q |-> {}, unsent |-> 0, next |-> 0, re |-> {}, cw |-> {}, quiet |-> {},
           sent |-> [f \in AllFrags |-> 0], ser |-> 0, cwindow |-> 0, freqs |-> 0,
           window |-> InitialWindow, blast |-> 0, maxb |-> InitialMaxBlast,
           push |-> FALSE, frag |-> FALSE, awaiting |-> FALSE, tries |-> 0, resvs |-> n]
  /\ snd = [pc |-> "fill", part |-> FALSE, pinging |-> FALSE, pings |-> 0]

Ended == snd.pc \in {"done", "failed"}

-----------------------------------------------------------------------------
(* rpc__dg_call_xmit *)

\* window_size_to_freqs_out
FreqsTotal(w) ==
  IF w > 16 THEN w \div 4
  ELSE Cardinality({b \in {1, 2, 5, 10} : b <= w})

Resendable(x) == x.re \cup x.unsent..(x.next - 1)

\* Retransmissions go first, then what was never sent.
Place(x, f) ==
  IF f \in x.re THEN Cardinality({g \in x.re : g <= f})
  ELSE Cardinality(x.re) + f - x.unsent + 1

BlastFrags(x) == {f \in Resendable(x) : Place(x, f) <= x.blast}

\* The blast asks for a fack at its end and, if few are outstanding, half-way.
Asks(x, f) ==
  \/ ~x.frag
  \/ Place(x, f) = x.blast
  \/ FreqsTotal(x.window) - x.freqs > 1 /\ Place(x, f) = x.blast \div 2

\* rpc__dg_xmitq_elt_xmit marks the tail of a pushed queue, whatever it is.
EndsMessage(x, f) == x.push /\ x.frag /\ f = Max(x.q)

BlastPackets(x) ==
  [i \in 1..Cardinality(BlastFrags(x)) |->
     LET f == CHOOSE g \in BlastFrags(x) : Place(x, g) = i
     IN  Data(f, x.ser + i - 1, x.frag, EndsMessage(x, f), Asks(x, f) /\ ~EndsMessage(x, f))]

Xmit(x) ==
  LET b == BlastFrags(x)
      asked == {f \in b : Asks(x, f)}
  IN  [x EXCEPT
        !.sent = [f \in AllFrags |-> IF f \in b THEN x.ser + Place(x, f) - 1 ELSE @[f]],
        !.ser = @ + Cardinality(b),
        !.cw = @ \cup b, !.cwindow = @ + Cardinality(b),
        !.quiet = (@ \cup b) \ asked, !.freqs = @ + Cardinality(asked),
        !.unsent = @ + Cardinality(b \ x.re), !.re = {}, !.blast = 0,
        !.awaiting = @ \/ \E f \in b : Asks(x, f) \/ EndsMessage(x, f)]

-----------------------------------------------------------------------------
(* Changes of the transmit queue *)

\* Mutant: fragments that leave the window keep their fack requests.
LeaveWindowKeeps(x, S) ==
  [x EXCEPT !.cw = @ \ S, !.cwindow = @ - Cardinality(S \cap x.cw)]

\* Fragments leave the congestion window.
LeaveWindow(x, S) ==
  [x EXCEPT !.cw = @ \ S, !.cwindow = @ - Cardinality(S \cap x.cw),
            !.freqs = @ - Cardinality((S \cap x.cw) \ x.quiet)]

\* They leave the queue.
Free(x, S) ==
  [x EXCEPT !.q = @ \ S, !.cw = @ \ S, !.quiet = @ \ S,
            !.sent = [f \in AllFrags |-> IF f \in S THEN 0 ELSE @[f]]]

\* rpc__dg_xmitq_free
FreeAll(x) ==
  [Free(x, x.q) EXCEPT !.re = {}, !.unsent = x.next, !.blast = 0,
                       !.awaiting = FALSE, !.tries = 0]

\* rpc__dg_xmitq_append_pp
AppendFrag(x) ==
  [x EXCEPT !.q = @ \cup {x.next}, !.next = @ + 1, !.frag = @ \/ ~x.push]

\* rpc__dg_xmitq_restart
Restart(x) ==
  LET old == {f \in x.q : f < x.unsent}
      n == IF old = {} /\ x.unsent < x.next THEN 1 ELSE Cardinality(old)
  IN  IF x.blast > 0 THEN x
      ELSE [LeaveWindow(x, old) EXCEPT !.re = IF old = {} THEN @ ELSE old, !.blast = Min({n, 2})]

\* Mutant: a fack confirms what it says is next.
AckedTooMany(x, p) == {f \in x.q : f < x.unsent /\ (f <= p.next \/ f \in p.mask)}

\* rpc__dg_fack_common and do_selective_ack: what lies behind the fragment that
\* caused the fack (or may lie behind it) and was not received is sent again.
Acked(x, p) == {f \in x.q : f < x.unsent /\ (f < p.next \/ f \in p.mask)}
Missing(x, p) ==
  {f \in x.q \ Acked(x, p) :
     f < x.unsent /\ IF \E g \in p.mask : f < g THEN x.sent[f] < p.ser ELSE x.sent[f] <= p.ser}

\* Size of the next blast; incr is how many fragments of the blast that caused
\* the fack have arrived (TRACK_CURRENT_BLAST).
NextBlast(x, p, cwindow, ready, incr) ==
  LET b == Max({Min({x.blast + 2 * incr, x.maxb}), 2})
      room == IF cwindow + b > p.win THEN Max({p.win - cwindow, 0}) ELSE b
  IN  Min({ready, room})

FackCommon(x, p, incr, maxb) ==
  LET acked == Acked(x, p)
      lost == Missing(x, p)
      y == Free(LeaveWindow(x, acked \cup lost), acked)
  IN  [y EXCEPT !.re = lost, !.window = p.win, !.maxb = maxb,
                !.awaiting = FALSE, !.tries = 0,
                !.blast = NextBlast(x, p, y.cwindow, Cardinality(lost) + x.next - x.unsent, incr)]

\* xq_timer, its throttle and high_cwindow decide when the limit is raised.
MaxBlasts(x, p) ==
  IF Missing(x, p) # {}
  THEN {IF x.maxb > InitialMaxBlast THEN x.maxb - 2 ELSE x.maxb}
  ELSE {x.maxb, Min({x.maxb + 2, MaxBlast})}

-----------------------------------------------------------------------------
(* The sending thread *)

\* The server's thread is gone once it has pushed everything; the client's stays
\* and waits for the response.
ThreadWaits == snd.pc = "push" \/ (snd.pc = "sent" /\ role = "client")

\* The transmit queue holds as much unsent data as the next blasts may take.
NoRoom == xq.unsent < xq.next /\ xq.unsent + xq.maxb <= xq.next

WaitsForRoom == snd.pc = "fill" /\ ~snd.part /\ NoRoom

\* The queue becomes x, and a blast goes out if one is ready.
Transmit(x) ==
  /\ xq' = IF x.blast > 0 THEN Xmit(x) ELSE x
  /\ Sends("there", BlastPackets(x))

StartFrag ==
  /\ snd.pc = "fill" /\ ~snd.part /\ ~NoRoom
  /\ snd' = [snd EXCEPT !.part = TRUE]
  /\ UNCHANGED <<xq, fragVars>>

\* A full fragment that is not the last one.  If no fack is outstanding the
\* sender does not wait for one: this replaces a blast that was ready.
AppendFull ==
  LET x == AppendFrag(xq)
      n == IF x.resvs < 2 THEN 1 ELSE IF Cardinality(x.q) > 1 THEN 2 ELSE 0
  IN  /\ snd.pc = "fill" /\ snd.part /\ xq.next < len - 1
      /\ snd' = [snd EXCEPT !.part = FALSE]
      /\ IF x.freqs = 0 /\ n > 0
         THEN Transmit([x EXCEPT !.blast = n])
         ELSE xq' = x /\ UNCHANGED fragVars

\* rpc__dg_call_xmitq_push, up to its first wait.
Push ==
  LET n == IF xq.q = {} THEN 1 ELSE IF xq.freqs = 0 THEN 2 ELSE xq.blast
  IN  /\ snd.pc = "fill" /\ snd.part /\ xq.next = len - 1
      /\ Transmit(AppendFrag([xq EXCEPT !.blast = n, !.push = TRUE]))
      /\ snd' = [snd EXCEPT !.pc = IF xq'.unsent = xq'.next THEN "sent" ELSE "push",
                            !.part = FALSE]

\* rpc__dg_call_wait returns to send a blast.
Wake ==
  /\ xq.blast > 0 /\ (WaitsForRoom \/ ThreadWaits)
  /\ Transmit(xq)
  /\ snd' = [snd EXCEPT !.pc = IF @ = "push" /\ xq'.unsent = xq'.next THEN "sent" ELSE @]

SenderThread == StartFrag \/ AppendFull \/ Push \/ Wake

SenderBusy ==
  \/ snd.pc = "fill" /\ ~WaitsForRoom
  \/ xq.blast > 0 /\ (WaitsForRoom \/ ThreadWaits)

-----------------------------------------------------------------------------
(* Timers *)

\* The peer is taken for dead (rpc__dg_call_signal_failure).
Fails == snd' = [snd EXCEPT !.pc = "failed"] /\ xq' = FreeAll(xq) /\ UNCHANGED <<net, role, len>>

\* RPC_DG_START_XMIT: without a thread, the handler transmits.
Restarted(x) == IF snd.pc = "sent" /\ role = "server" /\ x.blast > 0 THEN Xmit(x) ELSE x
RestartPackets(x) == IF snd.pc = "sent" /\ role = "server" THEN BlastPackets(x) ELSE <<>>

Unanswered == xq.awaiting /\ xq.tries >= MaxTries

\* rpc__dg_call_xmitq_timer sends the head of the queue again.
Oldest(x) ==
  LET h == {Min(x.q)} \ (x.unsent..x.next)
  IN  [LeaveWindow(x, {Min(x.q)}) EXCEPT
         !.re = IF h = {} THEN @ ELSE h, !.blast = 1, !.tries = @ + 1]

XmitqTimer(cost) ==
  /\ snd.pc \in {"fill", "push"} \/ (snd.pc = "sent" /\ role = "server")
  /\ xq.q # {}
  /\ Fault(cost)
  /\ IF Unanswered
     THEN Fails
     ELSE /\ xq' = Restarted(Oldest(xq))
          /\ net' = [net EXCEPT !.there = @ \o RestartPackets(Oldest(xq))]
          /\ UNCHANGED <<snd, role, len>>

\* recv_state_timer and xmit_ping: a ping has the serial number the next
\* data packet will have.
PingTimer(cost) ==
  /\ snd.pc = "sent" /\ role = "client"
  /\ Fault(cost)
  /\ IF IF snd.pinging THEN snd.pings >= MaxTries ELSE Unanswered
     THEN Fails
     ELSE /\ snd' = [snd EXCEPT !.pinging = TRUE, !.pings = IF snd.pinging THEN @ + 1 ELSE 1]
          /\ xq' = [xq EXCEPT !.ser = @ + 1]
          /\ net' = [net EXCEPT !.there = Append(@, Ping(xq.ser + 1))]
          /\ UNCHANGED <<role, len>>

SenderTimer(cost) == XmitqTimer(cost) \/ PingTimer(cost)

-----------------------------------------------------------------------------
(* Packets *)

Answers(p, out) == Takes("back", p, out, 0)

StopsPinging == snd' = [snd EXCEPT !.pinging = FALSE, !.pings = 0]

\* rpc__dg_fack_common
Facked(p) ==
  \E incr \in 0..Cardinality(Acked(xq, p)), maxb \in MaxBlasts(xq, p) :
    LET x == FackCommon(xq, p, incr, maxb)
    IN  Answers(p, RestartPackets(x)) /\ xq' = Restarted(x)

GotFack(p) == p.type = "fack" /\ UNCHANGED snd /\ Facked(p)

\* Mutant: a nocall counts only while the request is being sent.
AcceptsNocallEarly == role = "client" /\ snd.pc = "push" /\ xq.q # {}

\* rpc__dg_do_nocall: an answer to a ping, with or without a fack's body.
AcceptsNocall == role = "client" /\ snd.pc = "sent" /\ xq.q # {}

GotNocall(p) ==
  /\ AcceptsNocall
  /\ \/ p.type = "nocall" /\ Facked(p)
     \/ p.type = "empty nocall" /\ xq' = Restart(xq) /\ Answers(p, <<>>)
  /\ StopsPinging

\* rpc__dg_do_working
AcceptsWorking == role = "client" /\ snd.pc = "sent"

GotWorking(p) ==
  /\ p.type = "working" /\ AcceptsWorking
  /\ xq' = FreeAll(xq) /\ StopsPinging /\ Answers(p, <<>>)

\* rpc__dg_do_response, rpc__dg_do_ack
GotOver(p) ==
  /\ p.type = "over" /\ snd.pc = "sent"
  /\ xq' = FreeAll(xq) /\ snd' = [snd EXCEPT !.pc = "done"] /\ Answers(p, <<>>)

\* ping_common, in the states in which the server sends
GotPing(p) ==
  /\ p.type = "ping"
  /\ Answers(p, RestartPackets(Restart(xq))) /\ xq' = Restarted(Restart(xq))
  /\ UNCHANGED snd

Ignores(p) ==
  \/ p.type \in {"nocall", "empty nocall"} /\ ~AcceptsNocall
  \/ p.type = "working" /\ ~AcceptsWorking
  \/ p.type = "over" /\ snd.pc # "sent"
  \/ p.type = "ping" /\ (role = "client" \/ xq.q = {})
  \/ Ended

SenderGets(p) ==
  IF Ignores(p)
  THEN Answers(p, <<>>) /\ UNCHANGED senderVars
  ELSE GotFack(p) \/ GotNocall(p) \/ GotWorking(p) \/ GotOver(p) \/ GotPing(p)
=============================================================================

------------------------------ MODULE DgReceiver ------------------------------
(***************************************************************************)
(* The receiving end of a fragmented transfer: the receive queue and the   *)
(* facks (rpc__dg_call_recvq_insert, rpc__dg_call_xmit_fack), the thread   *)
(* that consumes the fragments in order (rpc__dg_call_receive_int), and,   *)
(* for a request, the executor that has to get a packet reservation before *)
(* it may (rpc__dg_execute_call).                                          *)
(*                                                                         *)
(* The state of the packet pool (dgpkt.c) is read wherever a window is     *)
(* advertised or a fragment is queued; a shortage counts as a fault.       *)
(***************************************************************************)
EXTENDS DgFrags

CONSTANTS
  RecvWindow,   \* window_size of the receive queue, in fragments
  MaxQueue,     \* max_queue_len
  WakeQueue,    \* fragments in order that wake the thread (wake_thread_qsize)
  Pools,        \* states of the packet pool: "plenty", "low", "rationing"
  MaxPings      \* pings until a server is taken for dead

ASSUME ReceiverAssumption ==
  /\ RecvWindow \in Nat \ {0} /\ MaxQueue \in Nat \ {0}
  /\ Pools \subseteq {"plenty", "low", "rationing"} /\ "plenty" \in Pools
  /\ WakeQueue \in 1..MaxQueue /\ MaxPings \in Nat \ {0}

VARIABLES
  rq,    \* the receive queue
  rcv    \* the call that receives, and its thread

receiverVars == <<rq, rcv>>

\* q: the queued fragments; lasts: those with PF_LAST_FRAG; ser: their serial
\* numbers; next: next_fragnum; high: high_serial_num; recving: recving_frags;
\* all: all_pkts_recvd.  got counts the consumed ones.  A client has its
\* reservation from the start, and never validates the call (is_way_validated).
ReceiverInit ==
  /\ rq = [q |-> {}, lasts |-> {}, ser |-> [f \in 0..(Max(Lengths) - 1) |-> 0],
           next |-> 0, high |-> 0, recving |-> FALSE, all |-> FALSE]
  /\ rcv = [pc |-> IF role = "client" THEN "none" ELSE "recv",
            resv |-> role = "server", exec |-> role = "server",
            valid |-> FALSE, asleep |-> FALSE, got |-> 0, pings |-> 0]

Shortage(pool) == IF pool = "plenty" THEN 0 ELSE 1

InOrder(r) == {f \in r.q : f < r.next}

\* body.window_size, in the fragments the sender makes of it: what is converted
\* to kilobytes and back may come out one short.
Windows(r, resv, pool) ==
  LET free == Min({RecvWindow, MaxQueue - Cardinality(r.q)})
  IN  IF ~resv THEN {0}
      ELSE IF pool = "rationing" THEN {1}
      ELSE IF pool = "low" THEN {2}
      ELSE {free} \cup (IF free > 2 THEN {free - 1} ELSE {})

\* rpc__dg_call_xmit_fack
Facks(type, ser, r, resv, pool) ==
  {Fack(type, ser, r.next, w, {f \in r.q : f > r.next}) : w \in Windows(r, resv, pool)}

-----------------------------------------------------------------------------
(* rpc__dg_call_recvq_insert *)

MayQueueNext(f, pool) ==
  /\ Cardinality(rq.q) < MaxQueue
  /\ pool = "rationing" => InOrder(rq) = {} /\ (rcv.valid \/ f = 0)

MayQueueLater(f, pool) ==
  /\ pool # "rationing" /\ f \notin rq.q
  /\ f < rq.next + MaxQueue
  /\ InOrder(rq) # {} => f < Min(rq.q) + MaxQueue

Queues(f, resv, pool) ==
  /\ resv
  /\ \/ f = rq.next /\ MayQueueNext(f, pool)
     \/ f > rq.next /\ MayQueueLater(f, pool)

NextAfter(q, n) == Min({f \in n..(n + MaxQueue) : f \notin q})

Insert(p, resv, pool) ==
  LET r == [rq EXCEPT !.recving = @ \/ p.frag, !.high = Max({@, p.ser})]
      q == r.q \cup {p.f}
      lasts == r.lasts \cup (IF p.last THEN {p.f} ELSE {})
      next == NextAfter(q, r.next)
      complete == /\ \E f \in q : f < next
                  /\ ~r.recving \/ next - 1 \in lasts
  IN  IF Queues(p.f, resv, pool)
      THEN [r EXCEPT !.q = q, !.lasts = lasts, !.ser[p.f] = p.ser,
                     !.next = next, !.all = @ \/ complete]
      ELSE r

Handles(p, out, n) == Takes("there", p, out, n)

AsksForFack(r, p) ==
  r.recving /\ ~r.all /\ (Cardinality(r.q) = MaxQueue \/ p.ask)

\* Mutant: the end of a message does not wake the thread.
WakesIfMany(r, pool) ==
  \/ Cardinality(r.q) = MaxQueue
  \/ Cardinality(InOrder(r)) >= WakeQueue
  \/ pool = "rationing" /\ InOrder(r) # {}

Wakes(r, pool) ==
  \/ r.all \/ Cardinality(r.q) = MaxQueue
  \/ Cardinality(InOrder(r)) >= WakeQueue
  \/ pool = "rationing" /\ InOrder(r) # {}

Inserts(p, call, pool, cost) ==
  LET r == Insert(p, call.resv, pool)
  IN  /\ IF AsksForFack(r, p)
         THEN \E a \in Facks("fack", p.ser, r, call.resv, pool) : Handles(p, <<a>>, cost)
         ELSE Handles(p, <<>>, cost)
      /\ rq' = r
      /\ rcv' = [call EXCEPT !.asleep = @ /\ ~Wakes(r, pool), !.pings = 0]

\* rpc__dg_do_request: the first fragment to arrive sets up the call.  Without a
\* reservation, its executor has to wait for one.
GotRequest(p) ==
  /\ p.type = "data" /\ role = "client"
  /\ \E pool \in Pools :
       \/ rcv.pc = "recv" /\ Inserts(p, rcv, pool, Shortage(pool))
       \/ rcv.pc = "none" /\ \E resv \in BOOLEAN :
            Inserts(p, [rcv EXCEPT !.pc = "recv", !.resv = resv], pool,
                    IF resv THEN Shortage(pool) ELSE 1)

\* rpc__dg_do_response, rpc__dg_do_common_response: whatever follows a complete
\* response is dropped.
GotResponse(p) ==
  /\ p.type = "data" /\ role = "server" /\ rcv.pc = "recv"
  /\ IF rq.all
     THEN Handles(p, <<>>, 0) /\ UNCHANGED receiverVars
     ELSE \E pool \in Pools : Inserts(p, rcv, pool, Shortage(pool))

\* The call is over.  A duplicate request has the response sent again; a client
\* acknowledges again only what was not a part of the response, or its last.
GotDataLate(p) ==
  /\ p.type = "data" /\ rcv.pc = "over"
  /\ Handles(p, IF role = "client" \/ p.last \/ ~p.frag THEN <<Over>> ELSE <<>>, 0)
  /\ UNCHANGED receiverVars

\* rpc__dg_do_ping
GotPingOfSender(p) ==
  /\ p.type = "ping" /\ role = "client"
  /\ \/ rcv.pc = "none" /\ Handles(p, <<EmptyNocall>>, 0)
     \/ rcv.pc = "over" /\ Handles(p, <<Over>>, 0)
     \/ rcv.pc = "recv" /\ rq.all /\ Handles(p, <<Working>>, 0)
     \/ /\ rcv.pc = "recv" /\ ~rq.all
        /\ \E pool \in Pools : \E a \in Facks("nocall", p.ser, rq, rcv.resv, pool) :
             Handles(p, <<a>>, Shortage(pool))
  /\ UNCHANGED receiverVars

ReceiverGets(p) == GotRequest(p) \/ GotResponse(p) \/ GotDataLate(p) \/ GotPingOfSender(p)

-----------------------------------------------------------------------------
(* The thread *)

\* rpc__dg_execute_call
StartExecutor ==
  /\ rcv.pc = "recv" /\ ~rcv.exec
  /\ rcv' = [rcv EXCEPT !.exec = TRUE, !.resv = TRUE]
  /\ IF rcv.resv
     THEN UNCHANGED fragVars
     ELSE \E a \in Facks(IF rq.recving THEN "fack" ELSE "nocall", rq.high, rq, TRUE, "plenty") :
            Sends("back", <<a>>)
  /\ UNCHANGED rq

\* rpc__dg_call_receive_int
Sleep ==
  /\ rcv.pc = "recv" /\ rcv.exec /\ ~rcv.asleep
  /\ InOrder(rq) = {} /\ ~rq.all
  /\ rcv' = [rcv EXCEPT !.asleep = TRUE]
  /\ UNCHANGED <<rq, fragVars>>

Receive ==
  LET f == Min(rq.q)
      r == [rq EXCEPT !.q = @ \ {f}, !.lasts = @ \ {f}, !.ser[f] = 0]
  IN  /\ rcv.pc = "recv" /\ rcv.exec /\ ~rcv.asleep
      /\ InOrder(rq) # {}
      /\ rq' = r
      /\ rcv' = [rcv EXCEPT !.got = @ + 1, !.valid = role = "client"]
      /\ IF Cardinality(rq.q) = MaxQueue
         THEN \E pool \in Pools : \E a \in Facks("fack", rq.ser[f], r, TRUE, pool) :
                net' = [net EXCEPT !.back = Append(@, a)] /\ Fault(Shortage(pool)) /\ UNCHANGED <<role, len>>
         ELSE UNCHANGED fragVars

\* The manager has returned and the response begins, or the client acknowledges.
Reply ==
  /\ rcv.pc = "recv" /\ rcv.exec /\ rq.all /\ rq.q = {}
  /\ rcv' = [rcv EXCEPT !.pc = "over", !.asleep = FALSE]
  /\ Sends("back", <<Over>>)
  /\ UNCHANGED rq

ReceiverThread == StartExecutor \/ Sleep \/ Receive \/ Reply

ReceiverBusy ==
  /\ rcv.pc = "recv"
  /\ ~rcv.exec \/ ~rcv.asleep

\* recv_state_timer of a client that receives
ReceiverTimer(cost) ==
  /\ rcv.pc = "recv" /\ role = "server" /\ ~rq.all
  /\ Fault(cost) /\ UNCHANGED <<role, len, rq>>
  /\ IF rcv.pings >= MaxPings
     THEN rcv' = [rcv EXCEPT !.pc = "failed"] /\ UNCHANGED net
     ELSE /\ net' = [net EXCEPT !.back = Append(@, Ping(rcv.pings))]
          /\ rcv' = [rcv EXCEPT !.pings = @ + 1]
=============================================================================

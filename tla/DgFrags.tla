-------------------------------- MODULE DgFrags --------------------------------
(***************************************************************************)
(* What the two ends of a fragmented transfer share (ncklib/transport/dg): *)
(* the message, which of the two processes sends it, and the network.  A   *)
(* request goes from the client to the server, a response the other way.   *)
(*                                                                         *)
(* A fragment is its number.  Packets are queued `there', to the receiver, *)
(* and `back', to the sender.  Faults are counted together: a packet is    *)
(* lost, overtakes those before it, or is delivered twice; a timer fires   *)
(* before the peer had the time to answer; the packet pool runs short.     *)
(***************************************************************************)
EXTENDS Integers, SequencesExt

CONSTANTS
  Roles,       \* which ends may send: subset of {"client", "server"}
  Lengths,     \* how many fragments a message may have
  MaxFaults    \* bound: faults

ASSUME FragAssumption ==
  /\ Roles \subseteq {"client", "server"} /\ Lengths \subseteq Nat \ {0}
  /\ IsFiniteSet(Lengths)
  /\ MaxFaults \in Nat

VARIABLES
  role,    \* the end that sends
  len,     \* length of the message in fragments
  net,     \* packets under way: net.there and net.back
  faults   \* faults so far

fragVars == <<role, len, net, faults>>

\* A transmitted fragment: frag, last and ask are PF_FRAG, PF_LAST_FRAG and not
\* PF_NO_FACK.  A fack, or a nocall with a body: next is one more than the
\* header's fragnum, win and mask the window and the selective acknowledgements.
Packet(type) == [type |-> type, f |-> 0, ser |-> 0, frag |-> FALSE, last |-> FALSE,
                 ask |-> FALSE, next |-> 0, win |-> 0, mask |-> {}]
Data(f, ser, frag, last, ask) ==
  [Packet("data") EXCEPT !.f = f, !.ser = ser, !.frag = frag, !.last = last, !.ask = ask]
Fack(type, ser, next, win, mask) ==
  [Packet(type) EXCEPT !.ser = ser, !.next = next, !.win = win, !.mask = mask]
Ping(ser) == [Packet("ping") EXCEPT !.ser = ser]
EmptyNocall == Packet("empty nocall")
Working == Packet("working")
\* What tells the sender that everything arrived: the first response packet to
\* a request, the ack to a response.
Over == Packet("over")

Silence == [there |-> <<>>, back |-> <<>>]

FragInit ==
  /\ role \in Roles /\ len \in Lengths
  /\ net = Silence /\ faults = 0

Fault(n) == faults' = faults + n /\ faults' <= MaxFaults

Arriving(way) == ToSet(net[way])

Opposite == [there |-> "back", back |-> "there"]

\* Packet p arrives, and the sequence `out' is sent in the opposite direction;
\* n other faults happen.  A second copy of p may come last.
Takes(way, p, out, n) ==
  \E i \in 1..Len(net[way]), twice \in BOOLEAN :
    /\ net[way][i] = p
    /\ Fault(n + Cardinality({x \in 1..2 : IF x = 1 THEN i > 1 ELSE twice}))
    /\ net' = [net EXCEPT ![way] = RemoveAt(@, i) \o (IF twice THEN <<p>> ELSE <<>>),
                         ![Opposite[way]] = @ \o out]
    /\ UNCHANGED <<role, len>>

Sends(way, out) ==
  net' = [net EXCEPT ![way] = @ \o out] /\ UNCHANGED <<role, len, faults>>

Loses(way) ==
  /\ \E i \in 1..Len(net[way]) : net' = [net EXCEPT ![way] = RemoveAt(@, i)]
  /\ Fault(1) /\ UNCHANGED <<role, len>>
=============================================================================

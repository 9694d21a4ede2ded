------------------------------ MODULE DgPackets ------------------------------
(***************************************************************************)
(* What the client and the server halves of the datagram protocol          *)
(* (ncklib/transport/dg) share: the calls of one activity, the boot times  *)
(* of the server and the network between the two.                          *)
(*                                                                         *)
(* A call is its sequence number; calls are single packets.  A packet      *)
(* keeps the header fields the handlers look at: the packet type, the      *)
(* sequence number, the server boot time (0 when the client does not know  *)
(* it), the kind of the operation (the idempotent flag and whether the     *)
(* server knows the interface) and, for a reply, what its body says.       *)
(*                                                                         *)
(* The network loses, delays, repeats and reorders: a packet that was sent *)
(* stays in `net' and may be received any number of times, or never.  A    *)
(* retransmission of the same packet is therefore no step of its own.      *)
(***************************************************************************)
EXTENDS Naturals, FiniteSets

CONSTANTS
  MaxSeq,    \* bound: calls the client makes
  MaxBoot,   \* bound: instances of the server
  Kinds      \* kinds of operations the client calls

\* "nonidem" must run at most once, "idem" may run again, "unknown" is a
\* non-idempotent call on an interface the server does not offer.
ASSUME KindAssumption == Kinds \subseteq {"nonidem", "idem", "unknown"}
ASSUME SizeAssumption == MaxSeq \in Nat \ {0} /\ MaxBoot \in Nat \ {0}

VARIABLES
  net,      \* the packets that were sent
  awaited   \* the call the client wants replies to, 0 if there is none

Seqs == 1..MaxSeq
Boots == 0..MaxBoot

Packet(type, seq, boot) ==
  [type |-> type, seq |-> seq, boot |-> boot, kind |-> "none", body |-> "none", ran |-> 0]
Request(seq, boot, kind) == [Packet("request", seq, boot) EXCEPT !.kind = kind]
Reject(seq, boot, status) == [Packet("reject", seq, boot) EXCEPT !.body = status]
\* A response carries the result of one execution, named by the call it ran.
Response(seq, boot, ran) == [Packet("response", seq, boot) EXCEPT !.ran = ran]

Received(type) == {p \in net : p.type = type}

\* Replies that mean something only while the client waits: at any other time
\* it drops them, so the network forgets them.
Brief == {"working", "nocall", "quack", "reject"}
Lasting == {p \in net : p.type \notin Brief}

Send(p) ==
  net' = IF p.type \in Brief /\ p.seq # awaited THEN net ELSE net \cup {p}
=============================================================================

----------------------------- MODULE MCDgTransfer -----------------------------
(***************************************************************************)
(* Values for TLC: both directions, a message of one fragment and one that *)
(* is longer than the receive queue, and a packet pool that may run short. *)
(***************************************************************************)
EXTENDS DgTransfer

MCRoles == {"client", "server"}
MCLengths == {1, 3}
MCReservations == {2}
MCPools == {"plenty", "rationing"}
=============================================================================

---------------------------- MODULE MCDistribute ----------------------------
(* Model checking Distribute: two processes and two addresses, so that a   *)
(* player, a forwarder and a second request for the same client meet; a1   *)
(* is the address of the client, a2 that of a peer which is none.          *)
EXTENDS Distribute

CONSTANTS a1, a2, p1, p2
MCOneClient == <<a1>>
MCThreeOffsets == <<0, 0, 1>>
MCOneRecord == <<0>>
MCProc == {p1, p2}
MCAddr == {a1, a2}
=============================================================================

------------------------------ MODULE MCServer ------------------------------
(* Model checking Server: with three processes a child of a child serves a *)
(* connection while its parents accept.                                    *)
EXTENDS Server

CONSTANTS p1, p2, p3, c1, c2, c3
MCProc == {p1, p2, p3}
MCConn == {c1, c2, c3}
=============================================================================

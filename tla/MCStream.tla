------------------------------ MODULE MCStream ------------------------------
(* Two messages, and a buffer that has room for both. *)
EXTENDS Stream
=============================================================================

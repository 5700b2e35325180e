---------------------------- MODULE MCThreadPool ----------------------------
(* Model checking ThreadPool. *)
EXTENDS ThreadPool
=============================================================================

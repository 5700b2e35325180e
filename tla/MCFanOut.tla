------------------------------ MODULE MCFanOut ------------------------------
(* Model checking FanOut: three clients, two of them at the address the    *)
(* request came from, so that a playback happens first, in the middle of   *)
(* and never at the end of the loop.                                       *)
EXTENDS FanOut

MCRequester == {1, 2}
=============================================================================

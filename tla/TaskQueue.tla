----------------------------- MODULE TaskQueue ------------------------------
(***************************************************************************)
(* What the thread pool promises of its task queue: at most Cap tasks      *)
(* wait, and each task (numbered as they are added) is handed to one       *)
(* worker, in the order of adding, until the pool is shut down.            *)
(***************************************************************************)
EXTENDS Naturals, Sequences

CONSTANT Cap

VARIABLES waiting, got, closed

vars == <<waiting, got, closed>>

Init == waiting = <<>> /\ got = 0 /\ closed = FALSE

Put == /\ ~closed
       /\ Len(waiting) < Cap
       /\ waiting' = Append(waiting, got + Len(waiting) + 1)
       /\ UNCHANGED <<got, closed>>

Take == /\ ~closed
        /\ waiting # <<>>
        /\ got' = Head(waiting)
        /\ waiting' = Tail(waiting)
        /\ UNCHANGED closed

(* What still waits is never handed out. *)
Close == closed' = TRUE /\ waiting' = <<>> /\ UNCHANGED got

Next == Put \/ Take \/ Close

Spec == Init /\ [][Next]_vars
=============================================================================

------------------------------- MODULE Stream -------------------------------
(***************************************************************************)
(* One connection of the server as the byte stream it is: what recv()      *)
(* returns to distribute_receive (util.c) need not be one message of the   *)
(* peer.  A message is two cells, its first bytes with the packet head and *)
(* the rest; a replay request has its command and times in the rest.  The  *)
(* rest of a message is taken not to begin like a packet head.             *)
(***************************************************************************)
EXTENDS Naturals, Sequences

CONSTANTS
  N,      \* messages that the peer sends
  MaxBuf  \* MAX_BUFFER_SIZE, in cells

Kinds == {"live", "start", "end", "useless"}

VARIABLES
  kind,  \* what the peer's messages are
  sent,  \* how many of them it has sent
  wire,  \* cells sent and not received
  pc,    \* "recv", "closed" or "killed"
  done   \* what was made of the buffers, in order

vars == <<kind, sent, wire, pc, done>>

Init == /\ kind \in [1..N -> Kinds]
        /\ sent = 0 /\ wire = <<>>
        /\ pc = "recv" /\ done = <<>>

Send == /\ sent < N
        /\ sent' = sent + 1
        /\ wire' = wire \o <<[of |-> sent + 1, head |-> TRUE],
                             [of |-> sent + 1, head |-> FALSE]>>
        /\ UNCHANGED <<kind, pc, done>>

(* What the first bytes of the buffer are; playback_run copies the buffer  *)
(* over a struct of zeros, so the command of a cut request is 0, which     *)
(* stops a playback.                                                       *)
Taken(buf) == LET k == kind[buf[1].of] IN
              IF ~buf[1].head THEN "useless"
              ELSE IF k \in {"start", "end"} /\ Len(buf) = 1 THEN "wrong"
              ELSE k

(* The whole buffer is copied over the struct: a buffer longer than a      *)
(* request is written past it.                                             *)
Overrun(buf) == Taken(buf) \in {"start", "end"} /\ Len(buf) > 2

(* recv() and what is done with the buffer. *)
Receive == /\ pc = "recv"
           /\ \E n \in 1..MaxBuf :
                LET buf == SubSeq(wire, 1, n) IN
                /\ n <= Len(wire)
                /\ wire' = SubSeq(wire, n + 1, Len(wire))
                /\ done' = Append(done, [as |-> Taken(buf), buf |-> buf])
                /\ \/ UNCHANGED pc
                   \/ Overrun(buf) /\ pc' = "killed"
           /\ UNCHANGED <<kind, sent>>

(* recv() returns 0 or -1. *)
HangUp == /\ pc = "recv"
          /\ pc' = "closed"
          /\ UNCHANGED <<kind, sent, wire, done>>

Next == Send \/ Receive \/ HangUp

Spec == Init /\ [][Next]_vars

-----------------------------------------------------------------------------
(* The comment at receive_buf in distribute_receive, that its size         *)
(* prevents messages from sticking together: no message is received inside *)
(* the buffer of another, where its head is not looked at (a live one is   *)
(* not recorded on its own, a request is never executed).                  *)
NoSticking == \A k \in DOMAIN done : \A j \in DOMAIN done[k].buf :
                done[k].buf[j].head => j = 1
=============================================================================

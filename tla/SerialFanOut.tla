---------------------------- MODULE SerialFanOut ----------------------------
(***************************************************************************)
(* What distribute_run (util.c) promises to its caller: the buffer just    *)
(* received is dealt with for every configured client, one client at a     *)
(* time and in the order of the configuration file, each exactly once; the *)
(* call returns when the last client has been dealt with, unless the       *)
(* process dies on the way.  No thread and no mutex appears here.          *)
(***************************************************************************)
EXTENDS Naturals

CONSTANT ClientNum      \* distributeTcpInfo[0].clientNum

VARIABLES status,       \* "idle" between two calls, "running", or "dead"
          outcome       \* what became of the buffer, per client

svars == <<status, outcome>>

Clients == 1..ClientNum

(* "none": not dealt with yet.  "sent", "failed": send() was called.       *)
(* "withheld": the client's shm file exists.  "unreachable": no socket.    *)
(* "lost": its thread could not be created.                                *)
Outcomes == {"none", "sent", "failed", "withheld", "unreachable", "lost"}

SInit == status = "idle" /\ outcome = [c \in Clients |-> "none"]

(* distribute_run is called with a new buffer. *)
Start == /\ status = "idle"
         /\ status' = "running"
         /\ outcome' = [c \in Clients |-> "none"]

(* The next client in the order of the configuration is dealt with. *)
Serve(c) == /\ status = "running"
            /\ outcome[c] = "none"
            /\ \A d \in 1..(c - 1) : outcome[d] # "none"
            /\ \E r \in Outcomes \ {"none"} :
                 outcome' = [outcome EXCEPT ![c] = r]
            /\ UNCHANGED status

(* distribute_run returns: no client was passed over. *)
Finish == /\ status = "running"
          /\ \A c \in Clients : outcome[c] # "none"
          /\ status' = "idle"
          /\ UNCHANGED outcome

(* The process is killed in the middle of a call; a later connection is    *)
(* served by a fresh child process.                                        *)
Die == status = "running" /\ status' = "dead" /\ UNCHANGED outcome
Replace == status = "dead" /\ status' = "idle" /\ UNCHANGED outcome

SNext == \/ Start
         \/ \E c \in Clients : Serve(c)
         \/ Finish
         \/ Die
         \/ Replace

SSpec == SInit /\ [][SNext]_svars
=============================================================================

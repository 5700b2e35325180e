------------------------------- MODULE Server -------------------------------
(***************************************************************************)
(* distribute_server (util.c): the accept loop, the fork for each          *)
(* connection, and what becomes of a child when its connection ends: it    *)
(* falls back into the accept loop and accepts beside its parent.  A child *)
(* inherits every descriptor of its parent, and no process closes a        *)
(* descriptor other than the one in its own distributeTcpInfo[0].acceptfd. *)
(***************************************************************************)
EXTENDS Naturals

CONSTANTS
  Proc,   \* process slots
  First,  \* the process started by main
  Conn,   \* connections
  None,   \* no connection
  MaxFd   \* descriptors a process may have open for connections

ASSUME ServerAssumption == /\ First \in Proc
                           /\ None \notin Conn
                           /\ MaxFd \in Nat \ {0}

Fd == 1..MaxFd

VARIABLES
  pc,        \* "none", "setup", "accept", "fork" or "recv"
  fds,       \* the descriptor table of each process
  acceptfd,  \* distributeTcpInfo[0].acceptfd
  addr,      \* distributeTcpInfo[0].acceptedAddress: whose address it is
  conn       \* "new", "backlog", "accepted", or "done": read no more

vars == <<pc, fds, acceptfd, addr, conn>>

NoFds == [f \in Fd |-> None]
Free(p) == {f \in Fd : fds[p][f] = None}

Init == /\ pc = [p \in Proc |-> IF p = First THEN "setup" ELSE "none"]
        /\ fds = [p \in Proc |-> NoFds]
        /\ acceptfd = [p \in Proc |-> 1]
        /\ addr = [p \in Proc |-> None]
        /\ conn = [c \in Conn |-> "new"]

(* The process ends and the kernel closes its descriptors. *)
Gone(p) == /\ pc' = [pc EXCEPT ![p] = "none"]
           /\ fds' = [fds EXCEPT ![p] = NoFds]
           /\ acceptfd' = [acceptfd EXCEPT ![p] = 1]
           /\ addr' = [addr EXCEPT ![p] = None]

-----------------------------------------------------------------------------
(* Peers. *)
Arrive(c) == /\ conn[c] = "new"
             /\ \E p \in Proc : pc[p] # "setup" /\ pc[p] # "none"
             /\ conn' = [conn EXCEPT ![c] = "backlog"]
             /\ UNCHANGED <<pc, fds, acceptfd, addr>>

-----------------------------------------------------------------------------
(* socket, setsockopt, bind, listen: each failure ends the process. *)
Listen(p) == /\ pc[p] = "setup"
             /\ \/ /\ pc' = [pc EXCEPT ![p] = "accept"]
                   /\ UNCHANGED <<fds, acceptfd, addr>>
                \/ Gone(p)
             /\ UNCHANGED conn

(* accept() returns c under the lowest free descriptor. *)
Take(p, c) == /\ pc[p] = "accept"
              /\ conn[c] = "backlog"
              /\ conn' = [conn EXCEPT ![c] = "accepted"]
              /\ \E f \in Free(p) : /\ \A g \in Free(p) : f <= g
                                    /\ fds' = [fds EXCEPT ![p][f] = c]
                                    /\ acceptfd' = [acceptfd EXCEPT ![p] = f]
              /\ pc' = [pc EXCEPT ![p] = "fork"]

(* Faulty: acceptedAddress is set only the first time. *)
AcceptKeepsAddress(p) ==
  \E c \in Conn : /\ Take(p, c)
                  /\ addr' = [addr EXCEPT ![p] = IF @ = None THEN c ELSE @]

Accept(p) == \E c \in Conn : Take(p, c) /\ addr' = [addr EXCEPT ![p] = c]

(* accept() fails, as it must when no descriptor is free: _exit. *)
AcceptFails(p) == /\ pc[p] = "accept"
                  /\ Gone(p)
                  /\ UNCHANGED conn

(* Faulty: the parent, too, goes on to distribute_receive. *)
ForkBothReceive(p, q) == /\ pc[p] = "fork"
                         /\ pc[q] = "none"
                         /\ pc' = [pc EXCEPT ![p] = "recv", ![q] = "recv"]
                         /\ fds' = [fds EXCEPT ![q] = fds[p]]
                         /\ acceptfd' = [acceptfd EXCEPT ![q] = acceptfd[p]]
                         /\ addr' = [addr EXCEPT ![q] = addr[p]]
                         /\ UNCHANGED conn

(* fork(): the child q receives; the parent, which keeps the descriptor,   *)
(* accepts again.                                                          *)
Fork(p, q) == /\ pc[p] = "fork"
              /\ pc[q] = "none"
              /\ pc' = [pc EXCEPT ![p] = "accept", ![q] = "recv"]
              /\ fds' = [fds EXCEPT ![q] = fds[p]]
              /\ acceptfd' = [acceptfd EXCEPT ![q] = acceptfd[p]]
              /\ addr' = [addr EXCEPT ![q] = addr[p]]
              /\ UNCHANGED conn

(* fork() fails: the connection is closed and distribute_server returns to *)
(* main, which ends.                                                       *)
ForkFails(p) == /\ pc[p] = "fork"
                /\ conn' = [conn EXCEPT ![fds[p][acceptfd[p]]] = "done"]
                /\ Gone(p)

(* Faulty: the loop goes on after a failed recv(). *)
ReceiveGoesOn(p) == /\ pc[p] = "recv"
                    /\ conn' = [conn EXCEPT ![fds[p][acceptfd[p]]] = "done"]
                    /\ fds' = [fds EXCEPT ![p][acceptfd[p]] = None]
                    /\ UNCHANGED <<pc, acceptfd, addr>>

(* distribute_receive returns, at the peer's hangup or on an error: its    *)
(* descriptor is closed, and the child goes round the accept loop.         *)
ReceiveEnds(p) == /\ pc[p] = "recv"
                  /\ conn' = [conn EXCEPT ![fds[p][acceptfd[p]]] = "done"]
                  /\ fds' = [fds EXCEPT ![p][acceptfd[p]] = None]
                  /\ pc' = [pc EXCEPT ![p] = "accept"]
                  /\ UNCHANGED <<acceptfd, addr>>

(* A child is killed while it serves its connection.  Its parent still has *)
(* the descriptor, so the peer is not told.                                *)
Killed(p) == /\ pc[p] = "recv"
             /\ conn' = [conn EXCEPT ![fds[p][acceptfd[p]]] = "done"]
             /\ Gone(p)

Next == \/ \E c \in Conn : Arrive(c)
        \/ \E p \in Proc : \/ Listen(p) \/ Accept(p) \/ AcceptFails(p)
                           \/ ForkFails(p) \/ ReceiveEnds(p) \/ Killed(p)
                           \/ \E q \in Proc : Fork(p, q)

Spec == Init /\ [][Next]_vars

-----------------------------------------------------------------------------
(* A process that uses its connection (about to fork, or receiving) holds  *)
(* it under the descriptor it has noted.                                   *)
TypeOK == /\ pc \in [Proc -> {"none", "setup", "accept", "fork", "recv"}]
          /\ fds \in [Proc -> [Fd -> Conn \cup {None}]]
          /\ acceptfd \in [Proc -> Fd]
          /\ addr \in [Proc -> Conn \cup {None}]
          /\ conn \in [Conn -> {"new", "backlog", "accepted", "done"}]
          /\ \A p \in Proc : pc[p] \in {"fork", "recv"}
                               => fds[p][acceptfd[p]] \in Conn

Users(c) == {p \in Proc : /\ pc[p] \in {"fork", "recv"}
                          /\ fds[p][acceptfd[p]] = c}

(* An accepted connection has exactly one process that reads it (or is     *)
(* about to fork its reader) until it is closed, although its descriptor   *)
(* is open in many: no buffer is split between two readers, none waits for *)
(* a reader that does not exist.                                           *)
OneReader == \A c \in Conn : IF conn[c] = "accepted"
                                THEN \E p \in Proc : Users(c) = {p}
                                ELSE Users(c) = {}

(* "Every process has its own memory, distributeTcpInfo[0] is not          *)
(* overwritten": the address with which a child compares the clients' is   *)
(* that of the connection it reads, also in a child of a child.            *)
OwnAddress == \A p \in Proc : pc[p] = "recv" => addr[p] = fds[p][acceptfd[p]]
=============================================================================

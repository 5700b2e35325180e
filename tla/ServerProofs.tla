---------------------------- MODULE ServerProofs ----------------------------
(***************************************************************************)
(* What the accept loop promises, for every number of processes,           *)
(* connections and descriptors.                                            *)
(***************************************************************************)
EXTENDS Server, TLAPS

(* OwnAddress already at the fork: there a child inherits it. *)
Noted == \A p \in Proc :
           pc[p] \in {"fork", "recv"} => addr[p] = fds[p][acceptfd[p]]

(* OneReader is inductive only with the types, which say that a process    *)
(* that uses a connection has it under acceptfd.                           *)
IInv == TypeOK /\ OneReader /\ Noted

USE ServerAssumption DEF Fd, NoFds

LEMMA InitIInv == Init => IInv
<1> SUFFICES ASSUME Init PROVE TypeOK /\ OneReader /\ Noted
  BY DEF IInv
<1>1. \A p \in Proc : pc[p] \notin {"fork", "recv"}
  BY DEF Init
<1>2. TypeOK /\ Noted
  BY <1>1 DEF Init, TypeOK, Noted
<1>3. OneReader
  BY <1>1 DEF Init, OneReader, Users
<1> QED
  BY <1>2, <1>3

(* A process that ends, or closes its connection, leaves it without user.  *)
LEMMA EndStep ==
  ASSUME IInv, NEW p \in Proc, pc[p] \in {"fork", "recv"},
         conn' = [conn EXCEPT ![fds[p][acceptfd[p]]] = "done"],
         pc' \in [Proc -> {"none", "setup", "accept", "fork", "recv"}],
         pc'[p] \notin {"fork", "recv"},
         \A q \in Proc \ {p} : /\ pc'[q] = pc[q]
                               /\ fds'[q] = fds[q]
                               /\ acceptfd'[q] = acceptfd[q]
  PROVE  OneReader'
<1>1. PICK d \in Conn : d = fds[p][acceptfd[p]]
  BY DEF IInv, TypeOK
<1>2. conn[d] = "accepted" /\ Users(d) = {p} /\ conn'[d] = "done"
  BY <1>1 DEF IInv, TypeOK, OneReader, Users
<1>3. Users(d)' = {}
  BY <1>2 DEF Users
<1>4. ASSUME NEW c \in Conn, c # d
      PROVE  Users(c)' = Users(c) /\ conn'[c] = conn[c]
  <2>1. conn'[c] = conn[c]
    BY <1>1, <1>4 DEF IInv, TypeOK
  <2>2. p \notin Users(c) /\ p \notin Users(c)'
    BY <1>1, <1>4 DEF Users
  <2>3. ASSUME NEW q \in Proc, q # p PROVE q \in Users(c)' <=> q \in Users(c)
    BY <2>3 DEF Users
  <2> QED
    BY <2>1, <2>2, <2>3 DEF Users
<1> QED
  BY <1>2, <1>3, <1>4 DEF OneReader, IInv

(* The end of a process keeps the types. *)
LEMMA GoneTypes ==
  ASSUME TypeOK, NEW p \in Proc, Gone(p),
         conn' \in [Conn -> {"new", "backlog", "accepted", "done"}]
  PROVE  TypeOK'
<1>1. NoFds \in [Fd -> Conn \cup {None}] /\ 1 \in Fd
  OBVIOUS
<1>2. /\ pc' \in [Proc -> {"none", "setup", "accept", "fork", "recv"}]
      /\ fds' \in [Proc -> [Fd -> Conn \cup {None}]]
      /\ acceptfd' \in [Proc -> Fd]
      /\ addr' \in [Proc -> Conn \cup {None}]
  BY <1>1 DEF Gone, TypeOK
<1>3. \A q \in Proc : pc'[q] \in {"fork", "recv"}
                        => fds'[q][acceptfd'[q]] \in Conn
  BY DEF Gone, TypeOK
<1> QED
  BY <1>2, <1>3 DEF TypeOK

(* A step after which each process uses what it used, and the same         *)
(* connections are accepted.                                               *)
LEMMA IdleStep ==
  ASSUME OneReader,
         \A c \in Conn : conn'[c] = "accepted" <=> conn[c] = "accepted",
         \A p \in Proc : \/ /\ pc'[p] \notin {"fork", "recv"}
                            /\ pc[p] \notin {"fork", "recv"}
                         \/ /\ pc'[p] = pc[p]
                            /\ fds'[p] = fds[p]
                            /\ acceptfd'[p] = acceptfd[p]
  PROVE  OneReader'
<1>1. ASSUME NEW c \in Conn PROVE Users(c)' = Users(c)
  BY DEF Users
<1> QED
  BY <1>1 DEF OneReader

LEMMA NextIInv == IInv /\ [Next]_vars => IInv'
<1> SUFFICES ASSUME IInv, [Next]_vars PROVE IInv'
  OBVIOUS
<1>t. TypeOK /\ OneReader /\ Noted
  BY DEF IInv
<1>1. ASSUME NEW c \in Conn, Arrive(c) PROVE IInv'
  <2>1. TypeOK' /\ Noted'
    BY <1>1, <1>t DEF Arrive, TypeOK, Noted
  <2>2. OneReader'
    BY <1>1, <1>t, IdleStep DEF Arrive, TypeOK
  <2> QED
    BY <2>1, <2>2 DEF IInv
<1>2. ASSUME NEW p \in Proc, Listen(p) PROVE IInv'
  <2>1. Gone(p) => TypeOK'
    BY <1>2, <1>t, GoneTypes DEF Listen, TypeOK
  <2>2. UNCHANGED <<fds, acceptfd, addr>> => TypeOK'
    BY <1>2, <1>t DEF Listen, Gone, TypeOK
  <2>3. Noted'
    BY <1>2, <1>t DEF Listen, Gone, TypeOK, Noted
  <2>4. OneReader'
    BY <1>2, <1>t, IdleStep DEF Listen, Gone, TypeOK
  <2> QED
    BY <1>2, <2>1, <2>2, <2>3, <2>4 DEF Listen, IInv
<1>3. ASSUME NEW p \in Proc, Accept(p) PROVE IInv'
  <2>1. PICK c \in Conn : Take(p, c) /\ addr' = [addr EXCEPT ![p] = c]
    BY <1>3 DEF Accept
  <2>2. PICK f \in Free(p) : /\ fds' = [fds EXCEPT ![p][f] = c]
                             /\ acceptfd' = [acceptfd EXCEPT ![p] = f]
    BY <2>1 DEF Take
  <2>3. f \in Fd /\ pc[p] = "accept" /\ conn[c] = "backlog"
    BY <2>1, <2>2 DEF Take, Free
  <2>4. TypeOK'
    BY <1>t, <2>1, <2>2, <2>3 DEF Take, TypeOK
  <2>5. Users(c) = {} /\ Users(c)' = {p}
    BY <1>t, <2>1, <2>2, <2>3 DEF Take, TypeOK, OneReader, Users
  <2>6. ASSUME NEW e \in Conn, e # c PROVE Users(e)' = Users(e)
    BY <1>t, <2>1, <2>2, <2>3, <2>6 DEF Take, TypeOK, Users
  <2>7. \A e \in Conn : conn'[e] = IF e = c THEN "accepted" ELSE conn[e]
    BY <1>t, <2>1 DEF Take, TypeOK
  <2>8. OneReader'
    BY <1>t, <2>5, <2>6, <2>7 DEF OneReader
  <2>9. Noted'
    BY <1>t, <2>1, <2>2, <2>3 DEF Take, TypeOK, Noted
  <2> QED
    BY <2>4, <2>8, <2>9 DEF IInv
<1>4. ASSUME NEW p \in Proc, AcceptFails(p) PROVE IInv'
  <2>1. TypeOK' /\ Noted'
    BY <1>4, <1>t DEF AcceptFails, Gone, TypeOK, Noted
  <2>2. OneReader'
    BY <1>4, <1>t, IdleStep DEF AcceptFails, Gone, TypeOK
  <2> QED
    BY <2>1, <2>2 DEF IInv
<1>5. ASSUME NEW p \in Proc, NEW q \in Proc, Fork(p, q) PROVE IInv'
  <2>1. TypeOK'
    BY <1>5, <1>t DEF Fork, TypeOK
  <2>2. ASSUME NEW c \in Conn
        PROVE  Users(c)' = IF p \in Users(c) THEN (Users(c) \ {p}) \cup {q}
                                             ELSE Users(c)
    BY <1>5, <1>t DEF Fork, TypeOK, Users
  <2>3. OneReader'
    BY <1>5, <1>t, <2>2 DEF Fork, OneReader
  <2>4. Noted'
    BY <1>5, <1>t DEF Fork, TypeOK, Noted
  <2> QED
    BY <2>1, <2>3, <2>4 DEF IInv
<1>6. ASSUME NEW p \in Proc, ForkFails(p) \/ Killed(p) PROVE IInv'
  <2>1. TypeOK'
    <3>1. Gone(p) /\ pc[p] \in {"fork", "recv"}
      BY <1>6 DEF ForkFails, Killed
    <3>2. conn' \in [Conn -> {"new", "backlog", "accepted", "done"}]
      BY <1>6, <1>t DEF ForkFails, Killed, TypeOK
    <3> QED
      BY <1>t, <3>1, <3>2, GoneTypes
  <2>2. OneReader'
    <3>1. /\ pc[p] \in {"fork", "recv"}
          /\ conn' = [conn EXCEPT ![fds[p][acceptfd[p]]] = "done"]
          /\ Gone(p)
      BY <1>6 DEF ForkFails, Killed
    <3>2. pc' \in [Proc -> {"none", "setup", "accept", "fork", "recv"}]
      BY <2>1 DEF TypeOK
    <3>3. pc'[p] \notin {"fork", "recv"}
      BY <1>t, <3>1 DEF Gone, TypeOK
    <3>4. \A q \in Proc \ {p} : /\ pc'[q] = pc[q]
                                /\ fds'[q] = fds[q]
                                /\ acceptfd'[q] = acceptfd[q]
      BY <1>t, <3>1 DEF Gone, TypeOK
    <3> QED
      BY <3>1, <3>2, <3>3, <3>4, EndStep
  <2>3. Noted'
    <3>1. Gone(p)
      BY <1>6 DEF ForkFails, Killed
    <3>2. /\ pc'[p] = "none"
          /\ \A q \in Proc \ {p} : /\ pc'[q] = pc[q] /\ fds'[q] = fds[q]
                                   /\ acceptfd'[q] = acceptfd[q]
                                   /\ addr'[q] = addr[q]
      BY <1>t, <3>1 DEF Gone, TypeOK
    <3> QED
      BY <1>t, <3>2 DEF Noted
  <2> QED
    BY <2>1, <2>2, <2>3 DEF IInv
<1>7. ASSUME NEW p \in Proc, ReceiveEnds(p) PROVE IInv'
  <2>1. TypeOK'
    BY <1>7, <1>t DEF ReceiveEnds, TypeOK
  <2>2. OneReader'
    BY <1>7, <1>t, <2>1, EndStep DEF ReceiveEnds, TypeOK
  <2>3. Noted'
    BY <1>7, <1>t DEF ReceiveEnds, TypeOK, Noted
  <2> QED
    BY <2>1, <2>2, <2>3 DEF IInv
<1>8. CASE UNCHANGED vars
  <2>1. UNCHANGED <<pc, fds, acceptfd, addr, conn>>
    BY <1>8 DEF vars
  <2>2. TypeOK'
    BY <1>t, <2>1 DEF TypeOK
  <2>3. OneReader'
    BY <1>t, <2>1 DEF OneReader, Users
  <2>4. Noted'
    BY <1>t, <2>1 DEF Noted
  <2> QED
    BY <2>2, <2>3, <2>4 DEF IInv
<1> QED
  BY <1>1, <1>2, <1>3, <1>4, <1>5, <1>6, <1>7, <1>8 DEF Next

LEMMA Invariance == Spec => []IInv
BY InitIInv, NextIInv, PTL DEF Spec

(* The descriptor in acceptfd is open in every process of                  *)
(* distribute_server that is about to fork or receives.                    *)
THEOREM TypeCorrect == Spec => []TypeOK
<1>1. IInv => TypeOK
  BY DEF IInv
<1> QED
  BY <1>1, Invariance, PTL

(* Forking and falling back into the accept loop never give a connection   *)
(* two readers, and never leave an accepted one without.                   *)
THEOREM AlwaysOneReader == Spec => []OneReader
<1>1. IInv => OneReader
  BY DEF IInv
<1> QED
  BY <1>1, Invariance, PTL

(* distributeTcpInfo[0] of a receiving child is never overwritten.         *)
THEOREM AlwaysOwnAddress == Spec => []OwnAddress
<1>1. IInv => OwnAddress
  BY DEF IInv, Noted, OwnAddress
<1> QED
  BY <1>1, Invariance, PTL
=============================================================================

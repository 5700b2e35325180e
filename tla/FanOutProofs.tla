---------------------------- MODULE FanOutProofs ----------------------------
(***************************************************************************)
(* What FanOut promises, proved for every number of clients and every set  *)
(* of requesting clients, thread creation that fails included.             *)
(***************************************************************************)
EXTENDS FanOut, TLAPS

Waiting == {"start", "dispatch", "playback", "check", "send"}
Served  == {"close", "unlock", "return", "exited"}
Holding == {"dispatch", "playback", "check", "send", "close"}

(* The threads created so far are t <= i; one that is missing was lost. *)
Created == \A t \in Clients :
             /\ t > i => thread[t] = "none"
             /\ t > i /\ pc # "recv" => outcome[t] = "none"
             /\ t <= i => (thread[t] = "none" <=> outcome[t] = "lost")

(* A thread settles its own client's outcome, between send and close. *)
Settled == \A t \in Clients :
             /\ thread[t] \in Waiting => outcome[t] = "none"
             /\ thread[t] \in Served => outcome[t] # "none"

(* The hand-off: an active thread is the one clientIndex names. *)
HandOff == /\ \A t \in Clients :
                thread[t] \in Active => clientIndex = t /\ mute = "held"
           /\ pc = "create" => /\ i < ClientNum
                               /\ clientIndex = i + 1
                               /\ mute = "held"
                               /\ \A t \in Clients : thread[t] \notin Active
           /\ pc = "recv" <=> mute = "destroyed"
           /\ (mute = "held" /\ pc # "create") =>
                \E t \in Clients : thread[t] \in Active \/ outcome[t] = "lost"

(* The loops of the main thread. *)
Loops == /\ pc = "join" => i = ClientNum
         /\ pc \in {"lock", "create"} => j = 0
         /\ \A t \in Clients : t <= j => thread[t] \in {"exited", "none"}
         /\ pc = "recv" => \A t \in Clients : thread[t] \notin Active

(* A thread's socket is open, and registered, until the thread closes it. *)
Sockets == \A t \in Clients :
             /\ t \in open <=> thread[t] \in Holding
             /\ thread[t] \in Holding => acceptfd[t] = t

(* The inductive invariant.  OwnClient alone is not inductive: that Lock   *)
(* finds no active thread needs the mutex to be locked by each of them,    *)
(* and that Create adds the only one needs clientIndex = i + 1.            *)
IInv == /\ TypeOK
        /\ pc = "dead" => open = {}
        /\ pc # "dead" => Created /\ Settled /\ HandOff /\ Loops /\ Sockets

USE ClientNumAssumption, RequesterAssumption

LEMMA InitIInv == Init => IInv
BY DEF Init, IInv, TypeOK, Created, Settled, HandOff, Loops, Sockets, Clients,
       MainPc, ThreadPc, Active, Outcomes, Waiting, Served, Holding

(* Each action preserves each conjunct of the invariant. *)
LEMMA NextIInv == IInv /\ [Next]_vars => IInv'
<1> SUFFICES ASSUME IInv, [Next]_vars PROVE IInv'
  OBVIOUS
<1> USE DEF Clients, MainPc, ThreadPc, Outcomes, Active, Waiting, Served, Holding
<1>t. TypeOK
  BY DEF IInv
<1>1. ASSUME NEW k \in {"live", "replay"}, Run(k) PROVE IInv'
  <2>0. pc' # "dead" /\ open = {}
    BY <1>1 DEF Run, IInv, Loops, Sockets, TypeOK
  <2>1. TypeOK'
    BY <1>1, <1>t DEF Run, TypeOK
  <2>2. Created'
    BY <1>1 DEF Run, Created
  <2>3. Settled'
    BY <1>1 DEF Run, Settled
  <2>4. HandOff'
    BY <1>1 DEF Run, HandOff
  <2>5. Loops'
    BY <1>1 DEF Run, Loops
  <2>6. Sockets'
    BY <1>1, <2>0 DEF Run, Sockets
  <2> QED
    BY <2>0, <2>1, <2>2, <2>3, <2>4, <2>5, <2>6 DEF IInv
<1>2. CASE Lock
  <2>0. /\ pc # "dead" /\ pc' # "dead"
        /\ Created /\ Settled /\ HandOff /\ Loops /\ Sockets
    BY <1>2 DEF Lock, TakeMute, IInv
  <2>1. TypeOK'
    BY <1>2, <1>t DEF Lock, TakeMute, TypeOK
  <2>2. Created'
    BY <1>2, <2>0 DEF Lock, TakeMute, Created
  <2>3. Settled'
    BY <1>2, <2>0 DEF Lock, TakeMute, Settled
  <2>4. HandOff'
    BY <1>2, <2>0 DEF Lock, TakeMute, HandOff
  <2>5. Loops'
    BY <1>2, <2>0 DEF Lock, TakeMute, Loops
  <2>6. Sockets'
    BY <1>2, <2>0 DEF Lock, TakeMute, Sockets
  <2> QED
    BY <2>0, <2>1, <2>2, <2>3, <2>4, <2>5, <2>6 DEF IInv
<1>3. CASE Create
  <2>0. /\ pc # "dead" /\ pc' # "dead"
        /\ Created /\ Settled /\ HandOff /\ Loops /\ Sockets
    BY <1>3 DEF Create, IInv
  <2>1. TypeOK'
    BY <1>3, <1>t, <2>0 DEF Create, TypeOK, HandOff
  <2>2. Created'
    BY <1>3, <1>t, <2>0 DEF Create, TypeOK, Created
  <2>3. Settled'
    BY <1>3, <1>t, <2>0 DEF Create, TypeOK, Created, Settled
  <2>4. HandOff'
    BY <1>3, <1>t, <2>0 DEF Create, TypeOK, HandOff
  <2>5. Loops'
    BY <1>3, <2>0 DEF Create, Loops
  <2>6. Sockets'
    BY <1>3, <2>0 DEF Create, HandOff, Sockets
  <2> QED
    BY <2>0, <2>1, <2>2, <2>3, <2>4, <2>5, <2>6 DEF IInv
<1>4. CASE CreateFails
  <2>0. /\ pc # "dead" /\ pc' # "dead"
        /\ Created /\ Settled /\ HandOff /\ Loops /\ Sockets
    BY <1>4 DEF CreateFails, IInv
  <2>1. TypeOK'
    BY <1>4, <1>t, <2>0 DEF CreateFails, TypeOK, HandOff
  <2>2. Created'
    BY <1>4, <1>t, <2>0
       DEF CreateFails, TypeOK, Created, Settled, HandOff, Loops, Sockets
  <2>3. Settled'
    BY <1>4, <2>0 DEF CreateFails, Settled, HandOff
  <2>4. HandOff'
    BY <1>4, <1>t, <2>0 DEF CreateFails, TypeOK, HandOff
  <2>5. Loops'
    BY <1>4, <2>0 DEF CreateFails, Loops
  <2>6. Sockets'
    BY <1>4, <2>0 DEF CreateFails, Sockets
  <2> QED
    BY <2>0, <2>1, <2>2, <2>3, <2>4, <2>5, <2>6 DEF IInv
<1>5. CASE AllCreated
  <2>0. /\ pc # "dead" /\ pc' # "dead"
        /\ Created /\ Settled /\ HandOff /\ Loops /\ Sockets
    BY <1>5 DEF AllCreated, IInv
  <2>1. TypeOK'
    BY <1>5, <1>t DEF AllCreated, TypeOK
  <2>2. Created'
    BY <1>5, <2>0 DEF AllCreated, Created
  <2>3. Settled'
    BY <1>5, <2>0 DEF AllCreated, Settled
  <2>4. HandOff'
    BY <1>5, <2>0 DEF AllCreated, HandOff
  <2>5. Loops'
    BY <1>5, <2>0 DEF AllCreated, Loops
  <2>6. Sockets'
    BY <1>5, <2>0 DEF AllCreated, Sockets
  <2> QED
    BY <2>0, <2>1, <2>2, <2>3, <2>4, <2>5, <2>6 DEF IInv
<1>6. CASE Join
  <2>0. /\ pc # "dead" /\ pc' # "dead"
        /\ Created /\ Settled /\ HandOff /\ Loops /\ Sockets
    BY <1>6 DEF Join, IInv
  <2>1. TypeOK'
    BY <1>6, <1>t DEF Join, TypeOK
  <2>2. Created'
    BY <1>6, <2>0 DEF Join, Created
  <2>3. Settled'
    BY <1>6, <2>0 DEF Join, Settled
  <2>4. HandOff'
    BY <1>6, <2>0 DEF Join, HandOff
  <2>5. Loops'
    BY <1>6, <1>t, <2>0 DEF Join, TypeOK, Loops
  <2>6. Sockets'
    BY <1>6, <2>0 DEF Join, Sockets
  <2> QED
    BY <2>0, <2>1, <2>2, <2>3, <2>4, <2>5, <2>6 DEF IInv
<1>7. CASE Return
  <2>0. /\ pc # "dead" /\ pc' # "dead"
        /\ Created /\ Settled /\ HandOff /\ Loops /\ Sockets
    BY <1>7 DEF Return, IInv
  <2>1. TypeOK'
    BY <1>7, <1>t DEF Return, TypeOK
  <2>2. Created'
    BY <1>7, <2>0 DEF Return, Created
  <2>3. Settled'
    BY <1>7, <2>0 DEF Return, Settled
  <2>4. HandOff'
    BY <1>7, <2>0 DEF Return, HandOff, Loops
  <2>5. Loops'
    BY <1>7, <2>0 DEF Return, Loops, Sockets
  <2>6. Sockets'
    BY <1>7, <2>0 DEF Return, Sockets
  <2> QED
    BY <2>0, <2>1, <2>2, <2>3, <2>4, <2>5, <2>6 DEF IInv
<1>8. CASE JoinGarbage
  <2>0. pc # "dead" /\ Created /\ Settled /\ HandOff /\ Loops /\ Sockets
    BY <1>8 DEF JoinGarbage, IInv
  <2>1. CASE j' = j + 1 /\ UNCHANGED <<pc, open>>
    BY <1>8, <2>1
       DEF JoinGarbage, IInv, TypeOK, Created, Settled, HandOff, Loops, Sockets
  <2>2. CASE pc' = "dead" /\ open' = {} /\ UNCHANGED j
    BY <1>8, <2>2 DEF JoinGarbage, IInv, TypeOK
  <2> QED
    BY <1>8, <2>1, <2>2 DEF JoinGarbage
<1>9. CASE NewChild
  <2>0. pc' # "dead" /\ open = {}
    BY <1>9 DEF NewChild, IInv
  <2>a. acceptfd' \in [Clients -> 0..ClientNum]
    BY <1>9, <1>t DEF NewChild, TypeOK
  <2>1. TypeOK'
    BY <1>9, <1>t DEF NewChild, TypeOK
  <2>2. Created'
    BY <1>9 DEF NewChild, Created
  <2>3. Settled'
    BY <1>9 DEF NewChild, Settled
  <2>4. HandOff'
    BY <1>9 DEF NewChild, HandOff
  <2>5. Loops'
    BY <1>9 DEF NewChild, Loops
  <2>6. Sockets'
    BY <1>9, <2>0 DEF NewChild, Sockets
  <2> QED
    BY <2>0, <2>1, <2>2, <2>3, <2>4, <2>5, <2>6 DEF IInv
<1>10. ASSUME NEW t \in Clients, Connect(t) PROVE IInv'
  <2>0. /\ pc # "dead" /\ pc' # "dead"
        /\ Created /\ Settled /\ HandOff /\ Loops /\ Sockets
    BY <1>10 DEF Connect, Step, IInv
  <2>a. clientIndex = t /\ mute = "held"
    BY <1>10, <2>0 DEF Connect, Step, HandOff
  <2>1. TypeOK'
    BY <1>10, <1>t, <2>a DEF Connect, Step, TypeOK
  <2>2. Created'
    BY <1>10, <2>0 DEF Connect, Step, Created
  <2>3. Settled'
    BY <1>10, <2>0 DEF Connect, Step, Settled
  <2>4. HandOff'
    BY <1>10, <2>0 DEF Connect, Step, HandOff
  <2>5. Loops'
    BY <1>10, <2>0 DEF Connect, Step, Loops
  <2>6. Sockets'
    BY <1>10, <1>t, <2>0, <2>a DEF Connect, Step, TypeOK, Sockets
  <2> QED
    BY <2>0, <2>1, <2>2, <2>3, <2>4, <2>5, <2>6 DEF IInv
<1>11. ASSUME NEW t \in Clients, ConnectFails(t) PROVE IInv'
  <2>0. /\ pc # "dead" /\ pc' # "dead"
        /\ Created /\ Settled /\ HandOff /\ Loops /\ Sockets
    BY <1>11 DEF ConnectFails, Step, IInv
  <2>a. clientIndex = t /\ mute = "held"
    BY <1>11, <2>0 DEF ConnectFails, Step, HandOff
  <2>1. TypeOK'
    BY <1>11, <1>t DEF ConnectFails, Step, TypeOK
  <2>2. Created'
    BY <1>11, <2>0, <2>a DEF ConnectFails, Step, Created
  <2>3. Settled'
    BY <1>11, <1>t, <2>0, <2>a DEF ConnectFails, Step, TypeOK, Settled
  <2>4. HandOff'
    BY <1>11, <2>0 DEF ConnectFails, Step, HandOff
  <2>5. Loops'
    BY <1>11, <2>0 DEF ConnectFails, Step, Loops
  <2>6. Sockets'
    BY <1>11, <2>0 DEF ConnectFails, Step, Sockets
  <2> QED
    BY <2>0, <2>1, <2>2, <2>3, <2>4, <2>5, <2>6 DEF IInv
<1>12. ASSUME NEW t \in Clients, Dispatch(t) PROVE IInv'
  <2>0. /\ pc # "dead" /\ pc' # "dead"
        /\ Created /\ Settled /\ HandOff /\ Loops /\ Sockets
    BY <1>12 DEF Dispatch, Step, IInv
  <2>a. clientIndex = t /\ mute = "held"
    BY <1>12, <2>0 DEF Dispatch, Step, HandOff
  <2>1. TypeOK'
    BY <1>12, <1>t DEF Dispatch, Step, TypeOK
  <2>2. Created'
    BY <1>12, <1>t, <2>0, <2>a
       DEF Dispatch, Step, TypeOK, Created, Settled, HandOff, Loops, Sockets
  <2>3. Settled'
    BY <1>12, <2>0 DEF Dispatch, Step, Settled
  <2>4. HandOff'
    BY <1>12, <2>0 DEF Dispatch, Step, HandOff
  <2>5. Loops'
    BY <1>12, <2>0 DEF Dispatch, Step, Loops
  <2>6. Sockets'
    BY <1>12, <2>0 DEF Dispatch, Step, Sockets
  <2> QED
    BY <2>0, <2>1, <2>2, <2>3, <2>4, <2>5, <2>6 DEF IInv
<1>13. ASSUME NEW t \in Clients, PlaybackReturns(t) PROVE IInv'
  <2>0. /\ pc # "dead" /\ pc' # "dead"
        /\ Created /\ Settled /\ HandOff /\ Loops /\ Sockets
    BY <1>13 DEF PlaybackReturns, Step, IInv
  <2>a. clientIndex = t /\ mute = "held"
    BY <1>13, <2>0 DEF PlaybackReturns, Step, HandOff
  <2>1. TypeOK'
    BY <1>13, <1>t DEF PlaybackReturns, Step, TypeOK
  <2>2. Created'
    BY <1>13, <2>0 DEF PlaybackReturns, Step, Created
  <2>3. Settled'
    BY <1>13, <2>0 DEF PlaybackReturns, Step, Settled
  <2>4. HandOff'
    BY <1>13, <2>0 DEF PlaybackReturns, Step, HandOff
  <2>5. Loops'
    BY <1>13, <2>0 DEF PlaybackReturns, Step, Loops
  <2>6. Sockets'
    BY <1>13, <2>0 DEF PlaybackReturns, Step, Sockets
  <2> QED
    BY <2>0, <2>1, <2>2, <2>3, <2>4, <2>5, <2>6 DEF IInv
<1>14. ASSUME NEW t \in Clients, CheckLock(t) PROVE IInv'
  <2>0. /\ pc # "dead" /\ pc' # "dead"
        /\ Created /\ Settled /\ HandOff /\ Loops /\ Sockets
    BY <1>14 DEF CheckLock, Step, IInv
  <2>a. clientIndex = t /\ mute = "held"
    BY <1>14, <2>0 DEF CheckLock, Step, HandOff
  <2>1. TypeOK'
    BY <1>14, <1>t DEF CheckLock, Step, TypeOK, Created, HandOff, Loops
  <2>2. Created'
    BY <1>14, <1>t, <2>0, <2>a DEF CheckLock, Step, TypeOK, Created
  <2>3. Settled'
    BY <1>14, <1>t, <2>0, <2>a DEF CheckLock, Step, TypeOK, Settled
  <2>4. HandOff'
    BY <1>14, <1>t, <2>0 DEF CheckLock, Step, TypeOK, HandOff
  <2>5. Loops'
    BY <1>14, <1>t, <2>0 DEF CheckLock, Step, TypeOK, Loops
  <2>6. Sockets'
    BY <1>14, <1>t, <2>0 DEF CheckLock, Step, TypeOK, Sockets
  <2> QED
    BY <2>0, <2>1, <2>2, <2>3, <2>4, <2>5, <2>6 DEF IInv
<1>15. ASSUME NEW t \in Clients, Send(t) PROVE IInv'
  <2>0. /\ pc # "dead" /\ pc' # "dead"
        /\ Created /\ Settled /\ HandOff /\ Loops /\ Sockets
    BY <1>15 DEF Send, Step, IInv
  <2>a. clientIndex = t /\ mute = "held"
    BY <1>15, <2>0 DEF Send, Step, HandOff
  <2>1. TypeOK'
    <3>1. PICK r \in {"sent", "failed"} :
            outcome' = [outcome EXCEPT ![clientIndex] = r]
      BY <1>15 DEF Send
    <3>2. thread' = [thread EXCEPT ![t] = "close"]
      BY <1>15 DEF Send, Step
    <3>3. UNCHANGED <<pc, kind, i, j, mute, clientIndex, open, acceptfd>>
      BY <1>15 DEF Send
    <3> QED
      BY <1>t, <3>1, <3>2, <3>3 DEF TypeOK
  <2>2. Created'
    BY <1>15, <2>0, <2>a DEF Send, Step, Created
  <2>3. Settled'
    BY <1>15, <1>t, <2>0, <2>a DEF Send, Step, TypeOK, Settled
  <2>4. HandOff'
    BY <1>15, <2>0 DEF Send, Step, HandOff
  <2>5. Loops'
    BY <1>15, <2>0 DEF Send, Step, Loops
  <2>6. Sockets'
    BY <1>15, <2>0 DEF Send, Step, Sockets
  <2> QED
    BY <2>0, <2>1, <2>2, <2>3, <2>4, <2>5, <2>6 DEF IInv
<1>16. ASSUME NEW t \in Clients, Close(t) PROVE IInv'
  <2>0. /\ pc # "dead" /\ pc' # "dead"
        /\ Created /\ Settled /\ HandOff /\ Loops /\ Sockets
    BY <1>16 DEF Close, Step, IInv
  <2>a. clientIndex = t /\ mute = "held"
    BY <1>16, <2>0 DEF Close, Step, HandOff
  <2>1. TypeOK'
    BY <1>16, <1>t DEF Close, Step, TypeOK
  <2>2. Created'
    BY <1>16, <1>t, <2>0, <2>a
       DEF Close, Step, TypeOK, Created, Settled, HandOff, Loops, Sockets
  <2>3. Settled'
    BY <1>16, <2>0 DEF Close, Step, Settled
  <2>4. HandOff'
    BY <1>16, <1>t, <2>0, <2>a
       DEF Close, Step, TypeOK, Created, Settled, HandOff, Loops, Sockets
  <2>5. Loops'
    BY <1>16, <2>0 DEF Close, Step, Loops
  <2>6. Sockets'
    BY <1>16, <1>t, <2>0 DEF Close, Step, TypeOK, Sockets
  <2> QED
    BY <2>0, <2>1, <2>2, <2>3, <2>4, <2>5, <2>6 DEF IInv
<1>17. ASSUME NEW t \in Clients, Unlock(t) PROVE IInv'
  <2>0. /\ pc # "dead" /\ pc' # "dead"
        /\ Created /\ Settled /\ HandOff /\ Loops /\ Sockets
    BY <1>17 DEF Unlock, Step, IInv
  <2>a. clientIndex = t /\ mute = "held"
    BY <1>17, <2>0 DEF Unlock, Step, HandOff
  <2>1. TypeOK'
    BY <1>17, <1>t DEF Unlock, Step, TypeOK
  <2>2. Created'
    BY <1>17, <2>0 DEF Unlock, Step, Created
  <2>3. Settled'
    BY <1>17, <2>0 DEF Unlock, Step, Settled
  <2>4. HandOff'
    BY <1>17, <1>t, <2>0 DEF Unlock, Step, TypeOK, HandOff
  <2>5. Loops'
    BY <1>17, <2>0 DEF Unlock, Step, Loops
  <2>6. Sockets'
    BY <1>17, <2>0 DEF Unlock, Step, Sockets
  <2> QED
    BY <2>0, <2>1, <2>2, <2>3, <2>4, <2>5, <2>6 DEF IInv
<1>18. ASSUME NEW t \in Clients, Exit(t) PROVE IInv'
  <2>0. /\ pc # "dead" /\ pc' # "dead"
        /\ Created /\ Settled /\ HandOff /\ Loops /\ Sockets
    BY <1>18 DEF Exit, Step, IInv
  <2>1. TypeOK'
    BY <1>18, <1>t DEF Exit, Step, TypeOK
  <2>2. Created'
    BY <1>18, <2>0 DEF Exit, Step, Created
  <2>3. Settled'
    BY <1>18, <2>0 DEF Exit, Step, Settled
  <2>4. HandOff'
    BY <1>18, <2>0 DEF Exit, Step, HandOff
  <2>5. Loops'
    BY <1>18, <2>0 DEF Exit, Step, Loops
  <2>6. Sockets'
    BY <1>18, <2>0 DEF Exit, Step, Sockets
  <2> QED
    BY <2>0, <2>1, <2>2, <2>3, <2>4, <2>5, <2>6 DEF IInv
<1>19. ASSUME NEW t \in Clients, Killed(t) PROVE IInv'
  BY <1>19 DEF Killed, IInv, TypeOK
<1>20. CASE UNCHANGED vars
  BY <1>20 DEF vars, IInv, TypeOK, Created, Settled, HandOff, Loops, Sockets
<1> QED
  BY <1>1, <1>2, <1>3, <1>4, <1>5, <1>6, <1>7, <1>8, <1>9, <1>10, <1>11, <1>12,
     <1>13, <1>14, <1>15, <1>16, <1>17, <1>18, <1>19, <1>20
     DEF Next, MainStep, ThreadStep, BlockingStep

LEMMA Invariance == Spec => []IInv
BY InitIInv, NextIInv, PTL DEF Spec

(* The types of FanOut: the loop indices of distribute_run and the shared  *)
(* clientIndex never leave the arrays they index.                          *)
THEOREM TypeCorrect == Spec => []TypeOK
<1>1. IInv => TypeOK
  BY DEF IInv
<1> QED
  BY Invariance, <1>1, PTL

(* The mutex hands thread_param from thread to thread: a running client    *)
(* thread always finds its own clientIndex in it.                          *)
THEOREM OwnClientAlways == Spec => []OwnClient
<1>1. IInv => OwnClient
  BY DEF IInv, HandOff, OwnClient
<1> QED
  BY Invariance, <1>1, PTL

(* playback_run always sends on the open socket of the thread that runs it.*)
THEOREM PlaybackSocketAlwaysOpen == Spec => []PlaybackSocketOpen
<1>1. IInv => PlaybackSocketOpen
  BY DEF IInv, HandOff, Sockets, PlaybackSocketOpen, Active, Holding
<1> QED
  BY Invariance, <1>1, PTL

(* distribute_run never returns with a client socket open. *)
THEOREM SocketsAlwaysClosed == Spec => []NoSocketLeak
<1>1. IInv => NoSocketLeak
  BY DEF IInv, TypeOK, Loops, Sockets, NoSocketLeak, Active, Holding
<1> QED
  BY Invariance, <1>1, PTL

(* The mutex is never destroyed while locked, if every thread was created. *)
THEOREM MutexDestroyedUnlocked == Spec => DestroyUnlocked
<1>1. ASSUME IInv, [Next]_vars, mute # "destroyed", mute' = "destroyed",
             pc # "dead", \A c \in Clients : outcome[c] # "lost"
      PROVE  mute = "free"
  <2>1. pc = "join" /\ j = ClientNum
    BY <1>1 DEF IInv, HandOff, Next, MainStep, ThreadStep, BlockingStep, Step,
                vars, Run, Lock, TakeMute, Create, CreateFails, AllCreated, Join,
                JoinGarbage, Return, NewChild, Connect, ConnectFails, Dispatch,
                PlaybackReturns, CheckLock, Send, Close, Unlock, Exit, Killed
  <2>2. \A t \in Clients : thread[t] \notin Active
    BY <1>1, <2>1 DEF IInv, Loops, Active, Clients
  <2> QED
    BY <1>1, <2>1, <2>2 DEF IInv, TypeOK, HandOff
<1> QED
  BY Invariance, <1>1, PTL DEF Spec, DestroyUnlocked

(* Whose turn it is while distribute_run is under way: clientIndex is the  *)
(* client of the thread created last; a thread that could not be created   *)
(* is that one, and since then the mutex is locked and no thread runs.     *)
Turn == pc \in {"lock", "create", "join"} =>
          /\ pc # "create" => clientIndex = i
          /\ \A t \in Clients : outcome[t] = "lost" =>
               /\ pc # "create" /\ t = i /\ mute = "held"
               /\ \A u \in Clients : thread[u] \notin Active

LEMMA NextTurn == IInv /\ Turn /\ [Next]_vars => Turn'
<1> SUFFICES ASSUME IInv, Turn, [Next]_vars PROVE Turn'
  OBVIOUS
<1> USE DEF Clients
<1>t. TypeOK
  BY DEF IInv
<1>1. ASSUME NEW k \in {"live", "replay"}, Run(k) PROVE Turn'
  BY <1>1 DEF Run, Turn
<1>2. CASE Lock
  BY <1>2 DEF Lock, TakeMute, Turn
<1>3. CASE Create
  BY <1>3 DEF Create, IInv, HandOff, Turn
<1>4. CASE CreateFails
  <2>1. /\ clientIndex = i + 1 /\ mute = "held" /\ i + 1 \in Clients
        /\ \A t \in Clients : thread[t] \notin Active /\ outcome[t] # "lost"
    BY <1>4, <1>t DEF CreateFails, IInv, TypeOK, HandOff, Turn
  <2> QED
    BY <1>4, <1>t, <2>1 DEF CreateFails, TypeOK, Turn
<1>5. CASE AllCreated \/ Join \/ Return \/ JoinGarbage \/ NewChild
  BY <1>5 DEF AllCreated, Join, Return, JoinGarbage, NewChild, Turn
<1>6. ASSUME NEW t \in Clients, ThreadStep(t) \/ BlockingStep(t) PROVE Turn'
  <2>1. CASE Exit(t)
    BY <1>t, <2>1 DEF Exit, Step, Turn, TypeOK, Active
  <2>2. CASE Killed(t)
    BY <2>2 DEF Killed, Turn
  <2>3. CASE ~Exit(t) /\ ~Killed(t)
    <3>1. /\ thread[t] \in Active /\ pc' = pc /\ i' = i /\ clientIndex' = clientIndex
          /\ \/ outcome' = outcome
             \/ \E r \in Outcomes \ {"lost"} :
                  outcome' = [outcome EXCEPT ![clientIndex] = r]
      BY <1>6, <2>3
         DEF ThreadStep, BlockingStep, Step, Connect, ConnectFails, Dispatch,
             PlaybackReturns, CheckLock, Send, Close, Unlock, Active, Outcomes
    <3>2. pc \in {"lock", "create", "join"} =>
            \A u \in Clients : outcome'[u] # "lost"
      BY <1>t, <3>1 DEF Turn, TypeOK
    <3> QED
      BY <3>1, <3>2 DEF Turn
  <2> QED
    BY <2>1, <2>2, <2>3
<1>7. CASE UNCHANGED vars
  BY <1>7 DEF vars, Turn
<1> QED
  BY <1>1, <1>2, <1>3, <1>4, <1>5, <1>6, <1>7 DEF Next, MainStep

LEMMA TurnInvariance == Spec => [](IInv /\ Turn)
<1>1. Init => Turn
  BY DEF Init, Turn
<1> QED
  BY <1>1, Invariance, NextTurn, PTL DEF Spec

(* Whenever the main thread waits, the thread it waits for exists and is   *)
(* on its way to unlock or to exit, unless pthread_create failed.          *)
THEOREM AlwaysWaitsForThread == Spec => []WaitsForThread
<1>1. IInv /\ Turn => WaitsForThread
  <2> SUFFICES ASSUME IInv, Turn PROVE WaitsForThread
    OBVIOUS
  <2>1. ASSUME pc = "lock", mute = "held"
        PROVE  thread[i] \in Active \/ outcome[i] = "lost"
    <3>1. PICK t \in Clients : thread[t] \in Active \/ outcome[t] = "lost"
      BY <2>1 DEF IInv, HandOff
    <3>2. t = i
      BY <2>1, <3>1 DEF IInv, HandOff, Turn
    <3> QED
      BY <3>1, <3>2
  <2>2. ASSUME pc = "join", j < ClientNum, thread[j + 1] = "none"
        PROVE  outcome[j + 1] = "lost"
    BY <2>2 DEF IInv, TypeOK, Created, Loops, Clients
  <2> QED
    BY <2>1, <2>2 DEF WaitsForThread
<1> QED
  BY <1>1, TurnInvariance, PTL

(* The hang after a failed pthread_create is final, whatever the number of *)
(* clients: distribute_run never returns, and the process never dies of    *)
(* its threads either.                                                     *)
THEOREM HangIsFinal == Spec => HungForEver
<1>1. ASSUME IInv, Turn, [Next]_vars, Hung PROVE Hung'
  <2>1. /\ pc = "lock" /\ i \in Clients /\ i # ClientNum /\ mute = "held"
        /\ \A t \in Clients : thread[t] \notin Active
    BY <1>1 DEF Hung, Turn, Clients
  <2>2. UNCHANGED <<pc, i, outcome>>
    BY <1>1, <2>1
       DEF Next, MainStep, ThreadStep, BlockingStep, Step, vars, Run, Lock,
           TakeMute, Create, CreateFails, AllCreated, Join, JoinGarbage, Return,
           NewChild, Connect, ConnectFails, Dispatch, PlaybackReturns, CheckLock,
           Send, Close, Unlock, Exit, Killed, Active
  <2> QED
    BY <1>1, <2>2 DEF Hung
<1> QED
  BY <1>1, TurnInvariance, PTL DEF Spec, HungForEver

(* A step that changes neither the outcomes nor the status is a stutter. *)
LEMMA Stutter ==
  ASSUME UNCHANGED outcome, pc # "recv", pc # "dead", pc' # "recv", pc' # "dead"
  PROVE  [Serial!SNext]_(Serial!svars)
BY DEF Serial!svars

(* A client's outcome is settled only after those of the clients before    *)
(* it: every earlier thread has come past its own send, or was lost.       *)
LEMMA EarlierSettled ==
  ASSUME TypeOK, Created, Settled, NEW c \in Clients, c <= i + 1,
         \A d \in 1..(c - 1) : thread[d] \notin Waiting
  PROVE  \A d \in 1..(c - 1) : outcome[d] # "none"
BY ClientNumAssumption DEF TypeOK, Created, Settled, Clients, ThreadPc, Active,
                           Waiting, Served

(* Settling the outcome of c is a Serve step. *)
LEMMA ServeStep ==
  ASSUME TypeOK, NEW c \in Clients, NEW r \in Outcomes \ {"none"},
         outcome[c] = "none", \A d \in 1..(c - 1) : outcome[d] # "none",
         outcome' = [outcome EXCEPT ![c] = r],
         pc # "recv", pc # "dead", pc' # "recv", pc' # "dead"
  PROVE  Serial!SNext
<1>1. Serial!Serve(c)
  BY DEF Serial!Serve, Serial!Outcomes, Outcomes
<1> QED
  BY <1>1 DEF Serial!SNext, Serial!Clients, Clients

(* Every step of FanOut is a step of the serial loop, or none. *)
LEMMA NextSerial == IInv /\ [Next]_vars => [Serial!SNext]_(Serial!svars)
<1> SUFFICES ASSUME IInv, [Next]_vars PROVE [Serial!SNext]_(Serial!svars)
  OBVIOUS
<1>t. TypeOK
  BY DEF IInv
<1>1. ASSUME NEW k \in {"live", "replay"}, Run(k) PROVE Serial!Start
  BY <1>1 DEF Run, Serial!Start, Serial!Clients, Clients
<1>2. CASE Lock \/ Create \/ AllCreated \/ Join
  BY <1>2, Stutter DEF Lock, TakeMute, Create, AllCreated, Join
<1>3. CASE CreateFails
  <2>1. /\ pc = "create" /\ pc' = "lock"
        /\ Created /\ Settled /\ HandOff
        /\ outcome' = [outcome EXCEPT ![i + 1] = "lost"]
    BY <1>3 DEF CreateFails, IInv
  <2>2. i + 1 \in Clients /\ outcome[i + 1] = "none"
    BY <1>t, <2>1 DEF TypeOK, Created, HandOff, Clients
  <2>3. \A d \in 1..i : thread[d] \notin Waiting
    BY <1>t, <2>1, <2>2 DEF TypeOK, HandOff, Clients, Active, Waiting
  <2>4. \A d \in 1..((i + 1) - 1) : outcome[d] # "none"
    BY <1>t, <2>1, <2>2, <2>3, EarlierSettled DEF TypeOK
  <2> QED
    BY <1>t, <2>1, <2>2, <2>4, ServeStep DEF Outcomes
<1>4. CASE JoinGarbage
  <2>1. CASE j' = j + 1 /\ UNCHANGED <<pc, open>>
    BY <1>4, <2>1, Stutter DEF JoinGarbage
  <2>2. CASE pc' = "dead"
    BY <1>4, <2>2 DEF JoinGarbage, Serial!SNext, Serial!Die
  <2> QED
    BY <1>4, <2>1, <2>2 DEF JoinGarbage
<1>5. CASE Return
  <2>1. \A c \in Clients : outcome[c] # "none"
    BY <1>5, <1>t DEF Return, IInv, TypeOK, Created, Settled, Loops, Clients,
                      Served
  <2> QED
    BY <1>5, <2>1 DEF Return, Serial!SNext, Serial!Finish, Serial!Clients, Clients
<1>6. CASE NewChild
  BY <1>6 DEF NewChild, Serial!SNext, Serial!Replace
<1>7. ASSUME NEW t \in Clients, ThreadStep(t) \/ BlockingStep(t)
      PROVE  [Serial!SNext]_(Serial!svars)
  <2>1. CASE Exit(t)
    BY <2>1 DEF Exit, Step, Serial!svars
  <2>2. CASE thread[t] \in Active /\ pc # "dead"
    <3>1. /\ pc \notin {"recv", "dead"}
          /\ t <= i
          /\ Created /\ Settled /\ HandOff
      BY <1>t, <2>2 DEF IInv, TypeOK, Created, Loops, Clients, Active
    <3>2. CASE UNCHANGED <<pc, outcome>>
      BY <3>1, <3>2, Stutter
    <3>3. CASE Killed(t)
      BY <3>1, <3>3 DEF Killed, Serial!SNext, Serial!Die
    <3>4. ASSUME thread[t] \in Waiting, UNCHANGED pc,
                 NEW r \in Outcomes \ {"none"},
                 outcome' = [outcome EXCEPT ![clientIndex] = r]
          PROVE  Serial!SNext
      <4>1. clientIndex = t /\ outcome[t] = "none"
        BY <2>2, <3>1, <3>4 DEF HandOff, Settled
      <4>2. \A d \in 1..(t - 1) : thread[d] \notin Waiting
        BY <3>1, <4>1 DEF HandOff, Clients, Active, Waiting
      <4>3. t <= i + 1
        BY <1>t, <3>1 DEF TypeOK, Clients
      <4>4. \A d \in 1..(t - 1) : outcome[d] # "none"
        BY <1>t, <3>1, <4>2, <4>3, EarlierSettled
      <4> QED
        BY <1>t, <3>1, <3>4, <4>1, <4>4, ServeStep
    <3> QED
      BY <1>7, <2>2, <3>2, <3>3, <3>4
         DEF ThreadStep, BlockingStep, Step, Connect, ConnectFails, Dispatch,
             PlaybackReturns, CheckLock, Send, Close, Unlock, Exit, Outcomes,
             Waiting
  <2> QED
    BY <1>7, <2>1, <2>2
       DEF ThreadStep, BlockingStep, Step, Connect, ConnectFails, Dispatch,
           PlaybackReturns, CheckLock, Send, Close, Unlock, Killed, Active
<1>8. CASE UNCHANGED vars
  BY <1>8 DEF vars, Serial!svars
<1> QED
  BY <1>1, <1>2, <1>3, <1>4, <1>5, <1>6, <1>7, <1>8
     DEF Next, MainStep, Serial!SNext

(* distribute_run with its threads and its mutex implements the serial     *)
(* loop: every client is dealt with once, in the order of the              *)
(* configuration, before the call returns.                                 *)
THEOREM Refinement == Spec => ImplementsSerial
<1>1. Init => Serial!SInit
  BY DEF Init, Serial!SInit, Serial!Clients, Clients
<1> QED
  BY <1>1, Invariance, NextSerial, PTL DEF Spec, ImplementsSerial, Serial!SSpec
=============================================================================

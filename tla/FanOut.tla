------------------------------- MODULE FanOut -------------------------------
(***************************************************************************)
(* distribute_run and the client threads it starts (util.c), in one child  *)
(* process.  The main thread copies the received buffer into one           *)
(* THREAD_PARAM that every client thread shares, and uses the mutex "mute" *)
(* to hand that structure from thread to thread: the main thread locks it, *)
(* writes clientIndex and creates a thread; the THREAD unlocks it when it  *)
(* has no more use for clientIndex.  (glibc's default mutex does not       *)
(* record an owner, so an unlock by another thread is just a release.)     *)
(*                                                                         *)
(* Every step of a thread reads clientIndex from the shared structure, as  *)
(* the code does; that the value read is its own is a property.            *)
(*                                                                         *)
(* playback_run and the shm files belong to module Distribute; here the    *)
(* playback is a call that may take any time, and access() may answer      *)
(* anything.                                                               *)
(***************************************************************************)
EXTENDS Naturals

CONSTANTS ClientNum,     \* number of configured clients
          Requester      \* the clients whose address is acceptedAddress

ASSUME ClientNumAssumption == ClientNum \in Nat
ASSUME RequesterAssumption == Requester \subseteq 1..ClientNum

VARIABLES
  pc,           \* where the main thread is
  kind,         \* header of the buffer: "live" (sea, BD) or "replay"
  i,            \* index of the creation loop
  j,            \* index of the join loop
  mute,         \* the mutex: "free", "held" or "destroyed"
  clientIndex,  \* thread_param.clientIndex, shared by all the threads
  thread,       \* where each client thread is
  open,         \* threads whose local socketfd is open
  acceptfd,     \* distributeTcpInfo[c].acceptfd: the thread that opened it
  outcome       \* what became of the buffer, per client (history)

vars == <<pc, kind, i, j, mute, clientIndex, thread, open, acceptfd, outcome>>

Clients == 1..ClientNum

MainPc == {"recv", "lock", "create", "join", "dead"}

(* A thread uses clientIndex from its start until it unlocks the mutex. *)
Active == {"start", "dispatch", "playback", "check", "send", "close", "unlock"}
ThreadPc == Active \cup {"none", "return", "exited"}

Outcomes == {"none", "sent", "failed", "withheld", "unreachable", "lost"}

Init == /\ pc = "recv"
        /\ kind = "live"
        /\ i = 0
        /\ j = 0
        /\ mute = "destroyed"
        /\ clientIndex = 0
        /\ thread = [t \in Clients |-> "none"]
        /\ open = {}
        /\ acceptfd = [c \in Clients |-> 0]
        /\ outcome = [c \in Clients |-> "none"]

-----------------------------------------------------------------------------
(* The main thread. *)

(* distribute_run is entered with a buffer of kind k: thread_param is      *)
(* cleared and filled, the mutex is initialised.  (A live buffer that      *)
(* cannot be recorded makes distribute_run return before this point, and   *)
(* no variable of this module changes; see module Distribute.)             *)
Run(k) == /\ pc = "recv"
          /\ pc' = "lock"
          /\ kind' = k
          /\ i' = 0
          /\ j' = 0
          /\ mute' = "free"
          /\ clientIndex' = 0
          /\ thread' = [t \in Clients |-> "none"]
          /\ outcome' = [c \in Clients |-> "none"]
          /\ UNCHANGED <<open, acceptfd>>

(* The mutex is taken and clientIndex written for the next thread. *)
TakeMute == /\ pc = "lock"
            /\ mute' = "held"
            /\ clientIndex' = i + 1
            /\ pc' = "create"
            /\ UNCHANGED <<kind, i, j, thread, open, acceptfd, outcome>>

(* Faulty: the loop runs once too often (<= for <). *)
LockOnceTooOften == i <= ClientNum /\ mute = "free" /\ TakeMute

(* Faulty: clientIndex is written without waiting for the mutex. *)
LockUnguarded == i < ClientNum /\ TakeMute

(* Blocks until the previous thread has released the mutex. *)
Lock == i < ClientNum /\ mute = "free" /\ TakeMute

Create == /\ pc = "create"
          /\ thread' = [thread EXCEPT ![i + 1] = "start"]
          /\ i' = i + 1
          /\ pc' = "lock"
          /\ UNCHANGED <<kind, j, mute, clientIndex, open, acceptfd, outcome>>

(* pthread_create reports an error as a positive number; the test against  *)
(* EXIT_FAIL_CODE (-1) never sees it, and the mutex stays locked.          *)
CreateFails == /\ pc = "create"
               /\ outcome' = [outcome EXCEPT ![i + 1] = "lost"]
               /\ i' = i + 1
               /\ pc' = "lock"
               /\ UNCHANGED <<kind, j, mute, clientIndex, thread, open, acceptfd>>

(* Faulty: the loop stops before the last client. *)
AllCreatedButLast == /\ pc = "lock"
                     /\ i >= ClientNum - 1
                     /\ pc' = "join"
                     /\ UNCHANGED <<kind, i, j, mute, clientIndex, thread, open,
                                    acceptfd, outcome>>

AllCreated == /\ pc = "lock"
              /\ i = ClientNum
              /\ pc' = "join"
              /\ UNCHANGED <<kind, i, j, mute, clientIndex, thread, open,
                             acceptfd, outcome>>

(* Faulty: the join loop does not advance. *)
JoinNoAdvance == /\ pc = "join"
                 /\ j < ClientNum
                 /\ thread[j + 1] = "exited"
                 /\ UNCHANGED vars

Join == /\ pc = "join"
        /\ j < ClientNum
        /\ thread[j + 1] = "exited"
        /\ j' = j + 1
        /\ UNCHANGED <<pc, kind, i, mute, clientIndex, thread, open, acceptfd,
                       outcome>>

(* tids[j] was never written: joining it is undefined, and the build may   *)
(* return an error or fault.                                               *)
JoinGarbage == /\ pc = "join"
               /\ j < ClientNum
               /\ thread[j + 1] = "none"
               /\ \/ j' = j + 1 /\ UNCHANGED <<pc, open>>
                  \/ pc' = "dead" /\ open' = {} /\ UNCHANGED j
               /\ UNCHANGED <<kind, i, mute, clientIndex, thread, acceptfd,
                              outcome>>

(* The mutex is destroyed and distribute_receive calls recv() again. *)
Return == /\ pc = "join"
          /\ j = ClientNum
          /\ mute' = "destroyed"
          /\ pc' = "recv"
          /\ UNCHANGED <<kind, i, j, clientIndex, thread, open, acceptfd, outcome>>

(* The process was killed; the next connection gets a new child, forked    *)
(* from an acceptor that runs no client thread: the first one, or one that *)
(* has served a connection and still holds the numbers of its sockets.     *)
NewChild == /\ pc = "dead"
            /\ pc' = "recv"
            /\ mute' = "destroyed"
            /\ clientIndex' = 0
            /\ i' = 0
            /\ j' = 0
            /\ thread' = [t \in Clients |-> "none"]
            /\ acceptfd' \in {acceptfd, [c \in Clients |-> 0]}
            /\ UNCHANGED <<kind, open, outcome>>

-----------------------------------------------------------------------------
(* A client thread t.  While the process lives. *)

Step(t, from, to) == /\ pc # "dead"
                     /\ thread[t] = from
                     /\ thread' = [thread EXCEPT ![t] = to]

(* Faulty: distributeTcpInfo[index].acceptfd is not updated. *)
ConnectLocally(t) == /\ Step(t, "start", "dispatch")
                     /\ open' = open \cup {t}
                     /\ UNCHANGED <<pc, kind, i, j, mute, clientIndex, acceptfd,
                                    outcome>>

(* distribute_client_socket: socket, setsockopt and connect. *)
Connect(t) == /\ Step(t, "start", "dispatch")
              /\ open' = open \cup {t}
              /\ acceptfd' = [acceptfd EXCEPT ![clientIndex] = t]
              /\ UNCHANGED <<pc, kind, i, j, mute, clientIndex, outcome>>

(* A failed call closes the socket and returns -1: nothing is sent. *)
ConnectFails(t) == /\ Step(t, "start", "unlock")
                   /\ outcome' = [outcome EXCEPT ![clientIndex] = "unreachable"]
                   /\ UNCHANGED <<pc, kind, i, j, mute, clientIndex, open, acceptfd>>

(* A replay request is executed by the thread of the requester. *)
Dispatch(t) == /\ Step(t, "dispatch",
                       IF kind = "replay" /\ clientIndex \in Requester
                         THEN "playback" ELSE "check")
               /\ UNCHANGED <<pc, kind, i, j, mute, clientIndex, open, acceptfd,
                              outcome>>

PlaybackReturns(t) == /\ Step(t, "playback", "check")
                      /\ UNCHANGED <<pc, kind, i, j, mute, clientIndex, open,
                                     acceptfd, outcome>>

(* access(shmFile): absent, go on to send; present, the buffer is withheld.*)
CheckLock(t) == /\ \/ Step(t, "check", "send") /\ UNCHANGED outcome
                   \/ /\ Step(t, "check", "close")
                      /\ outcome' = [outcome EXCEPT ![clientIndex] = "withheld"]
                /\ UNCHANGED <<pc, kind, i, j, mute, clientIndex, open, acceptfd>>

Send(t) == /\ Step(t, "send", "close")
           /\ \E r \in {"sent", "failed"} :
                outcome' = [outcome EXCEPT ![clientIndex] = r]
           /\ UNCHANGED <<pc, kind, i, j, mute, clientIndex, open, acceptfd>>

(* Faulty: the failure branch of send() returns before close(). *)
CloseSometimes(t) == /\ Step(t, "close", "unlock")
                     /\ open' = IF outcome[clientIndex] = "failed"
                                  THEN open ELSE open \ {t}
                     /\ UNCHANGED <<pc, kind, i, j, mute, clientIndex, acceptfd,
                                    outcome>>

Close(t) == /\ Step(t, "close", "unlock")
            /\ open' = open \ {t}
            /\ UNCHANGED <<pc, kind, i, j, mute, clientIndex, acceptfd, outcome>>

(* Faulty: the last thread, whom nobody waits for, keeps the mutex. *)
UnlockButLast(t) == /\ Step(t, "unlock", "return")
                    /\ mute' = IF clientIndex = ClientNum THEN mute ELSE "free"
                    /\ UNCHANGED <<pc, kind, i, j, clientIndex, open, acceptfd,
                                   outcome>>

Unlock(t) == /\ Step(t, "unlock", "return")
             /\ mute' = "free"
             /\ UNCHANGED <<pc, kind, i, j, clientIndex, open, acceptfd, outcome>>

Exit(t) == /\ Step(t, "return", "exited")
           /\ UNCHANGED <<pc, kind, i, j, mute, clientIndex, open, acceptfd,
                          outcome>>

(* send() on a connection the peer has reset raises SIGPIPE, which is not  *)
(* ignored anywhere; a fault inside the playback also ends the process.    *)
(* The kernel closes its descriptors.                                      *)
Killed(t) == /\ pc # "dead"
             /\ thread[t] \in {"send", "playback"}
             /\ pc' = "dead"
             /\ open' = {}
             /\ UNCHANGED <<kind, i, j, mute, clientIndex, thread, acceptfd, outcome>>

-----------------------------------------------------------------------------
MainStep == Lock \/ Create \/ CreateFails \/ AllCreated \/ Join \/ Return

(* The steps of a thread that end by themselves: the kernel bounds how     *)
(* long connect() tries, every other one is local.                         *)
ThreadStep(t) == \/ Connect(t) \/ ConnectFails(t) \/ Dispatch(t)
                 \/ CheckLock(t) \/ Close(t) \/ Unlock(t) \/ Exit(t)

(* The calls that may last as long as the peer likes. *)
BlockingStep(t) == PlaybackReturns(t) \/ Send(t) \/ Killed(t)

Next == \/ \E k \in {"live", "replay"} : Run(k)
        \/ MainStep
        \/ JoinGarbage
        \/ NewChild
        \/ \E t \in Clients : ThreadStep(t) \/ BlockingStep(t)

Spec == Init /\ [][Next]_vars

(* The kernel schedules every runnable thread; nothing is assumed of the   *)
(* sender (Run), of send(), of a playback or of a join of garbage.         *)
FairSpec == /\ Spec
            /\ WF_vars(MainStep)
            /\ \A t \in Clients : WF_vars(ThreadStep(t))

-----------------------------------------------------------------------------
(* The variables hold values of their C types: indices within the arrays,  *)
(* the mutex in one of its states.                                         *)
TypeOK == /\ pc \in MainPc
          /\ kind \in {"live", "replay"}
          /\ i \in 0..ClientNum
          /\ j \in 0..ClientNum
          /\ mute \in {"free", "held", "destroyed"}
          /\ clientIndex \in 0..ClientNum
          /\ thread \in [Clients -> ThreadPc]
          /\ open \subseteq Clients
          /\ acceptfd \in [Clients -> 0..ClientNum]
          /\ outcome \in [Clients -> Outcomes]

(* While a client thread runs, the shared clientIndex is its own and the   *)
(* mutex is locked on its behalf: the main thread never overwrites         *)
(* thread_param under a thread, and two threads never run side by side.    *)
OwnClient == \A t \in Clients :
               (pc # "dead" /\ thread[t] \in Active)
                 => clientIndex = t /\ mute = "held"

(* playback_run sends on distributeTcpInfo[index].acceptfd, not on the     *)
(* thread's own socketfd: it is the open socket of that very thread.       *)
PlaybackSocketOpen == \A t \in Clients :
                        (pc # "dead" /\ thread[t] = "playback")
                          => acceptfd[clientIndex] = t /\ t \in open

(* No client socket survives distribute_run, whichever way a thread ends:  *)
(* the process can go on receiving for ever without running out of         *)
(* descriptors.                                                            *)
NoSocketLeak == pc = "recv" => open = {}

(* pthread_mutex_destroy is called on an unlocked mutex, unless a thread   *)
(* could not be created.                                                   *)
DestroyUnlocked ==
  [][mute # "destroyed" /\ mute' = "destroyed" /\ pc # "dead"
       /\ (\A c \in Clients : outcome[c] # "lost") => mute = "free"]_vars

(* Who keeps the main thread waiting: the mutex is held on behalf of the   *)
(* thread just created, which will unlock it, and the thread that is       *)
(* joined exists; unless pthread_create failed for that client.            *)
WaitsForThread ==
  /\ pc = "lock" /\ mute = "held" => thread[i] \in Active \/ outcome[i] = "lost"
  /\ pc = "join" /\ j < ClientNum /\ thread[j + 1] = "none"
       => outcome[j + 1] = "lost"

(* A thread that could not be created for a client before the last one is  *)
(* the end: no step of any thread gets distribute_run out of the wait for  *)
(* the mutex that nobody will unlock.                                      *)
Hung == pc = "lock" /\ i \in 1..(ClientNum - 1) /\ outcome[i] = "lost"
HungForEver == [][Hung => Hung']_vars

(* The threads and the mutex implement the serial loop over the clients:   *)
(* every client is dealt with, once, in the order of the configuration.    *)
Serial == INSTANCE SerialFanOut WITH
            status <- CASE pc = "recv" -> "idle"
                        [] pc = "dead" -> "dead"
                        [] OTHER -> "running"
ImplementsSerial == Serial!SSpec

(* distribute_run always comes back to recv(), for ever, unless it waits   *)
(* for ever in a call that depends on a peer (a playback, or send() on a   *)
(* full connection), the process dies, or a thread could not be created.   *)
KeepsReceiving == \/ []<>(pc = "recv")
                  \/ <>[](\E t \in Clients : thread[t] \in {"playback", "send"})
                  \/ []<>(pc = "dead")
                  \/ <>(\E c \in Clients : outcome[c] = "lost")

(* What the error branch after pthread_create says: a thread that cannot   *)
(* be created does not keep distribute_run from going on.  (The client is  *)
(* not the last one: after that, what is joined is a thread identifier     *)
(* never written, and anything may happen.)                                *)
CreateFailureHandled ==
  (\E c \in 1..(ClientNum - 1) : outcome[c] = "lost") ~> (pc \in {"recv", "dead"})
=============================================================================

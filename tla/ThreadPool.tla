----------------------------- MODULE ThreadPool -----------------------------
(***************************************************************************)
(* The thread pool (threadpool.c): workers, the thread that adjusts their  *)
(* number, a thread that adds tasks and one that destroys the pool.        *)
(*                                                                         *)
(* pool->lock is held from one step to the next only before a              *)
(* pthread_cond_wait, since shutdown is written without it; every other    *)
(* section under the lock is one step.  Condition variables wake a thread  *)
(* only when signalled.                                                    *)
(***************************************************************************)
EXTENDS Naturals, FiniteSets

CONSTANTS
  MinThr, MaxThr, Cap,  \* arguments of threadpool_create
  Vary,                 \* DEFAULT_THREAD_VARY
  MinWait,              \* MIN_WAIT_TASK_NUM
  MaxTask,              \* bound on the calls of threadpool_add
  Joins,                \* create joins the workers; else it sleeps (line 63)
  Nobody, Producer      \* holders of the lock beside the workers

Slots == 0..(MaxThr - 1)

ASSUME PoolAssumption == /\ MinThr \in Nat \ {0}
                         /\ MaxThr \in Nat
                         /\ MinThr <= MaxThr
                         /\ Cap \in Nat \ {0}
                         /\ {Vary, MinWait, MaxTask} \subseteq Nat
                         /\ Joins \in BOOLEAN
                         /\ Nobody # Producer
                         /\ {Nobody, Producer} \cap Slots = {}

Null == 0
Garbage == MaxTask + 1

VARIABLES
  pool,       \* "creating", "up", "freed", or "crashed" with the process
  lock,       \* who holds pool->lock
  shutdown,
  ring,       \* task_queue: the argument in each slot is its task's number
  front, rear, size,
  got,        \* history: the task dequeued last
  live,       \* live_thr_num
  wait_exit,  \* wait_exit_thr_num
  wpc,        \* the thread in each slot of pool->threads
  apc, seen,  \* the adjusting thread and its local variables
  ppc, added, \* the adding thread, and how many tasks it has added
  dpc, i      \* the destroying thread and its loop index

queueVars == <<ring, front, rear, size, got, added>>
count == <<live, wait_exit>>
adjuster == <<apc, seen>>
destroyer == <<shutdown, dpc, i>>
vars == <<pool, lock, queueVars, count, wpc, adjuster, ppc, destroyer>>

(* busy_thr_num is counted with the steps that enter and leave "run". *)
busy == Cardinality({w \in Slots : wpc[w] = "run"})

(* create, up to the join: task_queue is not cleared. *)
Init == /\ pool = "creating"
        /\ lock = Nobody
        /\ shutdown = FALSE
        /\ ring \in [0..(Cap - 1) -> {Null, Garbage}]
        /\ front = 0 /\ rear = 0 /\ size = 0 /\ got = 0 /\ added = 0
        /\ live = MinThr
        /\ wait_exit = 0
        /\ wpc = [w \in Slots |-> IF w < MinThr THEN "idle" ELSE "none"]
        /\ apc = "top"
        /\ seen = [grow |-> FALSE, live |-> 0, signals |-> 0]
        /\ ppc = "out"
        /\ dpc = "none" /\ i = 0

Create == /\ pool = "creating"
          /\ Joins => \A w \in 0..(MinThr - 1) : wpc[w] = "exited"
          /\ pool' = "up"
          /\ UNCHANGED <<lock, queueVars, count, wpc, adjuster, ppc, destroyer>>

Alive == pool \in {"creating", "up"}

(* Faulty: nobody is woken. *)
SignalLost == UNCHANGED wpc

(* pthread_cond_signal(queue_not_empty) wakes one of the waiting workers. *)
Signal == LET idle == {w \in Slots : wpc[w] = "wait"} IN
          wpc' \in IF idle = {} THEN {wpc}
                   ELSE {[wpc EXCEPT ![w] = "woken"] : w \in idle}

(* Faulty: the ring does not wrap; or wraps one slot early. *)
AdvanceOnly(k) == k + 1
AdvanceShort(k) == IF k + 1 >= Cap - 1 THEN 0 ELSE k + 1

Advance(k) == (k + 1) % Cap

-----------------------------------------------------------------------------
(* threadpool_thread *)

Step(w, from, to) == Alive /\ wpc[w] = from /\ wpc' = [wpc EXCEPT ![w] = to]

(* Faulty: nobody is told of the room. *)
RoomUntold == ppc

(* pthread_cond_broadcast(queue_not_full) *)
RoomMade == IF ppc = "full" THEN "woken" ELSE ppc

(* The lock is taken; the pool is shut down, or the queue is empty, or a   *)
(* task is dequeued and the thread waiting for room is woken.              *)
Look(w, from) ==
  \/ /\ shutdown
     /\ Step(w, from, "exited")
     /\ UNCHANGED <<lock, queueVars, ppc>>
  \/ /\ ~shutdown /\ size = 0
     /\ Step(w, from, "towait")
     /\ lock' = w
     /\ UNCHANGED <<queueVars, ppc>>
  \/ /\ ~shutdown /\ size > 0
     /\ Step(w, from, "took")
     /\ got' = ring[front]
     /\ front' = Advance(front)
     /\ size' = size - 1
     /\ ppc' = RoomMade
     /\ UNCHANGED <<lock, ring, rear, added>>

Fetch(w) == /\ lock = Nobody
            /\ Look(w, "idle")
            /\ UNCHANGED <<pool, count, adjuster, destroyer>>

Wait(w) == /\ Step(w, "towait", "wait")
           /\ lock' = Nobody
           /\ UNCHANGED <<pool, queueVars, count, adjuster, ppc, destroyer>>

(* Faulty: the minimum is not looked at. *)
MustEndAny == wait_exit > 0

MustEnd == wait_exit > 0 /\ live > MinThr

(* Back from pthread_cond_wait: the thread may have to end. *)
Wake(w) == /\ lock = Nobody
           /\ wait_exit' = IF wait_exit > 0 THEN wait_exit - 1 ELSE 0
           /\ \/ /\ MustEnd
                 /\ Step(w, "woken", "exited")
                 /\ live' = live - 1
                 /\ UNCHANGED <<lock, queueVars, ppc>>
              \/ /\ ~MustEnd
                 /\ Look(w, "woken")
                 /\ UNCHANGED live
           /\ UNCHANGED <<pool, adjuster, destroyer>>

Work(w) == /\ Step(w, "took", "run") \/ Step(w, "run", "idle")
           /\ UNCHANGED <<pool, lock, queueVars, count, adjuster, ppc, destroyer>>

-----------------------------------------------------------------------------
(* adjust_thread *)

Adjust(from, to) == Alive /\ apc = from /\ apc' = to

Sleep == /\ Adjust("top", IF shutdown THEN "done" ELSE "asleep")
         /\ UNCHANGED <<pool, lock, queueVars, count, wpc, seen, ppc, destroyer>>

Sample == /\ lock = Nobody
          /\ Adjust("asleep", "count")
          /\ seen' = [grow |-> size >= MinWait /\ live < MaxThr,
                      live |-> live, signals |-> 0]
          /\ UNCHANGED <<pool, lock, queueVars, count, wpc, ppc, destroyer>>

(* busy_thr_num is read under its own lock; both conditions are known. *)
Count == /\ Adjust("count", "grow")
         /\ seen' = [seen EXCEPT !.signals =
                       IF busy * 2 < seen.live /\ seen.live > MinThr
                         THEN Vary ELSE 0]
         /\ UNCHANGED <<pool, lock, queueVars, count, wpc, ppc, destroyer>>

(* Up to Vary threads, in the first slots without a thread. *)
Dead == {w \in Slots : wpc[w] \in {"none", "exited"}}
Started == {S \in SUBSET Dead :
              /\ Cardinality(S) <= Vary
              /\ live + Cardinality(S) <= MaxThr
              /\ \A w \in S, d \in Dead \ S : w < d
              /\ \/ Cardinality(S) = Vary
                 \/ live + Cardinality(S) = MaxThr
                 \/ S = Dead}

Grow == /\ seen.grow => lock = Nobody
        /\ Adjust("grow", "shrink")
        /\ \E S \in IF seen.grow THEN Started ELSE {{}} :
             /\ wpc' = [w \in Slots |-> IF w \in S THEN "idle" ELSE wpc[w]]
             /\ live' = live + Cardinality(S)
        /\ UNCHANGED <<pool, lock, queueVars, wait_exit, seen, ppc, destroyer>>

Shrink == /\ seen.signals > 0 => lock = Nobody
          /\ Adjust("shrink", IF seen.signals > 0 THEN "signal" ELSE "top")
          /\ wait_exit' = IF seen.signals > 0 THEN Vary ELSE wait_exit
          /\ UNCHANGED <<pool, lock, queueVars, live, wpc, seen, ppc, destroyer>>

(* The signals are sent without the lock. *)
SignalExit == /\ Adjust("signal", IF seen.signals = 1 THEN "top" ELSE "signal")
              /\ seen' = [seen EXCEPT !.signals = @ - 1]
              /\ Signal
              /\ UNCHANGED <<pool, lock, queueVars, count, ppc, destroyer>>

-----------------------------------------------------------------------------
(* threadpool_add *)

(* The argument left in the slot is freed: garbage ends the process.       *)
Enqueue == \/ /\ ring[rear] # Garbage
              /\ ring' = [ring EXCEPT ![rear] = added + 1]
              /\ rear' = Advance(rear)
              /\ size' = size + 1
              /\ added' = added + 1
              /\ ppc' = "out"
              /\ Signal
              /\ UNCHANGED <<pool, front, got>>
           \/ /\ ring[rear] = Garbage
              /\ pool' = "crashed"
              /\ UNCHANGED <<queueVars, wpc, ppc>>

(* Faulty: full one task too late. *)
FullLate == size > Cap

Full == size = Cap

(* The lock is taken; the queue is full, or the pool is shut down, which   *)
(* does not keep the task out, or there is room.                           *)
Add == /\ pool = "up"
       /\ lock = Nobody
       /\ ppc = "woken" \/ (ppc = "out" /\ added < MaxTask)
       /\ \/ /\ ~shutdown /\ Full
             /\ ppc' = "tofull" /\ lock' = Producer
             /\ UNCHANGED <<pool, queueVars, wpc>>
          \/ /\ shutdown /\ ppc' = "stray"
             /\ UNCHANGED <<pool, lock, queueVars, wpc>>
          \/ ~shutdown /\ ~Full /\ Enqueue /\ UNCHANGED lock
       /\ UNCHANGED <<count, adjuster, destroyer>>

WaitRoom == /\ pool = "up"
            /\ ppc = "tofull"
            /\ ppc' = "full"
            /\ lock' = Nobody
            /\ UNCHANGED <<pool, queueVars, count, wpc, adjuster, destroyer>>

(* After the shutdown the lock is not held, but unlocked once more. *)
AddStray == /\ pool = "up"
            /\ ppc = "stray"
            /\ Enqueue
            /\ lock' = Nobody
            /\ UNCHANGED <<count, adjuster, destroyer>>

-----------------------------------------------------------------------------
(* threadpool_destroy *)

Shutdown == /\ pool = "up"
            /\ dpc = "none"
            /\ dpc' = "shut"
            /\ shutdown' = TRUE
            /\ UNCHANGED <<pool, lock, queueVars, count, wpc, adjuster, ppc, i>>

(* Faulty: the workers are not told. *)
BroadcastLost == /\ pool = "up"
                 /\ dpc = "shut"
                 /\ dpc' = "join"
                 /\ UNCHANGED <<pool, lock, shutdown, queueVars, count, wpc,
                                adjuster, ppc, i>>

Broadcast == /\ pool = "up"
             /\ dpc = "shut"
             /\ dpc' = "join"
             /\ wpc' = [w \in Slots |-> IF wpc[w] = "wait" THEN "woken"
                                                           ELSE wpc[w]]
             /\ UNCHANGED <<pool, lock, shutdown, queueVars, count, adjuster,
                            ppc, i>>

(* pthread_join(threads[i]); a slot below live_thr_num may have no thread. *)
Join == /\ pool = "up"
        /\ dpc = "join"
        /\ i < live
        /\ \/ wpc[i] = "exited" /\ i' = i + 1 /\ UNCHANGED pool
           \/ wpc[i] = "none" /\ pool' = "crashed" /\ UNCHANGED i
        /\ UNCHANGED <<lock, shutdown, queueVars, count, wpc, adjuster, ppc, dpc>>

(* threadpool_free.  Whatever still uses the pool is undefined. *)
Free == /\ pool = "up"
        /\ dpc = "join"
        /\ i >= live
        /\ pool' = "freed"
        /\ UNCHANGED <<lock, queueVars, count, wpc, adjuster, ppc, destroyer>>

-----------------------------------------------------------------------------
Worker(w) == Fetch(w) \/ Wait(w) \/ Wake(w) \/ Work(w)
Adjuster == Sleep \/ Sample \/ Count \/ Grow \/ Shrink \/ SignalExit
Destroyer == Broadcast \/ Join \/ Free

Next == \/ Create \/ Adjuster \/ Add \/ WaitRoom \/ AddStray
        \/ Shutdown \/ Destroyer
        \/ \E w \in Slots : Worker(w)

Spec == Init /\ [][Next]_vars

(* Threads that can run do, tasks end, and a thread that finds the lock    *)
(* free again and again gets it.                                           *)
FairSpec == /\ Spec
            /\ WF_vars(Create) /\ SF_vars(Adjuster) /\ WF_vars(Destroyer)
            /\ WF_vars(WaitRoom) /\ WF_vars(AddStray)
            /\ \A w \in Slots : SF_vars(Worker(w))

-----------------------------------------------------------------------------
Threads == {w \in Slots : wpc[w] \notin {"none", "exited"}}
Waiting == [k \in 1..size |-> ring[(front + k - 1) % Cap]]

(* Fields have their types, and whoever is about to wait for a condition   *)
(* holds the lock until the pool is shut down.                             *)
TypeOK == /\ pool \in {"creating", "up", "freed", "crashed"}
          /\ lock \in Slots \cup {Nobody, Producer}
          /\ shutdown \in BOOLEAN
          /\ ring \in [0..(Cap - 1) -> 0..Garbage]
          /\ {front, rear} \subseteq 0..(Cap - 1)
          /\ size \in Nat /\ {got, added} \subseteq 0..MaxTask
          /\ live \in Nat
          /\ wait_exit \in 0..Vary
          /\ wpc \in [Slots -> {"none", "idle", "towait", "wait", "woken",
                                "took", "run", "exited"}]
          /\ apc \in {"top", "asleep", "count", "grow", "shrink", "signal",
                      "done"}
          /\ seen \in [grow : BOOLEAN, live : Nat, signals : 0..Vary]
          /\ ppc \in {"out", "tofull", "full", "woken", "stray"}
          /\ dpc \in {"none", "shut", "join"} /\ i \in Nat
          /\ ~shutdown => /\ ppc = "tofull" => lock = Producer
                          /\ \A w \in Slots : wpc[w] = "towait" => lock = w

(* Until the shutdown, live_thr_num is the number of worker threads and    *)
(* stays between the two arguments of threadpool_create, however workers   *)
(* that end and threads that are started interleave.                       *)
LiveCount == ~shutdown => /\ live = Cardinality(Threads)
                          /\ live \in MinThr..MaxThr

(* The ring hands out each task once, in order, and is never overfull.     *)
Queue == INSTANCE TaskQueue WITH waiting <- IF shutdown THEN <<>> ELSE Waiting,
                                 closed <- shutdown
ImplementsQueue == Queue!Spec

(* The argument threadpool_add frees is that of the task added Cap tasks   *)
(* before: a task that runs loses its argument ("free is unsafe here")     *)
(* only when that many were added since.                                   *)
ArgLifetime == [][(added' # added /\ ~shutdown /\ ring[rear] # Null)
                     => ring[rear] + Cap = added']_vars

(* Unless threads were told to end, a task that was added is taken (or the *)
(* pool is shut down): no signal of threadpool_add is lost.                *)
TaskServed == [](wait_exit = 0)
  => \A t \in 1..MaxTask :
       (added >= t) ~> (got >= t \/ shutdown \/ pool = "crashed")

(* A call of threadpool_add that waits for room goes on, also when threads *)
(* are told to end, unless the pool is shut down: then nothing wakes it.   *)
(* A full queue holds MinWait tasks or more (10 of 50 in the code), so the *)
(* adjusting thread starts a worker when all of them sleep.                *)
AddGoesOn == (ppc = "full") ~> (ppc # "full" \/ shutdown)

(* Someone has yet to look at the queue before waiting on it. *)
Attended == ~shutdown /\ size > 0 =>
              \E w \in Slots : wpc[w] \in {"idle", "woken", "took", "run"}

(* No wakeup is lost between threadpool_add and the wait of a worker: a    *)
(* task is left behind with every worker waiting only by a worker that     *)
(* answers its signal by ending (wait_exit_thr_num).                       *)
AttendedKept == [][Attended /\ ~Attended' => wait_exit > 0 /\ live' < live]_vars

(* threadpool_add sleeps only while the queue is full: queue_not_full is   *)
(* never broadcast before it waits and then not again.                     *)
RoomTold == ~shutdown /\ ppc = "full" => Full

(* What shutdown without the lock costs: whatever the number of threads,   *)
(* at most one worker waits, or is about to, after the broadcast of        *)
(* threadpool_destroy.                                                     *)
OneLeftBehind == dpc = "join" =>
  \A u, w \in Slots : wpc[u] \in {"towait", "wait"} /\ wpc[w] \in {"towait", "wait"}
                        => u = w

(* threadpool_destroy returns, but for a worker that tested shutdown       *)
(* before it was set and waits after the broadcast, for ever.              *)
DestroyReturns == \/ (dpc = "shut") ~> (pool \in {"freed", "crashed"})
                  \/ \E w \in Slots : /\ <>(shutdown /\ wpc[w] = "towait")
                                      /\ <>[](wpc[w] = "wait")

(* "Wait until the threads are created, then return to the caller":        *)
(* threadpool_create returns.                                              *)
CreateReturns == <>(pool # "creating")
=============================================================================

-------------------------- MODULE ThreadPoolProofs --------------------------
(***************************************************************************)
(* Proofs about ThreadPool, for every number of threads, every size of the *)
(* queue and every number of tasks.                                        *)
(***************************************************************************)
EXTENDS ThreadPool, Sequences, FiniteSetTheorems, TLAPS

(* The index of a slot less than one round past the end of the ring. *)
Slot(x) == IF x < Cap THEN x ELSE x - Cap

(* The k-th slot from front on: first the tasks that wait, then what the   *)
(* tasks of the round before have left, or what malloc had put there.      *)
Content(k, x) ==
  IF k <= size THEN x = got + k
  ELSE \/ got + k > Cap /\ x = got + k - Cap
       \/ got + k <= Cap /\ x \in {Null, Garbage}

(* The ring until the shutdown. *)
RingInv ==
  /\ front \in 0..(Cap - 1)
  /\ size \in 0..Cap /\ got \in Nat
  /\ added = got + size
  /\ rear = Slot(front + size)
  /\ DOMAIN ring = 0..(Cap - 1)
  /\ \A k \in 1..Cap : Content(k, ring[Slot(front + k - 1)])

QInv == /\ shutdown \in BOOLEAN
        /\ ppc = "stray" => shutdown
        /\ ~shutdown => RingInv

LEMMA ModUnique ==
  ASSUME NEW a \in Nat, NEW c \in Nat \ {0}, NEW q \in Nat,
         NEW r \in 0..(c - 1), a = c * q + r
  PROVE  a % c = r
  OBVIOUS

LEMMA SlotMod ==
  ASSUME NEW x \in 0..(2 * Cap - 1)
  PROVE  x % Cap = Slot(x) /\ Slot(x) \in 0..(Cap - 1)
<1>1. Cap \in Nat \ {0} /\ x \in Nat
  BY PoolAssumption
<1>2. CASE x < Cap
  <2>1. x = Cap * 0 + x
    BY <1>1
  <2>2. x % Cap = x
    BY <1>1, <1>2, <2>1, ModUnique
  <2> QED  BY <1>1, <1>2, <2>2 DEF Slot
<1>3. CASE x >= Cap
  <2>1. x = Cap * 1 + (x - Cap) /\ x - Cap \in 0..(Cap - 1)
    BY <1>1, <1>3
  <2>2. x % Cap = x - Cap
    BY <1>1, <2>1, ModUnique
  <2> QED  BY <1>1, <1>3, <2>1, <2>2 DEF Slot
<1> QED  BY <1>1, <1>2, <1>3

LEMMA AdvanceSlot ==
  ASSUME NEW k \in 0..(Cap - 1)
  PROVE  Advance(k) = Slot(k + 1)
<1>1. k + 1 \in 0..(2 * Cap - 1)
  BY PoolAssumption
<1> QED  BY <1>1, SlotMod DEF Advance

-----------------------------------------------------------------------------
(* What a step does to the queue. *)
Taken == /\ ~shutdown /\ shutdown' = shutdown /\ size > 0
         /\ got' = ring[front]
         /\ front' = Advance(front)
         /\ size' = size - 1
         /\ UNCHANGED <<ring, rear, added>>

Put == /\ ~shutdown /\ shutdown' = shutdown /\ size # Cap
       /\ ring[rear] # Garbage
       /\ ring' = [ring EXCEPT ![rear] = added + 1]
       /\ rear' = Advance(rear)
       /\ size' = size + 1
       /\ added' = added + 1
       /\ UNCHANGED <<front, got>>

LEMMA Effect ==
  ASSUME QInv, [Next]_vars
  PROVE  /\ shutdown' \in BOOLEAN
         /\ ppc' = "stray" => shutdown'
         /\ \/ UNCHANGED queueVars /\ (shutdown => shutdown')
            \/ shutdown /\ shutdown' /\ UNCHANGED got
            \/ Taken
            \/ Put
<1> USE DEF QInv, queueVars
<1>1. ASSUME NEW w \in Slots, Worker(w)
      PROVE  /\ shutdown' = shutdown
             /\ ppc' = ppc \/ ppc' = "woken"
             /\ UNCHANGED queueVars \/ Taken
  <2>1. CASE Fetch(w)
    BY <2>1 DEF Fetch, Look, RoomMade, destroyer, Taken
  <2>2. CASE Wait(w)
    BY <2>2 DEF Wait, destroyer
  <2>3. CASE Wake(w)
    BY <2>3 DEF Wake, Look, RoomMade, destroyer, Taken
  <2>4. CASE Work(w)
    BY <2>4 DEF Work, destroyer
  <2> QED  BY <1>1, <2>1, <2>2, <2>3, <2>4 DEF Worker
<1>2. CASE Create \/ Adjuster \/ WaitRoom \/ Destroyer
  BY <1>2 DEF Create, Adjuster, Sleep, Sample, Count, Grow, Shrink, SignalExit,
              WaitRoom, Destroyer, Broadcast, Join, Free, destroyer
<1>3. CASE Add
  BY <1>3 DEF Add, Enqueue, Full, destroyer, Put
<1>4. CASE AddStray
  BY <1>4 DEF AddStray, Enqueue, destroyer
<1>5. CASE Shutdown
  BY <1>5 DEF Shutdown
<1>6. CASE UNCHANGED vars
  BY <1>6 DEF vars, destroyer
<1> QED  BY <1>1, <1>2, <1>3, <1>4, <1>5, <1>6 DEF Next

(* The slots of one round differ. *)
LEMMA SlotsApart ==
  ASSUME NEW f \in 0..(Cap - 1), NEW j \in 0..(Cap - 1), NEW k \in 0..(Cap - 1)
  PROVE  /\ Slot(f + j) \in 0..(Cap - 1)
         /\ j # k => Slot(f + j) # Slot(f + k)
  BY PoolAssumption DEF Slot

LEMMA TakeKeepsRing == RingInv /\ Taken => RingInv' /\ got' = got + 1
<1> SUFFICES ASSUME RingInv, Taken PROVE RingInv' /\ got' = got + 1
  OBVIOUS
<1>1. /\ Cap \in Nat /\ Cap > 0 /\ front \in 0..(Cap - 1)
      /\ size \in 1..Cap /\ got \in Nat
  BY PoolAssumption DEF RingInv, Taken
<1>2. front' = Slot(front + 1) /\ front' \in 0..(Cap - 1)
  BY <1>1, AdvanceSlot DEF Taken, Slot
<1>3. ring[front] = got + 1
  <2>1. Content(1, ring[Slot(front + 1 - 1)])
    BY <1>1 DEF RingInv
  <2>2. Slot(front + 1 - 1) = front
    BY <1>1 DEF Slot
  <2> QED  BY <1>1, <2>1, <2>2 DEF Content
<1>4. got' = got + 1 /\ size' = size - 1 /\ ring' = ring
  BY <1>3 DEF Taken
<1>5. ASSUME NEW k \in 1..Cap
      PROVE  Content(k, ring[Slot(front + k - 1)])'
  <2>1. CASE k < Cap
    <3>1. Slot(front' + k - 1) = Slot(front + (k + 1) - 1)
      BY <1>1, <1>2, <2>1 DEF Slot
    <3>2. Content(k + 1, ring[Slot(front + (k + 1) - 1)])
      BY <1>1, <2>1 DEF RingInv
    <3> DEFINE x == ring[Slot(front + (k + 1) - 1)]
    <3>3. ring'[Slot(front' + k - 1)] = x
      BY <1>4, <3>1
    <3>4. Content(k + 1, x)
      BY <3>2
    <3> HIDE DEF x
    <3>5. IF k <= size' THEN x = got' + k
          ELSE \/ got' + k > Cap /\ x = got' + k - Cap
               \/ got' + k <= Cap /\ x \in {Null, Garbage}
      BY <1>1, <1>4, <3>4 DEF Content
    <3> QED  BY <3>3, <3>5 DEF Content, Slot
  <2>2. CASE k = Cap
    <3>1. Slot(front' + k - 1) = front
      BY <1>1, <1>2, <2>2 DEF Slot
    <3>2. ring'[Slot(front' + k - 1)] = got' + k - Cap
      BY <1>1, <1>3, <1>4, <2>2, <3>1
    <3>3. ~(k <= size') /\ got' + k > Cap
      BY <1>1, <1>4, <2>2
    <3> QED  BY <3>2, <3>3 DEF Content, Slot
  <2> QED  BY <1>1, <2>1, <2>2
<1>6. rear' = Slot(front' + size')
  BY <1>1, <1>2, <1>4 DEF RingInv, Taken, Slot
<1>7. added' = got' + size'
  BY <1>1, <1>4 DEF RingInv, Taken
<1>8. DOMAIN ring' = 0..(Cap - 1) /\ size' \in 0..Cap /\ got' \in Nat
  BY <1>1, <1>4 DEF RingInv
<1> QED  BY <1>2, <1>4, <1>5, <1>6, <1>7, <1>8 DEF RingInv, Slot

(* What the slot at rear holds when there is room. *)
LEMMA Rear ==
  ASSUME RingInv, size # Cap
  PROVE  /\ rear \in 0..(Cap - 1)
         /\ \/ added >= Cap /\ ring[rear] = added + 1 - Cap
            \/ added < Cap /\ ring[rear] \in {Null, Garbage}
<1>1. /\ Cap \in Nat /\ Cap > 0 /\ front \in 0..(Cap - 1)
      /\ size \in 0..Cap /\ got \in Nat /\ size + 1 \in 1..Cap
  BY PoolAssumption DEF RingInv
<1>2. Content(size + 1, ring[Slot(front + (size + 1) - 1)])
  BY <1>1 DEF RingInv
<1>3. rear = Slot(front + (size + 1) - 1)
  BY <1>1 DEF RingInv, Slot
<1>4. rear \in 0..(Cap - 1)
  BY <1>1 DEF RingInv, Slot
<1>5. Content(size + 1, ring[rear])
  BY <1>2, <1>3
<1>6. added = got + size
  BY DEF RingInv
<1> QED  BY <1>1, <1>4, <1>5, <1>6 DEF Content

LEMMA PutKeepsRing == RingInv /\ Put => RingInv'
<1> SUFFICES ASSUME RingInv, Put PROVE RingInv'
  OBVIOUS
<1>1. /\ Cap \in Nat /\ Cap > 0 /\ front \in 0..(Cap - 1)
      /\ size \in 0..(Cap - 1) /\ got \in Nat /\ added = got + size
  BY PoolAssumption DEF RingInv, Put
<1>2. rear \in 0..(Cap - 1) /\ rear = Slot(front + size)
  BY Rear DEF RingInv, Put
<1>3. /\ front' = front /\ got' = got /\ size' = size + 1
      /\ added' = got' + size' /\ rear' = Slot(rear + 1)
      /\ DOMAIN ring' = 0..(Cap - 1) /\ ring'[rear] = got + size + 1
      /\ \A s \in 0..(Cap - 1) : s # rear => ring'[s] = ring[s]
  BY <1>1, <1>2, AdvanceSlot DEF Put, RingInv
<1>4. rear' = Slot(front' + size')
  BY <1>1, <1>2, <1>3 DEF Slot
<1>5. ASSUME NEW k \in 1..Cap
      PROVE  Content(k, ring[Slot(front + k - 1)])'
  <2>1. k - 1 \in 0..(Cap - 1) /\ front + k - 1 = front + (k - 1)
    BY <1>1
  <2>2. CASE k = size + 1
    <3>1. Slot(front' + k - 1) = rear
      BY <1>1, <1>2, <1>3, <2>2
    <3>2. ring'[Slot(front' + k - 1)] = got' + k /\ k <= size'
      BY <1>1, <1>3, <2>2, <3>1
    <3> QED  BY <3>2 DEF Content, Slot
  <2>3. CASE k # size + 1
    <3> DEFINE s == Slot(front + k - 1)
               x == ring[s]
    <3>1. s \in 0..(Cap - 1) /\ s # rear
      <4>1. k - 1 # size
        BY <1>1, <2>3
      <4>2. s = Slot(front + (k - 1))
        BY <2>1
      <4> QED  BY <1>1, <1>2, <2>1, <4>1, <4>2, SlotsApart
    <3>2. ring'[Slot(front' + k - 1)] = x
      BY <1>3, <3>1
    <3>3. Content(k, x)
      BY DEF RingInv
    <3> HIDE DEF x
    <3>4. IF k <= size' THEN x = got' + k
          ELSE \/ got' + k > Cap /\ x = got' + k - Cap
               \/ got' + k <= Cap /\ x \in {Null, Garbage}
      BY <1>1, <1>3, <2>3, <3>3 DEF Content
    <3> QED  BY <3>2, <3>4 DEF Content, Slot
  <2> QED  BY <2>2, <2>3
<1>6. size' \in 0..Cap /\ got' \in Nat /\ front' \in 0..(Cap - 1)
  BY <1>1, <1>3
<1> QED  BY <1>3, <1>4, <1>5, <1>6 DEF RingInv, Slot

LEMMA QInvInit == Init => QInv
<1> SUFFICES ASSUME Init PROVE QInv
  OBVIOUS
<1>1. /\ Cap \in Nat /\ Cap > 0 /\ front = 0 /\ size = 0 /\ got = 0 /\ rear = 0
      /\ added = 0 /\ ring \in [0..(Cap - 1) -> {Null, Garbage}]
  BY PoolAssumption DEF Init
<1>2. \A k \in 1..Cap : Slot(front + k - 1) = k - 1 /\ k - 1 \in 0..(Cap - 1)
  BY <1>1 DEF Slot
<1>3. \A k \in 1..Cap : ring[Slot(front + k - 1)] \in {Null, Garbage}
  BY <1>1, <1>2
<1>4. \A k \in 1..Cap : Content(k, ring[Slot(front + k - 1)])
  BY <1>1, <1>3 DEF Content
<1>5. rear = Slot(front + size)
  BY <1>1 DEF Slot
<1>6. shutdown = FALSE /\ ppc = "out"
  BY DEF Init
<1>7. RingInv
  BY <1>1, <1>4, <1>5 DEF RingInv
<1> QED  BY <1>6, <1>7 DEF QInv

LEMMA QInvStep == QInv /\ [Next]_vars => QInv'
<1> SUFFICES ASSUME QInv, [Next]_vars PROVE QInv'
  OBVIOUS
<1>1. shutdown' \in BOOLEAN /\ (ppc' = "stray" => shutdown')
  BY Effect
<1>2. ASSUME ~shutdown' PROVE RingInv'
  <2>1. CASE UNCHANGED queueVars /\ (shutdown => shutdown')
    BY <1>2, <2>1 DEF QInv, queueVars, RingInv, Content, Slot
  <2>2. CASE Taken
    BY <2>2, TakeKeepsRing DEF QInv, Taken
  <2>3. CASE Put
    BY <2>3, PutKeepsRing DEF QInv, Put
  <2> QED  BY <1>2, <2>1, <2>2, <2>3, Effect
<1> QED  BY <1>1, <1>2 DEF QInv

LEMMA QInvariance == Spec => []QInv
  BY QInvInit, QInvStep, PTL DEF Spec

(* threadpool_add frees the argument of the task added Cap tasks before,   *)
(* for every size of the queue.                                            *)
THEOREM FreedArgument == Spec => ArgLifetime
<1>1. ASSUME QInv, [Next]_vars
      PROVE  added' # added /\ ~shutdown /\ ring[rear] # Null
               => ring[rear] + Cap = added'
  <2> SUFFICES ASSUME added' # added, ~shutdown, ring[rear] # Null
               PROVE  ring[rear] + Cap = added'
    OBVIOUS
  <2>1. Put
    BY <1>1, Effect DEF Taken, queueVars
  <2>2. RingInv
    BY <1>1 DEF QInv
  <2>3. /\ added >= Cap /\ ring[rear] = added + 1 - Cap
        /\ added' = added + 1
    BY <2>1, <2>2, Rear DEF Put
  <2>4. added \in Nat /\ Cap \in Nat
    BY <2>2, PoolAssumption DEF RingInv
  <2> QED  BY <2>3, <2>4
<1>2. QInv /\ [Next]_vars =>
        [added' # added /\ ~shutdown /\ ring[rear] # Null
            => ring[rear] + Cap = added']_vars
  BY <1>1
<1> QED  BY <1>2, QInvariance, PTL DEF Spec, ArgLifetime

-----------------------------------------------------------------------------
(* Until the shutdown the queue holds the tasks after the last one taken. *)
Ahead == [k \in 1..size |-> got + k]
LEMMA WaitingIs ==
  RingInv => /\ Waiting = Ahead
             /\ size \in Nat /\ got \in Nat /\ size <= Cap
<1> SUFFICES ASSUME RingInv
             PROVE  /\ Waiting = Ahead
                    /\ size \in Nat /\ got \in Nat /\ size <= Cap
  OBVIOUS
<1>1. /\ Cap \in Nat /\ Cap > 0 /\ front \in 0..(Cap - 1)
      /\ size \in 0..Cap /\ got \in Nat
  BY PoolAssumption DEF RingInv
<1>2. ASSUME NEW k \in 1..size
      PROVE  ring[(front + k - 1) % Cap] = got + k
  <2>1. k \in 1..Cap /\ front + k - 1 \in 0..(2 * Cap - 1)
    BY <1>1
  <2>2. (front + k - 1) % Cap = Slot(front + k - 1)
    BY <2>1, SlotMod
  <2>3. Content(k, ring[Slot(front + k - 1)])
    BY <2>1 DEF RingInv
  <2> QED  BY <1>1, <2>2, <2>3 DEF Content
<1> QED  BY <1>1, <1>2 DEF Waiting, Ahead

LEMMA TakeRefines == RingInv /\ Taken => Queue!Take
<1> SUFFICES ASSUME RingInv, Taken PROVE Queue!Take
  OBVIOUS
<1>1. RingInv' /\ got' = got + 1 /\ size' = size - 1 /\ size > 0
  BY TakeKeepsRing DEF Taken
<1>2. /\ Waiting = [k \in 1..size |-> got + k]
      /\ size \in Nat /\ got \in Nat
  BY WaitingIs DEF Ahead
<1>3. Waiting' = [k \in 1..(size - 1) |-> got + 1 + k]
  <2>1. (Waiting = Ahead)'
    BY <1>1, WaitingIs, PTL
  <2> QED  BY <1>1, <2>1 DEF Ahead
<1> DEFINE s == [k \in 1..size |-> got + k]
           t == [k \in 1..(size - 1) |-> got + 1 + k]
<1>4. s \in Seq(Nat) /\ s # <<>> /\ Head(s) = got + 1
  BY <1>1, <1>2
<1>5. Tail(s) = t
  <2>1. Len(s) = size
    BY <1>2
  <2>2. Tail(s) = [k \in 1..(size - 1) |-> s[k + 1]]
    BY <1>1, <1>2, <1>4, <2>1
  <2>3. \A k \in 1..(size - 1) : s[k + 1] = got + 1 + k
    BY <1>1, <1>2
  <2> QED  BY <2>2, <2>3
<1>6. ~shutdown /\ shutdown' = shutdown
  BY DEF Taken
<1> HIDE DEF s, t
<1>7. Waiting = s /\ Waiting' = t
  BY <1>2, <1>3 DEF s, t
<1> QED  BY <1>1, <1>4, <1>5, <1>6, <1>7 DEF Queue!Take

LEMMA PutRefines == RingInv /\ Put => Queue!Put
<1> SUFFICES ASSUME RingInv, Put PROVE Queue!Put
  OBVIOUS
<1>1. RingInv' /\ got' = got /\ size' = size + 1 /\ size # Cap
  BY PutKeepsRing DEF Put
<1>2. /\ Waiting = [k \in 1..size |-> got + k]
      /\ size \in Nat /\ got \in Nat /\ size <= Cap
  BY WaitingIs DEF Ahead
<1>3. Waiting' = [k \in 1..(size + 1) |-> got + k]
  <2>1. (Waiting = Ahead)'
    BY <1>1, WaitingIs, PTL
  <2> QED  BY <1>1, <2>1 DEF Ahead
<1> DEFINE s == [k \in 1..size |-> got + k]
           t == [k \in 1..(size + 1) |-> got + k]
<1>4. s \in Seq(Nat) /\ Len(s) = size
  BY <1>2
<1>5. Append(s, got + Len(s) + 1) = t
  BY <1>2, <1>4
<1>6. ~shutdown /\ shutdown' = shutdown /\ Len(s) < Cap
  BY <1>1, <1>2, <1>4, PoolAssumption DEF Put
<1> HIDE DEF s, t
<1>7. Waiting = s /\ Waiting' = t
  BY <1>2, <1>3 DEF s, t
<1> QED  BY <1>1, <1>5, <1>6, <1>7 DEF Queue!Put

(* The ring of threadpool.c is the queue it should be, whatever its size:  *)
(* tasks are handed out once, in order, at most Cap wait, none after the   *)
(* shutdown.                                                               *)
THEOREM QueueRefined == Spec => ImplementsQueue
<1>1. Init => Queue!Init
  <2> SUFFICES ASSUME Init PROVE Queue!Init
    OBVIOUS
  <2>1. RingInv
    BY QInvInit DEF Init, QInv
  <2>2. shutdown = FALSE /\ size = 0 /\ got = 0
    BY DEF Init
  <2>3. Waiting = <<>>
    BY <2>1, <2>2, WaitingIs DEF Ahead
  <2> QED  BY <2>2, <2>3 DEF Queue!Init
<1>2. ASSUME QInv, [Next]_vars
      PROVE  [Queue!Next]_Queue!vars
  <2>1. CASE UNCHANGED queueVars /\ shutdown' = shutdown
    BY <2>1 DEF Queue!vars, queueVars, Waiting
  <2>2. CASE got' = got /\ shutdown'
    BY <2>2 DEF Queue!Next, Queue!Close
  <2>3. CASE Taken
    BY <1>2, <2>3, TakeRefines DEF QInv, Taken, Queue!Next
  <2>4. CASE Put
    BY <1>2, <2>4, PutRefines DEF QInv, Put, Queue!Next
  <2>5. shutdown \in BOOLEAN /\ shutdown' \in BOOLEAN
    BY <1>2, Effect DEF QInv
  <2> QED  BY <1>2, <2>1, <2>2, <2>3, <2>4, <2>5, Effect DEF queueVars
<1> QED  BY <1>1, <1>2, QInvariance, PTL DEF Spec, ImplementsQueue, Queue!Spec

-----------------------------------------------------------------------------
(* The type invariant in parts that few actions disturb.  A call of        *)
(* threadpool_add that has begun is counted in the bound, and the          *)
(* adjusting thread has signals left while it sends them.                  *)
States == {"none", "idle", "towait", "wait", "woken", "took", "run", "exited"}

PoolTypes == /\ pool \in {"creating", "up", "freed", "crashed"}
             /\ lock \in Slots \cup {Nobody, Producer}
             /\ shutdown \in BOOLEAN
             /\ dpc \in {"none", "shut", "join"} /\ i \in Nat
QueueTypes == /\ ring \in [0..(Cap - 1) -> 0..Garbage]
              /\ front \in 0..(Cap - 1) /\ rear \in 0..(Cap - 1)
              /\ size \in Nat /\ got \in 0..MaxTask /\ added \in 0..MaxTask
              /\ ppc \in {"out", "tofull", "full", "woken", "stray"}
              /\ ppc # "out" => added < MaxTask
CountTypes == /\ live \in Nat /\ wait_exit \in 0..Vary
              /\ apc \in {"top", "asleep", "count", "grow", "shrink", "signal",
                          "done"}
              /\ seen \in [grow : BOOLEAN, live : Nat, signals : 0..Vary]
              /\ apc = "signal" => seen.signals > 0
WorkerTypes == wpc \in [Slots -> States]
LockHeld == ~shutdown => /\ ppc = "tofull" => lock = Producer
                         /\ \A w \in Slots : wpc[w] = "towait" => lock = w

TInv == QInv /\ PoolTypes /\ QueueTypes /\ CountTypes /\ WorkerTypes /\ LockHeld

LEMMA TInvTypes == TInv => TypeOK
  BY DEF TInv, PoolTypes, QueueTypes, CountTypes, WorkerTypes, LockHeld, TypeOK,
         States

LEMMA Constants ==
  /\ \A w \in Slots : w # Nobody /\ w # Producer
  /\ Nobody # Producer /\ Cap \in Nat /\ Cap > 0
  /\ Vary \in Nat /\ MaxTask \in Nat /\ Garbage = MaxTask + 1
  /\ \A k \in 0..(Cap - 1) : Advance(k) \in 0..(Cap - 1)
<1>1. Cap \in Nat /\ Cap > 0
  BY PoolAssumption
<1>2. \A k \in 0..(Cap - 1) : Advance(k) \in 0..(Cap - 1)
  BY <1>1, AdvanceSlot DEF Slot
<1> QED  BY <1>1, <1>2, PoolAssumption DEF Garbage

LEMMA SlotsFinite == IsFiniteSet(Slots)
<1>1. 0 \in Int /\ MaxThr - 1 \in Int
  BY PoolAssumption
<1> QED  BY <1>1, FS_Interval DEF Slots

LEMMA SignalTypes ==
  ASSUME WorkerTypes, Signal
  PROVE  /\ WorkerTypes'
         /\ \A w \in Slots : wpc'[w] = "towait" <=> wpc[w] = "towait"
         /\ Threads' = Threads
<1>1. CASE wpc' = wpc
  BY <1>1 DEF WorkerTypes, Threads
<1>2. CASE \E w \in Slots : wpc[w] = "wait" /\ wpc' = [wpc EXCEPT ![w] = "woken"]
  BY <1>2 DEF WorkerTypes, Threads, States
<1> QED  BY <1>1, <1>2 DEF Signal

LEMMA TInvInit == Init => TInv
<1> SUFFICES ASSUME Init PROVE TInv
  OBVIOUS
<1>1. ring \in [0..(Cap - 1) -> 0..Garbage]
  <2>1. ring \in [0..(Cap - 1) -> {Null, Garbage}]
    BY DEF Init
  <2>2. Null \in 0..Garbage /\ Garbage \in 0..Garbage
    BY Constants DEF Null
  <2> QED  BY <2>1, <2>2
<1>2. QueueTypes
  <2>1. 0 \in 0..(Cap - 1) /\ 0 \in 0..MaxTask /\ 0 \in Nat
    BY Constants
  <2>2. /\ front = 0 /\ rear = 0 /\ size = 0 /\ got = 0 /\ added = 0
        /\ ppc = "out"
    BY DEF Init
  <2> QED  BY <1>1, <2>1, <2>2 DEF QueueTypes
<1>3. PoolTypes /\ LockHeld
  BY DEF Init, PoolTypes, LockHeld
<1>4. CountTypes
  BY Constants, PoolAssumption DEF Init, CountTypes
<1>5. WorkerTypes
  BY DEF Init, WorkerTypes, States
<1> QED  BY <1>2, <1>3, <1>4, <1>5, QInvInit DEF TInv

LEMMA KeepPool == TInv /\ Next => PoolTypes'
<1> SUFFICES ASSUME TInv, Next PROVE PoolTypes'
  OBVIOUS
<1>0. PoolTypes
  BY DEF TInv
<1>1. ASSUME NEW w \in Slots, Worker(w) PROVE PoolTypes'
  BY <1>0, <1>1 DEF PoolTypes, Worker, Fetch, Wait, Wake, Work, Look, destroyer
<1>2. CASE Create \/ Adjuster \/ WaitRoom \/ Shutdown
  BY <1>0, <1>2 DEF PoolTypes, Create, Adjuster, Sleep, Sample, Count, Grow,
                    Shrink, SignalExit, WaitRoom, Shutdown, destroyer
<1>3. CASE Add \/ AddStray
  BY <1>0, <1>3 DEF PoolTypes, Add, AddStray, Enqueue, destroyer
<1>4. CASE Destroyer
  BY <1>0, <1>4 DEF PoolTypes, Destroyer, Broadcast, Join, Free, destroyer
<1> QED  BY <1>1, <1>2, <1>3, <1>4 DEF Next

LEMMA KeepQueue == TInv /\ Next => QueueTypes'
<1> SUFFICES ASSUME TInv, Next PROVE QueueTypes'
  OBVIOUS
<1>0. QueueTypes /\ QInv
  BY DEF TInv
<1>1. ASSUME UNCHANGED queueVars, ppc' \in {ppc, "out"} PROVE QueueTypes'
  BY <1>0, <1>1 DEF QueueTypes, queueVars
<1>2. ASSUME NEW w \in Slots, NEW from, Look(w, from), shutdown' = shutdown
      PROVE  QueueTypes'
  <2>1. CASE UNCHANGED <<queueVars, ppc>>
    BY <1>1, <2>1
  <2>2. CASE ~UNCHANGED <<queueVars, ppc>>
    <3>1. Taken /\ ppc' = IF ppc = "full" THEN "woken" ELSE ppc
      BY <1>2, <2>2 DEF Look, RoomMade, Taken
    <3>2. got' = got + 1 /\ got + 1 <= added /\ got \in Nat
      BY <1>0, <3>1, TakeKeepsRing DEF QInv, RingInv, Taken
    <3>3. got' \in 0..MaxTask /\ front' \in 0..(Cap - 1) /\ size' \in Nat
      BY <1>0, <3>1, <3>2, Constants DEF QueueTypes, Taken
    <3> QED  BY <1>0, <3>1, <3>3 DEF QueueTypes, Taken
  <2> QED  BY <2>1, <2>2
<1>3. ASSUME NEW w \in Slots, Worker(w) PROVE QueueTypes'
  <2>1. CASE Fetch(w)
    BY <1>2, <2>1 DEF Fetch, destroyer
  <2>2. CASE Wait(w) \/ Work(w)
    BY <1>1, <2>2 DEF Wait, Work
  <2>3. CASE Wake(w)
    BY <1>1, <1>2, <2>3 DEF Wake, destroyer
  <2> QED  BY <1>3, <2>1, <2>2, <2>3 DEF Worker
<1>4. CASE Create \/ Adjuster \/ Shutdown \/ Destroyer
  BY <1>1, <1>4 DEF Create, Adjuster, Sleep, Sample, Count, Grow, Shrink,
                    SignalExit, Shutdown, Destroyer, Broadcast, Join, Free
<1>5. CASE WaitRoom
  BY <1>0, <1>5 DEF WaitRoom, QueueTypes, queueVars
<1>6. ASSUME Enqueue, added < MaxTask PROVE QueueTypes'
  <2>1. CASE UNCHANGED <<queueVars, ppc>>
    BY <1>1, <2>1
  <2>2. CASE ~UNCHANGED <<queueVars, ppc>>
    <3>1. /\ ring' = [ring EXCEPT ![rear] = added + 1]
          /\ rear' = Advance(rear) /\ size' = size + 1 /\ added' = added + 1
          /\ ppc' = "out" /\ UNCHANGED <<front, got>>
      BY <1>6, <2>2 DEF Enqueue
    <3>2. added + 1 \in 0..MaxTask /\ added + 1 \in 0..Garbage
      BY <1>0, <1>6, Constants DEF QueueTypes
    <3>3. ring' \in [0..(Cap - 1) -> 0..Garbage]
      BY <1>0, <3>1, <3>2 DEF QueueTypes
    <3>4. rear' \in 0..(Cap - 1) /\ size' \in Nat
      BY <1>0, <3>1, Constants DEF QueueTypes
    <3> QED  BY <1>0, <3>1, <3>2, <3>3, <3>4 DEF QueueTypes
  <2> QED  BY <2>1, <2>2
<1>7. CASE Add
  <2>1. added < MaxTask
    BY <1>0, <1>7 DEF Add, QueueTypes
  <2>2. CASE Enqueue
    BY <1>6, <2>1, <2>2
  <2>3. CASE ~Enqueue
    BY <1>0, <1>7, <2>1, <2>3 DEF Add, QueueTypes, queueVars
  <2> QED  BY <2>2, <2>3
<1>8. CASE AddStray
  BY <1>0, <1>6, <1>8 DEF AddStray, QueueTypes
<1> QED  BY <1>3, <1>4, <1>5, <1>7, <1>8 DEF Next

LEMMA KeepCount == TInv /\ Next => CountTypes'
<1> SUFFICES ASSUME TInv, Next PROVE CountTypes'
  OBVIOUS
<1>0. CountTypes
  BY DEF TInv
<1>1. ASSUME UNCHANGED <<count, adjuster>> PROVE CountTypes'
  BY <1>0, <1>1 DEF CountTypes, count, adjuster
<1>2. ASSUME NEW w \in Slots, Worker(w) PROVE CountTypes'
  <2>1. CASE Fetch(w) \/ Wait(w) \/ Work(w)
    BY <1>1, <2>1 DEF Fetch, Wait, Work
  <2>2. CASE Wake(w)
    <3>1. wait_exit' \in 0..Vary /\ UNCHANGED adjuster
      BY <1>0, <2>2, Constants DEF Wake, CountTypes
    <3>2. live' = live \/ (live' = live - 1 /\ live > MinThr)
      BY <2>2 DEF Wake, MustEnd
    <3>3. live' \in Nat
      BY <1>0, <3>2, PoolAssumption DEF CountTypes
    <3> QED  BY <1>0, <3>1, <3>3 DEF CountTypes, adjuster
  <2> QED  BY <1>2, <2>1, <2>2 DEF Worker
<1>3. CASE Create \/ Add \/ WaitRoom \/ AddStray \/ Shutdown \/ Destroyer
  BY <1>1, <1>3 DEF Create, Add, WaitRoom, AddStray, Shutdown, Destroyer,
                    Broadcast, Join, Free
<1>4. CASE Adjuster
  <2>1. CASE Sleep
    BY <1>0, <2>1 DEF Sleep, Adjust, CountTypes, count
  <2>2. CASE Sample
    BY <1>0, <2>2, Constants DEF Sample, Adjust, CountTypes, count
  <2>3. CASE Count
    <3>1. seen' \in [grow : BOOLEAN, live : Nat, signals : 0..Vary]
      BY <1>0, <2>3, Constants DEF Count, CountTypes
    <3> QED  BY <1>0, <2>3, <3>1 DEF Count, Adjust, CountTypes, count
  <2>4. CASE Grow
    <3>1. PICK S \in IF seen.grow THEN Started ELSE {{}} :
                 live' = live + Cardinality(S)
      BY <2>4 DEF Grow
    <3>2. S \subseteq Slots
      BY <3>1 DEF Started, Dead
    <3>3. Cardinality(S) \in Nat
      BY <3>2, SlotsFinite, FS_Subset, FS_CardinalityType
    <3>4. live' \in Nat
      BY <1>0, <3>1, <3>3 DEF CountTypes
    <3> QED  BY <1>0, <2>4, <3>4 DEF Grow, Adjust, CountTypes
  <2>5. CASE Shrink
    BY <1>0, <2>5, Constants DEF Shrink, Adjust, CountTypes
  <2>6. CASE SignalExit
    <3>1. seen.signals \in 1..Vary
      BY <1>0, <2>6, Constants DEF SignalExit, Adjust, CountTypes
    <3>2. /\ seen' \in [grow : BOOLEAN, live : Nat, signals : 0..Vary]
          /\ seen'.signals = seen.signals - 1
      BY <1>0, <2>6, <3>1, Constants DEF SignalExit, CountTypes
    <3> QED  BY <1>0, <2>6, <3>1, <3>2, Constants
             DEF SignalExit, Adjust, CountTypes, count
  <2> QED  BY <1>4, <2>1, <2>2, <2>3, <2>4, <2>5, <2>6 DEF Adjuster
<1> QED  BY <1>2, <1>3, <1>4 DEF Next

(* Workers: their states, and who holds the lock. *)
LEMMA KeepWorkers == TInv /\ Next => WorkerTypes' /\ LockHeld'
<1> SUFFICES ASSUME TInv, Next PROVE WorkerTypes' /\ LockHeld'
  OBVIOUS
<1>0. WorkerTypes /\ LockHeld /\ QInv
  BY DEF TInv
<1> USE DEF destroyer
<1>1. ASSUME /\ wpc' = wpc \/ Signal
             /\ lock' = lock /\ ppc' \in {ppc, "out", "stray"}
             /\ shutdown => shutdown'
      PROVE  WorkerTypes' /\ LockHeld'
  <2>1. /\ WorkerTypes'
        /\ \A w \in Slots : wpc'[w] = "towait" <=> wpc[w] = "towait"
    BY <1>0, <1>1, SignalTypes DEF WorkerTypes
  <2> QED  BY <1>0, <1>1, <2>1 DEF LockHeld
<1>2. ASSUME NEW w \in Slots, NEW from, Look(w, from), lock = Nobody,
             shutdown' = shutdown
      PROVE  WorkerTypes' /\ LockHeld'
  BY <1>0, <1>2, Constants DEF Look, RoomMade, Step, WorkerTypes, LockHeld, States
<1>3. ASSUME NEW w \in Slots, Worker(w) PROVE WorkerTypes' /\ LockHeld'
  <2>1. CASE Fetch(w)
    BY <1>2, <2>1 DEF Fetch
  <2>2. CASE Wait(w)
    BY <1>0, <2>2, Constants DEF Wait, Step, WorkerTypes, LockHeld, States
  <2>3. CASE Wake(w)
    <3>1. CASE MustEnd
      BY <1>0, <2>3, <3>1 DEF Wake, Step, WorkerTypes, LockHeld, States
    <3>2. CASE ~MustEnd
      BY <1>2, <2>3, <3>2 DEF Wake
    <3> QED  BY <3>1, <3>2
  <2>4. CASE Work(w)
    BY <1>0, <2>4 DEF Work, Step, WorkerTypes, LockHeld, States
  <2> QED  BY <1>3, <2>1, <2>2, <2>3, <2>4 DEF Worker
<1>4. CASE Create \/ Shutdown
  BY <1>1, <1>4 DEF Create, Shutdown
<1>5. CASE Adjuster
  <2>1. CASE Grow
    BY <1>0, <2>1 DEF Grow, WorkerTypes, LockHeld, States
  <2>2. CASE Sleep \/ Sample \/ Count \/ Shrink \/ SignalExit
    BY <1>1, <2>2 DEF Sleep, Sample, Count, Shrink, SignalExit
  <2> QED  BY <1>5, <2>1, <2>2 DEF Adjuster
<1>6. CASE Add
  <2>1. CASE lock' = lock
    BY <1>1, <1>6, <2>1, Constants DEF Add, Enqueue
  <2>2. CASE lock' # lock
    BY <1>0, <1>6, <2>2, Constants DEF Add, LockHeld, WorkerTypes
  <2> QED  BY <2>1, <2>2
<1>7. CASE WaitRoom
  BY <1>0, <1>7, Constants DEF WaitRoom, LockHeld, WorkerTypes
<1>8. CASE AddStray
  <2>1. WorkerTypes'
    BY <1>0, <1>8, SignalTypes DEF AddStray, Enqueue, WorkerTypes
  <2>2. shutdown'
    BY <1>0, <1>8 DEF AddStray, QInv
  <2> QED  BY <2>1, <2>2 DEF LockHeld
<1>9. CASE Destroyer
  <2>1. CASE Broadcast
    BY <1>0, <2>1 DEF Broadcast, LockHeld, WorkerTypes, States
  <2>2. CASE Join \/ Free
    BY <1>1, <2>2 DEF Join, Free
  <2> QED  BY <1>9, <2>1, <2>2 DEF Destroyer
<1> QED  BY <1>3, <1>4, <1>5, <1>6, <1>7, <1>8, <1>9 DEF Next

LEMMA TInvStep == TInv /\ [Next]_vars => TInv'
<1>1. TInv /\ Next => TInv'
  BY QInvStep, KeepPool, KeepQueue, KeepCount, KeepWorkers DEF TInv
<1>2. TInv /\ UNCHANGED vars => TInv'
  BY QInvStep DEF TInv, vars, queueVars, count, adjuster, destroyer, PoolTypes,
                  QueueTypes, CountTypes, WorkerTypes, LockHeld
<1> QED  BY <1>1, <1>2

(* The types of ThreadPool's variables, and that pool->lock is held before *)
(* a wait, in every reachable state.                                       *)
THEOREM TypeCorrect == Spec => []TypeOK
  BY TInvInit, TInvStep, TInvTypes, PTL DEF Spec

-----------------------------------------------------------------------------
LEMMA LiveInit == Init => LiveCount
<1> SUFFICES ASSUME Init PROVE LiveCount
  OBVIOUS
<1>1. MinThr \in Nat /\ MaxThr \in Nat /\ 0 < MinThr /\ MinThr <= MaxThr
  BY PoolAssumption
<1>2. Threads = 0..(MinThr - 1)
  BY <1>1 DEF Init, Threads, Slots
<1>3. Cardinality(0..(MinThr - 1)) = MinThr
  <2>1. 0 \in Int /\ MinThr - 1 \in Int /\ ~(0 > MinThr - 1)
    BY <1>1
  <2>2. Cardinality(0..(MinThr - 1)) = (MinThr - 1) - 0 + 1
    BY <2>1, FS_Interval
  <2> QED  BY <1>1, <2>2
<1> QED  BY <1>1, <1>2, <1>3 DEF Init, LiveCount

(* A step that starts and ends no thread. *)
LEMMA SameThreads ==
  ASSUME LiveCount, Threads' = Threads, live' = live, shutdown => shutdown'
  PROVE  LiveCount'
  BY DEF LiveCount

LEMMA LiveStep == TInv /\ LiveCount /\ [Next]_vars => LiveCount'
<1> SUFFICES ASSUME TInv, LiveCount, [Next]_vars PROVE LiveCount'
  OBVIOUS
<1>0. /\ WorkerTypes /\ QInv /\ live \in Nat /\ IsFiniteSet(Threads)
      /\ MinThr \in Nat /\ MaxThr \in Nat
  BY SlotsFinite, FS_Subset, PoolAssumption DEF TInv, CountTypes, Threads
<1> USE DEF count, destroyer
<1>1. ASSUME NEW w \in Slots, NEW from \in {"idle", "woken"}, Look(w, from),
             shutdown' = shutdown, live' = live
      PROVE  LiveCount'
  <2>1. CASE shutdown
    BY <1>1, <2>1 DEF LiveCount
  <2>2. CASE ~shutdown
    <3>1. Threads' = Threads
      BY <1>0, <1>1, <2>2 DEF Look, Step, Threads, WorkerTypes
    <3> QED  BY <1>1, <3>1, SameThreads
  <2> QED  BY <2>1, <2>2
<1>2. ASSUME NEW w \in Slots, Worker(w) PROVE LiveCount'
  <2>1. CASE Fetch(w)
    BY <1>1, <2>1 DEF Fetch
  <2>2. CASE Wait(w) \/ Work(w)
    <3>1. Threads' = Threads
      BY <1>0, <2>2 DEF Wait, Work, Step, Threads, WorkerTypes
    <3> QED  BY <2>2, <3>1, SameThreads DEF Wait, Work
  <2>3. CASE Wake(w)
    <3>1. CASE MustEnd
      <4>1. /\ wpc[w] = "woken" /\ wpc' = [wpc EXCEPT ![w] = "exited"]
            /\ live' = live - 1 /\ live > MinThr /\ shutdown' = shutdown
        BY <2>3, <3>1 DEF Wake, Step, MustEnd
      <4>2. Threads' = Threads \ {w} /\ w \in Threads
        BY <1>0, <4>1 DEF Threads, WorkerTypes
      <4>3. Cardinality(Threads \ {w}) = Cardinality(Threads) - 1
        BY <1>0, <4>2, FS_RemoveElement
      <4> QED  BY <1>0, <4>1, <4>2, <4>3 DEF LiveCount
    <3>2. CASE ~MustEnd
      BY <1>1, <2>3, <3>2 DEF Wake
    <3> QED  BY <3>1, <3>2
  <2> QED  BY <1>2, <2>1, <2>2, <2>3 DEF Worker
<1>3. ASSUME /\ wpc' = wpc \/ Signal
             /\ live' = live /\ (shutdown => shutdown')
      PROVE  LiveCount'
  <2>1. Threads' = Threads
    BY <1>0, <1>3, SignalTypes DEF Threads
  <2> QED  BY <1>3, <2>1, SameThreads
<1>4. CASE Create \/ WaitRoom \/ Shutdown
  BY <1>3, <1>4 DEF Create, WaitRoom, Shutdown
<1>5. CASE Add \/ AddStray
  BY <1>3, <1>5 DEF Add, AddStray, Enqueue
<1>6. CASE Grow
  <2>1. PICK S \in IF seen.grow THEN Started ELSE {{}} :
          /\ wpc' = [w \in Slots |-> IF w \in S THEN "idle" ELSE wpc[w]]
          /\ live' = live + Cardinality(S)
    BY <1>6 DEF Grow
  <2>2. CASE S = {}
    <3>1. Threads' = Threads
      BY <1>0, <2>1, <2>2 DEF Threads, WorkerTypes
    <3>2. live' = live
      BY <1>0, <2>1, <2>2, FS_EmptySet
    <3> QED  BY <1>6, <3>1, <3>2, SameThreads DEF Grow
  <2>3. CASE S # {}
    <3>1. S \in Started /\ S \subseteq Dead /\ Dead \subseteq Slots
      BY <2>1, <2>3 DEF Started, Dead
    <3>2. Threads' = Threads \cup S /\ Threads \cap S = {}
      BY <1>0, <2>1, <3>1 DEF Threads, Dead, WorkerTypes
    <3>3. IsFiniteSet(S) /\ Cardinality(S) \in Nat
      BY <3>1, SlotsFinite, FS_Subset, FS_CardinalityType
    <3>4. Cardinality(Threads \cup S) = Cardinality(Threads) + Cardinality(S)
      <4>1. Cardinality(Threads \cup S)
              = Cardinality(Threads) + Cardinality(S) - Cardinality({})
        BY <1>0, <3>2, <3>3, FS_Union
      <4>2. Cardinality({}) = 0 /\ Cardinality(Threads) \in Nat
        BY <1>0, FS_EmptySet, FS_CardinalityType
      <4> QED  BY <3>3, <4>1, <4>2
    <3>5. live + Cardinality(S) <= MaxThr
      BY <3>1 DEF Started
    <3>6. shutdown' = shutdown
      BY <1>6 DEF Grow
    <3> QED  BY <1>0, <2>1, <3>2, <3>3, <3>4, <3>5, <3>6 DEF LiveCount
  <2> QED  BY <2>2, <2>3
<1>7. CASE Sleep \/ Sample \/ Count \/ Shrink \/ SignalExit
  BY <1>3, <1>7 DEF Sleep, Sample, Count, Shrink, SignalExit
<1>8. CASE Broadcast
  <2>1. Threads' = Threads
    BY <1>0, <1>8 DEF Broadcast, Threads, WorkerTypes
  <2> QED  BY <1>8, <2>1, SameThreads DEF Broadcast
<1>9. CASE Join \/ Free
  BY <1>3, <1>9 DEF Join, Free
<1>10. CASE UNCHANGED vars
  BY <1>3, <1>10 DEF vars
<1> QED  BY <1>2, <1>4, <1>5, <1>6, <1>7, <1>8, <1>9, <1>10
         DEF Next, Adjuster, Destroyer

(* live_thr_num counts the threads, between the bounds that were asked     *)
(* for, however many threads and tasks there are.                          *)
THEOREM AlwaysLiveCount == Spec => []LiveCount
  BY TInvInit, TInvStep, LiveInit, LiveStep, PTL DEF Spec

-----------------------------------------------------------------------------
(* Waiting for a condition.  What a thread tested under the lock still     *)
(* holds until pthread_cond_wait gives the lock back, and what the adding  *)
(* thread tested holds until it is woken.                                  *)
Tested == ~shutdown => /\ ppc \in {"tofull", "full"} => size = Cap
                       /\ \A w \in Slots : wpc[w] = "towait" => size = 0

LEMMA TestedStep == TInv /\ Tested /\ [Next]_vars => Tested'
<1> SUFFICES ASSUME TInv, Tested, [Next]_vars, ~shutdown'
             PROVE  /\ ppc' \in {"tofull", "full"} => size' = Cap
                    /\ \A w \in Slots : wpc'[w] = "towait" => size' = 0
  BY DEF Tested
<1>0. WorkerTypes /\ LockHeld /\ QInv
  BY DEF TInv
<1> USE DEF destroyer, queueVars
<1>1. ASSUME /\ wpc' = wpc \/ Signal
             /\ size' = size /\ ppc' = ppc /\ shutdown' = shutdown
      PROVE  /\ ppc' \in {"tofull", "full"} => size' = Cap
             /\ \A w \in Slots : wpc'[w] = "towait" => size' = 0
  BY <1>0, <1>1, SignalTypes DEF Tested
<1>2. ASSUME NEW w \in Slots, NEW from, Look(w, from), lock = Nobody,
             shutdown' = shutdown
      PROVE  /\ ppc' \in {"tofull", "full"} => size' = Cap
             /\ \A v \in Slots : wpc'[v] = "towait" => size' = 0
  <2>1. ~shutdown /\ ppc # "tofull" /\ \A v \in Slots : wpc[v] # "towait"
    BY <1>0, <1>2, Constants DEF LockHeld
  <2> QED  BY <1>0, <1>2, <2>1 DEF Look, RoomMade, Step, Tested, WorkerTypes
<1>3. ASSUME NEW w \in Slots, Worker(w)
      PROVE  /\ ppc' \in {"tofull", "full"} => size' = Cap
             /\ \A v \in Slots : wpc'[v] = "towait" => size' = 0
  <2>1. CASE Fetch(w)
    BY <1>2, <2>1 DEF Fetch
  <2>2. CASE Wait(w) \/ Work(w)
    BY <1>0, <2>2 DEF Wait, Work, Step, Tested, WorkerTypes
  <2>3. CASE Wake(w)
    <3>1. CASE MustEnd
      BY <1>0, <2>3, <3>1 DEF Wake, Step, Tested, WorkerTypes
    <3>2. CASE ~MustEnd
      BY <1>2, <2>3, <3>2 DEF Wake
    <3> QED  BY <3>1, <3>2
  <2> QED  BY <1>3, <2>1, <2>2, <2>3 DEF Worker
<1>4. CASE Create \/ Join \/ Free \/ UNCHANGED vars
  BY <1>1, <1>4 DEF Create, Join, Free, vars
<1>5. CASE Adjuster
  <2>1. CASE Grow
    BY <1>0, <2>1 DEF Grow, Tested, WorkerTypes
  <2>2. CASE Sleep \/ Sample \/ Count \/ Shrink \/ SignalExit
    BY <1>1, <2>2 DEF Sleep, Sample, Count, Shrink, SignalExit
  <2> QED  BY <1>5, <2>1, <2>2 DEF Adjuster
<1>6. CASE Add
  <2>1. \A w \in Slots : wpc[w] # "towait"
    BY <1>0, <1>6, Constants DEF Add, LockHeld
  <2>2. \A w \in Slots : wpc'[w] # "towait"
    BY <1>0, <1>6, <2>1, SignalTypes DEF Add, Enqueue
  <2>3. ppc' \in {"tofull", "full"} => size' = Cap
    BY <1>6 DEF Add, Enqueue, Full
  <2> QED  BY <2>2, <2>3
<1>7. CASE WaitRoom
  BY <1>7 DEF WaitRoom, Tested
<1>8. CASE Shutdown \/ AddStray
  BY <1>0, <1>8 DEF Shutdown, AddStray, QInv
<1>9. CASE Broadcast
  BY <1>0, <1>9 DEF Broadcast, Tested, WorkerTypes
<1> QED  BY <1>3, <1>4, <1>5, <1>6, <1>7, <1>8, <1>9 DEF Next, Destroyer

LEMMA TestedInvariance == Spec => [](TInv /\ Tested)
<1>1. Init => Tested
  BY DEF Init, Tested
<1> QED  BY <1>1, TInvInit, TInvStep, TestedStep, PTL DEF Spec

(* threadpool_add is not left asleep with room in the queue, whatever its  *)
(* size and the number of workers.                                         *)
THEOREM AlwaysRoomTold == Spec => []RoomTold
<1>1. Tested => RoomTold
  BY DEF Tested, RoomTold, Full
<1> QED  BY <1>1, TestedInvariance, PTL

(* There are always threads, until the shutdown. *)
LEMMA SomeThread == TInv /\ LiveCount /\ ~shutdown => \E w \in Slots : w \in Threads
<1> SUFFICES ASSUME LiveCount, ~shutdown, Threads = {} PROVE FALSE
  BY DEF Threads
<1> QED  BY FS_EmptySet, PoolAssumption DEF LiveCount

(* No wakeup is lost: the queue is left unattended only by a worker that   *)
(* takes a signal as its order to end, for every number of workers.        *)
LEMMA AttendedStep ==
  ASSUME TInv, Tested, LiveCount, Next, Attended, ~Attended'
  PROVE  wait_exit > 0 /\ live' < live
<1> DEFINE At == {"idle", "woken", "took", "run"}
<1>0. WorkerTypes /\ LockHeld /\ QInv /\ size \in Nat /\ live \in Nat
  BY DEF TInv, QueueTypes, CountTypes
<1>1. ~shutdown' /\ size' > 0 /\ \A w \in Slots : wpc'[w] \notin At
  BY DEF Attended
<1> USE DEF destroyer, queueVars
<1>2. ~shutdown
  BY <1>0, <1>1, Effect DEF Taken, Put
<1>3. CASE size > 0
  <2>1. PICK w \in Slots : wpc[w] \in At
    BY <1>2, <1>3 DEF Attended
  <2>2. wpc'[w] \notin At
    BY <1>1
  <2>3. ASSUME wpc' = wpc \/ Signal PROVE FALSE
    BY <1>0, <2>1, <2>2, <2>3 DEF Signal, WorkerTypes
  <2>4. ASSUME NEW v \in Slots, NEW from, Look(v, from) PROVE FALSE
    BY <1>0, <1>2, <1>3, <2>1, <2>2, <2>4 DEF Look, Step, WorkerTypes
  <2>5. ~Grow /\ ~Broadcast
    BY <1>0, <2>1, <2>2 DEF Grow, Broadcast, WorkerTypes
  <2>6. PICK v \in Slots : Worker(v)
    BY <2>3, <2>5
       DEF Next, Create, Adjuster, Sleep, Sample, Count, Shrink, SignalExit, Add,
           Enqueue, WaitRoom, AddStray, Shutdown, Destroyer, Join, Free
  <2>7. ~Fetch(v)
    BY <2>4 DEF Fetch
  <2>8. ~Wait(v) /\ ~Work(v)
    BY <1>0, <2>1, <2>2 DEF Wait, Work, Step, WorkerTypes
  <2>9. MustEnd /\ live' = live - 1
    BY <2>4, <2>6, <2>7, <2>8 DEF Worker, Wake
  <2> QED  BY <1>0, <2>9 DEF MustEnd
<1>4. CASE size = 0
  <2>1. size' # size
    BY <1>0, <1>1, <1>4
  <2>2. ASSUME NEW v \in Slots, Worker(v) PROVE FALSE
    <3>1. ASSUME NEW from, Look(v, from) PROVE FALSE
      BY <1>4, <2>1, <3>1 DEF Look
    <3> QED  BY <2>1, <2>2, <3>1 DEF Worker, Fetch, Wait, Wake, Work
  <2>3. Add \/ AddStray
    BY <2>1, <2>2
       DEF Next, Create, Adjuster, Sleep, Sample, Count, Grow, Shrink, SignalExit,
           WaitRoom, Shutdown, Destroyer, Broadcast, Join, Free
  <2>4. Add /\ Enqueue
    BY <1>0, <1>2, <2>1, <2>3 DEF Add, AddStray, QInv
  <2>5. Signal /\ lock = Nobody
    BY <2>1, <2>4 DEF Add, Enqueue
  <2>6. \A w \in Slots : wpc[w] # "towait"
    BY <1>0, <1>2, <2>5, Constants DEF LockHeld
  <2>7. PICK w \in Slots : w \in Threads
    BY <1>2, SomeThread
  <2>8. wpc[w] \in At \/ wpc[w] = "wait"
    BY <1>0, <2>6, <2>7 DEF Threads, WorkerTypes, States
  <2>9. \E v \in Slots : wpc'[v] \in At
    BY <1>0, <2>5, <2>8 DEF Signal, WorkerTypes
  <2> QED  BY <1>1, <2>9
<1> QED  BY <1>0, <1>3, <1>4

LEMMA AttendedActs ==
  TInv /\ Tested /\ LiveCount /\ [Next]_vars =>
    [Attended /\ ~Attended' => wait_exit > 0 /\ live' < live]_vars
  BY AttendedStep

(* The wakeups of threadpool_add and the tests of the workers never miss   *)
(* each other.                                                             *)
THEOREM AttendedIsKept == Spec => AttendedKept
  BY TestedInvariance, AlwaysLiveCount, AttendedActs, PTL DEF Spec, AttendedKept

(* As long as no thread is told to end, a task never waits with every      *)
(* worker asleep.                                                          *)
THEOREM AttendedUnlessTold == Spec /\ [](wait_exit = 0) => []Attended
<1>1. Init => Attended
  BY DEF Init, Attended
<1>2. /\ TInv /\ Tested /\ LiveCount /\ [Next]_vars /\ wait_exit = 0 /\ Attended
      => Attended'
  <2>1. UNCHANGED vars /\ Attended => Attended'
    BY DEF vars, queueVars, destroyer, Attended
  <2> QED  BY <2>1, AttendedStep
<1> QED  BY <1>1, <1>2, TestedInvariance, AlwaysLiveCount, PTL DEF Spec

-----------------------------------------------------------------------------
(* The shutdown.  A worker tests shutdown under the lock and shutdown is   *)
(* set without it, so one may be between its test and its wait; after that *)
(* none begins to wait.                                                    *)
Late == {w \in Slots : wpc[w] = "towait"}
Left == /\ shutdown <=> dpc # "none"
        /\ shutdown => \A u, w \in Late : u = w
        /\ OneLeftBehind

LEMMA AfterShutdown ==
  ASSUME WorkerTypes, Next, shutdown, NEW w \in Slots
  PROVE  /\ wpc'[w] = "towait" => wpc[w] = "towait"
         /\ wpc'[w] = "wait" => wpc[w] \in {"towait", "wait"}
<1>1. CASE wpc' = wpc \/ Signal
  BY <1>1 DEF Signal, WorkerTypes
<1>2. CASE Grow \/ Broadcast
  BY <1>2 DEF Grow, Broadcast, WorkerTypes
<1>3. ASSUME NEW v \in Slots, Worker(v)
      PROVE  /\ wpc'[w] = "towait" => wpc[w] = "towait"
             /\ wpc'[w] = "wait" => wpc[w] \in {"towait", "wait"}
  BY <1>3 DEF Worker, Fetch, Wait, Wake, Work, Look, Step, WorkerTypes
<1> QED  BY <1>1, <1>2, <1>3
         DEF Next, Create, Adjuster, Sleep, Sample, Count, Shrink, SignalExit, Add,
             Enqueue, WaitRoom, AddStray, Shutdown, Destroyer, Join, Free

LEMMA LeftStep == TInv /\ Left /\ [Next]_vars => Left'
<1> SUFFICES ASSUME TInv, Left, Next PROVE Left'
  BY DEF vars, destroyer, Left, Late, OneLeftBehind
<1>0. WorkerTypes /\ LockHeld
  BY DEF TInv
<1>1. \/ UNCHANGED <<shutdown, dpc>>
      \/ Shutdown
      \/ Broadcast
  BY DEF Next, Create, Adjuster, Sleep, Sample, Count, Grow, Shrink, SignalExit,
         Add, WaitRoom, AddStray, Destroyer, Join, Free, Worker, Fetch, Wait, Wake,
         Work, destroyer
<1>2. CASE Shutdown
  <2>1. ~shutdown /\ wpc' = wpc /\ shutdown' = TRUE /\ dpc' = "shut"
    BY <1>2 DEF Shutdown, Left
  <2>2. \A u, w \in Late : u = w
    BY <1>0, <2>1 DEF LockHeld, Late
  <2> QED  BY <2>1, <2>2 DEF Left, Late, OneLeftBehind
<1>3. CASE Broadcast
  <2>1. shutdown /\ shutdown' /\ dpc' = "join"
    BY <1>3 DEF Broadcast, Left
  <2>2. \A w \in Slots : /\ wpc'[w] = "towait" => wpc[w] = "towait"
                         /\ wpc'[w] # "wait"
    BY <1>0, <1>3 DEF Broadcast, WorkerTypes
  <2>3. \A u, w \in Late : u = w
    BY <2>1 DEF Left
  <2>4. (\A u, w \in Late : u = w)' /\ OneLeftBehind'
    BY <2>2, <2>3 DEF Late, OneLeftBehind
  <2> QED  BY <2>1, <2>4 DEF Left
<1>4. CASE UNCHANGED <<shutdown, dpc>>
  <2>1. CASE ~shutdown
    BY <1>4, <2>1 DEF Left, OneLeftBehind
  <2>2. CASE shutdown
    BY <1>0, <1>4, <2>2, AfterShutdown DEF Left, Late, OneLeftBehind
  <2> QED  BY <2>1, <2>2
<1> QED  BY <1>1, <1>2, <1>3, <1>4

(* However many workers there are, threadpool_destroy is kept waiting by   *)
(* at most one that missed its broadcast.                                  *)
THEOREM AtMostOneLeftBehind == Spec => []OneLeftBehind
<1>1. Init => Left
  BY DEF Init, Left, OneLeftBehind
<1>2. Left => OneLeftBehind
  BY DEF Left
<1> QED  BY <1>1, <1>2, TInvInit, TInvStep, LeftStep, PTL DEF Spec

-----------------------------------------------------------------------------
(* Inside a threadpool_create that joins: nobody has the pool, so nothing  *)
(* is added and nothing shut down; without waiting tasks no thread is      *)
(* started, hence none is above the minimum, and none may end.             *)
Stuck == /\ pool = "creating" /\ ~shutdown
         /\ size = 0 /\ live = MinThr /\ ~seen.grow
         /\ \A w \in 0..(MinThr - 1) : wpc[w] \notin {"none", "exited"}

LEMMA StuckStep ==
  ASSUME Joins, MinWait > 0, TInv, Stuck, [Next]_vars
  PROVE  Stuck'
<1>0. /\ WorkerTypes /\ QInv /\ CountTypes /\ MinThr \in Nat /\ MinThr > 0
      /\ MinThr <= MaxThr /\ MaxThr \in Nat /\ MinWait \in Nat
      /\ 0 \in 0..(MinThr - 1) /\ 0..(MinThr - 1) \subseteq Slots
  BY PoolAssumption DEF TInv, Slots
<1> USE DEF count, queueVars, destroyer, adjuster
<1>1. ASSUME /\ wpc' = wpc \/ Signal
             /\ UNCHANGED <<pool, shutdown, size, live>>
             /\ seen'.grow = seen.grow
      PROVE  Stuck'
  BY <1>0, <1>1 DEF Signal, Stuck, WorkerTypes
<1>2. ASSUME NEW w \in Slots, NEW from, Look(w, from),
             UNCHANGED <<pool, shutdown, live, seen>>
      PROVE  Stuck'
  BY <1>0, <1>2 DEF Look, Step, Stuck, WorkerTypes
<1>3. ASSUME NEW w \in Slots, Worker(w) PROVE Stuck'
  <2>1. CASE Fetch(w)
    BY <1>2, <2>1 DEF Fetch
  <2>2. CASE Wait(w) \/ Work(w)
    BY <1>0, <2>2 DEF Wait, Work, Step, Stuck, WorkerTypes
  <2>3. CASE Wake(w)
    <3>1. ~MustEnd
      BY <1>0 DEF MustEnd, Stuck
    <3> QED  BY <1>2, <2>3, <3>1 DEF Wake
  <2> QED  BY <1>3, <2>1, <2>2, <2>3 DEF Worker
<1>4. ~Create
  BY <1>0 DEF Create, Stuck
<1>5. ~Add /\ ~WaitRoom /\ ~AddStray /\ ~Shutdown /\ ~Destroyer
  BY DEF Stuck, Add, WaitRoom, AddStray, Shutdown, Destroyer, Broadcast, Join,
         Free
<1>6. CASE Sample
  <2>1. seen'.grow = (size >= MinWait /\ live < MaxThr)
    BY <1>6 DEF Sample
  <2>2. ~(size >= MinWait)
    BY <1>0 DEF Stuck
  <2>3. ~seen'.grow
    BY <2>1, <2>2, Zenon
  <2> QED  BY <1>6, <2>3 DEF Sample, Stuck
<1>7. CASE Grow
  <2>1. /\ wpc' = [w \in Slots |-> wpc[w]]
        /\ live' = live + Cardinality({})
    BY <1>7 DEF Grow, Stuck
  <2>2. wpc' = wpc /\ live' = live
    BY <1>0, <2>1, FS_EmptySet DEF WorkerTypes, CountTypes
  <2> QED  BY <1>1, <1>7, <2>2 DEF Grow
<1>8. CASE Sleep \/ Count \/ Shrink \/ SignalExit
  <2>1. seen'.grow = seen.grow
    BY <1>0, <1>8 DEF Sleep, Count, Shrink, SignalExit, CountTypes
  <2> QED  BY <1>1, <1>8, <2>1 DEF Sleep, Count, Shrink, SignalExit
<1>9. CASE UNCHANGED vars
  BY <1>1, <1>9 DEF vars
<1> QED  BY <1>3, <1>4, <1>5, <1>6, <1>7, <1>8, <1>9 DEF Next, Adjuster

(* threadpool_create as it is, joining its workers, never returns: for     *)
(* every number of threads, every queue and every schedule, fair or not,   *)
(* as long as threads are added only when tasks wait (MIN_WAIT_TASK_NUM is *)
(* 10).                                                                    *)
THEOREM CreateNeverReturns ==
  ASSUME Joins, MinWait > 0
  PROVE  Spec => [](pool = "creating")
<1>1. Init => Stuck
  <2>1. 0..(MinThr - 1) \subseteq Slots
    BY PoolAssumption DEF Slots
  <2> QED  BY <2>1, PoolAssumption DEF Init, Stuck
<1>2. TInv /\ Stuck /\ [Next]_vars => Stuck'
  BY StuckStep
<1>3. Stuck => pool = "creating"
  BY DEF Stuck
<1> QED  BY <1>1, <1>2, <1>3, TInvInit, TInvStep, PTL DEF Spec
=============================================================================

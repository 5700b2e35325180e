----------------------------- MODULE ScanProofs -----------------------------
(***************************************************************************)
(* Proofs about Scan, for every set of names and of request times, every   *)
(* first size of the list and every sign bit.                              *)
(***************************************************************************)
EXTENDS Scan, FiniteSetTheorems, TLAPS

(* Before the scan there is no list; afterwards it holds selected names    *)
(* only, none that is still to be read, and all those that were read.      *)
Progress ==
  /\ pc = "call" => v = <<>> /\ vsize = 0 /\ old = {} /\ new = {}
  /\ \A k \in DOMAIN v : Selected(v[k]) /\ v[k] \notin old \cup new
  /\ pc \in {"loop", "done"} =>
       \A e \in was \ old : Selected(e) => e \in Elems(v)
  /\ pc = "done" =>
       /\ old = {}
       /\ \A j, k \in DOMAIN v : j < k => ~Before(v[k], v[j])

IInv == TypeOK /\ ListOwned /\ Progress

(* Directories are not records. *)
LEMMA DotApart == Dot \notin Names
  BY ScanAssumption DEF Dot

(* Stamps and uuids are numbers. *)
LEMMA NameTypes == \A x \in Names : x.stamp \in Nat /\ x.uuid \in Nat
<1>1. ASSUME NEW x \in Names PROVE x.stamp \in Nat /\ x.uuid \in Nat
  <2>1. /\ x \in [stamp : TenDigits..(2 * SignBit - TenDigits), uuid : 0..999]
        /\ TenDigits \in Nat /\ SignBit \in Nat
    BY ScanAssumption
  <2>2. /\ x.stamp \in TenDigits..(2 * SignBit - TenDigits)
        /\ x.uuid \in 0..999
    BY <2>1
  <2> QED
    BY <2>1, <2>2
<1> QED
  BY <1>1

(* filter_fn compares the times themselves in a period before 2^31: names  *)
(* from 2^31 on are read as negative numbers.                              *)
LEMMA PeriodSelected ==
  ASSUME NEW e \in Names,
         start \in Asked, end \in Asked, start < SignBit, end < SignBit
  PROVE  Selected(e) <=> start <= e.stamp /\ e.stamp <= end
<1>1. /\ start \in Nat /\ end \in Nat /\ SignBit \in Nat
      /\ e.stamp \in Nat /\ e.stamp <= 2 * SignBit - 10 /\ e # Dot
  BY ScanAssumption, DotApart
<1>2. Shown(start) = start /\ Shown(end) = end
  BY <1>1 DEF Shown
<1>3. CASE e.stamp < SignBit
  <2>1. Cut(e.stamp) = e.stamp
    BY <1>1, <1>3 DEF Cut, Shown
  <2> QED  BY <1>1, <1>2, <2>1 DEF Selected
<1>4. CASE e.stamp >= SignBit
  <2> DEFINE s == 2 * SignBit - e.stamp
  <2>1. s \in Nat /\ s >= 10 /\ Shown(e.stamp) = -s
    BY <1>1, <1>4 DEF Shown
  <2>2. s \div 10 \in Nat /\ s \div 10 > 0
    BY <2>1
  <2>3. Cut(e.stamp) = -(s \div 10)
    BY <2>1 DEF Cut
  <2> QED  BY <1>1, <1>2, <1>4, <2>2, <2>3 DEF Selected
<1> QED  BY <1>1, <1>3, <1>4

(* A sorted copy of the list has the same names, each once. *)
LEMMA SortedCopy ==
  ASSUME NEW S, NEW s \in Seq(S), NEW p \in Permuted(DOMAIN s),
         \A j, k \in DOMAIN s : s[j] = s[k] => j = k
  PROVE  LET t == [k \in DOMAIN s |-> s[p[k]]] IN
         /\ t \in Seq(S) /\ Len(t) = Len(s) /\ DOMAIN t = DOMAIN s
         /\ Elems(t) = Elems(s)
         /\ \A j, k \in DOMAIN t : t[j] = t[k] => j = k
<1> DEFINE n == Len(s)
           t == [k \in DOMAIN s |-> s[p[k]]]
<1>1. n \in Nat /\ DOMAIN s = 1..n
  OBVIOUS
<1>2. p \in Surjection(1..n, 1..n)
  BY <1>1 DEF Permuted, Surjection
<1>3. p \in Injection(1..n, 1..n)
  BY <1>1, <1>2, FS_Interval, FS_SurjSameCardinalityImpliesInj
<1>4. p \in [1..n -> 1..n] /\ \A k \in 1..n : \E j \in 1..n : p[j] = k
  BY <1>1 DEF Permuted
<1>5. \A j, k \in 1..n : p[j] = p[k] => j = k
  BY <1>3 DEF Injection, IsInjective
<1>6. t \in Seq(S) /\ Len(t) = n /\ DOMAIN t = 1..n
  BY <1>1, <1>4
<1>a. \A k \in 1..n : t[k] = s[p[k]]
  BY <1>1
<1> HIDE DEF t
<1>7. Elems(t) = Elems(s)
  <2>1. \A k \in 1..n : \E j \in 1..n : t[j] = s[k]
    BY <1>4, <1>a
  <2>2. \A k \in 1..n : p[k] \in 1..n
    BY <1>4
  <2>3. Elems(t) \subseteq Elems(s)
    BY <1>1, <1>6, <1>a, <2>2 DEF Elems
  <2>4. Elems(s) \subseteq Elems(t)
    <3> SUFFICES ASSUME NEW k \in 1..n PROVE s[k] \in Elems(t)
      BY <1>1 DEF Elems
    <3>1. PICK j \in 1..n : t[j] = s[k]
      BY <2>1
    <3>2. j \in DOMAIN t
      BY <1>6
    <3>3. t[j] \in Elems(t)
      BY <3>2 DEF Elems
    <3> QED  BY <3>1, <3>3
  <2> QED  BY <2>3, <2>4
<1>8. \A j, k \in 1..n : t[j] = t[k] => j = k
  <2> SUFFICES ASSUME NEW j \in 1..n, NEW k \in 1..n, t[j] = t[k]
               PROVE  j = k
    OBVIOUS
  <2>1. p[j] \in DOMAIN s /\ p[k] \in DOMAIN s /\ s[p[j]] = s[p[k]]
    BY <1>1, <1>4, <1>a
  <2>2. p[j] = p[k]
    BY <2>1
  <2> QED  BY <1>5, <2>2
<1> QED  BY <1>1, <1>6, <1>7, <1>8 DEF t

(* One more name at the end of the list. *)
LEMMA Appended ==
  ASSUME NEW S, NEW s \in Seq(S), NEW e \in S, e \notin Elems(s),
         \A j, k \in DOMAIN s : s[j] = s[k] => j = k
  PROVE  LET t == Append(s, e) IN
         /\ t \in Seq(S) /\ Len(t) = Len(s) + 1
         /\ DOMAIN t = 1..(Len(s) + 1)
         /\ Elems(t) = Elems(s) \cup {e}
         /\ \A k \in DOMAIN t : t[k] = e \/ (k \in DOMAIN s /\ t[k] = s[k])
         /\ \A j, k \in DOMAIN t : t[j] = t[k] => j = k
<1> DEFINE n == Len(s)
           t == Append(s, e)
<1>1. n \in Nat /\ DOMAIN s = 1..n
  OBVIOUS
<1>2. /\ t \in Seq(S) /\ Len(t) = n + 1 /\ DOMAIN t = 1..(n + 1)
      /\ t[n + 1] = e /\ \A k \in 1..n : t[k] = s[k]
  OBVIOUS
<1> HIDE DEF t
<1>3. Elems(t) = Elems(s) \cup {e}
  <2>1. 1..(n + 1) = 1..n \cup {n + 1}
    BY <1>1
  <2> QED  BY <1>1, <1>2, <2>1 DEF Elems
<1>4. \A k \in 1..n : s[k] # e
  BY <1>1 DEF Elems
<1>5. \A j, k \in 1..(n + 1) : t[j] = t[k] => j = k
  BY <1>1, <1>2, <1>4
<1>6. \A k \in DOMAIN t : t[k] = e \/ (k \in DOMAIN s /\ t[k] = s[k])
  BY <1>1, <1>2
<1> QED  BY <1>1, <1>2, <1>3, <1>5, <1>6 DEF t

(* The initial states. *)
LEMMA Start == Init => IInv
  BY DEF Init, IInv, TypeOK, ListOwned, Progress, Elems

(* Every step keeps the invariant. *)
LEMMA Step == IInv /\ [Next]_vars => IInv'
<1> SUFFICES ASSUME IInv, [Next]_vars PROVE IInv'
  OBVIOUS
<1> USE DEF IInv
<1>0. /\ v \in Seq(dir) /\ Len(v) \in Nat /\ DOMAIN v = 1..Len(v)
      /\ \A k \in DOMAIN v : v[k] \in dir /\ v[k] \in Elems(v)
  BY DEF TypeOK, Elems
<1>1. CASE Create
  <2>1. PICK e \in Names \ dir :
          /\ dir' = dir \cup {e}
          /\ new' = IF pc = "loop" THEN new \cup {e} ELSE new
    BY <1>1 DEF Create
  <2>2. /\ pc \in {"call", "loop"}
        /\ UNCHANGED <<start, end, pc, old, was, v, vsize, heap>>
    BY <1>1 DEF Create
  <2>3. TypeOK'
    <3>1. v \in Seq(dir')
      BY <1>0, <2>1
    <3> QED  BY <2>1, <2>2, <3>1 DEF TypeOK
  <2>4. ListOwned'
    BY <2>2 DEF ListOwned, Elems
  <2>5. Progress'
    <3>1. \A k \in DOMAIN v : v[k] \notin old' \cup new'
      BY <1>0, <2>1, <2>2 DEF Progress
    <3>2. \A x : Selected(x)' <=> Selected(x)
      BY <2>2 DEF Selected
    <3> QED  BY <2>1, <2>2, <3>1, <3>2 DEF Progress, Elems
  <2> QED  BY <2>3, <2>4, <2>5
<1>2. CASE Open
  <2>1. \A x : Selected(x)' <=> Selected(x)
    BY <1>2 DEF Open, Selected
  <2>2. pc = "call" /\ v = <<>> /\ v' = v
    BY <1>2 DEF Open, Progress
  <2>3. TypeOK'
    BY <1>2 DEF Open, TypeOK, Progress
  <2>4. ListOwned'
    BY <1>2, <2>2 DEF Open, ListOwned, Progress, Elems
  <2>5. Progress'
    <3>1. CASE pc' = "loop"
      <4>1. old' = dir \cup {Dot} /\ was' = dir /\ new' = new
        BY <1>2, <3>1, <2>2 DEF Open
      <4> QED  BY <2>1, <2>2, <3>1, <4>1 DEF Progress
    <3>2. CASE pc' = "failed"
      BY <1>2, <2>1, <2>2, <3>2 DEF Open, Progress
    <3> QED  BY <1>2, <3>1, <3>2 DEF Open
  <2> QED  BY <2>3, <2>4, <2>5
<1>c. ASSUME Cancel, UNCHANGED <<dir, start, end, was>>,
             old' \subseteq old, new' \subseteq new
      PROVE  IInv'
  <2>1. pc' = "failed" /\ v' = <<>> /\ vsize' = 0 /\ heap' = {}
    BY <1>c DEF Cancel, ListOwned
  <2>2. TypeOK'
    BY <1>c, <2>1 DEF TypeOK
  <2>3. ListOwned'
    BY <2>1 DEF ListOwned, Elems
  <2>4. Progress'
    BY <2>1 DEF Progress
  <2> QED  BY <2>2, <2>3, <2>4
<1>3. CASE Read
  <2>1. PICK e \in old \cup new :
          /\ old' = old \ {e} /\ new' = new \ {e}
          /\ \/ ~Selected(e) /\ UNCHANGED <<pc, v, vsize, heap>>
             \/ /\ Selected(e)
                /\ vsize' = Room
                /\ v' = Append(v, e)
                /\ heap' = heap \cup {e}
                /\ UNCHANGED pc
             \/ Selected(e) /\ Cancel
    BY <1>3 DEF Read
  <2>2. pc = "loop" /\ UNCHANGED <<dir, start, end, was>>
    BY <1>3 DEF Read
  <2>3. \A x : Selected(x)' <=> Selected(x)
    BY <2>2 DEF Selected
  <2>4. CASE ~Selected(e) /\ UNCHANGED <<pc, v, vsize, heap>>
    <3>1. TypeOK'
      BY <2>1, <2>2, <2>4 DEF TypeOK
    <3>2. ListOwned'
      BY <2>4 DEF ListOwned, Elems
    <3>3. Progress'
      BY <2>1, <2>2, <2>3, <2>4 DEF Progress, Elems
    <3> QED  BY <3>1, <3>2, <3>3
  <2>5. CASE /\ Selected(e)
             /\ vsize' = Room
             /\ v' = Append(v, e)
             /\ heap' = heap \cup {e}
             /\ UNCHANGED pc
    <3>1. e \in dir /\ e \notin Elems(v)
      <4>1. e # Dot
        BY <2>5 DEF Selected
      <4>2. e \in dir
        BY <4>1 DEF TypeOK
      <4>3. e \notin Elems(v)
        BY DEF Progress, Elems
      <4> QED  BY <4>2, <4>3
    <3>2. /\ v' \in Seq(dir) /\ Len(v') = Len(v) + 1
          /\ DOMAIN v' = 1..(Len(v) + 1)
          /\ Elems(v') = Elems(v) \cup {e}
          /\ \A k \in DOMAIN v' : v'[k] = e \/ (k \in DOMAIN v /\ v'[k] = v[k])
          /\ \A j, k \in DOMAIN v' : v'[j] = v'[k] => j = k
      BY <1>0, <2>5, <3>1, Appended DEF ListOwned
    <3>3. Room \in Nat /\ Len(v) + 1 <= Room
      BY <1>0, ScanAssumption DEF Room, ListOwned, TypeOK
    <3>4. TypeOK'
      BY <2>1, <2>2, <2>5, <3>1, <3>2, <3>3 DEF TypeOK
    <3>5. ListOwned'
      BY <2>2, <2>5, <3>2, <3>3 DEF ListOwned, Elems
    <3>6. Progress'
      <4>0. \A k \in DOMAIN v' : Selected(v'[k]) /\ v'[k] \notin old' \cup new'
        BY <2>1, <2>5, <3>2 DEF Progress
      <4>1. (\A k \in DOMAIN v : Selected(v[k]) /\ v[k] \notin old \cup new)'
        BY <2>2, <4>0 DEF Selected
      <4>2. \A x \in was' \ old' : Selected(x)' => x \in Elems(v')
        BY <2>1, <2>2, <2>3, <3>2 DEF Progress
      <4> QED  BY <2>2, <2>5, <4>1, <4>2 DEF Progress, Elems
    <3> QED  BY <3>4, <3>5, <3>6
  <2>6. CASE Cancel
    BY <1>c, <2>1, <2>2, <2>6
  <2> QED  BY <2>1, <2>4, <2>5, <2>6
<1>4. CASE ReadFails
  BY <1>4, <1>c DEF ReadFails
<1>5. CASE Finish
  <2>1. PICK p \in Permuted(DOMAIN v) :
          /\ \A j, k \in DOMAIN v : j < k => ~Before(v[p[k]], v[p[j]])
          /\ v' = [k \in DOMAIN v |-> v[p[k]]]
    BY <1>5 DEF Finish
  <2>2. /\ pc = "loop" /\ old = {} /\ pc' = "done"
        /\ UNCHANGED <<dir, start, end, old, new, was, vsize, heap>>
    BY <1>5 DEF Finish
  <2>3. /\ v' \in Seq(dir) /\ Len(v') = Len(v) /\ DOMAIN v' = DOMAIN v
        /\ Elems(v') = Elems(v)
        /\ \A j, k \in DOMAIN v' : v'[j] = v'[k] => j = k
    <3> DEFINE t == [k \in DOMAIN v |-> v[p[k]]]
    <3>1. \A j, k \in DOMAIN v : v[j] = v[k] => j = k
      BY DEF ListOwned
    <3>2. /\ t \in Seq(dir) /\ Len(t) = Len(v) /\ DOMAIN t = DOMAIN v
          /\ Elems(t) = Elems(v)
          /\ \A j, k \in DOMAIN t : t[j] = t[k] => j = k
      BY <1>0, <3>1, SortedCopy, SMTT(30)
    <3>3. v' = t
      BY <2>1
    <3> HIDE DEF t
    <3> QED  BY <3>2, <3>3
  <2>4. \A k \in DOMAIN v' : \E j \in DOMAIN v : v'[k] = v[j]
    BY <2>1 DEF Permuted
  <2>5. \A j, k \in DOMAIN v' : j < k => ~Before(v'[k], v'[j])
    BY <2>1
  <2>6. \A x : Selected(x)' <=> Selected(x)
    BY <2>2 DEF Selected
  <2>7. TypeOK'
    BY <2>2, <2>3 DEF TypeOK
  <2>8. ListOwned'
    BY <2>2, <2>3 DEF ListOwned, Elems
  <2>9. Progress'
    <3>0. \A k \in DOMAIN v' : Selected(v'[k]) /\ v'[k] \notin old' \cup new'
      BY <2>2, <2>4 DEF Progress
    <3>1. (\A k \in DOMAIN v : Selected(v[k]) /\ v[k] \notin old \cup new)'
      BY <2>2, <3>0 DEF Selected
    <3>2. \A e \in was' \ old' : Selected(e)' => e \in Elems(v')
      BY <2>2, <2>3, <2>6 DEF Progress
    <3>3. (\A j, k \in DOMAIN v : j < k => ~Before(v[k], v[j]))'
      BY <2>5 DEF Before
    <3> QED  BY <2>2, <3>1, <3>2, <3>3 DEF Progress, Elems
  <2> QED  BY <2>7, <2>8, <2>9
<1>6. CASE UNCHANGED vars
  BY <1>6 DEF vars, TypeOK, ListOwned, Progress, Elems, Selected, Before
<1> QED  BY <1>1, <1>2, <1>3, <1>4, <1>5, <1>6 DEF Next

LEMMA Invariance == Spec => []IInv
  BY Start, Step, PTL DEF Spec

(* The types of Scan's variables hold in every reachable state. *)
THEOREM TypeCorrect == Spec => []TypeOK
<1>1. IInv => TypeOK
  BY DEF IInv
<1> QED  BY <1>1, Invariance, PTL

(* scandir never writes past its list and never loses a copy, wherever     *)
(* readdir or an allocation fails and however many names there are.        *)
THEOREM AlwaysListOwned == Spec => []ListOwned
<1>1. IInv => ListOwned
  BY DEF IInv
<1> QED  BY <1>1, Invariance, PTL

(* A finished scan of a period before 2^31 has its records, and only them, *)
(* in the order of stamps.                                                 *)
THEOREM AlwaysPeriodPlayed == Spec => []PeriodPlayed
<1>1. IInv => PeriodPlayed
  <2> SUFFICES ASSUME IInv, pc = "done", start < SignBit, end < SignBit
               PROVE  /\ Period \cap was \subseteq Elems(v)
                      /\ Elems(v) \subseteq Period
                      /\ \A j, k \in DOMAIN v : j < k =>
                           \/ v[j].stamp < v[k].stamp
                           \/ v[j].stamp = v[k].stamp /\ v[j].uuid < v[k].uuid
    BY DEF PeriodPlayed
  <2>1. /\ start \in Asked /\ end \in Asked /\ dir \subseteq Names
        /\ DOMAIN v = 1..Len(v) /\ \A k \in DOMAIN v : v[k] \in dir
    BY DEF IInv, TypeOK
  <2>2. \A e \in dir : Selected(e) <=> e \in Period
    BY <2>1, PeriodSelected DEF Period
  <2>3. Period \cap was \subseteq Elems(v)
    BY <2>1, <2>2 DEF IInv, Progress, TypeOK, Period
  <2>4. \A k \in DOMAIN v : v[k] \in Period
    BY <2>1, <2>2 DEF IInv, Progress
  <2>5. ASSUME NEW j \in DOMAIN v, NEW k \in DOMAIN v, j < k
        PROVE  \/ v[j].stamp < v[k].stamp
               \/ v[j].stamp = v[k].stamp /\ v[j].uuid < v[k].uuid
    <3> DEFINE d == v[j]
               e == v[k]
    <3>1. d # e /\ ~Before(e, d)
      BY <2>1, <2>5 DEF IInv, Progress, ListOwned
    <3>2. d \in Period /\ e \in Period
      BY <2>4
    <3>3. /\ d.stamp \in Nat /\ e.stamp \in Nat /\ d.uuid \in Nat
          /\ e.uuid \in Nat /\ d.stamp < SignBit /\ e.stamp < SignBit
          /\ SignBit \in Nat
      <4>1. d \in Names /\ e \in Names /\ d.stamp <= end /\ e.stamp <= end
        BY <2>1, <3>2 DEF Period
      <4>2. \A x \in Names : x.stamp \in Nat /\ x.uuid \in Nat
        BY NameTypes
      <4>3. end \in Nat /\ SignBit \in Nat
        BY <2>1, ScanAssumption
      <4> HIDE DEF d, e
      <4> QED  BY <4>1, <4>2, <4>3
    <3>4. d.stamp # e.stamp \/ d.uuid # e.uuid
      BY <2>1, <3>1, <3>2, ScanAssumption DEF Period
    <3>5. Shown(d.stamp) = d.stamp /\ Shown(e.stamp) = e.stamp
      BY <3>3 DEF Shown
    <3> HIDE DEF d, e
    <3>6. d.stamp < e.stamp \/ (d.stamp = e.stamp /\ d.uuid < e.uuid)
      BY <3>1, <3>3, <3>4, <3>5 DEF Before
    <3> QED  BY <3>6 DEF d, e
  <2> QED  BY <2>3, <2>4, <2>5 DEF Elems
<1> QED  BY <1>1, Invariance, PTL

(* filter_fn passes nothing for a request from before 2^31 to after it:    *)
(* its end is printed as a negative number and lies before its start.      *)
LEMMA NoneSelectedAcross ==
  ASSUME NEW e \in Names, start \in Asked, end \in Asked, start < SignBit,
         SignBit <= end
  PROVE  ~Selected(e)
<1>1. /\ start \in Nat /\ end \in Nat /\ SignBit \in Nat
      /\ e.stamp \in Nat /\ end < 2 * SignBit
  BY ScanAssumption
<1>2. Shown(start) >= 0 /\ Shown(end) < 0
  BY <1>1 DEF Shown
<1>3. Shown(start) \in Int /\ Shown(end) \in Int /\ Cut(e.stamp) \in Int
  <2>1. Shown(start) \in Int /\ Shown(end) \in Int /\ Shown(e.stamp) \in Int
    BY <1>1 DEF Shown
  <2> QED  BY <2>1 DEF Cut
<1> QED  BY <1>2, <1>3 DEF Selected

(* How a request loses its records to "%d": one that starts before 2^31    *)
(* and ends from 2^31 on ("until the end of time" as 0xFFFFFFFF) plays     *)
(* nothing at all, for every directory and whatever is recorded meanwhile. *)
THEOREM AcrossPlaysNothing ==
  Spec => [](start < SignBit /\ SignBit <= end => v = <<>>)
<1>1. IInv => (start < SignBit /\ SignBit <= end => v = <<>>)
  <2> SUFFICES ASSUME IInv, start < SignBit, SignBit <= end
               PROVE  v = <<>>
    OBVIOUS
  <2>1. /\ start \in Asked /\ end \in Asked /\ v \in Seq(dir)
        /\ \A k \in DOMAIN v : v[k] \in Names /\ Selected(v[k])
    BY DEF IInv, TypeOK, Progress
  <2>2. DOMAIN v = {}
    BY <2>1, NoneSelectedAcross
  <2> QED  BY <2>1, <2>2
<1> QED  BY <1>1, Invariance, PTL
=============================================================================

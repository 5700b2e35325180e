-------------------------------- MODULE Scan --------------------------------
(***************************************************************************)
(* What a playback finds to send: filter_fn (playback.c) on the names that *)
(* CreateDataFile gave (recordData.c), inside the scandir of the           *)
(* repository's glibc (scandir-tail.c), while other processes go on        *)
(* recording into the same directory.                                      *)
(*                                                                         *)
(* Times are unsigned, written with "%d" and read with atoi; a name goes   *)
(* on with an underscore and the uuid in three digits.  The names modelled *)
(* have stamps of ten digits: those made from 10^9 (2001) on, and until    *)
(* 10^9 seconds before 2^32 (2074), when the number behind the minus sign  *)
(* gets shorter and the order of characters is that of times no more.  The *)
(* times of a request are any 32 bits.  The character after realTime[10]   *)
(* in memory is taken not to be a digit.                                   *)
(***************************************************************************)
EXTENDS Integers, Sequences

CONSTANTS
  Names,    \* what records may be called: a stamp and a uuid
  Asked,    \* the times in a request
  SignBit,  \* 2^31: an unsigned time from here on is printed as negative
  TenDigits,  \* 10^9: the least number of ten digits
  FirstCap  \* first size of the list: 10 in the code

ASSUME ScanAssumption ==
  /\ SignBit \in Nat /\ FirstCap \in Nat \ {0}
  /\ TenDigits \in Nat /\ 10 <= TenDigits
  /\ Names \subseteq [stamp : TenDigits..(2 * SignBit - TenDigits),
                      uuid : 0..999]
  /\ Asked \subseteq 0..(2 * SignBit - 1)

VARIABLES
  dir,     \* the directory: names of records
  start, end,  \* of the request
  pc,      \* "call", "loop", "done" or "failed" (-1 is returned)
  old,     \* entries of opendir() not yet returned by readdir()
  new,     \* entries made since then, and not returned
  was,     \* history: the directory at opendir()
  v,       \* the list
  vsize,   \* its size; the list is allocated when it is not 0
  heap     \* the copies of entries that are allocated

vars == <<dir, start, end, pc, old, new, was, v, vsize, heap>>

-----------------------------------------------------------------------------
(* sprintf "%d" of an unsigned int. *)
Shown(t) == IF t < SignBit THEN t ELSE t - 2 * SignBit

(* atoi of the first 10 characters of a name with stamp t, which has ten   *)
(* digits: a minus sign takes the place of the last one.                   *)
Cut(t) == IF Shown(t) >= 0 THEN Shown(t) ELSE -((-Shown(t)) \div 10)

(* The entry for the directory itself; atoi makes its name 0. *)
Dot == [stamp |-> 0, uuid |-> 0]

(* Faulty: directories are not skipped. *)
SelectedDot(e) == Shown(start) <= Cut(e.stamp) /\ Shown(end) >= Cut(e.stamp)

(* Faulty: the last second of the request is left out. *)
SelectedBefore(e) ==
  e # Dot /\ Shown(start) <= Cut(e.stamp) /\ Shown(end) > Cut(e.stamp)

(* filter_fn *)
Selected(e) ==
  e # Dot /\ Shown(start) <= Cut(e.stamp) /\ Shown(end) >= Cut(e.stamp)

(* alphasort: a minus sign is before every digit, and the ten digits that  *)
(* follow it are compared without regard to it.                            *)
Before(d, e) ==
  LET x == Shown(d.stamp)
      y == Shown(e.stamp)
  IN \/ x = y /\ d.uuid < e.uuid
     \/ x < 0 /\ (y >= 0 \/ x > y)
     \/ 0 <= x /\ x < y

Elems(s) == {s[k] : k \in DOMAIN s}

Permuted(D) == {p \in [D -> D] : \A k \in D : \E j \in D : p[j] = k}

Init == /\ dir \in SUBSET Names
        /\ start \in Asked /\ end \in Asked
        /\ pc = "call"
        /\ old = {} /\ new = {} /\ was = {}
        /\ v = <<>> /\ vsize = 0 /\ heap = {}

-----------------------------------------------------------------------------
(* Another process records; readdir() may return the new name or not. *)
Create == /\ \E e \in Names \ dir :
               /\ dir' = dir \cup {e}
               /\ new' = IF pc = "loop" THEN new \cup {e} ELSE new
          /\ pc \in {"call", "loop"}
          /\ UNCHANGED <<start, end, pc, old, was, v, vsize, heap>>

Open == /\ pc = "call"
        /\ \/ /\ pc' = "loop"
              /\ old' = dir \cup {Dot} /\ was' = dir
           \/ pc' = "failed" /\ UNCHANGED <<old, was>>
        /\ UNCHANGED <<dir, start, end, new, v, vsize, heap>>

(* The size of the list once there is room for one more. *)
Room == IF Len(v) < vsize THEN vsize
        ELSE IF vsize = 0 THEN FirstCap ELSE 2 * vsize

(* Faulty: the handler forgets the first copy. *)
CancelRest == /\ pc' = "failed"
              /\ heap' = heap \ {v[k] : k \in 2..Len(v)}
              /\ v' = <<>> /\ vsize' = 0

(* __scandir_cancel_handler: the copies and the list are freed. *)
Cancel == /\ pc' = "failed"
          /\ heap' = heap \ Elems(v)
          /\ v' = <<>> /\ vsize' = 0

(* readdir() returns e: it is passed over, or copied into the list, or     *)
(* there is no memory for the list or for the copy.                        *)
Read == /\ pc = "loop"
        /\ \E e \in old \cup new :
             /\ old' = old \ {e} /\ new' = new \ {e}
             /\ \/ ~Selected(e) /\ UNCHANGED <<pc, v, vsize, heap>>
                \/ /\ Selected(e)
                   /\ vsize' = Room
                   /\ v' = Append(v, e)
                   /\ heap' = heap \cup {e}
                   /\ UNCHANGED pc
                \/ Selected(e) /\ Cancel
        /\ UNCHANGED <<dir, start, end, was>>

(* readdir() fails. *)
ReadFails == /\ pc = "loop"
             /\ Cancel
             /\ UNCHANGED <<dir, start, end, old, new, was>>

(* No entry is left: the list is sorted. *)
Finish == /\ pc = "loop"
          /\ old = {}
          /\ pc' = "done"
          /\ \E p \in Permuted(DOMAIN v) :
               /\ \A j, k \in DOMAIN v : j < k => ~Before(v[p[k]], v[p[j]])
               /\ v' = [k \in DOMAIN v |-> v[p[k]]]
          /\ UNCHANGED <<dir, start, end, old, new, was, vsize, heap>>

Next == Create \/ Open \/ Read \/ ReadFails \/ Finish

Spec == Init /\ [][Next]_vars
-----------------------------------------------------------------------------
(* Fields have their types; the list, and the copies, are of names in the  *)
(* directory, never of the directory's own entry (filter_fn).              *)
TypeOK == /\ dir \subseteq Names /\ start \in Asked /\ end \in Asked
          /\ pc \in {"call", "loop", "done", "failed"}
          /\ old \subseteq was \cup {Dot} /\ was \subseteq dir
          /\ new \subseteq dir \ was
          /\ v \in Seq(dir) /\ vsize \in Nat /\ heap \subseteq dir

(* scandir writes inside its list however often it is enlarged, each name  *)
(* is in it once, and the copies that are allocated are those of the list: *)
(* a failure of readdir, realloc or malloc in the middle leaves none       *)
(* behind (scandir-tail.c, __scandir_cancel_handler).                      *)
ListOwned == /\ Len(v) <= vsize
             /\ heap = Elems(v)
             /\ \A j, k \in DOMAIN v : v[j] = v[k] => j = k
             /\ pc = "failed" => vsize = 0

(* A playback of a period before 2^31 sends every record of the period     *)
(* that was in the directory when it was opened, perhaps some of those     *)
(* recorded meanwhile, none of another time whatever stamps the directory  *)
(* holds, and in the order of stamps (filter_fn, alphasort).               *)
Period == {e \in dir : start <= e.stamp /\ e.stamp <= end}
PeriodPlayed ==
  pc = "done" /\ start < SignBit /\ end < SignBit =>
    /\ Period \cap was \subseteq Elems(v)
    /\ Elems(v) \subseteq Period
    /\ \A j, k \in DOMAIN v : j < k =>
         \/ v[j].stamp < v[k].stamp
         \/ v[j].stamp = v[k].stamp /\ v[j].uuid < v[k].uuid

(* What dataHeader.h says of StartTime and EndTime, two UINT32: they are   *)
(* seconds since 1970.  So a playback sends every record between them that *)
(* was in the directory when it was opened, in 2038 and later too.         *)
RequestPlayed ==
  pc = "done" /\ start <= end => Period \cap was \subseteq Elems(v)
=============================================================================

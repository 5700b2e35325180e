---------------------------- MODULE RecordProofs ----------------------------
(***************************************************************************)
(* The names and the losses of the recording, for every number of          *)
(* processes, every greatest uuid, every length of a day and every run of  *)
(* the clock.                                                              *)
(***************************************************************************)
EXTENDS Record, TLAPS

USE RecordBounds

(* The counter is past the greatest uuid only between FindDir and Name; a  *)
(* process that records is at its first buffer or a later one.             *)
Counters == \A p \in Proc : /\ pc[p] # "name" => uuid[p] <= MaxUuid
                            /\ pc[p] # "idle" => count[p] >= 1

Types == TypeOK /\ Counters

(* A process lost a buffer to mkdir only on a day whose directory exists,  *)
(* and is about to make a directory only on a day that has cost it none.   *)
DropInv == \A p \in Proc :
             /\ \A d \in Days : drops[p][d] > 0 => d \in dirs
             /\ pc[p] = "mkdir" => drops[p][day[p]] = 0

(* The uuid of the next name of a process, not yet wrapped, and the number *)
(* of the buffer that may have it.                                         *)
NextUuid(p) == IF pc[p] = "name" THEN uuid[p] ELSE uuid[p] + 1
NextCount(p) == IF pc[p] = "name" THEN count[p] ELSE count[p] + 1

(* The counter, which goes round modulo MaxUuid + 1, has not moved further *)
(* from the uuid u of buffer n than p has taken buffers since.             *)
Behind(p, u, n) ==
  \/ u < NextUuid(p) /\ NextUuid(p) - u <= NextCount(p) - n
  \/ NextUuid(p) <= u /\ NextUuid(p) + MaxUuid + 1 - u <= NextCount(p) - n

(* The path p is about to write is made of its own variables. *)
PathOf(p) == /\ path[p].dir = day[p]
             /\ path[p].stamp <= now
             /\ path[p].uuid = uuid[p]

(* Why a name is used again only after a round: a record of this second is *)
(* in a directory of an earlier day, or the counter is behind it.  The     *)
(* counter starts again only with a new directory, which no name is in.    *)
RecordOf(p, r) ==
  /\ r[1].stamp <= now
  /\ r[1].dir \in dirs
  /\ r[1].dir <= day[p]
  /\ \/ r[1].stamp < now
     \/ r[1].dir < day[p]
     \/ Behind(p, r[1].uuid, r[3])
  /\ pc[p] \in {"open", "write"} /\ r[1] = path[p] => count[p] > r[3] + MaxUuid

NamesOf(p) ==
  /\ day[p] <= Day(now)
  /\ pc[p] \in {"name", "open", "write"} => day[p] \in dirs
  /\ pc[p] \in {"open", "write"} => PathOf(p)
  /\ \A r \in log : r[2] = p => RecordOf(p, r)
  /\ pc[p] = "write" => \A r \in kept : r[1] = path[p] => r[2] # p

NameInv == \A p \in Proc : NamesOf(p)

LEMMA DayMonotone == \A s, t \in Nat : s <= t => /\ Day(s) \in Nat
                                                 /\ Day(t) \in Nat
                                                 /\ Day(s) <= Day(t)
<1> SUFFICES ASSUME NEW s \in Nat, NEW t \in Nat, s <= t
             PROVE  Day(s) \in Nat /\ Day(t) \in Nat /\ Day(s) <= Day(t)
  OBVIOUS
<1>1. Day(s) \in Nat /\ Day(t) \in Nat
  BY DEF Day
<1>2. DayLen * Day(s) <= s /\ t < DayLen * (Day(t) + 1)
  BY DEF Day
<1>3. Day(t) + 1 <= Day(s) => DayLen * (Day(t) + 1) <= DayLen * Day(s)
  BY <1>1
<1> QED
  BY <1>1, <1>2, <1>3

LEMMA InDays == /\ \A t \in 0..MaxNow : Day(t) \in Days
                /\ 0 \in 0..MaxNow
BY DEF Days

LEMMA WrappedType == \A u \in 0..(MaxUuid + 1) : Wrapped(u) \in 0..MaxUuid
BY DEF Wrapped

LEMMA InitTypes == Init => Types
<1> SUFFICES ASSUME Init PROVE TypeOK /\ Counters
  BY DEF Types
<1>1. NoPath \in Paths
  BY InDays DEF NoPath, Paths
<1>2. uuid \in [Proc -> 0..(MaxUuid + 1)] /\ Counters
  BY DEF Init, Counters
<1> QED
  BY <1>1, <1>2, InDays DEF Init, TypeOK

LEMMA NextTypes == Types /\ [Next]_vars => Types'
<1> SUFFICES ASSUME TypeOK, Counters, [Next]_vars PROVE TypeOK' /\ Counters'
  BY DEF Types
<1>1. CASE Tick
  BY <1>1 DEF Tick, TypeOK, Counters
<1>2. ASSUME NEW p \in Proc, FindDir(p) PROVE TypeOK' /\ Counters'
  <2>1. count[p] + 1 \in 0..MaxMsg /\ count[p] + 1 >= 1 /\ pc[p] = "idle"
    BY <1>2 DEF FindDir, Goto, TypeOK
  <2>2. uuid[p] + 1 \in 0..(MaxUuid + 1)
    <3>1. uuid[p] <= MaxUuid
      BY <2>1 DEF Counters
    <3>2. uuid[p] \in 0..(MaxUuid + 1)
      BY DEF TypeOK
    <3> QED
      BY <3>1, <3>2
  <2>3. uuid' \in [Proc -> 0..(MaxUuid + 1)]
    BY <1>2, <2>2 DEF FindDir, TypeOK
  <2>4. pc' \in [Proc -> {"idle", "mkdir", "name", "open", "write",
                             "exited"}]
    BY <1>2 DEF FindDir, Goto, TypeOK
  <2>5. TypeOK'
    BY <1>2, <2>1, <2>3, <2>4, InDays DEF FindDir, TypeOK
  <2>6. Counters'
    BY <1>2, <2>1 DEF FindDir, Goto, TypeOK, Counters
  <2> QED
    BY <2>5, <2>6
<1>3. ASSUME NEW p \in Proc, MakeDir(p) PROVE TypeOK' /\ Counters'
  <2>1. day[p] \in Days /\ drops[p] \in [Days -> Nat] /\ 0 \in 0..(MaxUuid + 1)
    BY DEF TypeOK
  <2>2. drops' \in [Proc -> [Days -> Nat]]
    <3>1. drops' = drops \/ drops' = [drops EXCEPT ![p][day[p]] = @ + 1]
      BY <1>3 DEF MakeDir
    <3>2. drops \in [Proc -> [Days -> Nat]]
      BY DEF TypeOK
    <3>3. ASSUME drops' = [drops EXCEPT ![p][day[p]] = @ + 1]
          PROVE  drops' \in [Proc -> [Days -> Nat]]
      <4>1. PICK g : g = [drops[p] EXCEPT ![day[p]] = @ + 1]
        OBVIOUS
      <4>2. g \in [Days -> Nat]
        BY <2>1, <4>1
      <4>3. drops' = [drops EXCEPT ![p] = g]
        BY <3>3, <4>1
      <4> QED
        BY <3>2, <4>2, <4>3
    <3> QED
      BY <3>1, <3>2, <3>3
  <2>3. uuid' \in [Proc -> 0..(MaxUuid + 1)] /\ dirs' \subseteq Days
    BY <1>3, <2>1 DEF MakeDir, TypeOK
  <2>4. pc' \in [Proc -> {"idle", "mkdir", "name", "open", "write",
                             "exited"}]
    BY <1>3 DEF MakeDir, Goto, TypeOK
  <2>5. TypeOK'
    BY <1>3, <2>2, <2>3, <2>4 DEF MakeDir, TypeOK
  <2>6. Counters'
    BY <1>3 DEF MakeDir, Goto, TypeOK, Counters
  <2> QED
    BY <2>5, <2>6
<1>4. ASSUME NEW p \in Proc, Name(p) PROVE TypeOK' /\ Counters'
  <2>1. [dir |-> day[p], stamp |-> now, uuid |-> Wrapped(uuid[p])] \in Paths
    BY WrappedType DEF TypeOK, Paths
  <2>2. Wrapped(uuid[p]) \in 0..MaxUuid
    BY WrappedType DEF TypeOK
  <2>4. TypeOK'
    BY <1>4, <2>1, <2>2 DEF Name, Goto, TypeOK
  <2>5. Counters'
    BY <1>4, <2>2 DEF Name, Goto, TypeOK, Counters
  <2> QED
    BY <2>4, <2>5
<1>5. ASSUME NEW p \in Proc, Open(p) \/ OpenFails(p) \/ MakeDirFails(p)
      PROVE  TypeOK' /\ Counters'
  BY <1>5 DEF Open, OpenFails, MakeDirFails, Goto, TypeOK, Counters
<1>c. ASSUME NEW p \in Proc, ConfigFails(p) PROVE TypeOK' /\ Counters'
  <2>1. count[p] \in 0..MaxMsg /\ count[p] + 1 \in 1..MaxMsg
    BY <1>c DEF ConfigFails, TypeOK
  <2>2. count' = [count EXCEPT ![p] = count[p] + 1]
    BY <1>c DEF ConfigFails
  <2>3. count' \in [Proc -> 0..MaxMsg] /\ count'[p] >= 1
    BY <2>1, <2>2 DEF TypeOK
  <2>4. /\ pc' \in [Proc -> {"idle", "mkdir", "name", "open", "write", "exited"}]
        /\ pc[p] = "idle" /\ pc'[p] \in {"idle", "exited"}
        /\ \A q \in Proc \ {p} : pc'[q] = pc[q] /\ count'[q] = count[q]
    BY <1>c, <2>2 DEF ConfigFails, Goto, TypeOK
  <2>5. TypeOK'
    BY <1>c, <2>3, <2>4 DEF ConfigFails, TypeOK
  <2>6. Counters'
    BY <1>c, <2>3, <2>4 DEF ConfigFails, Counters
  <2> QED
    BY <2>5, <2>6
<1>6. ASSUME NEW p \in Proc, Write(p) PROVE TypeOK' /\ Counters'
  <2>1. <<path[p], p, count[p]>> \in Paths \X Proc \X (1..MaxMsg)
    BY <1>6 DEF Write, Goto, TypeOK, Counters
  <2>2. NoPath \in Paths
    BY InDays DEF NoPath, Paths
  <2>3. kept' \subseteq log' /\ log' \subseteq Paths \X Proc \X (1..MaxMsg)
    BY <1>6, <2>1 DEF Write, TypeOK
  <2>4. TypeOK'
    BY <1>6, <2>2, <2>3 DEF Write, Goto, TypeOK
  <2>5. Counters'
    BY <1>6 DEF Write, Goto, TypeOK, Counters
  <2> QED
    BY <2>4, <2>5
<1>7. CASE UNCHANGED vars
  BY <1>7 DEF vars, TypeOK, Counters
<1> QED
  BY <1>1, <1>2, <1>3, <1>4, <1>5, <1>c, <1>6, <1>7 DEF Next

LEMMA InitDropInv == Init => DropInv
<1>1. ASSUME Init, NEW p \in Proc
      PROVE  pc[p] = "idle" /\ \A d \in Days : drops[p][d] = 0
  BY <1>1 DEF Init
<1>2. ASSUME Init, NEW p \in Proc, NEW d \in Days PROVE ~(drops[p][d] > 0)
  BY <1>1, <1>2
<1> QED
  BY <1>1, <1>2 DEF DropInv

LEMMA NextDropInv == TypeOK /\ DropInv /\ [Next]_vars => DropInv'
<1> SUFFICES ASSUME TypeOK, DropInv, [Next]_vars PROVE DropInv'
  OBVIOUS
<1>1. CASE Tick
  BY <1>1 DEF Tick, DropInv
<1>2. ASSUME NEW p \in Proc, FindDir(p) PROVE DropInv'
  BY <1>2, InDays DEF FindDir, Goto, TypeOK, DropInv
<1>3. ASSUME NEW p \in Proc, MakeDir(p) PROVE DropInv'
  <2>1. /\ pc'[p] # "mkdir" /\ day' = day /\ dirs \subseteq dirs'
        /\ \A q \in Proc : q # p => pc'[q] = pc[q]
    BY <1>3 DEF MakeDir, Goto, TypeOK
  <2>2. \/ drops' = drops
        \/ day[p] \in dirs /\ drops' = [drops EXCEPT ![p][day[p]] = @ + 1]
    BY <1>3 DEF MakeDir
  <2>3. drops \in [Proc -> [Days -> Nat]] /\ day[p] \in Days
    BY DEF TypeOK
  <2>4. ASSUME NEW q \in Proc, NEW d \in Days
        PROVE  \/ drops'[q][d] = drops[q][d]
               \/ q = p /\ d = day[p] /\ d \in dirs
    BY <2>2, <2>3
  <2>5. ASSUME NEW q \in Proc, NEW d \in Days, drops'[q][d] > 0
        PROVE  d \in dirs'
    BY <2>1, <2>4, <2>5 DEF DropInv
  <2>6. ASSUME NEW q \in Proc, pc'[q] = "mkdir"
        PROVE  drops'[q][day'[q]] = 0
    <3>1. q # p /\ pc[q] = "mkdir" /\ day[q] \in Days
      BY <2>1, <2>6 DEF TypeOK
    <3> QED
      BY <2>1, <2>4, <3>1 DEF DropInv
  <2> QED
    BY <2>5, <2>6 DEF DropInv
<1>4. ASSUME NEW p \in Proc, \/ Name(p) \/ Open(p) \/ OpenFails(p) \/ Write(p)
                             \/ ConfigFails(p) \/ MakeDirFails(p)
      PROVE  DropInv'
  BY <1>4 DEF Name, Open, OpenFails, Write, ConfigFails, MakeDirFails, Goto,
              TypeOK, DropInv
<1>5. CASE UNCHANGED vars
  BY <1>5 DEF vars, DropInv
<1> QED
  BY <1>1, <1>2, <1>3, <1>4, <1>5 DEF Next

-----------------------------------------------------------------------------
LEMMA DayTypes == \A d \in Days : d \in Nat
BY DayMonotone DEF Days

LEMMA InitNameInv == Init => NameInv
<1> SUFFICES ASSUME Init, NEW p \in Proc
             PROVE  day[p] <= Day(now) /\ pc[p] = "idle" /\ log = {}
  BY DEF NameInv, NamesOf
<1>1. Day(now) \in Nat
  BY DayMonotone DEF Init
<1> QED
  BY <1>1 DEF Init

(* The facts about types that the steps below use. *)
LEMMA RecordTypes ==
  ASSUME TypeOK, NEW p \in Proc
  PROVE  /\ now \in Nat /\ Day(now) \in Nat /\ day[p] \in Nat
         /\ uuid[p] \in 0..(MaxUuid + 1) /\ count[p] \in Nat
         /\ NextUuid(p) \in Nat /\ NextCount(p) \in Nat
         /\ \A r \in log : /\ r[1].stamp \in Nat /\ r[1].dir \in Nat
                           /\ r[1].uuid \in 0..MaxUuid /\ r[3] \in Nat
<1>1. /\ now \in Nat /\ uuid[p] \in 0..(MaxUuid + 1) /\ count[p] \in Nat
      /\ day[p] \in Days
  BY DEF TypeOK
<1>2. ASSUME NEW r \in log
      PROVE  /\ r[1].stamp \in Nat /\ r[1].dir \in Days
             /\ r[1].uuid \in 0..MaxUuid /\ r[3] \in Nat
  BY DEF TypeOK, Paths
<1> QED
  BY <1>1, <1>2, DayTypes, DayMonotone DEF NextUuid, NextCount

(* A step in which p makes up no name: day[p] is the same or later, the    *)
(* next uuid the same unless the directory is new, the number of buffers   *)
(* the same or greater.                                                    *)
LEMMA SameNames ==
  ASSUME TypeOK, TypeOK', NEW p \in Proc, NamesOf(p),
         now' = now, dirs \subseteq dirs',
         day[p] <= day'[p], day'[p] <= Day(now),
         day[p] = day'[p] /\ day[p] \in dirs => NextUuid(p)' = NextUuid(p),
         NextCount(p) <= NextCount(p)',
         pc'[p] \in {"name", "open", "write"} => day'[p] \in dirs',
         pc'[p] \in {"open", "write"} =>
           /\ pc[p] \in {"open", "write"}
           /\ path'[p] = path[p] /\ uuid'[p] = uuid[p] /\ day'[p] = day[p]
           /\ count'[p] = count[p],
         \A r \in log' : r[2] = p => r \in log,
         pc'[p] = "write" => \A r \in kept' : r[1] = path'[p] => r[2] # p
  PROVE  NamesOf(p)'
<1>1. pc'[p] \in {"open", "write"} => PathOf(p)'
  BY DEF NamesOf, PathOf
<1>2. ASSUME NEW r \in log', r[2] = p PROVE RecordOf(p, r)'
  <2>1. r \in log /\ RecordOf(p, r)
    BY <1>2 DEF NamesOf
  <2>2. /\ day[p] \in Nat /\ day'[p] \in Nat /\ r[1].dir \in Nat
        /\ NextUuid(p) \in Nat /\ NextCount(p) \in Nat /\ NextCount(p)' \in Nat
        /\ r[1].uuid \in Nat /\ r[3] \in Nat /\ now \in Nat
    BY <2>1, RecordTypes, DayTypes DEF TypeOK, NextCount
  <2>3. r[1].dir = day'[p] => NextUuid(p)' = NextUuid(p) /\ day[p] = day'[p]
    BY <2>1, <2>2 DEF RecordOf
  <2>4. r[1].dir = day'[p] /\ Behind(p, r[1].uuid, r[3])
          => Behind(p, r[1].uuid, r[3])'
    BY <2>2, <2>3 DEF Behind
  <2>5. pc'[p] \in {"open", "write"} /\ r[1] = path'[p]
          => count'[p] > r[3] + MaxUuid
    BY <2>1 DEF RecordOf
  <2>6. r[1].stamp < now' \/ r[1].dir < day'[p] \/ Behind(p, r[1].uuid, r[3])'
    BY <2>1, <2>2, <2>4 DEF RecordOf
  <2> QED
    BY <2>1, <2>2, <2>5, <2>6 DEF RecordOf
<1> QED
  BY <1>1, <1>2 DEF NamesOf

(* The next name of p is one the counter gave a round ago, or a new one. *)
LEMMA NameStep ==
  ASSUME NEW U \in 0..(MaxUuid + 1), NEW C \in Nat, NEW n \in Nat,
         NEW u \in 0..MaxUuid,
         \/ u < U /\ U - u <= C - n
         \/ U <= u /\ U + MaxUuid + 1 - u <= C - n
  PROVE  LET w == Wrapped(U) IN
         /\ u = w => C > n + MaxUuid
         /\ \/ u < w + 1 /\ (w + 1) - u <= (C + 1) - n
            \/ w + 1 <= u /\ (w + 1) + MaxUuid + 1 - u <= (C + 1) - n
<1>1. CASE U <= MaxUuid
  BY <1>1 DEF Wrapped
<1>2. CASE U = MaxUuid + 1
  BY <1>2 DEF Wrapped
<1> QED
  BY <1>1, <1>2

LEMMA NextNameInv == Types /\ NameInv /\ [Next]_vars => NameInv'
<1> SUFFICES ASSUME Types, NameInv, [Next]_vars PROVE NameInv'
  OBVIOUS
<1>t. TypeOK /\ TypeOK' /\ Counters
  BY NextTypes DEF Types
<1>d. ASSUME NEW q \in Proc
      PROVE  /\ day[q] \in Nat /\ Day(now) \in Nat /\ day[q] <= Day(now)
             /\ count[q] \in Nat /\ NextCount(q) \in Nat /\ NamesOf(q)
  BY <1>t, RecordTypes DEF NameInv, NamesOf
<1>1. CASE Tick
  <2> SUFFICES ASSUME NEW q \in Proc PROVE NamesOf(q)'
    BY DEF NameInv
  <2>1. Day(now) <= Day(now') /\ Day(now') \in Nat /\ now < now'
        /\ now \in Nat /\ now' \in Nat
    BY <1>1, <1>t, DayMonotone DEF Tick, TypeOK
  <2>2. day'[q] <= Day(now')
    BY <1>1, <1>d, <2>1 DEF Tick
  <2>3. pc'[q] \in {"open", "write"} => PathOf(q)'
    <3>1. path[q].stamp \in Nat
      BY <1>t DEF TypeOK, Paths
    <3> QED
      BY <1>1, <1>d, <2>1, <3>1 DEF Tick, NamesOf, PathOf
  <2>4. ASSUME NEW r \in log', r[2] = q PROVE RecordOf(q, r)'
    <3>1. r \in log /\ RecordOf(q, r)
      BY <1>1, <1>d, <2>4 DEF Tick, NamesOf
    <3>2. r[1].stamp \in Nat
      BY <1>t, <3>1, RecordTypes
    <3> QED
      BY <1>1, <2>1, <3>1, <3>2 DEF Tick, RecordOf
  <2> QED
    BY <1>1, <1>d, <2>2, <2>3, <2>4 DEF Tick, NamesOf
<1>2. ASSUME NEW p \in Proc, NEW q \in Proc, q # p,
             \/ FindDir(p) \/ MakeDir(p) \/ MakeDirFails(p) \/ Name(p)
             \/ Open(p) \/ OpenFails(p) \/ Write(p) \/ ConfigFails(p)
      PROVE  NamesOf(q)'
  <2>1. /\ pc'[q] = pc[q] /\ uuid'[q] = uuid[q] /\ day'[q] = day[q]
        /\ path'[q] = path[q] /\ count'[q] = count[q]
        /\ now' = now /\ dirs \subseteq dirs'
        /\ log' \subseteq log \cup {<<path[p], p, count[p]>>}
        /\ kept' \subseteq kept \cup {<<path[p], p, count[p]>>}
    BY <1>2, <1>t
       DEF FindDir, MakeDir, MakeDirFails, Name, Open, OpenFails, Write,
           ConfigFails, Goto, TypeOK
  <2>2. /\ \A r \in log' : r[2] = q => r \in log
        /\ \A r \in kept' : r[2] = q => r \in kept
    <3>1. PICK w : w = <<path[p], p, count[p]>>
      OBVIOUS
    <3>2. w[2] # q
      BY <1>2, <3>1
    <3>3. log' \subseteq log \cup {w} /\ kept' \subseteq kept \cup {w}
      BY <2>1, <3>1
    <3> QED
      BY <3>2, <3>3
  <2>4. NextUuid(q)' = NextUuid(q) /\ NextCount(q)' = NextCount(q)
    BY <2>1 DEF NextUuid, NextCount
  <2>5. pc'[q] \in {"name", "open", "write"} => day'[q] \in dirs'
    BY <1>d, <2>1 DEF NamesOf
  <2>6. pc'[q] = "write" => \A r \in kept' : r[1] = path'[q] => r[2] # q
    BY <1>d, <2>1, <2>2 DEF NamesOf
  <2>7. NextCount(q) <= NextCount(q)' /\ day[q] <= day'[q] /\ day'[q] <= Day(now)
    BY <1>d, <2>1, <2>4
  <2> QED
    BY <1>d, <1>t, <2>1, <2>2, <2>4, <2>5, <2>6, <2>7, SameNames
<1>3. ASSUME NEW p \in Proc, FindDir(p) PROVE NamesOf(p)'
  <2>1. /\ pc[p] = "idle" /\ pc'[p] \in {"name", "mkdir"}
        /\ day'[p] = Day(now) /\ log' = log /\ dirs' = dirs /\ now' = now
        /\ count'[p] = count[p] + 1
        /\ pc'[p] = "name" => day'[p] \in dirs
    BY <1>3, <1>t DEF FindDir, Goto, TypeOK
  <2>2. NextUuid(p)' = NextUuid(p)
    BY <1>3, <1>t DEF FindDir, Goto, TypeOK, NextUuid
  <2>3. NextCount(p) <= NextCount(p)'
    BY <1>d, <2>1 DEF NextCount
  <2>4. day[p] <= day'[p] /\ day'[p] <= Day(now)
    BY <1>d, <2>1
  <2> QED
    BY <1>d, <1>t, <2>1, <2>2, <2>3, <2>4, SameNames
<1>4. ASSUME NEW p \in Proc, MakeDir(p) \/ MakeDirFails(p) PROVE NamesOf(p)'
  <2>1. /\ pc[p] = "mkdir" /\ pc'[p] \in {"name", "idle"}
        /\ day' = day /\ log' = log /\ dirs \subseteq dirs' /\ now' = now
        /\ count' = count
        /\ pc'[p] = "name" => day'[p] \in dirs'
    BY <1>4, <1>t DEF MakeDir, MakeDirFails, Goto, TypeOK
  <2>2. day[p] \in dirs => NextUuid(p)' = NextUuid(p) /\ pc'[p] = "idle"
    BY <1>4, <1>t DEF MakeDir, MakeDirFails, Goto, TypeOK, NextUuid
  <2>3. pc'[p] = "idle" => NextCount(p)' = NextCount(p)
    BY <2>1 DEF NextCount
  <2>4. day[p] <= day'[p] /\ day'[p] <= Day(now)
    BY <1>d, <2>1
  <2>5. CASE pc'[p] = "idle"
    <3>1. NextCount(p) <= NextCount(p)'
      BY <1>d, <2>3, <2>5
    <3> QED
      BY <1>d, <1>t, <2>1, <2>2, <2>4, <2>5, <3>1, SameNames
  <2>6. CASE pc'[p] = "name"
    <3>1. day[p] \notin dirs
      BY <2>2, <2>6
    <3>2. ASSUME NEW r \in log', r[2] = p PROVE RecordOf(p, r)'
      <4>1. r \in log /\ RecordOf(p, r) /\ r[1].dir \in Nat
        BY <1>d, <1>t, <2>1, <3>2, RecordTypes DEF NamesOf
      <4>2. r[1].dir < day[p]
        BY <1>d, <3>1, <4>1 DEF RecordOf
      <4> QED
        BY <2>1, <2>6, <4>1, <4>2 DEF RecordOf
    <3> QED
      BY <1>d, <2>1, <2>4, <2>6, <3>2 DEF NamesOf
  <2> QED
    BY <2>1, <2>5, <2>6
<1>5. ASSUME NEW p \in Proc, Open(p) \/ OpenFails(p) PROVE NamesOf(p)'
  <2>1. /\ pc[p] = "open" /\ pc'[p] \in {"write", "idle"}
        /\ path' = path /\ log' = log /\ count' = count
        /\ day' = day /\ dirs' = dirs /\ now' = now /\ uuid' = uuid
        /\ pc'[p] = "write" => kept' = kept \ At(path[p])
    BY <1>5, <1>t DEF Open, OpenFails, Goto, TypeOK
  <2>2. NextUuid(p)' = NextUuid(p) /\ NextCount(p)' = NextCount(p)
    BY <2>1 DEF NextUuid, NextCount
  <2>3. pc'[p] = "write" => \A r \in kept' : r[1] = path'[p] => r[2] # p
    BY <2>1 DEF At
  <2>4. /\ NextCount(p) <= NextCount(p)' /\ day[p] <= day'[p]
        /\ day'[p] <= Day(now)
    BY <1>d, <2>1, <2>2
  <2>5. pc'[p] \in {"name", "open", "write"} => day'[p] \in dirs'
    BY <1>d, <2>1 DEF NamesOf
  <2> QED
    BY <1>d, <1>t, <2>1, <2>2, <2>3, <2>4, <2>5, SameNames
<1>6. ASSUME NEW p \in Proc, Write(p) PROVE NamesOf(p)'
  <2>1. /\ pc[p] = "write" /\ pc'[p] = "idle"
        /\ day' = day /\ dirs' = dirs /\ now' = now /\ uuid' = uuid
        /\ count' = count
        /\ log' = log \cup {<<path[p], p, count[p]>>}
    BY <1>6, <1>t DEF Write, Goto, TypeOK
  <2>2. NextUuid(p)' = NextUuid(p) /\ NextUuid(p) = uuid[p] + 1
        /\ NextCount(p)' = NextCount(p) /\ NextCount(p) = count[p] + 1
    BY <2>1 DEF NextUuid, NextCount
  <2>3. ASSUME NEW r \in log, r[2] = p PROVE RecordOf(p, r)'
    <3>1. RecordOf(p, r)
      BY <1>d, <2>3 DEF NamesOf
    <3> QED
      BY <2>1, <2>2, <3>1 DEF RecordOf, Behind
  <2>w. PICK w \in log' : w = <<path[p], p, count[p]>>
    BY <2>1
  <2>4. RecordOf(p, w)'
    <3>1. /\ w[1].stamp <= now /\ w[1].dir = day[p] /\ w[1].uuid = uuid[p]
          /\ w[3] = count[p] /\ day[p] \in dirs
      BY <1>d, <2>1, <2>w DEF NamesOf, PathOf
    <3>2. uuid[p] \in Nat /\ count[p] \in Nat
      BY <1>t, RecordTypes
    <3>3. /\ uuid[p] < uuid[p] + 1
          /\ (uuid[p] + 1) - uuid[p] <= (count[p] + 1) - count[p]
      BY <3>2
    <3>4. Behind(p, w[1].uuid, w[3])'
      <4>1. NextUuid(p)' = uuid[p] + 1 /\ NextCount(p)' = count[p] + 1
        BY <2>2
      <4> QED
        BY <3>1, <3>3, <4>1, Zenon DEF Behind
    <3>5. /\ w[1].stamp <= now' /\ w[1].dir \in dirs' /\ w[1].dir <= day'[p]
          /\ pc'[p] \notin {"open", "write"}
      <4>1. day[p] \in Nat
        BY <1>t, RecordTypes
      <4> QED
        BY <2>1, <3>1, <4>1
    <3> QED
      BY <3>4, <3>5, Zenon DEF RecordOf
  <2>5. \A r \in log' : r[2] = p => RecordOf(p, r)'
    BY <2>1, <2>3, <2>4, <2>w
  <2> QED
    BY <1>d, <2>1, <2>5 DEF NamesOf
<1>c. ASSUME NEW p \in Proc, ConfigFails(p) PROVE NamesOf(p)'
  <2>1. /\ pc[p] = "idle" /\ pc'[p] \in {"idle", "exited"}
        /\ day' = day /\ log' = log /\ dirs' = dirs /\ now' = now
        /\ uuid' = uuid /\ count'[p] = count[p] + 1
    BY <1>c, <1>t DEF ConfigFails, Goto, TypeOK
  <2>2. NextUuid(p)' = NextUuid(p)
    BY <2>1 DEF NextUuid
  <2>3. /\ NextCount(p) <= NextCount(p)' /\ day[p] <= day'[p]
        /\ day'[p] <= Day(now)
    BY <1>d, <2>1 DEF NextCount
  <2> QED
    BY <1>d, <1>t, <2>1, <2>2, <2>3, SameNames
<1>n. ASSUME NEW p \in Proc, Name(p) PROVE NamesOf(p)'
  <2>w. PICK w \in 0..MaxUuid : w = Wrapped(uuid[p])
    BY <1>t, WrappedType DEF TypeOK
  <2>f. PICK f \in Paths : f = [dir |-> day[p], stamp |-> now, uuid |-> w]
    BY <1>t DEF TypeOK, Paths
  <2>1. /\ pc[p] = "name" /\ pc'[p] = "open" /\ path'[p] = f /\ uuid'[p] = w
        /\ day' = day /\ dirs' = dirs /\ now' = now /\ log' = log
        /\ count' = count
    BY <1>n, <1>t, <2>w, <2>f DEF Name, Goto, TypeOK
  <2>2. f.dir = day[p] /\ f.stamp = now /\ f.uuid = w
    BY <2>f
  <2>3. /\ NextUuid(p) = uuid[p] /\ NextUuid(p)' = w + 1
        /\ NextCount(p) = count[p] /\ NextCount(p)' = count[p] + 1
    BY <2>1 DEF NextUuid, NextCount
  <2>4. ASSUME NEW r \in log', r[2] = p PROVE RecordOf(p, r)'
    <3>1. r \in log /\ RecordOf(p, r)
      BY <1>d, <2>1, <2>4 DEF NamesOf
    <3>2. /\ r[1].stamp \in Nat /\ r[1].dir \in Nat /\ r[1].uuid \in 0..MaxUuid
          /\ r[3] \in Nat /\ now \in Nat /\ day[p] \in Nat
          /\ uuid[p] \in 0..(MaxUuid + 1) /\ count[p] \in Nat
      BY <1>t, <3>1, RecordTypes
    <3>3. ASSUME Behind(p, r[1].uuid, r[3])
          PROVE  /\ Behind(p, r[1].uuid, r[3])'
                 /\ r[1].uuid = w => count[p] > r[3] + MaxUuid
      <4>1. \/ r[1].uuid < uuid[p] /\ uuid[p] - r[1].uuid <= count[p] - r[3]
            \/ /\ uuid[p] <= r[1].uuid
               /\ uuid[p] + MaxUuid + 1 - r[1].uuid <= count[p] - r[3]
        BY <2>3, <3>3 DEF Behind
      <4>2. /\ r[1].uuid = w => count[p] > r[3] + MaxUuid
            /\ \/ /\ r[1].uuid < w + 1
                  /\ (w + 1) - r[1].uuid <= (count[p] + 1) - r[3]
               \/ /\ w + 1 <= r[1].uuid
                  /\ (w + 1) + MaxUuid + 1 - r[1].uuid <= (count[p] + 1) - r[3]
        BY <2>w, <3>2, <4>1, NameStep
      <4> QED
        BY <2>3, <4>2, Zenon DEF Behind
    <3>4. r[1] = f => count[p] > r[3] + MaxUuid
      BY <2>2, <3>1, <3>2, <3>3 DEF RecordOf
    <3> QED
      BY <2>1, <3>1, <3>3, <3>4 DEF RecordOf
  <2>5. PathOf(p)' /\ day[p] \in dirs
    BY <1>d, <1>t, <2>1, <2>2 DEF PathOf, NamesOf, TypeOK
  <2> QED
    BY <1>d, <2>1, <2>4, <2>5 DEF NamesOf
<1>7. CASE UNCHANGED vars
  BY <1>7 DEF vars, NameInv, NamesOf, RecordOf, PathOf, Behind, NextUuid,
              NextCount
<1>8. ASSUME NEW p \in Proc,
             \/ FindDir(p) \/ MakeDir(p) \/ MakeDirFails(p) \/ Name(p)
             \/ Open(p) \/ OpenFails(p) \/ Write(p) \/ ConfigFails(p)
      PROVE  NameInv'
  BY <1>2, <1>3, <1>4, <1>5, <1>6, <1>8, <1>c, <1>n DEF NameInv
<1> QED
  BY <1>1, <1>7, <1>8 DEF Next

-----------------------------------------------------------------------------
(* From NameInv: a name a process writes to is one it gave a round ago, or *)
(* none it has given.                                                      *)
LEMMA NextReused ==
  TypeOK /\ NameInv /\ ReusedAfterRound /\ [Next]_vars => ReusedAfterRound'
<1> SUFFICES ASSUME TypeOK, NameInv, ReusedAfterRound, [Next]_vars
             PROVE  ReusedAfterRound'
  OBVIOUS
<1>1. CASE log' = log
  BY <1>1 DEF ReusedAfterRound
<1>2. ASSUME NEW p \in Proc, Write(p) PROVE ReusedAfterRound'
  <2> DEFINE w == <<path[p], p, count[p]>>
  <2>1. log' = log \cup {w} /\ pc[p] = "write"
    BY <1>2 DEF Write, Goto
  <2>2. \A r \in log : r[2] = p /\ r[1] = path[p] => count[p] > r[3] + MaxUuid
    BY <2>1 DEF NameInv, NamesOf, RecordOf
  <2>3. w[1] = path[p] /\ w[2] = p /\ w[3] = count[p] /\ count[p] \in Nat
    BY DEF TypeOK
  <2>4. \A r \in log : r[3] \in Nat
    BY RecordTypes
  <2> HIDE DEF w
  <2>5. ASSUME NEW r \in log', NEW s \in log', r[1] = s[1], r[2] = s[2],
               r[3] < s[3]
        PROVE  s[3] > r[3] + MaxUuid
    <3>1. CASE r \in log /\ s \in log
      BY <2>5, <3>1 DEF ReusedAfterRound
    <3>2. CASE r \in log /\ s = w
      BY <2>2, <2>3, <2>5, <3>2
    <3>3. CASE r = w /\ s \in log
      BY <2>2, <2>3, <2>4, <2>5, <3>3
    <3>4. CASE r = w /\ s = w
      BY <2>3, <2>5, <3>4
    <3> QED
      BY <2>1, <3>1, <3>2, <3>3, <3>4
  <2> QED
    BY <2>5 DEF ReusedAfterRound
<1> QED
  BY <1>1, <1>2
     DEF Next, Tick, FindDir, MakeDir, MakeDirFails, Name, Open, OpenFails,
         ConfigFails, vars

(* Open and Write take a buffer away only under a name that another        *)
(* process, or the same one a round later, gives again.                    *)
LEMMA NextLost ==
  TypeOK /\ NameInv /\ LostOnlyToReuse /\ [Next]_vars => LostOnlyToReuse'
<1> SUFFICES ASSUME TypeOK, NameInv, LostOnlyToReuse, [Next]_vars
             PROVE  LostOnlyToReuse'
  OBVIOUS
<1>1. ASSUME log' = log, kept' = kept,
             \A q \in Proc : pc[q] = "write" => /\ pc'[q] = "write"
                                                /\ path'[q] = path[q]
                                                /\ count'[q] = count[q]
      PROVE  LostOnlyToReuse'
  BY <1>1 DEF LostOnlyToReuse, MayShare
<1>2. CASE Tick \/ UNCHANGED vars
  BY <1>1, <1>2 DEF Tick, vars
<1>3. ASSUME NEW p \in Proc,
             \/ FindDir(p) \/ MakeDir(p) \/ MakeDirFails(p) \/ Name(p)
             \/ OpenFails(p) \/ ConfigFails(p)
      PROVE  LostOnlyToReuse'
  BY <1>1, <1>3
     DEF FindDir, MakeDir, MakeDirFails, Name, OpenFails, ConfigFails, Goto,
         TypeOK
<1>w. ASSUME NEW p \in Proc, pc[p] \in {"open", "write"}, NEW r \in log,
             r[1] = path[p]
      PROVE  MayShare(p, count[p], r)
  BY <1>w DEF MayShare, NameInv, NamesOf, RecordOf
<1>4. ASSUME NEW p \in Proc, Open(p) PROVE LostOnlyToReuse'
  <2>1. /\ log' = log /\ path' = path /\ kept' = kept \ At(path[p])
        /\ pc'[p] = "write" /\ \A q \in Proc \ {p} : pc'[q] = pc[q]
        /\ pc[p] = "open" /\ count' = count
    BY <1>4 DEF Open, Goto, TypeOK
  <2>2. ASSUME NEW r \in log, r \in At(path[p])
        PROVE  r[1] = path[p] /\ MayShare(p, count[p], r)
    BY <1>w, <2>1, <2>2 DEF At
  <2>3. \A q \in Proc : pc[q] = "write" => pc'[q] = "write"
    BY <2>1
  <2> QED
    BY <2>1, <2>2, <2>3 DEF LostOnlyToReuse, MayShare
<1>5. ASSUME NEW p \in Proc, Write(p) PROVE LostOnlyToReuse'
  <2> DEFINE w == <<path[p], p, count[p]>>
  <2>1. /\ log' = log \cup {w} /\ pc[p] = "write" /\ count' = count
        /\ \A q \in Proc \ {p} : pc'[q] = pc[q] /\ path'[q] = path[q]
        /\ kept \ At(path[p]) \subseteq kept'
        /\ w \in kept' \/ At(path[p]) # {}
    BY <1>5 DEF Write, Goto, TypeOK
  <2>3. w \in log' /\ w[1] = path[p] /\ w[2] = p /\ w[3] = count[p]
    BY <2>1
  <2> HIDE DEF w
  <2>4. ASSUME NEW r \in log' \ kept'
        PROVE  \/ \E s \in log' : s[1] = r[1] /\ MayShare(s[2], s[3], r)
               \/ \E q \in Proc : /\ pc'[q] = "write" /\ path'[q] = r[1]
                                  /\ MayShare(q, count'[q], r)
    <3>1. CASE r = w
      <4>1. PICK s \in kept : s[1] = path[p]
        BY <2>1, <2>4, <3>1 DEF At
      <4>2. s \in log' /\ s[2] # p
        BY <2>1, <4>1 DEF TypeOK, NameInv, NamesOf
      <4> QED
        BY <2>3, <3>1, <4>1, <4>2 DEF MayShare
    <3>2. CASE r # w /\ r[1] = path[p]
      <4>1. r \in log
        BY <2>1, <2>4, <3>2
      <4>2. MayShare(p, count[p], r)
        BY <1>w, <2>1, <3>2, <4>1
      <4> QED
        BY <2>3, <3>2, <4>2
    <3>3. CASE r # w /\ r[1] # path[p]
      <4>1. r \in log \ kept
        BY <2>1, <2>4, <3>3 DEF At
      <4>2. CASE \E s \in log : s[1] = r[1] /\ MayShare(s[2], s[3], r)
        BY <2>1, <4>2
      <4>3. ASSUME NEW q \in Proc, path[q] = r[1], pc[q] = "write"
            PROVE  path'[q] = r[1] /\ pc'[q] = "write" /\ count'[q] = count[q]
        BY <2>1, <3>3, <4>3
      <4> QED
        BY <4>1, <4>2, <4>3 DEF LostOnlyToReuse
    <3> QED
      BY <3>1, <3>2, <3>3
  <2> QED
    BY <2>4 DEF LostOnlyToReuse, MayShare
<1> QED
  BY <1>2, <1>3, <1>4, <1>5 DEF Next

-----------------------------------------------------------------------------
(* The load under which a process cannot meet its own names: when it makes *)
(* up a name, at most MaxUuid buffers lie between this one and each of its *)
(* records of this second.                                                 *)
Unhurried == \A p \in Proc : pc[p] = "name" =>
               \A r \in log : r[2] = p /\ r[1].stamp = now
                                => count[p] <= r[3] + MaxUuid

(* A file lost its buffer only to another process that gave its own the    *)
(* same name.                                                              *)
LostOnlyToOthers == \A r \in log \ kept :
                      \/ \E s \in log : s[1] = r[1] /\ s[2] # r[2]
                      \/ \E q \in Proc \ {r[2]} : path[q] = r[1] /\ pc[q] = "write"

(* No process has two buffers of one name. *)
Apart == /\ \A p \in Proc, r \in log :
              pc[p] \in {"open", "write"} /\ r[2] = p => r[1] # path[p]
         /\ \A r \in log, s \in log : r[1] = s[1] /\ r[2] = s[2] => r = s

LEMMA NextApart ==
  Types /\ NameInv /\ Unhurried /\ Apart /\ [Next]_vars => Apart'
<1> SUFFICES ASSUME Types, NameInv, Unhurried, Apart, [Next]_vars PROVE Apart'
  OBVIOUS
<1>t. TypeOK /\ TypeOK' /\ NameInv'
  BY NextTypes, NextNameInv DEF Types
<1>1. ASSUME log' = log,
             \A p \in Proc : pc'[p] \in {"open", "write"}
               => pc[p] \in {"open", "write"} /\ path'[p] = path[p]
      PROVE  Apart'
  BY <1>1 DEF Apart
<1>2. CASE Tick \/ UNCHANGED vars
  BY <1>1, <1>2 DEF Tick, vars
<1>3. ASSUME NEW p \in Proc,
             \/ FindDir(p) \/ MakeDir(p) \/ MakeDirFails(p) \/ Open(p)
             \/ OpenFails(p) \/ ConfigFails(p)
      PROVE  Apart'
  BY <1>1, <1>3, <1>t
     DEF FindDir, MakeDir, MakeDirFails, Open, OpenFails, ConfigFails, Goto,
         TypeOK
<1>4. ASSUME NEW p \in Proc, Name(p) PROVE Apart'
  <2>1. /\ pc[p] = "name" /\ pc'[p] = "open" /\ log' = log /\ count' = count
        /\ \A q \in Proc \ {p} : pc'[q] = pc[q] /\ path'[q] = path[q]
        /\ path'[p].stamp = now
    BY <1>4, <1>t DEF Name, Goto, TypeOK
  <2>2. ASSUME NEW r \in log, r[2] = p, r[1] = path'[p] PROVE FALSE
    <3>1. count[p] <= r[3] + MaxUuid
      BY <2>1, <2>2 DEF Unhurried
    <3>2. count[p] > r[3] + MaxUuid
      BY <1>t, <2>1, <2>2 DEF NameInv, NamesOf, RecordOf
    <3>3. count[p] \in Nat /\ r[3] \in Nat
      BY <1>t, RecordTypes
    <3> QED
      BY <3>1, <3>2, <3>3
  <2> QED
    BY <2>1, <2>2 DEF Apart
<1>5. ASSUME NEW p \in Proc, Write(p) PROVE Apart'
  <2> DEFINE w == <<path[p], p, count[p]>>
  <2>1. /\ log' = log \cup {w} /\ pc[p] = "write" /\ pc'[p] = "idle"
        /\ \A q \in Proc \ {p} : pc'[q] = pc[q] /\ path'[q] = path[q]
    BY <1>5, <1>t DEF Write, Goto, TypeOK
  <2>2. w[1] = path[p] /\ w[2] = p
    OBVIOUS
  <2> HIDE DEF w
  <2>3. \A r \in log : r[2] = p => r[1] # path[p]
    BY <2>1 DEF Apart
  <2> QED
    BY <2>1, <2>2, <2>3 DEF Apart
<1> QED
  BY <1>2, <1>3, <1>4, <1>5 DEF Next

-----------------------------------------------------------------------------
(* The counter never leaves a name more than MaxUuid, and only a closed    *)
(* buffer is counted as kept.                                              *)
THEOREM TypeCorrect == Spec => []TypeOK
<1>1. Types => TypeOK
  BY DEF Types
<1> QED
  BY <1>1, InitTypes, NextTypes, PTL DEF Spec

LEMMA Names == Spec => [](Types /\ NameInv)
BY InitTypes, NextTypes, InitNameInv, NextNameInv, PTL DEF Spec

(* A process of CreateDataDir loses at most one buffer a day to the race   *)
(* between access() and mkdir(), whatever the others do.                   *)
THEOREM AtMostOneDrop == Spec => []OneDropPerDay
<1>1. ASSUME TypeOK, DropInv, OneDropPerDay, [Next]_vars PROVE OneDropPerDay'
  <2>1. CASE drops' = drops
    BY <1>1, <2>1 DEF OneDropPerDay
  <2>2. ASSUME NEW p \in Proc, MakeDir(p), drops' # drops
        PROVE  OneDropPerDay'
    <3>1. pc[p] = "mkdir" /\ drops' = [drops EXCEPT ![p][day[p]] = @ + 1]
      BY <2>2 DEF MakeDir, Goto
    <3>2. drops[p][day[p]] = 0
      BY <1>1, <3>1 DEF DropInv
    <3>3. ASSUME NEW q \in Proc, NEW d \in Days
          PROVE  drops'[q][d] = drops[q][d] \/ drops'[q][d] = 1
      BY <1>1, <3>1, <3>2 DEF TypeOK
    <3> QED
      BY <1>1, <3>3 DEF OneDropPerDay
  <2> QED
    BY <1>1, <2>1, <2>2
       DEF Next, Tick, FindDir, MakeDirFails, Name, Open, OpenFails, Write,
           ConfigFails, vars
<1>2. Init => OneDropPerDay
  <2>1. ASSUME Init, NEW p \in Proc, NEW d \in Days PROVE drops[p][d] = 0
    BY <2>1 DEF Init
  <2> QED
    BY <2>1 DEF OneDropPerDay
<1> QED
  BY <1>1, <1>2, TypeCorrect, InitDropInv, NextDropInv, PTL DEF Spec

(* CreateDataFile gives a process a name again only after a whole round of *)
(* uuid within one second, through midnights, new directories and failed   *)
(* calls, whatever the load.                                               *)
THEOREM ReuseNeedsRound == Spec => []ReusedAfterRound
<1>1. Init => ReusedAfterRound
  BY DEF Init, ReusedAfterRound
<1>2. Types => TypeOK
  BY DEF Types
<1> QED
  BY <1>1, <1>2, Names, NextReused, PTL DEF Spec

(* A recorded buffer is lost only to one of the same name, which another   *)
(* process or a whole round of the counter made: fopen(path, "w+")         *)
(* truncates nothing else.                                                 *)
THEOREM LossNeedsReuse == Spec => []LostOnlyToReuse
<1>1. Init => LostOnlyToReuse
  BY DEF Init, LostOnlyToReuse
<1>2. Types => TypeOK
  BY DEF Types
<1> QED
  BY <1>1, <1>2, Names, NextLost, PTL DEF Spec

(* Below a full round of the counter per second a recorded buffer is lost  *)
(* only to another process: the code has no loss but the collision of      *)
(* names of two processes.                                                 *)
THEOREM LossNeedsAnother == Spec /\ []Unhurried => []LostOnlyToOthers
<1>1. Init => Apart
  BY DEF Init, Apart
<1>2. TypeOK /\ Apart /\ LostOnlyToReuse => LostOnlyToOthers
  <2> SUFFICES ASSUME TypeOK, Apart, LostOnlyToReuse, NEW r \in log \ kept
               PROVE  \/ \E s \in log : s[1] = r[1] /\ s[2] # r[2]
                      \/ \E q \in Proc \ {r[2]} :
                           path[q] = r[1] /\ pc[q] = "write"
    BY DEF LostOnlyToOthers
  <2>1. CASE \E s \in log : s[1] = r[1] /\ MayShare(s[2], s[3], r)
    <3>1. PICK s \in log : s[1] = r[1] /\ MayShare(s[2], s[3], r)
      BY <2>1
    <3>2. r[3] \in Nat
      BY DEF TypeOK
    <3>3. s = r => s[2] # r[2]
      BY <3>1, <3>2 DEF MayShare
    <3> QED
      BY <3>1, <3>3 DEF Apart
  <2>2. CASE \E q \in Proc : /\ pc[q] = "write" /\ path[q] = r[1]
                             /\ MayShare(q, count[q], r)
    BY <2>2 DEF Apart
  <2> QED
    BY <2>1, <2>2 DEF LostOnlyToReuse
<1>3. Types => TypeOK
  BY DEF Types
<1> QED
  BY <1>1, <1>2, <1>3, Names, NextApart, LossNeedsReuse, PTL DEF Spec

(* Were there one process that records, and no second with more than a     *)
(* round of the counter, no recorded buffer would ever be lost.            *)
THEOREM OneRecorderKeeps ==
  ASSUME \A p, q \in Proc : p = q
  PROVE  Spec /\ []Unhurried => []RecordsKept
<1>1. TypeOK /\ LostOnlyToOthers => RecordsKept
  <2> SUFFICES ASSUME TypeOK, LostOnlyToOthers, NEW r \in log, r \notin kept
               PROVE  FALSE
    BY DEF RecordsKept
  <2>1. \A s \in log : s[2] \in Proc
    BY DEF TypeOK
  <2> QED
    BY <2>1 DEF LostOnlyToOthers
<1> QED
  BY <1>1, TypeCorrect, LossNeedsAnother, PTL
=============================================================================

------------------------------- MODULE Record -------------------------------
(***************************************************************************)
(* The recording of live buffers (recordData.c, and distribute_run up to   *)
(* fclose): every process names its files by the day, the second and its   *)
(* own counter uuid, and no process knows of the others'.  The calls read  *)
(* the clock twice, and other processes work between any two of them.      *)
(***************************************************************************)
EXTENDS Naturals

CONSTANTS
  Proc,     \* processes that receive live buffers
  MaxUuid,  \* the greatest uuid in a name: 999 in the code
  DayLen,   \* seconds of a day
  MaxNow,   \* bound on the clock
  MaxMsg    \* bound on the buffers one process records

ASSUME RecordBounds == /\ MaxUuid \in Nat
                       /\ DayLen \in Nat \ {0}
                       /\ MaxNow \in Nat
                       /\ MaxMsg \in Nat

VARIABLES
  now,    \* time(NULL)
  dirs,   \* the days whose directory exists
  pc,     \* where a process is in initDataRecord
  uuid,   \* its global counter, inherited from the process that forked it
  day,    \* the day GetDirName has put into its path
  path,   \* its path, once complete
  count,  \* number of the buffer it records
  kept,   \* the files that hold one whole buffer: <<path, process, count>>
  log,    \* history: every <<path, process, count>> written and closed
  drops   \* history: buffers lost to the race for mkdir, per process and day

vars == <<now, dirs, pc, uuid, day, path, count, kept, log, drops>>

Day(t) == t \div DayLen
Days == {Day(t) : t \in 0..MaxNow}
Paths == [dir : Days, stamp : 0..MaxNow, uuid : 0..MaxUuid]
NoPath == [dir |-> Day(0), stamp |-> 0, uuid |-> 0]

Init == /\ now = 0
        /\ dirs \in {{}, {Day(0)}}
        /\ pc = [p \in Proc |-> "idle"]
        /\ uuid \in [Proc -> 0..MaxUuid]
        /\ day = [p \in Proc |-> Day(0)]
        /\ path = [p \in Proc |-> NoPath]
        /\ count = [p \in Proc |-> 0]
        /\ kept = {}
        /\ log = {}
        /\ drops = [p \in Proc |-> [d \in Days |-> 0]]

Goto(p, from, to) == pc[p] = from /\ pc' = [pc EXCEPT ![p] = to]

At(f) == {r \in kept : r[1] = f}

Tick == /\ now < MaxNow
        /\ now' = now + 1
        /\ UNCHANGED <<dirs, pc, uuid, day, path, count, kept, log, drops>>

(* Faulty: the directory is made without looking for it first. *)
FindDirBlindly(p) == /\ count[p] < MaxMsg
                     /\ count' = [count EXCEPT ![p] = @ + 1]
                     /\ day' = [day EXCEPT ![p] = Day(now)]
                     /\ Goto(p, "idle", "mkdir")
                     /\ UNCHANGED <<now, dirs, uuid, path, kept, log, drops>>

(* CreateDataDir: GetDirName reads the clock, access() looks for the       *)
(* directory.                                                              *)
FindDir(p) == /\ count[p] < MaxMsg
              /\ count' = [count EXCEPT ![p] = @ + 1]
              /\ day' = [day EXCEPT ![p] = Day(now)]
              /\ \/ /\ Day(now) \in dirs
                    /\ Goto(p, "idle", "name")
                    /\ uuid' = [uuid EXCEPT ![p] = @ + 1]
                 \/ /\ Day(now) \notin dirs
                    /\ Goto(p, "idle", "mkdir")
                    /\ UNCHANGED uuid
              /\ UNCHANGED <<now, dirs, path, kept, log, drops>>

(* initDataRecord and CreateDataDir read the configuration again for every *)
(* buffer: without the file the buffer is dropped; with one that cannot be *)
(* read, or has no data-path, the process ends.                            *)
ConfigFails(p) == /\ count[p] < MaxMsg
                  /\ count' = [count EXCEPT ![p] = @ + 1]
                  /\ Goto(p, "idle", "idle") \/ Goto(p, "idle", "exited")
                  /\ UNCHANGED <<now, dirs, uuid, day, path, kept, log, drops>>

(* mkdir(): a new day, and the counter starts again; if another process    *)
(* was faster, EEXIST: the buffer is neither recorded nor forwarded.       *)
MakeDir(p) == /\ \/ /\ day[p] \notin dirs
                    /\ Goto(p, "mkdir", "name")
                    /\ dirs' = dirs \cup {day[p]}
                    /\ uuid' = [uuid EXCEPT ![p] = 0]
                    /\ UNCHANGED drops
                 \/ /\ day[p] \in dirs
                    /\ Goto(p, "mkdir", "idle")
                    /\ drops' = [drops EXCEPT ![p][day[p]] = @ + 1]
                    /\ UNCHANGED <<dirs, uuid>>
              /\ UNCHANGED <<now, day, path, count, kept, log>>

(* mkdir() fails for another reason (no permission, no space, no data      *)
(* directory): the buffer is dropped too, and the next one tries again.    *)
MakeDirFails(p) == /\ Goto(p, "mkdir", "idle")
                   /\ UNCHANGED <<now, dirs, uuid, day, path, count, kept, log,
                                  drops>>

(* Faulty: >= for >, the counter wraps one too early. *)
WrappedEarly(u) == IF u >= MaxUuid THEN 0 ELSE u

(* Faulty: the counter wraps one too late. *)
WrappedLate(u) == IF u > MaxUuid + 1 THEN 0 ELSE u

Wrapped(u) == IF u > MaxUuid THEN 0 ELSE u

(* CreateDataFile: the clock is read again. *)
Name(p) == /\ Goto(p, "name", "open")
           /\ uuid' = [uuid EXCEPT ![p] = Wrapped(@)]
           /\ path' = [path EXCEPT ![p] = [dir |-> day[p], stamp |-> now,
                                          uuid |-> Wrapped(uuid[p])]]
           /\ UNCHANGED <<now, dirs, day, count, kept, log, drops>>

(* fopen(path, "w+") truncates a file that is already there. *)
Open(p) == /\ Goto(p, "open", "write")
           /\ kept' = kept \ At(path[p])
           /\ UNCHANGED <<now, dirs, uuid, day, path, count, log, drops>>

(* fopen() failed: the buffer is dropped. *)
OpenFails(p) == /\ Goto(p, "open", "idle")
                /\ UNCHANGED <<now, dirs, uuid, day, path, count, kept, log, drops>>

(* fwrite() and fclose(), from offset 0: what another process wrote since  *)
(* Open is overwritten, wholly or in part.                                 *)
Write(p) == LET r == <<path[p], p, count[p]>> IN
            /\ Goto(p, "write", "idle")
            /\ kept' \in {(kept \ At(path[p])) \cup {r}}
                           \cup (IF At(path[p]) = {} THEN {} ELSE {kept \ At(path[p])})
            /\ log' = log \cup {r}
            /\ path' = [path EXCEPT ![p] = NoPath]
            /\ UNCHANGED <<now, dirs, uuid, day, count, drops>>

Next == \/ Tick
        \/ \E p \in Proc : \/ FindDir(p) \/ MakeDir(p) \/ MakeDirFails(p)
                           \/ Name(p) \/ Open(p) \/ OpenFails(p) \/ Write(p)
                           \/ ConfigFails(p)

Spec == Init /\ [][Next]_vars

-----------------------------------------------------------------------------
(* The path and the counter of a process have their types; a counter goes  *)
(* at most one past the greatest uuid before it is wrapped.                *)
TypeOK == /\ now \in 0..MaxNow
          /\ dirs \subseteq Days
          /\ pc \in [Proc -> {"idle", "mkdir", "name", "open", "write",
                           "exited"}]
          /\ uuid \in [Proc -> 0..(MaxUuid + 1)]
          /\ day \in [Proc -> Days]
          /\ path \in [Proc -> Paths]
          /\ count \in [Proc -> 0..MaxMsg]
          /\ kept \subseteq log
          /\ log \subseteq (Paths \X Proc \X (1..MaxMsg))
          /\ drops \in [Proc -> [Days -> Nat]]

(* A process gives a name again only when its counter has gone all the    *)
(* way round within one second: between two of its buffers recorded under  *)
(* one name lie MaxUuid others at least, whatever midnights, wraps, new    *)
(* directories and failed calls come in between (CreateDataDir,            *)
(* CreateDataFile).                                                        *)
ReusedAfterRound == \A r \in log, s \in log :
                      r[1] = s[1] /\ r[2] = s[2] /\ r[3] < s[3]
                        => s[3] > r[3] + MaxUuid

(* Buffer n of process q may have the name of record r: q is another       *)
(* process, or its counter has gone round since.                           *)
MayShare(q, n, r) == q # r[2] \/ n > r[3] + MaxUuid

(* A record loses its buffer only to one that was recorded, or is being    *)
(* recorded, under the same name, by another process or a whole round of   *)
(* the counter later: no failed call and no wrap takes it away             *)
(* (fopen(path, "w+"), fwrite).                                            *)
LostOnlyToReuse == \A r \in log \ kept :
                     \/ \E s \in log : s[1] = r[1] /\ MayShare(s[2], s[3], r)
                     \/ \E q \in Proc : /\ pc[q] = "write" /\ path[q] = r[1]
                                        /\ MayShare(q, count[q], r)

(* The race between access() and mkdir() for the directory of a new day    *)
(* costs a process at most one buffer a day.  (A mkdir() that fails for    *)
(* another reason drops every buffer, and is not counted.)                 *)
OneDropPerDay == \A p \in Proc, d \in Days : drops[p][d] <= 1

(* What "record the transferred data" says: a buffer once recorded stays.  *)
RecordsKept == log \subseteq kept
=============================================================================

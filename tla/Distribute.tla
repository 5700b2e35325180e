----------------------------- MODULE Distribute -----------------------------
(***************************************************************************)
(* The server as its clients see it: the child processes that serve the    *)
(* accepted connections (distribute_receive, distribute_run and            *)
(* distribute_client_send of util.c) with the playback (playback.c) they   *)
(* run and the files ./shm/<address> by which they tell each other that a  *)
(* client is in playback.                                                  *)
(*                                                                         *)
(* Inside a process the clients are served one after the other: this is    *)
(* what module FanOut shows of the threads, so a process is sequential     *)
(* here.  Processes interleave freely, and any of them can be killed.      *)
(***************************************************************************)
EXTENDS Naturals

CONSTANTS
  Proc,        \* child processes (slots: a slot is reused after an exit)
  Addr,        \* IP addresses, of clients and of other peers
  NoAddr,      \* the peer of a process without a connection
  ClientNum,   \* number of configured clients
  ClientAddr,  \* their addresses: client<n>-address of the configuration
  RecordNum,   \* records on disk, numbered in the order of their names
  Offset,      \* time stamp of a record, from the start time of the request
  Empty,       \* records of length 0
  Clobbered,   \* records read into the chunk of their own directory entry
  Speeds,      \* values of the request's Speed field
  MaxElapse    \* bound on the clock of a playback

Clients == 1..ClientNum
Records == 1..RecordNum

ASSUME SizeAssumption == ClientNum \in Nat /\ RecordNum \in Nat
ASSUME AddrAssumption == NoAddr \notin Addr /\ ClientAddr \in [Clients -> Addr]
ASSUME RecordAssumption == /\ Offset \in [Records -> Nat]
                           /\ Empty \subseteq Records
                           /\ Clobbered \subseteq Records
ASSUME ClockAssumption == /\ Speeds \subseteq 0..255
                          /\ MaxElapse \in Nat
                          /\ \A r \in Records : Offset[r] < MaxElapse

VARIABLES
  pc,      \* where the process is
  peer,    \* distributeTcpInfo[0].acceptedAddress
  msg,     \* the buffer: "live", or the command of a replay request
  cur,     \* the client being served
  play,    \* the local variables of scanAndSend
  shm,     \* the addresses for which a file ./shm/<address> exists
  stale    \* history: sends against the shm file since it last changed

vars == <<pc, peer, msg, cur, play, shm, stale>>

Commands == {"start", "end", "other"}

(* speed: of the request.  todo: namelist[i .. n-1], the selected records  *)
(* not yet played.  torn: namelist[i]->d_name was overwritten after its    *)
(* free.  elapse: now - playtime.                                          *)
Playback == [speed : 0..255, todo : SUBSET Records, torn : BOOLEAN,
             elapse : 0..MaxElapse]
NoPlay == [speed |-> 0, todo |-> {}, torn |-> FALSE, elapse |-> 0]

Target(p) == ClientAddr[cur[p]]

Init == /\ pc = [p \in Proc |-> "idle"]
        /\ peer = [p \in Proc |-> NoAddr]
        /\ msg = [p \in Proc |-> "live"]
        /\ cur = [p \in Proc |-> 1]
        /\ play = [p \in Proc |-> NoPlay]
        /\ shm \in SUBSET Addr          \* files of an earlier server run
        /\ stale = [p \in Proc |-> [a \in Addr |-> 0]]

Goto(p, from, to) == pc[p] = from /\ pc' = [pc EXCEPT ![p] = to]

(* scanAndSend or playback_run is left. *)
Leave(p, from, to) == /\ Goto(p, from, to)
                      /\ play' = [play EXCEPT ![p] = NoPlay]

(* The file of a is created or removed: every process's view is renewed. *)
SetLock(a, new) ==
  /\ shm' = new
  /\ stale' = IF (a \in shm) = (a \in new) THEN stale
              ELSE [p \in Proc |-> [stale[p] EXCEPT ![a] = 0]]

(* p sends something to its client; wrong says that the file forbids it. *)
CountSend(p, wrong) ==
  stale' = IF wrong THEN [stale EXCEPT ![p][Target(p)] = @ + 1] ELSE stale

-----------------------------------------------------------------------------
(* distribute_server, distribute_receive *)

Accept(p) == /\ Goto(p, "idle", "recv")
             /\ \E a \in Addr : peer' = [peer EXCEPT ![p] = a]
             /\ UNCHANGED <<msg, cur, play, shm, stale>>

(* recv() returned 0 or -1. *)
Disconnect(p) == /\ Goto(p, "recv", "idle")
                 /\ peer' = [peer EXCEPT ![p] = NoAddr]
                 /\ UNCHANGED <<msg, cur, play, shm, stale>>

(* A buffer with a known header.  (Any other is discarded, and a live one  *)
(* that cannot be recorded is dropped: both leave p in recv().)            *)
Receive(p) == /\ Goto(p, "recv", "serve")
              /\ \E m \in Commands \cup {"live"} : msg' = [msg EXCEPT ![p] = m]
              /\ UNCHANGED <<peer, cur, play, shm, stale>>

(* distribute_run: the loop over the clients is over; the buffer is        *)
(* cleared.                                                                *)
Served(p) == /\ cur[p] > ClientNum
             /\ Goto(p, "serve", "recv")
             /\ msg' = [msg EXCEPT ![p] = "live"]
             /\ cur' = [cur EXCEPT ![p] = 1]
             /\ UNCHANGED <<peer, play, shm, stale>>

-----------------------------------------------------------------------------
(* distribute_client_send *)

(* Faulty: the address of the requester is not compared. *)
ConnectAnyone(p) == /\ cur[p] \in Clients
                    /\ Goto(p, "serve", IF msg[p] # "live" THEN "command"
                                                          ELSE "check")
                    /\ UNCHANGED <<peer, msg, cur, play, shm, stale>>

(* The connection is made; a replay request from the client's own address  *)
(* is executed first.                                                      *)
Connect(p) == /\ cur[p] \in Clients
              /\ Goto(p, "serve", IF msg[p] # "live" /\ Target(p) = peer[p]
                                    THEN "command" ELSE "check")
              /\ UNCHANGED <<peer, msg, cur, play, shm, stale>>

(* Faulty: the index of the loop is advanced twice. *)
ConnectFailsSkips(p) == /\ cur[p] \in Clients
                        /\ pc[p] = "serve"
                        /\ cur' = [cur EXCEPT ![p] = @ + 2]
                        /\ UNCHANGED <<pc, peer, msg, play, shm, stale>>

(* Neither the buffer nor the request it may hold gets any further. *)
ConnectFails(p) == /\ cur[p] \in Clients
                   /\ pc[p] = "serve"
                   /\ cur' = [cur EXCEPT ![p] = @ + 1]
                   /\ UNCHANGED <<pc, peer, msg, play, shm, stale>>

(* access(shmFile): the buffer is withheld, or send() will be called. *)
Check(p) == /\ pc[p] = "check"
            /\ \/ /\ Target(p) \in shm
                  /\ Goto(p, "check", "serve")
                  /\ cur' = [cur EXCEPT ![p] = @ + 1]
               \/ /\ Target(p) \notin shm
                  /\ Goto(p, "check", "send")
                  /\ UNCHANGED cur
            /\ UNCHANGED <<peer, msg, play, shm, stale>>

(* send() returns, with or without success; close(). *)
Send(p) == /\ Goto(p, "send", "serve")
           /\ cur' = [cur EXCEPT ![p] = @ + 1]
           /\ CountSend(p, Target(p) \in shm)
           /\ UNCHANGED <<peer, msg, play, shm>>

-----------------------------------------------------------------------------
(* playback_run *)

StartPlayback(p) == /\ msg[p] = "start"
                    /\ Goto(p, "command", "scan")
                    /\ \E s \in Speeds : play' = [play EXCEPT ![p].speed = s]
                    /\ SetLock(Target(p), shm \cup {Target(p)})
                    /\ UNCHANGED <<peer, msg, cur>>

(* creat() failed: no playback. *)
StartFails(p) == /\ msg[p] = "start"
                 /\ Goto(p, "command", "check")
                 /\ UNCHANGED <<peer, msg, cur, play, shm, stale>>

(* remove(shmFile); that it failed is only logged. *)
Remove(p, from) == /\ Goto(p, from, "check")
                   /\ \E new \in {shm \ {Target(p)}, shm} : SetLock(Target(p), new)
                   /\ UNCHANGED <<peer, msg, cur, play>>

(* PLAYBACK_END and every unknown command. *)
StopPlayback(p) == msg[p] # "start" /\ Remove(p, "command")

(* The playback failed (no directory for today, or a bad connection). *)
Abort(p) == Remove(p, "abort")

(* myscandirServe and the start of scanAndSend: the directory is missing;  *)
(* scandir fails, which is reported as success; or it selects the records  *)
(* whose stamps lie in the request's window, whichever exist by now.       *)
Scan(p) == /\ \/ Leave(p, "scan", "abort")
              \/ Leave(p, "scan", "check")
              \/ /\ Goto(p, "scan", "play")
                 /\ \E sel \in SUBSET Records :
                      play' = [play EXCEPT ![p].todo = sel]
           /\ UNCHANGED <<peer, msg, cur, shm, stale>>

-----------------------------------------------------------------------------
(* scanAndSend, the loop.  alphasort: records are played in name order. *)

Current(p) == CHOOSE r \in play[p].todo : \A s \in play[p].todo : r <= s

(* Faulty: the force-end signal is not looked for. *)
PlayEndsUnsignalled(p) == /\ pc[p] = "play"
                          /\ play[p].todo = {}
                          /\ Leave(p, "play", "check")
                          /\ UNCHANGED <<peer, msg, cur, shm, stale>>

(* Every record was sent, or the file is gone: the force-end signal. *)
PlayEnds(p) == /\ pc[p] = "play"
               /\ play[p].todo = {} \/ Target(p) \notin shm
               /\ Leave(p, "play", "check")
               /\ UNCHANGED <<peer, msg, cur, shm, stale>>

(* The loop starts over with the same record: nothing was sent. *)
Retry(p, from) == /\ Goto(p, from, "play")
                  /\ play' = [play EXCEPT ![p].torn = Current(p) \in Clobbered]

(* Faulty: a record waits for ever when its time is already past. *)
DueExactly(p) == Offset[Current(p)] + 1 = play[p].speed * play[p].elapse

Due(p) == Offset[Current(p)] < play[p].speed * play[p].elapse

(* The record is read and its time compared with the clock.  Its stamp is  *)
(* taken from a directory entry already freed: for a record whose buffer   *)
(* was allocated in that place it is anything.                             *)
ReadRecord(p) == /\ ~play[p].torn
                 /\ \/ /\ Due(p) \/ Current(p) \in Clobbered
                       /\ Goto(p, "play", "psend")
                       /\ UNCHANGED play
                    \/ /\ ~Due(p) \/ Current(p) \in Clobbered
                       /\ Retry(p, "play")
                 /\ UNCHANGED <<peer, msg, cur, shm, stale>>

(* Faulty: the shm file is not looked at again once the playback runs. *)
PaceUnsignalled(p) == pc[p] = "play" /\ play[p].todo # {} /\ ReadRecord(p)

(* The shm file is there: the next record is tried. *)
Pace(p) == /\ pc[p] = "play"
           /\ play[p].todo # {}
           /\ Target(p) \in shm
           /\ ReadRecord(p)

PlaySend(p) == /\ Goto(p, "psend", "play")
               /\ Current(p) \notin Empty
               /\ play' = [play EXCEPT ![p].todo = @ \ {Current(p)}]
               /\ CountSend(p, Target(p) \notin shm)
               /\ UNCHANGED <<peer, msg, cur, shm>>

(* EINTR or EAGAIN, or 0 bytes of an empty record. *)
PlaySendRetry(p) == /\ Retry(p, "psend")
                    /\ UNCHANGED <<peer, msg, cur, shm, stale>>

(* Any other error: the link is bad. *)
PlaySendFails(p) == /\ Leave(p, "psend", "abort")
                    /\ UNCHANGED <<peer, msg, cur, shm, stale>>

(* The process is killed: by SIGPIPE in a send(), by a record that cannot  *)
(* be opened (the NULL stream is used), by the second free of a directory  *)
(* entry when its record is tried again, by a configuration that cannot be *)
(* read or has no data-path when the directory is to be scanned.  No shm   *)
(* file is removed.                                                        *)
Die(p) == /\ pc[p] \in {"scan", "play", "psend", "send"}
          /\ pc[p] = "play" => play[p].todo # {} /\ Target(p) \in shm
          /\ pc' = [pc EXCEPT ![p] = "idle"]
          /\ peer' = [peer EXCEPT ![p] = NoAddr]
          /\ msg' = [msg EXCEPT ![p] = "live"]
          /\ cur' = [cur EXCEPT ![p] = 1]
          /\ play' = [play EXCEPT ![p] = NoPlay]
          /\ UNCHANGED <<shm, stale>>

(* A record whose directory entry is torn cannot be opened. *)
Fault(p) == play[p].torn /\ Die(p)

(* The clock; it is read only while p is in the loop. *)
Tick(p) == /\ pc[p] = "play"
           /\ play[p].elapse < MaxElapse
           /\ play' = [play EXCEPT ![p].elapse = @ + 1]
           /\ UNCHANGED <<pc, peer, msg, cur, shm, stale>>

-----------------------------------------------------------------------------
(* Steps that need no peer. *)
LocalStep(p) == \/ Served(p) \/ Connect(p) \/ ConnectFails(p) \/ Check(p)
                \/ StartPlayback(p) \/ StartFails(p) \/ StopPlayback(p)
                \/ Abort(p) \/ Scan(p) \/ PlayEnds(p) \/ Pace(p) \/ Fault(p)

PeerStep(p) == \/ Accept(p) \/ Disconnect(p) \/ Receive(p) \/ Send(p)
               \/ PlaySend(p) \/ PlaySendRetry(p) \/ PlaySendFails(p)

Next == \E p \in Proc : LocalStep(p) \/ PeerStep(p) \/ Die(p) \/ Tick(p)

Spec == Init /\ [][Next]_vars

(* A process that can run does, and time passes. *)
FairSpec == /\ Spec
            /\ \A p \in Proc : WF_vars(LocalStep(p)) /\ WF_vars(Tick(p))

-----------------------------------------------------------------------------
Busy == {"serve", "command", "scan", "play", "psend", "abort", "check", "send"}
Playing(p) == pc[p] \in {"scan", "play", "psend", "abort"}

(* The fields of a process have their types; while a client is being       *)
(* served, cur is its index, and there is a record when one is sent.       *)
TypeOK == /\ pc \in [Proc -> Busy \cup {"idle", "recv"}]
          /\ peer \in [Proc -> Addr \cup {NoAddr}]
          /\ msg \in [Proc -> Commands \cup {"live"}]
          /\ cur \in [Proc -> 1..(ClientNum + 1)]
          /\ play \in [Proc -> Playback]
          /\ shm \subseteq Addr
          /\ stale \in [Proc -> [Addr -> Nat]]
          /\ \A p \in Proc :
               /\ pc[p] \in Busy \ {"serve"} => cur[p] \in Clients
               /\ pc[p] = "psend" => play[p].todo # {}

(* What the unsynchronised look at the shm file is worth: each time the    *)
(* file of a client appears or disappears, a process sends that client at  *)
(* most one more buffer (live data in playback, or a record after the end  *)
(* of playback) than the file allows.                                      *)
OneStaleSend == \A p \in Proc, a \in Addr : stale[p][a] <= 1

(* The file of a client appears or disappears only by a request (or a      *)
(* failed playback) of a process whose peer has that client's address, and *)
(* it is this process that takes the step: no other peer starts or stops   *)
(* its playback.  A player is in neither place, so what ends it comes over *)
(* another connection than its own.                                        *)
ChangedByOwnRequest ==
  [][\A a \in Addr : (a \in shm) # (a \in shm') =>
       \E p \in Proc : /\ pc[p] \in {"command", "abort"} /\ pc'[p] # pc[p]
                       /\ Target(p) = a /\ peer[p] = a]_vars

(* The force-end signal works, whatever the speed and the records: when    *)
(* the shm file of a client in playback is removed, its player stops,      *)
(* unless the file is created again or the player is blocked in send().    *)
ForceEnd == \A p \in Proc :
  (Playing(p) /\ Target(p) \notin shm)
     ~> (~Playing(p) \/ Target(p) \in shm \/ pc[p] = "psend")

(* Every buffer is dealt with to the end, a playback included: a process   *)
(* comes back to recv() (or is killed) but for three reasons: a client     *)
(* never reads what it is forwarded; the sends of a playback block, or     *)
(* fail with EINTR or EAGAIN or (an empty record) with 0 bytes, for ever;  *)
(* the speed of the request is 0.                                          *)
MessageHandled == \A p \in Proc :
  \/ []<>(pc[p] \notin Busy)
  \/ <>[](pc[p] = "send")
  \/ <>[]Playing(p) /\ []<>(pc[p] = "psend")
  \/ <>[](Playing(p) /\ play[p].speed = 0)

(* The header of distribute_receive: the shm file says that its client is  *)
(* being played back to, so it goes when the last player of that client    *)
(* stops.                                                                  *)
FileEndsWithPlayback ==
  [][\A p \in Proc :
       (Playing(p) /\ ~Playing(p)' /\ Target(p) \in shm')
         => \E q \in Proc \ {p} : Playing(q) /\ peer[q] = peer[p]]_vars
=============================================================================

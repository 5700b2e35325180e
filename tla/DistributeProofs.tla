-------------------------- MODULE DistributeProofs --------------------------
(***************************************************************************)
(* The shm files bound what is sent against them, for every number of      *)
(* processes, clients and records, and every assignment of addresses.      *)
(***************************************************************************)
EXTENDS Distribute, TLAPS

(* A process about to send against the file has not done so since the file *)
(* last changed: when it looked, the file agreed.  OneStaleSend alone is   *)
(* not inductive, for a count of 1 says nothing of what p is about to do.  *)
LookedBefore == \A p \in Proc :
  /\ (pc[p] = "send" /\ Target(p) \in shm) => stale[p][Target(p)] = 0
  /\ (pc[p] = "psend" /\ Target(p) \notin shm) => stale[p][Target(p)] = 0

IInv == TypeOK /\ OneStaleSend /\ LookedBefore

USE SizeAssumption, AddrAssumption, RecordAssumption, ClockAssumption

LEMMA InitIInv == Init => IInv
BY DEF Init, IInv, TypeOK, OneStaleSend, LookedBefore, Playback, NoPlay, Busy,
       Commands, Clients, Records

(* Creating or removing a file keeps what is known of the counts. *)
LEMMA SetLockCounts ==
  ASSUME IInv, NEW a \in Addr, NEW new \in SUBSET Addr,
         \A b \in Addr \ {a} : (b \in new) = (b \in shm), SetLock(a, new)
  PROVE  /\ shm' \subseteq Addr
         /\ stale' \in [Proc -> [Addr -> Nat]]
         /\ OneStaleSend'
         /\ \A q \in Proc, b \in Addr :
              \/ stale'[q][b] = stale[q][b] /\ (b \in shm' <=> b \in shm)
              \/ stale'[q][b] = 0
<1>1. CASE (a \in shm) = (a \in new)
  BY <1>1 DEF SetLock, IInv, TypeOK, OneStaleSend
<1>2. CASE (a \in shm) # (a \in new)
  BY <1>2 DEF SetLock, IInv, TypeOK, OneStaleSend
<1> QED
  BY <1>1, <1>2

(* Assigning a local variable of scanAndSend a value of its type. *)
LEMMA PlayUpdates ==
  ASSUME play \in [Proc -> Playback], NEW p \in Proc
  PROVE  /\ [play EXCEPT ![p] = NoPlay] \in [Proc -> Playback]
         /\ \A s \in 0..255 : [play EXCEPT ![p].speed = s] \in [Proc -> Playback]
         /\ \A r \in SUBSET Records :
              [play EXCEPT ![p].todo = r] \in [Proc -> Playback]
         /\ \A b \in BOOLEAN : [play EXCEPT ![p].torn = b] \in [Proc -> Playback]
         /\ \A e \in 0..MaxElapse :
              [play EXCEPT ![p].elapse = e] \in [Proc -> Playback]
<1>1. [play EXCEPT ![p] = NoPlay] \in [Proc -> Playback]
  BY DEF Playback, NoPlay
<1>2. ASSUME NEW s \in 0..255
      PROVE  [play EXCEPT ![p].speed = s] \in [Proc -> Playback]
  BY DEF Playback
<1>3. ASSUME NEW r \in SUBSET Records
      PROVE  [play EXCEPT ![p].todo = r] \in [Proc -> Playback]
  BY DEF Playback
<1>4. ASSUME NEW b \in BOOLEAN
      PROVE  [play EXCEPT ![p].torn = b] \in [Proc -> Playback]
  BY DEF Playback
<1>5. ASSUME NEW e \in 0..MaxElapse
      PROVE  [play EXCEPT ![p].elapse = e] \in [Proc -> Playback]
  BY DEF Playback
<1> QED
  BY <1>1, <1>2, <1>3, <1>4, <1>5

LEMMA RetryType ==
  ASSUME play \in [Proc -> Playback], NEW p \in Proc, NEW from, Retry(p, from)
  PROVE  play' \in [Proc -> Playback]
<1>1. (Current(p) \in Clobbered) \in BOOLEAN
  OBVIOUS
<1> QED
  BY <1>1, PlayUpdates DEF Retry

(* The loop index stays in range. *)
LEMMA NextIndex == /\ 1 \in 1..(ClientNum + 1)
                   /\ \A c \in Clients : c + 1 \in 1..(ClientNum + 1)
BY DEF Clients

(* A step that moves p away from its sends and only changes one file. *)
LEMMA LockStepLooked ==
  ASSUME IInv, NEW p \in Proc, UNCHANGED cur,
         \A q \in Proc \ {p} : pc'[q] = pc[q], pc'[p] \notin {"send", "psend"},
         \A q \in Proc, b \in Addr :
              \/ stale'[q][b] = stale[q][b] /\ (b \in shm' <=> b \in shm)
              \/ stale'[q][b] = 0
  PROVE  LookedBefore'
<1> SUFFICES ASSUME NEW q \in Proc, pc[q] \in {"send", "psend"}, pc'[q] = pc[q]
             PROVE  /\ (pc[q] = "send" /\ Target(q) \in shm')
                         => stale'[q][Target(q)] = 0
                    /\ (pc[q] = "psend" /\ Target(q) \notin shm')
                         => stale'[q][Target(q)] = 0
  BY DEF LookedBefore, Target
<1>1. Target(q) \in Addr
  BY DEF IInv, TypeOK, Target, Busy
<1> QED
  BY <1>1 DEF IInv, LookedBefore

(* remove(shmFile), from whichever place. *)
LEMMA RemoveStep ==
  ASSUME IInv, NEW p \in Proc, NEW from \in {"command", "abort"}, Remove(p, from)
  PROVE  IInv'
<1>1. Target(p) \in Addr
  BY DEF Remove, Goto, IInv, TypeOK, Target, Busy
<1>2. PICK new \in {shm \ {Target(p)}, shm} : SetLock(Target(p), new)
  BY DEF Remove
<1>3. /\ new \in SUBSET Addr
      /\ \A b \in Addr \ {Target(p)} : (b \in new) = (b \in shm)
  BY DEF IInv, TypeOK
<1>4. /\ shm' \subseteq Addr
      /\ stale' \in [Proc -> [Addr -> Nat]]
      /\ OneStaleSend'
      /\ \A q \in Proc, b \in Addr :
           \/ stale'[q][b] = stale[q][b] /\ (b \in shm' <=> b \in shm)
           \/ stale'[q][b] = 0
  BY <1>1, <1>2, <1>3, SetLockCounts
<1>5. TypeOK'
  BY <1>4 DEF Remove, Goto, IInv, TypeOK, Busy
<1>6. LookedBefore'
  BY <1>4, LockStepLooked DEF Remove, Goto, IInv, TypeOK
<1> QED
  BY <1>4, <1>5, <1>6 DEF IInv

(* Each action preserves the invariant. *)
LEMMA NextIInv == IInv /\ [Next]_vars => IInv'
<1> SUFFICES ASSUME IInv, [Next]_vars PROVE IInv'
  OBVIOUS
<1> USE DEF IInv, Busy, Goto
<1>1. ASSUME NEW p \in Proc, Accept(p) PROVE IInv'
  <2>1. TypeOK'
    BY <1>1 DEF Accept, TypeOK
  <2>2. OneStaleSend'
    BY <1>1 DEF Accept, OneStaleSend
  <2>3. LookedBefore'
    BY <1>1 DEF Accept, TypeOK, LookedBefore, Target
  <2> QED
    BY <2>1, <2>2, <2>3
<1>2. ASSUME NEW p \in Proc, Disconnect(p) PROVE IInv'
  <2>1. TypeOK'
    BY <1>2 DEF Disconnect, TypeOK
  <2>2. OneStaleSend'
    BY <1>2 DEF Disconnect, OneStaleSend
  <2>3. LookedBefore'
    BY <1>2 DEF Disconnect, TypeOK, LookedBefore, Target
  <2> QED
    BY <2>1, <2>2, <2>3
<1>3. ASSUME NEW p \in Proc, Receive(p) PROVE IInv'
  <2>0. msg' \in [Proc -> Commands \cup {"live"}]
    BY <1>3 DEF Receive, TypeOK
  <2>1. TypeOK'
    BY <1>3, <2>0 DEF Receive, TypeOK
  <2>2. OneStaleSend'
    BY <1>3 DEF Receive, OneStaleSend
  <2>3. LookedBefore'
    BY <1>3 DEF Receive, TypeOK, LookedBefore, Target
  <2> QED
    BY <2>1, <2>2, <2>3
<1>4. ASSUME NEW p \in Proc, Served(p) PROVE IInv'
  <2>1. TypeOK'
    BY <1>4, NextIndex DEF Served, TypeOK
  <2>2. OneStaleSend'
    BY <1>4 DEF Served, OneStaleSend
  <2>3. LookedBefore'
    BY <1>4 DEF Served, TypeOK, LookedBefore, Target
  <2> QED
    BY <2>1, <2>2, <2>3
<1>5. ASSUME NEW p \in Proc, Connect(p) PROVE IInv'
  <2>1. TypeOK'
    BY <1>5 DEF Connect, TypeOK
  <2>2. OneStaleSend'
    BY <1>5 DEF Connect, OneStaleSend
  <2>3. LookedBefore'
    BY <1>5 DEF Connect, TypeOK, LookedBefore, Target
  <2> QED
    BY <2>1, <2>2, <2>3
<1>6. ASSUME NEW p \in Proc, ConnectFails(p) PROVE IInv'
  <2>1. TypeOK'
    BY <1>6, NextIndex DEF ConnectFails, TypeOK
  <2>2. OneStaleSend'
    BY <1>6 DEF ConnectFails, OneStaleSend
  <2>3. LookedBefore'
    BY <1>6 DEF ConnectFails, TypeOK, LookedBefore, Target
  <2> QED
    BY <2>1, <2>2, <2>3
<1>7. ASSUME NEW p \in Proc, Check(p) PROVE IInv'
  <2>a. CASE /\ Target(p) \in shm
             /\ Goto(p, "check", "serve")
             /\ cur' = [cur EXCEPT ![p] = @ + 1]
    <3>1. TypeOK'
      BY <1>7, <2>a, NextIndex DEF Check, TypeOK
    <3>2. OneStaleSend'
      BY <1>7 DEF Check, OneStaleSend
    <3>3. LookedBefore'
      BY <1>7, <2>a DEF Check, TypeOK, LookedBefore, Target
    <3> QED
      BY <3>1, <3>2, <3>3
  <2>b. CASE Target(p) \notin shm /\ Goto(p, "check", "send") /\ UNCHANGED cur
    <3>1. TypeOK'
      BY <1>7, <2>b DEF Check, TypeOK
    <3>2. OneStaleSend'
      BY <1>7 DEF Check, OneStaleSend
    <3>3. LookedBefore'
      BY <1>7, <2>b DEF Check, TypeOK, LookedBefore, Target
    <3> QED
      BY <3>1, <3>2, <3>3
  <2> QED
    BY <1>7, <2>a, <2>b DEF Check
<1>8. ASSUME NEW p \in Proc, Send(p) PROVE IInv'
  <2>t. Target(p) \in Addr
    BY <1>8 DEF Send, TypeOK, Target
  <2>s. stale' \in [Proc -> [Addr -> Nat]]
    BY <1>8, <2>t DEF Send, CountSend, TypeOK
  <2>1. TypeOK'
    BY <1>8, <2>s, NextIndex DEF Send, TypeOK
  <2>2. OneStaleSend'
    BY <1>8, <2>t DEF Send, CountSend, OneStaleSend, TypeOK, LookedBefore
  <2>3. LookedBefore'
    BY <1>8 DEF Send, CountSend, TypeOK, LookedBefore, Target
  <2> QED
    BY <2>1, <2>2, <2>3
<1>9. ASSUME NEW p \in Proc, StartPlayback(p) PROVE IInv'
  <2>a. play' \in [Proc -> Playback]
    <3>1. PICK s \in Speeds : play' = [play EXCEPT ![p].speed = s]
      BY <1>9 DEF StartPlayback
    <3>2. s \in 0..255
      OBVIOUS
    <3> QED
      BY <3>1, <3>2, PlayUpdates DEF TypeOK
  <2>b. Target(p) \in Addr
    BY <1>9 DEF StartPlayback, TypeOK, Target
  <2>c. /\ shm' \subseteq Addr
        /\ stale' \in [Proc -> [Addr -> Nat]]
        /\ OneStaleSend'
        /\ \A q \in Proc, b \in Addr :
             \/ stale'[q][b] = stale[q][b] /\ (b \in shm' <=> b \in shm)
             \/ stale'[q][b] = 0
    <3> DEFINE new == shm \cup {Target(p)}
    <3>1. new \in SUBSET Addr
      BY <2>b DEF TypeOK
    <3>2. \A b \in Addr \ {Target(p)} : (b \in new) = (b \in shm)
      OBVIOUS
    <3>3. SetLock(Target(p), new)
      BY <1>9 DEF StartPlayback
    <3> HIDE DEF new
    <3> QED
      BY <2>b, <3>1, <3>2, <3>3, SetLockCounts
  <2>1. TypeOK'
    BY <1>9, <2>a, <2>c DEF StartPlayback, TypeOK
  <2>2. LookedBefore'
    BY <1>9, <2>c, LockStepLooked DEF StartPlayback, TypeOK
  <2> QED
    BY <2>1, <2>2, <2>c
<1>10. ASSUME NEW p \in Proc, StartFails(p) PROVE IInv'
  <2>1. TypeOK'
    BY <1>10 DEF StartFails, TypeOK
  <2>2. OneStaleSend'
    BY <1>10 DEF StartFails, OneStaleSend
  <2>3. LookedBefore'
    BY <1>10 DEF StartFails, TypeOK, LookedBefore, Target
  <2> QED
    BY <2>1, <2>2, <2>3
<1>11. ASSUME NEW p \in Proc, StopPlayback(p) PROVE IInv'
  BY <1>11, RemoveStep DEF StopPlayback
<1>12. ASSUME NEW p \in Proc, Abort(p) PROVE IInv'
  BY <1>12, RemoveStep DEF Abort
<1>13. ASSUME NEW p \in Proc, Scan(p) PROVE IInv'
  <2>1. TypeOK'
    <3>1. ASSUME NEW to \in {"abort", "check"}, Leave(p, "scan", to)
          PROVE  TypeOK'
      <4>1. play' \in [Proc -> Playback]
        BY <3>1, PlayUpdates DEF Leave, TypeOK
      <4>2. UNCHANGED <<peer, msg, cur, shm, stale>>
        BY <1>13 DEF Scan
      <4> QED
        BY <3>1, <4>1, <4>2 DEF Leave, TypeOK
    <3>2. ASSUME Goto(p, "scan", "play"), NEW sel \in SUBSET Records,
                 play' = [play EXCEPT ![p].todo = sel]
          PROVE  TypeOK'
      <4>1. play' \in [Proc -> Playback]
        BY <3>2, PlayUpdates DEF TypeOK
      <4> QED
        BY <1>13, <3>2, <4>1 DEF Scan, TypeOK
    <3> QED
      BY <1>13, <3>1, <3>2 DEF Scan
  <2>2. OneStaleSend'
    BY <1>13 DEF Scan, OneStaleSend
  <2>3. LookedBefore'
    BY <1>13 DEF Scan, Leave, TypeOK, LookedBefore, Target
  <2> QED
    BY <2>1, <2>2, <2>3
<1>14. ASSUME NEW p \in Proc, PlayEnds(p) PROVE IInv'
  <2>0. play' \in [Proc -> Playback]
    BY <1>14, PlayUpdates DEF PlayEnds, Leave, TypeOK
  <2>1. TypeOK'
    BY <1>14, <2>0 DEF PlayEnds, Leave, TypeOK
  <2>2. OneStaleSend'
    BY <1>14 DEF PlayEnds, OneStaleSend
  <2>3. LookedBefore'
    BY <1>14 DEF PlayEnds, Leave, TypeOK, LookedBefore, Target
  <2> QED
    BY <2>1, <2>2, <2>3
<1>15. ASSUME NEW p \in Proc, Pace(p) PROVE IInv'
  <2>1. TypeOK'
    <3>1. CASE Goto(p, "play", "psend") /\ UNCHANGED play
      BY <1>15, <3>1 DEF Pace, ReadRecord, TypeOK
    <3>2. CASE Retry(p, "play")
      <4>1. play' \in [Proc -> Playback]
        BY <3>2, RetryType DEF TypeOK
      <4>2. UNCHANGED <<peer, msg, cur, shm, stale>>
        BY <1>15 DEF Pace, ReadRecord
      <4> QED
        BY <3>2, <4>1, <4>2 DEF Retry, TypeOK
    <3> QED
      BY <1>15, <3>1, <3>2 DEF Pace, ReadRecord
  <2>2. OneStaleSend'
    BY <1>15 DEF Pace, ReadRecord, OneStaleSend
  <2>3. LookedBefore'
    BY <1>15 DEF Pace, ReadRecord, Retry, TypeOK, LookedBefore, Target
  <2> QED
    BY <2>1, <2>2, <2>3
<1>16. ASSUME NEW p \in Proc, PlaySend(p) PROVE IInv'
  <2>0. play' \in [Proc -> Playback]
    <3>1. play[p].todo \ {Current(p)} \in SUBSET Records
      BY DEF TypeOK, Playback
    <3> QED
      BY <1>16, <3>1, PlayUpdates DEF PlaySend, TypeOK
  <2>t. Target(p) \in Addr
    BY <1>16 DEF PlaySend, TypeOK, Target
  <2>1. TypeOK'
    BY <1>16, <2>t, <2>0 DEF PlaySend, CountSend, TypeOK
  <2>2. OneStaleSend'
    BY <1>16, <2>t DEF PlaySend, CountSend, OneStaleSend, TypeOK, LookedBefore
  <2>3. LookedBefore'
    BY <1>16 DEF PlaySend, CountSend, TypeOK, LookedBefore, Target
  <2> QED
    BY <2>1, <2>2, <2>3
<1>17. ASSUME NEW p \in Proc, PlaySendRetry(p) PROVE IInv'
  <2>0. play' \in [Proc -> Playback]
    BY <1>17, RetryType DEF PlaySendRetry, TypeOK
  <2>1. TypeOK'
    BY <1>17, <2>0 DEF PlaySendRetry, Retry, Goto, TypeOK, Busy
  <2>2. OneStaleSend'
    BY <1>17 DEF PlaySendRetry, OneStaleSend
  <2>3. LookedBefore'
    BY <1>17 DEF PlaySendRetry, Retry, TypeOK, LookedBefore, Target
  <2> QED
    BY <2>1, <2>2, <2>3
<1>18. ASSUME NEW p \in Proc, PlaySendFails(p) PROVE IInv'
  <2>0. play' \in [Proc -> Playback]
    BY <1>18, PlayUpdates DEF PlaySendFails, Leave, TypeOK
  <2>1. TypeOK'
    BY <1>18, <2>0 DEF PlaySendFails, Leave, TypeOK
  <2>2. OneStaleSend'
    BY <1>18 DEF PlaySendFails, OneStaleSend
  <2>3. LookedBefore'
    BY <1>18 DEF PlaySendFails, Leave, TypeOK, LookedBefore, Target
  <2> QED
    BY <2>1, <2>2, <2>3
<1>19. ASSUME NEW p \in Proc, Die(p) PROVE IInv'
  <2>0. play' \in [Proc -> Playback]
    BY <1>19, PlayUpdates DEF Die, TypeOK
  <2>1. TypeOK'
    BY <1>19, <2>0, NextIndex DEF Die, TypeOK
  <2>2. OneStaleSend'
    BY <1>19 DEF Die, OneStaleSend
  <2>3. LookedBefore'
    BY <1>19 DEF Die, TypeOK, LookedBefore, Target
  <2> QED
    BY <2>1, <2>2, <2>3
<1>20. ASSUME NEW p \in Proc, Tick(p) PROVE IInv'
  <2>0. play' \in [Proc -> Playback]
    <3>1. play[p].elapse + 1 \in 0..MaxElapse
      BY <1>20 DEF Tick, TypeOK, Playback
    <3> QED
      BY <1>20, <3>1, PlayUpdates DEF Tick, TypeOK
  <2>1. TypeOK'
    BY <1>20, <2>0 DEF Tick, TypeOK
  <2>2. OneStaleSend'
    BY <1>20 DEF Tick, OneStaleSend
  <2>3. LookedBefore'
    BY <1>20 DEF Tick, TypeOK, LookedBefore, Target
  <2> QED
    BY <2>1, <2>2, <2>3
<1>21. CASE UNCHANGED vars
  BY <1>21 DEF vars, OneStaleSend, TypeOK, LookedBefore, Target
<1> QED
  BY <1>1, <1>2, <1>3, <1>4, <1>5, <1>6, <1>7, <1>8, <1>9, <1>10, <1>11, <1>12,
     <1>13, <1>14, <1>15, <1>16, <1>17, <1>18, <1>19, <1>20, <1>21
     DEF Next, LocalStep, PeerStep, Fault

LEMMA Invariance == Spec => []IInv
BY InitIInv, NextIInv, PTL DEF Spec

(* The types of Distribute: the index of the client served stays within    *)
(* the configured ones, for any number of processes of util.c.             *)
THEOREM TypeCorrect == Spec => []TypeOK
<1>1. IInv => TypeOK
  BY DEF IInv
<1> QED
  BY Invariance, <1>1, PTL

(* Whatever the interleaving of forwarding, START, END, failures and       *)
(* deaths, each change of a shm file lets a process send its client at     *)
(* most one buffer that the file forbids (access() in util.c and           *)
(* playback.c, followed later by send()).                                  *)
THEOREM AtMostOneStaleSend == Spec => []OneStaleSend
<1>1. IInv => OneStaleSend
  BY DEF IInv
<1> QED
  BY Invariance, <1>1, PTL

-----------------------------------------------------------------------------
(* A process inside playback_run serves the client whose address its peer  *)
(* has: the comparison in distribute_client_send still holds.              *)
Requester == \A p \in Proc :
  Playing(p) \/ pc[p] = "command" => Target(p) = peer[p]

(* A step of p that stays with its client and its peer, and enters         *)
(* playback_run only as the requester.                                     *)
LEMMA SameRequester ==
  ASSUME TypeOK, Requester, NEW p \in Proc, NEW from, NEW to, Goto(p, from, to),
         UNCHANGED <<peer, cur>>,
         to \in {"command", "scan", "play", "psend", "abort"} =>
           Target(p) = peer[p]
  PROVE  Requester'
BY DEF TypeOK, Requester, Playing, Goto, Target

(* A step of p that ends outside playback_run. *)
LEMMA LeavesRequest ==
  ASSUME TypeOK, Requester, NEW p \in Proc, NEW to \in {"idle", "recv", "serve"},
         pc' = [pc EXCEPT ![p] = to],
         \A q \in Proc \ {p} : peer'[q] = peer[q] /\ cur'[q] = cur[q]
  PROVE  Requester'
BY DEF TypeOK, Requester, Playing, Target

LEMMA NextRequester == IInv /\ Requester /\ [Next]_vars => Requester'
<1> SUFFICES ASSUME IInv, Requester, [Next]_vars PROVE Requester'
  OBVIOUS
<1>t. TypeOK
  BY DEF IInv
<1>1. ASSUME NEW p \in Proc, Accept(p) \/ Disconnect(p) \/ Receive(p) PROVE Requester'
  BY <1>1, <1>t, LeavesRequest DEF Accept, Disconnect, Receive, Goto, TypeOK
<1>2. ASSUME NEW p \in Proc, Served(p) \/ Send(p) PROVE Requester'
  BY <1>2, <1>t, LeavesRequest DEF Served, Send, Goto, TypeOK
<1>3. ASSUME NEW p \in Proc, Die(p) PROVE Requester'
  BY <1>3, <1>t, LeavesRequest DEF Die, TypeOK
<1>4. ASSUME NEW p \in Proc, ConnectFails(p) PROVE Requester'
  BY <1>4, <1>t DEF ConnectFails, TypeOK, Requester, Playing, Target
<1>5. ASSUME NEW p \in Proc, Connect(p) PROVE Requester'
  BY <1>5, <1>t, SameRequester DEF Connect
<1>6. ASSUME NEW p \in Proc, Check(p) PROVE Requester'
  <2>1. CASE Goto(p, "check", "serve") /\ cur' = [cur EXCEPT ![p] = @ + 1]
    BY <1>6, <2>1, <1>t, LeavesRequest DEF Check, Goto, TypeOK
  <2>2. CASE Goto(p, "check", "send") /\ UNCHANGED cur
    BY <1>6, <2>2, <1>t, SameRequester DEF Check
  <2> QED
    BY <1>6, <2>1, <2>2 DEF Check
<1>7. ASSUME NEW p \in Proc,
             \/ StartPlayback(p) \/ StartFails(p) \/ StopPlayback(p) \/ Abort(p)
             \/ Scan(p) \/ PlayEnds(p) \/ Pace(p)
             \/ PlaySend(p) \/ PlaySendRetry(p) \/ PlaySendFails(p)
      PROVE  Requester'
  <2>1. UNCHANGED <<peer, cur>>
    BY <1>7 DEF StartPlayback, StartFails, StopPlayback, Abort, Remove, Scan,
                PlayEnds, Pace, ReadRecord, PlaySend, PlaySendRetry, PlaySendFails
  <2>2. PICK from \in {"command", "scan", "play", "psend", "abort"},
             to \in {"scan", "play", "psend", "abort", "check"} : Goto(p, from, to)
    BY <1>7 DEF StartPlayback, StartFails, StopPlayback, Abort, Remove, Scan,
                Leave, PlayEnds, Pace, ReadRecord, Retry, PlaySend,
                PlaySendRetry, PlaySendFails
  <2>3. Target(p) = peer[p]
    BY <2>2 DEF Goto, Requester, Playing
  <2> QED
    BY <1>t, <2>1, <2>2, <2>3, SameRequester
<1>8. ASSUME NEW p \in Proc, Tick(p) PROVE Requester'
  BY <1>8 DEF Tick, Requester, Playing, Target
<1>9. CASE UNCHANGED vars
  BY <1>9 DEF vars, Requester, Playing, Target
<1> QED
  BY <1>1, <1>2, <1>3, <1>4, <1>5, <1>6, <1>7, <1>8, <1>9
     DEF Next, LocalStep, PeerStep, Fault

LEMMA RequesterInvariance == Spec => [](IInv /\ Requester)
<1>1. Init => Requester
  BY DEF Init, Requester, Playing
<1> QED
  BY <1>1, Invariance, NextRequester, PTL DEF Spec

(* Only a process whose peer has the address of a client creates or        *)
(* removes the file of that client (playback_run), for every number of     *)
(* processes and every assignment of addresses.                            *)
THEOREM OnlyOwnRequest == Spec => ChangedByOwnRequest
<1>1. ASSUME TypeOK, Requester, [Next]_vars, NEW a \in Addr,
             (a \in shm) # (a \in shm')
      PROVE  \E p \in Proc : /\ pc[p] \in {"command", "abort"}
                             /\ pc'[p] # pc[p]
                             /\ Target(p) = a /\ peer[p] = a
  <2>1. PICK p \in Proc : StartPlayback(p) \/ StopPlayback(p) \/ Abort(p)
    BY <1>1
       DEF Next, LocalStep, PeerStep, Fault, vars, Accept, Disconnect, Receive,
           Served, Connect, ConnectFails, Check, Send, StartFails, Scan, PlayEnds,
           Pace, ReadRecord, PlaySend, PlaySendRetry, PlaySendFails, Die, Tick
  <2>2. Target(p) = a /\ pc[p] \in {"command", "abort"}
    BY <1>1, <2>1 DEF StartPlayback, StopPlayback, Abort, Remove, SetLock, Goto
  <2>3. peer[p] = a
    BY <1>1, <2>2 DEF Requester, Playing
  <2>4. pc'[p] # pc[p]
    BY <1>1, <2>1
       DEF StartPlayback, StopPlayback, Abort, Remove, Goto, TypeOK
  <2> QED
    BY <2>2, <2>3, <2>4
<1>2. TypeOK /\ Requester /\ [Next]_vars =>
        [\A a \in Addr : (a \in shm) # (a \in shm') =>
           \E p \in Proc : /\ pc[p] \in {"command", "abort"} /\ pc'[p] # pc[p]
                           /\ Target(p) = a /\ peer[p] = a]_vars
  BY <1>1
<1> QED
  BY <1>2, TypeCorrect, RequesterInvariance, PTL DEF Spec, ChangedByOwnRequest
=============================================================================

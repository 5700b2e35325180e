---------------------------- MODULE StreamProofs ----------------------------
(***************************************************************************)
(* When a buffer of distribute_receive holds one message at most: if the   *)
(* peer sends only when all that it has sent before was received, whatever *)
(* the size of the buffer and however recv() cuts the message.             *)
(***************************************************************************)
EXTENDS Stream, TLAPS

Cells == [of : 1..N, head : BOOLEAN]
Buffers == [as : Kinds \cup {"wrong"}, buf : Seq(Cells)]

(* A peer that waits before it sends again. *)
Waits == Send => wire = <<>>

(* What is yet to be received is (the rest of) one message. *)
OneMessage == /\ kind \in [1..N -> Kinds] /\ sent \in Nat
              /\ wire \in Seq(Cells) /\ done \in Seq(Buffers)
              /\ \A k \in 1..Len(wire) : wire[k].head => k = 1

LEMMA CutMessage ==
  ASSUME NEW s \in Seq(Cells), \A k \in 1..Len(s) : s[k].head => k = 1,
         NEW n \in 1..Len(s)
  PROVE  /\ SubSeq(s, 1, n) \in Seq(Cells) /\ Len(SubSeq(s, 1, n)) = n
         /\ \A k \in 1..n : SubSeq(s, 1, n)[k].head => k = 1
         /\ SubSeq(s, n + 1, Len(s)) \in Seq(Cells)
         /\ \A k \in 1..Len(SubSeq(s, n + 1, Len(s))) :
              SubSeq(s, n + 1, Len(s))[k].head => k = 1
<1>1. Len(s) \in Nat /\ n \in Nat /\ 1 <= n /\ n <= Len(s)
  OBVIOUS
<1>2. /\ SubSeq(s, 1, n) \in Seq(Cells) /\ Len(SubSeq(s, 1, n)) = n
      /\ \A k \in 1..n : SubSeq(s, 1, n)[k] = s[k]
  BY <1>1
<1>3. /\ SubSeq(s, n + 1, Len(s)) \in Seq(Cells)
      /\ Len(SubSeq(s, n + 1, Len(s))) = Len(s) - n
      /\ \A k \in 1..(Len(s) - n) : SubSeq(s, n + 1, Len(s))[k] = s[k + n]
  BY <1>1
<1>4. \A k \in 1..(Len(s) - n) : k + n \in 1..Len(s) /\ k + n # 1
  BY <1>1
<1> QED
  BY <1>1, <1>2, <1>3, <1>4

LEMMA OneMessageStep ==
  ASSUME N \in Nat, MaxBuf \in Nat, OneMessage, NoSticking, [Next]_vars,
         [Waits]_vars
  PROVE  OneMessage' /\ NoSticking'
<1>1. CASE Send /\ wire = <<>>
  <2> DEFINE c == [of |-> sent + 1, head |-> TRUE]
             d == [of |-> sent + 1, head |-> FALSE]
  <2>1. sent + 1 \in 1..N /\ sent' = sent + 1
    BY <1>1 DEF Send, OneMessage
  <2>2. c \in Cells /\ d \in Cells /\ ~d.head
    BY <2>1 DEF Cells
  <2>3. wire' = <<c, d>>
    BY <1>1, <2>2 DEF Send
  <2> HIDE DEF c, d
  <2>4. wire' \in Seq(Cells) /\ Len(wire') = 2 /\ wire'[2] = d
    BY <2>2, <2>3
  <2>5. \A k \in 1..Len(wire') : wire'[k].head => k = 1
    BY <2>2, <2>4
  <2> QED
    BY <1>1, <2>1, <2>4, <2>5 DEF Send, OneMessage, NoSticking
<1>2. CASE Receive
  <2>1. PICK n \in 1..MaxBuf :
          /\ n <= Len(wire)
          /\ wire' = SubSeq(wire, n + 1, Len(wire))
          /\ done' = Append(done, [as |-> Taken(SubSeq(wire, 1, n)),
                                   buf |-> SubSeq(wire, 1, n)])
    BY <1>2 DEF Receive
  <2> DEFINE b == SubSeq(wire, 1, n)
             e == [as |-> Taken(b), buf |-> b]
  <2>2. n \in 1..Len(wire) /\ kind' = kind /\ sent' = sent
    BY <1>2, <2>1 DEF Receive, OneMessage
  <2>3. /\ b \in Seq(Cells) /\ Len(b) = n
        /\ \A k \in 1..n : b[k].head => k = 1
        /\ wire' \in Seq(Cells)
        /\ \A k \in 1..Len(wire') : wire'[k].head => k = 1
    BY <2>1, <2>2, CutMessage DEF OneMessage
  <2> HIDE DEF b
  <2>4. Taken(b) \in Kinds \cup {"wrong"}
    <3>1. b[1] \in Cells
      BY <2>2, <2>3
    <3>2. kind[b[1].of] \in Kinds
      BY <3>1 DEF Cells, OneMessage
    <3> QED
      BY <3>2 DEF Taken, Kinds
  <2>5. e \in Buffers /\ e.buf = b
    BY <2>3, <2>4 DEF Buffers
  <2>6. done' = Append(done, e)
    BY <2>1 DEF b
  <2> HIDE DEF e
  <2>7. /\ done' \in Seq(Buffers)
        /\ \A k \in DOMAIN done' : done'[k] = e \/ (k \in DOMAIN done /\ done'[k] = done[k])
    BY <2>5, <2>6 DEF OneMessage
  <2>8. NoSticking'
    <3>1. \A j \in DOMAIN e.buf : e.buf[j].head => j = 1
      BY <2>3, <2>5
    <3> QED
      BY <2>7, <3>1 DEF NoSticking
  <2> QED
    BY <2>2, <2>3, <2>7, <2>8 DEF OneMessage
<1>3. CASE HangUp \/ UNCHANGED vars
  BY <1>3 DEF HangUp, vars, OneMessage, NoSticking
<1>4. ASSUME Send PROVE wire = <<>>
  <2>1. sent' # sent
    BY <1>4 DEF Send, OneMessage
  <2> QED
    BY <1>4, <2>1 DEF Waits, vars
<1> QED
  BY <1>1, <1>2, <1>3, <1>4 DEF Next

(* The comment at receive_buf is right of a peer that lets the server      *)
(* receive each message before it sends the next, and then for every size  *)
(* of the buffer: the size is not what prevents messages from sticking     *)
(* together.                                                               *)
THEOREM NoStickingIfPeerWaits ==
  ASSUME N \in Nat, MaxBuf \in Nat
  PROVE  Spec /\ [][Waits]_vars => []NoSticking
<1>1. Init => OneMessage /\ NoSticking
  BY DEF Init, OneMessage, NoSticking
<1>2. OneMessage /\ NoSticking /\ [Next]_vars /\ [Waits]_vars
        => (OneMessage /\ NoSticking)'
  BY OneMessageStep
<1> QED
  BY <1>1, <1>2, PTL DEF Spec
=============================================================================

------------------------- MODULE FetchBurstProofs ---------------------------
(***************************************************************************)
(* What a reader gets of a burst, for every number of entries, of pieces   *)
(* of a frame and of places in the queue, and for every window: each frame *)
(* at most once and in order, and over TCP without a hole until the board  *)
(* has cut a frame.                                                        *)
(*                                                                         *)
(* Both follow pieces, not frames: a frame is received when its last piece *)
(* is read, long after the core has gone on to others.                     *)
(***************************************************************************)
EXTENDS FetchBurst, SequenceTheorems, TLAPS

-----------------------------------------------------------------------------
(* Pieces leave in order. *)

Pieces == [of : 1..LastFrame, part : 1..Chunks]
QueueEntries == [of : 1..LastFrame, off : 0..(Chunks - 1)]

\* The piece p leaves before q does.
Before(p, q) == p.of < q.of \/ (p.of = q.of /\ p.part < q.part)

BurstTypes ==
    /\ handed \in 0..(LastFrame + 1) /\ sent \in 0..(Chunks - 1)
    /\ acc \in Seq(Pieces) /\ received \in Seq(1..LastFrame)
    /\ transport = "nrf52" => sent = 0
    /\ transport # "nrf52" => txq = <<>>

\* What the reader has is older than what is in the pipe, and this than what
\* is still to be written: of the queue, and of the frame that is handed over.
ReceivedInOrder ==
    /\ \A i, j \in 1..Len(received) : i < j => received[i] < received[j]
    /\ \A i \in 1..Len(received) : received[i] < handed

PipeInOrder(p) ==
    /\ p \in Seq(Pieces)
    /\ \A i \in 1..Len(received), j \in 1..Len(p) : received[i] < p[j].of
    /\ \A i, j \in 1..Len(p) : i < j => Before(p[i], p[j])
    /\ \A i \in 1..Len(p) : Before(p[i], Piece(handed, sent + 1))

QueueInOrder(q, p) ==
    /\ q \in Seq(QueueEntries)
    /\ \A i \in 1..Len(received), j \in 1..Len(q) : received[i] < q[j].of
    /\ \A i \in 1..Len(p), j \in 1..Len(q) : Before(p[i], Piece(q[j].of, q[j].off + 1))
    /\ \A i, j \in 1..Len(q) : i < j => q[i].of < q[j].of
    /\ \A i \in 1..Len(q) : q[i].of < handed

BurstInv == BurstTypes /\ ReceivedInOrder /\ PipeInOrder(pipe) /\ QueueInOrder(txq, pipe)

\* What the reader has is frames of the burst, each once and in order.
OnceInOrder ==
    /\ \A i \in 1..Len(received) : received[i] \in 1..LastFrame
    /\ \A i, j \in 1..Len(received) : i < j => received[i] < received[j]

\* The sizes are numbers.
LEMMA BurstSizes == /\ LastFrame \in Nat /\ LastFrame >= 2 /\ Chunks \in Nat /\ Chunks >= 1
BY BurstAssumption DEF LastFrame

\* Nothing under way, nothing out of order.
LEMMA Emptied == ASSUME NEW p PROVE PipeInOrder(<<>>) /\ QueueInOrder(<<>>, p)
<1>1. 1..Len(<<>>) = {} /\ <<>> \in Seq(Pieces) /\ <<>> \in Seq(QueueEntries)
  OBVIOUS
<1> QED
  BY <1>1 DEF PipeInOrder, QueueInOrder

\* Before the request nothing is under way.
LEMMA BurstStart == BurstInit => BurstInv
<1> SUFFICES ASSUME BurstInit PROVE BurstInv
  OBVIOUS
<1>1. /\ handed = 0 /\ sent = 0 /\ txq = <<>> /\ pipe = <<>> /\ acc = <<>> /\ received = <<>>
  BY DEF BurstInit
<1>2. <<>> \in Seq(Pieces) /\ <<>> \in Seq(1..LastFrame) /\ 1..Len(<<>>) = {}
  OBVIOUS
<1>3. BurstTypes /\ ReceivedInOrder
  BY <1>1, <1>2, BurstSizes DEF BurstTypes, ReceivedInOrder
<1> QED
  BY <1>1, <1>3, Emptied DEF BurstInv

\* A piece more is in the pipe.
LEMMA PipeGrows ==
    ASSUME PipeInOrder(pipe), NEW p \in Pieces, pipe' = Append(pipe, p),
           \A i \in 1..Len(received) : received[i] < p.of,
           \A i \in 1..Len(pipe) : Before(pipe[i], p)
    PROVE  /\ pipe' \in Seq(Pieces)
           /\ \A i \in 1..Len(received), j \in 1..Len(pipe') : received[i] < pipe'[j].of
           /\ \A i, j \in 1..Len(pipe') : i < j => Before(pipe'[i], pipe'[j])
           /\ \A i \in 1..Len(pipe') : /\ pipe'[i] \in Pieces
                                       /\ pipe'[i] = p \/ Before(pipe'[i], p)
<1> PICK n : n = Len(pipe)
  OBVIOUS
<1>1. /\ pipe \in Seq(Pieces) /\ n \in Nat
      /\ \A i \in 1..Len(received), j \in 1..Len(pipe) : received[i] < pipe[j].of
      /\ \A i, j \in 1..Len(pipe) : i < j => Before(pipe[i], pipe[j])
  BY DEF PipeInOrder
<1>2. /\ pipe' \in Seq(Pieces) /\ Len(pipe') = n + 1 /\ pipe'[n + 1] = p
      /\ \A i \in 1..n : pipe'[i] = pipe[i]
  BY <1>1, AppendProperties
<1>3. \A i \in 1..(n + 1) : i = n + 1 \/ i \in 1..n
  BY <1>1
<1>4. \A i \in 1..Len(pipe') : pipe'[i] \in Pieces /\ (pipe'[i] = p \/ Before(pipe'[i], p))
  BY <1>1, <1>2, <1>3
<1>5. \A i \in 1..Len(received), j \in 1..Len(pipe') : received[i] < pipe'[j].of
  BY <1>1, <1>2, <1>3
<1>6. ASSUME NEW i \in 1..Len(pipe'), NEW j \in 1..Len(pipe'), i < j
      PROVE  Before(pipe'[i], pipe'[j])
  <2>1. i \in 1..n
    BY <1>1, <1>2, <1>6
  <2>2. CASE j = n + 1
    BY <1>2, <2>1, <2>2
  <2>3. CASE j \in 1..n
    BY <1>1, <1>2, <1>6, <2>1, <2>3
  <2> QED
    BY <1>2, <1>3, <2>2, <2>3
<1> QED
  BY <1>2, <1>4, <1>5, <1>6

\* TCP and ESP32 write a piece of the frame that is handed over.
LEMMA WriteKeeps == ASSUME BurstInv, WritePiece, transport # "nrf52" PROVE BurstInv'
<1> PICK p : p = Piece(handed, sent + 1)
  OBVIOUS
<1>1. /\ handed \in 1..LastFrame /\ pipe' = Append(pipe, p) /\ received' = received
      /\ txq' = txq /\ acc' = acc /\ transport' = transport
      /\ \/ sent + 1 < Chunks /\ sent' = sent + 1 /\ handed' = handed
         \/ sent + 1 = Chunks /\ sent' = 0 /\ handed' = handed + 1
  BY DEF WritePiece, HandingOver, readerVars
<1>2. /\ sent \in 0..(Chunks - 1) /\ received \in Seq(1..LastFrame) /\ acc \in Seq(Pieces)
      /\ txq = <<>> /\ PipeInOrder(pipe) /\ ReceivedInOrder
      /\ LastFrame \in Nat /\ Chunks \in Nat /\ Chunks >= 1
  BY BurstSizes DEF BurstInv, BurstTypes
<1>3. p \in Pieces /\ p.of = handed /\ p.part = sent + 1
  BY <1>1, <1>2 DEF Pieces, Piece
<1>4. /\ pipe' \in Seq(Pieces)
      /\ \A i \in 1..Len(received), j \in 1..Len(pipe') : received[i] < pipe'[j].of
      /\ \A i, j \in 1..Len(pipe') : i < j => Before(pipe'[i], pipe'[j])
      /\ \A i \in 1..Len(pipe') : pipe'[i] \in Pieces /\ (pipe'[i] = p \/ Before(pipe'[i], p))
  <2>1. /\ \A i \in 1..Len(received) : received[i] < p.of
        /\ \A i \in 1..Len(pipe) : Before(pipe[i], p)
    BY <1>2, <1>3 DEF ReceivedInOrder, PipeInOrder
  <2> QED
    BY <1>1, <1>2, <1>3, <2>1, PipeGrows
<1>5. BurstTypes'
  <2>1. handed' \in 0..(LastFrame + 1) /\ sent' \in 0..(Chunks - 1)
    BY <1>1, <1>2
  <2> QED
    BY <1>1, <1>2, <2>1 DEF BurstInv, BurstTypes, Pieces, LastFrame
<1>6. ASSUME NEW q \in Pieces, q = p \/ Before(q, p)
      PROVE  Before(q, Piece(handed', sent' + 1))
  <2>1. q.of \in Nat /\ q.part \in Nat
    BY DEF Pieces
  <2>2. q.of < handed \/ (q.of = handed /\ q.part <= sent + 1)
    BY <1>2, <1>3, <1>6, <2>1 DEF Before
  <2>3. q.of < handed' \/ (q.of = handed' /\ q.part < sent' + 1)
    BY <1>1, <1>2, <2>1, <2>2
  <2> QED
    BY <2>3 DEF Before, Piece
<1>7. PipeInOrder(pipe)'
  <2>1. \A i \in 1..Len(pipe') : Before(pipe'[i], Piece(handed', sent' + 1))
    BY <1>4, <1>6
  <2> QED
    BY <1>1, <1>4, <2>1 DEF PipeInOrder, Before, Piece, Pieces, LastFrame
<1>8. ReceivedInOrder'
  <2>1. \A i \in 1..Len(received) : received[i] \in Nat
    BY <1>2
  <2> QED
    BY <1>1, <1>2, <2>1 DEF ReceivedInOrder
<1>9. QueueInOrder(txq, pipe)'
  <2>1. 1..Len(txq') = {} /\ txq' \in Seq(QueueEntries)
    BY <1>1, <1>2
  <2> QED
    BY <2>1 DEF QueueInOrder, QueueEntries, LastFrame
<1> QED
  BY <1>5, <1>7, <1>8, <1>9 DEF BurstInv

\* A frame is put behind a queue that is in order, or is given up: behind it
\* comes the next.
LEMMA NextFrame ==
    ASSUME BurstInv, HandingOver, NEW q, NEW p,
           PipeInOrder(p), QueueInOrder(q, p), transport # "nrf52" => q = <<>>,
           handed' = handed + 1, sent' = 0, pipe' = p, received' = received, acc' = acc,
           transport' = transport,
           txq' = q \/ (txq' = Append(q, [of |-> handed, off |-> 0]) /\ sent = 0
                        /\ transport = "nrf52")
    PROVE  BurstInv'
<1>1. /\ handed \in 1..LastFrame /\ sent \in 0..(Chunks - 1) /\ received \in Seq(1..LastFrame)
      /\ acc \in Seq(Pieces) /\ LastFrame \in Nat /\ Chunks \in Nat /\ Chunks >= 1
      /\ handed \in Nat
  BY BurstSizes DEF BurstInv, BurstTypes, HandingOver
<1>2. /\ \A i \in 1..Len(received) : received[i] \in Nat
      /\ \A i \in 1..Len(p) : p[i] \in Pieces /\ p[i].of \in Nat /\ p[i].part \in Nat
      /\ \A i \in 1..Len(q) : q[i] \in QueueEntries /\ q[i].of \in Nat /\ q[i].off \in Nat
  <2>1. p \in Seq(Pieces) /\ q \in Seq(QueueEntries)
    BY DEF PipeInOrder, QueueInOrder
  <2>2. \A x \in Pieces : x.of \in Nat /\ x.part \in Nat
    BY <1>1 DEF Pieces
  <2>3. \A x \in QueueEntries : x.of \in Nat /\ x.off \in Nat
    BY <1>1 DEF QueueEntries
  <2> QED
    BY <1>1, <2>1, <2>2, <2>3
<1>3. BurstTypes'
  <2>1. handed' \in 0..(LastFrame + 1) /\ sent' \in 0..(Chunks - 1)
    BY <1>1
  <2> QED
    BY <1>1, <2>1 DEF BurstTypes, Pieces, LastFrame
<1>4. ReceivedInOrder'
  BY <1>1, <1>2 DEF BurstInv, ReceivedInOrder
<1>5. PipeInOrder(pipe)'
  <2>1. ASSUME NEW i \in 1..Len(p) PROVE Before(p[i], Piece(handed', sent' + 1))
    <3>1. p[i].of <= handed
      BY <1>1, <1>2 DEF PipeInOrder, Before, Piece
    <3> QED
      BY <1>1, <1>2, <3>1 DEF Before, Piece
  <2> QED
    BY <2>1 DEF PipeInOrder, Before, Piece, Pieces, LastFrame
<1>6. QueueInOrder(txq, pipe)'
  <2>1. CASE txq' = q
    <3>1. \A i \in 1..Len(q) : q[i].of < handed'
      BY <1>1, <1>2 DEF QueueInOrder
    <3> QED
      BY <2>1, <3>1 DEF QueueInOrder, Before, Piece, QueueEntries, LastFrame
  <2>2. CASE txq' = Append(q, [of |-> handed, off |-> 0]) /\ sent = 0
    <3> PICK n, e : n = Len(q) /\ e = [of |-> handed, off |-> 0]
      OBVIOUS
    <3>1. /\ q \in Seq(QueueEntries) /\ n \in Nat
          /\ \A i \in 1..Len(received), j \in 1..n : received[i] < q[j].of
          /\ \A i \in 1..Len(p), j \in 1..n : Before(p[i], Piece(q[j].of, q[j].off + 1))
          /\ \A i, j \in 1..n : i < j => q[i].of < q[j].of
          /\ \A i \in 1..n : q[i].of < handed
      BY DEF QueueInOrder
    <3>2. e \in QueueEntries /\ e.of = handed /\ e.off = 0
      BY <1>1 DEF QueueEntries
    <3>3. /\ txq' \in Seq(QueueEntries) /\ Len(txq') = n + 1 /\ txq'[n + 1] = e
          /\ \A i \in 1..n : txq'[i] = q[i]
      BY <2>2, <3>1, <3>2, AppendProperties
    <3>4. \A i \in 1..(n + 1) : i = n + 1 \/ i \in 1..n
      BY <3>1
    <3>5. \A i \in 1..Len(received), j \in 1..Len(txq') : received[i] < txq'[j].of
      BY <3>1, <3>2, <3>3, <3>4 DEF BurstInv, ReceivedInOrder
    <3>6. \A i \in 1..Len(p), j \in 1..Len(txq') : Before(p[i], Piece(txq'[j].of, txq'[j].off + 1))
      <4>1. \A i \in 1..Len(p) : Before(p[i], Piece(e.of, e.off + 1))
        BY <2>2, <3>2 DEF PipeInOrder
      <4> QED
        BY <3>1, <3>3, <3>4, <4>1
    <3>7. ASSUME NEW i \in 1..Len(txq') PROVE txq'[i].of < handed'
      <4>1. CASE i = n + 1
        BY <1>1, <3>2, <3>3, <4>1
      <4>2. CASE i \in 1..n
        <5>1. txq'[i] = q[i] /\ q[i].of < handed /\ q[i].of \in Nat
          BY <1>2, <3>1, <3>3, <4>2
        <5> QED
          BY <1>1, <5>1
      <4> QED
        BY <3>3, <3>4, <4>1, <4>2
    <3>8. ASSUME NEW i \in 1..Len(txq'), NEW j \in 1..Len(txq'), i < j
          PROVE  txq'[i].of < txq'[j].of
      <4>1. i \in 1..n
        BY <3>1, <3>3, <3>8
      <4>2. CASE j = n + 1
        BY <3>1, <3>2, <3>3, <4>1, <4>2
      <4>3. CASE j \in 1..n
        BY <3>1, <3>3, <3>8, <4>1, <4>3
      <4> QED
        BY <3>3, <3>4, <4>2, <4>3
    <3> QED
      BY <3>3, <3>5, <3>6, <3>7, <3>8 DEF QueueInOrder, Before, Piece, QueueEntries, LastFrame
  <2> QED
    BY <2>1, <2>2
<1> QED
  BY <1>3, <1>4, <1>5, <1>6 DEF BurstInv

\* drain_step(): the chunk that leaves the queue is younger than what is in
\* the pipe and older than what stays behind.
LEMMA DrainKeeps ==
    ASSUME BurstInv, txq # <<>>, NEW p,
           p = Append(pipe, Piece(Head(txq).of, Head(txq).off + 1))
    PROVE  PipeInOrder(p) /\ QueueInOrder(Drained(txq), p)
<1> PICK h, d, n : h = Head(txq) /\ d = Piece(h.of, h.off + 1) /\ n = Len(txq)
  OBVIOUS
<1>1. /\ txq \in Seq(QueueEntries) /\ pipe \in Seq(Pieces) /\ n \in Nat /\ n >= 1
      /\ h = txq[1] /\ h \in QueueEntries /\ 1 \in 1..n
      /\ Chunks \in Nat /\ Chunks >= 1 /\ LastFrame \in Nat
      /\ handed \in Nat /\ sent \in Nat
  BY BurstSizes, HeadTailProperties, EmptySeq DEF BurstInv, BurstTypes, PipeInOrder, QueueInOrder
<1>2. /\ \A i \in 1..Len(received), j \in 1..n : received[i] < txq[j].of
      /\ \A i \in 1..Len(pipe), j \in 1..n : Before(pipe[i], Piece(txq[j].of, txq[j].off + 1))
      /\ \A i, j \in 1..n : i < j => txq[i].of < txq[j].of
      /\ \A i \in 1..n : txq[i].of < handed
  BY DEF BurstInv, QueueInOrder
<1>3. h.of \in Nat /\ h.off \in 0..(Chunks - 1) /\ h.of \in 1..LastFrame
  BY <1>1 DEF QueueEntries
<1>4. d \in Pieces /\ d.of = h.of /\ d.part = h.off + 1
  BY <1>1, <1>3 DEF Piece, Pieces
<1>5. \A x \in Pieces : x.of \in Nat /\ x.part \in Nat
  BY DEF Pieces
<1>6. \A i \in 1..Len(pipe) : Before(pipe[i], d)
  BY <1>1, <1>2
<1>7. /\ p \in Seq(Pieces) /\ Len(p) = Len(pipe) + 1 /\ p[Len(pipe) + 1] = d
      /\ \A i \in 1..Len(pipe) : p[i] = pipe[i]
  BY <1>1, <1>4, AppendProperties
<1>8. \A i \in 1..Len(p) : i = Len(pipe) + 1 \/ i \in 1..Len(pipe)
  BY <1>1, <1>7
<1>9. \A i \in 1..Len(p) : p[i] \in Pieces /\ (p[i] = d \/ Before(p[i], d))
  BY <1>4, <1>6, <1>7, <1>8
<1>10. PipeInOrder(p)
  <2>1. \A i \in 1..Len(received), j \in 1..Len(p) : received[i] < p[j].of
    BY <1>1, <1>2, <1>4, <1>7, <1>8 DEF BurstInv, PipeInOrder
  <2>2. ASSUME NEW i \in 1..Len(p), NEW j \in 1..Len(p), i < j PROVE Before(p[i], p[j])
    <3>1. i \in 1..Len(pipe)
      BY <1>1, <1>7, <2>2
    <3>2. CASE j = Len(pipe) + 1
      BY <1>6, <1>7, <3>1, <3>2
    <3>3. CASE j \in 1..Len(pipe)
      BY <1>7, <2>2, <3>1, <3>3 DEF BurstInv, PipeInOrder
    <3> QED
      BY <1>8, <3>2, <3>3
  <2>3. ASSUME NEW i \in 1..Len(p) PROVE Before(p[i], Piece(handed, sent + 1))
    <3>1. h.of < handed
      BY <1>1, <1>2
    <3>2. p[i].of \in Nat /\ p[i].of <= h.of
      BY <1>3, <1>4, <1>5, <1>9 DEF Before
    <3> QED
      BY <1>1, <1>3, <3>1, <3>2 DEF Before, Piece
  <2> QED
    BY <1>7, <2>1, <2>2, <2>3 DEF PipeInOrder
<1>11. ASSUME NEW i \in 1..Len(p), NEW j \in 2..n
       PROVE  Before(p[i], Piece(txq[j].of, txq[j].off + 1))
  <2>1. h.of < txq[j].of /\ txq[j] \in QueueEntries
    BY <1>1, <1>2
  <2>2. p[i].of \in Nat /\ p[i].of <= h.of
    BY <1>3, <1>4, <1>5, <1>9 DEF Before
  <2>3. txq[j].of \in Nat
    BY <2>1 DEF QueueEntries
  <2> QED
    BY <1>3, <2>1, <2>2, <2>3 DEF Before, Piece
<1>12. CASE h.off + 1 = Chunks
  <2> PICK q : q = Tail(txq)
    OBVIOUS
  <2>1. /\ q \in Seq(QueueEntries) /\ Len(q) = n - 1
        /\ \A j \in 1..(n - 1) : q[j] = txq[j + 1]
    BY <1>1, HeadTailProperties
  <2>2. \A j \in 1..(n - 1) : j + 1 \in 2..n /\ j + 1 \in 1..n
    BY <1>1
  <2>3. QueueInOrder(q, p)
    <3>1. \A i, j \in 1..(n - 1) : i < j => i + 1 < j + 1
      BY <1>1
    <3> QED
      BY <1>2, <1>11, <2>1, <2>2, <3>1 DEF QueueInOrder
  <2> QED
    BY <1>10, <1>12, <2>3 DEF Drained
<1>13. CASE h.off + 1 # Chunks
  <2> PICK q : q = [txq EXCEPT ![1].off = @ + 1]
    OBVIOUS
  <2>1. [h EXCEPT !.off = @ + 1] \in QueueEntries
    <3>1. h \in [of : 1..LastFrame, off : 0..(Chunks - 1)]
      BY <1>1 DEF QueueEntries
    <3>2. h.off + 1 \in 0..(Chunks - 1)
      BY <1>1, <1>3, <1>13
    <3> QED
      BY <3>1, <3>2 DEF QueueEntries
  <2>2. /\ q \in Seq(QueueEntries) /\ Len(q) = n /\ q[1].of = h.of /\ q[1].off = h.off + 1
        /\ \A j \in 2..n : q[j] = txq[j]
    <3>1. q = [txq EXCEPT ![1] = [h EXCEPT !.off = @ + 1]]
      BY <1>1
    <3>2. /\ [h EXCEPT !.off = @ + 1].of = h.of /\ [h EXCEPT !.off = @ + 1].off = h.off + 1
      BY <1>1 DEF QueueEntries
    <3> PICK g : g = [h EXCEPT !.off = @ + 1]
      OBVIOUS
    <3>3. q = [txq EXCEPT ![1] = g] /\ g \in QueueEntries /\ g.of = h.of /\ g.off = h.off + 1
      BY <2>1, <3>1, <3>2
    <3>4. /\ q \in Seq(QueueEntries) /\ Len(q) = n /\ q[1] = g
          /\ \A j \in 1..n : j # 1 => q[j] = txq[j]
      <4>1. /\ [txq EXCEPT ![1] = g] \in Seq(QueueEntries)
            /\ Len([txq EXCEPT ![1] = g]) = Len(txq)
            /\ \A j \in 1..Len(txq) : [txq EXCEPT ![1] = g][j] = IF j = 1 THEN g ELSE txq[j]
        BY <1>1, <3>3, ExceptSeq
      <4> QED
        BY <1>1, <3>3, <4>1
    <3>5. \A j \in 2..n : j \in 1..n /\ j # 1
      BY <1>1
    <3> QED
      BY <3>3, <3>4, <3>5
  <2>3. \A j \in 1..n : j = 1 \/ j \in 2..n
    BY <1>1
  <2>4. \A j \in 1..n : q[j].of = txq[j].of
    BY <1>1, <2>2, <2>3
  <2>5. ASSUME NEW i \in 1..Len(p), NEW j \in 1..n PROVE Before(p[i], Piece(q[j].of, q[j].off + 1))
    <3>1. CASE j = 1
      <4>1. p[i].of \in Nat /\ p[i].part \in Nat
        BY <1>5, <1>9
      <4>2. h.off + 1 < (h.off + 1) + 1 /\ \A x \in Nat : x < h.off + 1 => x < (h.off + 1) + 1
        BY <1>3
      <4>3. p[i] = d \/ p[i].of < h.of \/ (p[i].of = h.of /\ p[i].part < h.off + 1)
        BY <1>4, <1>9 DEF Before
      <4>4. p[i].of < h.of \/ (p[i].of = h.of /\ p[i].part < (h.off + 1) + 1)
        BY <1>4, <4>1, <4>2, <4>3
      <4> QED
        BY <2>2, <3>1, <4>4 DEF Before, Piece
    <3>2. CASE j \in 2..n
      BY <1>11, <2>2, <3>2
    <3> QED
      BY <2>3, <3>1, <3>2
  <2>6. QueueInOrder(q, p)
    BY <1>2, <2>2, <2>4, <2>5 DEF QueueInOrder
  <2> QED
    BY <1>10, <1>13, <2>6 DEF Drained
<1> QED
  BY <1>12, <1>13

\* The queue of an nRF52 and a frame more: send_frame() after make_room().
LEMMA EnqueueKeeps ==
    ASSUME BurstInv, NrfSends, NEW q, NEW p, Enqueue(q), pipe' = p,
           PipeInOrder(p), QueueInOrder(q, p)
    PROVE  BurstInv'
<1> PICK r : r = IF Len(q) = QueueDepth THEN <<>> ELSE q
  OBVIOUS
<1>1. /\ transport = "nrf52" /\ HandingOver /\ sent = 0
      /\ txq' = Append(r, [of |-> handed, off |-> 0])
      /\ handed' = handed + 1 /\ sent' = 0 /\ received' = received /\ acc' = acc
      /\ transport' = transport
  BY DEF BurstInv, BurstTypes, NrfSends, Enqueue, readerVars
<1>2. QueueInOrder(r, p)
  BY Emptied
<1> QED
  BY <1>1, <1>2, NextFrame

\* The reader reads a piece.
LEMMA ReadKeeps == ASSUME BurstInv, Reads PROVE BurstInv'
<1> PICK h, n : h = Head(pipe) /\ n = Len(pipe)
  OBVIOUS
<1>1. /\ pipe # <<>> /\ pipe' = Tail(pipe)
      /\ handed' = handed /\ sent' = sent /\ txq' = txq /\ transport' = transport
      /\ acc' = <<>> \/ acc' = Append(acc, h)
      /\ received' = received \/ (received' = Append(received, h.of) /\ h.part >= Chunks)
  <2>1. h.part < Chunks \/ ~(h.part < Chunks)
    OBVIOUS
  <2>2. /\ pipe # <<>> /\ pipe' = Tail(pipe)
        /\ UNCHANGED <<transport, handed, sent, txq>>
        /\ acc' = <<>> \/ acc' = Append(acc, h)
    BY DEF Reads, boardVars
  <2>3. received' = received \/ (received' = Append(received, h.of) /\ ~(h.part < Chunks))
    BY DEF Reads
  <2>4. h \in Pieces
    BY <2>2, HeadTailProperties DEF BurstInv, PipeInOrder
  <2>5. ~(h.part < Chunks) => h.part >= Chunks
    BY <2>4, BurstSizes DEF Pieces
  <2> QED
    BY <2>2, <2>3, <2>5
<1>2. /\ pipe \in Seq(Pieces) /\ n \in Nat /\ n >= 1 /\ h = pipe[1] /\ h \in Pieces /\ 1 \in 1..n
      /\ acc \in Seq(Pieces) /\ received \in Seq(1..LastFrame)
      /\ pipe' \in Seq(Pieces) /\ Len(pipe') = n - 1
      /\ \A i \in 1..(n - 1) : pipe'[i] = pipe[i + 1]
      /\ LastFrame \in Nat /\ Chunks \in Nat /\ handed \in Nat
  BY <1>1, BurstSizes, HeadTailProperties, EmptySeq DEF BurstInv, BurstTypes, PipeInOrder
<1>3. /\ h.of \in 1..LastFrame /\ h.part \in 1..Chunks
      /\ \A x \in Pieces : x.of \in Nat /\ x.part \in 1..Chunks
  BY <1>2 DEF Pieces
<1>4. /\ \A i \in 1..Len(received), j \in 1..n : received[i] < pipe[j].of
      /\ \A i, j \in 1..n : i < j => Before(pipe[i], pipe[j])
      /\ \A i \in 1..n : Before(pipe[i], Piece(handed, sent + 1))
  BY DEF BurstInv, PipeInOrder
<1>5. /\ \A i \in 1..Len(received), j \in 1..Len(txq) : received[i] < txq[j].of
      /\ \A i \in 1..n, j \in 1..Len(txq) : Before(pipe[i], Piece(txq[j].of, txq[j].off + 1))
      /\ txq \in Seq(QueueEntries)
      /\ \A i, j \in 1..Len(txq) : i < j => txq[i].of < txq[j].of
      /\ \A i \in 1..Len(txq) : txq[i].of < handed
  BY DEF BurstInv, QueueInOrder
<1>6. \A i \in 1..(n - 1) : i + 1 \in 1..n /\ i + 1 \in 2..n /\ 1 < i + 1
  BY <1>2
\* The frame of a delimiter is older than all that comes behind it.
<1>7. h.part >= Chunks =>
        /\ \A i \in 1..(n - 1) : h.of < pipe'[i].of
        /\ \A j \in 1..Len(txq) : h.of < txq[j].of
        /\ h.of < handed
  <2> SUFFICES ASSUME h.part >= Chunks
               PROVE  /\ \A i \in 1..(n - 1) : h.of < pipe'[i].of
                      /\ \A j \in 1..Len(txq) : h.of < txq[j].of
                      /\ h.of < handed
    OBVIOUS
  <2>1. ASSUME NEW x, x.part \in 1..Chunks, Before(h, x) PROVE h.of < x.of
    BY <1>2, <1>3, <2>1 DEF Before
  <2>2. ASSUME NEW i \in 1..(n - 1) PROVE h.of < pipe'[i].of
    <3>1. Before(h, pipe[i + 1]) /\ pipe[i + 1] \in Pieces
      BY <1>2, <1>4, <1>6
    <3> QED
      BY <1>2, <1>3, <2>1, <3>1
  <2>3. ASSUME NEW j \in 1..Len(txq) PROVE h.of < txq[j].of
    <3>1. Before(h, Piece(txq[j].of, txq[j].off + 1)) /\ txq[j] \in QueueEntries
      BY <1>2, <1>5
    <3>2. txq[j].off + 1 \in 1..Chunks
      BY <1>2, <3>1 DEF QueueEntries
    <3> QED
      BY <2>1, <3>1, <3>2 DEF Piece
  <2>4. h.of < handed
    <3>1. Before(h, Piece(handed, sent + 1)) /\ sent + 1 \in 1..Chunks
      BY <1>2, <1>4 DEF BurstInv, BurstTypes
    <3> QED
      BY <2>1, <3>1 DEF Piece
  <2> QED
    BY <2>2, <2>3, <2>4
<1>8. /\ received' \in Seq(1..LastFrame)
      /\ \A i \in 1..Len(received') :
            /\ \/ i \in 1..Len(received) /\ received'[i] = received[i]
               \/ i = Len(received) + 1 /\ received'[i] = h.of /\ h.part >= Chunks
  <2>1. CASE received' = received
    BY <1>2, <2>1
  <2>2. CASE received' = Append(received, h.of) /\ h.part >= Chunks
    BY <1>2, <1>3, <2>2, AppendProperties
  <2> QED
    BY <1>1, <2>1, <2>2
<1>9. BurstTypes'
  <2>1. acc' \in Seq(Pieces)
    <3>1. CASE acc' = <<>>
      BY <3>1
    <3>2. CASE acc' = Append(acc, h)
      BY <1>2, <3>2, AppendProperties
    <3> QED
      BY <1>1, <3>1, <3>2
  <2> QED
    BY <1>1, <1>8, <2>1 DEF BurstInv, BurstTypes, Pieces, LastFrame
<1>10. ReceivedInOrder'
  <2>1. \A i \in 1..Len(received') : received'[i] < handed'
    BY <1>1, <1>7, <1>8 DEF BurstInv, ReceivedInOrder
  <2>2. ASSUME NEW i \in 1..Len(received'), NEW j \in 1..Len(received'), i < j
        PROVE  received'[i] < received'[j]
    <3>1. Len(received) \in Nat /\ i \in Nat /\ j \in Nat
      BY <1>2
    <3>2. j \in 1..Len(received) => i \in 1..Len(received)
      BY <2>2, <3>1
    <3>3. CASE j \in 1..Len(received)
      <4>1. received'[i] = received[i] /\ received'[j] = received[j]
        BY <1>8, <3>1, <3>2, <3>3
      <4>2. received[i] < received[j]
        BY <2>2, <3>2, <3>3 DEF BurstInv, ReceivedInOrder
      <4> QED
        BY <4>1, <4>2
    <3>4. CASE j = Len(received) + 1 /\ received'[j] = h.of
      <4>1. i \in 1..Len(received) /\ i # Len(received) + 1
        BY <2>2, <3>1, <3>4
      <4>2. received'[i] = received[i] /\ received[i] < pipe[1].of
        BY <1>2, <1>4, <1>8, <4>1
      <4> QED
        BY <1>2, <3>4, <4>2
    <3> QED
      BY <1>8, <3>3, <3>4
  <2> QED
    BY <2>1, <2>2 DEF ReceivedInOrder
<1>11. PipeInOrder(pipe)'
  <2>1. ASSUME NEW i \in 1..Len(received'), NEW j \in 1..Len(pipe') PROVE received'[i] < pipe'[j].of
    BY <1>2, <1>4, <1>6, <1>7, <1>8
  <2>2. \A i, j \in 1..Len(pipe') : i < j => Before(pipe'[i], pipe'[j])
    <3>1. \A i, j \in 1..(n - 1) : i < j => i + 1 < j + 1
      BY <1>2
    <3> QED
      BY <1>2, <1>4, <1>6, <3>1
  <2>3. \A i \in 1..Len(pipe') : Before(pipe'[i], Piece(handed', sent' + 1))
    BY <1>1, <1>2, <1>4, <1>6
  <2> QED
    BY <1>2, <2>1, <2>2, <2>3 DEF PipeInOrder, Before, Piece, Pieces, LastFrame
<1>12. QueueInOrder(txq, pipe)'
  <2>1. \A i \in 1..Len(received'), j \in 1..Len(txq) : received'[i] < txq[j].of
    BY <1>5, <1>7, <1>8
  <2>2. \A i \in 1..Len(pipe'), j \in 1..Len(txq) :
            Before(pipe'[i], Piece(txq[j].of, txq[j].off + 1))
    BY <1>2, <1>5, <1>6
  <2>3. txq' = txq /\ handed' = handed /\ QueueEntries' = QueueEntries
    BY <1>1 DEF QueueEntries, LastFrame
  <2> QED
    BY <1>5, <2>1, <2>2, <2>3 DEF QueueInOrder, Before, Piece
<1> QED
  BY <1>9, <1>10, <1>11, <1>12 DEF BurstInv

\* Every step of the board and of its reader keeps the order.
LEMMA BurstStep == BurstInv /\ [BurstNext]_burstVars => BurstInv'
<1> SUFFICES ASSUME BurstInv, [BurstNext]_burstVars PROVE BurstInv'
  OBVIOUS
<1>0. /\ BurstTypes /\ ReceivedInOrder /\ PipeInOrder(pipe) /\ QueueInOrder(txq, pipe)
  BY DEF BurstInv
\* A step that leaves what the order is about alone.
<1>1. ASSUME UNCHANGED <<transport, handed, sent, txq, pipe, acc, received>> PROVE BurstInv'
  BY <1>0, <1>1
  DEF BurstInv, BurstTypes, ReceivedInOrder, PipeInOrder, QueueInOrder, Before, Piece, Pieces,
      QueueEntries, LastFrame
\* One that only changes what is under way.
<1>2. ASSUME NEW q, NEW p, PipeInOrder(p), QueueInOrder(q, p), txq' = q, pipe' = p,
             UNCHANGED <<transport, handed, sent, acc, received>>,
             transport # "nrf52" => q = <<>>
      PROVE  BurstInv'
  BY <1>0, <1>2
  DEF BurstInv, BurstTypes, ReceivedInOrder, PipeInOrder, QueueInOrder, Before, Piece, Pieces,
      QueueEntries, LastFrame
<1>3. CASE HandleFetch
  <2>1. /\ handed = 0 /\ handed' = 1
        /\ UNCHANGED <<transport, sent, txq, pipe, acc, received>>
    BY <1>3 DEF HandleFetch, readerVars
  <2>2. /\ received \in Seq(1..LastFrame) /\ pipe \in Seq(Pieces) /\ txq \in Seq(QueueEntries)
        /\ LastFrame \in Nat /\ LastFrame >= 2
    BY <1>0, BurstSizes DEF BurstTypes, PipeInOrder, QueueInOrder
  <2>3. 1..Len(received) = {} /\ 1..Len(pipe) = {} /\ 1..Len(txq) = {}
    <3>1. ASSUME NEW i \in 1..Len(received) PROVE FALSE
      <4>1. received[i] \in 1..LastFrame
        BY <2>2
      <4> QED
        BY <1>0, <2>1, <2>2, <4>1 DEF ReceivedInOrder
    <3>2. ASSUME NEW i \in 1..Len(pipe) PROVE FALSE
      <4>1. pipe[i] \in Pieces /\ Before(pipe[i], Piece(handed, sent + 1))
        BY <1>0, <2>2 DEF PipeInOrder
      <4>2. pipe[i].of \in 1..LastFrame
        BY <4>1 DEF Pieces
      <4> QED
        BY <2>1, <2>2, <4>1, <4>2 DEF Before, Piece
    <3>3. ASSUME NEW i \in 1..Len(txq) PROVE FALSE
      <4>1. txq[i] \in QueueEntries /\ txq[i].of < handed
        BY <1>0, <2>2 DEF QueueInOrder
      <4>2. txq[i].of \in 1..LastFrame
        BY <4>1 DEF QueueEntries
      <4> QED
        BY <2>1, <2>2, <4>1, <4>2
    <3> QED
      BY <3>1, <3>2, <3>3
  <2>4. BurstTypes'
    BY <1>0, <2>1, <2>2 DEF BurstTypes, Pieces, LastFrame
  <2>5. ReceivedInOrder' /\ PipeInOrder(pipe)' /\ QueueInOrder(txq, pipe)'
    BY <2>1, <2>2, <2>3
    DEF ReceivedInOrder, PipeInOrder, QueueInOrder, Pieces, QueueEntries, LastFrame
  <2> QED
    BY <2>4, <2>5 DEF BurstInv
<1>4. CASE TcpWrites \/ EspNotifies
  BY <1>4, WriteKeeps DEF TcpWrites, EspNotifies
<1>5. CASE TcpGivesUp \/ EspAbandons
  <2>1. /\ HandingOver /\ transport # "nrf52" /\ sent' = 0 /\ handed' = handed + 1
        /\ UNCHANGED <<transport, txq, pipe, acc, received>>
    BY <1>5 DEF TcpGivesUp, EspAbandons, readerVars
  <2>2. transport # "nrf52" => txq = <<>>
    BY <1>0 DEF BurstTypes
  <2> QED
    BY <1>0, <2>1, <2>2, NextFrame
<1>6. CASE TcpPump
  BY <1>1, <1>6 DEF TcpPump, readerVars
<1>7. CASE NrfDrains
  <2> PICK p : p = Append(pipe, Piece(Head(txq).of, Head(txq).off + 1))
    OBVIOUS
  <2>1. txq # <<>> /\ pipe' = p /\ NrfSends /\ Enqueue(Drained(txq))
    BY <1>7 DEF NrfDrains, DrainStep
  <2>2. PipeInOrder(p) /\ QueueInOrder(Drained(txq), p)
    BY <2>1, DrainKeeps
  <2> QED
    BY <2>1, <2>2, EnqueueKeeps
<1>8. CASE NrfQueueEmpty \/ NrfLost
  <2>1. NrfSends /\ Enqueue(<<>>) /\ pipe' = pipe
    BY <1>8 DEF NrfQueueEmpty, NrfLost
  <2> QED
    BY <1>0, <2>1, Emptied, EnqueueKeeps
<1>9. CASE NrfStuck
  <2>1. NrfSends /\ Enqueue(txq) /\ pipe' = pipe
    BY <1>9 DEF NrfStuck
  <2> QED
    BY <1>0, <2>1, EnqueueKeeps
<1>10. CASE NrfNobody
  <2>1. /\ HandingOver /\ transport = "nrf52" /\ sent' = sent /\ handed' = handed + 1
        /\ UNCHANGED <<transport, txq, pipe, acc, received>>
    BY <1>10 DEF NrfNobody, NrfSends, readerVars
  <2>2. sent' = 0
    BY <1>0, <2>1 DEF BurstTypes
  <2> QED
    BY <1>0, <2>1, <2>2, NextFrame
<1>11. CASE NrfPump
  <2> PICK p : p = Append(pipe, Piece(Head(txq).of, Head(txq).off + 1))
    OBVIOUS
  <2>1. transport = "nrf52" /\ UNCHANGED <<transport, handed, sent, acc, received>>
    BY <1>11 DEF NrfPump, readerVars
  <2>2. CASE txq' = <<>> /\ pipe' = pipe
    BY <1>0, <1>2, <2>1, <2>2, Emptied
  <2>3. CASE DrainStep /\ txq' = Drained(txq)
    <3>1. txq # <<>> /\ pipe' = p
      BY <2>3 DEF DrainStep
    <3> QED
      BY <1>2, <2>1, <2>3, <3>1, DrainKeeps
  <2> QED
    BY <1>11, <2>2, <2>3 DEF NrfPump
<1>12. CASE Reads
  BY <1>12, ReadKeeps
<1>13. CASE HangsUp
  <2>1. pipe' = <<>> /\ UNCHANGED <<transport, handed, sent, txq, acc, received>>
    BY <1>13 DEF HangsUp
  <2>2. QueueInOrder(txq, <<>>)
    <3>1. 1..Len(<<>>) = {}
      OBVIOUS
    <3> QED
      BY <1>0, <3>1 DEF QueueInOrder
  <2> QED
    BY <1>0, <1>2, <2>1, <2>2, Emptied DEF BurstTypes
<1>14. CASE UNCHANGED burstVars
  BY <1>1, <1>14 DEF burstVars, boardVars, readerVars
<1> QED
  BY <1>3, <1>4, <1>5, <1>6, <1>7, <1>8, <1>9, <1>10, <1>11, <1>12, <1>13, <1>14
  DEF BurstNext, BoardNext

\* Over every transport, and whatever the reader does, a burst never brings a
\* frame twice, nor a later one before an earlier: not when make_room() empties
\* a queue whose first frame is half written, nor when a frame is abandoned
\* between two of its pieces.
THEOREM BurstInOrder == BurstSpec => []OnceInOrder
<1>1. BurstInv => OnceInOrder
  <2> SUFFICES ASSUME BurstInv PROVE OnceInOrder
    OBVIOUS
  <2>1. received \in Seq(1..LastFrame) /\ ReceivedInOrder
    BY DEF BurstInv, BurstTypes
  <2>2. \A i \in 1..Len(received) : received[i] \in 1..LastFrame
    BY <2>1, BurstSizes
  <2> QED
    BY <2>1, <2>2 DEF ReceivedInOrder, OnceInOrder
<1> QED
  BY BurstStart, BurstStep, <1>1, PTL DEF BurstSpec

-----------------------------------------------------------------------------
(* What TCP does not break. *)

\* The piece behind p.
After(p) == IF p.part < Chunks THEN Piece(p.of, p.part + 1) ELSE Piece(p.of + 1, 1)

\* p holds the pieces from a on, one behind the other, up to the one before z.
Continues(a, p, z) ==
    /\ p = <<>> => a = z
    /\ p # <<>> => p[1] = a /\ After(p[Len(p)]) = z
    /\ \A i \in 1..(Len(p) - 1) : p[i + 1] = After(p[i])

\* The piece the reader waits for, and the one the core will write.
NextIn == Piece(Len(received) + 1, Len(acc) + 1)
NextOut == Piece(IF handed = 0 THEN 1 ELSE handed, sent + 1)

NothingMissed ==
    transport = "tcp" /\ ~broken =>
        /\ handed = 0 => sent = 0
        /\ \A i \in 1..Len(received) : received[i] = i
        /\ Len(acc) < Chunks /\ \A i \in 1..Len(acc) : acc[i] = Piece(Len(received) + 1, i)
        /\ connected => Continues(NextIn, pipe, NextOut)

TcpInv == BurstInv /\ NothingMissed

\* The piece that is next may follow.
LEMMA ContinuesOn ==
    ASSUME NEW a, NEW z, NEW S, NEW p \in Seq(S), z \in S, Continues(a, p, z)
    PROVE  Continues(a, Append(p, z), After(z))
<1> PICK n, q : n = Len(p) /\ q = Append(p, z)
  OBVIOUS
<1>1. /\ n \in Nat /\ q \in Seq(S) /\ Len(q) = n + 1 /\ q[n + 1] = z /\ \A i \in 1..n : q[i] = p[i]
  BY AppendProperties
<1>2. q # <<>> /\ (p = <<>> <=> n = 0) /\ (n + 1) - 1 = n
  BY <1>1, EmptySeq
<1>3. q[1] = a
  <2>1. CASE n = 0
    BY <1>1, <1>2, <2>1 DEF Continues
  <2>2. CASE n # 0
    <3>1. 1 \in 1..n
      BY <1>1, <2>2
    <3> QED
      BY <1>1, <1>2, <2>2, <3>1 DEF Continues
  <2> QED
    BY <2>1, <2>2
<1>4. ASSUME NEW i \in 1..n PROVE q[i + 1] = After(q[i])
  <2>1. CASE i = n
    <3>1. p # <<>>
      BY <1>1, <1>2, <2>1
    <3> QED
      BY <1>1, <2>1, <3>1 DEF Continues
  <2>2. CASE i # n
    <3>1. i \in 1..(n - 1) /\ i + 1 \in 1..n
      BY <1>1, <2>2
    <3> QED
      BY <1>1, <3>1 DEF Continues
  <2> QED
    BY <2>1, <2>2
<1>5. Continues(a, q, After(z))
  BY <1>1, <1>2, <1>3, <1>4 DEF Continues
<1> QED
  BY <1>5

\* Without its first piece the rest goes on from the next one.
LEMMA ContinuesBehind ==
    ASSUME NEW a, NEW z, NEW S, NEW p \in Seq(S), p # <<>>, Continues(a, p, z)
    PROVE  Head(p) = a /\ Continues(After(a), Tail(p), z)
<1> PICK n, q : n = Len(p) /\ q = Tail(p)
  OBVIOUS
<1>1. /\ n \in Nat /\ n >= 1 /\ q \in Seq(S) /\ Len(q) = n - 1
      /\ \A i \in 1..(n - 1) : q[i] = p[i + 1]
      /\ Head(p) = p[1]
  BY HeadTailProperties, EmptySeq
<1>2. p[1] = a /\ After(p[n]) = z /\ \A i \in 1..(n - 1) : p[i + 1] = After(p[i])
  BY DEF Continues
<1>3. q = <<>> <=> n = 1
  BY <1>1, EmptySeq
<1>4. CASE n = 1
  <2>1. 1..(Len(q) - 1) = {}
    BY <1>1, <1>4
  <2> QED
    BY <1>1, <1>2, <1>3, <1>4, <2>1 DEF Continues
<1>5. CASE n # 1
  <2>1. /\ 1 \in 1..(n - 1) /\ n - 1 \in 1..(n - 1) /\ (n - 1) + 1 = n /\ 1 + 1 = 2
        /\ \A i \in 1..((n - 1) - 1) : i \in 1..(n - 1) /\ i + 1 \in 1..(n - 1)
    BY <1>1, <1>5
  <2>2. q[1] = After(a)
    BY <1>1, <1>2, <2>1
  <2>3. After(q[n - 1]) = z
    BY <1>1, <1>2, <2>1
  <2>4. \A i \in 1..((n - 1) - 1) : q[i + 1] = After(q[i])
    BY <1>1, <1>2, <2>1
  <2>5. Continues(After(a), q, z)
    BY <1>1, <1>3, <1>5, <2>2, <2>3, <2>4 DEF Continues
  <2> QED
    BY <1>1, <1>2, <2>5
<1> QED
  BY <1>4, <1>5

\* At first the reader waits for the piece that the core will write.
LEMMA TcpStart == BurstInit => TcpInv
<1> SUFFICES ASSUME BurstInit PROVE TcpInv
  OBVIOUS
<1>1. /\ handed = 0 /\ sent = 0 /\ pipe = <<>> /\ acc = <<>> /\ received = <<>>
  BY DEF BurstInit
<1>2. Len(<<>>) = 0 /\ 1..0 = {} /\ 1..(0 - 1) = {} /\ 0 < Chunks
  BY BurstSizes
<1>3. Continues(NextIn, pipe, NextOut)
  BY <1>1, <1>2 DEF Continues, NextIn, NextOut
<1> QED
  BY <1>1, <1>2, <1>3, BurstStart DEF TcpInv, NothingMissed

\* The core writes the piece that is next.
LEMMA TcpWriteKeeps == ASSUME TcpInv, TcpWrites PROVE NothingMissed'
<1> SUFFICES ASSUME ~broken' PROVE NothingMissed'
  BY DEF NothingMissed
<1> PICK z : z = Piece(handed, sent + 1)
  OBVIOUS
<1>1. /\ handed \in 1..LastFrame /\ connected /\ pipe' = Append(pipe, z)
      /\ transport = "tcp" /\ ~broken
      /\ UNCHANGED <<connected, received, acc, broken>>
      /\ \/ sent + 1 < Chunks /\ sent' = sent + 1 /\ handed' = handed
         \/ sent + 1 = Chunks /\ sent' = 0 /\ handed' = handed + 1
  BY DEF TcpWrites, WritePiece, HandingOver, readerVars
<1>2. /\ sent \in 0..(Chunks - 1) /\ pipe \in Seq(Pieces) /\ LastFrame \in Nat /\ Chunks \in Nat
  BY BurstSizes DEF TcpInv, BurstInv, BurstTypes, PipeInOrder
<1>3. z \in Pieces /\ z = NextOut /\ z.of = handed /\ z.part = sent + 1
  BY <1>1, <1>2 DEF Pieces, Piece, NextOut
<1>4. NextOut' = After(z)
  BY <1>1, <1>2, <1>3 DEF NextOut, After
<1>5. NextIn' = NextIn
  BY <1>1 DEF NextIn
<1>6. Continues(NextIn, pipe, z)
  BY <1>1, <1>3 DEF TcpInv, NothingMissed
<1> PICK a : a = NextIn
  OBVIOUS
<1>7. Continues(a, Append(pipe, z), After(z))
  BY <1>2, <1>3, <1>6, ContinuesOn
<1>8. Continues(NextIn, pipe, NextOut)'
  BY <1>1, <1>4, <1>5, <1>7 DEF Continues, After, Piece
<1> QED
  BY <1>1, <1>2, <1>8 DEF TcpInv, NothingMissed, Piece

\* The reader reads the piece it waits for.
LEMMA TcpReadKeeps == ASSUME TcpInv, Reads, transport = "tcp" PROVE NothingMissed'
<1> SUFFICES ASSUME ~broken' PROVE NothingMissed'
  BY DEF NothingMissed
<1> PICK h, k, m : h = Head(pipe) /\ k = Len(received) /\ m = Len(acc)
  OBVIOUS
<1>1. /\ connected /\ pipe # <<>> /\ pipe' = Tail(pipe) /\ ~broken
      /\ UNCHANGED <<transport, handed, sent, broken, connected>>
      /\ IF h.part < Chunks THEN acc' = Append(acc, h) /\ received' = received
         ELSE /\ acc' = <<>>
              /\ received' = IF Append(acc, h) = Whole(h.of) THEN Append(received, h.of)
                             ELSE received
  BY DEF Reads, boardVars
<1>2. /\ pipe \in Seq(Pieces) /\ acc \in Seq(Pieces) /\ received \in Seq(1..LastFrame)
      /\ LastFrame \in Nat /\ Chunks \in Nat /\ k \in Nat /\ m \in Nat
  BY BurstSizes DEF TcpInv, BurstInv, BurstTypes, PipeInOrder
<1>3. /\ handed = 0 => sent = 0
      /\ \A i \in 1..k : received[i] = i
      /\ m < Chunks /\ \A i \in 1..m : acc[i] = Piece(k + 1, i)
      /\ Continues(NextIn, pipe, NextOut)
  BY <1>1 DEF TcpInv, NothingMissed
<1> PICK a, z : a = NextIn /\ z = NextOut
  OBVIOUS
<1>4. h = a /\ Continues(After(a), Tail(pipe), z)
  BY <1>1, <1>2, <1>3, ContinuesBehind
<1>5. h \in Pieces /\ h = Piece(k + 1, m + 1) /\ h.of = k + 1 /\ h.part = m + 1
  <2>1. h \in Pieces
    BY <1>1, <1>2, HeadTailProperties
  <2> QED
    BY <1>4, <2>1 DEF NextIn, Piece
<1>6. NextOut' = z
  BY <1>1 DEF NextOut
<1>7. /\ Append(acc, h) \in Seq(Pieces) /\ Len(Append(acc, h)) = m + 1
      /\ \A i \in 1..(m + 1) : Append(acc, h)[i] = Piece(k + 1, i)
  <2>1. /\ Append(acc, h) \in Seq(Pieces) /\ Len(Append(acc, h)) = m + 1
        /\ Append(acc, h)[m + 1] = h /\ \A i \in 1..m : Append(acc, h)[i] = acc[i]
    BY <1>2, <1>5, AppendProperties
  <2>2. \A i \in 1..(m + 1) : i = m + 1 \/ i \in 1..m
    BY <1>2
  <2> QED
    BY <1>3, <1>5, <2>1, <2>2
<1>8. CASE h.part < Chunks
  <2>1. NextIn' = After(a)
    BY <1>1, <1>2, <1>4, <1>5, <1>7, <1>8 DEF NextIn, After
  <2>2. Continues(NextIn, pipe, NextOut)'
    BY <1>1, <1>4, <1>6, <2>1 DEF Continues, After, Piece
  <2>3. m + 1 < Chunks
    BY <1>5, <1>8
  <2> QED
    BY <1>1, <1>2, <1>3, <1>7, <1>8, <2>2, <2>3 DEF NothingMissed, Piece
<1>9. CASE ~(h.part < Chunks)
  <2>1. m + 1 = Chunks
    BY <1>2, <1>3, <1>5, <1>9
  <2>2. Append(acc, h) = Whole(h.of)
    <3> PICK s, w : s = Append(acc, h) /\ w = Whole(h.of)
      OBVIOUS
    <3>1. w \in Seq(Pieces) /\ Len(w) = Chunks /\ \A i \in 1..Chunks : w[i] = Piece(k + 1, i)
      <4>1. w = [i \in 1..Chunks |-> Piece(k + 1, i)]
        BY <1>5 DEF Whole
      <4>2. k + 1 \in 1..LastFrame
        BY <1>5 DEF Pieces
      <4>3. \A i \in 1..Chunks : Piece(k + 1, i) \in Pieces
        BY <4>2 DEF Piece, Pieces
      <4> QED
        BY <1>2, <4>1, <4>3
    <3> QED
      BY <1>7, <2>1, <3>1, SeqEqual
  <2>3. received' = Append(received, k + 1) /\ acc' = <<>>
    BY <1>1, <1>5, <1>9, <2>2
  <2>4. k + 1 \in 1..LastFrame
    BY <1>5 DEF Pieces
  <2>5. Len(received') = k + 1 /\ \A i \in 1..(k + 1) : received'[i] = i
    <3>1. /\ Len(received') = k + 1 /\ received'[k + 1] = k + 1
          /\ \A i \in 1..k : received'[i] = received[i]
      BY <1>2, <2>3, <2>4, AppendProperties
    <3>2. \A i \in 1..(k + 1) : i = k + 1 \/ i \in 1..k
      BY <1>2
    <3> QED
      BY <1>3, <3>1, <3>2
  <2>6. NextIn' = After(a)
    <3>1. NextIn' = Piece((k + 1) + 1, 1)
      BY <2>3, <2>5 DEF NextIn
    <3> QED
      BY <1>4, <1>5, <1>9, <3>1 DEF After
  <2>7. Continues(NextIn, pipe, NextOut)'
    BY <1>1, <1>4, <1>6, <2>6 DEF Continues, After, Piece
  <2>8. Len(acc') = 0 /\ 0 < Chunks /\ 1..Len(acc') = {}
    BY <2>3, BurstSizes
  <2> QED
    BY <1>1, <1>3, <2>5, <2>7, <2>8 DEF NothingMissed
<1> QED
  BY <1>8, <1>9

\* Every step that does not break the socket keeps the stream together.
LEMMA TcpStep == TcpInv /\ [BurstNext]_burstVars => TcpInv'
<1> SUFFICES ASSUME TcpInv, [BurstNext]_burstVars PROVE TcpInv'
  OBVIOUS
<1>1. BurstInv'
  BY BurstStep DEF TcpInv
<1>2. ASSUME UNCHANGED <<transport, handed, sent, broken, connected, pipe, acc, received>>
      PROVE  NothingMissed'
  BY <1>2 DEF TcpInv, NothingMissed, Continues, NextIn, NextOut, Piece, After
<1>3. CASE HandleFetch
  <2>1. /\ handed = 0 /\ handed' = 1
        /\ UNCHANGED <<transport, sent, broken, connected, pipe, acc, received>>
    BY <1>3 DEF HandleFetch, readerVars
  <2>2. NextOut' = NextOut /\ NextIn' = NextIn
    BY <2>1 DEF NextOut, NextIn
  <2>3. Continues(NextIn, pipe, NextOut) => Continues(NextIn, pipe, NextOut)'
    BY <2>1, <2>2 DEF Continues, After, Piece
  <2>4. NothingMissed'
    BY <2>1, <2>3 DEF TcpInv, NothingMissed, Piece
  <2> QED
    BY <1>1, <2>4 DEF TcpInv
<1>4. CASE TcpWrites
  BY <1>1, <1>4, TcpWriteKeeps DEF TcpInv
<1>5. CASE TcpGivesUp
  BY <1>1, <1>5 DEF TcpInv, NothingMissed, TcpGivesUp
<1>6. CASE TcpPump
  BY <1>1, <1>2, <1>6 DEF TcpInv, TcpPump, readerVars
<1>7. CASE EspNotifies \/ EspAbandons \/ NrfDrains \/ NrfQueueEmpty \/ NrfStuck \/ NrfLost
           \/ NrfNobody \/ NrfPump
  <2>1. transport # "tcp" /\ transport' = transport
    BY <1>7 DEF EspNotifies, WritePiece, EspAbandons, NrfDrains, NrfQueueEmpty, NrfStuck, NrfLost,
                NrfNobody, NrfPump, NrfSends, Enqueue
  <2> QED
    BY <1>1, <2>1 DEF TcpInv, NothingMissed
<1>8. CASE Reads
  <2>1. transport' = transport
    BY <1>8 DEF Reads
  <2>2. NothingMissed'
    BY <1>8, <2>1, TcpReadKeeps DEF NothingMissed
  <2> QED
    BY <1>1, <2>2 DEF TcpInv
<1>9. CASE HangsUp
  <2>1. ~connected' /\ UNCHANGED <<transport, handed, sent, broken, acc, received>>
    BY <1>9 DEF HangsUp
  <2>2. NothingMissed'
    BY <2>1 DEF TcpInv, NothingMissed, Piece
  <2> QED
    BY <1>1, <2>2 DEF TcpInv
<1>10. CASE UNCHANGED burstVars
  BY <1>1, <1>2, <1>10 DEF TcpInv, burstVars, boardVars, readerVars
<1> QED
  BY <1>3, <1>4, <1>5, <1>6, <1>7, <1>8, <1>9, <1>10 DEF BurstNext, BoardNext

\* A burst of which the board broke no frame has no hole; its reader, if it
\* reads on, gets all of it.
WholeUnlessBroken ==
    transport = "tcp" /\ ~broken =>
        /\ BurstWhole
        /\ connected /\ handed > LastFrame /\ pipe = <<>> => received = [i \in 1..LastFrame |-> i]

\* A hole in a burst over TCP is always one that the board knows of: it broke
\* a frame, and pump() will close the socket.  What burst_over_tcp finds is
\* only that the frames behind it are still sent.
THEOREM OnlyCutBurstsHaveHoles == BurstSpec => []WholeUnlessBroken
<1>1. TcpInv => WholeUnlessBroken
  <2> SUFFICES ASSUME TcpInv, transport = "tcp", ~broken
               PROVE  /\ BurstWhole
                      /\ connected /\ handed > LastFrame /\ pipe = <<>> =>
                             received = [i \in 1..LastFrame |-> i]
    BY DEF WholeUnlessBroken
  <2> PICK k, w : k = Len(received) /\ w = [i \in 1..LastFrame |-> i]
    OBVIOUS
  <2>1. /\ received \in Seq(1..LastFrame) /\ LastFrame \in Nat /\ k \in Nat /\ LastFrame >= 2
        /\ \A i \in 1..k : received[i] = i /\ received[i] \in 1..LastFrame
        /\ handed \in 0..(LastFrame + 1) /\ sent \in 0..(Chunks - 1) /\ Len(acc) \in Nat
    BY BurstSizes DEF TcpInv, NothingMissed, BurstInv, BurstTypes
  <2>2. k = LastFrame => received = w
    <3>1. w \in Seq(1..LastFrame) /\ Len(w) = LastFrame /\ \A i \in 1..LastFrame : w[i] = i
      BY <2>1
    <3> QED
      BY <2>1, <3>1, SeqEqual
  <2>3. k <= LastFrame
    <3>1. k >= 1 => k \in 1..k
      BY <2>1
    <3> QED
      BY <2>1, <3>1
  <2>4. BurstWhole
    <3>1. (\E i \in DOMAIN received : received[i] = LastFrame) => k = LastFrame
      <4>1. DOMAIN received = 1..k
        BY <2>1
      <4> QED
        BY <2>1, <2>3, <4>1
    <3> QED
      BY <2>2, <3>1 DEF BurstWhole
  <2>5. connected /\ handed > LastFrame /\ pipe = <<>> => k = LastFrame
    <3> SUFFICES ASSUME connected, handed > LastFrame, pipe = <<>> PROVE k = LastFrame
      OBVIOUS
    <3>1. NextIn = NextOut
      BY DEF TcpInv, NothingMissed, Continues
    <3>2. k + 1 = handed
      <4>1. handed # 0
        BY <2>1
      <4> QED
        BY <3>1, <4>1 DEF NextIn, NextOut, Piece
    <3> QED
      BY <2>1, <3>2
  <2> QED
    BY <2>2, <2>4, <2>5
<1> QED
  BY TcpStart, TcpStep, <1>1, PTL DEF BurstSpec
=============================================================================

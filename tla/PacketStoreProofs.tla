------------------------- MODULE PacketStoreProofs -------------------------
(***************************************************************************)
(* Proofs about the packet ring, for every pool size, header size and set  *)
(* of packets: offsets stay inside the pool, no retained byte is ever      *)
(* overwritten, the ring is the log it promises to be, it evicts only for  *)
(* room, and what is read from it is what was stored.                      *)
(*                                                                         *)
(* The argument is geometric.  A retained record occupies the interval     *)
(* [Off(s), End(s)).  Either the ring is linear (head_off < tail_off) and  *)
(* the records lie in order between head and tail, or it is wrapped        *)
(* (head_off >= tail_off): then each lies above the head or below the tail *)
(* and those above are older than those below.  Segments and Order say     *)
(* this, Chain ties it to the offsets a walk computes from the headers,    *)
(* and ReadyToWrite is what the two eviction loops establish.              *)
(***************************************************************************)
EXTENDS PacketStore, FunctionTheorems, FiniteSetTheorems, WellFoundedInduction, TLAPS

Live == head_seq..(next_seq - 1)
Off(s) == live[s].off
End(s) == live[s].off + Need(live[s].pkt)

\* Where the record after s starts.
After(s) == IF End(s) >= wrap THEN 0 ELSE End(s)

\* The counters agree, and a disabled store stays empty.
Counters ==
    /\ head_seq + count = next_seq
    /\ capacity = 0 => count = 0 /\ pc = "idle"
    /\ capacity # 0 => wrap > 0
    /\ pc # "idle" => arg \in Packets /\ Need(arg) <= capacity

\* Stepping from record to record visits the records in order.
Chain ==
    /\ count > 0 => head_off = Off(head_seq)
    /\ \A s \in Live : s + 1 \in Live => Off(s + 1) = After(s)
    /\ count > 0 => tail_off = After(next_seq - 1)

\* A record lies between head and tail, or in one of the two segments.
Segments ==
    \A s \in Live :
        /\ End(s) <= wrap
        /\ head_off < tail_off => head_off <= Off(s) /\ End(s) <= tail_off
        /\ head_off >= tail_off => head_off <= Off(s) \/ End(s) <= tail_off

\* An older record ends before a newer one starts, unless the newer one is
\* already in front.
Order ==
    \A s, t \in Live : s < t =>
        \/ End(s) <= Off(t)
        \/ head_off >= tail_off /\ head_off <= Off(s) /\ End(t) <= tail_off

\* A linear ring has the whole pool.
LinearWrap == count > 0 /\ head_off < tail_off => wrap = capacity

\* What each stage of an append has established.
ReadyToWrite ==
    /\ pc = "rewrap" /\ count > 0 => head_off < tail_off
    /\ pc = "write" /\ count = 0 => head_off = 0 /\ tail_off = 0 /\ wrap = capacity
    /\ pc = "write" /\ count > 0 =>
          \/ tail_off < head_off /\ Need(arg) <= head_off - tail_off
          \/ head_off < tail_off /\ Need(arg) <= wrap - tail_off

Geometry == Counters /\ Chain /\ Segments /\ Order /\ LinearWrap /\ ReadyToWrite

IndInv == TypeOK /\ Geometry /\ RecordsIntact

-----------------------------------------------------------------------------
(* Facts about single states. *)

\* A record has a positive size and lies inside the pool (append() writes
\* kRecordOverhead + len bytes at `at`).
LEMMA RecordBounds ==
    ASSUME IndInv, NEW s \in Live
    PROVE  /\ live[s].pkt \in Packets /\ live[s].pkt.len \in Nat
           /\ Off(s) \in Nat /\ End(s) \in Nat /\ Off(s) < End(s)
           /\ capacity \in Nat /\ wrap \in Nat /\ End(s) <= wrap /\ wrap <= capacity
<1>1. live[s] \in [off : Nat, pkt : Packets]
  BY DEF IndInv, TypeOK, Live
<1>2. live[s].pkt.len \in Nat
  BY <1>1, PacketsAssumption
<1>3. capacity \in Nat /\ wrap \in Nat /\ wrap <= capacity
  BY CapacityAssumption DEF IndInv, TypeOK
<1> QED
  BY <1>1, <1>2, <1>3, OverheadAssumption
  DEF IndInv, Geometry, Segments, Off, End, Need

\* The header pop_oldest() reads is the one append() wrote, so the head moves
\* to the next record.
LEMMA HeadHeader ==
    ASSUME IndInv, count > 0
    PROVE  /\ head_seq \in Live
           /\ NextOffset(head_off, ReadHeader(head_off).len) = After(head_seq)
<1>1. head_seq \in Live
  BY DEF IndInv, TypeOK, Geometry, Counters, Live
<1>2. /\ live[head_seq].pkt.len \in Nat
      /\ head_off = live[head_seq].off
      /\ head_off \in Nat
  BY <1>1, RecordBounds DEF IndInv, Geometry, Chain, Off
<1>3. Overhead - 1 \in 0..(Need(live[head_seq].pkt) - 1)
  BY <1>2, OverheadAssumption DEF Need
<1>4. buf[live[head_seq].off + (Overhead - 1)]
        = Cell(head_seq, live[head_seq].pkt, Overhead - 1)
  BY <1>1, <1>3 DEF IndInv, TypeOK, RecordsIntact, Live
<1>5. head_off + Overhead - 1 = live[head_seq].off + (Overhead - 1)
  BY <1>2, OverheadAssumption
<1>6. ReadHeader(head_off).len = live[head_seq].pkt.len
  BY <1>4, <1>5 DEF ReadHeader, Cell
<1>7. head_off + Overhead + live[head_seq].pkt.len = End(head_seq)
  BY <1>2, OverheadAssumption DEF End, Need
<1> QED
  BY <1>1, <1>6, <1>7 DEF NextOffset, After

\* The numbers are numbers, and a packet being appended fits the pool.
LEMMA Numbers ==
    ASSUME IndInv
    PROVE  /\ head_seq \in Nat /\ next_seq \in Nat /\ count \in Nat
           /\ head_off \in Nat /\ tail_off \in Nat /\ wrap \in Nat /\ capacity \in Nat
           /\ wrap <= capacity /\ head_seq + count = next_seq
           /\ pc # "idle" => /\ capacity # 0 /\ 0 < wrap
                             /\ arg \in Packets /\ Need(arg) \in Nat
                             /\ 0 < Need(arg) /\ Need(arg) <= capacity
<1>1. /\ head_seq \in Nat /\ next_seq \in Nat /\ count \in Nat
      /\ head_off \in Nat /\ tail_off \in Nat /\ wrap \in Nat /\ capacity \in Nat
      /\ wrap <= capacity
  BY CapacityAssumption DEF IndInv, TypeOK, Offsets
<1>2. /\ head_seq + count = next_seq
      /\ pc # "idle" => capacity # 0 /\ 0 < wrap /\ arg \in Packets /\ Need(arg) <= capacity
  BY <1>1 DEF IndInv, Geometry, Counters
<1>3. pc # "idle" => Need(arg) \in Nat /\ 0 < Need(arg)
  BY <1>2, PacketsAssumption, OverheadAssumption DEF Need
<1> QED
  BY <1>1, <1>2, <1>3

\* An empty ring with offsets 0, whatever the rest of the pool holds.
Emptied == TypeOK /\ Counters /\ count = 0 /\ head_off = 0 /\ tail_off = 0
             /\ wrap = capacity /\ pc # "rewrap"

\* A ring that append() or clear() starts over satisfies the invariant.
LEMMA EmptyRing == Emptied => IndInv
<1> SUFFICES ASSUME Emptied PROVE IndInv
  OBVIOUS
<1>1. Live = {}
  BY DEF Emptied, TypeOK, Counters, Live
<1>2. DOMAIN live = {}
  BY <1>1 DEF Emptied, TypeOK, Live
<1>3. Chain
  BY <1>1 DEF Emptied, Chain
<1>4. Segments /\ Order
  BY <1>1 DEF Segments, Order
<1>5. LinearWrap /\ ReadyToWrite
  BY DEF Emptied, LinearWrap, ReadyToWrite
<1>6. RecordsIntact
  BY <1>2 DEF RecordsIntact
<1> QED
  BY <1>3, <1>4, <1>5, <1>6 DEF Emptied, IndInv, Geometry

-----------------------------------------------------------------------------
(* The steps of an append, one lemma each. *)

\* pop_oldest() preserves the invariant wherever append() calls it.
LEMMA PopPreserves ==
    ASSUME IndInv, PopOldest, count > 0, pc \in {"evict", "rewrap"}
    PROVE  IndInv'
<1> DEFINE h == head_seq
<1>0. /\ head_seq \in Nat /\ next_seq \in Nat /\ count \in Nat /\ h < next_seq
      /\ head_off \in Nat /\ tail_off \in Nat /\ wrap \in Nat /\ capacity \in Nat
      /\ 0 < wrap /\ wrap <= capacity
  BY CapacityAssumption DEF IndInv, TypeOK, Offsets, Geometry, Counters
<1>1. /\ h \in Live
      /\ head_off' = After(h)
      /\ wrap' = IF After(h) = 0 THEN capacity ELSE wrap
      /\ count' = count - 1 /\ head_seq' = h + 1 /\ dropped' = dropped + 1
      /\ live' = [s \in (h + 1)..(next_seq - 1) |-> live[s]]
      /\ UNCHANGED <<capacity, buf, tail_off, next_seq, pc, arg, held>>
  BY HeadHeader DEF PopOldest
<1>2. Live' = (h + 1)..(next_seq - 1) /\ Live' \subseteq Live
  BY <1>0, <1>1 DEF Live
<1>3. \A s \in Live' : /\ s \in Live /\ h < s
                       /\ live'[s] = live[s] /\ Off(s)' = Off(s) /\ End(s)' = End(s)
  BY <1>0, <1>1, <1>2 DEF Off, End, Live
<1>4. \A s \in Live : /\ Off(s) \in Nat /\ End(s) \in Nat /\ Off(s) < End(s)
                      /\ End(s) <= wrap
  BY RecordBounds
<1>5. head_off = Off(h)
  BY DEF IndInv, Geometry, Chain
<1>6. After(h) \in Nat /\ After(h) < wrap
  BY <1>0, <1>1, <1>4 DEF After
<1>7. h + 1 \in Live => Off(h + 1) = After(h)
  BY <1>1 DEF IndInv, Geometry, Chain
<1>8. count' > 0 => h + 1 \in Live'
  BY <1>0, <1>1, <1>2 DEF IndInv, Geometry, Counters
<1>9. \A s \in Live' :
        \/ End(h) <= Off(s)
        \/ head_off >= tail_off /\ End(s) <= tail_off
  BY <1>1, <1>3 DEF IndInv, Geometry, Order
<1>a. TypeOK'
  <2>1. head_off' \in Offsets' /\ tail_off' \in Offsets' /\ wrap' \in 0..capacity'
    BY <1>0, <1>1, <1>6 DEF IndInv, TypeOK, Offsets
  <2>2. live' \in [(h + 1)..(next_seq - 1) -> [off : Nat, pkt : Packets]]
    BY <1>0, <1>1 DEF IndInv, TypeOK
  <2> QED
    BY <2>1, <2>2, <1>0, <1>1 DEF IndInv, TypeOK
<1>b. Counters'
  BY <1>0, <1>1 DEF IndInv, TypeOK, Geometry, Counters, Need
<1>c. After(h) = 0 =>
        /\ wrap' = capacity /\ head_off' = 0
        /\ \A s \in Live' : End(s) <= tail_off /\ tail_off <= head_off /\ Off(s) < head_off
  <2> SUFFICES ASSUME After(h) = 0, NEW s \in Live'
               PROVE  End(s) <= tail_off /\ tail_off <= head_off /\ Off(s) < head_off
    BY <1>1
  <2>1. End(h) >= wrap
    BY <1>4, <1>1 DEF After
  <2>2. Off(s) < End(s) /\ End(s) <= wrap /\ Off(s) \in Nat /\ End(s) \in Nat
    BY <1>3, <1>4
  <2>3. End(h) \in Nat
    BY <1>1, <1>4
  <2>4. ~(End(h) <= Off(s))
    BY <2>1, <2>2, <2>3, <1>0
  <2> QED
    BY <2>2, <2>4, <1>0, <1>9
<1>d. After(h) # 0 =>
        /\ wrap' = wrap /\ head_off' = End(h) /\ head_off < head_off'
        /\ \A s \in Live' : End(h) <= Off(s) \/ End(s) <= tail_off
  BY <1>0, <1>1, <1>4, <1>5, <1>9 DEF After
<1>e. Segments'
  <2> SUFFICES ASSUME NEW s \in Live'
               PROVE  /\ End(s) <= wrap'
                      /\ head_off' < tail_off => head_off' <= Off(s) /\ End(s) <= tail_off
                      /\ head_off' >= tail_off => head_off' <= Off(s) \/ End(s) <= tail_off
    BY <1>1, <1>3 DEF Segments
  <2>0. /\ Off(s) \in Nat /\ End(s) \in Nat /\ Off(s) < End(s) /\ End(s) <= wrap
        /\ End(h) \in Nat /\ End(h) > head_off
    BY <1>1, <1>3, <1>4, <1>5
  <2>1. CASE After(h) = 0
    BY <2>0, <2>1, <1>0, <1>c
  <2>2. CASE After(h) # 0
    <3>1. /\ wrap' = wrap /\ head_off' = End(h)
          /\ End(h) <= Off(s) \/ (head_off >= tail_off /\ End(s) <= tail_off)
      BY <2>2, <1>9, <1>d
    <3>2. head_off < tail_off => End(s) <= tail_off
      BY <1>3 DEF IndInv, Geometry, Segments
    <3> QED
      BY <3>1, <3>2, <2>0, <1>0
  <2> QED
    BY <2>1, <2>2
<1>f. Order'
  <2> SUFFICES ASSUME NEW s \in Live', NEW t \in Live', s < t
               PROVE  \/ End(s) <= Off(t)
                      \/ head_off' >= tail_off /\ head_off' <= Off(s) /\ End(t) <= tail_off
    BY <1>1, <1>3 DEF Order
  <2>1. \/ End(s) <= Off(t)
        \/ head_off >= tail_off /\ head_off <= Off(s) /\ End(t) <= tail_off
    BY <1>3 DEF IndInv, Geometry, Order
  <2>0. /\ Off(s) \in Nat /\ End(s) \in Nat /\ Off(s) < End(s)
        /\ Off(t) \in Nat /\ End(t) \in Nat /\ Off(t) < End(t)
        /\ End(h) \in Nat /\ End(h) > head_off
    BY <1>1, <1>3, <1>4, <1>5
  <2>2. CASE After(h) = 0
    BY <2>0, <2>1, <2>2, <1>0, <1>c
  <2>3. CASE After(h) # 0
    <3>1. /\ head_off' = End(h)
          /\ End(h) <= Off(s) \/ (head_off >= tail_off /\ End(s) <= tail_off)
      BY <2>3, <1>9, <1>d
    <3> QED
      BY <3>1, <2>0, <2>1, <1>0
  <2> QED
    BY <2>2, <2>3
<1>g. Chain'
  <2>1. count' > 0 => head_off' = Off(head_seq)'
    BY <1>0, <1>1, <1>3, <1>7, <1>8
  <2>2. \A s \in Live' : After(s)' = After(s)
    <3> SUFFICES ASSUME NEW s \in Live'
                 PROVE  (End(s) >= wrap') <=> (End(s) >= wrap)
      BY <1>3 DEF After
    <3>1. CASE After(h) = 0
      <4>1. End(s) \in Nat /\ End(s) <= tail_off /\ tail_off <= head_off /\ wrap' = capacity
        BY <3>1, <1>3, <1>4, <1>c
      <4>2. head_off < wrap
        BY <1>0, <1>1, <1>4, <1>5
      <4> QED
        BY <4>1, <4>2, <1>0
    <3>2. CASE After(h) # 0
      BY <3>2, <1>d
    <3> QED
      BY <3>1, <3>2
  <2>3. \A s \in Live' : s + 1 \in Live' => Off(s + 1)' = After(s)'
    BY <2>2, <1>3 DEF IndInv, Geometry, Chain
  <2>4. count' > 0 => tail_off' = After(next_seq - 1)'
    <3>1. SUFFICES ASSUME count' > 0
                   PROVE  tail_off' = After(next_seq - 1)'
      OBVIOUS
    <3>2. next_seq - 1 \in Live'
      BY <3>1, <1>0, <1>2, <1>8
    <3> QED
      BY <3>2, <2>2, <1>1 DEF IndInv, Geometry, Chain, After, End
  <2> QED
    BY <2>1, <2>3, <2>4 DEF Chain
<1>h. LinearWrap'
  <2>1. CASE After(h) = 0
    BY <2>1, <1>1, <1>c DEF LinearWrap
  <2>2. CASE After(h) # 0
    BY <2>2, <1>0, <1>1, <1>6, <1>d DEF IndInv, Geometry, LinearWrap
  <2> QED
    BY <2>1, <2>2
<1>i. ReadyToWrite'
  <2>1. SUFFICES ASSUME pc = "rewrap", count' > 0
                 PROVE  head_off' < tail_off
    BY <1>1 DEF ReadyToWrite
  <2>2. head_off < tail_off
    BY <2>1 DEF IndInv, Geometry, ReadyToWrite
  <2>3. h + 1 \in Live'
    BY <2>1, <1>8
  <2>4. /\ h + 1 \in Live /\ head_off' = Off(h + 1)
        /\ Off(h + 1) \in Nat /\ End(h + 1) \in Nat /\ Off(h + 1) < End(h + 1)
    BY <2>3, <1>1, <1>3, <1>4, <1>7
  <2>5. End(h + 1) <= tail_off
    BY <2>2, <2>4 DEF IndInv, Geometry, Segments
  <2> QED
    BY <2>4, <2>5, <1>0
<1>j. RecordsIntact'
  BY <1>1, <1>2, <1>3 DEF IndInv, TypeOK, RecordsIntact, Live
<1> QED
  BY <1>a, <1>b, <1>e, <1>f, <1>g, <1>h, <1>i, <1>j DEF IndInv, Geometry

\* Choosing a place moves no record.
LEMMA PlacePreserves ==
    ASSUME IndInv, Place
    PROVE  IndInv'
<1>0. /\ head_off \in Nat /\ tail_off \in Nat /\ wrap \in Nat /\ capacity \in Nat
      /\ count \in Nat /\ wrap <= capacity /\ capacity # 0 /\ 0 < wrap
      /\ Need(arg) \in Nat /\ 0 < Need(arg) /\ Need(arg) <= capacity
  BY Numbers DEF Place
<1>1. /\ UNCHANGED <<capacity, buf, count, next_seq, head_seq, dropped, arg, live, held>>
      /\ pc = "evict" /\ pc' \in {"write", "rewrap"}
  BY DEF Place
<1>2. CASE count = 0 /\ StartOver /\ pc' = "write"
  <2>1. TypeOK'
    BY <1>0, <1>1, <1>2 DEF IndInv, TypeOK, Offsets, StartOver
  <2>2. Counters'
    BY <1>0, <1>1, <1>2 DEF IndInv, Geometry, Counters, StartOver, Need
  <2>3. Emptied'
    BY <2>1, <2>2, <1>1, <1>2 DEF Emptied, StartOver
  <2> QED
    BY <2>3, EmptyRing, PTL
<1>3. CASE /\ count > 0 /\ FreeBytes >= Need(arg)
           /\ UNCHANGED <<head_off, tail_off, wrap>>
           /\ \/ pc' = "write" /\ (head_off > tail_off \/ wrap - tail_off >= Need(arg))
              \/ pc' = "rewrap" /\ head_off <= tail_off
  <2>1. head_off # tail_off /\ (head_off > tail_off => head_off - tail_off >= Need(arg))
    BY <1>0, <1>3 DEF FreeBytes
  <2>2. ReadyToWrite'
    BY <2>1, <1>0, <1>1, <1>3 DEF ReadyToWrite, Need
  <2>3. TypeOK'
    BY <1>1, <1>3 DEF IndInv, TypeOK, Offsets
  <2>4. Counters'
    BY <1>1, <1>3 DEF IndInv, Geometry, Counters, Need
  <2>5. Chain' /\ LinearWrap'
    BY <1>1, <1>3 DEF IndInv, Geometry, Chain, LinearWrap, Live, Off, After, End, Need
  <2>6. Segments' /\ Order'
    BY <1>1, <1>3 DEF IndInv, Geometry, Segments, Order, Live, Off, End, Need
  <2>7. RecordsIntact'
    BY <1>1 DEF IndInv, RecordsIntact, Need, Cell
  <2> QED
    BY <2>2, <2>3, <2>4, <2>5, <2>6, <2>7 DEF IndInv, Geometry
<1> QED
  BY <1>2, <1>3, <1>0 DEF Place

\* Moving the tail to the front turns a linear ring into a wrapped one with
\* an empty lower segment.
LEMMA RewrapPreserves ==
    ASSUME IndInv, RewrapDone
    PROVE  IndInv'
<1>0. /\ head_off \in Nat /\ tail_off \in Nat /\ wrap \in Nat /\ capacity \in Nat
      /\ count \in Nat /\ wrap <= capacity /\ capacity # 0 /\ 0 < wrap
      /\ Need(arg) \in Nat /\ 0 < Need(arg) /\ Need(arg) <= capacity
      /\ head_seq \in Nat /\ next_seq \in Nat /\ head_seq + count = next_seq
  BY Numbers DEF RewrapDone
<1>1. /\ UNCHANGED <<capacity, buf, count, next_seq, head_seq, dropped, arg, live, held>>
      /\ pc = "rewrap" /\ pc' = "write"
  BY DEF RewrapDone
<1>2. CASE count = 0 /\ StartOver
  <2>1. TypeOK'
    BY <1>0, <1>1, <1>2 DEF IndInv, TypeOK, Offsets, StartOver
  <2>2. Counters'
    BY <1>0, <1>1, <1>2 DEF IndInv, Geometry, Counters, StartOver, Need
  <2>3. Emptied'
    BY <2>1, <2>2, <1>1, <1>2 DEF Emptied, StartOver
  <2> QED
    BY <2>3, EmptyRing, PTL
<1>3. CASE /\ count > 0 /\ head_off >= Need(arg)
           /\ wrap' = tail_off /\ tail_off' = 0 /\ UNCHANGED head_off
  <2>1. head_off < tail_off /\ 0 < tail_off
    BY <1>0, <1>1, <1>3 DEF IndInv, Geometry, ReadyToWrite
  <2>2. /\ Live' = Live
        /\ \A s \in Live : Off(s)' = Off(s) /\ End(s)' = End(s)
    BY <1>1 DEF Live, Off, End, Need
  <2>3. \A s \in Live : /\ Off(s) \in Nat /\ End(s) \in Nat /\ Off(s) < End(s)
                        /\ head_off <= Off(s) /\ End(s) <= tail_off
    BY <2>1, RecordBounds DEF IndInv, Geometry, Segments
  <2>4. next_seq - 1 \in Live
    BY <1>0, <1>3 DEF Live
  <2>5. tail_off = After(next_seq - 1)
    BY <1>3 DEF IndInv, Geometry, Chain
  <2>6. End(next_seq - 1) = tail_off
    BY <2>1, <2>3, <2>4, <2>5, <1>0 DEF After
  <2>7. TypeOK'
    BY <1>0, <1>1, <1>3 DEF IndInv, TypeOK, Offsets
  <2>8. Counters'
    BY <2>1, <1>1, <1>3 DEF IndInv, Geometry, Counters, Need
  <2>9. Segments'
    BY <2>2, <2>3, <1>0, <1>3 DEF Segments
  <2>10. Order'
    <3> SUFFICES ASSUME NEW s \in Live, NEW t \in Live, s < t
                 PROVE  End(s) <= Off(t)
      BY <2>2 DEF Order
    <3>1. \/ End(s) <= Off(t)
          \/ head_off >= tail_off
      BY DEF IndInv, Geometry, Order
    <3> QED
      BY <3>1, <2>1, <1>0
  <2>11. Chain'
    <3>1. count' > 0 => head_off' = Off(head_seq)'
      BY <1>1, <1>3 DEF IndInv, Geometry, Chain, Off
    <3>2. \A s \in Live : s + 1 \in Live => Off(s + 1)' = After(s)'
      <4> SUFFICES ASSUME NEW s \in Live, s + 1 \in Live
                   PROVE  Off(s + 1)' = After(s)'
        OBVIOUS
      <4>1. Off(s + 1) = After(s)
        BY DEF IndInv, Geometry, Chain
      <4>2. End(s) <= Off(s + 1)
        <5>1. s \in Nat /\ s < s + 1
          BY <1>0 DEF Live
        <5>2. \/ End(s) <= Off(s + 1)
              \/ head_off >= tail_off
          BY <5>1 DEF IndInv, Geometry, Order
        <5> QED
          BY <5>2, <2>1, <1>0
      <4>3. /\ End(s) \in Nat /\ Off(s + 1) \in Nat /\ Off(s + 1) < tail_off /\ 0 < End(s)
        BY <2>3, <1>0
      <4>4. Off(s + 1) = End(s)
        BY <4>1, <4>2, <4>3 DEF After
      <4> QED
        BY <4>2, <4>3, <4>4, <2>2, <1>0, <1>3 DEF After
    <3>3. tail_off' = After(next_seq - 1)'
      BY <2>2, <2>3, <2>4, <2>6, <1>0, <1>1, <1>3 DEF After, End
    <3> QED
      BY <3>1, <3>2, <3>3, <2>2 DEF Chain
  <2>12. LinearWrap' /\ ReadyToWrite'
    BY <1>0, <1>1, <1>3 DEF LinearWrap, ReadyToWrite, Need
  <2>13. RecordsIntact'
    BY <1>1 DEF IndInv, RecordsIntact, Need, Cell
  <2> QED
    BY <2>7, <2>8, <2>9, <2>10, <2>11, <2>12, <2>13 DEF IndInv, Geometry
<1> QED
  BY <1>2, <1>3 DEF RewrapDone

\* The copy lands in free space: the new record is newest in the order and
\* overlaps none of the others.
LEMMA WritePreserves ==
    ASSUME IndInv, Write
    PROVE  IndInv'
<1>n. PICK n \in Nat : n = next_seq
  BY Numbers
<1> DEFINE at == tail_off
           end == tail_off + Need(arg)
<1>0. /\ head_off \in Nat /\ tail_off \in Nat /\ wrap \in Nat /\ capacity \in Nat
      /\ count \in Nat /\ wrap <= capacity /\ capacity # 0 /\ 0 < wrap
      /\ arg \in Packets /\ Need(arg) \in Nat /\ 0 < Need(arg) /\ Need(arg) <= capacity
      /\ head_seq \in Nat /\ n \in Nat /\ n = next_seq /\ head_seq + count = n
  BY <1>n, Numbers DEF Write
<1>1. /\ pc = "write" /\ pc' = "idle" /\ arg' = NoPacket
      /\ buf' = [i \in DOMAIN buf |-> IF i >= at /\ i < end THEN Cell(n, arg, i - at)
                                      ELSE buf[i]]
      /\ tail_off' = IF end >= wrap THEN 0 ELSE end
      /\ count' = count + 1 /\ next_seq' = n + 1
      /\ live' = [s \in head_seq..n |-> IF s = n THEN [off |-> at, pkt |-> arg] ELSE live[s]]
      /\ UNCHANGED <<capacity, head_off, wrap, head_seq, dropped, held>>
  BY <1>n DEF Write
<1>2. \/ count = 0 /\ head_off = 0 /\ tail_off = 0 /\ wrap = capacity
      \/ count > 0 /\ tail_off < head_off /\ end <= head_off
      \/ count > 0 /\ head_off < tail_off /\ end <= wrap
  BY <1>0, <1>1 DEF IndInv, Geometry, ReadyToWrite
<1>3. /\ Live' = Live \cup {n} /\ n \notin Live
      /\ \A s \in Live : s < n /\ s \in head_seq..n /\ s # n
  BY <1>0, <1>1 DEF Live
<1>4. \A s \in Live : live'[s] = live[s] /\ Off(s)' = Off(s) /\ End(s)' = End(s)
  BY <1>1, <1>3 DEF Off, End, Need
<1>5. live'[n] = [off |-> at, pkt |-> arg] /\ Off(n)' = at /\ End(n)' = end
  BY <1>0, <1>1 DEF Off, End, Need
<1>6. \A s \in Live : /\ Off(s) \in Nat /\ End(s) \in Nat /\ Off(s) < End(s)
                      /\ End(s) <= wrap
  BY RecordBounds
<1>7. count > 0 => head_off < wrap
  <2>1. SUFFICES ASSUME count > 0 PROVE head_off < wrap
    OBVIOUS
  <2>2. head_seq \in Live /\ head_off = Off(head_seq)
    BY <2>1, HeadHeader DEF IndInv, Geometry, Chain
  <2> QED
    BY <2>2, <1>0, <1>6
<1>8. end \in Nat /\ at < end /\ end <= wrap
  BY <1>0, <1>2, <1>7
<1>9. count = 0 => Live = {}
  BY <1>0 DEF Live
<1>10. \A s \in Live :
         \/ /\ head_off < tail_off /\ head_off <= Off(s) /\ End(s) <= at
         \/ /\ tail_off < head_off /\ end <= head_off
            /\ head_off <= Off(s) \/ End(s) <= at
  BY <1>0, <1>2, <1>9 DEF IndInv, Geometry, Segments
<1>a. TypeOK'
  <2>1. tail_off' \in Offsets'
    BY <1>0, <1>1, <1>8 DEF Offsets
  <2>2. live' \in [head_seq..n -> [off : Nat, pkt : Packets]]
    BY <1>0, <1>1 DEF IndInv, TypeOK
  <2>3. n = next_seq' - 1
    BY <1>0, <1>1
  <2> QED
    BY <2>1, <2>2, <2>3, <1>0, <1>1 DEF IndInv, TypeOK, Offsets
<1>b. Counters'
  BY <1>0, <1>1 DEF Counters
<1>c. Segments'
  <2>1. ASSUME NEW s \in Live
        PROVE  /\ End(s) <= wrap
               /\ head_off < tail_off' => head_off <= Off(s) /\ End(s) <= tail_off'
               /\ head_off >= tail_off' => head_off <= Off(s) \/ End(s) <= tail_off'
    <3>1. /\ Off(s) \in Nat /\ End(s) \in Nat /\ Off(s) < End(s) /\ End(s) <= wrap
          /\ head_off < wrap
      BY <1>0, <1>6, <1>7, <1>9
    <3> QED
      BY <3>1, <1>0, <1>1, <1>8, <1>10
  <2>2. /\ head_off < tail_off' => head_off <= at /\ end <= tail_off'
        /\ head_off >= tail_off' => head_off <= at \/ end <= tail_off'
    BY <1>0, <1>1, <1>2, <1>7, <1>8
  <2> QED
    BY <2>1, <2>2, <1>1, <1>3, <1>4, <1>5, <1>8 DEF Segments
<1>d. Order'
  <2>1. ASSUME NEW s \in Live, NEW t \in Live, s < t
        PROVE  \/ End(s) <= Off(t)
               \/ head_off >= tail_off' /\ head_off <= Off(s) /\ End(t) <= tail_off'
    <3>1. \/ End(s) <= Off(t)
          \/ head_off >= tail_off /\ head_off <= Off(s) /\ End(t) <= tail_off
      BY <2>1 DEF IndInv, Geometry, Order
    <3>2. /\ Off(s) \in Nat /\ End(s) \in Nat /\ Off(t) \in Nat /\ End(t) \in Nat
          /\ head_off < wrap
      BY <1>0, <1>6, <1>7, <1>9
    <3>3. \/ head_off < tail_off
          \/ tail_off < head_off /\ end <= head_off
      BY <1>10
    <3> QED
      BY <3>1, <3>2, <3>3, <1>0, <1>1, <1>8
  <2>2. ASSUME NEW s \in Live
        PROVE  \/ End(s) <= at
               \/ head_off >= tail_off' /\ head_off <= Off(s) /\ end <= tail_off'
    <3>1. head_off < wrap /\ Off(s) \in Nat /\ End(s) \in Nat
      BY <1>0, <1>6, <1>7, <1>9
    <3> QED
      BY <3>1, <1>0, <1>1, <1>8, <1>10
  <2>3. \A s \in Live : ~(n < s)
    BY <1>0, <1>3 DEF Live
  <2>4. ASSUME NEW s \in Live', NEW t \in Live', s < t
        PROVE  s \in Live /\ (t \in Live \/ t = n)
    BY <2>3, <2>4, <1>0, <1>3
  <2> QED
    <3> SUFFICES ASSUME NEW s \in Live', NEW t \in Live', s < t
                 PROVE  \/ End(s)' <= Off(t)'
                        \/ /\ head_off' >= tail_off' /\ head_off' <= Off(s)'
                           /\ End(t)' <= tail_off'
      BY DEF Order
    <3>1. s \in Live /\ (t \in Live \/ t = n)
      BY <2>4
    <3>2. CASE t \in Live
      BY <3>1, <3>2, <2>1, <1>1, <1>4
    <3>3. CASE t = n
      BY <3>1, <3>3, <2>2, <1>1, <1>4, <1>5
    <3> QED
      BY <3>1, <3>2, <3>3
<1>e. Chain'
  <2>1. head_off' = Off(head_seq)'
    <3>1. CASE count = 0
      BY <3>1, <1>0, <1>1, <1>2, <1>5 DEF Off
    <3>2. CASE count > 0
      BY <3>2, <1>1, <1>4, HeadHeader DEF IndInv, Geometry, Chain, Off
    <3> QED
      BY <3>1, <3>2, <1>0
  <2>2. \A s \in Live : After(s)' = After(s)
    BY <1>1, <1>4 DEF After
  <2>3. ASSUME NEW s \in Live', s + 1 \in Live'
        PROVE  Off(s + 1)' = After(s)'
    <3>1. s \in Nat /\ s \in Live /\ (s + 1 \in Live \/ s + 1 = n)
      BY <2>3, <1>0, <1>3 DEF Live
    <3>2. CASE s + 1 \in Live
      BY <3>1, <3>2, <2>2, <1>4 DEF IndInv, Geometry, Chain
    <3>3. CASE s + 1 = n
      <4>1. count > 0 /\ s = next_seq - 1
        BY <3>1, <3>3, <1>0, <1>9
      <4>2. tail_off = After(s)
        BY <4>1 DEF IndInv, Geometry, Chain
      <4> QED
        BY <4>2, <3>1, <3>3, <2>2, <1>5 DEF Off
    <3> QED
      BY <3>1, <3>2, <3>3
  <2>4. tail_off' = After(next_seq - 1)'
    <3>1. next_seq' - 1 = n
      BY <1>0, <1>1
    <3>2. After(n)' = IF end >= wrap THEN 0 ELSE end
      BY <1>1, <1>5 DEF After
    <3> QED
      BY <3>1, <3>2, <1>1 DEF After, End
  <2> QED
    BY <2>1, <2>3, <2>4 DEF Chain
<1>f. LinearWrap' /\ ReadyToWrite'
  <2>1. LinearWrap'
    BY <1>0, <1>1, <1>2, <1>7, <1>8 DEF IndInv, Geometry, LinearWrap
  <2> QED
    BY <2>1, <1>1 DEF ReadyToWrite
<1>g. RecordsIntact'
  <2>1. ASSUME NEW s \in Live, NEW i \in 0..(Need(live[s].pkt) - 1)
        PROVE  /\ live[s].off + i \in DOMAIN buf'
               /\ buf'[live[s].off + i] = Cell(s, live[s].pkt, i)
    <3>1. /\ live[s].off + i \in DOMAIN buf
          /\ buf[live[s].off + i] = Cell(s, live[s].pkt, i)
      BY DEF IndInv, TypeOK, RecordsIntact, Live
    <3>2. /\ Off(s) \in Nat /\ End(s) \in Nat /\ i \in Nat
          /\ Off(s) <= Off(s) + i /\ Off(s) + i < End(s)
      BY <1>6, RecordBounds, OverheadAssumption DEF Off, End, Need
    <3>3. ~(Off(s) + i >= at /\ Off(s) + i < end)
      BY <3>2, <1>0, <1>8, <1>10
    <3> QED
      BY <3>1, <3>3, <1>1 DEF Off
  <2>2. ASSUME NEW i \in 0..(Need(arg) - 1)
        PROVE  at + i \in DOMAIN buf' /\ buf'[at + i] = Cell(n, arg, i)
    <3>1. at + i \in 0..(capacity - 1) /\ at + i >= at /\ at + i < end /\ (at + i) - at = i
      BY <1>0, <1>8
    <3>2. DOMAIN buf = 0..(capacity - 1)
      BY DEF IndInv, TypeOK
    <3> QED
      BY <3>1, <3>2, <1>1
  <2>3. DOMAIN live' = Live \cup {n}
    BY <1>0, <1>1 DEF Live
  <2>4. ASSUME NEW s \in Live, NEW i \in 0..(Need(live'[s].pkt) - 1)
        PROVE  /\ live'[s].off + i \in DOMAIN buf'
               /\ buf'[live'[s].off + i] = Cell(s, live'[s].pkt, i)
    BY <2>1, <1>4
  <2>5. ASSUME NEW i \in 0..(Need(live'[n].pkt) - 1)
        PROVE  /\ live'[n].off + i \in DOMAIN buf'
               /\ buf'[live'[n].off + i] = Cell(n, live'[n].pkt, i)
    BY <2>2, <1>5
  <2> QED
    BY <2>3, <2>4, <2>5 DEF RecordsIntact, Need, Cell
<1> QED
  BY <1>a, <1>b, <1>c, <1>d, <1>e, <1>f, <1>g DEF IndInv, Geometry

\* A step that leaves the ring alone and stays out of the write and rewrap
\* stages preserves the invariant: a refused append, or the start of one.
LEMMA CallPreserves ==
    ASSUME IndInv, NEW p \in Packets, AppendDrop(p) \/ AppendBegin(p)
    PROVE  IndInv'
<1>1. /\ UNCHANGED <<capacity, buf, head_off, tail_off, wrap, count, next_seq,
                     head_seq, live>>
      /\ pc' \in {"idle", "evict"}
      /\ dropped' \in Nat
      /\ arg' \in Packets \cup {NoPacket}
      /\ pc' # "idle" => capacity # 0 /\ arg' \in Packets /\ Need(arg') <= capacity
  <2>1. CASE AppendDrop(p)
    BY <2>1 DEF AppendDrop, IndInv, TypeOK
  <2>2. CASE AppendBegin(p)
    BY <2>2 DEF AppendBegin, ring, IndInv, TypeOK
  <2> QED
    BY <2>1, <2>2
<1>2. TypeOK'
  BY <1>1 DEF IndInv, TypeOK, Offsets
<1>3. Counters'
  BY <1>1 DEF IndInv, Geometry, Counters, Need
<1>4. Chain' /\ LinearWrap'
  BY <1>1 DEF IndInv, Geometry, Chain, LinearWrap, Live, Off, After, End, Need
<1>5. Segments' /\ Order'
  BY <1>1 DEF IndInv, Geometry, Segments, Order, Live, Off, End, Need
<1>6. ReadyToWrite'
  BY <1>1 DEF ReadyToWrite
<1>7. RecordsIntact'
  BY <1>1 DEF IndInv, RecordsIntact, Need, Cell
<1> QED
  BY <1>2, <1>3, <1>4, <1>5, <1>6, <1>7 DEF IndInv, Geometry

\* clear() leaves an empty ring.
LEMMA ClearPreserves ==
    ASSUME IndInv, Clear
    PROVE  IndInv'
<1>0. next_seq \in Nat /\ capacity \in Nat
  BY Numbers
<1>1. next_seq..(next_seq - 1) = {}
  BY <1>0
<1>2. live' \in [head_seq'..(next_seq' - 1) -> [off : Nat, pkt : Packets]]
  BY <1>1 DEF Clear
<1>3. TypeOK'
  BY <1>0, <1>2 DEF Clear, IndInv, TypeOK, Offsets
<1>4. Counters'
  BY <1>0 DEF Clear, IndInv, Geometry, Counters
<1>5. Emptied'
  BY <1>3, <1>4 DEF Emptied, Clear
<1> QED
  BY <1>5, EmptyRing, PTL

-----------------------------------------------------------------------------
(* The theorems. *)

\* The ring the constructor builds satisfies the invariant.
LEMMA InitEstablishes == Init => IndInv
<1> SUFFICES ASSUME Init PROVE IndInv
  OBVIOUS
<1>1. capacity \in {0, Capacity} /\ capacity \in Nat
  BY CapacityAssumption DEF Init
<1>2. live \in [head_seq..(next_seq - 1) -> [off : Nat, pkt : Packets]]
  <2>1. head_seq..(next_seq - 1) = {}
    BY DEF Init
  <2> QED
    BY <2>1 DEF Init
<1>3. TypeOK
  BY <1>1, <1>2 DEF Init, TypeOK, Offsets
<1>4. Counters
  BY <1>1 DEF Init, Counters
<1>5. Emptied
  BY <1>3, <1>4 DEF Emptied, Init
<1> QED
  BY <1>5, EmptyRing

\* Every step of the packet store preserves the invariant.
LEMMA NextPreserves == IndInv /\ [Next]_vars => IndInv'
<1> SUFFICES ASSUME IndInv, [Next]_vars PROVE IndInv'
  OBVIOUS
<1>1. CASE \E p \in Packets : AppendDrop(p) \/ AppendBegin(p)
  BY <1>1, CallPreserves
<1>2. CASE EvictOldest
  BY <1>2, PopPreserves DEF EvictOldest
<1>3. CASE Place
  BY <1>3, PlacePreserves
<1>4. CASE RewrapPop
  BY <1>4, PopPreserves DEF RewrapPop
<1>5. CASE RewrapDone
  BY <1>5, RewrapPreserves
<1>6. CASE Write
  BY <1>6, WritePreserves
<1>7. CASE Clear
  BY <1>7, ClearPreserves
<1>8. CASE UNCHANGED vars
  BY <1>8 DEF vars, ring, IndInv, TypeOK, Offsets, Geometry, Counters, Chain, Segments,
              Order, LinearWrap, ReadyToWrite, RecordsIntact, Live, Off, After, End,
              Need, Cell
<1> QED
  BY <1>1, <1>2, <1>3, <1>4, <1>5, <1>6, <1>7, <1>8 DEF Next, AppendStep

\* The geometric invariant holds of every pool, header size and traffic.
THEOREM Invariance == Spec => []IndInv
  BY InitEstablishes, NextPreserves, PTL DEF Spec

\* Head and tail are always offsets of bytes the pool has, in every state of
\* append(), pop_oldest() and clear().
THEOREM TypeCorrect == Spec => []TypeOK
<1>1. IndInv => TypeOK
  BY DEF IndInv
<1> QED
  BY <1>1, Invariance, PTL

\* append() never overwrites a byte of a packet that is still retained.
THEOREM RetainedBytesSafe == Spec => []RecordsIntact
<1>1. IndInv => RecordsIntact
  BY DEF IndInv
<1> QED
  BY <1>1, Invariance, PTL
-----------------------------------------------------------------------------
(* The ring implements the log. *)

\* During an append, what the log was when it began: the packets still
\* retained are its newest, and the others have been popped and counted.
HeldInv ==
    pc # "idle" =>
        /\ held.oldest \in Nat /\ held.oldest <= head_seq
        /\ \A s \in Live : held.log[s] = live[s].pkt

LEMMA HeldKept ==
    ASSUME IndInv, IndInv', HeldInv, [Next]_vars
    PROVE  HeldInv'
<1>0. head_seq \in Nat /\ next_seq \in Nat /\ count \in Nat /\ DOMAIN live = Live
  BY DEF IndInv, TypeOK, Live
<1>1. ASSUME NEW p \in Packets, AppendDrop(p) PROVE HeldInv'
  BY <1>1 DEF AppendDrop, HeldInv
<1>2. ASSUME NEW p \in Packets, AppendBegin(p) PROVE HeldInv'
  <2>1. /\ held'.oldest = head_seq /\ head_seq' = head_seq /\ Live' = Live /\ live' = live
        /\ \A s \in Live : held'.log[s] = live[s].pkt
    BY <1>0, <1>2 DEF AppendBegin, ring, Live
  <2> QED
    BY <1>0, <2>1 DEF HeldInv
<1>3. CASE EvictOldest \/ RewrapPop
  <2>1. /\ UNCHANGED <<pc, held, next_seq>> /\ pc # "idle" /\ head_seq' = head_seq + 1
        /\ live' = [s \in (head_seq + 1)..(next_seq - 1) |-> live[s]]
    BY <1>3 DEF EvictOldest, RewrapPop, PopOldest
  <2>2. Live' \subseteq Live /\ \A s \in Live' : live'[s] = live[s]
    BY <1>0, <2>1 DEF Live
  <2> QED
    BY <1>0, <2>1, <2>2 DEF HeldInv
<1>4. CASE Place \/ RewrapDone
  BY <1>4 DEF Place, RewrapDone, HeldInv, Live
<1>5. CASE Write \/ Clear
  BY <1>5 DEF Write, Clear, HeldInv
<1>6. CASE UNCHANGED vars
  BY <1>6 DEF vars, ring, HeldInv, Live
<1> QED
  BY <1>1, <1>2, <1>3, <1>4, <1>5, <1>6 DEF Next, AppendStep

\* The log of the retained packets, and the abstract log during an append.
Retained == [s \in DOMAIN live |-> live[s].pkt]
AbsLog == IF pc = "idle" THEN Retained ELSE held.log
AbsOldest == IF pc = "idle" THEN head_seq ELSE held.oldest
AbsDropped == IF pc = "idle" THEN dropped ELSE dropped - (head_seq - held.oldest)

\* Every retained byte has a byte of the pool to itself, so they fit in it.
LEMMA RetainedFits == IndInv => Log!Bytes(Retained) <= capacity
<1> SUFFICES ASSUME IndInv PROVE Log!Bytes(Retained) <= capacity
  OBVIOUS
<1> DEFINE B == UNION {{s} \X (1..Need(live[s].pkt)) : s \in Live}
           T == 0..(capacity - 1)
           f == [b \in B |-> Off(b[1]) + b[2] - 1]
<1>1. DOMAIN live = Live /\ capacity \in Nat
  BY Numbers DEF IndInv, TypeOK, Live
<1>2. Log!BytesOf(Retained) = B
  BY <1>1 DEF Log!BytesOf, Log!Need, Need, Retained
<1>3. ASSUME NEW b \in B
      PROVE  /\ b[1] \in Live /\ b[2] \in 1..Need(live[b[1]].pkt) /\ b = <<b[1], b[2]>>
             /\ f[b] = Off(b[1]) + (b[2] - 1)
             /\ f[b] \in T /\ buf[f[b]] = Cell(b[1], live[b[1]].pkt, b[2] - 1)
  <2>1. PICK s \in Live : b \in {s} \X (1..Need(live[s].pkt))
    BY <1>3
  <2>2. b[1] = s /\ b[2] \in 1..Need(live[s].pkt) /\ b = <<b[1], b[2]>>
    BY <2>1
  <2>3. Off(s) \in Nat /\ Need(live[s].pkt) \in Nat
    BY <2>1, RecordBounds, OverheadAssumption DEF Need
  <2>4. f[b] = Off(s) + (b[2] - 1)
    BY <2>2, <2>3
  <2>5. b[2] - 1 \in 0..(Need(live[s].pkt) - 1)
    BY <2>2, <2>3
  <2>6. Off(s) + (b[2] - 1) \in DOMAIN buf
        /\ buf[Off(s) + (b[2] - 1)] = Cell(s, live[s].pkt, b[2] - 1)
    BY <1>1, <2>5 DEF IndInv, RecordsIntact, Off
  <2> HIDE DEF f
  <2> QED
    BY <2>2, <2>4, <2>6 DEF IndInv, TypeOK
<1> HIDE DEF B, T, f
<1>4. f \in [B -> T]
  BY <1>3 DEF f
<1>5. ASSUME NEW b \in B, NEW c \in B, f[b] = f[c] PROVE b = c
  <2>1. Cell(b[1], live[b[1]].pkt, b[2] - 1) = Cell(c[1], live[c[1]].pkt, c[2] - 1)
    BY <1>3, <1>5
  <2>2. b[1] = c[1] /\ b[2] - 1 = c[2] - 1
    BY <2>1 DEF Cell
  <2>3. b[2] \in Int /\ c[2] \in Int
    BY <1>3
  <2>4. b[2] = c[2]
    BY <2>2, <2>3
  <2> QED
    BY <1>3, <2>2, <2>4
<1>6. f \in Injection(B, T)
  BY <1>4, <1>5 DEF Injection, IsInjective
<1>7. IsFiniteSet(T) /\ Cardinality(T) = capacity
  BY <1>1, FS_Interval DEF T
<1>8. Cardinality(B) <= capacity
  BY <1>6, <1>7, FS_Injection DEF ExistsInjection
<1>9. Log!Bytes(Retained) = Cardinality(Log!BytesOf(Retained))
  BY Zenon DEF Log!Bytes, Log!Cardinality, Cardinality
<1>10. Log!Bytes(Retained) = Cardinality(B)
  BY <1>2, <1>9, Zenon DEF B
<1> QED
  BY <1>8, <1>10

LEMMA LogSteps ==
    ASSUME IndInv, IndInv', HeldInv, Log!Bytes(Retained)' <= capacity', [Next]_vars
    PROVE  \/ \E p \in Packets :
                 \/ /\ capacity = 0 \/ Need(p) > capacity
                    /\ AbsDropped' = AbsDropped + 1
                    /\ UNCHANGED <<capacity, AbsLog, AbsOldest, next_seq>>
                 \/ \E o \in AbsOldest..next_seq :
                      /\ capacity # 0 /\ Need(p) <= capacity
                      /\ AbsLog' = [s \in o..next_seq |-> IF s = next_seq THEN p ELSE AbsLog[s]]
                      /\ Log!Bytes(AbsLog)' <= capacity
                      /\ AbsOldest' = o /\ next_seq' = next_seq + 1
                      /\ AbsDropped' = AbsDropped + (o - AbsOldest)
                      /\ UNCHANGED capacity
           \/ /\ AbsLog' = << >> /\ AbsOldest' = next_seq
              /\ UNCHANGED <<capacity, next_seq, AbsDropped>>
           \/ UNCHANGED <<capacity, AbsLog, AbsOldest, next_seq, AbsDropped>>
<1>0. /\ head_seq \in Nat /\ next_seq \in Nat /\ count \in Nat /\ head_seq + count = next_seq
      /\ DOMAIN live = Live /\ dropped \in Nat
  BY Numbers DEF IndInv, TypeOK, Live
<1>1. ASSUME NEW p \in Packets, AppendDrop(p)
      PROVE  /\ capacity = 0 \/ Need(p) > capacity
             /\ AbsDropped' = AbsDropped + 1
             /\ UNCHANGED <<capacity, AbsLog, AbsOldest, next_seq>>
  BY <1>1 DEF AppendDrop, AbsLog, AbsOldest, AbsDropped, Retained
<1>2. ASSUME NEW p \in Packets, AppendBegin(p)
      PROVE  UNCHANGED <<capacity, AbsLog, AbsOldest, next_seq, AbsDropped>>
  <2>1. /\ pc = "idle" /\ pc' = "evict" /\ UNCHANGED <<capacity, next_seq, head_seq, dropped>>
        /\ held' = [oldest |-> head_seq, log |-> Retained]
    BY <1>2 DEF AppendBegin, ring, Retained
  <2>2. held'.log = Retained /\ held'.oldest = head_seq
    BY <2>1
  <2>3. dropped - (head_seq - head_seq) = dropped
    BY <1>0
  <2> QED
    BY <2>1, <2>2, <2>3 DEF AbsLog, AbsOldest, AbsDropped
<1>3. CASE EvictOldest \/ RewrapPop
  <2>1. /\ UNCHANGED <<capacity, pc, held, next_seq>> /\ pc # "idle"
        /\ head_seq' = head_seq + 1 /\ dropped' = dropped + 1
    BY <1>3 DEF EvictOldest, RewrapPop, PopOldest
  <2>2. held.oldest \in Nat
    BY <2>1 DEF HeldInv
  <2>3. (dropped + 1) - ((head_seq + 1) - held.oldest) = dropped - (head_seq - held.oldest)
    BY <1>0, <2>2
  <2> QED
    BY <2>1, <2>3 DEF AbsLog, AbsOldest, AbsDropped
<1>4. CASE Place \/ RewrapDone
  BY <1>4 DEF Place, RewrapDone, AbsLog, AbsOldest, AbsDropped
<1>5. ASSUME Write
      PROVE  /\ arg \in Packets /\ capacity # 0 /\ Need(arg) <= capacity
             /\ head_seq \in AbsOldest..next_seq
             /\ AbsLog' = [s \in head_seq..next_seq |-> IF s = next_seq THEN arg ELSE AbsLog[s]]
             /\ Log!Bytes(AbsLog)' <= capacity
             /\ AbsOldest' = head_seq /\ next_seq' = next_seq + 1
             /\ AbsDropped' = AbsDropped + (head_seq - AbsOldest)
             /\ UNCHANGED capacity
  <2>1. /\ pc = "write" /\ pc' = "idle" /\ next_seq' = next_seq + 1
        /\ UNCHANGED <<capacity, head_seq, dropped>>
        /\ live' = [s \in head_seq..next_seq |->
                      IF s = next_seq THEN [off |-> tail_off, pkt |-> arg] ELSE live[s]]
    BY <1>5 DEF Write
  <2>2. /\ held.oldest \in Nat /\ held.oldest <= head_seq
        /\ \A s \in Live : held.log[s] = live[s].pkt
    BY <2>1 DEF HeldInv
  <2>3. arg \in Packets /\ capacity # 0 /\ Need(arg) <= capacity
    BY <2>1, Numbers
  <2>4. DOMAIN live' = head_seq..next_seq
    BY <2>1
  <2>5. \A s \in head_seq..next_seq :
          live'[s].pkt = IF s = next_seq THEN arg ELSE held.log[s]
    <3> SUFFICES ASSUME NEW s \in head_seq..next_seq
                 PROVE  live'[s].pkt = IF s = next_seq THEN arg ELSE held.log[s]
      OBVIOUS
    <3>1. CASE s = next_seq
      BY <2>1, <3>1
    <3>2. CASE s # next_seq
      <4>1. s \in Live
        BY <1>0, <3>2 DEF Live
      <4> QED
        BY <2>1, <2>2, <3>2, <4>1
    <3> QED
      BY <3>1, <3>2
  <2>6. AbsLog = held.log /\ AbsOldest = held.oldest
        /\ AbsDropped = dropped - (head_seq - held.oldest)
    BY <2>1 DEF AbsLog, AbsOldest, AbsDropped
  <2>7. AbsLog' = Retained' /\ AbsOldest' = head_seq /\ AbsDropped' = dropped
    BY <2>1 DEF AbsLog, AbsOldest, AbsDropped
  <2>8. Retained' = [s \in head_seq..next_seq |-> IF s = next_seq THEN arg ELSE held.log[s]]
    BY <2>4, <2>5 DEF Retained
  <2>9. Log!Bytes(AbsLog)' <= capacity
    BY <2>1, <2>7, Zenon DEF Log!Bytes, Log!BytesOf, Log!Need
  <2>10. head_seq \in held.oldest..next_seq
         /\ dropped = (dropped - (head_seq - held.oldest)) + (head_seq - held.oldest)
    BY <1>0, <2>2
  <2> HIDE DEF AbsLog, AbsOldest, AbsDropped, Retained
  <2> QED
    BY <2>1, <2>3, <2>6, <2>7, <2>8, <2>9, <2>10
<1>6. ASSUME Clear
      PROVE  /\ AbsLog' = << >> /\ AbsOldest' = next_seq
             /\ UNCHANGED <<capacity, next_seq, AbsDropped>>
  <2>1. Retained' = << >>
    BY <1>6 DEF Clear, Retained
  <2> QED
    BY <1>6, <2>1 DEF Clear, AbsLog, AbsOldest, AbsDropped
<1>7. CASE UNCHANGED vars
  BY <1>7 DEF vars, ring, AbsLog, AbsOldest, AbsDropped, Retained
<1> HIDE DEF AbsLog, AbsOldest, AbsDropped, Retained
<1>8. CASE Write
  BY <1>5, <1>8
<1>9. CASE Clear
  BY <1>6, <1>9
<1>10. CASE \E p \in Packets : AppendDrop(p) \/ AppendBegin(p)
  BY <1>1, <1>2, <1>10
<1> QED
  BY <1>3, <1>4, <1>7, <1>8, <1>9, <1>10 DEF Next, AppendStep

\* append(), however many records it pops, is one append of the log, or one
\* refusal; clear() empties it; and the retained packets fit the budget.
THEOREM RingIsLog == Spec => ImplementsLog
<1>1. Init => Log!LogInit /\ HeldInv
  <2> SUFFICES ASSUME Init PROVE Log!LogInit /\ HeldInv
    OBVIOUS
  <2>1. /\ capacity \in {0} \cup (IF Capacity >= Overhead + 1 THEN {Capacity} ELSE {})
        /\ live = << >> /\ head_seq = 1 /\ next_seq = 1 /\ dropped = 0 /\ pc = "idle"
    BY DEF Init
  <2>2. [s \in DOMAIN live |-> live[s].pkt] = << >>
    BY <2>1
  <2> QED
    BY <2>1, <2>2 DEF Log!LogInit, Log!Budgets, HeldInv
<1>2. IndInv' => (Log!Bytes(Retained) <= capacity)'
  BY RetainedFits, PTL
<1>3. IndInv /\ IndInv' /\ HeldInv /\ [Next]_vars => HeldInv'
  BY HeldKept
<1>4. IndInv /\ IndInv' /\ HeldInv /\ [Next]_vars => [Log!LogNext]_Log!logVars
  <2> SUFFICES ASSUME IndInv, IndInv', HeldInv, [Next]_vars
               PROVE  Log!LogNext \/ UNCHANGED Log!logVars
    OBVIOUS
  <2> USE DEF Log!LogReject, Log!LogAppend, Log!AppendFrom, Log!Need, Need,
              AbsLog, AbsOldest, AbsDropped, Retained
  <2>1. ASSUME NEW p \in Packets,
               /\ capacity = 0 \/ Need(p) > capacity
               /\ AbsDropped' = AbsDropped + 1
               /\ UNCHANGED <<capacity, AbsLog, AbsOldest, next_seq>>
        PROVE  Log!LogReject(p)
    BY <2>1
  <2>2. ASSUME NEW p \in Packets, NEW o \in AbsOldest..next_seq,
               /\ capacity # 0 /\ Need(p) <= capacity
               /\ AbsLog' = [s \in o..next_seq |-> IF s = next_seq THEN p ELSE AbsLog[s]]
               /\ Log!Bytes(AbsLog)' <= capacity
               /\ AbsOldest' = o /\ next_seq' = next_seq + 1
               /\ AbsDropped' = AbsDropped + (o - AbsOldest)
               /\ UNCHANGED capacity
        PROVE  Log!LogAppend(p)
    BY <2>2
  <2>3. ASSUME /\ AbsLog' = << >> /\ AbsOldest' = next_seq
               /\ UNCHANGED <<capacity, next_seq, AbsDropped>>
        PROVE  Log!LogClear
    BY <2>3 DEF Log!LogClear
  <2>4. ASSUME UNCHANGED <<capacity, AbsLog, AbsOldest, next_seq, AbsDropped>>
        PROVE  UNCHANGED Log!logVars
    BY <2>4 DEF Log!logVars
  <2> QED
    BY <1>2, <2>1, <2>2, <2>3, <2>4, LogSteps DEF Log!LogNext
<1> QED
  BY <1>1, <1>3, <1>4, Invariance, PTL DEF Spec, ImplementsLog, Log!LogSpec

-----------------------------------------------------------------------------
(* Nothing is evicted without need. *)

\* The offsets between head and tail, the way round the ring goes.
InUse(x) ==
    \/ head_off < tail_off /\ head_off <= x /\ x < tail_off
    \/ head_off >= tail_off /\ (x < tail_off \/ (head_off <= x /\ x < wrap))

Covers(s, x) == Off(s) <= x /\ x < End(s)

\* The used part of the ring has no holes: all free space is what FreeBytes
\* counts.
NoHoles == count > 0 => \A x \in Nat : InUse(x) => \E s \in Live : Covers(s, x)

\* The second loop runs because the packet does not fit above the tail.
RoomAbove == pc = "rewrap" /\ count > 0 => wrap - tail_off < Need(arg)

LEMMA TailBelowWrap == IndInv /\ count > 0 => tail_off < wrap
<1> SUFFICES ASSUME IndInv, count > 0 PROVE tail_off < wrap
  OBVIOUS
<1>1. PICK s \in Live : s = next_seq - 1
  BY Numbers DEF Live
<1>2. tail_off = After(s)
  BY <1>1 DEF IndInv, Geometry, Chain
<1> QED
  BY <1>2, RecordBounds DEF After

\* Taking the oldest record away uncovers its own bytes only, which are no
\* longer in use.
LEMMA PopKeepsCover ==
    ASSUME IndInv, IndInv', NoHoles, RoomAbove, PopOldest, count > 0
    PROVE  NoHoles' /\ RoomAbove'
<1> DEFINE h == head_seq
<1>0. /\ h \in Nat /\ next_seq \in Nat /\ count \in Nat /\ h + count = next_seq
      /\ head_off \in Nat /\ tail_off \in Nat /\ wrap \in Nat /\ capacity \in Nat
      /\ wrap <= capacity
  BY Numbers
<1>1. /\ h \in Live /\ head_off = Off(h) /\ head_off' = After(h)
      /\ wrap' = IF After(h) = 0 THEN capacity ELSE wrap
      /\ count' = count - 1 /\ head_seq' = h + 1
      /\ live' = [s \in (h + 1)..(next_seq - 1) |-> live[s]]
      /\ UNCHANGED <<tail_off, next_seq, pc, arg>>
  BY HeadHeader DEF PopOldest, IndInv, Geometry, Chain
<1>2. Off(h) \in Nat /\ End(h) \in Nat /\ Off(h) < End(h) /\ End(h) <= wrap
  BY <1>1, RecordBounds
<1>3. \A s \in Live : s # h => s \in Live' /\ Off(s)' = Off(s) /\ End(s)' = End(s)
  BY <1>0, <1>1 DEF Live, Off, End
<1>4. tail_off < wrap
  BY TailBelowWrap
<1>5. count' > 0 /\ head_off < tail_off => head_off' < tail_off /\ wrap' = wrap
  <2> SUFFICES ASSUME count' > 0, head_off < tail_off
               PROVE  head_off' < tail_off /\ wrap' = wrap
    OBVIOUS
  <2>1. End(h) <= tail_off
    BY <1>1 DEF IndInv, Geometry, Segments
  <2>2. After(h) = End(h) /\ After(h) # 0
    BY <2>1, <1>0, <1>2, <1>4 DEF After
  <2>3. h + 1 \in Live /\ Off(h + 1) = After(h)
    BY <1>0, <1>1 DEF IndInv, Geometry, Chain, Live
  <2>4. Off(h + 1) \in Nat /\ End(h + 1) \in Nat /\ Off(h + 1) < End(h + 1)
    BY <2>3, RecordBounds
  <2>5. End(h + 1) <= tail_off
    BY <2>3 DEF IndInv, Geometry, Segments
  <2> QED
    BY <2>2, <2>3, <2>4, <2>5, <1>0, <1>1
<1>6. RoomAbove'
  BY <1>0, <1>1, <1>5 DEF RoomAbove, Need, IndInv, Geometry, ReadyToWrite
<1>7. ASSUME count' > 0, NEW x \in Nat, InUse(x)'
      PROVE  InUse(x) /\ ~Covers(h, x)
  <2>1. CASE head_off < tail_off
    <3>1. End(h) <= tail_off /\ head_off' < tail_off /\ wrap' = wrap
      BY <2>1, <1>1, <1>5, <1>7 DEF IndInv, Geometry, Segments
    <3>2. head_off' = End(h)
      BY <3>1, <1>0, <1>1, <1>2, <1>4 DEF After
    <3> QED
      BY <2>1, <3>1, <3>2, <1>0, <1>1, <1>2, <1>7 DEF InUse, Covers
  <2>2. CASE head_off >= tail_off
    <3>1. CASE After(h) # 0
      BY <2>2, <3>1, <1>0, <1>1, <1>2, <1>7 DEF InUse, Covers, After
    <3>2. CASE After(h) = 0
      <4>1. PICK s \in Live : s = h + 1
        BY <1>0, <1>1, <1>7 DEF Live
      <4>2. /\ Off(s) \in Nat /\ End(s) \in Nat /\ Off(s) < End(s) /\ End(s) <= wrap
        BY RecordBounds
      <4>3. End(h) <= Off(s) \/ End(s) <= tail_off
        BY <4>1, <1>0, <1>1 DEF IndInv, Geometry, Order
      <4>4. End(h) = wrap
        BY <3>2, <1>0, <1>2 DEF After
      <4>5. 0 < tail_off
        BY <4>2, <4>3, <4>4, <1>0
      <4>6. x < tail_off
        BY <4>5, <3>2, <1>0, <1>1, <1>7 DEF InUse
      <4> QED
        BY <4>6, <2>2, <1>0, <1>1, <1>2 DEF InUse, Covers
    <3> QED
      BY <3>1, <3>2
  <2> QED
    BY <2>1, <2>2, <1>0
<1>8. ASSUME count' > 0, NEW x \in Nat, InUse(x)'
      PROVE  \E s \in Live' : Covers(s, x)'
  <2>1. InUse(x) /\ ~Covers(h, x)
    BY <1>7, <1>8
  <2>2. PICK s \in Live : Covers(s, x)
    BY <2>1 DEF NoHoles
  <2>3. s # h
    BY <2>1, <2>2
  <2>4. s \in Live' /\ Off(s)' = Off(s) /\ End(s)' = End(s)
    BY <1>3, <2>3
  <2> QED
    BY <2>2, <2>4 DEF Covers
<1> QED
  BY <1>6, <1>8 DEF NoHoles

\* A new record covers exactly the bytes it brings into use.
LEMMA WriteKeepsCover ==
    ASSUME IndInv, NoHoles, Write
    PROVE  NoHoles' /\ RoomAbove'
<1>n. PICK n \in Nat : n = next_seq
  BY Numbers
<1>0. /\ head_seq \in Nat /\ count \in Nat /\ head_seq + count = n
      /\ head_off \in Nat /\ tail_off \in Nat /\ wrap \in Nat /\ capacity \in Nat
      /\ Need(arg) \in Nat /\ 0 < Need(arg)
  BY <1>n, Numbers DEF Write
<1>1. /\ pc = "write" /\ pc' = "idle"
      /\ tail_off' = IF tail_off + Need(arg) >= wrap THEN 0 ELSE tail_off + Need(arg)
      /\ next_seq' = n + 1
      /\ live' = [s \in head_seq..n |-> IF s = n THEN [off |-> tail_off, pkt |-> arg]
                                        ELSE live[s]]
      /\ UNCHANGED <<head_off, wrap, head_seq>>
  BY <1>n DEF Write
<1>2. \/ count = 0 /\ head_off = 0 /\ tail_off = 0
      \/ count > 0 /\ tail_off < head_off /\ tail_off + Need(arg) <= head_off
      \/ count > 0 /\ head_off < tail_off /\ tail_off + Need(arg) <= wrap
  BY <1>0, <1>1 DEF IndInv, Geometry, ReadyToWrite
<1>3. \A s \in Live : s \in Live' /\ Off(s)' = Off(s) /\ End(s)' = End(s)
  BY <1>n, <1>0, <1>1 DEF Live, Off, End, Need
<1>4. n \in Live' /\ Off(n)' = tail_off /\ End(n)' = tail_off + Need(arg)
  BY <1>0, <1>1 DEF Live, Off, End, Need
<1>5. ASSUME NEW x \in Nat, InUse(x)'
      PROVE  \/ count > 0 /\ InUse(x)
             \/ tail_off <= x /\ x < tail_off + Need(arg)
  BY <1>0, <1>1, <1>2, <1>5 DEF InUse
<1>6. ASSUME NEW x \in Nat, InUse(x)'
      PROVE  \E s \in Live' : Covers(s, x)'
  <2>1. CASE count > 0 /\ InUse(x)
    <3>1. PICK s \in Live : Covers(s, x)
      BY <2>1 DEF NoHoles
    <3> QED
      BY <3>1, <1>3 DEF Covers
  <2>2. CASE tail_off <= x /\ x < tail_off + Need(arg)
    BY <2>2, <1>4 DEF Covers
  <2> QED
    BY <1>5, <1>6, <2>1, <2>2
<1> QED
  BY <1>1, <1>6 DEF NoHoles, RoomAbove

\* The tail moves to the front: what was below it is now below the wrap.
LEMMA RewrapKeepsCover ==
    ASSUME IndInv, NoHoles, RewrapDone
    PROVE  NoHoles' /\ RoomAbove'
<1>0. head_off \in Nat /\ tail_off \in Nat /\ wrap \in Nat /\ count \in Nat
  BY Numbers
<1>1. pc = "rewrap" /\ pc' = "write" /\ UNCHANGED <<count, next_seq, head_seq, live>>
  BY DEF RewrapDone
<1>2. Live' = Live /\ \A s \in Live, x \in Nat : Covers(s, x)' = Covers(s, x)
  BY <1>1 DEF Live, Covers, Off, End, Need
<1>3. count > 0 => \A x \in Nat : InUse(x)' => InUse(x)
  <2>1. count > 0 => /\ head_off < tail_off
                     /\ wrap' = tail_off /\ tail_off' = 0 /\ head_off' = head_off
    BY <1>0, <1>1 DEF RewrapDone, IndInv, Geometry, ReadyToWrite
  <2> QED
    BY <2>1, <1>0 DEF InUse
<1> QED
  BY <1>1, <1>2, <1>3 DEF NoHoles, RoomAbove

LEMMA CoverKept ==
    ASSUME IndInv, IndInv', NoHoles, RoomAbove, [Next]_vars
    PROVE  NoHoles' /\ RoomAbove'
<1> USE DEF NoHoles, RoomAbove, InUse, Covers, Live, Off, End, Need
<1>1. CASE \E p \in Packets : AppendDrop(p) \/ AppendBegin(p)
  BY <1>1 DEF AppendDrop, AppendBegin, ring
<1>2. CASE EvictOldest \/ RewrapPop
  BY <1>2, PopKeepsCover DEF EvictOldest, RewrapPop
<1>3. CASE Place
  BY <1>3 DEF Place, StartOver
<1>4. CASE RewrapDone
  BY <1>4, RewrapKeepsCover
<1>5. CASE Write
  BY <1>5, WriteKeepsCover
<1>6. CASE Clear
  BY <1>6 DEF Clear
<1>7. CASE UNCHANGED vars
  BY <1>7 DEF vars, ring
<1> QED
  BY <1>1, <1>2, <1>3, <1>4, <1>5, <1>6, <1>7 DEF Next, AppendStep

\* In every state in which append() pops a record, each place below the wrap
\* where the packet would fit has a byte of a retained record in it.
LEMMA InTheWay ==
    ASSUME IndInv, NoHoles, RoomAbove, EvictOldest \/ RewrapPop,
           NEW o \in 0..wrap, o + Need(arg) <= wrap
    PROVE  \E s \in DOMAIN live : Overlaps(s, o, o + Need(arg))
<1>0. /\ head_off \in Nat /\ tail_off \in Nat /\ wrap \in Nat /\ count > 0 /\ o \in Nat
      /\ Need(arg) \in Nat /\ 0 < Need(arg)
  BY Numbers DEF EvictOldest, RewrapPop
<1>1. \E x \in Nat : o <= x /\ x < o + Need(arg) /\ InUse(x)
  <2>1. CASE head_off >= tail_off
    <3>1. head_off - tail_off < Need(arg)
      BY <2>1, <1>0 DEF EvictOldest, RewrapPop, FreeBytes, IndInv, Geometry, ReadyToWrite
    <3>2. CASE o < tail_off
      BY <2>1, <3>2, <1>0 DEF InUse
    <3>3. CASE o >= tail_off
      <4>1. /\ o + Need(arg) - 1 \in Nat /\ o <= o + Need(arg) - 1
            /\ o + Need(arg) - 1 < o + Need(arg)
            /\ head_off <= o + Need(arg) - 1 /\ o + Need(arg) - 1 < wrap
        BY <2>1, <3>1, <3>3, <1>0
      <4> QED
        BY <2>1, <4>1 DEF InUse
    <3> QED
      BY <3>2, <3>3, <1>0
  <2>2. CASE head_off < tail_off
    <3>1. head_off < Need(arg) /\ wrap - tail_off < Need(arg)
      BY <2>2, <1>0, TailBelowWrap DEF EvictOldest, RewrapPop, FreeBytes, RoomAbove
    <3>2. o < tail_off
      BY <3>1, <1>0
    <3>3. CASE o < head_off
      BY <2>2, <3>1, <3>3, <1>0 DEF InUse
    <3>4. CASE o >= head_off
      BY <2>2, <3>2, <3>4, <1>0 DEF InUse
    <3> QED
      BY <3>3, <3>4, <1>0
  <2> QED
    BY <2>1, <2>2, <1>0
<1>2. PICK x \in Nat : o <= x /\ x < o + Need(arg) /\ InUse(x)
  BY <1>1
<1>3. PICK s \in Live : Covers(s, x)
  BY <1>0, <1>2 DEF NoHoles
<1>4. s \in DOMAIN live /\ Off(s) \in Nat /\ End(s) \in Nat
  BY <1>3, RecordBounds DEF IndInv, TypeOK, Live
<1> QED
  BY <1>0, <1>2, <1>3, <1>4 DEF Overlaps, Covers, Off, End

\* The two loops of append() pop only what is in the packet's way.
THEOREM EvictsOnlyForRoom == Spec => EvictionNecessary
<1>1. Init => NoHoles /\ RoomAbove
  BY DEF Init, NoHoles, RoomAbove
<1>2. IndInv /\ IndInv' /\ NoHoles /\ RoomAbove /\ [Next]_vars => NoHoles' /\ RoomAbove'
  BY CoverKept
<1>3. IndInv /\ NoHoles /\ RoomAbove /\ [Next]_vars =>
        [EvictOldest \/ RewrapPop =>
           \A o \in 0..wrap : o + Need(arg) <= wrap =>
               \E s \in DOMAIN live : Overlaps(s, o, o + Need(arg))]_vars
  BY InTheWay
<1> QED
  BY <1>1, <1>2, <1>3, Invariance, PTL DEF Spec, EvictionNecessary

-----------------------------------------------------------------------------
(* What the reads return. *)

\* Two functions that agree at 0 and, where they agree, at the next place too
\* agree everywhere.
LEMMA Agree ==
    ASSUME NEW n \in Nat, NEW f, NEW g, f[0] = g[0],
           \A i \in 1..n : f[i - 1] = g[i - 1] => f[i] = g[i]
    PROVE  \A i \in 0..n : f[i] = g[i]
<1> DEFINE R == OpToRel(<, Nat)
           T == {i \in 0..n : f[i] # g[i]}
<1>1. IsWellFoundedOn(R, Nat)
  BY NatLessThanWellFounded
<1>2. \A x, y \in Nat : y < x => <<y, x>> \in R
  BY DEF OpToRel
<1>3. T \subseteq Nat
  OBVIOUS
<1> HIDE DEF R
<1> SUFFICES ASSUME T # {} PROVE FALSE
  OBVIOUS
<1>4. PICK x \in T : \A y \in T : ~ (<<y, x>> \in R)
  BY <1>1, <1>3, WFMin
<1>5. x \in 1..n /\ x - 1 \in 0..n /\ x - 1 < x /\ x \in Nat /\ x - 1 \in Nat
  OBVIOUS
<1>6. x - 1 \notin T
  BY <1>2, <1>4, <1>5
<1> QED
  BY <1>4, <1>5, <1>6

\* Reading a retained record's header and its bytes returns what was written.
LEMMA Header ==
    ASSUME IndInv, NEW s \in Live
    PROVE  /\ ReadHeader(Off(s)) = [seq |-> s, len |-> live[s].pkt.len]
           /\ NextOffset(Off(s), ReadHeader(Off(s)).len) = After(s)
           /\ ReadEntry(Off(s)) = RecordOf(s, live[s].pkt)
<1>1. /\ live[s].pkt.len \in Nat /\ Off(s) \in Nat /\ s \in DOMAIN live
      /\ Need(live[s].pkt) \in Nat /\ 0 < Need(live[s].pkt)
      /\ Need(live[s].pkt) = Overhead + live[s].pkt.len
  BY RecordBounds, OverheadAssumption DEF IndInv, TypeOK, Live, Need
<1>2. \A i \in 0..(Need(live[s].pkt) - 1) : buf[Off(s) + i] = Cell(s, live[s].pkt, i)
  BY <1>1 DEF IndInv, RecordsIntact, Off
<1>3. /\ 0 \in 0..(Need(live[s].pkt) - 1) /\ Overhead - 1 \in 0..(Need(live[s].pkt) - 1)
      /\ Off(s) + 0 = Off(s) /\ Off(s) + Overhead - 1 = Off(s) + (Overhead - 1)
  BY <1>1, OverheadAssumption
<1>4. buf[Off(s)].seq = s /\ buf[Off(s) + Overhead - 1].pkt = live[s].pkt
  <2>1. /\ buf[Off(s) + 0] = Cell(s, live[s].pkt, 0)
        /\ buf[Off(s) + (Overhead - 1)] = Cell(s, live[s].pkt, Overhead - 1)
    BY <1>2, <1>3
  <2> QED
    BY <1>3, <2>1 DEF Cell
<1>5. ReadHeader(Off(s)) = [seq |-> s, len |-> live[s].pkt.len]
  BY <1>4 DEF ReadHeader
<1>6. Off(s) + Overhead + live[s].pkt.len = End(s)
  BY <1>1, OverheadAssumption DEF End, Off
<1>7. ReadEntry(Off(s)) = [i \in 0..(Need(live[s].pkt) - 1) |-> buf[Off(s) + i]]
  <2>1. ReadHeader(Off(s)).len = live[s].pkt.len
    BY <1>5
  <2>2. Overhead + live[s].pkt.len - 1 = Need(live[s].pkt) - 1
    BY <1>1, OverheadAssumption
  <2> QED
    BY <2>1, <2>2, Zenon DEF ReadEntry
<1> QED
  BY <1>2, <1>5, <1>6, <1>7 DEF NextOffset, After, RecordOf

\* Where a walk stands after i records: at the next one, and behind the last
\* one at the tail.
Stop(i) == IF i < count THEN Off(head_seq + i) ELSE IF count = 0 THEN head_off ELSE tail_off

LEMMA NextStop ==
    ASSUME IndInv, NEW i \in 1..count
    PROVE  NextOffset(Stop(i - 1), ReadHeader(Stop(i - 1)).len) = Stop(i)
<1>0. head_seq \in Nat /\ count \in Nat /\ head_seq + count = next_seq
  BY Numbers
<1>1. PICK s \in Live : s = head_seq + (i - 1)
  BY <1>0 DEF Live
<1>2. Stop(i - 1) = Off(s)
  BY <1>0, <1>1 DEF Stop
<1>3. NextOffset(Stop(i - 1), ReadHeader(Stop(i - 1)).len) = After(s)
  BY <1>2, Header
<1>4. CASE i < count
  <2>1. s + 1 \in Live /\ s + 1 = head_seq + i
    BY <1>0, <1>1, <1>4 DEF Live
  <2>2. Off(s + 1) = After(s)
    BY <2>1 DEF IndInv, Geometry, Chain
  <2> QED
    BY <1>3, <1>4, <2>1, <2>2 DEF Stop
<1>5. CASE i = count
  <2>1. s = next_seq - 1 /\ count > 0
    BY <1>0, <1>1, <1>5
  <2>2. tail_off = After(s)
    BY <2>1 DEF IndInv, Geometry, Chain
  <2> QED
    BY <1>0, <1>3, <1>5, <2>1, <2>2 DEF Stop
<1> QED
  BY <1>0, <1>4, <1>5

\* Following the headers from the head visits the retained records in order.
LEMMA Walk ==
    ASSUME IndInv
    PROVE  \A i \in 0..count : WalkOff[i] = Stop(i)
<1> DEFINE g == [i \in 0..count |-> Stop(i)]
           Rule(at) == at = [i \in 0..count |->
              IF i = 0 THEN head_off
              ELSE NextOffset(at[i - 1], ReadHeader(at[i - 1]).len)]
<1>0. count \in Nat /\ \A i \in 1..count : i \in 0..count /\ i - 1 \in 0..count /\ i # 0
  BY Numbers
<1>1. Stop(0) = head_off
  BY Numbers DEF Stop, IndInv, Geometry, Chain
<1>2. ASSUME NEW i \in 0..count
      PROVE  g[i] = IF i = 0 THEN head_off
                    ELSE NextOffset(g[i - 1], ReadHeader(g[i - 1]).len)
  <2>1. CASE i = 0
    BY <1>1, <2>1
  <2>2. CASE i # 0
    <3>1. i \in 1..count
      BY <1>0, <2>2
    <3> QED
      BY <1>0, <2>2, <3>1, NextStop
  <2> QED
    BY <2>1, <2>2
<1>3. Rule(g)
  BY <1>2
<1>4. Rule(WalkOff)
  BY <1>3 DEF WalkOff
<1>5. WalkOff[0] = g[0]
  BY <1>0, <1>1, <1>4
<1>6. ASSUME NEW i \in 1..count, WalkOff[i - 1] = g[i - 1]
      PROVE  WalkOff[i] = g[i]
  <2>1. WalkOff[i] = NextOffset(WalkOff[i - 1], ReadHeader(WalkOff[i - 1]).len)
    BY <1>0, <1>4
  <2> QED
    BY <1>0, <1>2, <1>6, <2>1
<1> HIDE DEF g
<1>7. \A i \in 0..count : WalkOff[i] = g[i]
  BY <1>0, <1>5, <1>6, Agree
<1> QED
  BY <1>7 DEF g

\* The first number above the cursor that is retained, and how many of the
\* first i records a page of max takes.
First(since) == IF since >= head_seq THEN since + 1 ELSE head_seq
Taken(since, max, i) ==
    IF head_seq + i < First(since) THEN 0
    ELSE IF head_seq + i - First(since) < max THEN head_seq + i - First(since) ELSE max

Page(since, n) ==
    [j \in 1..n |-> RecordOf(First(since) + j - 1, live[First(since) + j - 1].pkt)]

\* A turn of the loop adds its record to the page or leaves it as it is.
LEMMA Turn ==
    ASSUME IndInv, NEW since \in Nat, NEW max \in Nat, NEW i \in 1..count
    PROVE  Page(since, Taken(since, max, i)) =
             IF Len(Page(since, Taken(since, max, i - 1))) < max
                /\ ReadHeader(WalkOff[i - 1]).seq > since
             THEN Append(Page(since, Taken(since, max, i - 1)), ReadEntry(WalkOff[i - 1]))
             ELSE Page(since, Taken(since, max, i - 1))
<1>0. head_seq \in Nat /\ count \in Nat /\ head_seq + count = next_seq
  BY Numbers
<1>1. PICK s \in Live : s = head_seq + (i - 1)
  BY <1>0 DEF Live
<1>2. WalkOff[i - 1] = Off(s)
  BY <1>0, <1>1, Walk DEF Stop
<1>3. ReadHeader(WalkOff[i - 1]).seq = s /\ ReadEntry(WalkOff[i - 1]) = RecordOf(s, live[s].pkt)
  BY <1>2, Header
<1>4. PICK f \in Nat : f = First(since)
  BY <1>0 DEF First
<1>5. PICK m \in Nat : m = Taken(since, max, i - 1)
  BY <1>0, <1>4 DEF Taken
<1>6. Len(Page(since, m)) = m
  BY DEF Page
<1>7. s > since <=> s >= f
  BY <1>0, <1>1, <1>4 DEF First
<1>8. CASE m < max /\ s > since
  <2>1. s = f + m /\ Taken(since, max, i) = m + 1
    BY <1>0, <1>1, <1>4, <1>5, <1>7, <1>8 DEF Taken
  <2>2. Page(since, m + 1) = Append(Page(since, m), RecordOf(s, live[s].pkt))
    <3> DEFINE R(j) == RecordOf(f + j - 1, live[f + j - 1].pkt)
    <3>1. R(m + 1) = RecordOf(s, live[s].pkt)
      <4>1. f + (m + 1) - 1 = s
        BY <2>1
      <4> QED
        BY <4>1, Zenon
    <3> HIDE DEF R
    <3>2. Append([j \in 1..m |-> R(j)], R(m + 1)) = [j \in 1..(m + 1) |-> R(j)]
      OBVIOUS
    <3>3. Page(since, m + 1) = [j \in 1..(m + 1) |-> R(j)] /\ Page(since, m) = [j \in 1..m |-> R(j)]
      BY <1>4, Zenon DEF Page, R
    <3> QED
      BY <3>1, <3>2, <3>3
  <2> QED
    BY <1>3, <1>5, <1>6, <1>8, <2>1, <2>2
<1>9. CASE ~(m < max /\ s > since)
  <2>1. Taken(since, max, i) = m
    BY <1>0, <1>1, <1>4, <1>5, <1>7, <1>9 DEF Taken
  <2> QED
    BY <1>3, <1>5, <1>6, <1>9, <2>1
<1> QED
  BY <1>8, <1>9

\* fetch_since() returns the page.
LEMMA Fetch ==
    ASSUME IndInv, NEW since \in Nat, NEW max \in Nat
    PROVE  FetchSince(since, max) = Page(since, Taken(since, max, count))
<1> DEFINE g == [i \in 0..count |-> Page(since, Taken(since, max, i))]
           Rule(out) == out = [i \in 0..count |->
              IF i = 0 THEN << >>
              ELSE IF Len(out[i - 1]) < max /\ ReadHeader(WalkOff[i - 1]).seq > since
                   THEN Append(out[i - 1], ReadEntry(WalkOff[i - 1]))
                   ELSE out[i - 1]]
<1>0. /\ count \in Nat /\ count \in 0..count /\ 0 \in 0..count
      /\ \A i \in 0..count : i # 0 => i \in 1..count
      /\ \A i \in 1..count : i \in 0..count /\ i - 1 \in 0..count /\ i # 0
  BY Numbers
<1>1. Page(since, Taken(since, max, 0)) = << >>
  <2>1. Taken(since, max, 0) = 0
    BY Numbers DEF Taken, First
  <2> QED
    BY <2>1 DEF Page
<1>2. ASSUME NEW i \in 0..count
      PROVE  g[i] = IF i = 0 THEN << >>
                    ELSE IF Len(g[i - 1]) < max /\ ReadHeader(WalkOff[i - 1]).seq > since
                         THEN Append(g[i - 1], ReadEntry(WalkOff[i - 1]))
                         ELSE g[i - 1]
  <2>1. CASE i = 0
    BY <1>1, <2>1
  <2>2. CASE i # 0
    BY <1>0, <2>2, Turn
  <2> QED
    BY <2>1, <2>2
<1>3. Rule(g)
  BY <1>2
<1>4. Rule(Delivered(since, max))
  BY <1>3 DEF Delivered
<1> DEFINE d == Delivered(since, max)
<1> HIDE DEF d
<1>5. d[0] = g[0]
  BY <1>0, <1>1, <1>4 DEF d
<1>6. ASSUME NEW i \in 1..count, d[i - 1] = g[i - 1]
      PROVE  d[i] = g[i]
  <2>1. d[i] = IF Len(d[i - 1]) < max /\ ReadHeader(WalkOff[i - 1]).seq > since
               THEN Append(d[i - 1], ReadEntry(WalkOff[i - 1]))
               ELSE d[i - 1]
    BY <1>0, <1>4 DEF d
  <2> QED
    BY <1>0, <1>2, <1>6, <2>1
<1> HIDE DEF g
<1>7. \A i \in 0..count : d[i] = g[i]
  BY <1>0, <1>5, <1>6, Agree
<1> QED
  BY <1>0, <1>7 DEF d, g, FetchSince

\* get() finds a retained packet and no other.
LEMMA Lookup ==
    ASSUME IndInv, NEW s \in Nat
    PROVE  Get(s) = IF s \in DOMAIN live THEN <<RecordOf(s, live[s].pkt)>> ELSE << >>
<1>0. /\ head_seq \in Nat /\ next_seq \in Nat /\ count \in Nat /\ head_seq + count = next_seq
      /\ DOMAIN live = Live
  BY Numbers DEF IndInv, TypeOK, Live
<1>1. s \in Live <=> ~(count = 0 \/ s < head_seq \/ s >= next_seq)
  BY <1>0 DEF Live
<1>2. ASSUME s \in Live PROVE Get(s) = <<RecordOf(s, live[s].pkt)>>
  <2>1. s - head_seq \in 0..count /\ s - head_seq < count /\ head_seq + (s - head_seq) = s
    BY <1>0, <1>2 DEF Live
  <2>2. WalkOff[s - head_seq] = Off(s)
    BY <2>1, Walk DEF Stop
  <2>3. ReadHeader(Off(s)).seq = s /\ ReadEntry(Off(s)) = RecordOf(s, live[s].pkt)
    BY <1>2, Header
  <2> QED
    BY <1>1, <1>2, <2>2, <2>3 DEF Get
<1> QED
  BY <1>0, <1>1, <1>2 DEF Get

\* What the two reads find by walking the headers, for every cursor and page
\* size, is the retained packets, complete and in order.
THEOREM ReadsAreExact == Spec => []ReadExact
<1>1. IndInv => ReadExact
  <2> SUFFICES ASSUME IndInv PROVE ReadExact
    OBVIOUS
  <2>0. /\ head_seq \in Nat /\ next_seq \in Nat /\ count \in Nat
        /\ head_seq + count = next_seq
    BY Numbers
  <2>1. ASSUME NEW since \in 0..next_seq, NEW max \in 0..(count + 1)
        PROVE  LET first == IF since >= head_seq THEN since + 1 ELSE head_seq
                   n == IF next_seq < first THEN 0
                        ELSE IF next_seq - first < max THEN next_seq - first ELSE max
               IN  FetchSince(since, max) =
                     [i \in 1..n |-> RecordOf(first + i - 1, live[first + i - 1].pkt)]
    <3> DEFINE first == IF since >= head_seq THEN since + 1 ELSE head_seq
               n == IF next_seq < first THEN 0
                    ELSE IF next_seq - first < max THEN next_seq - first ELSE max
    <3>1. since \in Nat /\ max \in Nat
      BY <2>0
    <3>2. first = First(since)
      BY DEF First
    <3>3. n = Taken(since, max, count)
      BY <2>0, <3>2 DEF Taken
    <3> HIDE DEF first, n
    <3>4. FetchSince(since, max) =
            [i \in 1..n |-> RecordOf(first + i - 1, live[first + i - 1].pkt)]
      BY <3>1, <3>2, <3>3, Fetch DEF Page
    <3> QED
      BY <3>4 DEF first, n
  <2>2. ASSUME NEW s \in 0..next_seq
        PROVE  Get(s) = IF s \in DOMAIN live THEN <<RecordOf(s, live[s].pkt)>> ELSE << >>
    BY <2>0, Lookup
  <2> QED
    BY <2>1, <2>2 DEF ReadExact
<1> QED
  BY <1>1, Invariance, PTL

\* The retained numbers past a cursor, which count_since() promises to count.
Later(since) == {s \in Live : s > since}

\* What count_since() returns, for every state of the store: the number of
\* retained packets past the cursor, and next_seq once the cursor is the
\* largest number there is.
CountedPast ==
    pc = "idle" =>
        \A since \in 0..(SeqMod - 1) :
            CountSince(since) = IF since < SeqMod - 1 \/ since < head_seq \/ count = 0
                                THEN Cardinality(Later(since))
                                ELSE next_seq

\* "Number of retained packets with seq > since_seq" (packet_store.h), which
\* count_since() returns past every cursor except the largest: there
\* since_seq + 1 is 0, and every number ever given out is counted.
THEOREM CountSinceOffOnlyAtTheTop == Spec => []CountedPast
<1>1. IndInv => CountedPast
  <2> SUFFICES ASSUME IndInv, NEW since \in 0..(SeqMod - 1)
               PROVE  CountSince(since) =
                        IF since < SeqMod - 1 \/ since < head_seq \/ count = 0
                        THEN Cardinality(Later(since))
                        ELSE next_seq
    BY DEF CountedPast
  <2>0. /\ head_seq \in Nat /\ next_seq \in Nat /\ count \in Nat
        /\ head_seq + count = next_seq
        /\ since \in Nat /\ SeqMod \in Nat /\ since <= SeqMod - 1
    BY Numbers, BoundsAssumption
  <2> DEFINE first == IF head_seq > since THEN head_seq ELSE since + 1
  <2>1. Cardinality(Later(since)) = IF first >= next_seq THEN 0 ELSE next_seq - first
    <3>1. Later(since) = first..(next_seq - 1)
      BY <2>0 DEF Later, Live
    <3>2. Cardinality(first..(next_seq - 1))
            = IF first > next_seq - 1 THEN 0 ELSE (next_seq - 1) - first + 1
      <4>1. first \in Int /\ next_seq - 1 \in Int
        BY <2>0
      <4> HIDE DEF first
      <4> QED
        BY <4>1, FS_Interval
    <3> QED
      BY <2>0, <3>1, <3>2
  <2>2. CASE count = 0
    <3>1. CountSince(since) = 0
      BY <2>2 DEF CountSince
    <3>2. first >= next_seq
      BY <2>0, <2>2
    <3> QED
      BY <2>1, <2>2, <3>1, <3>2
  <2>3. CASE count # 0 /\ (since < SeqMod - 1 \/ since < head_seq)
    <3>1. since < SeqMod - 1 => (since + 1) % SeqMod = since + 1
      BY <2>0
    <3>2. (IF head_seq > since THEN head_seq ELSE (since + 1) % SeqMod) = first
      BY <2>0, <2>3, <3>1
    <3>3. CountSince(since) = IF first >= next_seq THEN 0 ELSE next_seq - first
      BY <2>3, <3>2 DEF CountSince
    <3> QED
      BY <2>1, <2>3, <3>3
  <2>4. CASE count # 0 /\ ~(since < SeqMod - 1) /\ ~(since < head_seq)
    <3>1. (since + 1) % SeqMod = 0
      BY <2>0, <2>4
    <3>2. (IF head_seq > since THEN head_seq ELSE (since + 1) % SeqMod) = 0
      BY <2>0, <2>4, <3>1
    <3>3. ~(0 >= next_seq)
      BY <2>0, <2>4
    <3> QED
      BY <2>0, <2>4, <3>2, <3>3 DEF CountSince
  <2> QED
    BY <2>2, <2>3, <2>4
<1> QED
  BY <1>1, Invariance, PTL
=============================================================================

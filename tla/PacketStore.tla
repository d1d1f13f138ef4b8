---------------------------- MODULE PacketStore ----------------------------
(***************************************************************************)
(* The byte-budgeted ring of retained packets (class PacketStore).  Each   *)
(* record is a header of Overhead bytes followed by exactly p.len payload  *)
(* bytes, laid down contiguously; a record that does not fit before the    *)
(* end of the pool starts again at offset 0 and `wrap` remembers where the *)
(* upper segment ends.                                                     *)
(*                                                                         *)
(* append() is one call but two loops: every iteration is an action here,  *)
(* so the ring is looked at in the middle of an append too, and `pc` lets  *)
(* nothing else happen until the append is over (the store has one caller  *)
(* at a time: everything runs on the main loop).                           *)
(*                                                                         *)
(* A byte of the pool is the record it was written for and its place in    *)
(* that record; offsets, sizes and the wrap are exact.  `live` and `held`  *)
(* are auxiliary: they record where each packet was put and what the log   *)
(* was when the current append began.  No guard reads them.                *)
(***************************************************************************)
EXTENDS Naturals, Sequences

CONSTANTS
    Packets,     \* the raw packets; p.len is a packet's payload length
    Overhead,    \* kStoredPacketOverhead, 16 in the code
    Capacity,    \* capacity_bytes the constructor is given
    SeqMod,      \* sequence numbers are uint32_t: 2^32 in the code
    MaxSeq,      \* bound: no append once next_seq has reached it
    MaxDropped   \* bound: no refused append once dropped has reached it

ASSUME PacketsAssumption == \A p \in Packets : p.len \in Nat
ASSUME OverheadAssumption == Overhead \in Nat \ {0}
ASSUME CapacityAssumption == Capacity \in Nat
ASSUME BoundsAssumption == SeqMod \in Nat /\ MaxSeq \in Nat /\ MaxDropped \in Nat

VARIABLES
    capacity,    \* capacity_: pool size in bytes, 0 when disabled
    buf,         \* buf_: the pool
    head_off,    \* offset of the oldest entry
    tail_off,    \* offset where the next entry is written
    wrap,        \* entries never cross this offset
    count,       \* entries retained
    next_seq,    \* seq of the next packet appended
    head_seq,    \* seq of the oldest retained packet
    dropped,     \* entries evicted / dropped by overflow
    pc,          \* where the current append is; "idle" outside append()
    arg,         \* the packet being appended
    live,        \* auxiliary: offset and packet of every retained record
    held         \* auxiliary: the log when the current append began

ring == <<buf, head_off, tail_off, wrap, count, next_seq, head_seq, dropped>>
vars == <<capacity, ring, pc, arg, live, held>>

NoPacket == [id |-> "none", len |-> 0]

\* One byte of the pool: byte k of the record of packet pkt under number seq.
Cell(s, p, i) == [seq |-> s, pkt |-> p, k |-> i]

-----------------------------------------------------------------------------
(* The helpers of the class. *)

Need(p) == Overhead + p.len

\* Mutant: a record that ends exactly at the wrap does not wrap.
NextOffset_OffByOne(off, len) ==
    LET next == off + Overhead + len IN IF next > wrap THEN 0 ELSE next

\* next_offset(): where the record at off ends, wrapping at `wrap`.
NextOffset(off, len) ==
    LET next == off + Overhead + len IN IF next >= wrap THEN 0 ELSE next

\* Mutant: the hole in front of the head is not counted.
FreeBytes_TailOnly ==
    CASE count = 0 -> capacity
      [] count # 0 /\ head_off = tail_off -> 0
      [] count # 0 /\ head_off > tail_off -> head_off - tail_off
      [] OTHER -> wrap - tail_off

\* free_bytes()
FreeBytes ==
    CASE count = 0 -> capacity
      [] count # 0 /\ head_off = tail_off -> 0
      [] count # 0 /\ head_off > tail_off -> head_off - tail_off
      [] OTHER -> (wrap - tail_off) + head_off

\* read_header(): seq and len, at opposite ends of the header.
ReadHeader(off) ==
    [seq |-> buf[off].seq, len |-> buf[off + Overhead - 1].pkt.len]

\* read_entry(): the bytes handed out for the record at off.
ReadEntry(off) ==
    [i \in 0..(Overhead + ReadHeader(off).len - 1) |-> buf[off + i]]

\* The offset a walk is at after i records.
WalkOff[i \in 0..count] ==
    IF i = 0 THEN head_off
    ELSE NextOffset(WalkOff[i - 1], ReadHeader(WalkOff[i - 1]).len)

\* Mutant: the cursor is inclusive.
Delivered_Inclusive(since, max) ==
    LET out[i \in 0..count] ==
            IF i = 0 THEN << >>
            ELSE IF Len(out[i - 1]) < max /\ ReadHeader(WalkOff[i - 1]).seq >= since
                 THEN Append(out[i - 1], ReadEntry(WalkOff[i - 1]))
                 ELSE out[i - 1]
    IN  out

\* The entries handed out in the first i turns of the loop of fetch_since().
Delivered(since, max) ==
    LET out[i \in 0..count] ==
            IF i = 0 THEN << >>
            ELSE IF Len(out[i - 1]) < max /\ ReadHeader(WalkOff[i - 1]).seq > since
                 THEN Append(out[i - 1], ReadEntry(WalkOff[i - 1]))
                 ELSE out[i - 1]
    IN  out

\* fetch_since(): up to max entries with seq > since, oldest first.
FetchSince(since, max) == Delivered(since, max)[count]

\* get(): the entry numbered s, or nothing.
Get(s) ==
    IF count = 0 \/ s < head_seq \/ s >= next_seq THEN << >>
    ELSE LET off == WalkOff[s - head_seq]
         IN  IF ReadHeader(off).seq # s THEN << >> ELSE <<ReadEntry(off)>>

\* count_since(), in the width of a sequence number.
CountSince(since) ==
    LET first == IF head_seq > since THEN head_seq ELSE (since + 1) % SeqMod
    IN  IF count = 0 \/ first >= next_seq THEN 0 ELSE next_seq - first

-----------------------------------------------------------------------------
Init ==
    /\ capacity \in {0} \cup (IF Capacity >= Overhead + 1 THEN {Capacity} ELSE {})
    /\ buf = [i \in 0..(capacity - 1) |-> Cell(0, NoPacket, 0)]
    /\ head_off = 0 /\ tail_off = 0 /\ wrap = capacity /\ count = 0
    /\ next_seq = 1 /\ head_seq = 1 /\ dropped = 0
    /\ pc = "idle" /\ arg = NoPacket
    /\ live = << >>
    /\ held = [oldest |-> 1, log |-> << >>]

\* append(), a packet this pool can never hold: no sequence number is used.
AppendDrop(p) ==
    /\ pc = "idle"
    /\ capacity = 0 \/ Need(p) > capacity
    /\ dropped < MaxDropped
    /\ dropped' = dropped + 1
    /\ UNCHANGED <<capacity, buf, head_off, tail_off, wrap, count, next_seq,
                   head_seq, pc, arg, live, held>>

\* append(), past the size test.
AppendBegin(p) ==
    /\ pc = "idle"
    /\ capacity # 0 /\ Need(p) <= capacity
    /\ next_seq < MaxSeq
    /\ pc' = "evict" /\ arg' = p
    /\ held' = [oldest |-> head_seq,
                log |-> [s \in DOMAIN live |-> live[s].pkt]]
    /\ UNCHANGED <<capacity, ring, live>>

\* pop_oldest()
PopOldest ==
    LET next == NextOffset(head_off, ReadHeader(head_off).len)
    IN  /\ head_off' = next
        /\ wrap' = IF next = 0 THEN capacity ELSE wrap
        /\ count' = count - 1
        /\ head_seq' = head_seq + 1
        /\ dropped' = dropped + 1
        /\ live' = [s \in (head_seq + 1)..(next_seq - 1) |-> live[s]]
        /\ UNCHANGED <<capacity, buf, tail_off, next_seq, pc, arg, held>>

\* One turn of the first loop of append().
EvictOldest ==
    /\ pc = "evict"
    /\ count > 0 /\ FreeBytes < Need(arg)
    /\ PopOldest

\* The offsets an emptied ring starts over with.
StartOver ==
    /\ head_off' = 0 /\ tail_off' = 0 /\ wrap' = capacity

\* Mutant: the record is written at the tail although it would run past the
\* end of the pool.
Place_NoRewrap ==
    /\ pc = "evict"
    /\ count = 0 \/ FreeBytes >= Need(arg)
    /\ IF count = 0 THEN StartOver ELSE UNCHANGED <<head_off, tail_off, wrap>>
    /\ pc' = "write"
    /\ UNCHANGED <<capacity, buf, count, next_seq, head_seq, dropped, arg, live, held>>

\* There is room: decide where the record goes.
Place ==
    /\ pc = "evict"
    /\ count = 0 \/ FreeBytes >= Need(arg)
    /\ \/ count = 0 /\ StartOver /\ pc' = "write"
       \/ /\ count > 0
          /\ head_off > tail_off \/ wrap - tail_off >= Need(arg)
          /\ pc' = "write"
          /\ UNCHANGED <<head_off, tail_off, wrap>>
       \/ /\ count > 0
          /\ head_off <= tail_off /\ wrap - tail_off < Need(arg)
          /\ pc' = "rewrap"
          /\ UNCHANGED <<head_off, tail_off, wrap>>
    /\ UNCHANGED <<capacity, buf, count, next_seq, head_seq, dropped, arg, live, held>>

\* Mutant: the loop tests its condition and pops nothing.
RewrapPop_Stuck ==
    /\ pc = "rewrap"
    /\ count > 0 /\ head_off < Need(arg)
    /\ UNCHANGED vars

\* One turn of the second loop: clear the front of the pool.
RewrapPop ==
    /\ pc = "rewrap"
    /\ count > 0 /\ head_off < Need(arg)
    /\ PopOldest

\* The front is clear: the tail moves to offset 0.
RewrapDone ==
    /\ pc = "rewrap"
    /\ \/ count = 0 /\ StartOver
       \/ /\ count > 0 /\ head_off >= Need(arg)
          /\ wrap' = tail_off /\ tail_off' = 0
          /\ UNCHANGED head_off
    /\ pc' = "write"
    /\ UNCHANGED <<capacity, buf, count, next_seq, head_seq, dropped, arg, live, held>>

\* Header and payload are copied in and the record is counted.
Write ==
    LET at == tail_off
        end == at + Need(arg)
    IN  /\ pc = "write"
        /\ buf' = [i \in DOMAIN buf |-> IF i >= at /\ i < end
                                        THEN Cell(next_seq, arg, i - at)
                                        ELSE buf[i]]
        /\ tail_off' = IF end >= wrap THEN 0 ELSE end
        /\ count' = count + 1
        /\ next_seq' = next_seq + 1
        /\ live' = [s \in head_seq..next_seq |->
                        IF s = next_seq THEN [off |-> at, pkt |-> arg] ELSE live[s]]
        /\ pc' = "idle" /\ arg' = NoPacket
        /\ UNCHANGED <<capacity, head_off, wrap, head_seq, dropped, held>>

\* Mutant: a purge restarts the numbering.
Clear_Renumbers ==
    /\ pc = "idle"
    /\ head_off' = 0 /\ tail_off' = 0 /\ wrap' = capacity /\ count' = 0
    /\ next_seq' = 1 /\ head_seq' = 1
    /\ live' = << >>
    /\ UNCHANGED <<capacity, buf, dropped, pc, arg, held>>

\* clear()
Clear ==
    /\ pc = "idle"
    /\ head_off' = 0 /\ tail_off' = 0 /\ wrap' = capacity /\ count' = 0
    /\ head_seq' = next_seq
    /\ live' = << >>
    /\ UNCHANGED <<capacity, buf, next_seq, dropped, pc, arg, held>>

\* The steps an append takes by itself once it has begun.
AppendStep == EvictOldest \/ Place \/ RewrapPop \/ RewrapDone \/ Write

Next ==
    \/ \E p \in Packets : AppendDrop(p) \/ AppendBegin(p)
    \/ AppendStep
    \/ Clear

Spec == Init /\ [][Next]_vars

-----------------------------------------------------------------------------
\* An offset the pool really has; a disabled pool keeps offset 0.
Offsets == {0} \cup 0..(capacity - 1)

\* The type invariant.  Head and tail are offsets of bytes that exist: no
\* comparison with `wrap` lets one of them rest on the end of the pool.
TypeOK ==
    /\ capacity \in {0, Capacity}
    /\ DOMAIN buf = 0..(capacity - 1)
    /\ head_off \in Offsets /\ tail_off \in Offsets /\ wrap \in 0..capacity
    /\ count \in Nat /\ next_seq \in Nat /\ head_seq \in Nat /\ dropped \in Nat
    /\ pc \in {"idle", "evict", "rewrap", "write"}
    /\ arg \in Packets \cup {NoPacket}
    /\ live \in [head_seq..(next_seq - 1) -> [off : Nat, pkt : Packets]]

\* The bytes the record of packet p under number s is made of.
RecordOf(s, p) == [i \in 0..(Need(p) - 1) |-> Cell(s, p, i)]

\* No append, eviction or wrap ever overwrites a byte of a packet that is
\* still retained, not even half way through an append (memcpy and
\* write_header in append() land in free space only).
RecordsIntact ==
    \A s \in DOMAIN live : \A i \in 0..(Need(live[s].pkt) - 1) :
        /\ live[s].off + i \in DOMAIN buf
        /\ buf[live[s].off + i] = Cell(s, live[s].pkt, i)

\* What fetch_since() and get() read by walking the headers is exactly the
\* retained packets: complete, in order, above the cursor and unharmed, for
\* every cursor and every limit, across the wrap.
ReadExact ==
    pc = "idle" =>
        /\ \A since \in 0..next_seq, max \in 0..(count + 1) :
              LET first == IF since >= head_seq THEN since + 1 ELSE head_seq
                  n == IF next_seq < first THEN 0
                       ELSE IF next_seq - first < max THEN next_seq - first ELSE max
              IN  FetchSince(since, max) =
                     [i \in 1..n |-> RecordOf(first + i - 1, live[first + i - 1].pkt)]
        /\ \A s \in 0..next_seq :
              Get(s) = IF s \in DOMAIN live THEN <<RecordOf(s, live[s].pkt)>> ELSE << >>

\* A packet is evicted only when it is in the way: at every pop no hole
\* between retained records, anywhere below the wrap, could have taken the
\* packet being appended.  (The two loops of append() together over-evict
\* nothing.)
Overlaps(s, from, to) ==
    live[s].off < to /\ from < live[s].off + Need(live[s].pkt)

EvictionNecessary ==
    [][EvictOldest \/ RewrapPop =>
         \A o \in 0..wrap : o + Need(arg) <= wrap =>
             \E s \in DOMAIN live : Overlaps(s, o, o + Need(arg))]_vars

\* The ring implements the log: append() is one append of the abstract log
\* however many records it pops on the way, and the byte budget holds.
Log == INSTANCE PacketLog WITH
    log <- IF pc = "idle" THEN [s \in DOMAIN live |-> live[s].pkt] ELSE held.log,
    oldest <- IF pc = "idle" THEN head_seq ELSE held.oldest,
    dropped <- IF pc = "idle" THEN dropped ELSE dropped - (head_seq - held.oldest)

ImplementsLog == Log!LogSpec

\* Every append that begins ends: both eviction loops terminate.
AppendTerminates == (pc # "idle") ~> (pc = "idle")
=============================================================================

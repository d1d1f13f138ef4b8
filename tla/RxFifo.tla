------------------------------- MODULE RxFifo -------------------------------
(***************************************************************************)
(* The byte FIFO between the BLE host task and the board loop (ESP32): a   *)
(* ring with one producer and one consumer, no lock, and indices that run  *)
(* on and wrap.  One action per access to shared memory.                   *)
(*                                                                         *)
(* In buf_[(head_++) & (N - 1)] = b, and in the read that mirrors it, the  *)
(* language leaves open which comes first, the new index or the byte: a    *)
(* build makes that choice once, for the write and for the read.           *)
(*                                                                         *)
(* A byte carries the index it was accepted at as its value, so a byte     *)
(* that is lost, repeated or overwritten shows.                            *)
(***************************************************************************)
EXTENDS Naturals, Sequences

CONSTANTS
    RingSize,      \* N: 512 in the code
    IndexMod       \* values of size_t: a multiple of RingSize

ASSUME RingAssumption ==
    /\ RingSize \in Nat \ {0} /\ IndexMod \in Nat
    /\ IndexMod > RingSize /\ IndexMod % RingSize = 0

VARIABLES
    indexFirst,    \* the accesses of this build that move the index first
    head, tail,    \* head_, tail_
    buf,           \* buf_
    writer,        \* the access the writer still owes for its byte
    reader,        \* the access the reader still owes for its byte
    loaded         \* the byte last loaded, and the index it was read at

fifoVars == <<indexFirst, head, tail, buf, writer, reader, loaded>>

Up(i) == (i + 1) % IndexMod
Down(i) == (i + IndexMod - 1) % IndexMod

\* available()
Used == (head + IndexMod - tail) % IndexMod

\* Mutant: one byte more than the ring holds.
HasRoom_OffByOne == Used <= RingSize

\* What write() checks before each byte; a byte that does not fit, and the
\* rest of its write, are dropped.
HasRoom == Used < RingSize

WriteByte ==
    /\ writer = "idle" /\ HasRoom
    /\ \/ /\ "write" \in indexFirst
          /\ head' = Up(head) /\ writer' = "store" /\ UNCHANGED buf
       \/ /\ "write" \notin indexFirst
          /\ buf' = [buf EXCEPT ![head % RingSize] = head] /\ writer' = "publish"
          /\ UNCHANGED head
    /\ UNCHANGED <<indexFirst, tail, reader, loaded>>

WriteStore ==
    /\ writer = "store" /\ writer' = "idle"
    /\ buf' = [buf EXCEPT ![Down(head) % RingSize] = Down(head)]
    /\ UNCHANGED <<indexFirst, head, tail, reader, loaded>>

WritePublish ==
    /\ writer = "publish" /\ writer' = "idle" /\ head' = Up(head)
    /\ UNCHANGED <<indexFirst, tail, buf, reader, loaded>>

\* Mutant: the reader trusts that there is a byte.
ReadByte_Unchecked ==
    /\ reader = "idle"
    /\ loaded' = [at |-> tail, byte |-> buf[tail % RingSize]] /\ reader' = "release"
    /\ UNCHANGED <<indexFirst, head, tail, buf, writer>>

\* read()
ReadByte ==
    /\ reader = "idle" /\ head # tail
    /\ \/ /\ "read" \in indexFirst
          /\ tail' = Up(tail) /\ reader' = "load" /\ UNCHANGED loaded
       \/ /\ "read" \notin indexFirst
          /\ loaded' = [at |-> tail, byte |-> buf[tail % RingSize]]
          /\ reader' = "release" /\ UNCHANGED tail
    /\ UNCHANGED <<indexFirst, head, buf, writer>>

ReadLoad ==
    /\ reader = "load" /\ reader' = "idle"
    /\ loaded' = [at |-> Down(tail), byte |-> buf[Down(tail) % RingSize]]
    /\ UNCHANGED <<indexFirst, head, tail, buf, writer>>

ReadRelease ==
    /\ reader = "release" /\ reader' = "idle" /\ tail' = Up(tail)
    /\ UNCHANGED <<indexFirst, head, buf, writer, loaded>>

\* clear(), when the board loop releases the slot
ClearFifo ==
    /\ reader = "idle" /\ tail' = head
    /\ UNCHANGED <<indexFirst, head, buf, writer, reader, loaded>>

FifoInit ==
    /\ indexFirst \in SUBSET {"write", "read"}
    /\ head = 0 /\ tail = 0
    /\ buf = [i \in 0..(RingSize - 1) |-> i + IndexMod - RingSize]
    /\ writer = "idle" /\ reader = "idle" /\ loaded = [at |-> 0, byte |-> 0]

FifoNext ==
    \/ WriteByte \/ WriteStore \/ WritePublish
    \/ ReadByte \/ ReadLoad \/ ReadRelease \/ ClearFifo

FifoSpec == FifoInit /\ [][FifoNext]_fifoVars

-----------------------------------------------------------------------------
\* A build that stores the byte before it moves the index, and loads it
\* before, reads exactly what was written: nothing is overwritten while
\* queued, repeated, or read before it was stored.  In any other build the
\* reader gets the byte of the index it reads or the one a full turn away,
\* which shares its cell: a byte is damaged and none is lost or repeated, so
\* what is cut is the frame it is in ("a CRC catches anything that still
\* decodes").
DamageIsLocal ==
    IF indexFirst = {} THEN loaded.byte = loaded.at
    ELSE loaded.byte \in {loaded.at, (loaded.at + RingSize) % IndexMod,
                          (loaded.at + IndexMod - RingSize) % IndexMod}

Queue == INSTANCE ByteQueue WITH
    Values <- 0..(IndexMod - 1), Capacity <- RingSize,
    queue <- [i \in 1..Used |-> (tail + i - 1) % IndexMod]

\* The places between the indices are a bounded queue, also while they wrap:
\* one enters when the head moves and leaves when the tail moves, clearing
\* empties it, and full is never taken for empty.
ImplementsQueue == Queue!QSpec
=============================================================================

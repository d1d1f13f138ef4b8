---------------------------- MODULE RxFifoProofs ----------------------------
(* The ring of bytes between the BLE host task and the board loop, for     *)
(* every size of the ring and every width of its indices.                  *)
EXTENDS RxFifo, TLAPS

USE RingAssumption

Indices == 0..(IndexMod - 1)

Cell(i) == i % RingSize

\* The index k places before i.
Back(i, k) == IF k <= i THEN i - k ELSE i + IndexMod - k

-----------------------------------------------------------------------------
(* Arithmetic of the indices *)

LEMMA ModSmall ==
    ASSUME NEW m \in Nat \ {0}, NEW a \in Nat, a < m
    PROVE  a % m = a
BY Z3

LEMMA ModOnce ==
    ASSUME NEW m \in Nat \ {0}, NEW a \in Nat, m <= a, a < 2 * m
    PROVE  a % m = a - m
BY Z3

LEMMA ModRange ==
    ASSUME NEW m \in Nat \ {0}, NEW a \in Nat
    PROVE  a % m \in 0..(m - 1)
BY Z3

LEMMA ModUnique ==
    ASSUME NEW m \in Nat \ {0}, NEW q \in Nat, NEW r \in 0..(m - 1)
    PROVE  (q * m + r) % m = r
BY Z3

LEMMA ModQuotient ==
    ASSUME NEW m \in Nat \ {0}, NEW a \in Nat
    PROVE  \E q \in Nat : a = q * m + (a % m)
<1>1. a = (a \div m) * m + (a % m) /\ a \div m \in Nat
  BY Z3
<1> QED
  BY <1>1

\* Two numbers in one cell are a multiple of the ring apart.
LEMMA SameCell ==
    ASSUME NEW a \in Nat, NEW k \in Nat, k < RingSize, Cell(a + k) = Cell(a)
    PROVE  k = 0
<1>1. PICK p \in Nat : a = p * RingSize + Cell(a)
  BY ModQuotient DEF Cell
<1>2. PICK q \in Nat : a + k = q * RingSize + Cell(a)
  <2>1. \E q \in Nat : a + k = q * RingSize + ((a + k) % RingSize)
    BY ModQuotient, a + k \in Nat
  <2> QED
    BY <2>1 DEF Cell
<1>3. k = (q - p) * RingSize
  BY <1>1, <1>2, ModRange DEF Cell
<1> QED
  BY <1>3

LEMMA CellPlus ==
    ASSUME NEW a \in Nat, NEW n \in Nat
    PROVE  Cell(a + n * RingSize) = Cell(a)
<1>1. PICK p \in Nat : a = p * RingSize + Cell(a)
  BY ModQuotient DEF Cell
<1>2. a + n * RingSize = (p + n) * RingSize + Cell(a) /\ p + n \in Nat
  BY <1>1, ModRange DEF Cell
<1>3. Cell(a) \in 0..(RingSize - 1)
  BY ModRange DEF Cell
<1> QED
  BY <1>2, <1>3, ModUnique DEF Cell

LEMMA TurnsOfTheIndex ==
    \E q \in Nat : q >= 2 /\ IndexMod = q * RingSize
<1>1. PICK q \in Nat : IndexMod = q * RingSize
  <2>1. \E q \in Nat : IndexMod = q * RingSize + (IndexMod % RingSize)
    BY ModQuotient
  <2>2. IndexMod % RingSize = 0
    OBVIOUS
  <2>3. PICK q \in Nat : IndexMod = q * RingSize + 0
    BY <2>1, <2>2
  <2>4. q * RingSize \in Nat
    OBVIOUS
  <2> QED
    BY <2>3, <2>4
<1>2. q >= 2
  BY <1>1
<1> QED
  BY <1>1, <1>2

\* Twice around is at most once over the indices.
LEMMA TwoTurns == 2 * RingSize <= IndexMod
BY TurnsOfTheIndex

-----------------------------------------------------------------------------
(* The indices as distances from the head *)

LEMMA WrapOnce ==
    ASSUME NEW a \in Nat, a < 2 * IndexMod
    PROVE  a % IndexMod = IF a < IndexMod THEN a ELSE a - IndexMod
<1>1. CASE a < IndexMod
  BY <1>1, ModSmall
<1>2. CASE ~(a < IndexMod)
  BY <1>2, Z3
<1> QED
  BY <1>1, <1>2, Zenon

LEMMA Steps ==
    ASSUME NEW i \in Indices
    PROVE  /\ Up(i) = IF i = IndexMod - 1 THEN 0 ELSE i + 1
           /\ Down(i) = IF i = 0 THEN IndexMod - 1 ELSE i - 1
<1>1. Up(i) = IF i + 1 < IndexMod THEN i + 1 ELSE (i + 1) - IndexMod
  <2>1. i + 1 \in Nat /\ i + 1 < 2 * IndexMod
    BY DEF Indices
  <2> QED
    BY <2>1, WrapOnce, Zenon DEF Up
<1>2. Down(i) = IF i + IndexMod - 1 < IndexMod
                THEN i + IndexMod - 1 ELSE (i + (IndexMod - 1)) - IndexMod
  <2>1. i + IndexMod - 1 \in Nat /\ i + IndexMod - 1 < 2 * IndexMod
    BY DEF Indices
  <2> QED
    BY <2>1, WrapOnce, Zenon DEF Down
<1>3. Up(i) = IF i = IndexMod - 1 THEN 0 ELSE i + 1
  BY <1>1 DEF Indices
<1>4. Down(i) = IF i = 0 THEN IndexMod - 1 ELSE i - 1
  BY <1>2 DEF Indices
<1> QED
  BY <1>3, <1>4

\* A turn on is the place a turn before it, a turn back the place after it.
LEMMA Turns ==
    ASSUME NEW i \in Indices, NEW j \in Indices
    PROVE  /\ Back(i, RingSize) = j => (j + RingSize) % IndexMod = i
           /\ Back(j, RingSize) = i => (j + IndexMod - RingSize) % IndexMod = i
<1>1. ASSUME Back(i, RingSize) = j PROVE (j + RingSize) % IndexMod = i
  <2>1. j + RingSize \in Nat /\ j + RingSize < 2 * IndexMod
    BY DEF Indices
  <2>2. (j + RingSize) % IndexMod
          = IF j + RingSize < IndexMod THEN j + RingSize ELSE (j + RingSize) - IndexMod
    BY <2>1, WrapOnce, Zenon
  <2>3. i = IF j + RingSize < IndexMod THEN j + RingSize ELSE (j + RingSize) - IndexMod
    BY <1>1 DEF Back, Indices
  <2> QED
    BY <2>2, <2>3, Zenon
<1>2. ASSUME Back(j, RingSize) = i PROVE (j + IndexMod - RingSize) % IndexMod = i
  <2>1. j + IndexMod - RingSize \in Nat /\ j + IndexMod - RingSize < 2 * IndexMod
    BY DEF Indices
  <2>2. (j + IndexMod - RingSize) % IndexMod
          = IF j + IndexMod - RingSize < IndexMod
            THEN j + IndexMod - RingSize ELSE (j + (IndexMod - RingSize)) - IndexMod
    BY <2>1, WrapOnce, Zenon
  <2>3. i = IF j + IndexMod - RingSize < IndexMod
            THEN j + IndexMod - RingSize ELSE (j + (IndexMod - RingSize)) - IndexMod
    BY <1>2 DEF Back, Indices
  <2> QED
    BY <2>2, <2>3, Zenon
<1> QED
  BY <1>1, <1>2

LEMMA UsedIs ==
    ASSUME head \in Indices, tail \in Indices
    PROVE  /\ Used = IF tail <= head THEN head - tail ELSE head + IndexMod - tail
           /\ Used \in Indices
<1>1. head + IndexMod - tail \in Nat /\ head + IndexMod - tail < 2 * IndexMod
  BY DEF Indices
<1>2. Used = IF head + IndexMod - tail < IndexMod
             THEN head + IndexMod - tail ELSE (head + (IndexMod - tail)) - IndexMod
  BY <1>1, WrapOnce, Zenon DEF Used
<1> QED
  BY <1>2 DEF Indices

\* The head and the places before it, as far as the ring reaches, each have
\* a cell of their own.
LEMMA OwnCell ==
    ASSUME NEW i \in Indices, NEW k \in 1..(RingSize - 1)
    PROVE  Cell(Back(i, k)) # Cell(i)
<1>1. CASE k <= i
  <2>1. i - k \in Nat /\ (i - k) + k = i
    BY <1>1 DEF Indices
  <2> QED
    BY <1>1, <2>1, SameCell DEF Back
<1>2. CASE ~(k <= i)
  <2>1. PICK q \in Nat : q >= 2 /\ IndexMod = q * RingSize
    BY TurnsOfTheIndex
  <2>2. Cell(i + q * RingSize) = Cell(i)
    BY CellPlus DEF Indices
  <2>3. i + IndexMod - k \in Nat /\ (i + IndexMod - k) + k = i + q * RingSize
    BY <2>1, TwoTurns DEF Indices
  <2>4. Cell(i + IndexMod - k) # Cell(i)
    BY <2>2, <2>3, SameCell
  <2> QED
    BY <1>2, <2>4 DEF Back
<1> QED
  BY <1>1, <1>2

\* A full turn back is the same cell.
LEMMA FullTurn ==
    ASSUME NEW i \in Indices
    PROVE  Cell(Back(i, RingSize)) = Cell(i)
<1>1. CASE RingSize <= i
  <2>1. i - RingSize \in Nat /\ (i - RingSize) + 1 * RingSize = i
    BY <1>1 DEF Indices
  <2>2. Cell((i - RingSize) + 1 * RingSize) = Cell(i - RingSize)
    BY <2>1, CellPlus
  <2> QED
    BY <1>1, <2>1, <2>2 DEF Back
<1>2. CASE ~(RingSize <= i)
  <2>1. PICK q \in Nat : q >= 2 /\ IndexMod = q * RingSize
    BY TurnsOfTheIndex
  <2>2. i + IndexMod - RingSize = i + (q - 1) * RingSize /\ q - 1 \in Nat
    BY <2>1
  <2>3. \A n \in Nat : Cell(i + n * RingSize) = Cell(i)
    BY CellPlus DEF Indices
  <2>4. Cell(i + (q - 1) * RingSize) = Cell(i)
    BY <2>2, <2>3
  <2> QED
    BY <1>2, <2>2, <2>4 DEF Back
<1> QED
  BY <1>1, <1>2

-----------------------------------------------------------------------------
(* The invariant *)

FifoTypes ==
    /\ indexFirst \subseteq {"write", "read"}
    /\ head \in Indices /\ tail \in Indices
    /\ buf \in [0..(RingSize - 1) -> Indices]
    /\ writer \in {"idle", "store", "publish"}
    /\ reader \in {"idle", "load", "release"}
    /\ loaded \in [at : Indices, byte : Indices]

\* What each of the two tasks still owes: the free place of a byte that is
\* stored and not published, the queued byte of a place not yet released.
Owed ==
    /\ Used <= RingSize
    /\ writer = "store" => "write" \in indexFirst
    /\ writer = "publish" => "write" \notin indexFirst /\ Used < RingSize
    /\ reader = "load" => "read" \in indexFirst
    /\ reader = "release" => "read" \notin indexFirst /\ Used >= 1

\* The byte in the cell of the place k before the head.
Held(k) ==
    IF writer = "store" /\ k = 1 THEN Back(head, RingSize + 1)
    ELSE IF writer = "publish" /\ k = RingSize THEN head
    ELSE Back(head, k)

\* The ring holds the bytes of the last turn; the byte being written is a
\* turn late while its place is already claimed, or early while it is not.
CellsHold == \A k \in 1..RingSize : buf[Cell(Back(head, k))] = Held(k)

FifoInv == FifoTypes /\ Owed /\ CellsHold

LEMMA BackIs ==
    ASSUME NEW i \in Indices, NEW k \in 0..(RingSize + 1)
    PROVE  Back(i, k) \in Indices /\ Cell(Back(i, k)) \in 0..(RingSize - 1)
<1>1. Back(i, k) \in Indices
  BY TwoTurns DEF Back, Indices
<1>2. Back(i, k) \in Nat
  BY <1>1 DEF Indices
<1> QED
  BY <1>1, <1>2, ModRange, Zenon DEF Cell

LEMMA BackSteps ==
    ASSUME NEW i \in Indices
    PROVE  /\ Up(i) \in Indices /\ Down(i) \in Indices
           /\ Back(i, 1) = Down(i) /\ Back(Up(i), 1) = i
           /\ \A k \in 1..RingSize : Back(Up(i), k + 1) = Back(i, k)
           /\ \A k \in 0..RingSize : Back(Down(i), k) = Back(i, k + 1)
<1> USE TwoTurns
<1>1. Up(i) = (IF i = IndexMod - 1 THEN 0 ELSE i + 1)
      /\ Down(i) = (IF i = 0 THEN IndexMod - 1 ELSE i - 1)
  BY Steps
<1>2. Up(i) \in Indices /\ Down(i) \in Indices /\ Back(i, 1) = Down(i) /\ Back(Up(i), 1) = i
  BY <1>1 DEF Back, Indices
<1>3. ASSUME NEW k \in 1..RingSize PROVE Back(Up(i), k + 1) = Back(i, k)
  BY <1>1 DEF Back, Indices
<1>4. ASSUME NEW k \in 0..RingSize PROVE Back(Down(i), k) = Back(i, k + 1)
  BY <1>1 DEF Back, Indices
<1> QED
  BY <1>2, <1>3, <1>4

\* The tail is as many places behind the head as bytes are queued.
LEMMA UsedBack ==
    ASSUME FifoTypes
    PROVE  /\ Used \in Nat /\ (Used = 0 <=> head = tail)
           /\ Used <= RingSize => tail = Back(head, Used)
<1> DEFINE U == Used
<1>1. head \in Indices /\ tail \in Indices
  BY DEF FifoTypes
<1>2. U = (IF tail <= head THEN head - tail ELSE head + IndexMod - tail)
  BY <1>1, UsedIs
<1> HIDE DEF U
<1>3. U \in Nat /\ (U = 0 <=> head = tail)
  BY <1>1, <1>2 DEF Indices
<1>4. U <= RingSize => tail = Back(head, U)
  BY <1>1, <1>2 DEF Indices, Back
<1> QED
  BY <1>3, <1>4 DEF U

\* One place further back.
LEMMA BackBack ==
    ASSUME NEW i \in Indices, NEW k \in 0..RingSize
    PROVE  Down(Back(i, k)) = Back(i, k + 1)
<1>1. Back(i, k) \in Indices
  BY BackIs
<1>2. Down(Back(i, k)) = (IF Back(i, k) = 0 THEN IndexMod - 1 ELSE Back(i, k) - 1)
  BY <1>1, Steps
<1> QED
  BY <1>2, TwoTurns DEF Back, Indices

\* Moving an index moves the count by one, as long as it is in bounds.
LEMMA UsedSteps ==
    ASSUME FifoTypes, FifoTypes'
    PROVE  /\ Used \in Nat /\ (Used = 0 <=> head = tail)
           /\ head' = Up(head) /\ tail' = tail /\ Used < RingSize => Used' = Used + 1
           /\ head' = head /\ tail' = Up(tail) /\ Used > 0 => Used' = Used - 1
           /\ head' = head /\ tail' = head => Used' = 0
<1> USE TwoTurns
<1> DEFINE U == Used
           V == Used'
<1>1. head \in Indices /\ tail \in Indices /\ head' \in Indices /\ tail' \in Indices
  BY DEF FifoTypes
<1>2. U = (IF tail <= head THEN head - tail ELSE head + IndexMod - tail)
  BY <1>1, UsedIs
<1>3. V = (IF tail' <= head' THEN head' - tail' ELSE head' + IndexMod - tail')
  <2>1. \A h, t \in Indices :
          (h + IndexMod - t) % IndexMod = IF t <= h THEN h - t ELSE h + IndexMod - t
    <3> SUFFICES ASSUME NEW h \in Indices, NEW t \in Indices
                 PROVE  (h + IndexMod - t) % IndexMod = IF t <= h THEN h - t ELSE h + IndexMod - t
      OBVIOUS
    <3> DEFINE m == (h + IndexMod - t) % IndexMod
    <3>1. h + IndexMod - t \in Nat /\ h + IndexMod - t < 2 * IndexMod
      BY DEF Indices
    <3>2. m = IF h + IndexMod - t < IndexMod
              THEN h + IndexMod - t ELSE (h + (IndexMod - t)) - IndexMod
      BY <3>1, WrapOnce, Zenon
    <3> HIDE DEF m
    <3>3. m = IF t <= h THEN h - t ELSE h + IndexMod - t
      BY <3>2 DEF Indices
    <3> QED
      BY <3>3 DEF m
  <2> QED
    BY <1>1, <2>1, Zenon DEF Used
<1> HIDE DEF U, V
<1>4. Up(head) = (IF head = IndexMod - 1 THEN 0 ELSE head + 1)
      /\ Up(tail) = (IF tail = IndexMod - 1 THEN 0 ELSE tail + 1)
  BY <1>1, Steps
<1>5. U \in Nat /\ (U = 0 <=> head = tail)
  BY <1>1, <1>2 DEF Indices
<1>6. head' = Up(head) /\ tail' = tail /\ U < RingSize => V = U + 1
  BY <1>1, <1>2, <1>3, <1>4 DEF Indices
<1>7. head' = head /\ tail' = Up(tail) /\ U > 0 => V = U - 1
  BY <1>1, <1>2, <1>3, <1>4 DEF Indices
<1>8. head' = head /\ tail' = head => V = 0
  BY <1>1, <1>2, <1>3 DEF Indices
<1> QED
  BY <1>5, <1>6, <1>7, <1>8 DEF U, V

LEMMA TypesKept ==
    ASSUME FifoTypes, [FifoNext]_fifoVars
    PROVE  FifoTypes'
<1> USE DEF FifoTypes
<1>0. /\ Up(head) \in Indices /\ Up(tail) \in Indices
      /\ Down(head) \in Indices /\ Down(tail) \in Indices
  BY BackSteps
<1>1. \A i \in Indices : i % RingSize \in 0..(RingSize - 1)
  <2>1. \A i \in Indices : i \in Nat
    BY DEF Indices
  <2> QED
    BY <2>1, ModRange, Zenon
<1> HIDE DEF Indices
<1>2. CASE WriteByte
  BY <1>0, <1>1, <1>2 DEF WriteByte
<1>3. CASE WriteStore
  BY <1>0, <1>1, <1>3 DEF WriteStore
<1>4. CASE WritePublish
  BY <1>0, <1>4 DEF WritePublish
<1>5. CASE ReadByte
  <2>1. buf[tail % RingSize] \in Indices
    BY <1>1
  <2>2. [at |-> tail, byte |-> buf[tail % RingSize]] \in [at : Indices, byte : Indices]
    BY <2>1
  <2> DEFINE l == [at |-> tail, byte |-> buf[tail % RingSize]]
  <2> HIDE DEF l
  <2>3. \/ tail' = Up(tail) /\ reader' = "load" /\ loaded' = loaded
        \/ tail' = tail /\ reader' = "release" /\ loaded' = l
    BY <1>5 DEF ReadByte, l
  <2>4. l \in [at : Indices, byte : Indices]
    BY <2>2 DEF l
  <2>5. UNCHANGED <<indexFirst, head, buf, writer>>
    BY <1>5 DEF ReadByte
  <2> QED
    BY <1>0, <2>3, <2>4, <2>5
<1>6. CASE ReadLoad
  BY <1>0, <1>1, <1>6 DEF ReadLoad
<1>7. CASE ReadRelease
  BY <1>0, <1>7 DEF ReadRelease
<1>8. CASE ClearFifo
  BY <1>8 DEF ClearFifo
<1>9. CASE UNCHANGED fifoVars
  BY <1>9 DEF fifoVars
<1> QED
  BY <1>2, <1>3, <1>4, <1>5, <1>6, <1>7, <1>8, <1>9 DEF FifoNext

LEMMA OwedKept ==
    ASSUME FifoTypes, Owed, [FifoNext]_fifoVars
    PROVE  Owed'
<1>1. FifoTypes'
  BY TypesKept
<1>2. /\ Used \in Nat /\ (Used = 0 <=> head = tail)
      /\ head' = Up(head) /\ tail' = tail /\ Used < RingSize => Used' = Used + 1
      /\ head' = head /\ tail' = Up(tail) /\ Used > 0 => Used' = Used - 1
      /\ head' = head /\ tail' = head => Used' = 0
  BY <1>1, UsedSteps
<1>3. head' = head /\ tail' = tail => Used' = Used
  BY Zenon DEF Used
<1> USE DEF Owed
<1>4. CASE WriteByte
  BY <1>2, <1>3, <1>4 DEF WriteByte, HasRoom
<1>5. CASE WriteStore
  BY <1>2, <1>3, <1>5 DEF WriteStore
<1>6. CASE WritePublish
  BY <1>2, <1>3, <1>6 DEF WritePublish
<1>7. CASE ReadByte
  BY <1>2, <1>3, <1>7 DEF ReadByte
<1>8. CASE ReadLoad
  BY <1>2, <1>3, <1>8 DEF ReadLoad
<1>9. CASE ReadRelease
  BY <1>2, <1>3, <1>9 DEF ReadRelease
<1>10. CASE ClearFifo
  BY <1>2, <1>3, <1>10 DEF ClearFifo
<1>11. CASE UNCHANGED fifoVars
  BY <1>2, <1>3, <1>11 DEF fifoVars
<1> QED
  BY <1>4, <1>5, <1>6, <1>7, <1>8, <1>9, <1>10, <1>11 DEF FifoNext

\* Every write of a cell keeps what the ring holds, in either order of its
\* two accesses.
LEMMA CellsKept ==
    ASSUME FifoInv, [FifoNext]_fifoVars
    PROVE  CellsHold'
<1> USE DEF FifoInv, FifoTypes, CellsHold
<1>1. \A k \in 1..RingSize : buf[Cell(Back(head, k))] = Held(k)
  OBVIOUS
<1>2. CASE UNCHANGED <<head, buf, writer>>
  BY <1>1, <1>2 DEF Held, Back
<1>3. CASE WriteByte /\ "write" \in indexFirst
  <2>1. head' = Up(head) /\ writer' = "store" /\ buf' = buf /\ writer = "idle"
    BY <1>3 DEF WriteByte
  <2> SUFFICES ASSUME NEW k \in 1..RingSize
               PROVE  buf[Cell(Back(Up(head), k))]
                        = IF k = 1 THEN Back(Up(head), RingSize + 1) ELSE Back(Up(head), k)
    BY <2>1 DEF Held, Back
  <2>2. CASE k = 1
    <3>1. Back(Up(head), 1) = head /\ Back(Up(head), RingSize + 1) = Back(head, RingSize)
      BY BackSteps
    <3>2. buf[Cell(Back(head, RingSize))] = Back(head, RingSize)
      BY <1>1, <2>1 DEF Held
    <3> QED
      BY <2>2, <3>1, <3>2, FullTurn
  <2>3. CASE k # 1
    <3>1. k - 1 \in 1..RingSize /\ (k - 1) + 1 = k
      BY <2>3
    <3>2. Back(Up(head), k) = Back(head, k - 1)
      BY <3>1, BackSteps
    <3>3. buf[Cell(Back(head, k - 1))] = Back(head, k - 1)
      BY <1>1, <2>1, <3>1 DEF Held
    <3> QED
      BY <2>3, <3>2, <3>3
  <2> QED
    BY <2>2, <2>3
<1>4. CASE WriteByte /\ "write" \notin indexFirst
  <2>1. /\ head' = head /\ writer' = "publish" /\ writer = "idle"
        /\ buf' = [buf EXCEPT ![Cell(head)] = head]
    BY <1>4 DEF WriteByte, Cell
  <2> SUFFICES ASSUME NEW k \in 1..RingSize
               PROVE  buf'[Cell(Back(head, k))] = IF k = RingSize THEN head ELSE Back(head, k)
    BY <2>1 DEF Held, Back
  <2>2. Cell(Back(head, k)) \in 0..(RingSize - 1)
    BY BackIs, k \in 0..(RingSize + 1)
  <2>3. CASE k = RingSize
    BY <2>1, <2>2, <2>3, FullTurn
  <2>4. CASE k # RingSize
    <3>1. Cell(Back(head, k)) # Cell(head)
      BY <2>4, OwnCell
    <3>2. buf[Cell(Back(head, k))] = Back(head, k)
      BY <1>1, <2>1 DEF Held
    <3> QED
      BY <2>1, <2>2, <2>4, <3>1, <3>2
  <2> QED
    BY <2>3, <2>4
<1>5. CASE WriteStore
  <2>1. /\ head' = head /\ writer' = "idle" /\ writer = "store"
        /\ buf' = [buf EXCEPT ![Cell(Down(head))] = Down(head)]
    BY <1>5 DEF WriteStore, Cell
  <2> SUFFICES ASSUME NEW k \in 1..RingSize
               PROVE  buf'[Cell(Back(head, k))] = Back(head, k)
    BY <2>1 DEF Held, Back
  <2>2. Cell(Back(head, k)) \in 0..(RingSize - 1)
    BY BackIs, k \in 0..(RingSize + 1)
  <2>3. Back(head, 1) = Down(head) /\ Down(head) \in Indices
    BY BackSteps
  <2>4. CASE k = 1
    BY <2>1, <2>2, <2>3, <2>4
  <2>5. CASE k # 1
    <3>1. k - 1 \in 1..(RingSize - 1) /\ (k - 1) + 1 = k
      BY <2>5
    <3>2. Back(head, k) = Back(Down(head), k - 1)
      BY <3>1, BackSteps
    <3>3. Cell(Back(head, k)) # Cell(Down(head))
      BY <2>3, <3>1, <3>2, OwnCell
    <3>4. buf[Cell(Back(head, k))] = Back(head, k)
      BY <1>1, <2>1, <2>5 DEF Held
    <3> QED
      BY <2>1, <2>2, <3>3, <3>4
  <2> QED
    BY <2>4, <2>5
<1>6. CASE WritePublish
  <2>1. head' = Up(head) /\ writer' = "idle" /\ buf' = buf /\ writer = "publish"
    BY <1>6 DEF WritePublish
  <2> SUFFICES ASSUME NEW k \in 1..RingSize
               PROVE  buf[Cell(Back(Up(head), k))] = Back(Up(head), k)
    BY <2>1 DEF Held, Back
  <2>2. CASE k = 1
    <3>1. Back(Up(head), 1) = head
      BY BackSteps
    <3>2. buf[Cell(Back(head, RingSize))] = head
      BY <1>1, <2>1 DEF Held
    <3> QED
      BY <2>2, <3>1, <3>2, FullTurn
  <2>3. CASE k # 1
    <3>1. k - 1 \in 1..RingSize /\ (k - 1) + 1 = k /\ k - 1 # RingSize
      BY <2>3
    <3>2. Back(Up(head), k) = Back(head, k - 1)
      BY <3>1, BackSteps
    <3>3. buf[Cell(Back(head, k - 1))] = Back(head, k - 1)
      BY <1>1, <2>1, <3>1 DEF Held
    <3> QED
      BY <3>2, <3>3
  <2> QED
    BY <2>2, <2>3
<1> QED
  BY <1>2, <1>3, <1>4, <1>5, <1>6
  DEF FifoNext, ReadByte, ReadLoad, ReadRelease, ClearFifo, fifoVars

\* A byte read at the place d before the head: its own, or the one a turn
\* away which a write in progress has put there too early or too late.
LEMMA ByteRead ==
    ASSUME FifoInv, NEW d \in 1..(RingSize + 1),
           d = RingSize + 1 => Used = RingSize
    PROVE  LET i == Back(head, d) IN
           /\ buf[Cell(i)] \in {i, (i + RingSize) % IndexMod,
                                (i + IndexMod - RingSize) % IndexMod}
           /\ writer # "store" /\ d <= Used => buf[Cell(i)] = i
<1> USE TwoTurns
<1> DEFINE i == Back(head, d)
           up == (i + RingSize) % IndexMod
           down == (i + IndexMod - RingSize) % IndexMod
<1>0. FifoTypes /\ Owed /\ CellsHold
  BY DEF FifoInv
<1>1. head \in Indices /\ i \in Indices
  BY <1>0, BackIs DEF FifoTypes
<1>2. \A j \in Indices : /\ Back(j, RingSize) = i => up = j
                         /\ Back(i, RingSize) = j => down = j
  BY <1>1, Turns
<1> HIDE DEF up, down
<1>3. Used \in Nat
  BY <1>0, <1>1, UsedIs DEF FifoTypes, Indices
<1>4. CASE d <= RingSize
  <2>1. buf[Cell(i)] = Held(d)
    BY <1>0, <1>4 DEF CellsHold
  <2>2. writer = "store" /\ d = 1 => Held(d) = down
    <3>1. ASSUME d = 1 PROVE Back(i, RingSize) = Back(head, RingSize + 1)
                             /\ Back(head, RingSize + 1) \in Indices
      BY <1>1, <3>1 DEF Back, Indices
    <3> QED
      BY <1>2, <3>1 DEF Held
  <2>3. writer = "publish" /\ d = RingSize => Held(d) = up /\ ~(d <= Used)
    <3>1. writer = "publish" => Used < RingSize
      BY <1>0 DEF Owed
    <3>2. ASSUME d = RingSize PROVE head = up
      BY <1>1, <1>2, <3>2
    <3> QED
      BY <1>3, <3>1, <3>2 DEF Held
  <2>4. ~(writer = "store" /\ d = 1) /\ ~(writer = "publish" /\ d = RingSize) => Held(d) = i
    BY DEF Held
  <2> HIDE DEF i
  <2> QED
    BY <2>1, <2>2, <2>3, <2>4 DEF i, up, down
<1>5. CASE d = RingSize + 1
  <2>1. Used = RingSize /\ writer # "publish"
    BY <1>0, <1>3, <1>5 DEF Owed
  <2>2. Back(head, 1) \in Indices /\ Back(Back(head, 1), RingSize) = i
    BY <1>1, <1>5, BackIs DEF Back, Indices
  <2>3. Cell(i) = Cell(Back(head, 1))
    BY <2>2, FullTurn
  <2>4. buf[Cell(i)] = Held(1)
    BY <1>0, <2>3 DEF CellsHold
  <2>5. writer = "store" => Held(1) = i
    BY <1>5 DEF Held
  <2>6. Back(head, 1) = up
    BY <1>2, <2>2
  <2>7. writer # "store" => Held(1) = up
    BY <2>1, <2>6 DEF Held
  <2>8. ~(d <= Used)
    BY <1>5, <2>1
  <2> QED
    BY <2>4, <2>5, <2>7, <2>8 DEF up, down
<1> QED
  BY <1>4, <1>5

LEMMA DamageKept ==
    ASSUME FifoInv, DamageIsLocal, [FifoNext]_fifoVars
    PROVE  DamageIsLocal'
<1>0. FifoTypes /\ Owed /\ CellsHold
  BY DEF FifoInv
<1> DEFINE Near(i) == {i, (i + RingSize) % IndexMod, (i + IndexMod - RingSize) % IndexMod}
<1>1. CASE UNCHANGED <<indexFirst, loaded>>
  BY <1>1 DEF DamageIsLocal
<1>2. CASE ReadByte /\ ~UNCHANGED loaded
  <2>1. /\ indexFirst' = indexFirst /\ head # tail
        /\ loaded'.at = tail /\ loaded'.byte = buf[Cell(tail)]
    BY <1>2 DEF ReadByte, Cell
  <2>2. Used \in 1..RingSize /\ tail = Back(head, Used)
    <3>1. /\ Used \in Nat /\ (Used = 0 <=> head = tail)
          /\ Used <= RingSize => tail = Back(head, Used)
      BY <1>0, UsedBack
    <3> QED
      BY <1>0, <2>1, <3>1 DEF Owed
  <2>3. /\ buf[Cell(tail)] \in Near(tail)
        /\ writer # "store" /\ Used <= Used => buf[Cell(tail)] = tail
    BY <2>2, ByteRead
  <2>4. indexFirst = {} => writer # "store"
    BY <1>0 DEF Owed
  <2> QED
    BY <2>1, <2>2, <2>3, <2>4 DEF DamageIsLocal
<1>3. CASE ReadLoad
  <2>1. /\ indexFirst' = indexFirst /\ indexFirst # {}
        /\ loaded'.at = Down(tail) /\ loaded'.byte = buf[Cell(Down(tail))]
    BY <1>0, <1>3 DEF ReadLoad, Cell, Owed
  <2>2. Used \in 0..RingSize /\ tail = Back(head, Used)
    BY <1>0, UsedBack DEF Owed
  <2>3. Down(tail) = Back(head, Used + 1)
    BY <1>0, <2>2, BackBack DEF FifoTypes
  <2>4. buf[Cell(Down(tail))] \in Near(Down(tail))
    BY <2>2, <2>3, ByteRead
  <2> QED
    BY <2>1, <2>4 DEF DamageIsLocal
<1> QED
  BY <1>1, <1>2, <1>3
  DEF FifoNext, WriteByte, WriteStore, WritePublish, ReadByte, ReadRelease, ClearFifo, fifoVars

LEMMA FifoInitially ==
    ASSUME FifoInit
    PROVE  FifoInv /\ DamageIsLocal
<1> USE TwoTurns DEF FifoInit
<1>1. 0 \in Indices /\ head \in Indices /\ tail \in Indices
  BY DEF Indices
<1>2. Used = 0
  BY <1>1, UsedIs
<1>3. FifoTypes
  <2>1. \A i \in 0..(RingSize - 1) : i + IndexMod - RingSize \in Indices
    BY DEF Indices
  <2>2. buf \in [0..(RingSize - 1) -> Indices]
    BY <2>1
  <2>3. loaded \in [at : Indices, byte : Indices]
    BY <1>1
  <2> QED
    BY <1>1, <2>2, <2>3 DEF FifoTypes
<1>4. Owed
  BY <1>2 DEF Owed
<1>5. CellsHold
  <2> SUFFICES ASSUME NEW k \in 1..RingSize PROVE buf[Cell(Back(head, k))] = Back(head, k)
    BY DEF CellsHold, Held
  <2> HIDE DEF FifoInit
  <2>0. head = 0 /\ \A i \in 0..(RingSize - 1) : buf[i] = i + IndexMod - RingSize
    BY DEF FifoInit
  <2>1. Back(head, k) = IndexMod - k /\ IndexMod - k \in Nat
    BY <2>0 DEF Back
  <2>2. CASE k = RingSize
    <3>1. Cell(Back(head, k)) = Cell(head)
      BY <1>1, <2>2, FullTurn
    <3>2. Cell(head) = 0
      BY <2>0, ModSmall DEF Cell
    <3> QED
      BY <2>0, <2>1, <2>2, <3>1, <3>2
  <2>3. CASE k # RingSize
    <3>1. PICK q \in Nat : q >= 2 /\ IndexMod = q * RingSize
      BY TurnsOfTheIndex
    <3>2. IndexMod - k = (q - 1) * RingSize + (RingSize - k)
          /\ q - 1 \in Nat /\ RingSize - k \in 0..(RingSize - 1)
      BY <2>3, <3>1
    <3>3. \A n \in Nat : \A r \in 0..(RingSize - 1) : Cell(n * RingSize + r) = r
      BY ModUnique DEF Cell
    <3>4. Cell(IndexMod - k) = RingSize - k
      BY <3>2, <3>3, Zenon
    <3>5. buf[RingSize - k] = IndexMod - k
      BY <2>0, <3>2
    <3> QED
      BY <2>1, <3>4, <3>5
  <2> QED
    BY <2>2, <2>3
<1>6. DamageIsLocal
  BY DEF DamageIsLocal
<1> QED
  BY <1>3, <1>4, <1>5, <1>6 DEF FifoInv

\* The ring's invariant, with what it says of the byte last loaded: the cells
\* hold the last turn of indices, and what is owed fits in.
THEOREM FifoInvariance == FifoSpec => [](FifoInv /\ DamageIsLocal)
<1>1. FifoInit => FifoInv /\ DamageIsLocal
  BY FifoInitially
<1>2. FifoInv /\ DamageIsLocal /\ [FifoNext]_fifoVars => (FifoInv /\ DamageIsLocal)'
  <2> SUFFICES ASSUME FifoInv, DamageIsLocal, [FifoNext]_fifoVars
               PROVE  FifoInv' /\ DamageIsLocal'
    OBVIOUS
  <2>1. FifoTypes'
    BY TypesKept DEF FifoInv
  <2>2. Owed'
    BY OwedKept DEF FifoInv
  <2>3. CellsHold'
    BY CellsKept
  <2>4. DamageIsLocal'
    BY DamageKept
  <2> QED
    BY <2>1, <2>2, <2>3, <2>4 DEF FifoInv
<1> QED
  BY <1>1, <1>2, PTL DEF FifoSpec

\* Between the two tasks a byte is damaged at most into the one a turn away,
\* and in a build that moves the index last it is not damaged at all.
THEOREM DamageStaysLocal == FifoSpec => []DamageIsLocal
BY FifoInvariance, PTL

-----------------------------------------------------------------------------
(* The queue *)

PlacesOf(t, n) == [i \in 1..n |-> (t + i - 1) % IndexMod]

Places == PlacesOf(tail, Used)

LEMMA PlacesAre ==
    ASSUME NEW t \in Indices, NEW n \in Nat
    PROVE  /\ PlacesOf(t, n) \in Seq(Indices) /\ Len(PlacesOf(t, n)) = n
           /\ \A i \in 1..n : PlacesOf(t, n)[i] = (t + i - 1) % IndexMod
<1>1. \A i \in 1..n : (t + i - 1) % IndexMod \in Indices
  <2>1. \A i \in 1..n : t + i - 1 \in Nat
    BY DEF Indices
  <2>2. \A a \in Nat : a % IndexMod \in 0..(IndexMod - 1)
    BY ModRange
  <2> QED
    BY <2>1, <2>2, Zenon DEF Indices
<1>2. DOMAIN PlacesOf(t, n) = 1..n
      /\ \A i \in 1..n : PlacesOf(t, n)[i] = (t + i - 1) % IndexMod
  BY DEF PlacesOf
<1>3. PlacesOf(t, n) \in [1..n -> Indices]
  BY <1>1, Zenon DEF PlacesOf
<1> QED
  BY <1>2, <1>3

LEMMA SameIndex ==
    ASSUME NEW a \in Nat, NEW b \in Nat, a < 2 * IndexMod, b = a \/ b + IndexMod = a
    PROVE  a % IndexMod = b % IndexMod
<1>1. CASE b + IndexMod = a
  <2>1. ~(a < IndexMod) /\ b < IndexMod /\ a - IndexMod = b
    BY <1>1
  <2>2. a % IndexMod = a - IndexMod
    BY <2>1, WrapOnce, Zenon
  <2>3. b % IndexMod = b
    BY <2>1, ModSmall
  <2> QED
    BY <2>1, <2>2, <2>3, Zenon
<1> QED
  BY <1>1

\* The next free place is the head.
LEMMA AfterTheLast ==
    ASSUME FifoTypes
    PROVE  (tail + (Used + 1) - 1) % IndexMod = head
<1> DEFINE U == Used
<1>1. head \in Indices /\ tail \in Indices
  BY DEF FifoTypes
<1>2. U = IF tail <= head THEN head - tail ELSE head + IndexMod - tail
  BY <1>1, UsedIs
<1> HIDE DEF U
<1>3. /\ tail + (U + 1) - 1 \in Nat /\ tail + (U + 1) - 1 < 2 * IndexMod
      /\ head = tail + (U + 1) - 1 \/ head + IndexMod = tail + (U + 1) - 1
      /\ head \in Nat /\ head < IndexMod
  BY <1>1, <1>2 DEF Indices
<1>4. (tail + (U + 1) - 1) % IndexMod = head % IndexMod
  BY <1>3, SameIndex, Zenon
<1>5. head % IndexMod = head
  BY <1>3, ModSmall
<1>6. (tail + (U + 1) - 1) % IndexMod = head
  BY <1>4, <1>5, Zenon
<1> QED
  BY <1>6 DEF U

\* Counted from the next tail, every place is one earlier.
LEMMA FromTheNext ==
    ASSUME NEW t \in Indices, NEW i \in 1..RingSize
    PROVE  (t + (i + 1) - 1) % IndexMod = (Up(t) + i - 1) % IndexMod
<1>1. Up(t) = IF t = IndexMod - 1 THEN 0 ELSE t + 1
  BY Steps
<1>2. /\ t + (i + 1) - 1 \in Nat /\ t + (i + 1) - 1 < 2 * IndexMod /\ Up(t) + i - 1 \in Nat
      /\ \/ Up(t) + i - 1 = t + (i + 1) - 1
         \/ Up(t) + i - 1 + IndexMod = t + (i + 1) - 1
  BY <1>1, TwoTurns DEF Indices
<1> QED
  BY <1>2, SameIndex, Zenon

LEMMA HeadMoves ==
    ASSUME FifoTypes, FifoTypes', Used < RingSize, head' = Up(head), tail' = tail
    PROVE  Places' = Append(Places, head)
<1> DEFINE P == PlacesOf(tail, Used)
           Q == PlacesOf(tail, Used + 1)
<1>1. /\ Used \in Nat /\ Used + 1 \in Nat /\ Used' = Used + 1
      /\ tail \in Indices /\ head \in Indices
  BY UsedSteps DEF FifoTypes
<1>2. Places = P /\ Places' = Q
  BY <1>1, Zenon DEF Places
<1>3. /\ P \in Seq(Indices) /\ Len(P) = Used /\ Q \in Seq(Indices) /\ Len(Q) = Used + 1
      /\ \A i \in 1..Used : P[i] = (tail + i - 1) % IndexMod
      /\ \A i \in 1..(Used + 1) : Q[i] = (tail + i - 1) % IndexMod
  BY <1>1, PlacesAre
<1>4. \A i \in 1..Used : Q[i] = P[i]
  BY <1>1, <1>3
<1>5. Q[Used + 1] = head
  BY <1>1, <1>3, AfterTheLast
<1> HIDE DEF P, Q
<1>6. Q = Append(P, head)
  BY <1>1, <1>3, <1>4, <1>5
<1> QED
  BY <1>2, <1>6

LEMMA TailMoves ==
    ASSUME FifoTypes, FifoTypes', Used > 0, Used <= RingSize, head' = head, tail' = Up(tail)
    PROVE  Places # <<>> /\ Places' = Tail(Places)
<1> DEFINE P == PlacesOf(tail, Used)
           Q == PlacesOf(Up(tail), Used - 1)
<1>1. /\ Used \in Nat /\ Used - 1 \in Nat /\ Used' = Used - 1
      /\ tail \in Indices /\ Up(tail) \in Indices
  BY UsedSteps, BackSteps DEF FifoTypes
<1>2. Places = P /\ Places' = Q
  BY <1>1, Zenon DEF Places
<1>3. /\ P \in Seq(Indices) /\ Len(P) = Used /\ Q \in Seq(Indices) /\ Len(Q) = Used - 1
      /\ \A i \in 1..Used : P[i] = (tail + i - 1) % IndexMod
      /\ \A i \in 1..(Used - 1) : Q[i] = (Up(tail) + i - 1) % IndexMod
  BY <1>1, PlacesAre
<1>4. ASSUME NEW i \in 1..(Used - 1) PROVE Q[i] = P[i + 1]
  <2>1. i \in 1..RingSize /\ i + 1 \in 1..Used
    BY <1>1
  <2>2. P[i + 1] = (tail + (i + 1) - 1) % IndexMod
    BY <1>3, <2>1
  <2> QED
    BY <1>1, <1>3, <2>1, <2>2, FromTheNext, Zenon
<1> HIDE DEF P, Q
<1>5. P # <<>> /\ Q = Tail(P)
  BY <1>1, <1>3, <1>4
<1> QED
  BY <1>2, <1>5

LEMMA QueueSteps ==
    ASSUME FifoInv, FifoTypes', [FifoNext]_fifoVars
    PROVE  \/ Len(Places) < RingSize /\ \E v \in Indices : Places' = Append(Places, v)
           \/ Places # <<>> /\ Places' = Tail(Places)
           \/ Places' = <<>>
           \/ Places' = Places
<1>0. FifoTypes /\ Owed
  BY DEF FifoInv
<1>1. Used \in Nat /\ (Used = 0 <=> head = tail) /\ head \in Indices /\ tail \in Indices
  BY <1>0, UsedBack DEF FifoTypes
<1>2. Len(Places) = Used
  BY <1>1, PlacesAre DEF Places
<1>3. CASE UNCHANGED <<head, tail>>
  BY <1>3, Zenon DEF Places, Used
<1>4. CASE head' = Up(head) /\ tail' = tail /\ (HasRoom \/ writer = "publish")
  <2>1. Used < RingSize
    BY <1>0, <1>4 DEF HasRoom, Owed
  <2> QED
    BY <1>0, <1>1, <1>2, <1>4, <2>1, HeadMoves
<1>5. CASE head' = head /\ tail' = Up(tail) /\ (head # tail \/ reader = "release")
  <2>1. Used > 0 /\ Used <= RingSize
    BY <1>0, <1>1, <1>5 DEF Owed
  <2> QED
    BY <1>0, <1>5, <2>1, TailMoves
<1>6. CASE ClearFifo
  <2>1. Used' = 0
    BY <1>0, <1>6, UsedSteps DEF ClearFifo
  <2>2. Places' = PlacesOf(tail', 0)
    BY <2>1, Zenon DEF Places
  <2>3. PlacesOf(tail', 0) \in Seq(Indices) /\ Len(PlacesOf(tail', 0)) = 0
    BY PlacesAre DEF FifoTypes
  <2> QED
    BY <2>2, <2>3
<1> QED
  BY <1>3, <1>4, <1>5, <1>6
  DEF FifoNext, WriteByte, WriteStore, WritePublish, ReadByte, ReadLoad, ReadRelease, fifoVars

\* Two tasks and no lock, and the places between the indices are still a
\* bounded queue, for every ring and every width of the indices.
THEOREM FifoIsQueue == FifoSpec => ImplementsQueue
<1> DEFINE QStep == \/ Len(Places) < RingSize /\ \E v \in Indices : Places' = Append(Places, v)
                    \/ Places # <<>> /\ Places' = Tail(Places)
                    \/ Places' = <<>>
<1>1. FifoInit => Queue!QInit
  <2> SUFFICES ASSUME FifoInit PROVE Places = <<>>
    BY DEF Queue!QInit, Places, PlacesOf
  <2>1. 0 \in Indices /\ head = 0 /\ tail = 0
    BY DEF FifoInit, Indices
  <2>2. Used = 0
    BY <2>1, UsedIs
  <2>3. Places \in Seq(Indices) /\ Len(Places) = 0
    BY <2>1, <2>2, PlacesAre DEF Places
  <2> QED
    BY <2>3
<1>2. FifoInv /\ FifoInv' /\ [FifoNext]_fifoVars => [QStep]_Places
  BY QueueSteps DEF FifoInv
<1>3. [QStep]_Places => [Queue!Put \/ Queue!Get \/ Queue!Flush]_Places
  BY DEF Queue!Put, Queue!Get, Queue!Flush, Places, PlacesOf, Indices
<1>4. FifoSpec => []FifoInv
  BY FifoInvariance, PTL
<1> QED
  BY <1>1, <1>2, <1>3, <1>4, PTL
  DEF FifoSpec, ImplementsQueue, Queue!QSpec, Places, PlacesOf
=============================================================================

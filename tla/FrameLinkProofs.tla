-------------------------- MODULE FrameLinkProofs --------------------------
(***************************************************************************)
(* Proofs about frames, for every checksum, every length of a full run and *)
(* every cap: what CobsEncoder writes has no delimiter in it and fits the  *)
(* buffers the transports give it, cobs_decode() returns what was encoded, *)
(* a frame fed to an idle reader byte by byte comes out of it whole, no    *)
(* bytes whatever make the reader write past its buffers, and a frame the  *)
(* stream does not spoil reaches the core, once and in order, whatever it  *)
(* does to others.                                                         *)
(*                                                                         *)
(* Encoder and decoder are recursive functions of the bytes consumed.      *)
(* EncoderTurns and DecoderTurns show that they are defined, an invariant  *)
(* of the turns follows by induction on their number (ReachesAll), and the *)
(* round trip runs along the blocks: for every prefix of the source there  *)
(* is a number of turns after which the decoder stands at the encoder's    *)
(* open block and has written what the closed ones stand for.              *)
(*                                                                         *)
(* The queue between the peer and the reader only delays.  SoundInv speaks *)
(* of the reader as it will be when it has read what is under way (Takes): *)
(* that reader is a step ahead with each byte that arrives, and the pump   *)
(* does not change it.                                                     *)
(***************************************************************************)
EXTENDS FrameLink, SequenceTheorems, WellFoundedInduction, TLAPS

\* A set that has 0 and with every place the next one has them all.
LEMMA ReachesAll ==
    ASSUME NEW n \in Nat, NEW S, 0 \in S,
           \A i \in 0..(n - 1) : i \in S => i + 1 \in S
    PROVE  \A i \in 0..n : i \in S
<1> DEFINE R == OpToRel(<, Nat)
           T == {i \in 0..n : i \notin S}
<1>1. IsWellFoundedOn(R, Nat)
  BY NatLessThanWellFounded
<1>2. \A x, y \in Nat : y < x => <<y, x>> \in R
  BY DEF OpToRel
<1>3. T \subseteq Nat
  OBVIOUS
<1> HIDE DEF R
<1> SUFFICES ASSUME T # {} PROVE FALSE
  OBVIOUS
<1>4. PICK x \in T : \A y \in T : ~ (<<y, x>> \in R)
  BY <1>1, <1>3, WFMin
<1>5. x \in 1..n /\ x - 1 \in 0..(n - 1) /\ x - 1 < x /\ x \in Nat /\ x - 1 \in Nat
  OBVIOUS
<1>6. x - 1 \notin T
  BY <1>2, <1>4, <1>5
<1>7. (x - 1) + 1 = x /\ x - 1 \in 0..n
  BY <1>5
<1> QED
  BY <1>4, <1>5, <1>6, <1>7

-----------------------------------------------------------------------------
(* The encoder. *)

\* The encoder's states, one byte after the other.
LEMMA EncoderTurns ==
    ASSUME NEW src \in Seq(Byte)
    PROVE  /\ Encoder(src)[0] = CobsStart
           /\ \A i \in 1..Len(src) : Encoder(src)[i] = CobsPut(Encoder(src)[i - 1], src[i])
<1> DEFINE Rule(e, n) ==
             e = [i \in 0..n |-> IF i = 0 THEN CobsStart ELSE CobsPut(e[i - 1], src[i])]
           S == {n \in 0..Len(src) : \E e : Rule(e, n)}
<1>1. Len(src) \in Nat
  OBVIOUS
<1>0. \A n : n \in S <=> n \in 0..Len(src) /\ \E e : Rule(e, n)
  <2> HIDE DEF Rule
  <2> QED
    OBVIOUS
<1> HIDE DEF S
<1>2. 0 \in S
  <2>1. Rule([i \in 0..0 |-> CobsStart], 0)
    OBVIOUS
  <2>2. 0 \in 0..Len(src)
    BY <1>1
  <2> HIDE DEF Rule
  <2> QED
    BY <1>0, <2>1, <2>2
<1>3. ASSUME NEW n \in 0..(Len(src) - 1), n \in S PROVE n + 1 \in S
  <2>1. PICK e : Rule(e, n)
    BY <1>0, <1>3
  <2> DEFINE f == [i \in 0..(n + 1) |-> IF i = n + 1 THEN CobsPut(e[n], src[n + 1]) ELSE e[i]]
  <2>2. /\ \A i \in 0..n : e[i] = IF i = 0 THEN CobsStart ELSE CobsPut(e[i - 1], src[i])
    BY <2>1
  <2>3. ASSUME NEW i \in 0..(n + 1)
        PROVE  f[i] = IF i = 0 THEN CobsStart ELSE CobsPut(f[i - 1], src[i])
    <3>1. CASE i = n + 1
      <4>1. i # 0 /\ i - 1 = n /\ n \in 0..(n + 1) /\ n # n + 1 /\ i \in 0..(n + 1)
        BY <1>1, <3>1
      <4>2. f[i] = CobsPut(e[n], src[n + 1]) /\ f[n] = e[n]
        BY <3>1, <4>1
      <4> QED
        BY <3>1, <4>1, <4>2
    <3>2. CASE i # n + 1 /\ i # 0
      <4>1. i \in 0..n /\ i - 1 \in 0..(n + 1) /\ i - 1 # n + 1
        BY <1>1, <3>2
      <4>2. f[i] = e[i] /\ f[i - 1] = e[i - 1]
        BY <3>2, <4>1
      <4> QED
        BY <2>2, <3>2, <4>1, <4>2
    <3>3. CASE i # n + 1 /\ i = 0
      <4>1. i \in 0..n
        BY <1>1, <3>3
      <4> QED
        BY <2>2, <3>3, <4>1
    <3> QED
      BY <3>1, <3>2, <3>3
  <2>4. Rule(f, n + 1)
    BY <2>3
  <2>5. n + 1 \in 0..Len(src)
    BY <1>1
  <2> HIDE DEF Rule, f
  <2> QED
    BY <1>0, <2>4, <2>5
<1>4. \E e : Rule(e, Len(src))
  <2>1. Len(src) \in 0..Len(src)
    BY <1>1
  <2>2. \A i \in 0..(Len(src) - 1) : i \in S => i + 1 \in S
    BY <1>3
  <2>3. Len(src) \in S
    BY <1>1, <1>2, <2>1, <2>2, ReachesAll
  <2> HIDE DEF Rule
  <2> QED
    BY <1>0, <2>3
<1>5. Rule(Encoder(src), Len(src))
  BY <1>4 DEF Encoder
<1>6. \A i \in 0..Len(src) : Encoder(src)[i] =
        IF i = 0 THEN CobsStart ELSE CobsPut(Encoder(src)[i - 1], src[i])
  <2> DEFINE e == Encoder(src)
  <2>1. Rule(e, Len(src))
    BY <1>5
  <2> HIDE DEF e
  <2>2. \A i \in 0..Len(src) : e[i] = IF i = 0 THEN CobsStart ELSE CobsPut(e[i - 1], src[i])
    BY <2>1
  <2> QED
    BY <2>2 DEF e
<1> QED
  BY <1>1, <1>6

\* What an encoder is.
Encoders == [out : Seq(Byte), at : Nat, code : Nat]

\* The open run starts behind its code, ends where the output does and holds
\* the last bytes of the source; nothing but its code is zero; every full run
\* so far cost one byte more.
Sound(e, src, i) ==
    /\ e \in Encoders
    /\ e.code \in 1..(CodeMax - 1) /\ e.code <= i + 1
    /\ e.at \in 1..Len(e.out) /\ Len(e.out) = e.at + e.code - 1
    /\ \A j \in 1..Len(e.out) : j # e.at => e.out[j] # 0
    /\ \A j \in 1..(e.code - 1) : e.out[e.at + j] = src[i + 1 - e.code + j]
    /\ Len(e.out) - 1 - i \in Nat
    /\ (Len(e.out) - 1 - i) * (CodeMax - 1) + (e.code - 1) <= i

\* A byte ends the open run with a zero, fills it, or goes into it.
Ended(e, next) ==
    /\ Len(next.out) = Len(e.out) + 1 /\ next.at = Len(e.out) + 1 /\ next.code = 1
    /\ next.out[e.at] = e.code

Filled(e, v, next) ==
    /\ e.code + 1 = CodeMax
    /\ Len(next.out) = Len(e.out) + 2 /\ next.at = Len(e.out) + 2 /\ next.code = 1
    /\ next.out[e.at] = CodeMax /\ next.out[Len(e.out) + 1] = v

Grown(e, v, next) ==
    /\ e.code + 1 # CodeMax
    /\ Len(next.out) = Len(e.out) + 1 /\ next.at = e.at /\ next.code = e.code + 1
    /\ next.out[Len(e.out) + 1] = v

\* What is written stays, but for the code of the open run.
Keeps(e, next) ==
    /\ Len(e.out) <= Len(next.out)
    /\ next.at = e.at \/ next.at > Len(e.out)
    /\ \A j \in 1..Len(e.out) : j # e.at => next.out[j] = e.out[j]

\* close_block() writes the code of the run and reserves the place of the next.
LEMMA Closing ==
    ASSUME NEW o \in Seq(Byte), NEW at \in 1..Len(o), NEW code \in Byte
    PROVE  LET next == CloseBlock([out |-> o, at |-> at, code |-> code])
           IN  /\ next \in Encoders /\ next.at = Len(o) + 1 /\ next.code = 1
               /\ Len(next.out) = Len(o) + 1 /\ next.out[Len(o) + 1] = 0
               /\ \A j \in 1..Len(o) : next.out[j] = IF j = at THEN code ELSE o[j]
<1> DEFINE p == [o EXCEPT ![at] = code]
<1>1. /\ p \in Seq(Byte) /\ Len(p) = Len(o)
      /\ \A j \in 1..Len(o) : p[j] = IF j = at THEN code ELSE o[j]
  OBVIOUS
<1>2. CloseBlock([out |-> o, at |-> at, code |-> code]) =
        [out |-> Append(p, 0), at |-> Len(o) + 1, code |-> 1]
  BY DEF CloseBlock
<1>3. 0 \in Byte /\ Len(o) \in Nat
  BY DEF Byte
<1> HIDE DEF p
<1>4. /\ Append(p, 0) \in Seq(Byte) /\ Len(Append(p, 0)) = Len(o) + 1
      /\ Append(p, 0)[Len(o) + 1] = 0
      /\ \A j \in 1..Len(o) : Append(p, 0)[j] = p[j]
  BY <1>1, <1>3
<1> DEFINE q == Append(p, 0)
<1> HIDE DEF q
<1>5. /\ q \in Seq(Byte) /\ Len(q) = Len(o) + 1 /\ q[Len(o) + 1] = 0
      /\ \A j \in 1..Len(o) : q[j] = IF j = at THEN code ELSE o[j]
  BY <1>1, <1>4 DEF q
<1>6. CloseBlock([out |-> o, at |-> at, code |-> code]) = [out |-> q, at |-> Len(o) + 1, code |-> 1]
  BY <1>2 DEF q
<1>7. [out |-> q, at |-> Len(o) + 1, code |-> 1] \in Encoders
  BY <1>3, <1>5 DEF Encoders
<1> QED
  BY <1>5, <1>6, <1>7

\* put() ends the run with a zero, ends it because it is full, or adds to it.
LEMMA PutTurn ==
    ASSUME NEW src, NEW i \in Nat, NEW e, Sound(e, src, i), NEW v \in Byte
    PROVE  /\ CobsPut(e, v) \in Encoders /\ Keeps(e, CobsPut(e, v))
           /\ v = 0 => Ended(e, CobsPut(e, v)) /\ CobsPut(e, v).out[Len(e.out) + 1] = 0
           /\ v # 0 => \/ Filled(e, v, CobsPut(e, v)) /\ CobsPut(e, v).out[Len(e.out) + 2] = 0
                       \/ Grown(e, v, CobsPut(e, v))
<1>0. e \in Encoders /\ e.at \in 1..Len(e.out) /\ e.code \in 1..(CodeMax - 1)
  BY DEF Sound
<1>1. /\ e = [out |-> e.out, at |-> e.at, code |-> e.code]
      /\ e.out \in Seq(Byte) /\ e.at \in 1..Len(e.out) /\ e.at \in Nat
      /\ e.code \in Byte /\ e.code + 1 \in Byte /\ e.code + 1 \in Nat /\ Len(e.out) \in Nat
  <2>1. e = [out |-> e.out, at |-> e.at, code |-> e.code] /\ e.out \in Seq(Byte) /\ e.at \in Nat
    BY <1>0 DEF Encoders
  <2>2. e.code \in Byte /\ e.code + 1 \in Byte /\ e.code + 1 \in Nat
    <3>1. \A c \in 1..(CodeMax - 1) : c \in 0..255 /\ c + 1 \in 0..255 /\ c + 1 \in Nat
      BY CodeMaxAssumption
    <3> QED
      BY <1>0, <3>1 DEF Byte
  <2>3. Len(e.out) \in Nat
    BY <2>1
  <2> QED
    BY <1>0, <2>1, <2>2, <2>3
<1>2. CASE v = 0
  <2>1. CobsPut(e, v) = CloseBlock([out |-> e.out, at |-> e.at, code |-> e.code])
    BY <1>1, <1>2 DEF CobsPut
  <2> QED
    BY <1>1, <1>2, <2>1, Closing DEF Ended, Keeps
<1>3. CASE v # 0
  <2> DEFINE o == Append(e.out, v)
             next == [out |-> o, at |-> e.at, code |-> e.code + 1]
  <2>1. /\ o \in Seq(Byte) /\ Len(o) = Len(e.out) + 1 /\ o[Len(e.out) + 1] = v
        /\ \A j \in 1..Len(e.out) : o[j] = e.out[j]
    BY <1>1
  <2> HIDE DEF o
  <2>3. e.at \in 1..Len(o)
    BY <1>1, <2>1
  <2>4. CASE e.code + 1 = CodeMax
    <3>1. CobsPut(e, v) = CloseBlock([out |-> o, at |-> e.at, code |-> e.code + 1])
      BY <1>3, <2>4 DEF CobsPut, o
    <3>2. /\ CobsPut(e, v) \in Encoders /\ CobsPut(e, v).at = Len(o) + 1
          /\ CobsPut(e, v).code = 1 /\ Len(CobsPut(e, v).out) = Len(o) + 1
          /\ CobsPut(e, v).out[Len(o) + 1] = 0
          /\ \A j \in 1..Len(o) : CobsPut(e, v).out[j] = IF j = e.at THEN e.code + 1 ELSE o[j]
      BY <1>1, <2>1, <2>3, <3>1, Closing
    <3>3. Keeps(e, CobsPut(e, v))
      BY <1>1, <2>1, <3>2 DEF Keeps
    <3>4. Filled(e, v, CobsPut(e, v)) /\ CobsPut(e, v).out[Len(e.out) + 2] = 0
      BY <1>1, <2>1, <2>4, <3>2 DEF Filled
    <3> QED
      BY <1>3, <3>2, <3>3, <3>4
  <2>5. CASE e.code + 1 # CodeMax
    <3>1. CobsPut(e, v) = next
      BY <1>3, <2>5 DEF CobsPut, o
    <3>2. /\ CobsPut(e, v).out = o /\ CobsPut(e, v).at = e.at
          /\ CobsPut(e, v).code = e.code + 1 /\ CobsPut(e, v) \in Encoders
      BY <1>1, <2>1, <3>1 DEF Encoders
    <3>3. Keeps(e, CobsPut(e, v)) /\ Grown(e, v, CobsPut(e, v))
      BY <1>1, <2>1, <2>5, <3>2 DEF Keeps, Grown
    <3> QED
      BY <1>3, <3>2, <3>3
  <2> QED
    BY <2>4, <2>5
<1> QED
  BY <1>2, <1>3

\* put() keeps the encoder sound.
LEMMA SoundTurn ==
    ASSUME NEW src \in Seq(Byte), NEW i \in 0..(Len(src) - 1), NEW e, Sound(e, src, i)
    PROVE  Sound(CobsPut(e, src[i + 1]), src, i + 1)
<1> DEFINE v == src[i + 1]
           next == CobsPut(e, v)
<1>1. /\ Len(src) \in Nat /\ i \in Nat /\ i + 1 \in 1..Len(src) /\ v \in Byte
      /\ \A k \in 1..Len(src) : src[k] \in Byte
  OBVIOUS
<1>2. /\ e \in Encoders /\ e.code \in 1..(CodeMax - 1) /\ e.code <= i + 1
      /\ e.at \in 1..Len(e.out) /\ Len(e.out) = e.at + e.code - 1
      /\ \A j \in 1..Len(e.out) : j # e.at => e.out[j] # 0
      /\ \A j \in 1..(e.code - 1) : e.out[e.at + j] = src[i + 1 - e.code + j]
      /\ Len(e.out) - 1 - i \in Nat
      /\ (Len(e.out) - 1 - i) * (CodeMax - 1) + (e.code - 1) <= i
  BY DEF Sound
<1>3. /\ next \in Encoders /\ Keeps(e, next)
      /\ v = 0 => Ended(e, next)
      /\ v # 0 => Filled(e, v, next) \/ Grown(e, v, next)
  BY <1>1, PutTurn
<1> DEFINE n == Len(e.out)
           c == e.code
           a == e.at
           m == CodeMax - 1
<1>4. n \in Nat /\ c \in Nat /\ a \in Nat /\ m \in Nat /\ m >= 1 /\ c >= 1 /\ c <= m
  BY <1>2, CodeMaxAssumption DEF Encoders
<1>8. /\ n = a + c - 1 /\ a \in 1..n /\ c <= i + 1
      /\ \A j \in 1..n : j # a => e.out[j] # 0
      /\ \A j \in 1..(c - 1) : e.out[a + j] = src[i + 1 - c + j]
      /\ n - 1 - i \in Nat /\ (n - 1 - i) * m + (c - 1) <= i
  BY <1>2
<1>9. m = CodeMax - 1
  OBVIOUS
<1>10. \A j \in 1..n : j # a => e.out[j] # 0
  BY <1>8
<1> HIDE DEF v, next, n, c, a, m
<1>5. CASE Ended(e, next)
  <2>1. /\ Len(next.out) = n + 1 /\ next.at = n + 1 /\ next.code = 1
        /\ next.out[a] = c /\ \A j \in 1..n : j # a => next.out[j] = e.out[j]
    BY <1>3, <1>5 DEF Ended, Keeps, n, c, a
  <2>2. \A j \in 1..(n + 1) : j # n + 1 => next.out[j] # 0
    <3> SUFFICES ASSUME NEW j \in 1..(n + 1), j # n + 1 PROVE next.out[j] # 0
      OBVIOUS
    <3>1. j \in 1..n
      BY <1>4
    <3>2. CASE j = a
      BY <1>4, <2>1, <3>2
    <3>3. CASE j # a
      BY <1>10, <2>1, <3>1, <3>3
    <3> QED
      BY <3>2, <3>3
  <2>3. /\ (n + 1) - 1 - (i + 1) = n - 1 - i
        /\ (n - 1 - i) * m + (1 - 1) <= i + 1
    <3> DEFINE p == (n - 1 - i) * m
    <3>1. p \in Int /\ p + (c - 1) <= i
      BY <1>1, <1>8, <1>4
    <3> HIDE DEF p
    <3>2. p + (1 - 1) <= i + 1
      BY <1>1, <1>4, <3>1
    <3> QED
      BY <1>1, <1>4, <3>2 DEF p
  <2>4. /\ next.code \in 1..m /\ next.code <= (i + 1) + 1
        /\ next.at \in 1..Len(next.out) /\ Len(next.out) = next.at + next.code - 1
    BY <1>1, <1>4, <2>1
  <2>5. \A j \in 1..(next.code - 1) : next.out[next.at + j] = src[(i + 1) + 1 - next.code + j]
    BY <2>1
  <2>6. /\ Len(next.out) - 1 - (i + 1) \in Nat
        /\ (Len(next.out) - 1 - (i + 1)) * m + (next.code - 1) <= i + 1
    BY <1>1, <1>4, <1>8, <2>1, <2>3
  <2> QED
    BY <1>3, <2>1, <2>2, <2>4, <2>5, <2>6 DEF Sound, m, next, v
<1>6. CASE Filled(e, v, next) /\ v # 0
  <2>1. /\ Len(next.out) = n + 2 /\ next.at = n + 2 /\ next.code = 1
        /\ next.out[a] = CodeMax /\ next.out[n + 1] = v /\ c + 1 = CodeMax
        /\ \A j \in 1..n : j # a => next.out[j] = e.out[j]
    BY <1>3, <1>6 DEF Filled, Keeps, n, c, a
  <2>2. \A j \in 1..(n + 2) : j # n + 2 => next.out[j] # 0
    <3> SUFFICES ASSUME NEW j \in 1..(n + 2), j # n + 2 PROVE next.out[j] # 0
      OBVIOUS
    <3>1. j \in 1..n \/ j = n + 1
      BY <1>4
    <3>2. CASE j = a
      BY <1>4, <2>1, <3>2, CodeMaxAssumption
    <3>3. CASE j \in 1..n /\ j # a
      BY <1>10, <2>1, <3>3
    <3>4. CASE j = n + 1
      BY <1>6, <2>1, <3>4
    <3> QED
      BY <3>1, <3>2, <3>3, <3>4
  <2>3. /\ (n + 2) - 1 - (i + 1) = (n - 1 - i) + 1
        /\ ((n - 1 - i) + 1) * m + (1 - 1) <= i + 1
    <3> DEFINE x == n - 1 - i
               p == x * m
    <3>1. p \in Int /\ p + (c - 1) <= i /\ x \in Nat
      BY <1>1, <1>8, <1>4
    <3>2. (x + 1) * m = p + m
      BY <1>4, <3>1
    <3>3. (n + 2) - 1 - (i + 1) = x + 1
      BY <1>1, <1>4
    <3> HIDE DEF p, x
    <3>4. p + m + (1 - 1) <= i + 1
      <4>1. m = c
        BY <1>4, <1>9, <2>1, CodeMaxAssumption
      <4> QED
        BY <1>1, <1>4, <3>1, <4>1
    <3> QED
      BY <3>2, <3>3, <3>4 DEF x
  <2>4. /\ next.code \in 1..m /\ next.code <= (i + 1) + 1
        /\ next.at \in 1..Len(next.out) /\ Len(next.out) = next.at + next.code - 1
    BY <1>1, <1>4, <2>1
  <2>5. \A j \in 1..(next.code - 1) : next.out[next.at + j] = src[(i + 1) + 1 - next.code + j]
    BY <2>1
  <2>6. /\ Len(next.out) - 1 - (i + 1) \in Nat
        /\ (Len(next.out) - 1 - (i + 1)) * m + (next.code - 1) <= i + 1
    <3>1. Len(next.out) - 1 - (i + 1) = (n - 1 - i) + 1
      BY <2>1, <2>3
    <3>2. (n - 1 - i) + 1 \in Nat
      BY <1>8
    <3> QED
      BY <2>1, <2>3, <3>1, <3>2
  <2> QED
    BY <1>3, <2>1, <2>2, <2>4, <2>5, <2>6 DEF Sound, m, next, v
<1>7. CASE Grown(e, v, next) /\ v # 0
  <2>1. /\ Len(next.out) = n + 1 /\ next.at = a /\ next.code = c + 1 /\ c + 1 # CodeMax
        /\ next.out[n + 1] = v /\ \A j \in 1..n : j # a => next.out[j] = e.out[j]
    BY <1>3, <1>7 DEF Grown, Keeps, n, c, a
  <2>2. \A j \in 1..(n + 1) : j # a => next.out[j] # 0
    <3> SUFFICES ASSUME NEW j \in 1..(n + 1), j # a PROVE next.out[j] # 0
      OBVIOUS
    <3>1. j \in 1..n \/ j = n + 1
      BY <1>4
    <3>2. CASE j \in 1..n
      BY <1>10, <2>1, <3>2
    <3>3. CASE j = n + 1
      BY <1>7, <2>1, <3>3
    <3> QED
      BY <3>1, <3>2, <3>3
  <2>3. /\ (n + 1) - 1 - (i + 1) = n - 1 - i
        /\ (n - 1 - i) * m + (c + 1 - 1) <= i + 1
    <3> DEFINE p == (n - 1 - i) * m
    <3>1. p \in Int /\ p + (c - 1) <= i
      BY <1>1, <1>8, <1>4
    <3> HIDE DEF p
    <3>2. p + (c + 1 - 1) <= i + 1
      BY <1>1, <1>4, <3>1
    <3> QED
      BY <1>1, <1>4, <3>2 DEF p
  <2>5. \A j \in 1..c : next.out[a + j] = src[(i + 1) + 1 - (c + 1) + j]
    <3> SUFFICES ASSUME NEW j \in 1..c
                 PROVE  next.out[a + j] = src[(i + 1) + 1 - (c + 1) + j]
      OBVIOUS
    <3>1. CASE j < c
      <4>1. j \in 1..(c - 1) /\ a + j \in 1..n /\ a + j # a
        BY <1>8, <1>4, <3>1
      <4>2. e.out[a + j] = src[i + 1 - c + j]
        BY <1>8, <4>1
      <4>3. (i + 1) + 1 - (c + 1) + j = i + 1 - c + j
        BY <1>1, <1>4
      <4> QED
        BY <2>1, <4>1, <4>2, <4>3
    <3>2. CASE j = c
      <4>1. a + j = n + 1 /\ (i + 1) + 1 - (c + 1) + j = i + 1
        BY <1>1, <1>8, <1>4, <3>2
      <4> QED
        BY <2>1, <4>1 DEF v
    <3> QED
      BY <1>4, <3>1, <3>2
  <2>4. /\ next.code \in 1..m /\ next.code <= (i + 1) + 1
        /\ next.at \in 1..Len(next.out) /\ Len(next.out) = next.at + next.code - 1
    <3>1. m = CodeMax - 1 /\ CodeMax \in 2..255
      BY CodeMaxAssumption, <1>9
    <3> QED
      BY <1>1, <1>4, <2>1, <1>8, <3>1
  <2>7. /\ Len(next.out) - 1 - (i + 1) \in Nat
        /\ (Len(next.out) - 1 - (i + 1)) * m + (next.code - 1) <= i + 1
    <3>1. Len(next.out) - 1 - (i + 1) = n - 1 - i /\ next.code - 1 = c + 1 - 1
      <4>1. Len(next.out) - 1 - (i + 1) = (n + 1) - 1 - (i + 1)
        BY <2>1
      <4>2. next.code - 1 = c + 1 - 1
        BY <1>4, <2>1
      <4> QED
        BY <2>3, <4>1, <4>2
    <3> QED
      BY <1>8, <2>3, <3>1
  <2>8. \A j \in 1..(next.code - 1) : next.out[next.at + j] = src[(i + 1) + 1 - next.code + j]
    <3>1. next.code - 1 = c
      BY <1>4, <2>1
    <3> QED
      BY <2>1, <2>5, <3>1
  <2> QED
    BY <1>3, <2>1, <2>2, <2>4, <2>7, <2>8 DEF Sound, m, next, v
<1> QED
  BY <1>3, <1>5, <1>6, <1>7

\* Of every prefix of the source the encoder is sound.
LEMMA EncoderSound ==
    ASSUME NEW src \in Seq(Byte)
    PROVE  \A i \in 0..Len(src) : Sound(Encoder(src)[i], src, i)
<1> DEFINE E == Encoder(src)
           S == {i \in 0..Len(src) : Sound(E[i], src, i)}
<1>1. /\ Len(src) \in Nat /\ E[0] = CobsStart
      /\ \A i \in 1..Len(src) : E[i] = CobsPut(E[i - 1], src[i])
  BY EncoderTurns
<1> HIDE DEF E
<1>2. 0 \in S
  <2>1. /\ CobsStart.out = <<0>> /\ CobsStart.at = 1 /\ CobsStart.code = 1
        /\ Len(<<0>>) = 1 /\ <<0>>[1] = 0
    BY DEF CobsStart
  <2>2. <<0>> \in Seq(Byte)
    BY DEF Byte
  <2>3. CobsStart \in Encoders
    BY <2>2 DEF CobsStart, Encoders
  <2>4. (1 - 1 - 0) * (CodeMax - 1) = 0 /\ 1 \in 1..(CodeMax - 1)
    BY CodeMaxAssumption
  <2>5. Sound(CobsStart, src, 0)
    BY <2>1, <2>3, <2>4 DEF Sound
  <2> QED
    BY <1>1, <2>5
<1>3. ASSUME NEW i \in 0..(Len(src) - 1), i \in S PROVE i + 1 \in S
  <2>1. Sound(CobsPut(E[i], src[i + 1]), src, i + 1)
    BY <1>3, SoundTurn
  <2>2. i + 1 \in 1..Len(src) /\ (i + 1) - 1 = i /\ i + 1 \in 0..Len(src)
    BY <1>1
  <2>3. E[i + 1] = CobsPut(E[i], src[i + 1])
    BY <1>1, <2>2
  <2> QED
    BY <2>1, <2>2, <2>3
<1> HIDE DEF S
<1>4. \A i \in 0..Len(src) : i \in S
  BY <1>1, <1>2, <1>3, ReachesAll
<1> QED
  BY <1>4 DEF S, E

\* What was written for a prefix is there for every longer one.
LEMMA EncoderKeeps ==
    ASSUME NEW src \in Seq(Byte), NEW i \in 0..Len(src), NEW k \in i..Len(src)
    PROVE  Keeps(Encoder(src)[i], Encoder(src)[k])
<1> DEFINE E == Encoder(src)
           S == {d \in 0..(Len(src) - i) : Keeps(E[i], E[i + d])}
<1>1. /\ Len(src) \in Nat /\ \A j \in 1..Len(src) : src[j] \in Byte
      /\ \A j \in 1..Len(src) : E[j] = CobsPut(E[j - 1], src[j])
      /\ \A j \in 0..Len(src) : Sound(E[j], src, j)
  BY EncoderTurns, EncoderSound
<1> HIDE DEF E
<1>2. \A j \in 0..Len(src) : /\ E[j].at \in 1..Len(E[j].out) /\ Len(E[j].out) \in Nat
                             /\ E[j].at \in Nat
  <2> SUFFICES ASSUME NEW j \in 0..Len(src)
               PROVE  E[j].at \in 1..Len(E[j].out) /\ Len(E[j].out) \in Nat /\ E[j].at \in Nat
    OBVIOUS
  <2>1. E[j] \in Encoders /\ E[j].at \in 1..Len(E[j].out)
    BY <1>1 DEF Sound
  <2>2. E[j].out \in Seq(Byte) /\ E[j].at \in Nat
    BY <2>1 DEF Encoders
  <2> QED
    BY <2>1, <2>2
<1>3. 0 \in S
  <2>1. i + 0 = i
    OBVIOUS
  <2>2. Keeps(E[i], E[i])
    BY <1>2 DEF Keeps
  <2> QED
    BY <1>1, <2>1, <2>2
<1>4. ASSUME NEW d \in 0..((Len(src) - i) - 1), d \in S PROVE d + 1 \in S
  <2> DEFINE a == E[i]
             b == E[i + d]
             c == E[i + (d + 1)]
  <2>1. /\ i + d \in 0..(Len(src) - 1) /\ i + d \in 0..Len(src) /\ i + (d + 1) \in 1..Len(src)
        /\ (i + (d + 1)) - 1 = i + d /\ i + (d + 1) \in 0..Len(src) /\ i + d \in Nat
        /\ d + 1 \in 0..(Len(src) - i)
    BY <1>1
  <2>2. c = CobsPut(b, src[i + (d + 1)])
    BY <1>1, <2>1
  <2>3. Keeps(b, c)
    BY <1>1, <2>1, <2>2, PutTurn
  <2>4. Keeps(a, b)
    BY <1>4
  <2>5. /\ Len(a.out) \in Nat /\ Len(b.out) \in Nat /\ Len(c.out) \in Nat
        /\ a.at \in 1..Len(a.out) /\ b.at \in Nat /\ c.at \in Nat
    BY <1>2, <2>1
  <2> HIDE DEF a, b, c
  <2>6. Keeps(a, c)
    <3>1. Len(a.out) <= Len(c.out)
      BY <2>3, <2>4, <2>5 DEF Keeps
    <3>2. c.at = a.at \/ c.at > Len(a.out)
      BY <2>3, <2>4, <2>5 DEF Keeps
    <3>3. ASSUME NEW j \in 1..Len(a.out), j # a.at PROVE c.out[j] = a.out[j]
      <4>1. b.out[j] = a.out[j] /\ j \in 1..Len(b.out) /\ j # b.at
        BY <2>4, <2>5, <3>3 DEF Keeps
      <4> QED
        BY <2>3, <4>1 DEF Keeps
    <3> QED
      BY <3>1, <3>2, <3>3 DEF Keeps
  <2> QED
    BY <2>1, <2>6 DEF a, c
<1>5. \A d \in 0..(Len(src) - i) : d \in S
  <2>1. Len(src) - i \in Nat
    BY <1>1
  <2> HIDE DEF S
  <2> QED
    BY <1>3, <1>4, <2>1, ReachesAll
<1>6. k - i \in 0..(Len(src) - i) /\ i + (k - i) = k
  BY <1>1
<1> QED
  BY <1>5, <1>6 DEF E

\* The encoding is what the encoder wrote, with the code of the last run.
LEMMA Written ==
    ASSUME NEW src \in Seq(Byte)
    PROVE  /\ CobsEncode(src) \in Seq(Byte)
           /\ Len(CobsEncode(src)) = Len(Encoder(src)[Len(src)].out)
           /\ CobsEncode(src)[Encoder(src)[Len(src)].at] = Encoder(src)[Len(src)].code
           /\ \A i \in 0..Len(src) :
                /\ Len(Encoder(src)[i].out) <= Len(CobsEncode(src))
                /\ \A j \in 1..Len(Encoder(src)[i].out) : j # Encoder(src)[i].at =>
                     CobsEncode(src)[j] = Encoder(src)[i].out[j]
<1> DEFINE E == Encoder(src)
           W == CobsEncode(src)
           n == Len(src)
<1>1. n \in Nat /\ n \in 0..n
  OBVIOUS
<1>2. /\ \A j \in 0..n : Sound(E[j], src, j)
      /\ \A i \in 0..n : Keeps(E[i], E[n])
  BY <1>1, EncoderSound, EncoderKeeps
<1> DEFINE o == E[n].out
           a == E[n].at
           c == E[n].code
<1>3. o \in Seq(Byte) /\ a \in 1..Len(o) /\ c \in Byte
  <2>1. E[n] \in Encoders /\ E[n].at \in 1..Len(E[n].out) /\ E[n].code \in 1..(CodeMax - 1)
    BY <1>1, <1>2 DEF Sound
  <2>2. \A x \in 1..(CodeMax - 1) : x \in 0..255
    BY CodeMaxAssumption
  <2> QED
    BY <2>1, <2>2 DEF Encoders, Byte
<1>4. W = [o EXCEPT ![a] = c]
  BY DEF CobsEncode
<1>5. /\ W \in Seq(Byte) /\ Len(W) = Len(o) /\ W[a] = c
      /\ \A j \in 1..Len(o) : j # a => W[j] = o[j]
  <2> HIDE DEF o, a, c, W
  <2> QED
    BY <1>3, <1>4
<1>6. ASSUME NEW i \in 0..n
      PROVE  /\ Len(E[i].out) <= Len(W)
             /\ \A j \in 1..Len(E[i].out) : j # E[i].at => W[j] = E[i].out[j]
  <2>1. Keeps(E[i], E[n])
    BY <1>2
  <2>2. /\ Len(E[i].out) <= Len(o) /\ (a = E[i].at \/ a > Len(E[i].out))
        /\ \A j \in 1..Len(E[i].out) : j # E[i].at => o[j] = E[i].out[j]
    BY <2>1 DEF Keeps
  <2>3. E[i].out \in Seq(Byte) /\ Len(o) \in Nat /\ a \in Nat
    <3>1. E[i] \in Encoders
      BY <1>2 DEF Sound
    <3> QED
      BY <1>3, <3>1 DEF Encoders
  <2>4. Len(E[i].out) \in Nat
    BY <2>3
  <2> HIDE DEF o, a, c, W, E
  <2>5. ASSUME NEW j \in 1..Len(E[i].out), j # E[i].at PROVE W[j] = E[i].out[j]
    <3>1. j \in 1..Len(o) /\ j # a
      BY <2>2, <2>3, <2>4, <2>5
    <3> QED
      BY <1>5, <2>2, <2>5, <3>1
  <2> QED
    BY <1>5, <2>2, <2>5
<1> QED
  BY <1>5, <1>6

\* What is encoded has no delimiter in it, and every full run costs a byte.
LEMMA NoDelimiter ==
    ASSUME NEW src \in Seq(Byte)
    PROVE  /\ CobsEncode(src) \in Seq(Byte)
           /\ \A j \in 1..Len(CobsEncode(src)) : CobsEncode(src)[j] # 0
           /\ Len(CobsEncode(src)) - 1 - Len(src) \in Nat
           /\ (Len(CobsEncode(src)) - 1 - Len(src)) * (CodeMax - 1) <= Len(src)
<1> DEFINE e == Encoder(src)[Len(src)]
           W == CobsEncode(src)
           n == Len(src)
<1>1. n \in Nat /\ n \in 0..n
  OBVIOUS
<1>2. Sound(e, src, n)
  BY <1>1, EncoderSound
<1>3. /\ W \in Seq(Byte) /\ Len(W) = Len(e.out) /\ W[e.at] = e.code
      /\ \A j \in 1..Len(e.out) : j # e.at => W[j] = e.out[j]
  BY <1>1, Written
<1> HIDE DEF e, W, n
<1>4. /\ e.code \in 1..(CodeMax - 1)
      /\ \A j \in 1..Len(e.out) : j # e.at => e.out[j] # 0
      /\ Len(e.out) - 1 - n \in Nat
      /\ (Len(e.out) - 1 - n) * (CodeMax - 1) + (e.code - 1) <= n
  BY <1>2 DEF Sound
<1>5. ASSUME NEW j \in 1..Len(W) PROVE W[j] # 0
  <2>1. j \in 1..Len(e.out) /\ e.code # 0
    BY <1>3, <1>4
  <2> QED
    BY <1>3, <1>4, <2>1
<1>6. (Len(W) - 1 - n) * (CodeMax - 1) <= n
  <2> DEFINE x == Len(e.out) - 1 - n
             p == x * (CodeMax - 1)
             c == e.code
  <2>1. p \in Int /\ c \in Nat /\ c >= 1 /\ p + (c - 1) <= n
    BY <1>4, CodeMaxAssumption
  <2> HIDE DEF p, c
  <2>2. p <= n
    BY <1>1, <2>1
  <2> QED
    BY <1>3, <2>2 DEF p
<1>7. W \in Seq(Byte) /\ Len(W) - 1 - n \in Nat
  BY <1>3, <1>4
<1> QED
  BY <1>5, <1>6, <1>7 DEF W, n

-----------------------------------------------------------------------------
(* The decoder. *)

\* The decoder's states, one turn after the other.
LEMMA DecoderTurns ==
    ASSUME NEW src \in Seq(Byte), NEW cap \in Nat
    PROVE  /\ Decoder(src, cap)[0] = DecodeStart
           /\ \A i \in 1..Len(src) :
                Decoder(src, cap)[i] = DecodeBlock(src, cap, Decoder(src, cap)[i - 1])
<1> DEFINE Rule(d, n) ==
             d = [i \in 0..n |-> IF i = 0 THEN DecodeStart ELSE DecodeBlock(src, cap, d[i - 1])]
           S == {n \in 0..Len(src) : \E d : Rule(d, n)}
<1>1. Len(src) \in Nat
  OBVIOUS
<1>2. \A n : n \in S <=> n \in 0..Len(src) /\ \E d : Rule(d, n)
  <2> HIDE DEF Rule
  <2> QED
    OBVIOUS
<1> HIDE DEF S
<1>3. 0 \in S
  <2>1. Rule([i \in 0..0 |-> DecodeStart], 0)
    OBVIOUS
  <2>2. 0 \in 0..Len(src)
    BY <1>1
  <2> HIDE DEF Rule
  <2> QED
    BY <1>2, <2>1, <2>2
<1>4. ASSUME NEW n \in 0..(Len(src) - 1), n \in S PROVE n + 1 \in S
  <2>1. PICK d : Rule(d, n)
    BY <1>2, <1>4
  <2> DEFINE f == [i \in 0..(n + 1) |-> IF i = n + 1 THEN DecodeBlock(src, cap, d[n]) ELSE d[i]]
  <2>2. \A i \in 0..n : d[i] = IF i = 0 THEN DecodeStart ELSE DecodeBlock(src, cap, d[i - 1])
    BY <2>1
  <2>3. ASSUME NEW i \in 0..(n + 1)
        PROVE  f[i] = IF i = 0 THEN DecodeStart ELSE DecodeBlock(src, cap, f[i - 1])
    <3>1. CASE i = n + 1
      <4>1. i # 0 /\ i - 1 = n /\ n \in 0..(n + 1) /\ n # n + 1 /\ i \in 0..(n + 1)
        BY <1>1, <3>1
      <4>2. f[i] = DecodeBlock(src, cap, d[n]) /\ f[n] = d[n]
        BY <3>1, <4>1
      <4> QED
        BY <3>1, <4>1, <4>2
    <3>2. CASE i # n + 1 /\ i # 0
      <4>1. i \in 0..n /\ i - 1 \in 0..(n + 1) /\ i - 1 # n + 1
        BY <1>1, <3>2
      <4>2. f[i] = d[i] /\ f[i - 1] = d[i - 1]
        BY <3>2, <4>1
      <4> QED
        BY <2>2, <3>2, <4>1, <4>2
    <3>3. CASE i # n + 1 /\ i = 0
      <4>1. i \in 0..n
        BY <1>1, <3>3
      <4> QED
        BY <2>2, <3>3, <4>1
    <3> QED
      BY <3>1, <3>2, <3>3
  <2>4. Rule(f, n + 1)
    BY <2>3
  <2>5. n + 1 \in 0..Len(src)
    BY <1>1
  <2> HIDE DEF Rule, f
  <2> QED
    BY <1>2, <2>4, <2>5
<1>5. \E d : Rule(d, Len(src))
  <2>1. Len(src) \in 0..Len(src)
    BY <1>1
  <2>2. \A i \in 0..(Len(src) - 1) : i \in S => i + 1 \in S
    BY <1>4
  <2>3. Len(src) \in S
    BY <1>1, <1>3, <2>1, <2>2, ReachesAll
  <2> HIDE DEF Rule
  <2> QED
    BY <1>2, <2>3
<1>6. Rule(Decoder(src, cap), Len(src))
  BY <1>5 DEF Decoder
<1>7. \A i \in 0..Len(src) : Decoder(src, cap)[i] =
        IF i = 0 THEN DecodeStart ELSE DecodeBlock(src, cap, Decoder(src, cap)[i - 1])
  <2> DEFINE d == Decoder(src, cap)
  <2>1. Rule(d, Len(src))
    BY <1>6
  <2> HIDE DEF d
  <2>2. \A i \in 0..Len(src) : d[i] = IF i = 0 THEN DecodeStart ELSE DecodeBlock(src, cap, d[i - 1])
    BY <2>1
  <2> QED
    BY <2>2 DEF d
<1> QED
  BY <1>1, <1>7

\* What a decoder is.
Decoders == [at : Nat, out : Seq(Byte), bad : BOOLEAN]

\* What is written is within the cap, also of an input that is no encoding.
Capped(d, src, cap) ==
    /\ d \in Decoders /\ d.at \in 1..(Len(src) + 1)
    /\ Len(d.out) <= cap

\* A turn of the decoder writes nothing past the cap.
LEMMA CappedTurn ==
    ASSUME NEW src \in Seq(Byte), NEW cap \in Nat, NEW d, Capped(d, src, cap)
    PROVE  Capped(DecodeBlock(src, cap, d), src, cap)
<1> DEFINE at == d.at
           o == d.out
           code == src[at]
           next == at + code
           run == o \o SubSeq(src, at + 1, next - 1)
           more == code < CodeMax /\ next <= Len(src)
<1>1. /\ d \in Decoders /\ d.bad \in BOOLEAN /\ at \in 1..(Len(src) + 1) /\ o \in Seq(Byte)
      /\ Len(o) <= cap /\ Len(o) \in Nat /\ Len(src) \in Nat
  <2>1. d \in Decoders /\ at \in 1..(Len(src) + 1) /\ Len(o) <= cap
    BY DEF Capped
  <2>2. d.bad \in BOOLEAN /\ o \in Seq(Byte)
    BY <2>1 DEF Decoders
  <2> QED
    BY <2>1, <2>2
<1>2. [d EXCEPT !.bad = TRUE] \in Decoders /\ [d EXCEPT !.bad = TRUE].at = at
      /\ [d EXCEPT !.bad = TRUE].out = o
  BY <1>1 DEF Decoders
<1> HIDE DEF at, o
<1>3. DecodeBlock(src, cap, d) =
        IF d.bad \/ at > Len(src) THEN d
        ELSE IF code = 0 \/ next > Len(src) + 1 \/ Len(o) + (code - 1) > cap
             THEN [d EXCEPT !.bad = TRUE]
        ELSE IF more /\ Len(run) >= cap
             THEN [at |-> next, out |-> run, bad |-> TRUE]
        ELSE [at |-> next, out |-> IF more THEN Append(run, 0) ELSE run, bad |-> FALSE]
  BY DEF DecodeBlock, at, o
<1>4. CASE d.bad \/ at > Len(src)
  BY <1>3, <1>4
<1>5. CASE ~(d.bad \/ at > Len(src)) /\ (code = 0 \/ next > Len(src) + 1 \/ Len(o) + (code - 1) > cap)
  <2>1. DecodeBlock(src, cap, d) = [d EXCEPT !.bad = TRUE]
    BY <1>3, <1>5
  <2> QED
    BY <1>1, <1>2, <2>1 DEF Capped
<1>6. CASE ~(d.bad \/ at > Len(src)) /\ ~(code = 0 \/ next > Len(src) + 1 \/ Len(o) + (code - 1) > cap)
  <2>1. /\ at \in 1..Len(src) /\ code \in 1..255 /\ next \in 1..(Len(src) + 1)
        /\ Len(o) + (code - 1) <= cap
    <3>1. at \in 1..Len(src)
      BY <1>1, <1>6
    <3>2. code \in 0..255
      <4>1. src[at] \in Byte
        BY <3>1
      <4> QED
        BY <4>1 DEF Byte
    <3> HIDE DEF code
    <3> QED
      BY <1>1, <1>6, <3>1, <3>2
  <2>2. /\ SubSeq(src, at + 1, next - 1) \in Seq(Byte)
        /\ Len(SubSeq(src, at + 1, next - 1)) = code - 1
    <3> HIDE DEF code
    <3> QED
      BY <1>1, <2>1
  <2>3. run \in Seq(Byte) /\ Len(run) = Len(o) + (code - 1) /\ Len(run) \in Nat
    <3> DEFINE s == SubSeq(src, at + 1, next - 1)
    <3> HIDE DEF s, code
    <3>1. s \in Seq(Byte) /\ Len(s) = code - 1
      BY <2>2 DEF s
    <3>2. o \o s \in Seq(Byte) /\ Len(o \o s) = Len(o) + Len(s)
      BY <1>1, <3>1, ConcatProperties
    <3> QED
      BY <1>1, <2>1, <3>1, <3>2 DEF s
  <2> HIDE DEF run, code
  <2>4. CASE more /\ Len(run) >= cap
    <3>1. DecodeBlock(src, cap, d) = [at |-> next, out |-> run, bad |-> TRUE]
      BY <1>3, <1>6, <2>4
    <3>2. Len(run) <= cap /\ next \in Nat
      BY <1>1, <2>1, <2>3
    <3>3. DecodeBlock(src, cap, d) \in Decoders
      BY <2>3, <3>1, <3>2 DEF Decoders
    <3> HIDE DEF next
    <3> QED
      BY <2>1, <3>1, <3>2, <3>3 DEF Capped
  <2>5. CASE ~(more /\ Len(run) >= cap)
    <3> DEFINE w == IF more THEN Append(run, 0) ELSE run
    <3>1. DecodeBlock(src, cap, d) = [at |-> next, out |-> w, bad |-> FALSE]
      BY <1>3, <1>6, <2>5
    <3>2. w \in Seq(Byte) /\ Len(w) <= cap
      <4>1. Append(run, 0) \in Seq(Byte) /\ Len(Append(run, 0)) = Len(run) + 1
        BY <2>3 DEF Byte
      <4> HIDE DEF next
      <4> QED
        BY <2>1, <2>3, <2>5, <4>1
    <3>3. next \in Nat
      BY <2>1
    <3> HIDE DEF next, w
    <3>4. DecodeBlock(src, cap, d) \in Decoders
      BY <3>1, <3>2, <3>3 DEF Decoders
    <3> QED
      BY <2>1, <3>1, <3>2, <3>4 DEF Capped
  <2> QED
    BY <2>4, <2>5
<1> QED
  BY <1>4, <1>5, <1>6

\* cobs_decode() writes nothing past its cap, whatever it reads.
LEMMA DecoderCapped ==
    ASSUME NEW src \in Seq(Byte), NEW cap \in Nat
    PROVE  /\ \A i \in 0..Len(src) : Capped(Decoder(src, cap)[i], src, cap)
           /\ Capped(CobsDecode(src, cap), src, cap)
<1> DEFINE D == Decoder(src, cap)
           S == {i \in 0..Len(src) : Capped(D[i], src, cap)}
<1>1. /\ Len(src) \in Nat /\ D[0] = DecodeStart
      /\ \A i \in 1..Len(src) : D[i] = DecodeBlock(src, cap, D[i - 1])
  BY DecoderTurns
<1> HIDE DEF D
<1>2. 0 \in S
  <2>1. /\ DecodeStart = [at |-> 1, out |-> <<>>, bad |-> FALSE]
        /\ <<>> \in Seq(Byte) /\ Len(<<>>) = 0
    BY DEF DecodeStart
  <2>2. Capped(DecodeStart, src, cap)
    <3>1. DecodeStart \in Decoders
      BY <2>1 DEF Decoders
    <3> QED
      BY <1>1, <2>1, <3>1 DEF Capped
  <2> QED
    BY <1>1, <2>2
<1>3. ASSUME NEW i \in 0..(Len(src) - 1), i \in S PROVE i + 1 \in S
  <2>1. i + 1 \in 1..Len(src) /\ (i + 1) - 1 = i /\ i + 1 \in 0..Len(src)
    BY <1>1
  <2>2. Capped(DecodeBlock(src, cap, D[i]), src, cap)
    BY <1>3, CappedTurn
  <2>3. D[i + 1] = DecodeBlock(src, cap, D[i])
    BY <1>1, <2>1
  <2> QED
    BY <2>1, <2>2, <2>3
<1>4. \A i \in 0..Len(src) : i \in S
  <2> HIDE DEF S
  <2> QED
    BY <1>1, <1>2, <1>3, ReachesAll
<1>5. Len(src) \in 0..Len(src)
  BY <1>1
<1> QED
  BY <1>4, <1>5 DEF D, CobsDecode

-----------------------------------------------------------------------------
(* The round trip. *)

\* Behind place at the block has the next c - 1 bytes of the source.
Holds(W, at, src, b, c) == \A j \in 1..(c - 1) : W[at + j] = src[b + j]

\* What a turn writes of a block that holds the next c - 1 bytes of the source,
\* with the zero behind them or without.
LEMMA BlockWrites ==
    ASSUME NEW src \in Seq(Byte), NEW W \in Seq(Byte), NEW at \in Nat, NEW b \in Nat,
           NEW c \in Nat \ {0}, at + c <= Len(W) + 1, b + c - 1 <= Len(src), at >= 1,
           Holds(W, at, src, b, c)
    PROVE  /\ SubSeq(src, 1, b) \o SubSeq(W, at + 1, at + c - 1) = SubSeq(src, 1, b + c - 1)
           /\ b + c <= Len(src) /\ src[b + c] = 0 =>
                Append(SubSeq(src, 1, b + c - 1), 0) = SubSeq(src, 1, b + c)
<1>1. Len(src) \in Nat /\ Len(W) \in Nat /\ b <= Len(src)
  OBVIOUS
<1> DEFINE s == SubSeq(W, at + 1, at + c - 1)
           t == SubSeq(src, b + 1, b + c - 1)
<1>2. /\ s \in Seq(Byte) /\ Len(s) = c - 1
      /\ \A i \in 1..(c - 1) : s[i] = W[at + i]
  <2>1. \A i \in (at + 1)..(at + c - 1) : W[i] \in Byte
    BY <1>1
  <2>2. /\ at + 1 \in Int /\ at + c - 1 \in Int /\ (at + c - 1) - (at + 1) + 1 = c - 1
        /\ (at + 1 <= at + c - 1 <=> c - 1 > 0)
    OBVIOUS
  <2>3. /\ s \in Seq(Byte)
        /\ Len(s) = IF at + 1 <= at + c - 1 THEN (at + c - 1) - (at + 1) + 1 ELSE 0
        /\ \A i \in 1..((at + c - 1) - (at + 1) + 1) : s[i] = W[(at + 1) + i - 1]
    BY <2>1, <2>2, SubSeqProperties
  <2>4. Len(s) = c - 1
    BY <2>2, <2>3
  <2>5. \A i \in 1..(c - 1) : (at + 1) + i - 1 = at + i
    OBVIOUS
  <2> HIDE DEF s
  <2>6. \A i \in 1..(c - 1) : s[i] = W[at + i]
    BY <2>2, <2>3, <2>5
  <2> QED
    BY <2>3, <2>4, <2>6
<1>3. /\ t \in Seq(Byte) /\ Len(t) = c - 1
      /\ \A i \in 1..(c - 1) : t[i] = src[b + i]
  <2>1. \A i \in (b + 1)..(b + c - 1) : src[i] \in Byte
    BY <1>1
  <2>2. /\ b + 1 \in Int /\ b + c - 1 \in Int /\ (b + c - 1) - (b + 1) + 1 = c - 1
        /\ (b + 1 <= b + c - 1 <=> c - 1 > 0)
    OBVIOUS
  <2>3. /\ t \in Seq(Byte)
        /\ Len(t) = IF b + 1 <= b + c - 1 THEN (b + c - 1) - (b + 1) + 1 ELSE 0
        /\ \A i \in 1..((b + c - 1) - (b + 1) + 1) : t[i] = src[(b + 1) + i - 1]
    BY <2>1, <2>2, SubSeqProperties
  <2>4. Len(t) = c - 1
    BY <2>2, <2>3
  <2>5. \A i \in 1..(c - 1) : (b + 1) + i - 1 = b + i
    OBVIOUS
  <2> HIDE DEF t
  <2>6. \A i \in 1..(c - 1) : t[i] = src[b + i]
    BY <2>2, <2>3, <2>5
  <2> QED
    BY <2>3, <2>4, <2>6
<1>4. s = t
  <2> HIDE DEF s, t
  <2> QED
    BY <1>2, <1>3, SeqEqual DEF Holds
<1>5. SubSeq(src, 1, b) \o t = SubSeq(src, 1, b + c - 1)
  <2>1. 1 \in 1..(Len(src) + 1) /\ b \in (1 - 1)..Len(src) /\ b + c - 1 \in b..Len(src)
    BY <1>1
  <2> QED
    BY <2>1, ConcatAdjacentSubSeq
<1>6. ASSUME b + c <= Len(src), src[b + c] = 0
      PROVE  Append(SubSeq(src, 1, b + c - 1), 0) = SubSeq(src, 1, b + c)
  <2>1. 1 \in 1..Len(src) /\ b + c \in 1..Len(src) /\ (b + c) - 1 = b + c - 1
    BY <1>1, <1>6
  <2>2. SubSeq(src, 1, b + c) = SubSeq(src, 1, (b + c) - 1) \o << src[b + c] >>
    BY <2>1, SubSeqRecursiveSecond
  <2>3. SubSeq(src, 1, b + c - 1) \in Seq(Byte)
    <3>1. \A i \in 1..(b + c - 1) : src[i] \in Byte
      BY <1>1
    <3> QED
      BY <1>1, <3>1, SubSeqProperties
  <2>4. \A q \in Seq(Byte) : Append(q, 0) = q \o << 0 >>
    BY AppendIsConcat DEF Byte
  <2>5. Append(SubSeq(src, 1, b + c - 1), 0) = SubSeq(src, 1, b + c - 1) \o << 0 >>
    BY <2>3, <2>4
  <2> QED
    BY <1>6, <2>1, <2>2, <2>5
<1> QED
  BY <1>4, <1>5, <1>6

\* The decoder is at this place and has written the first b bytes of the source.
Standing(at, src, b) == [at |-> at, out |-> SubSeq(src, 1, b), bad |-> FALSE]

\* A turn of the decoder on such a block, by how the block ends.
LEMMA DecodesBlock ==
    ASSUME NEW src \in Seq(Byte), NEW W \in Seq(Byte), NEW cap \in Nat, Len(src) <= cap,
           NEW at \in Nat, NEW b \in Nat, NEW c \in Nat \ {0}, at >= 1, W[at] = c,
           at + c <= Len(W) + 1, b + c - 1 <= Len(src),
           Holds(W, at, src, b, c)
    PROVE  /\ c < CodeMax /\ at + c <= Len(W) /\ b + c <= Len(src) /\ src[b + c] = 0 =>
                DecodeBlock(W, cap, Standing(at, src, b)) = Standing(at + c, src, b + c)
           /\ c = CodeMax \/ at + c = Len(W) + 1 =>
                DecodeBlock(W, cap, Standing(at, src, b)) = Standing(at + c, src, b + c - 1)
<1> DEFINE p == SubSeq(src, 1, b)
           d == Standing(at, src, b)
           q == SubSeq(src, 1, b + c - 1)
           run == p \o SubSeq(W, at + 1, (at + c) - 1)
           more == c < CodeMax /\ at + c <= Len(W)
<1>1. Len(src) \in Nat /\ Len(W) \in Nat /\ CodeMax \in Nat
  BY CodeMaxAssumption
<1>2. /\ run = q
      /\ b + c <= Len(src) /\ src[b + c] = 0 => Append(q, 0) = SubSeq(src, 1, b + c)
  <2>1. /\ SubSeq(src, 1, b) \o SubSeq(W, at + 1, at + c - 1) = SubSeq(src, 1, b + c - 1)
        /\ b + c <= Len(src) /\ src[b + c] = 0 =>
             Append(SubSeq(src, 1, b + c - 1), 0) = SubSeq(src, 1, b + c)
    <3>1. Holds(W, at, src, b, c) /\ at + c <= Len(W) + 1 /\ b + c - 1 <= Len(src) /\ at >= 1
      OBVIOUS
    <3>2. src \in Seq(Byte) /\ W \in Seq(Byte) /\ at \in Nat /\ b \in Nat /\ c \in Nat \ {0}
      OBVIOUS
    <3> QED
      BY ONLY <3>1, <3>2, BlockWrites
  <2>2. (at + c) - 1 = at + c - 1
    OBVIOUS
  <2> QED
    BY <2>1, <2>2
<1>3. Len(p) = b /\ Len(q) = b + c - 1
  <2>1. /\ \A i \in 1..b : src[i] \in Byte
        /\ \A i \in 1..(b + c - 1) : src[i] \in Byte
    BY <1>1
  <2>2. Len(p) = IF 1 <= b THEN b - 1 + 1 ELSE 0
    BY <2>1, SubSeqProperties
  <2>3. b + c - 1 \in Nat
    OBVIOUS
  <2>4. Len(q) = IF 1 <= b + c - 1 THEN (b + c - 1) - 1 + 1 ELSE 0
    BY <2>1, <2>3, SubSeqProperties
  <2> HIDE DEF p, q
  <2> QED
    BY <2>2, <2>3, <2>4
<1>4. d.at = at /\ d.out = p /\ d.bad = FALSE
  BY DEF Standing
<1>5. DecodeBlock(W, cap, d) =
        IF FALSE \/ at > Len(W) THEN d
        ELSE IF c = 0 \/ at + c > Len(W) + 1 \/ Len(p) + (c - 1) > cap
             THEN [d EXCEPT !.bad = TRUE]
        ELSE IF more /\ Len(run) >= cap
             THEN [at |-> at + c, out |-> run, bad |-> TRUE]
        ELSE [at |-> at + c, out |-> IF more THEN Append(run, 0) ELSE run, bad |-> FALSE]
  <2> HIDE DEF p, d
  <2> QED
    BY <1>4 DEF DecodeBlock
<1>6. ~(at > Len(W)) /\ ~(c = 0 \/ at + c > Len(W) + 1 \/ Len(p) + (c - 1) > cap)
  <2> HIDE DEF p
  <2> QED
    BY <1>1, <1>3
<1> HIDE DEF run, p, q, more, d
<1>7. DecodeBlock(W, cap, d) =
        IF more /\ Len(run) >= cap
        THEN [at |-> at + c, out |-> run, bad |-> TRUE]
        ELSE [at |-> at + c, out |-> IF more THEN Append(run, 0) ELSE run, bad |-> FALSE]
  BY <1>5, <1>6
<1>8. ASSUME c < CodeMax, at + c <= Len(W), b + c <= Len(src), src[b + c] = 0
      PROVE  DecodeBlock(W, cap, d) = [at |-> at + c, out |-> SubSeq(src, 1, b + c), bad |-> FALSE]
  <2>1. more /\ ~(Len(run) >= cap)
    BY <1>1, <1>2, <1>3, <1>8 DEF more
  <2> QED
    BY <1>2, <1>7, <1>8, <2>1
<1>9. ASSUME c = CodeMax \/ at + c = Len(W) + 1
      PROVE  DecodeBlock(W, cap, d) = [at |-> at + c, out |-> q, bad |-> FALSE]
  <2>1. ~more
    BY <1>1, <1>9 DEF more
  <2> QED
    BY <1>2, <1>7, <2>1
<1> QED
  BY <1>8, <1>9 DEF q, d, Standing

\* After some turns the decoder is at the block that the encoder has open.
Follows(src, cap, i) ==
    LET e == Encoder(src)[i]
    IN  \E k \in 0..(e.at - 1) :
            Decoder(CobsEncode(src), cap)[k] =
                Standing(e.at, src, i + 1 - e.code)

\* The decoder follows the encoder through every prefix of the source.
LEMMA DecoderFollows ==
    ASSUME NEW src \in Seq(Byte), NEW cap \in Nat, Len(src) <= cap
    PROVE  \A i \in 0..Len(src) : Follows(src, cap, i)
<1> DEFINE E == Encoder(src)
           W == CobsEncode(src)
           D == Decoder(W, cap)
           S == {i \in 0..Len(src) : Follows(src, cap, i)}
<1>1. /\ Len(src) \in Nat /\ \A j \in 1..Len(src) : src[j] \in Byte
      /\ E[0] = CobsStart
      /\ \A j \in 1..Len(src) : E[j] = CobsPut(E[j - 1], src[j])
      /\ \A j \in 0..Len(src) : Sound(E[j], src, j)
  BY EncoderTurns, EncoderSound
<1>2. /\ W \in Seq(Byte)
      /\ \A i \in 0..Len(src) :
           /\ Len(E[i].out) <= Len(W)
           /\ \A j \in 1..Len(E[i].out) : j # E[i].at => W[j] = E[i].out[j]
  BY Written
<1>3. /\ D[0] = DecodeStart
      /\ \A i \in 1..Len(W) : D[i] = DecodeBlock(W, cap, D[i - 1])
  BY <1>2, DecoderTurns
<1> HIDE DEF E, W, D
<1>4. 0 \in S
  <2>1. CobsStart.at = 1 /\ CobsStart.code = 1
    BY DEF CobsStart
  <2>2. SubSeq(src, 1, 0 + 1 - 1) = <<>>
    BY SubSeqEmpty
  <2>3. D[0] = Standing(E[0].at, src, 0 + 1 - E[0].code)
    BY <1>1, <1>3, <2>1, <2>2 DEF DecodeStart, Standing
  <2>4. 0 \in 0..(E[0].at - 1)
    BY <1>1, <2>1
  <2>5. Follows(src, cap, 0)
    BY <2>3, <2>4 DEF Follows, E, D, W
  <2> QED
    BY <1>1, <2>5
<1>5. ASSUME NEW i \in 0..(Len(src) - 1), i \in S PROVE i + 1 \in S
  <2> DEFINE v == src[i + 1]
             e == E[i]
             f == E[i + 1]
             a == e.at
             c == e.code
             n == Len(e.out)
             b == i + 1 - c
  <2>1. /\ i \in 0..Len(src) /\ i + 1 \in 1..Len(src) /\ (i + 1) - 1 = i /\ i + 1 \in 0..Len(src)
        /\ i \in Nat /\ v \in Byte
    BY <1>1
  <2>2. Sound(e, src, i) /\ Sound(f, src, i + 1) /\ f = CobsPut(e, v)
    BY <1>1, <2>1
  <2>3. /\ Keeps(e, f)
        /\ v = 0 => Ended(e, f)
        /\ v # 0 => Filled(e, v, f) \/ Grown(e, v, f)
    BY <2>1, <2>2, PutTurn
  <2>4. /\ c \in 1..(CodeMax - 1) /\ c <= i + 1 /\ a \in 1..n /\ n = a + c - 1
        /\ \A j \in 1..(c - 1) : e.out[a + j] = src[i + 1 - c + j]
    BY <2>2 DEF Sound
  <2>5. PICK k \in 0..(a - 1) : D[k] = Standing(a, src, b)
    BY <1>5 DEF Follows, E, D, W
  <2>6. /\ Len(f.out) <= Len(W)
        /\ \A j \in 1..Len(f.out) : j # f.at => W[j] = f.out[j]
        /\ n <= Len(W)
        /\ \A j \in 1..n : j # a => W[j] = e.out[j]
    BY <1>2, <2>1
  <2>7. n \in Nat /\ Len(W) \in Nat /\ a \in Nat /\ c \in Nat \ {0} /\ b \in Nat /\ a >= 1
        /\ b + c = i + 1 /\ CodeMax \in Nat
    <3>1. e \in Encoders
      BY <2>2 DEF Sound
    <3>2. e.out \in Seq(Byte) /\ c \in Nat /\ a \in Nat
      BY <3>1 DEF Encoders
    <3>3. n \in Nat /\ Len(W) \in Nat
      BY <1>2, <3>2
    <3> HIDE DEF n, c, a
    <3> QED
      BY <2>1, <2>4, <3>2, <3>3, CodeMaxAssumption
  <2> HIDE DEF v, e, f, a, c, n
  <2>14. /\ n \in Int /\ a \in Int /\ c \in Int /\ k \in Int /\ 1 <= a /\ a <= n /\ n = a + c - 1
         /\ 1 <= c /\ c + 1 <= CodeMax /\ 0 <= k /\ k + 1 <= a /\ n <= Len(W) /\ CodeMax \in Int
    BY <2>4, <2>6, <2>7
  <2>8. /\ k \in 0..(Len(W) - 1) /\ k + 1 \in 1..Len(W) /\ (k + 1) - 1 = k
        /\ D[k + 1] = DecodeBlock(W, cap, D[k])
    <3>1. k \in 0..(Len(W) - 1) /\ k + 1 \in 1..Len(W) /\ (k + 1) - 1 = k
      BY <2>4, <2>6, <2>7
    <3> QED
      BY <1>3, <3>1
  <2>9. Holds(W, a, src, b, c)
    <3> SUFFICES ASSUME NEW j \in 1..(c - 1) PROVE W[a + j] = src[b + j]
      BY DEF Holds
    <3>1. a + j \in 1..n /\ a + j # a
      BY <2>4, <2>7
    <3>2. W[a + j] = e.out[a + j]
      BY <2>6, <3>1
    <3> QED
      BY <2>4, <3>2
  <2>10. ASSUME NEW m \in 0..(f.at - 1),
                D[m] = Standing(f.at, src, (i + 1) + 1 - f.code)
         PROVE  i + 1 \in S
    <3>1. Follows(src, cap, i + 1)
      BY <2>10 DEF Follows, f, E, D, W
    <3> QED
      BY <2>1, <3>1
  <2>11. CASE Grown(e, v, f)
    <3>1. f.at = a /\ f.code = c + 1
      BY <2>11 DEF Grown, a, c
    <3>2. (i + 1) + 1 - f.code = b
      BY <2>1, <2>7, <3>1
    <3> HIDE DEF b
    <3> QED
      BY <2>5, <2>10, <3>1, <3>2
  <2>12. CASE Ended(e, f) /\ v = 0
    <3>1. Len(f.out) = n + 1 /\ f.at = n + 1 /\ f.code = 1 /\ f.out[a] = c
      BY <2>12 DEF Ended, n, a, c
    <3>2. /\ W[a] = c /\ a + c = f.at /\ a + c <= Len(W) /\ c < CodeMax
          /\ a + c <= Len(W) + 1
      <4>0. a \in 1..(n + 1) /\ a # n + 1
        BY <2>14
      <4>1. a \in 1..Len(f.out) /\ a # f.at
        BY <3>1, <4>0
      <4>2. W[a] = c
        BY <2>6, <3>1, <4>1
      <4>3. n + 1 <= Len(W)
        BY <2>6, <3>1
      <4>4. a + c = n + 1 /\ c < CodeMax /\ a + c <= Len(W) /\ a + c <= Len(W) + 1
        BY <2>7, <2>14, <4>3
      <4> QED
        BY <3>1, <4>2, <4>4
    <3>3. b + c <= Len(src) /\ src[b + c] = 0 /\ b + c - 1 <= Len(src)
      BY <1>1, <2>1, <2>7, <2>12, <3>2 DEF v
    <3> HIDE DEF b
    <3>4. DecodeBlock(W, cap, Standing(a, src, b)) = Standing(a + c, src, b + c)
      <4>1. /\ src \in Seq(Byte) /\ W \in Seq(Byte) /\ cap \in Nat /\ Len(src) <= cap
            /\ a \in Nat /\ b \in Nat /\ c \in Nat \ {0} /\ a >= 1
        BY <1>2, <2>5, <2>7
      <4> QED
        BY ONLY <4>1, <2>9, <3>2, <3>3, DecodesBlock
    <3>5. (i + 1) + 1 - f.code = b + c
      BY <2>1, <2>7, <3>1
    <3>6. k + 1 \in 0..(f.at - 1)
      <4>1. k + 1 \in 0..((n + 1) - 1)
        BY <2>14
      <4> QED
        BY <3>1, <4>1
    <3> QED
      BY <2>5, <2>8, <2>10, <3>2, <3>4, <3>5, <3>6
  <2>13. CASE Filled(e, v, f)
    <3>1. /\ Len(f.out) = n + 2 /\ f.at = n + 2 /\ f.code = 1 /\ f.out[a] = CodeMax
          /\ f.out[n + 1] = v /\ c + 1 = CodeMax
      BY <2>13 DEF Filled, n, a, c
    <3>2. W[a] = c + 1 /\ a + (c + 1) = f.at /\ a + (c + 1) <= Len(W) + 1
      <4>0. a \in 1..(n + 2) /\ a # n + 2
        BY <2>14
      <4>1. a \in 1..Len(f.out) /\ a # f.at
        BY <3>1, <4>0
      <4>2. W[a] = c + 1
        BY <2>6, <3>1, <4>1
      <4> QED
        BY <2>6, <2>7, <2>14, <3>1, <4>2
    <3>3. b + (c + 1) - 1 <= Len(src) /\ c + 1 \in Nat \ {0} /\ b + (c + 1) - 1 = i + 1
      BY <1>1, <2>1, <2>7
    <3>4. Holds(W, a, src, b, c + 1)
      <4> SUFFICES ASSUME NEW j \in 1..c PROVE W[a + j] = src[b + j]
        <5>1. (c + 1) - 1 = c
          BY <2>14
        <5> QED
          BY <5>1 DEF Holds
      <4>1. CASE j = c
        <5>1. a + j = n + 1 /\ b + j = i + 1 /\ n + 1 \in 1..Len(f.out) /\ n + 1 # f.at
          BY <2>4, <2>7, <3>1, <4>1
        <5>2. W[n + 1] = v
          BY <2>6, <3>1, <5>1
        <5> HIDE DEF b
        <5> QED
          BY <5>1, <5>2 DEF v
      <4>2. CASE j # c
        <5>1. j \in 1..(c - 1)
          BY <2>7, <4>2
        <5> QED
          BY <2>9, <5>1 DEF Holds
      <4> QED
        BY <4>1, <4>2
    <3> HIDE DEF b
    <3>5. DecodeBlock(W, cap, Standing(a, src, b)) =
            Standing(a + (c + 1), src, b + (c + 1) - 1)
      <4>1. /\ src \in Seq(Byte) /\ W \in Seq(Byte) /\ cap \in Nat /\ Len(src) <= cap
            /\ a \in Nat /\ b \in Nat /\ a >= 1
        BY <1>2, <2>5, <2>7
      <4> DEFINE x == c + 1
      <4>2. /\ x = CodeMax /\ W[a] = x /\ a + x <= Len(W) + 1 /\ x \in Nat \ {0}
            /\ b + x - 1 <= Len(src) /\ Holds(W, a, src, b, x)
        BY <3>1, <3>2, <3>3, <3>4
      <4> HIDE DEF x
      <4>3. DecodeBlock(W, cap, Standing(a, src, b)) = Standing(a + x, src, b + x - 1)
        BY ONLY <4>1, <4>2, DecodesBlock
      <4> QED
        BY <4>3 DEF x
    <3>6. (i + 1) + 1 - f.code = b + (c + 1) - 1
      BY <2>1, <3>1, <3>3
    <3>7. k + 1 \in 0..(f.at - 1)
      <4>1. k + 1 \in 0..((n + 2) - 1)
        BY <2>14
      <4> QED
        BY <3>1, <4>1
    <3> QED
      BY <2>5, <2>8, <2>10, <3>2, <3>5, <3>6, <3>7
  <2> QED
    BY <2>3, <2>11, <2>12, <2>13
<1>6. \A i \in 0..Len(src) : i \in S
  <2> HIDE DEF S
  <2> QED
    BY <1>1, <1>4, <1>5, ReachesAll
<1> QED
  BY <1>6

\* cobs_decode() of what cobs_encode() wrote is what was encoded, whatever the
\* bytes are and wherever its full runs end, if the cap has room for it.
THEOREM CobsRoundTrip ==
    \A src \in Seq(Byte), cap \in Nat : Len(src) <= cap =>
        CobsDecode(CobsEncode(src), cap) =
            [at |-> Len(CobsEncode(src)) + 1, out |-> src, bad |-> FALSE]
<1> SUFFICES ASSUME NEW src \in Seq(Byte), NEW cap \in Nat, Len(src) <= cap
             PROVE  CobsDecode(CobsEncode(src), cap) =
                        [at |-> Len(CobsEncode(src)) + 1, out |-> src, bad |-> FALSE]
  OBVIOUS
<1> DEFINE W == CobsEncode(src)
           D == Decoder(W, cap)
           n == Len(src)
           e == Encoder(src)[n]
           a == e.at
           c == e.code
           b == n + 1 - c
           last == Standing(Len(W) + 1, src, n)
<1>1. n \in Nat /\ n \in 0..n
  OBVIOUS
<1>2. Sound(e, src, n) /\ Follows(src, cap, n)
  BY <1>1, EncoderSound, DecoderFollows
<1>3. /\ W \in Seq(Byte) /\ Len(W) = Len(e.out) /\ W[a] = c
      /\ \A j \in 1..Len(e.out) : j # a => W[j] = e.out[j]
  BY <1>1, Written
<1>4. /\ D[0] = DecodeStart
      /\ \A i \in 1..Len(W) : D[i] = DecodeBlock(W, cap, D[i - 1])
  BY <1>3, DecoderTurns
<1>5. PICK k \in 0..(a - 1) : D[k] = Standing(a, src, b)
  BY <1>2 DEF Follows
<1>6. /\ c \in 1..(CodeMax - 1) /\ c <= n + 1 /\ a \in 1..Len(e.out) /\ Len(e.out) = a + c - 1
      /\ \A j \in 1..(c - 1) : e.out[a + j] = src[n + 1 - c + j]
  BY <1>2 DEF Sound
<1> HIDE DEF W, D, e, a, c, n
<1>7. /\ a \in Nat /\ a >= 1 /\ c \in Nat \ {0} /\ b \in Nat /\ Len(W) \in Nat
      /\ a + c = Len(W) + 1 /\ a + c <= Len(W) + 1 /\ b + c - 1 = n /\ k \in Nat
      /\ k + 1 <= Len(W)
  <2>1. Len(W) \in Nat /\ CodeMax \in Nat
    BY <1>3, CodeMaxAssumption
  <2>2. c \in Int /\ 1 <= c /\ c <= n + 1
    BY <1>6, <2>1
  <2>3. a \in Int /\ 1 <= a /\ a <= Len(W) /\ Len(W) = a + c - 1
    BY <1>3, <1>6, <2>1
  <2> QED
    BY <1>1, <2>1, <2>2, <2>3
<1>8. Holds(W, a, src, b, c)
  <2> SUFFICES ASSUME NEW j \in 1..(c - 1) PROVE W[a + j] = src[b + j]
    BY DEF Holds
  <2>1. a + j \in 1..Len(e.out) /\ a + j # a
    BY <1>3, <1>7
  <2>2. W[a + j] = e.out[a + j]
    BY <1>3, <2>1
  <2> QED
    BY <1>6, <2>2
<1>9. DecodeBlock(W, cap, Standing(a, src, b)) = last
  <2>1. /\ src \in Seq(Byte) /\ W \in Seq(Byte) /\ cap \in Nat /\ Len(src) <= cap
        /\ W[a] = c /\ b + c - 1 <= Len(src)
    BY <1>1, <1>3, <1>7 DEF n
  <2> HIDE DEF b
  <2>2. DecodeBlock(W, cap, Standing(a, src, b)) = Standing(a + c, src, b + c - 1)
    BY ONLY <2>1, <1>7, <1>8, DecodesBlock
  <2> QED
    BY <1>7, <2>2
<1>10. DecodeBlock(W, cap, last) = last
  BY <1>7 DEF DecodeBlock, Standing
<1> DEFINE S == {j \in 0..(Len(W) - (k + 1)) : D[(k + 1) + j] = last}
<1> HIDE DEF last, b
<1>11. 0 \in S
  <2>1. D[k + 1] = last
    <3>1. k + 1 \in 1..Len(W) /\ (k + 1) - 1 = k
      BY <1>7
    <3> QED
      BY <1>4, <1>5, <1>9, <3>1
  <2>2. (k + 1) + 0 = k + 1 /\ 0 \in 0..(Len(W) - (k + 1))
    BY <1>7
  <2> QED
    BY <2>1, <2>2
<1>12. ASSUME NEW j \in 0..((Len(W) - (k + 1)) - 1), j \in S PROVE j + 1 \in S
  <2>1. /\ (k + 1) + (j + 1) \in 1..Len(W) /\ ((k + 1) + (j + 1)) - 1 = (k + 1) + j
        /\ j + 1 \in 0..(Len(W) - (k + 1))
    BY <1>7
  <2>2. D[(k + 1) + (j + 1)] = DecodeBlock(W, cap, D[(k + 1) + j])
    BY <1>4, <2>1
  <2> QED
    BY <1>10, <1>12, <2>1, <2>2
<1>13. D[Len(W)] = last
  <2> DEFINE r == Len(W) - (k + 1)
  <2>1. r \in Nat /\ (k + 1) + r = Len(W) /\ r \in 0..r
    BY <1>7
  <2> HIDE DEF S
  <2>2. \A j \in 0..r : j \in S
    BY <1>11, <1>12, <2>1, ReachesAll
  <2> QED
    BY <2>1, <2>2 DEF S
<1>14. SubSeq(src, 1, n) = src
  BY SubSeqFull DEF n
<1> QED
  BY <1>13, <1>14 DEF CobsDecode, D, last, Standing, W

-----------------------------------------------------------------------------
(* Frames. *)

\* The product of a larger factor is larger.
LEMMA Products ==
    ASSUME NEW x \in Nat, NEW q \in Nat, NEW m \in Nat, x > q
    PROVE  x * m >= q * m + m
<1> DEFINE r == x - (q + 1)
<1>1. r \in Nat /\ x = (q + 1) + r
  OBVIOUS
<1>2. x * m = (q * m + m) + r * m
  BY <1>1
<1>3. r * m \in Nat /\ q * m \in Nat
  BY <1>1
<1> HIDE DEF r
<1> QED
  BY <1>2, <1>3

\* The sizes of the buffers are sizes.
LEMMA Sizes == MaxDecoded \in Nat /\ MaxWire \in Nat
<1>1. MaxPayload \in Nat /\ CodeMax \in Nat /\ CodeMax - 1 \in Nat \ {0}
  BY LinkAssumption, CodeMaxAssumption
<1>2. MaxDecoded \in Nat /\ MaxDecoded + CodeMax - 2 \in Nat
  BY <1>1, CodeMaxAssumption DEF MaxDecoded
<1>3. \A v \in Nat, w \in Nat \ {0} : v \div w \in Nat
  OBVIOUS
<1>4. (MaxDecoded + CodeMax - 2) \div (CodeMax - 1) \in Nat
  BY <1>1, <1>2, <1>3
<1> QED
  BY <1>2, <1>4 DEF MaxWire

\* A frame on the wire is bytes, has its only zero at its end and fits the
\* buffers of FRAME_MAX_WIRE bytes that it is written to.
LEMMA WireFits ==
    ASSUME NEW e \in Envelopes
    PROVE  /\ FrameBuild(e) \in Seq(Byte) /\ Len(FrameBuild(e)) = Len(e) + 2
           /\ Len(FrameBuild(e)) <= MaxDecoded
           /\ SubSeq(FrameBuild(e), 1, Len(e)) = e
           /\ FrameEncode(e) \in Seq(Byte) /\ Len(FrameEncode(e)) \in 1..MaxWire
           /\ Len(FrameEncode(e)) = Len(CobsEncode(FrameBuild(e))) + 1
           /\ FrameEncode(e)[Len(FrameEncode(e))] = 0
           /\ \A i \in 1..(Len(FrameEncode(e)) - 1) :
                /\ FrameEncode(e)[i] = CobsEncode(FrameBuild(e))[i]
                /\ FrameEncode(e)[i] # 0
<1> DEFINE crc == Crc16(e)
           lo == crc % 256
           hi == crc \div 256
           s == FrameBuild(e)
           W == CobsEncode(s)
           F == FrameEncode(e)
           m == CodeMax - 1
           x == Len(W) - 1 - Len(s)
<1>1. /\ e \in Seq(Byte) /\ Len(e) \in 1..MaxPayload
      /\ MaxPayload \in Nat /\ MaxDecoded % (CodeMax - 1) # 0
      /\ CodeMax \in 2..255
  <2>1. e \in Seq(Byte) /\ Len(e) \in 1..MaxPayload
    BY LinkAssumption
  <2>2. MaxPayload \in Nat /\ MaxDecoded % (CodeMax - 1) # 0
    BY LinkAssumption
  <2> QED
    BY <2>1, <2>2, CodeMaxAssumption
<1>13. crc \in Nat /\ crc \div 256 \in Byte
  BY LinkAssumption
<1>3. s = e \o << lo, hi >>
  BY Zenon DEF FrameBuild
<1> HIDE DEF crc, s
<1>2. lo \in Byte /\ hi \in Byte
  <2>1. lo \in 0..255
    BY <1>13
  <2> QED
    BY <1>13, <2>1 DEF Byte
<1> HIDE DEF lo, hi
<1>4. << lo, hi >> \in Seq(Byte) /\ Len(<< lo, hi >>) = 2
  BY <1>2
<1>5. s \in Seq(Byte) /\ Len(s) = Len(e) + 2 /\ Len(s) <= MaxDecoded
  <2>1. s \in Seq(Byte) /\ Len(s) = Len(e) + Len(<< lo, hi >>)
    BY <1>1, <1>3, <1>4, ConcatProperties
  <2> HIDE DEF s
  <2> QED
    BY <1>1, <1>4, <2>1 DEF MaxDecoded
<1>6. SubSeq(s, 1, Len(e)) = e
  <2>1. Len(e) \in Nat /\ 1 \in 1..Len(e) /\ Len(e) \in 1..Len(e)
    BY <1>1
  <2>2. SubSeq(e \o << lo, hi >>, 1, Len(e)) = SubSeq(e, 1, Len(e))
    BY <1>1, <1>4, <2>1, SubSeqOfConcat1
  <2>3. SubSeq(e, 1, Len(e)) = e
    BY <1>1, SubSeqFull
  <2> QED
    BY <1>3, <2>2, <2>3
<1> HIDE DEF s
<1>7. /\ W \in Seq(Byte) /\ \A j \in 1..Len(W) : W[j] # 0
      /\ x \in Nat /\ x * m <= Len(s)
  BY <1>5, NoDelimiter
<1>8. F = Append(W, 0)
  BY DEF FrameEncode, s
<1> HIDE DEF W
<1>9. /\ F \in Seq(Byte) /\ Len(F) = Len(W) + 1 /\ F[Len(F)] = 0 /\ Len(W) \in Nat
      /\ \A i \in 1..Len(W) : F[i] = W[i]
  BY <1>7, <1>8 DEF Byte
<1> HIDE DEF F, x, m
<1>10. Len(F) <= MaxWire
  <2> DEFINE q == MaxDecoded \div m
             r == MaxDecoded % m
  <2>1. m \in Nat \ {0} /\ MaxDecoded \in Nat /\ Len(s) \in Nat
    BY <1>1, <1>5 DEF m, MaxDecoded
  <2>2. /\ q \in Nat /\ r \in 1..(m - 1) /\ MaxDecoded = q * m + r /\ q * m \in Nat
    <3>1. MaxDecoded % m # 0
      BY <1>1 DEF m
    <3> QED
      BY <2>1, <3>1
  <2> HIDE DEF q, r
  <2>3. x <= q
    <3> SUFFICES ASSUME x > q PROVE FALSE
      BY <1>7, <2>2
    <3>1. x * m >= q * m + m
      BY <1>7, <2>1, <2>2, Products
    <3> DEFINE p == x * m
               t == q * m
    <3>2. p >= t + m /\ p <= Len(s) /\ t \in Nat /\ MaxDecoded = t + r /\ p \in Int
      BY <1>7, <2>1, <2>2, <3>1
    <3> HIDE DEF p, t
    <3> QED
      BY <1>5, <2>1, <2>2, <3>2
  <2>4. (MaxDecoded + m - 1) \div m = q + 1
    <3> DEFINE t == q * m
    <3>1. MaxDecoded + m - 1 = (q + 1) * m + (r - 1) /\ r - 1 \in 0..(m - 1)
      BY <2>1, <2>2
    <3>2. \A y, z \in Nat, w \in 0..(m - 1) : y = z * m + w => y \div m = z
      BY <2>1
    <3> QED
      BY <2>1, <2>2, <3>1, <3>2
  <2>5. MaxWire = MaxDecoded + (q + 1) + 1
    <3>1. MaxDecoded + CodeMax - 2 = MaxDecoded + m - 1
      BY <1>1, <2>1 DEF m
    <3> QED
      BY <2>1, <2>4, <3>1 DEF MaxWire, m
  <2>6. Len(F) = Len(s) + x + 2
    BY <1>5, <1>7, <1>9, <2>1 DEF x
  <2> QED
    BY <1>5, <1>7, <2>1, <2>2, <2>3, <2>5, <2>6
<1>11. \A i \in 1..(Len(F) - 1) : F[i] = W[i] /\ F[i] # 0
  BY <1>7, <1>9
<1>12. Len(F) \in 1..MaxWire
  BY <1>9, <1>10, Sizes
<1> QED
  BY <1>5, <1>6, <1>9, <1>11, <1>12 DEF F, W, s

\* frame_encode_envelope() writes no delimiter but the last byte, and no more
\* than the FRAME_MAX_WIRE bytes that every transport gives it, also when the
\* last full run ends right at the end of the frame.
THEOREM FramesFit ==
    \A e \in Envelopes :
        /\ Len(FrameEncode(e)) \in 1..MaxWire
        /\ \A i \in 1..Len(FrameEncode(e)) : FrameEncode(e)[i] = 0 <=> i = Len(FrameEncode(e))
<1> SUFFICES ASSUME NEW e \in Envelopes
             PROVE  /\ Len(FrameEncode(e)) \in 1..MaxWire
                    /\ \A i \in 1..Len(FrameEncode(e)) :
                         FrameEncode(e)[i] = 0 <=> i = Len(FrameEncode(e))
  OBVIOUS
<1> DEFINE F == FrameEncode(e)
<1>1. /\ F \in Seq(Byte) /\ Len(F) \in 1..MaxWire /\ F[Len(F)] = 0
      /\ \A i \in 1..(Len(F) - 1) : F[i] # 0
  BY WireFits
<1> HIDE DEF F
<1>2. ASSUME NEW i \in 1..Len(F) PROVE F[i] = 0 <=> i = Len(F)
  <2>1. i = Len(F) \/ i \in 1..(Len(F) - 1)
    BY <1>1
  <2>2. Len(F) \notin 1..(Len(F) - 1)
    BY <1>1
  <2> QED
    BY <1>1, <2>1, <2>2
<1> QED
  BY <1>1, <1>2 DEF F

Readers == [wire : Seq(Byte), overflow : BOOLEAN]

\* A FrameReader that has read the first i bytes of w.
Reading(w, i) == [wire |-> SubSeq(w, 1, i), overflow |-> FALSE]

\* A frame that reaches an idle FrameReader byte by byte is taken for a frame
\* at its delimiter and not before: feed() returns the envelope, whatever its
\* bytes are, leaves the frame in frame_out and is idle again.
THEOREM FrameArrives ==
    \A e \in Envelopes :
        LET w == FrameEncode(e)
            fed(i) == Feed(Reading(w, i - 1), w[i])
        IN  /\ Reading(w, 0) = ReaderReset
            /\ \A i \in 1..(Len(w) - 1) : fed(i).rd = Reading(w, i) /\ fed(i).envelope = <<>>
            /\ fed(Len(w)) = [rd |-> ReaderReset, out |-> FrameBuild(e), envelope |-> e]
<1> SUFFICES ASSUME NEW e \in Envelopes
             PROVE  LET w == FrameEncode(e)
                        fed(i) == Feed(Reading(w, i - 1), w[i])
                    IN  /\ Reading(w, 0) = ReaderReset
                        /\ \A i \in 1..(Len(w) - 1) :
                             fed(i).rd = Reading(w, i) /\ fed(i).envelope = <<>>
                        /\ fed(Len(w)) = [rd |-> ReaderReset, out |-> FrameBuild(e), envelope |-> e]
  OBVIOUS
<1> DEFINE w == FrameEncode(e)
           s == FrameBuild(e)
           W == CobsEncode(s)
<1>1. /\ s \in Seq(Byte) /\ Len(s) = Len(e) + 2 /\ Len(s) <= MaxDecoded
      /\ SubSeq(s, 1, Len(e)) = e
      /\ w \in Seq(Byte) /\ Len(w) \in 1..MaxWire
      /\ Len(w) = Len(W) + 1 /\ w[Len(w)] = 0
      /\ \A i \in 1..(Len(w) - 1) : w[i] = W[i] /\ w[i] # 0
  BY WireFits
<1>2. W \in Seq(Byte)
  BY <1>1, NoDelimiter
<1>3. e \in Seq(Byte) /\ Len(e) \in Nat /\ MaxDecoded \in Nat
  BY LinkAssumption DEF MaxDecoded
<1>4. CobsDecode(W, MaxDecoded) = [at |-> Len(W) + 1, out |-> s, bad |-> FALSE]
  <2> HIDE DEF s
  <2> QED
    BY <1>1, <1>3, CobsRoundTrip
<1> HIDE DEF w, W
<1>5. Reading(w, 0) = ReaderReset
  <2>1. SubSeq(w, 1, 0) = <<>>
    BY SubSeqEmpty
  <2> QED
    BY <2>1 DEF Reading, ReaderReset
<1>6. ASSUME NEW i \in 1..(Len(w) - 1)
      PROVE  /\ Feed(Reading(w, i - 1), w[i]).rd = Reading(w, i)
             /\ Feed(Reading(w, i - 1), w[i]).envelope = <<>>
  <2> DEFINE p == SubSeq(w, 1, i - 1)
             r == Reading(w, i - 1)
  <2>1. /\ i \in Nat /\ i >= 1 /\ i \in 1..Len(w) /\ 1 \in 1..Len(w) /\ i < MaxWire
        /\ Len(w) \in Nat /\ MaxWire \in Int
    <3>1. MaxWire \in Nat
      BY Sizes
    <3> QED
      BY <1>1, <3>1
  <2>2. p \in Seq(Byte) /\ Len(p) = i - 1
    <3>1. \A j \in 1..(i - 1) : w[j] \in Byte
      BY <1>1, <2>1
    <3>2. 1 \in Int /\ i - 1 \in Int /\ (IF 1 <= i - 1 THEN (i - 1) - 1 + 1 ELSE 0) = i - 1
      BY <2>1
    <3> QED
      BY <3>1, <3>2, SubSeqProperties
  <2>3. Append(p, w[i]) = SubSeq(w, 1, i)
    <3>1. i \in 1..Len(w) /\ w[i] \in Byte
      BY <1>1, <2>1
    <3>2. SubSeq(w, 1, i) = p \o << w[i] >>
      BY <1>1, <2>1, SubSeqRecursiveSecond
    <3>3. Append(p, w[i]) = p \o << w[i] >>
      <4> HIDE DEF p
      <4> QED
        BY <2>2, <3>1, AppendIsConcat
    <3> QED
      BY <3>2, <3>3
  <2>4. r.wire = p /\ r.overflow = FALSE /\ w[i] # 0 /\ r = [wire |-> p, overflow |-> FALSE]
    BY <1>1 DEF Reading
  <2> DEFINE grown == [r EXCEPT !.wire = Append(r.wire, w[i])]
             fed == Feed(r, w[i])
  <2>5. grown = Reading(w, i)
    <3> HIDE DEF p, r
    <3> DEFINE x == SubSeq(w, 1, i)
               g == [r EXCEPT !.wire = x]
    <3>1. r \in Readers
      BY <2>2, <2>4 DEF Readers
    <3>2. x \in Seq(Byte)
      <4>1. Append(p, w[i]) \in Seq(Byte)
        BY <1>1, <2>1, <2>2
      <4> QED
        BY <2>3, <4>1
    <3> HIDE DEF x
    <3>3. g \in Readers /\ g.wire = x /\ g.overflow = r.overflow
      BY <3>1, <3>2 DEF Readers
    <3>4. g = [wire |-> g.wire, overflow |-> g.overflow]
      BY <3>3 DEF Readers
    <3>5. grown = g
      BY <2>3, <2>4 DEF x
    <3> HIDE DEF g
    <3> QED
      BY <2>4, <3>3, <3>4, <3>5 DEF Reading, x
  <2>6. ~(Len(r.wire) >= MaxWire)
    <3> HIDE DEF p, r
    <3> QED
      BY <2>1, <2>2, <2>4
  <2>7. fed = [rd |-> IF Len(r.wire) >= MaxWire THEN [r EXCEPT !.overflow = TRUE] ELSE grown,
               out |-> <<>>, envelope |-> <<>>]
    <3> HIDE DEF r
    <3> QED
      BY <2>4 DEF Feed
  <2> HIDE DEF r, p, fed, grown
  <2>8. fed.rd = grown /\ fed.envelope = <<>>
    BY <2>6, <2>7
  <2> QED
    BY <2>5, <2>8 DEF fed, r
<1>7. Feed(Reading(w, Len(w) - 1), w[Len(w)]) = [rd |-> ReaderReset, out |-> s, envelope |-> e]
  <2> DEFINE r == Reading(w, Len(w) - 1)
             decoded == CobsDecode(W, MaxDecoded)
  <2>1. SubSeq(w, 1, Len(w) - 1) = W
    <3> DEFINE p == SubSeq(w, 1, Len(w) - 1)
    <3>1. Len(W) \in Nat /\ Len(w) - 1 = Len(W)
      BY <1>1, <1>2
    <3>2. \A j \in 1..(Len(w) - 1) : w[j] \in Byte
      BY <1>1, <3>1
    <3>3. /\ p \in Seq(Byte) /\ Len(p) = IF 1 <= Len(w) - 1 THEN (Len(w) - 1) - 1 + 1 ELSE 0
          /\ \A i \in 1..((Len(w) - 1) - 1 + 1) : p[i] = w[1 + i - 1]
      BY <3>1, <3>2, SubSeqProperties
    <3> HIDE DEF p
    <3>4. Len(p) = Len(W) /\ \A i \in 1..Len(p) : p[i] = W[i]
      <4>1. Len(p) = Len(W)
        BY <3>1, <3>3
      <4>2. \A i \in 1..Len(W) : /\ 1 + i - 1 = i /\ i \in 1..(Len(w) - 1)
                                  /\ (Len(w) - 1) - 1 + 1 = Len(w) - 1
        BY <3>1
      <4> QED
        BY <1>1, <3>3, <4>1, <4>2
    <3> QED
      BY <1>2, <3>3, <3>4, SeqEqual DEF p
  <2>2. r.wire = W /\ r.overflow = FALSE /\ w[Len(w)] = 0
    BY <1>1, <2>1 DEF Reading
  <2>3. decoded.out = s /\ decoded.bad = FALSE
    <3> HIDE DEF s
    <3> QED
      BY <1>4
  <2> HIDE DEF r, decoded
  <2>4. Feed(r, w[Len(w)]) =
          [rd |-> ReaderReset, out |-> decoded.out,
           envelope |-> IF /\ ~decoded.bad /\ Len(decoded.out) >= 2
                           /\ FrameBuild(SubSeq(decoded.out, 1, Len(decoded.out) - 2)) = decoded.out
                        THEN SubSeq(decoded.out, 1, Len(decoded.out) - 2) ELSE <<>>]
    BY <2>2 DEF Feed, decoded
  <2>5. Len(s) - 2 = Len(e) /\ Len(s) >= 2
    <3> HIDE DEF s
    <3> QED
      BY <1>1, <1>3
  <2>6. SubSeq(decoded.out, 1, Len(decoded.out) - 2) = e /\ FrameBuild(e) = decoded.out
    BY <1>1, <2>3, <2>5
  <2> HIDE DEF s
  <2> QED
    BY <2>3, <2>4, <2>5, <2>6 DEF r
<1> QED
  BY <1>5, <1>6, <1>7 DEF w

-----------------------------------------------------------------------------
(* The link. *)

\* What is under way is bytes, and the peer is at a byte of one of its frames
\* or past the last.
LinkInv ==
    /\ frames \in Seq(Envelopes)
    /\ sending \in [frame : Nat \ {0}, at : Nat \ {0}]
    /\ ~AllSent => sending.at <= Len(Wire(sending.frame))
    /\ queue \in Seq(Byte)
    /\ rd \in Readers
    /\ WithinBuffers

\* Whatever byte comes, the reader stays within its buffers.
LEMMA FeedFits ==
    ASSUME NEW r \in Readers, Len(r.wire) <= MaxWire, NEW byte \in Byte
    PROVE  /\ Feed(r, byte).rd \in Readers
           /\ Len(Feed(r, byte).rd.wire) <= MaxWire
           /\ Len(Feed(r, byte).out) <= MaxDecoded
<1> DEFINE decoded == IF r.overflow THEN DecodeStart ELSE CobsDecode(r.wire, MaxDecoded)
           over == [r EXCEPT !.overflow = TRUE]
           grown == [r EXCEPT !.wire = Append(@, byte)]
<1>1. MaxDecoded \in Nat /\ MaxWire \in Nat /\ Len(<<>>) = 0
  BY Sizes
<1>2. r.wire \in Seq(Byte) /\ Len(r.wire) \in Nat /\ r.overflow \in BOOLEAN
  BY DEF Readers
<1>3. Len(decoded.out) <= MaxDecoded
  <2>1. CASE r.overflow
    BY <1>1, <2>1 DEF DecodeStart
  <2>2. CASE ~r.overflow
    <3>1. Capped(CobsDecode(r.wire, MaxDecoded), r.wire, MaxDecoded)
      BY <1>1, <1>2, DecoderCapped
    <3> QED
      BY <2>2, <3>1 DEF Capped
  <2> QED
    BY <2>1, <2>2
<1>4. CASE byte = 0
  <2>1. Feed(r, byte).rd = ReaderReset /\ Feed(r, byte).out = decoded.out
    BY <1>4 DEF Feed
  <2>2. ReaderReset \in Readers /\ ReaderReset.wire = <<>>
    BY DEF ReaderReset, Readers
  <2> HIDE DEF decoded
  <2> QED
    BY <1>1, <1>3, <2>1, <2>2
<1>5. CASE byte # 0
  <2>1. /\ Feed(r, byte).rd = IF Len(r.wire) >= MaxWire THEN over ELSE grown
        /\ Feed(r, byte).out = <<>>
    BY <1>5 DEF Feed
  <2>2. over \in Readers /\ over.wire = r.wire
    BY DEF Readers
  <2>3. Append(r.wire, byte) \in Seq(Byte) /\ Len(Append(r.wire, byte)) = Len(r.wire) + 1
    BY <1>2
  <2>4. grown \in Readers /\ grown.wire = Append(r.wire, byte)
    BY <2>3 DEF Readers
  <2> HIDE DEF over, grown
  <2> QED
    BY <1>1, <1>2, <2>1, <2>2, <2>3, <2>4
<1> QED
  BY <1>4, <1>5

\* The link begins so.
LEMMA LinkStart == LinkInit => LinkInv
<1> SUFFICES ASSUME LinkInit PROVE LinkInv
  OBVIOUS
<1>1. PICK n \in 1..MaxFrames : frames \in [1..n -> Envelopes]
  BY DEF LinkInit
<1>2. /\ sending = [frame |-> 1, at |-> 1] /\ queue = <<>> /\ rd = ReaderReset /\ out = <<>>
  BY DEF LinkInit, LinkIdle
<1>3. frames \in Seq(Envelopes) /\ Len(frames) = n /\ 1 \in 1..n
  <2>1. n \in Nat /\ 1 \in 1..n
    BY LinkAssumption
  <2> QED
    BY <1>1, <2>1
<1>4. frames[1] \in Envelopes
  BY <1>1, <1>3
<1>5. Len(Wire(1)) >= 1
  <2>1. Len(FrameEncode(frames[1])) \in 1..MaxWire
    BY <1>4, FramesFit
  <2>2. Wire(1) = FrameEncode(frames[1])
    BY <1>4 DEF Wire, Encoded
  <2> QED
    BY <2>1, <2>2
<1>6. ReaderReset \in Readers /\ ReaderReset.wire = <<>> /\ Len(<<>>) = 0
  BY DEF ReaderReset, Readers
<1>7. WithinBuffers
  BY <1>2, <1>6, Sizes DEF WithinBuffers
<1> QED
  BY <1>2, <1>3, <1>5, <1>6, <1>7 DEF LinkInv, AllSent

\* The byte that leaves the peer is a byte, and the peer goes on to the next.
LEMMA GoesOn ==
    ASSUME LinkInv, ~AllSent
    PROVE  /\ NextByte \in Byte
           /\ Onward \in [frame : Nat \ {0}, at : Nat \ {0}]
           /\ Onward.frame <= Len(frames) => Onward.at <= Len(Wire(Onward.frame))
<1> DEFINE f == sending.frame
           i == sending.at
<1>1. /\ frames \in Seq(Envelopes) /\ f \in Nat \ {0} /\ i \in Nat \ {0}
      /\ i <= Len(Wire(f)) /\ ~(f > Len(frames)) /\ Len(frames) \in Nat
      /\ sending \in [frame : Nat \ {0}, at : Nat \ {0}]
  BY DEF LinkInv, AllSent
<1>2. ASSUME NEW g \in 1..Len(frames)
      PROVE  Wire(g) \in Seq(Byte) /\ Len(Wire(g)) \in Nat /\ Len(Wire(g)) >= 1
  <2>1. frames[g] \in Envelopes
    BY <1>1
  <2>2. Wire(g) = FrameEncode(frames[g])
    BY <2>1 DEF Wire, Encoded
  <2>3. FrameEncode(frames[g]) \in Seq(Byte) /\ Len(FrameEncode(frames[g])) \in 1..MaxWire
    BY <2>1, WireFits
  <2> QED
    BY <2>2, <2>3
<1>3. f \in 1..Len(frames)
  BY <1>1
<1>4. Wire(f)[i] \in Byte
  <2>1. i \in 1..Len(Wire(f))
    BY <1>1, <1>2, <1>3
  <2> QED
    BY <1>2, <1>3, <2>1
<1> DEFINE step == [sending EXCEPT !.at = @ + 1]
           new == [frame |-> f + 1, at |-> 1]
<1>5. CASE i < Len(Wire(f))
  <2>1. Onward = step
    BY <1>5 DEF Onward
  <2>2. step \in [frame : Nat \ {0}, at : Nat \ {0}] /\ step.frame = f /\ step.at = i + 1
    BY <1>1
  <2>3. i + 1 <= Len(Wire(f))
    BY <1>1, <1>2, <1>3, <1>5
  <2> HIDE DEF step
  <2> QED
    BY <1>4, <2>1, <2>2, <2>3 DEF NextByte
<1>6. CASE ~(i < Len(Wire(f)))
  <2>1. Onward = new
    BY <1>6 DEF Onward
  <2>2. new \in [frame : Nat \ {0}, at : Nat \ {0}] /\ new.frame = f + 1 /\ new.at = 1
    BY <1>1
  <2>3. f + 1 <= Len(frames) => 1 <= Len(Wire(f + 1))
    <3>1. f + 1 <= Len(frames) => f + 1 \in 1..Len(frames)
      BY <1>1
    <3> QED
      BY <1>2, <3>1
  <2> HIDE DEF new
  <2> QED
    BY <1>4, <2>1, <2>2, <2>3 DEF NextByte
<1> QED
  BY <1>5, <1>6

\* Every step of the peer, the stream and the pump keeps it so.
LEMMA LinkStep == LinkInv /\ [LinkNext]_linkVars => LinkInv'
<1> SUFFICES ASSUME LinkInv, [LinkNext]_linkVars PROVE LinkInv'
  OBVIOUS
<1>1. /\ frames \in Seq(Envelopes) /\ sending \in [frame : Nat \ {0}, at : Nat \ {0}]
      /\ (~AllSent => sending.at <= Len(Wire(sending.frame)))
      /\ queue \in Seq(Byte) /\ rd \in Readers /\ WithinBuffers
  BY DEF LinkInv
\* A step of the peer: the reader is left alone, and what arrives is bytes.
<1>2. ASSUME NEW bytes \in Seq(Byte), Arriving(bytes), sending' = Onward, ~AllSent
      PROVE  LinkInv'
  <2>1. /\ Onward \in [frame : Nat \ {0}, at : Nat \ {0}]
        /\ Onward.frame <= Len(frames) => Onward.at <= Len(Wire(Onward.frame))
        /\ Len(frames) \in Nat
    BY <1>1, <1>2, GoesOn
  <2>2. queue' = queue \o bytes /\ frames' = frames /\ rd' = rd /\ out' = out
    BY <1>2 DEF Arriving
  <2>3. queue' \in Seq(Byte)
    BY <1>1, <1>2, <2>2, ConcatProperties
  <2>4. ~AllSent' => sending'.at <= Len(Wire(sending.frame)')
    <3>1. Onward.frame \in Nat
      BY <2>1
    <3> QED
      BY <1>2, <2>1, <2>2, <3>1 DEF AllSent, Wire
  <2> QED
    BY <1>1, <1>2, <2>1, <2>2, <2>3, <2>4 DEF LinkInv, WithinBuffers
<1>3. ASSUME NEW bytes \in Seq(Byte), Arriving(bytes), UNCHANGED sending
      PROVE  LinkInv'
  <2>1. queue' = queue \o bytes /\ frames' = frames /\ rd' = rd /\ out' = out
    BY <1>3 DEF Arriving
  <2>2. queue' \in Seq(Byte)
    BY <1>1, <1>3, <2>1, ConcatProperties
  <2> QED
    BY <1>1, <1>3, <2>1, <2>2 DEF LinkInv, WithinBuffers, AllSent, Wire
<1>4. ASSUME NEW b \in Byte PROVE << b >> \in Seq(Byte)
  OBVIOUS
<1>5. /\ <<>> \in Seq(Byte) /\ \A b \in Damages : b \in Byte
      /\ 0 \in Byte /\ 1 \in Byte
  BY LinkAssumption DEF Byte
<1>6. CASE Arrives
  <2>1. NextByte \in Byte
    BY <1>6, GoesOn DEF Arrives
  <2> QED
    BY <1>2, <1>4, <1>6, <2>1 DEF Arrives
<1>7. CASE Lost
  BY <1>2, <1>5, <1>7 DEF Lost, Corrupted
<1>8. CASE Damaged
  BY <1>2, <1>4, <1>5, <1>8 DEF Damaged, Corrupted
<1>9. CASE Inserted
  BY <1>3, <1>4, <1>5, <1>9 DEF Inserted
<1>10. CASE Flood
  BY <1>3, <1>4, <1>5, <1>10 DEF Flood
<1>11. CASE PumpByte
  <2>1. /\ queue # <<>> /\ queue' = Tail(queue)
        /\ rd' = Feed(rd, Head(queue)).rd /\ out' = Feed(rd, Head(queue)).out
        /\ frames' = frames /\ sending' = sending
    BY <1>11 DEF PumpByte
  <2>2. Head(queue) \in Byte /\ queue' \in Seq(Byte)
    BY <1>1, <2>1, HeadTailProperties
  <2>3. /\ rd' \in Readers /\ Len(rd'.wire) <= MaxWire /\ Len(out') <= MaxDecoded
    BY <1>1, <2>1, <2>2, FeedFits DEF WithinBuffers
  <2> QED
    BY <1>1, <2>1, <2>2, <2>3 DEF LinkInv, WithinBuffers, AllSent, Wire
<1>12. CASE PumpBegin \/ PumpEnd \/ UNCHANGED linkVars
  <2>1. UNCHANGED <<frames, sending, queue, rd, out>>
    BY <1>12 DEF PumpBegin, PumpEnd, linkVars
  <2> QED
    BY <1>1, <2>1 DEF LinkInv, WithinBuffers, AllSent, Wire
<1> QED
  BY <1>6, <1>7, <1>8, <1>9, <1>10, <1>11, <1>12 DEF LinkNext

\* No input makes FrameReader write past wire_ or the caller's frame_out: not
\* a frame that is too long, a damaged code byte, nor bytes that are no frame
\* at all, for every size of the buffers and of a full run.
THEOREM ReaderStaysWithinBuffers == LinkSpec => []WithinBuffers
<1>1. LinkInv => WithinBuffers
  BY DEF LinkInv
<1> QED
  BY LinkStart, LinkStep, <1>1, PTL DEF LinkSpec

-----------------------------------------------------------------------------
(* What reaches the core.  The queue only delays: everything is said of the *)
(* reader as it will be once it has read what is under way.                 *)

\* A reader, and the envelopes it has returned.
Takings == {s \in [rd : Readers, got : Seq(Seq(Byte))] : Len(s.rd.wire) <= MaxWire}

\* It reads one more byte.
Taken(s, byte) ==
    LET fed == Feed(s.rd, byte)
    IN  [rd |-> fed.rd,
         got |-> IF fed.envelope = <<>> THEN s.got ELSE Append(s.got, fed.envelope)]

\* It reads the bytes of q and comes from s to t.
Takes(q, s, t) ==
    \E R : /\ R[0] = s /\ R[Len(q)] = t
           /\ \A i \in 1..Len(q) : R[i] = Taken(R[i - 1], q[i])

\* What feed() returns is bytes, and only at a delimiter.
LEMMA FeedReturns ==
    ASSUME NEW r \in Readers, Len(r.wire) <= MaxWire, NEW byte \in Byte
    PROVE  /\ Feed(r, byte).envelope \in Seq(Byte)
           /\ byte # 0 => Feed(r, byte).envelope = <<>>
           /\ byte = 0 => Feed(r, byte).rd = ReaderReset
<1> DEFINE decoded == IF r.overflow THEN DecodeStart ELSE CobsDecode(r.wire, MaxDecoded)
           n == Len(decoded.out)
           envelope == IF /\ ~decoded.bad /\ n >= 2
                          /\ FrameBuild(SubSeq(decoded.out, 1, n - 2)) = decoded.out
                       THEN SubSeq(decoded.out, 1, n - 2) ELSE <<>>
<1>1. decoded.out \in Seq(Byte)
  <2>1. CASE r.overflow
    BY <2>1 DEF DecodeStart
  <2>2. CASE ~r.overflow
    <3>1. r.wire \in Seq(Byte) /\ MaxDecoded \in Nat
      BY Sizes DEF Readers
    <3>2. Capped(CobsDecode(r.wire, MaxDecoded), r.wire, MaxDecoded)
      BY <3>1, DecoderCapped
    <3> QED
      BY <2>2, <3>2 DEF Capped, Decoders
  <2> QED
    BY <2>1, <2>2
<1> HIDE DEF decoded
<1>2. n \in Nat
  BY <1>1
<1>3. n >= 2 => SubSeq(decoded.out, 1, n - 2) \in Seq(Byte)
  BY <1>1, <1>2, SubSeqProperties
<1>4. envelope \in Seq(Byte)
  BY <1>3
<1> HIDE DEF envelope, n
<1>5. CASE byte # 0
  BY <1>5 DEF Feed
<1>6. CASE byte = 0
  BY <1>4, <1>6 DEF Feed, decoded, n, envelope
<1> QED
  BY <1>5, <1>6

\* A byte leaves the envelopes returned before, and only a delimiter adds one.
LEMMA TakenType ==
    ASSUME NEW s \in Takings, NEW byte \in Byte
    PROVE  /\ Taken(s, byte) \in Takings
           /\ Taken(s, byte).rd = Feed(s.rd, byte).rd
           /\ Len(s.got) <= Len(Taken(s, byte).got)
           /\ \A i \in 1..Len(s.got) : Taken(s, byte).got[i] = s.got[i]
           /\ byte # 0 => Taken(s, byte).got = s.got
<1> DEFINE fed == Feed(s.rd, byte)
           got == IF fed.envelope = <<>> THEN s.got ELSE Append(s.got, fed.envelope)
<1>1. /\ s.rd \in Readers /\ Len(s.rd.wire) <= MaxWire /\ s.got \in Seq(Seq(Byte))
  BY DEF Takings
<1>2. /\ fed.envelope \in Seq(Byte) /\ (byte # 0 => fed.envelope = <<>>)
      /\ fed.rd \in Readers /\ Len(fed.rd.wire) <= MaxWire
  BY <1>1, FeedReturns, FeedFits
<1>3. Taken(s, byte) = [rd |-> fed.rd, got |-> got]
  BY DEF Taken
<1> HIDE DEF fed
<1>4. /\ got \in Seq(Seq(Byte)) /\ Len(s.got) <= Len(got)
      /\ \A i \in 1..Len(s.got) : got[i] = s.got[i]
  <2>1. CASE fed.envelope = <<>>
    BY <1>1, <2>1
  <2>2. CASE fed.envelope # <<>>
    BY <1>1, <1>2, <2>2, AppendProperties
  <2> QED
    BY <2>1, <2>2
<1>5. byte # 0 => got = s.got
  BY <1>2
<1> HIDE DEF got
<1> QED
  BY <1>2, <1>3, <1>4, <1>5 DEF Takings, fed

\* No bytes, no change.
LEMMA TakesNothing == ASSUME NEW s PROVE Takes(<<>>, s, s)
<1> DEFINE R == [i \in {0} |-> s]
<1>1. R[0] = s /\ R[Len(<<>>)] = s /\ \A i \in 1..Len(<<>>) : R[i] = Taken(R[i - 1], <<>>[i])
  OBVIOUS
<1> QED
  BY <1>1 DEF Takes

\* One byte more under way is one byte more to read.
LEMMA TakesOneMore ==
    ASSUME NEW q \in Seq(Byte), NEW b \in Byte, NEW s, NEW t, Takes(q, s, t)
    PROVE  Takes(Append(q, b), s, Taken(t, b))
<1>1. PICK R : /\ R[0] = s /\ R[Len(q)] = t
               /\ \A i \in 1..Len(q) : R[i] = Taken(R[i - 1], q[i])
  BY DEF Takes
<1> DEFINE p == Append(q, b)
           n == Len(q)
           S == [i \in 0..(n + 1) |-> IF i = n + 1 THEN Taken(t, b) ELSE R[i]]
<1>2. /\ n \in Nat /\ Len(p) = n + 1 /\ p[n + 1] = b /\ \A i \in 1..n : p[i] = q[i]
  BY AppendProperties
<1> HIDE DEF p
<1>3. \A i \in 0..n : S[i] = R[i]
  BY <1>2
<1>4. S[n + 1] = Taken(t, b)
  BY <1>2
<1>5. S[0] = s /\ S[n] = t
  BY <1>1, <1>2, <1>3
<1> HIDE DEF S
<1>6. ASSUME NEW i \in 1..(n + 1) PROVE S[i] = Taken(S[i - 1], p[i])
  <2>1. CASE i = n + 1
    <3>1. i - 1 = n
      BY <1>2, <2>1
    <3> QED
      BY <1>2, <1>4, <1>5, <2>1, <3>1
  <2>2. CASE i # n + 1
    <3>1. i \in 1..n /\ i \in 0..n /\ i - 1 \in 0..n
      BY <1>2, <2>2
    <3> QED
      BY <1>1, <1>2, <1>3, <3>1
  <2> QED
    BY <2>1, <2>2
<1>7. S[Len(p)] = Taken(t, b) /\ \A i \in 1..Len(p) : S[i] = Taken(S[i - 1], p[i])
  BY <1>2, <1>4, <1>6
<1> QED
  BY <1>5, <1>7 DEF Takes, p

\* One byte read is one byte less to read.
LEMMA TakesFirst ==
    ASSUME NEW q \in Seq(Byte), q # <<>>, NEW s, NEW t, Takes(q, s, t)
    PROVE  Takes(Tail(q), Taken(s, Head(q)), t)
<1>1. PICK R : /\ R[0] = s /\ R[Len(q)] = t
               /\ \A i \in 1..Len(q) : R[i] = Taken(R[i - 1], q[i])
  BY DEF Takes
<1> DEFINE p == Tail(q)
           n == Len(q)
           S == [i \in 0..(n - 1) |-> R[i + 1]]
<1>2. /\ n \in Nat /\ n >= 1 /\ Len(p) = n - 1 /\ Head(q) = q[1]
      /\ \A i \in 1..(n - 1) : p[i] = q[i + 1]
  BY HeadTailProperties, EmptySeq
<1> HIDE DEF p
<1>3. \A i \in 0..(n - 1) : S[i] = R[i + 1]
  OBVIOUS
<1> HIDE DEF S
<1>4. S[0] = Taken(s, Head(q)) /\ S[n - 1] = t
  <2>1. /\ 0 \in 0..(n - 1) /\ 1 \in 1..n /\ n - 1 \in 0..(n - 1)
        /\ 0 + 1 = 1 /\ 1 - 1 = 0 /\ (n - 1) + 1 = n
    BY <1>2
  <2>2. S[0] = R[1] /\ S[n - 1] = R[n]
    BY <1>3, <2>1
  <2>3. R[1] = Taken(R[0], q[1])
    BY <1>1, <2>1
  <2> QED
    BY <1>1, <1>2, <2>2, <2>3
<1>5. ASSUME NEW i \in 1..(n - 1) PROVE S[i] = Taken(S[i - 1], p[i])
  <2>1. /\ i + 1 \in 1..n /\ (i + 1) - 1 = i /\ i \in 0..(n - 1) /\ i - 1 \in 0..(n - 1)
        /\ (i - 1) + 1 = i
    BY <1>2
  <2>2. R[i + 1] = Taken(R[i], q[i + 1])
    BY <1>1, <2>1
  <2>3. S[i] = R[i + 1] /\ S[i - 1] = R[i]
    BY <1>3, <2>1
  <2> QED
    BY <1>2, <2>2, <2>3
<1>6. S[Len(p)] = t /\ \A i \in 1..Len(p) : S[i] = Taken(S[i - 1], p[i])
  BY <1>2, <1>4, <1>5
<1> QED
  BY <1>4, <1>6 DEF Takes, p

\* What is under way adds envelopes behind the ones returned; without a
\* delimiter it adds none.
LEMMA TakesGrow ==
    ASSUME NEW q \in Seq(Byte), NEW s \in Takings, NEW t, Takes(q, s, t)
    PROVE  /\ t \in Takings /\ Len(s.got) <= Len(t.got)
           /\ \A k \in 1..Len(s.got) : t.got[k] = s.got[k]
           /\ ~Contains(q, 0) => t.got = s.got
<1>1. PICK R : /\ R[0] = s /\ R[Len(q)] = t
               /\ \A i \in 1..Len(q) : R[i] = Taken(R[i - 1], q[i])
  BY DEF Takes
<1> DEFINE Longer(u) == /\ u \in Takings /\ Len(s.got) <= Len(u.got)
                        /\ \A k \in 1..Len(s.got) : u.got[k] = s.got[k]
                        /\ ~Contains(q, 0) => u.got = s.got
           n == Len(q)
           S == {i \in 0..n : Longer(R[i])}
<1>2. n \in Nat /\ \A i \in 1..n : q[i] \in Byte
  OBVIOUS
<1>3. \A u \in Takings : Len(u.got) \in Nat
  BY DEF Takings
<1>4. Longer(s)
  BY <1>3
<1>5. ASSUME NEW u, Longer(u), NEW i \in 1..n PROVE Longer(Taken(u, q[i]))
  <2> DEFINE v == Taken(u, q[i])
  <2>1. /\ v \in Takings /\ Len(u.got) <= Len(v.got)
        /\ \A k \in 1..Len(u.got) : v.got[k] = u.got[k]
        /\ q[i] # 0 => v.got = u.got
    BY <1>2, <1>5, TakenType
  <2> HIDE DEF v
  <2>2. ~Contains(q, 0) => q[i] # 0
    BY <1>2 DEF Contains
  <2>3. /\ Len(s.got) \in Nat /\ Len(u.got) \in Nat /\ Len(v.got) \in Nat
    BY <1>3, <1>5, <2>1
  <2>4. Len(s.got) <= Len(v.got)
    BY <1>5, <2>1, <2>3
  <2>5. ASSUME NEW k \in 1..Len(s.got) PROVE v.got[k] = s.got[k]
    <3>1. k \in 1..Len(u.got)
      BY <1>5, <2>3
    <3>2. u.got[k] = s.got[k]
      BY <1>5
    <3>3. v.got[k] = u.got[k]
      BY ONLY <2>1, <3>1
    <3> QED
      BY ONLY <3>2, <3>3
  <2> QED
    BY <1>5, <2>1, <2>2, <2>4, <2>5 DEF v
<1> HIDE DEF Longer
<1>6. 0 \in S
  BY <1>1, <1>2, <1>4
<1>7. ASSUME NEW i \in 0..(n - 1), i \in S PROVE i + 1 \in S
  <2>1. i + 1 \in 1..n /\ i + 1 \in 0..n /\ (i + 1) - 1 = i /\ Longer(R[i])
    BY <1>2, <1>7
  <2>2. R[i + 1] = Taken(R[i], q[i + 1])
    BY <1>1, <2>1
  <2>3. Longer(R[i + 1])
    BY <1>5, <2>1, <2>2
  <2> QED
    BY <2>1, <2>3
<1> HIDE DEF S
<1>8. \A i \in 0..n : i \in S
  BY <1>2, <1>6, <1>7, ReachesAll
<1>9. Longer(t)
  BY <1>1, <1>2, <1>8 DEF S
<1>10. /\ t \in Takings /\ Len(s.got) <= Len(t.got)
       /\ \A k \in 1..Len(s.got) : t.got[k] = s.got[k]
       /\ ~Contains(q, 0) => t.got = s.got
  BY ONLY <1>9 DEF Longer
<1> QED
  BY ONLY <1>10

-----------------------------------------------------------------------------
(* No sound frame is lost. *)

\* The frames that have left the peer and were not spoilt.
Intact == (1..(sending.frame - 1)) \ damaged

\* They are among these envelopes, each at a place of its own and in order.
InOrder(got) ==
    \E place \in [Intact -> 1..Len(got)] :
        /\ \A f \in Intact : got[place[f]] = frames[f]
        /\ \A f, g \in Intact : f < g => place[f] < place[g]

\* Nothing but bytes with which no run begins.
Quiet(r) == \A i \in 1..Len(r.wire) : r.wire[i] = 1

\* The reader has read what has left the peer of the frame that is leaving,
\* unless that frame is spoilt.
UpToDate(t) ==
    sending.frame <= Len(frames) /\ sending.frame \notin damaged =>
        t.rd = Reading(Wire(sending.frame), sending.at - 1)

\* Before the first fault it has returned what has left the peer, and what
\* follows the last frame has not begun another.
Exact(t) ==
    faults = 0 =>
        /\ damaged = {} /\ Len(t.got) = sending.frame - 1
        /\ \A i \in 1..Len(t.got) : t.got[i] = frames[i]
        /\ AllSent => Quiet(t.rd)

Ahead(t) == UpToDate(t) /\ InOrder(t.got) /\ Exact(t)

SoundInv ==
    /\ LinkInv
    /\ delivered \in Seq(Seq(Byte)) /\ faults \in Nat
    /\ sending.frame <= Len(frames) + 1
    /\ \E t \in Takings : Takes(queue, [rd |-> rd, got |-> delivered], t) /\ Ahead(t)

\* More envelopes, as many intact frames.
LEMMA InOrderGrows ==
    ASSUME NEW got \in Seq(Seq(Byte)), NEW more \in Seq(Seq(Byte)), InOrder(got),
           Len(got) <= Len(more), \A i \in 1..Len(got) : more[i] = got[i],
           frames' = frames, Intact' = Intact
    PROVE  InOrder(more)'
<1>1. PICK place \in [Intact -> 1..Len(got)] :
          /\ \A f \in Intact : got[place[f]] = frames[f]
          /\ \A f, g \in Intact : f < g => place[f] < place[g]
  BY DEF InOrder
<1>2. Len(got) \in Nat /\ Len(more) \in Nat
  OBVIOUS
<1>3. place \in [Intact -> 1..Len(more)]
  BY <1>1, <1>2
<1>4. \A f \in Intact : more[place[f]] = frames[f]
  BY <1>1
<1>5. \E m \in [Intact -> 1..Len(more)] :
          /\ \A f \in Intact : more[m[f]] = frames[f]
          /\ \A f, g \in Intact : f < g => m[f] < m[g]
  BY <1>1, <1>3, <1>4
<1> QED
  BY <1>5 DEF InOrder

\* One more envelope, one more intact frame.
LEMMA InOrderAppends ==
    ASSUME NEW got \in Seq(Seq(Byte)), InOrder(got), NEW f \in Nat \ {0},
           frames[f] \in Seq(Byte), frames' = frames,
           Intact' = Intact \cup {f}, \A g \in Intact : g \in Nat /\ g < f
    PROVE  InOrder(Append(got, frames[f]))'
<1> DEFINE more == Append(got, frames[f])
           n == Len(got)
<1>1. PICK place \in [Intact -> 1..n] :
          /\ \A g \in Intact : got[place[g]] = frames[g]
          /\ \A g, h \in Intact : g < h => place[g] < place[h]
  BY DEF InOrder
<1>2. n \in Nat /\ Len(more) = n + 1 /\ more[n + 1] = frames[f] /\ \A i \in 1..n : more[i] = got[i]
  BY AppendProperties
<1> HIDE DEF more, n
<1> DEFINE m == [g \in Intact \cup {f} |-> IF g = f THEN n + 1 ELSE place[g]]
<1>3. m[f] = n + 1 /\ \A g \in Intact : m[g] = place[g] /\ place[g] \in 1..n /\ g # f
  BY <1>1
<1>4. m \in [Intact \cup {f} -> 1..(n + 1)]
  <2>1. n + 1 \in 1..(n + 1) /\ \A i \in 1..n : i \in 1..(n + 1)
    BY <1>2
  <2> QED
    BY <1>1, <2>1
<1> HIDE DEF m
<1>5. \A g \in Intact \cup {f} : more[m[g]] = frames[g]
  BY <1>1, <1>2, <1>3
<1>6. \A g, h \in Intact \cup {f} : g < h => m[g] < m[h]
  <2> SUFFICES ASSUME NEW g \in Intact \cup {f}, NEW h \in Intact \cup {f}, g < h
               PROVE  m[g] < m[h]
    OBVIOUS
  <2>1. g # f
    BY <2>1
  <2>2. g \in Intact
    BY <2>1
  <2>3. CASE h = f
    BY <1>2, <1>3, <2>2, <2>3
  <2>4. CASE h \in Intact
    BY <1>1, <1>3, <2>2, <2>4
  <2> QED
    BY <2>3, <2>4
<1>7. /\ m \in [Intact' -> 1..Len(more)]
      /\ \A g \in Intact' : more[m[g]] = frames'[g]
      /\ \A g, h \in Intact' : g < h => m[g] < m[h]
  BY <1>2, <1>4, <1>5, <1>6
<1>8. more' = more
  BY DEF more
<1>9. InOrder(more)'
  BY <1>7, <1>8 DEF InOrder
<1> QED
  BY <1>9 DEF more

\* The peer is at a byte of a frame, or at its delimiter.
LEMMA Leaving ==
    ASSUME LinkInv, ~AllSent
    PROVE  LET f == sending.frame
               w == Wire(f)
           IN  /\ f \in 1..Len(frames) /\ frames[f] \in Envelopes /\ w = FrameEncode(frames[f])
               /\ sending.at \in 1..Len(w) /\ NextByte = w[sending.at] /\ NextByte \in Byte
               /\ \/ /\ sending.at \in 1..(Len(w) - 1) /\ NextByte # 0
                     /\ Onward.frame = f /\ Onward.at = sending.at + 1
                  \/ /\ sending.at = Len(w) /\ NextByte = 0
                     /\ Onward.frame = f + 1 /\ Onward.at = 1
<1> DEFINE f == sending.frame
           i == sending.at
           w == Wire(f)
<1>1. /\ frames \in Seq(Envelopes) /\ f \in Nat \ {0} /\ i \in Nat \ {0}
      /\ i <= Len(w) /\ ~(f > Len(frames)) /\ Len(frames) \in Nat
      /\ sending \in [frame : Nat \ {0}, at : Nat \ {0}]
  BY DEF LinkInv, AllSent
<1>2. f \in 1..Len(frames) /\ frames[f] \in Envelopes
  BY <1>1
<1>3. w = FrameEncode(frames[f])
  BY <1>2 DEF Wire, Encoded
<1>4. Len(w) \in 1..MaxWire /\ \A k \in 1..Len(w) : w[k] = 0 <=> k = Len(w)
  BY <1>2, <1>3, FramesFit
<1>5. Len(w) \in Nat /\ i \in 1..Len(w)
  BY <1>1, <1>4, Sizes
<1>6. NextByte = w[i] /\ NextByte \in Byte
  BY GoesOn DEF NextByte
<1>7. CASE i < Len(w)
  <2> DEFINE step == [sending EXCEPT !.at = @ + 1]
  <2>1. Onward = step
    BY <1>7 DEF Onward
  <2>2. step.frame = f /\ step.at = i + 1
    BY <1>1
  <2>3. i \in 1..(Len(w) - 1) /\ i # Len(w)
    BY <1>5, <1>7
  <2> HIDE DEF step, w
  <2> QED
    BY <1>2, <1>3, <1>4, <1>5, <1>6, <2>1, <2>2, <2>3 DEF w
<1>8. CASE ~(i < Len(w))
  <2> DEFINE new == [frame |-> f + 1, at |-> 1]
  <2>1. Onward = new
    BY <1>8 DEF Onward
  <2>2. new.frame = f + 1 /\ new.at = 1
    OBVIOUS
  <2>3. i = Len(w)
    BY <1>5, <1>8
  <2> HIDE DEF new, w
  <2> QED
    BY <1>2, <1>3, <1>4, <1>5, <1>6, <2>1, <2>2, <2>3 DEF w
<1> QED
  BY <1>5, <1>7, <1>8

\* What a reader that is up to date with a frame makes of its next byte.
LEMMA FrameTaken ==
    ASSUME NEW e \in Envelopes, NEW i \in 1..Len(FrameEncode(e)), NEW t \in Takings,
           t.rd = Reading(FrameEncode(e), i - 1)
    PROVE  LET w == FrameEncode(e)
               u == Taken(t, w[i])
           IN  /\ i < Len(w) => u.rd = Reading(w, i) /\ u.got = t.got
               /\ i = Len(w) => u.rd = ReaderReset /\ u.got = Append(t.got, e)
<1> DEFINE w == FrameEncode(e)
           fed(k) == Feed(Reading(w, k - 1), w[k])
           u == Taken(t, w[i])
<1>1. /\ \A k \in 1..(Len(w) - 1) : fed(k).rd = Reading(w, k) /\ fed(k).envelope = <<>>
      /\ fed(Len(w)) = [rd |-> ReaderReset, out |-> FrameBuild(e), envelope |-> e]
  BY FrameArrives
<1>2. e # <<>>
  BY LinkAssumption
<1>3. Feed(t.rd, w[i]) = fed(i)
  OBVIOUS
<1>4. Len(w) \in Nat
  BY FramesFit, Sizes
<1> HIDE DEF w
<1>5. CASE i < Len(w)
  <2>1. i \in 1..(Len(w) - 1)
    BY <1>4, <1>5 DEF w
  <2>2. fed(i).rd = Reading(w, i) /\ fed(i).envelope = <<>>
    BY <1>1, <2>1
  <2> QED
    BY <1>3, <1>4, <1>5, <2>2 DEF Taken, w
<1>6. CASE i = Len(w)
  <2>1. fed(i).rd = ReaderReset /\ fed(i).envelope = e
    BY <1>1, <1>6
  <2> QED
    BY <1>2, <1>3, <1>4, <1>6, <2>1 DEF Taken, w
<1> QED
  BY <1>5, <1>6, <1>4 DEF w

\* Which frames are intact after a step of the peer.
LEMMA IntactAfter ==
    ASSUME NEW f \in Nat \ {0}, sending.frame = f, sending'.frame \in {f, f + 1},
           damaged \subseteq damaged', damaged' \subseteq damaged \cup {f, f + 1}
    PROVE  /\ \A g \in Intact : g \in Nat /\ g < f
           /\ sending'.frame = f \/ f \in damaged' => Intact' = Intact
           /\ sending'.frame = f + 1 /\ f \notin damaged' => Intact' = Intact \cup {f}
<1>1. Intact = (1..(f - 1)) \ damaged /\ Intact' = (1..(sending'.frame - 1)) \ damaged'
  BY DEF Intact
<1>2. \A g : g \in 1..(f - 1) <=> g \in Nat /\ g >= 1 /\ g < f
  OBVIOUS
<1>3. \A g : g \in 1..((f + 1) - 1) <=> g = f \/ (g \in Nat /\ g >= 1 /\ g < f)
  OBVIOUS
<1>4. \A g \in Nat : g < f => g # f /\ g # f + 1
  OBVIOUS
<1> QED
  BY <1>1, <1>2, <1>3, <1>4

-----------------------------------------------------------------------------
(* Bytes that are no frame. *)

\* Runs of no bytes decode to zeros.
LEMMA DecodesOnes ==
    ASSUME NEW src \in Seq(Byte), NEW cap \in Nat, \A i \in 1..Len(src) : src[i] = 1
    PROVE  LET o == CobsDecode(src, cap).out
           IN  o \in Seq(Byte) /\ Len(o) <= cap /\ \A i \in 1..Len(o) : o[i] = 0
<1> DEFINE Zeros(d) == \A i \in 1..Len(d.out) : d.out[i] = 0
           D == Decoder(src, cap)
           n == Len(src)
           S == {i \in 0..n : Zeros(D[i])}
<1>1. /\ n \in Nat /\ D[0] = DecodeStart
      /\ \A i \in 1..n : D[i] = DecodeBlock(src, cap, D[i - 1])
      /\ \A i \in 0..n : Capped(D[i], src, cap)
  BY DecoderTurns, DecoderCapped
<1>2. ASSUME NEW d, Capped(d, src, cap), Zeros(d)
      PROVE  Zeros(DecodeBlock(src, cap, d))
  <2> DEFINE o == d.out
             run == o \o SubSeq(src, d.at + 1, (d.at + src[d.at]) - 1)
  <2>1. d \in Decoders /\ d.at \in 1..(n + 1) /\ o \in Seq(Byte) /\ Len(o) \in Nat
    BY <1>2 DEF Capped, Decoders
  <2>2. CASE d.bad \/ d.at > n
    BY <1>2, <2>2 DEF DecodeBlock
  <2>3. CASE ~(d.bad \/ d.at > n)
    <3>1. d.at \in 1..n /\ src[d.at] = 1
      BY <1>1, <2>1, <2>3
    <3>2. SubSeq(src, d.at + 1, (d.at + src[d.at]) - 1) = <<>>
      <4>1. d.at + 1 \in Nat /\ (d.at + src[d.at]) - 1 = d.at
        BY <3>1
      <4>2. SubSeq(src, d.at + 1, d.at) = <<>>
        BY <3>1, SubSeqProperties
      <4> QED
        BY <4>1, <4>2
    <3>3. run = o
      <4>1. run = o \o <<>>
        BY <3>2
      <4> HIDE DEF run, o
      <4> QED
        BY <2>1, <4>1, ConcatEmptySeq
    <3> DEFINE new == DecodeBlock(src, cap, d).out
    <3>4. \/ DecodeBlock(src, cap, d) = [d EXCEPT !.bad = TRUE]
          \/ DecodeBlock(src, cap, d).out = run
          \/ DecodeBlock(src, cap, d).out = Append(run, 0)
      BY <2>3 DEF DecodeBlock
    <3> HIDE DEF run
    <3>5. [d EXCEPT !.bad = TRUE].out = o
      BY <2>1 DEF Decoders
    <3>6. new = o \/ new = Append(o, 0)
      BY <3>3, <3>4, <3>5
    <3> HIDE DEF new
    <3>7. \A i \in 1..Len(o) : o[i] = 0
      BY <1>2
    <3>8. \A i \in 1..Len(new) : new[i] = 0
      BY <2>1, <3>6, <3>7, AppendProperties
    <3> QED
      BY <3>8 DEF new
  <2> QED
    BY <2>2, <2>3
<1>3. Zeros(DecodeStart)
  BY DEF DecodeStart
<1> HIDE DEF Zeros, D
<1>4. 0 \in S
  BY <1>1, <1>3
<1>5. ASSUME NEW i \in 0..(n - 1), i \in S PROVE i + 1 \in S
  <2>1. i + 1 \in 1..n /\ i + 1 \in 0..n /\ (i + 1) - 1 = i /\ i \in 0..n /\ Zeros(D[i])
    BY <1>1, <1>5
  <2> QED
    BY <1>1, <1>2, <2>1
<1> HIDE DEF S
<1>6. \A i \in 0..n : i \in S
  BY <1>1, <1>4, <1>5, ReachesAll
<1>7. Zeros(D[n])
  BY <1>1, <1>6 DEF S
<1>8. Capped(CobsDecode(src, cap), src, cap) /\ CobsDecode(src, cap) = D[n]
  BY DecoderCapped DEF CobsDecode, D
<1> QED
  BY <1>7, <1>8 DEF Zeros, Capped, Decoders

\* Zeros are no frame.
LEMMA ZerosAreNoFrame ==
    ASSUME NEW o \in Seq(Byte), Len(o) <= MaxDecoded, Len(o) > 2,
           \A i \in 1..Len(o) : o[i] = 0
    PROVE  FrameBuild(SubSeq(o, 1, Len(o) - 2)) # o
<1> DEFINE k == Len(o) - 2
           z == [i \in 1..k |-> 0]
           c == Crc16(z)
           q == c \div 256
           r == c % 256
<1>1. Len(o) \in Nat /\ k \in 1..MaxPayload /\ k \in Nat
  BY Sizes, LinkAssumption DEF MaxDecoded
<1>2. z \in Seq(Byte) /\ Len(z) = k
  BY <1>1 DEF Byte
<1>3. SubSeq(o, 1, k) = z
  <2>1. /\ SubSeq(o, 1, k) \in Seq(Byte) /\ Len(SubSeq(o, 1, k)) = k
        /\ \A i \in 1..k : SubSeq(o, 1, k)[i] = o[i]
    <3>1. /\ 1 \in 1..(Len(o) + 1) /\ k \in 0..Len(o) /\ k - 1 + 1 = k
          /\ \A i \in 1..k : 1 + i - 1 = i
      BY <1>1
    <3> QED
      BY <1>1, <3>1, SubSeqProperties
  <2>2. \A i \in 1..k : SubSeq(o, 1, k)[i] = z[i]
    BY <1>1, <2>1
  <2> DEFINE p == SubSeq(o, 1, k)
  <2> HIDE DEF p, z, k
  <2>3. p \in Seq(Byte) /\ z \in Seq(Byte) /\ Len(p) = Len(z) /\ \A i \in 1..Len(p) : p[i] = z[i]
    BY <1>2, <2>1, <2>2 DEF p
  <2>4. p = z
    BY <2>3, SeqEqual
  <2> QED
    BY <2>4 DEF p
<1>4. c \in Nat \ {0}
  BY <1>1, ZerosAssumption
<1> HIDE DEF z, c
<1>5. ~(r = 0 /\ q = 0)
  BY <1>4
<1> HIDE DEF r, q
<1>6. ASSUME FrameBuild(z) = o PROVE FALSE
  <2>1. FrameBuild(z) = z \o <<r, q>>
    BY DEF FrameBuild, c, r, q
  <2>2. o[k + 1] = r /\ o[k + 2] = q
    <3>1. /\ (z \o <<r, q>>)[k + 1] = <<r, q>>[(k + 1) - k]
          /\ (z \o <<r, q>>)[k + 2] = <<r, q>>[(k + 2) - k]
      <4>1. z \in Seq(Byte \cup {r, q}) /\ <<r, q>> \in Seq(Byte \cup {r, q}) /\ Len(<<r, q>>) = 2
        BY <1>2
      <4>2. /\ k + 1 \in 1..(Len(z) + 2) /\ k + 1 > Len(z)
            /\ k + 2 \in 1..(Len(z) + 2) /\ k + 2 > Len(z)
        BY <1>1, <1>2
      <4> QED
        BY <1>2, <4>1, <4>2, ConcatProperties
    <3>2. (k + 1) - k = 1 /\ (k + 2) - k = 2
      BY <1>1
    <3> QED
      BY <1>6, <2>1, <3>1, <3>2
  <2>3. k + 1 \in 1..Len(o) /\ k + 2 \in 1..Len(o)
    BY <1>1
  <2> QED
    BY <1>5, <2>2, <2>3
<1> QED
  BY <1>3, <1>6

\* A reader that has nothing but such bytes returns nothing.
LEMMA QuietTaken ==
    ASSUME NEW r \in Readers, Len(r.wire) <= MaxWire, Quiet(r), NEW b \in {0, 1}
    PROVE  Feed(r, b).envelope = <<>> /\ Quiet(Feed(r, b).rd)
<1> DEFINE decoded == IF r.overflow THEN DecodeStart ELSE CobsDecode(r.wire, MaxDecoded)
           o == decoded.out
           n == Len(o)
<1>1. r.wire \in Seq(Byte) /\ Len(r.wire) \in Nat
  BY DEF Readers
<1>2. o \in Seq(Byte) /\ n <= MaxDecoded /\ \A i \in 1..n : o[i] = 0
  <2>1. CASE r.overflow
    BY <2>1, Sizes DEF DecodeStart
  <2>2. CASE ~r.overflow
    <3>1. \A i \in 1..Len(r.wire) : r.wire[i] = 1
      BY DEF Quiet
    <3> QED
      BY <1>1, <2>2, <3>1, DecodesOnes, Sizes
  <2> QED
    BY <2>1, <2>2
<1> HIDE DEF decoded
<1>3. n \in Nat
  BY <1>2
<1>4. n > 2 => FrameBuild(SubSeq(o, 1, n - 2)) # o
  BY <1>2, ZerosAreNoFrame
<1>5. n = 2 => SubSeq(o, 1, n - 2) = <<>>
  BY <1>2, SubSeqProperties
<1>6. CASE b = 0
  <2>1. Feed(r, b).envelope = IF /\ ~decoded.bad /\ n >= 2
                                 /\ FrameBuild(SubSeq(o, 1, n - 2)) = o
                              THEN SubSeq(o, 1, n - 2) ELSE <<>>
    BY <1>6 DEF Feed, decoded
  <2>2. Feed(r, b).envelope = <<>>
    BY <1>3, <1>4, <1>5, <2>1
  <2>3. Feed(r, b).rd = ReaderReset
    BY <1>6 DEF Feed
  <2> QED
    BY <2>2, <2>3 DEF Quiet, ReaderReset
<1>7. CASE b = 1
  <2>1. Feed(r, b).envelope = <<>>
    BY <1>7 DEF Feed
  <2>2. \/ Feed(r, b).rd = [r EXCEPT !.overflow = TRUE]
        \/ Feed(r, b).rd = [r EXCEPT !.wire = Append(r.wire, b)]
    BY <1>7 DEF Feed
  <2>3. /\ [r EXCEPT !.overflow = TRUE].wire = r.wire
        /\ [r EXCEPT !.wire = Append(r.wire, b)].wire = Append(r.wire, b)
    BY DEF Readers
  <2>4. \A i \in 1..Len(Append(r.wire, b)) : Append(r.wire, b)[i] = 1
    <3>1. \A i \in 1..Len(r.wire) : r.wire[i] = 1
      BY DEF Quiet
    <3> QED
      BY <1>1, <1>7, <3>1, AppendProperties DEF Byte
  <2>5. Feed(r, b).rd.wire = r.wire \/ Feed(r, b).rd.wire = Append(r.wire, b)
    BY <2>2, <2>3
  <2> QED
    BY <2>1, <2>4, <2>5 DEF Quiet
<1> QED
  BY <1>6, <1>7

-----------------------------------------------------------------------------
(* The link keeps the order. *)

\* What the queue makes of the reader when a byte arrives.
LEMMA OneArrives ==
    ASSUME NEW t \in Takings, NEW b \in Byte, queue \in Seq(Byte),
           Takes(queue, [rd |-> rd, got |-> delivered], t), Arriving(<<b>>)
    PROVE  /\ Takes(queue', [rd |-> rd', got |-> delivered'], Taken(t, b))
           /\ delivered' = delivered /\ frames' = frames
<1>1. queue' = queue \o <<b>> /\ rd' = rd /\ delivered' = delivered /\ frames' = frames
  BY DEF Arriving
<1>2. queue' = Append(queue, b)
  BY <1>1
<1>3. Takes(Append(queue, b), [rd |-> rd, got |-> delivered], Taken(t, b))
  BY TakesOneMore
<1>4. Takes(queue', [rd |-> rd', got |-> delivered'], Taken(t, b))
  BY <1>1, <1>2, <1>3
<1> QED
  BY <1>1, <1>4

\* A reader that has read nothing of a frame is idle.
LEMMA NothingRead == \A x : Reading(x, 0) = ReaderReset
<1> TAKE x
<1>1. SubSeq(x, 1, 0) = <<>>
  BY SubSeqEmpty
<1> QED
  BY <1>1 DEF Reading, ReaderReset

\* At first nothing has left the peer.
LEMMA SoundStart == LinkInit => SoundInv
<1> SUFFICES ASSUME LinkInit PROVE SoundInv
  OBVIOUS
<1> DEFINE t == [rd |-> ReaderReset, got |-> <<>>]
<1>1. LinkInv
  BY LinkStart
<1>2. /\ sending = [frame |-> 1, at |-> 1] /\ damaged = {} /\ faults = 0 /\ queue = <<>>
      /\ rd = ReaderReset /\ delivered = <<>>
  BY DEF LinkInit, LinkIdle
<1>3. frames \in Seq(Envelopes) /\ Len(frames) \in Nat
  BY <1>1 DEF LinkInv
<1>4. /\ ReaderReset \in Readers /\ ReaderReset.wire = <<>> /\ Len(<<>>) = 0
      /\ ReaderReset = Reading(Wire(1), 0)
  <2>1. ReaderReset \in Readers /\ ReaderReset.wire = <<>> /\ Len(<<>>) = 0
    BY DEF ReaderReset, Readers
  <2> QED
    BY <2>1, NothingRead
<1>5. t \in Takings
  BY <1>4, Sizes DEF Takings
<1>6. Takes(queue, [rd |-> rd, got |-> delivered], t)
  BY <1>2, TakesNothing
<1>7. UpToDate(t)
  BY <1>2, <1>4 DEF UpToDate
<1>8. InOrder(t.got)
  <2>1. Intact = {} /\ [f \in {} |-> 1] \in [{} -> 1..Len(t.got)]
    BY <1>2 DEF Intact
  <2> QED
    BY <2>1 DEF InOrder
<1>9. Exact(t)
  BY <1>2, <1>4 DEF Exact, Quiet
<1> HIDE DEF t
<1> QED
  BY <1>1, <1>2, <1>3, <1>5, <1>6, <1>7, <1>8, <1>9 DEF SoundInv, Ahead

\* The peer's next byte arrives.
LEMMA SoundArrival ==
    ASSUME SoundInv, Arrives, LinkInv' PROVE SoundInv'
<1>0. /\ ~AllSent /\ LinkInv /\ queue \in Seq(Byte) /\ frames \in Seq(Envelopes)
      /\ delivered \in Seq(Seq(Byte)) /\ faults \in Nat
  BY DEF SoundInv, LinkInv, Arrives
<1>1. PICK t \in Takings : Takes(queue, [rd |-> rd, got |-> delivered], t) /\ Ahead(t)
  BY DEF SoundInv
<1>2. PICK f, w, i, b : f = sending.frame /\ w = Wire(f) /\ i = sending.at /\ b = NextByte
  OBVIOUS
<1>3. /\ f \in 1..Len(frames) /\ frames[f] \in Envelopes /\ w = FrameEncode(frames[f])
      /\ i \in 1..Len(w) /\ b = w[i] /\ b \in Byte
      /\ \/ i \in 1..(Len(w) - 1) /\ b # 0 /\ Onward.frame = f /\ Onward.at = i + 1
         \/ i = Len(w) /\ b = 0 /\ Onward.frame = f + 1 /\ Onward.at = 1
  BY <1>0, <1>2, Leaving
<1>4. /\ Arriving(<<b>>) /\ sending' = Onward /\ damaged' = damaged /\ faults' = faults
  BY <1>2 DEF Arrives
<1> PICK u : u = Taken(t, b)
  OBVIOUS
<1>5. /\ Takes(queue', [rd |-> rd', got |-> delivered'], u) /\ u \in Takings
      /\ delivered' = delivered /\ frames' = frames
  BY <1>0, <1>1, <1>3, <1>4, OneArrives, TakenType
<1>6. /\ u.rd = Feed(t.rd, b).rd /\ Len(t.got) <= Len(u.got)
      /\ \A k \in 1..Len(t.got) : u.got[k] = t.got[k]
      /\ b # 0 => u.got = t.got
  BY <1>3, TakenType
<1>7. /\ t.rd \in Readers /\ Len(t.rd.wire) <= MaxWire /\ t.got \in Seq(Seq(Byte))
      /\ u.got \in Seq(Seq(Byte)) /\ frames[f] \in Seq(Byte)
  BY <1>3, <1>5, LinkAssumption DEF Takings
<1>8. f \notin damaged => /\ i < Len(w) => u.rd = Reading(w, i) /\ u.got = t.got
                          /\ i = Len(w) => u.rd = ReaderReset /\ u.got = Append(t.got, frames[f])
  <2> SUFFICES ASSUME f \notin damaged
               PROVE  /\ i < Len(w) => u.rd = Reading(w, i) /\ u.got = t.got
                      /\ i = Len(w) => u.rd = ReaderReset /\ u.got = Append(t.got, frames[f])
    OBVIOUS
  <2>1. f <= Len(frames)
    BY <1>0, <1>3
  <2>2. t.rd = Reading(w, i - 1)
    BY <1>1, <1>2, <2>1 DEF Ahead, UpToDate
  <2> QED
    BY <1>3, <2>2, FrameTaken
<1>9. i = Len(w) => u.rd = ReaderReset
  BY <1>3, <1>6, <1>7, FeedReturns
<1>10. /\ Len(frames) \in Nat /\ f \in Nat \ {0} /\ f <= Len(frames) /\ i \in Nat /\ Len(w) \in Nat
       /\ sending'.frame \in {f, f + 1} /\ Len(t.got) \in Nat
  <2>1. Len(w) \in 1..MaxWire /\ MaxWire \in Nat
    BY <1>3, FramesFit, Sizes
  <2> QED
    BY <1>0, <1>3, <1>4, <1>7, <2>1
<1>11. /\ \A g \in Intact : g \in Nat /\ g < f
       /\ sending'.frame = f \/ f \in damaged' => Intact' = Intact
       /\ sending'.frame = f + 1 /\ f \notin damaged' => Intact' = Intact \cup {f}
  BY <1>2, <1>4, <1>10, IntactAfter
<1>12. \A g : Wire(g)' = Wire(g)
  BY <1>5 DEF Wire
<1>13. UpToDate(u)'
  <2>1. CASE i < Len(w)
    <3>1. sending'.frame = f /\ sending'.at = i + 1 /\ (i + 1) - 1 = i
      BY <1>3, <1>4, <1>10, <2>1
    <3>2. f \notin damaged' => u.rd = Reading(w, i)
      BY <1>4, <1>8, <2>1
    <3> QED
      BY <1>2, <1>12, <3>1, <3>2 DEF UpToDate
  <2>2. CASE i = Len(w)
    <3>1. sending'.frame = f + 1 /\ sending'.at = 1 /\ 1 - 1 = 0
      BY <1>3, <1>4, <1>10, <2>2
    <3> QED
      BY <1>9, <2>2, <3>1, NothingRead DEF UpToDate
  <2> QED
    BY <1>3, <1>10, <2>1, <2>2
<1>14. InOrder(u.got)'
  <2>1. InOrder(t.got)
    BY <1>1 DEF Ahead
  <2>2. PICK got, more : got = t.got /\ more = u.got
    OBVIOUS
  <2>3. CASE sending'.frame = f \/ f \in damaged'
    <3>1. Intact' = Intact
      BY <1>11, <2>3
    <3> QED
      BY <1>5, <1>6, <1>7, <2>1, <2>2, <3>1, InOrderGrows
  <2>4. CASE sending'.frame = f + 1 /\ f \notin damaged'
    <3>1. Intact' = Intact \cup {f} /\ \A g \in Intact : g \in Nat /\ g < f
      BY <1>11, <2>4
    <3>2. more = Append(got, frames[f])
      BY <1>3, <1>4, <1>8, <1>10, <2>2, <2>4
    <3> QED
      BY <1>5, <1>7, <1>10, <2>1, <2>2, <3>1, <3>2, InOrderAppends
  <2> QED
    BY <1>10, <2>3, <2>4
<1>15. Exact(u)'
  <2> SUFFICES ASSUME faults' = 0 PROVE Exact(u)'
    BY DEF Exact
  <2>1. /\ damaged = {} /\ Len(t.got) = f - 1 /\ \A k \in 1..Len(t.got) : t.got[k] = frames[k]
    BY <1>1, <1>2, <1>4 DEF Ahead, Exact
  <2>2. f \notin damaged /\ damaged' = {}
    BY <1>4, <2>1
  <2>3. CASE i < Len(w)
    <3>1. sending'.frame = f /\ u.got = t.got
      BY <1>3, <1>4, <1>8, <1>10, <2>2, <2>3
    <3>2. ~AllSent'
      BY <1>5, <1>10, <3>1 DEF AllSent
    <3> QED
      BY <1>5, <2>1, <2>2, <3>1, <3>2 DEF Exact
  <2>4. CASE i = Len(w)
    <3>1. sending'.frame = f + 1
      BY <1>3, <1>4, <1>10, <2>4
    <3>2. u.got = Append(t.got, frames[f])
      BY <1>8, <2>2, <2>4
    <3>3. Len(u.got) = f /\ \A k \in 1..Len(u.got) : u.got[k] = frames[k]
      <4>1. /\ Len(u.got) = (f - 1) + 1 /\ u.got[(f - 1) + 1] = frames[f]
            /\ \A k \in 1..(f - 1) : u.got[k] = t.got[k]
        BY <1>7, <2>1, <3>2, AppendProperties
      <4>2. (f - 1) + 1 = f /\ \A k \in 1..f : k = f \/ k \in 1..(f - 1)
        BY <1>10
      <4> QED
        BY <2>1, <4>1, <4>2
    <3>4. Quiet(u.rd)
      BY <1>9, <2>4 DEF Quiet, ReaderReset
    <3>5. (f + 1) - 1 = f
      BY <1>10
    <3> QED
      BY <1>5, <2>2, <3>1, <3>3, <3>4, <3>5 DEF Exact
  <2> QED
    BY <1>3, <1>10, <2>3, <2>4
<1>16. sending'.frame <= Len(frames') + 1
  BY <1>5, <1>10
<1>17. Ahead(u)'
  BY <1>13, <1>14, <1>15 DEF Ahead
<1> QED
  BY <1>0, <1>4, <1>5, <1>16, <1>17 DEF SoundInv

\* What arrives, no byte or one, leaves the envelopes and puts more behind them.
LEMMA SomeArrive ==
    ASSUME NEW t \in Takings, NEW bytes, queue \in Seq(Byte),
           bytes = <<>> \/ \E b \in Byte : bytes = << b >>,
           Takes(queue, [rd |-> rd, got |-> delivered], t), Arriving(bytes)
    PROVE  /\ delivered' = delivered /\ frames' = frames
           /\ \E u \in Takings : /\ Takes(queue', [rd |-> rd', got |-> delivered'], u)
                                 /\ Len(t.got) <= Len(u.got)
                                 /\ \A k \in 1..Len(t.got) : u.got[k] = t.got[k]
<1>1. CASE bytes = <<>>
  <2>1. queue' = queue \o <<>> /\ rd' = rd /\ delivered' = delivered /\ frames' = frames
    BY <1>1 DEF Arriving
  <2>2. queue' = queue
    BY <2>1, ConcatEmptySeq
  <2>3. Len(t.got) \in Nat
    BY DEF Takings
  <2> QED
    BY <2>1, <2>2, <2>3
<1>2. CASE \E b \in Byte : bytes = << b >>
  <2>1. PICK b \in Byte : bytes = << b >>
    BY <1>2
  <2>2. /\ Takes(queue', [rd |-> rd', got |-> delivered'], Taken(t, b))
        /\ delivered' = delivered /\ frames' = frames
    BY <2>1, OneArrives
  <2>3. /\ Taken(t, b) \in Takings /\ Len(t.got) <= Len(Taken(t, b).got)
        /\ \A k \in 1..Len(t.got) : Taken(t, b).got[k] = t.got[k]
    BY TakenType
  <2> QED
    BY <2>2, <2>3
<1> QED
  BY <1>1, <1>2

\* A byte is lost, or another arrives in its place: the frame it was of is
\* spoilt, and with a delimiter the one behind it.
LEMMA SoundFault ==
    ASSUME SoundInv, NEW bytes, bytes = <<>> \/ \E b \in Byte : bytes = << b >>,
           Corrupted(bytes), LinkInv'
    PROVE  SoundInv'
<1>0. /\ ~AllSent /\ LinkInv /\ queue \in Seq(Byte) /\ frames \in Seq(Envelopes)
      /\ delivered \in Seq(Seq(Byte)) /\ faults \in Nat
  BY DEF SoundInv, LinkInv, Corrupted
<1>1. PICK t \in Takings : Takes(queue, [rd |-> rd, got |-> delivered], t) /\ Ahead(t)
  BY DEF SoundInv
<1>2. PICK f : f = sending.frame
  OBVIOUS
<1>3. /\ f \in 1..Len(frames)
      /\ \/ NextByte # 0 /\ Onward.frame = f
         \/ NextByte = 0 /\ Onward.frame = f + 1
  BY <1>0, <1>2, Leaving
<1>4. /\ Arriving(bytes) /\ sending' = Onward /\ faults' = faults + 1
      /\ damaged' = damaged \cup (IF NextByte = 0 THEN {f, f + 1} ELSE {f})
  BY <1>2 DEF Corrupted
<1>5. /\ delivered' = delivered /\ frames' = frames
      /\ \E u \in Takings : /\ Takes(queue', [rd |-> rd', got |-> delivered'], u)
                            /\ Len(t.got) <= Len(u.got)
                            /\ \A k \in 1..Len(t.got) : u.got[k] = t.got[k]
  BY <1>0, <1>1, <1>4, SomeArrive
<1>6. PICK u \in Takings : /\ Takes(queue', [rd |-> rd', got |-> delivered'], u)
                           /\ Len(t.got) <= Len(u.got)
                           /\ \A k \in 1..Len(t.got) : u.got[k] = t.got[k]
  BY <1>5
<1>7. /\ Len(frames) \in Nat /\ f \in Nat \ {0} /\ f <= Len(frames)
      /\ sending'.frame \in {f, f + 1} /\ sending'.frame \in damaged' /\ f \in damaged'
      /\ damaged \subseteq damaged' /\ damaged' \subseteq damaged \cup {f, f + 1}
  BY <1>0, <1>3, <1>4
<1>8. Intact' = Intact
  BY <1>2, <1>7, IntactAfter
<1>9. InOrder(u.got)'
  <2>1. InOrder(t.got) /\ t.got \in Seq(Seq(Byte)) /\ u.got \in Seq(Seq(Byte))
    BY <1>1 DEF Ahead, Takings
  <2>2. PICK got, more : got = t.got /\ more = u.got
    OBVIOUS
  <2> QED
    BY <1>5, <1>6, <1>8, <2>1, <2>2, InOrderGrows
<1>10. UpToDate(u)' /\ Exact(u)'
  <2>1. faults' # 0 /\ faults' \in Nat
    BY <1>0, <1>4
  <2> QED
    BY <1>7, <2>1 DEF UpToDate, Exact
<1>11. sending'.frame <= Len(frames') + 1 /\ faults' \in Nat /\ delivered' \in Seq(Seq(Byte))
  BY <1>0, <1>4, <1>5, <1>7
<1>12. Ahead(u)'
  BY <1>9, <1>10 DEF Ahead
<1> QED
  BY <1>6, <1>11, <1>12 DEF SoundInv

\* A byte of another program's, before a frame.
LEMMA SoundInserted ==
    ASSUME SoundInv, Inserted, LinkInv' PROVE SoundInv'
<1>0. /\ ~AllSent /\ LinkInv /\ queue \in Seq(Byte) /\ frames \in Seq(Envelopes)
      /\ delivered \in Seq(Seq(Byte)) /\ faults \in Nat
      /\ sending.frame <= Len(frames) + 1
  BY DEF SoundInv, LinkInv, Inserted
<1>1. PICK t \in Takings : Takes(queue, [rd |-> rd, got |-> delivered], t) /\ Ahead(t)
  BY DEF SoundInv
<1>2. PICK f, w : f = sending.frame /\ w = Wire(f)
  OBVIOUS
<1>3. PICK b \in Byte : /\ Arriving(<< b >>) /\ sending.at = 1 /\ faults' = faults + 1
                        /\ damaged' = IF b = 0 THEN damaged ELSE damaged \cup {f}
                        /\ sending' = sending
  BY <1>2, LinkAssumption DEF Inserted
<1>4. PICK u : u = Taken(t, b)
  OBVIOUS
<1>5. /\ Takes(queue', [rd |-> rd', got |-> delivered'], u) /\ u \in Takings
      /\ delivered' = delivered /\ frames' = frames
      /\ u.rd = Feed(t.rd, b).rd /\ Len(t.got) <= Len(u.got)
      /\ \A k \in 1..Len(t.got) : u.got[k] = t.got[k]
  BY <1>0, <1>1, <1>3, <1>4, OneArrives, TakenType
<1>6. /\ t.rd \in Readers /\ Len(t.rd.wire) <= MaxWire /\ t.got \in Seq(Seq(Byte))
      /\ u.got \in Seq(Seq(Byte))
  BY <1>5 DEF Takings
<1>7. f \in Nat \ {0} /\ Len(frames) \in Nat
  BY <1>0, <1>2 DEF LinkInv
<1>8. Intact' = Intact
  <2>1. CASE b = 0
    BY <1>3, <2>1 DEF Intact
  <2>2. CASE b # 0
    <3>1. /\ f \in damaged' /\ sending'.frame \in {f, f + 1}
          /\ damaged \subseteq damaged' /\ damaged' \subseteq damaged \cup {f, f + 1}
      BY <1>2, <1>3, <2>2
    <3> QED
      BY <1>2, <1>7, <3>1, IntactAfter
  <2> QED
    BY <2>1, <2>2
<1>9. InOrder(u.got)'
  <2>1. InOrder(t.got)
    BY <1>1 DEF Ahead
  <2>2. PICK got, more : got = t.got /\ more = u.got
    OBVIOUS
  <2> QED
    BY <1>5, <1>6, <1>8, <2>1, <2>2, InOrderGrows
<1>10. UpToDate(u)'
  <2>1. CASE b = 0
    <3>1. u.rd = ReaderReset
      BY <1>5, <1>6, <2>1, FeedReturns
    <3>2. sending'.at = 1 /\ 1 - 1 = 0
      BY <1>3
    <3> QED
      BY <3>1, <3>2, NothingRead DEF UpToDate
  <2>2. CASE b # 0
    <3>1. sending'.frame \in damaged'
      BY <1>2, <1>3, <2>2
    <3> QED
      BY <3>1 DEF UpToDate
  <2> QED
    BY <2>1, <2>2
<1>11. Exact(u)' /\ faults' \in Nat
  <2>1. faults' # 0 /\ faults' \in Nat
    BY <1>0, <1>3
  <2> QED
    BY <2>1 DEF Exact
<1>12. sending'.frame <= Len(frames') + 1 /\ delivered' \in Seq(Seq(Byte))
  BY <1>0, <1>3, <1>5
<1>13. Ahead(u)'
  BY <1>9, <1>10, <1>11 DEF Ahead
<1> QED
  BY <1>5, <1>11, <1>12, <1>13 DEF SoundInv

\* All frames are sent: what follows is no frame.
LEMMA SoundFlood ==
    ASSUME SoundInv, Flood, LinkInv' PROVE SoundInv'
<1>0. /\ AllSent /\ LinkInv /\ queue \in Seq(Byte) /\ frames \in Seq(Envelopes)
      /\ delivered \in Seq(Seq(Byte)) /\ faults \in Nat
      /\ sending.frame <= Len(frames) + 1
  BY DEF SoundInv, LinkInv, Flood
<1>1. PICK t \in Takings : Takes(queue, [rd |-> rd, got |-> delivered], t) /\ Ahead(t)
  BY DEF SoundInv
<1>2. PICK b \in {0, 1} : Arriving(<< b >>)
  BY DEF Flood
<1>3. sending' = sending /\ damaged' = damaged /\ faults' = faults /\ b \in Byte
  BY DEF Flood, Byte
<1>4. PICK u : u = Taken(t, b)
  OBVIOUS
<1>5. /\ Takes(queue', [rd |-> rd', got |-> delivered'], u) /\ u \in Takings
      /\ delivered' = delivered /\ frames' = frames
      /\ u.rd = Feed(t.rd, b).rd /\ Len(t.got) <= Len(u.got)
      /\ \A k \in 1..Len(t.got) : u.got[k] = t.got[k]
  BY <1>0, <1>1, <1>2, <1>3, <1>4, OneArrives, TakenType
<1>6. /\ t.rd \in Readers /\ Len(t.rd.wire) <= MaxWire /\ t.got \in Seq(Seq(Byte))
      /\ u.got \in Seq(Seq(Byte)) /\ sending.frame \in Nat /\ Len(frames) \in Nat
  BY <1>0, <1>5 DEF Takings, LinkInv
<1>7. InOrder(u.got)'
  <2>1. InOrder(t.got) /\ Intact' = Intact
    BY <1>1, <1>3 DEF Ahead, Intact
  <2>2. PICK got, more : got = t.got /\ more = u.got
    OBVIOUS
  <2> QED
    BY <1>5, <1>6, <2>1, <2>2, InOrderGrows
<1>8. UpToDate(u)'
  <2>1. ~(sending'.frame <= Len(frames'))
    BY <1>0, <1>3, <1>5, <1>6 DEF AllSent
  <2> QED
    BY <2>1 DEF UpToDate
<1>9. Exact(u)'
  <2> SUFFICES ASSUME faults' = 0 PROVE Exact(u)'
    BY DEF Exact
  <2>1. /\ damaged = {} /\ Len(t.got) = sending.frame - 1
        /\ \A k \in 1..Len(t.got) : t.got[k] = frames[k]
        /\ Quiet(t.rd)
    BY <1>0, <1>1, <1>3 DEF Ahead, Exact
  <2>2. Feed(t.rd, b).envelope = <<>> /\ Quiet(Feed(t.rd, b).rd)
    BY <1>6, <2>1, QuietTaken
  <2>3. u.got = t.got /\ Quiet(u.rd)
    BY <1>4, <2>2 DEF Taken
  <2> QED
    BY <1>3, <1>5, <2>1, <2>3 DEF Exact
<1>10. Ahead(u)'
  BY <1>7, <1>8, <1>9 DEF Ahead
<1> QED
  BY <1>0, <1>3, <1>5, <1>10 DEF SoundInv

\* The pump reads a byte of the queue: what lies ahead stays as it was.
LEMMA SoundPump ==
    ASSUME SoundInv, PumpByte, LinkInv' PROVE SoundInv'
<1>0. /\ LinkInv /\ queue \in Seq(Byte) /\ rd \in Readers /\ Len(rd.wire) <= MaxWire
      /\ delivered \in Seq(Seq(Byte)) /\ faults \in Nat
      /\ sending.frame <= Len(frames) + 1
  BY DEF SoundInv, LinkInv, WithinBuffers
<1> DEFINE s == [rd |-> rd, got |-> delivered]
<1>1. PICK t \in Takings : Takes(queue, s, t) /\ Ahead(t)
  BY DEF SoundInv
<1>2. /\ queue # <<>> /\ queue' = Tail(queue) /\ sending' = sending /\ damaged' = damaged
      /\ faults' = faults /\ frames' = frames
      /\ rd' = Feed(rd, Head(queue)).rd
      /\ delivered' = IF Feed(rd, Head(queue)).envelope = <<>> THEN delivered
                      ELSE Append(delivered, Feed(rd, Head(queue)).envelope)
  BY DEF PumpByte
<1>3. s \in Takings /\ Head(queue) \in Byte
  BY <1>0, <1>2, HeadTailProperties DEF Takings
<1>4. [rd |-> rd', got |-> delivered'] = Taken(s, Head(queue))
  BY <1>2 DEF Taken
<1>5. Taken(s, Head(queue)) \in Takings
  BY <1>3, TakenType
<1>6. delivered' \in Seq(Seq(Byte))
  BY <1>4, <1>5 DEF Takings
<1>7. Takes(queue', [rd |-> rd', got |-> delivered'], t)
  <2>1. Takes(Tail(queue), Taken(s, Head(queue)), t)
    BY <1>0, <1>1, <1>2, TakesFirst
  <2> QED
    BY <1>2, <1>4, <2>1
<1>8. Ahead(t)'
  BY <1>1, <1>2 DEF Ahead, UpToDate, InOrder, Intact, Exact, AllSent, Wire
<1> QED
  BY <1>0, <1>2, <1>6, <1>7, <1>8 DEF SoundInv

\* Every step keeps the order.
LEMMA SoundStep == SoundInv /\ [LinkNext]_linkVars => SoundInv'
<1> SUFFICES ASSUME SoundInv, [LinkNext]_linkVars PROVE SoundInv'
  OBVIOUS
<1>1. LinkInv'
  BY LinkStep DEF SoundInv
<1>2. CASE Arrives
  BY <1>1, <1>2, SoundArrival
<1>3. CASE Lost
  BY <1>1, <1>3, SoundFault DEF Lost
<1>4. CASE Damaged
  <2>1. PICK b \in Damages : Corrupted(<< b >>)
    BY <1>4 DEF Damaged
  <2>2. b \in Byte
    BY LinkAssumption
  <2> QED
    BY <1>1, <2>1, <2>2, SoundFault
<1>5. CASE Inserted
  BY <1>1, <1>5, SoundInserted
<1>6. CASE Flood
  BY <1>1, <1>6, SoundFlood
<1>7. CASE PumpByte
  BY <1>1, <1>7, SoundPump
<1>8. CASE PumpBegin \/ PumpEnd \/ UNCHANGED linkVars
  <2>1. UNCHANGED <<frames, sending, damaged, faults, queue, rd, delivered>>
    BY <1>8 DEF PumpBegin, PumpEnd, linkVars
  <2>2. PICK t \in Takings : Takes(queue, [rd |-> rd, got |-> delivered], t) /\ Ahead(t)
    BY DEF SoundInv
  <2>3. Takes(queue', [rd |-> rd', got |-> delivered'], t)
    BY <2>1, <2>2
  <2>4. Ahead(t)'
    BY <2>1, <2>2 DEF Ahead, UpToDate, InOrder, Intact, Exact, AllSent, Wire
  <2>5. /\ delivered' \in Seq(Seq(Byte)) /\ faults' \in Nat
        /\ sending'.frame <= Len(frames') + 1
    BY <2>1 DEF SoundInv
  <2> QED
    BY <1>1, <2>3, <2>4, <2>5 DEF SoundInv
<1> QED
  BY <1>2, <1>3, <1>4, <1>5, <1>6, <1>7, <1>8 DEF LinkNext

\* The envelopes with whose frames the stream did nothing reach the core, each
\* once and in the order in which they were sent, when the bytes of their
\* frames have been read.
SoundArrive == ~Contains(queue, 0) => InOrder(delivered)

\* With no delimiter under way the core has all that it will have.
LEMMA NothingAhead ==
    ASSUME SoundInv
    PROVE  \E t \in Takings :
              /\ Ahead(t) /\ Len(delivered) <= Len(t.got)
              /\ \A k \in 1..Len(delivered) : t.got[k] = delivered[k]
              /\ ~Contains(queue, 0) => t.got = delivered
<1> DEFINE s == [rd |-> rd, got |-> delivered]
<1>1. PICK t \in Takings : Takes(queue, s, t) /\ Ahead(t)
  BY DEF SoundInv
<1>2. /\ queue \in Seq(Byte) /\ rd \in Readers /\ Len(rd.wire) <= MaxWire
      /\ delivered \in Seq(Seq(Byte))
  BY DEF SoundInv, LinkInv, WithinBuffers
<1>3. s \in Takings /\ s.got = delivered
  BY <1>2 DEF Takings
<1> HIDE DEF s
<1>4. /\ Len(s.got) <= Len(t.got) /\ \A k \in 1..Len(s.got) : t.got[k] = s.got[k]
      /\ ~Contains(queue, 0) => t.got = s.got
  BY <1>1, <1>2, <1>3, TakesGrow
<1> QED
  BY <1>1, <1>3, <1>4

\* Whatever the stream does to other frames, the envelope of a frame it did
\* not spoil reaches the core, whole, once and in order: after a byte that is
\* lost, damaged or another's the reader finds the next frame.
THEOREM SoundFramesArrive == LinkSpec => []SoundArrive
<1>1. SoundInv => SoundArrive
  BY NothingAhead DEF Ahead, SoundArrive
<1> QED
  BY SoundStart, SoundStep, <1>1, PTL DEF LinkSpec

\* Nothing left out is all the frames.
LEMMA NothingLeftOut == ASSUME frames \in Seq(Envelopes) PROVE Without({}) = frames
<1> DEFINE n == Len(frames)
           Next(x, i) == x \o (IF i \in {} THEN <<>> ELSE <<frames[i]>>)
           Rule(k) == k = [i \in 0..n |-> IF i = 0 THEN <<>> ELSE Next(k[i - 1], i)]
           K == [i \in 0..n |-> SubSeq(frames, 1, i)]
           W == CHOOSE k : Rule(k)
<1>1. n \in Nat /\ n \in 0..n
  OBVIOUS
<1>2. SubSeq(frames, 1, 0) = <<>> /\ SubSeq(frames, 1, n) = frames
  BY SubSeqEmpty
<1>3. ASSUME NEW i \in 1..n PROVE SubSeq(frames, 1, i) = Next(SubSeq(frames, 1, i - 1), i)
  <2> DEFINE a == SubSeq(frames, 1, i)
             p == SubSeq(frames, 1, i - 1)
             b == p \o <<frames[i]>>
  <2>1. /\ a \in Seq(Envelopes) /\ Len(a) = i /\ \A j \in 1..i : a[j] = frames[j]
        /\ p \in Seq(Envelopes) /\ Len(p) = i - 1 /\ \A j \in 1..(i - 1) : p[j] = frames[j]
        /\ frames[i] \in Envelopes
    BY <1>1, SubSeqProperties
  <2> HIDE DEF a, p
  <2>2. b = Append(p, frames[i])
    BY <2>1
  <2>3. b \in Seq(Envelopes) /\ Len(b) = i /\ b[i] = frames[i] /\ \A j \in 1..(i - 1) : b[j] = p[j]
    <3>1. (i - 1) + 1 = i
      OBVIOUS
    <3> QED
      BY <2>1, <2>2, <3>1, AppendProperties
  <2>4. \A j \in 1..i : a[j] = b[j]
    <3>1. \A j \in 1..i : j = i \/ j \in 1..(i - 1)
      OBVIOUS
    <3> QED
      BY <2>1, <2>3, <3>1
  <2>5. a = b
    <3> HIDE DEF b
    <3> QED
      BY <2>1, <2>3, <2>4, SeqEqual
  <2> QED
    BY <2>5 DEF a, p
<1>4. Rule(K)
  <2>1. ASSUME NEW i \in 0..n PROVE K[i] = IF i = 0 THEN <<>> ELSE Next(K[i - 1], i)
    <3>1. CASE i = 0
      BY <1>2, <2>1, <3>1
    <3>2. CASE i # 0
      <4>1. i \in 1..n /\ i - 1 \in 0..n
        BY <1>1, <3>2
      <4>2. K[i] = SubSeq(frames, 1, i) /\ K[i - 1] = SubSeq(frames, 1, i - 1)
        BY <4>1
      <4> HIDE DEF K, Next
      <4> QED
        BY <1>3, <3>2, <4>1, <4>2
    <3> QED
      BY <3>1, <3>2
  <2> HIDE DEF Next
  <2> QED
    BY <2>1
<1>5. Rule(W)
  <2> HIDE DEF Rule, K
  <2> QED
    BY <1>4
<1>6. Without({}) = W[n]
  BY DEF Without
<1> HIDE DEF W
<1>7. W[0] = <<>> /\ \A i \in 1..n : W[i] = Next(W[i - 1], i)
  <2> HIDE DEF Next
  <2>1. \A i \in 0..n : W[i] = IF i = 0 THEN <<>> ELSE Next(W[i - 1], i)
    BY <1>5
  <2>2. 0 \in 0..n /\ \A i \in 1..n : i \in 0..n /\ i # 0
    BY <1>1
  <2> QED
    BY <2>1, <2>2
<1> HIDE DEF Next
<1> DEFINE S == {i \in 0..n : W[i] = SubSeq(frames, 1, i)}
<1>8. 0 \in S
  <2>1. W[0] = SubSeq(frames, 1, 0) /\ 0 \in 0..n
    BY <1>1, <1>2, <1>7
  <2> QED
    BY <2>1
<1>9. ASSUME NEW i \in 0..(n - 1), i \in S PROVE i + 1 \in S
  <2>1. i + 1 \in 1..n /\ i + 1 \in 0..n /\ (i + 1) - 1 = i /\ W[i] = SubSeq(frames, 1, i)
    BY <1>1, <1>9
  <2> QED
    BY <1>3, <1>7, <2>1
<1> HIDE DEF S
<1>10. \A i \in 0..n : i \in S
  BY <1>1, <1>8, <1>9, ReachesAll
<1> QED
  BY <1>1, <1>2, <1>6, <1>10 DEF S

\* Until the stream spoils a byte, what the core has is what was sent, in
\* order, nothing besides, and in the end all of it: also when bytes that are
\* no frame follow without end.
THEOREM ExactUntilAFault == LinkSpec => [](faults = 0 => ExactlyTheSound)
<1>1. SoundInv /\ faults = 0 => ExactlyTheSound
  <2> SUFFICES ASSUME SoundInv, faults = 0 PROVE ExactlyTheSound
    OBVIOUS
  <2>1. PICK t \in Takings :
            /\ Ahead(t) /\ Len(delivered) <= Len(t.got)
            /\ \A k \in 1..Len(delivered) : t.got[k] = delivered[k]
            /\ ~Contains(queue, 0) => t.got = delivered
    BY NothingAhead
  <2>2. /\ frames \in Seq(Envelopes) /\ sending.frame \in Nat /\ Len(frames) \in Nat
        /\ sending.frame <= Len(frames) + 1 /\ delivered \in Seq(Seq(Byte))
        /\ t.got \in Seq(Seq(Byte))
    BY <2>1 DEF SoundInv, LinkInv, Takings
  <2>3. /\ damaged = {} /\ Len(t.got) = sending.frame - 1
        /\ \A i \in 1..Len(t.got) : t.got[i] = frames[i]
    BY <2>1 DEF Ahead, Exact
  <2>4. Len(delivered) \in Nat /\ Len(delivered) <= Len(frames)
    BY <2>1, <2>2, <2>3
  <2>5. \A k \in 1..Len(delivered) : delivered[k] = frames[k]
    <3>1. \A k \in 1..Len(delivered) : k \in 1..Len(t.got)
      BY <2>1, <2>2
    <3> QED
      BY <2>1, <2>3, <3>1
  <2>6. IsPrefix(delivered, frames)
    BY <2>2, <2>4, <2>5 DEF IsPrefix
  <2>7. AllSent /\ ~Contains(queue, 0) => delivered = frames
    <3> SUFFICES ASSUME AllSent, ~Contains(queue, 0) PROVE delivered = frames
      OBVIOUS
    <3>1. Len(delivered) = Len(frames)
      BY <2>1, <2>2, <2>3 DEF AllSent
    <3>2. frames \in Seq(Seq(Byte))
      BY <2>2, LinkAssumption
    <3> QED
      BY <2>2, <2>5, <3>1, <3>2, SeqEqual
  <2>8. Without({}) = frames /\ {} \in SUBSET damaged
    BY <2>2, NothingLeftOut
  <2> QED
    BY <2>6, <2>7, <2>8 DEF ExactlyTheSound
<1> QED
  BY SoundStart, SoundStep, <1>1, PTL DEF LinkSpec
=============================================================================

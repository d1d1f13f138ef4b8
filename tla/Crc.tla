-------------------------------- MODULE Crc --------------------------------
(* The checksum of a frame, bit by bit. *)
EXTENDS Integers, Sequences, SequencesExt, Bitwise

\* crc16_ccitt()
Crc16Ccitt(data) ==
    LET bit(c, b) == IF c >= 32768 THEN ((2 * c) % 65536) ^^ 4129 ELSE 2 * c
        byte(c, d) == FoldLeft(bit, c ^^ (256 * d), [b \in 1..8 |-> b])
    IN FoldLeft(byte, 65535, data)
=============================================================================

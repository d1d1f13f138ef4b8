-------------------------------- MODULE Cobs --------------------------------
(***************************************************************************)
(* Consistent overhead byte stuffing, as CobsEncoder and cobs_decode() do  *)
(* it: byte by byte into the caller's buffer, and block by block out of    *)
(* it.  A full run has the code CodeMax and stands for no zero.            *)
(***************************************************************************)
EXTENDS Integers, Sequences

CONSTANT CodeMax    \* the code of a full run: 0xFF in the code

ASSUME CodeMaxAssumption == CodeMax \in 2..255

-----------------------------------------------------------------------------
\* CobsEncoder: what is written, where the code of the open run goes, and
\* that code.
CobsStart == [out |-> <<0>>, at |-> 1, code |-> 1]

CloseBlock(enc) ==
    [out |-> Append([enc.out EXCEPT ![enc.at] = enc.code], 0),
     at |-> Len(enc.out) + 1, code |-> 1]

\* Mutant: a full run is not closed, and its code wraps to zero.
CobsPut_NotClosed(enc, v) ==
    IF v = 0 THEN CloseBlock(enc)
    ELSE [enc EXCEPT !.out = Append(@, v), !.code = (@ + 1) % (CodeMax + 1)]

CobsPut(enc, v) ==
    LET next == [out |-> Append(enc.out, v), at |-> enc.at, code |-> enc.code + 1]
    IN  IF v = 0 THEN CloseBlock(enc)
        ELSE IF next.code = CodeMax THEN CloseBlock(next) ELSE next

\* The encoder after the first i bytes of src.
Encoder(src) ==
    LET enc[i \in 0..Len(src)] ==
            IF i = 0 THEN CobsStart ELSE CobsPut(enc[i - 1], src[i])
    IN  enc

\* cobs_encode(), with finish()
CobsEncode(src) ==
    LET enc == Encoder(src)[Len(src)] IN [enc.out EXCEPT ![enc.at] = enc.code]

-----------------------------------------------------------------------------
\* cobs_decode(): the next byte to read, what is written, whether the input
\* was found malformed or too long.
DecodeStart == [at |-> 1, out |-> << >>, bad |-> FALSE]

\* Mutant: the cap is not applied to what is written.
DecodeBlock_NoCap(src, cap, d) ==
    LET code == src[d.at]
        next == d.at + code
        run == d.out \o SubSeq(src, d.at + 1, next - 1)
        more == code < CodeMax /\ next <= Len(src)
    IN  IF d.bad \/ d.at > Len(src) THEN d
        ELSE IF code = 0 \/ next > Len(src) + 1 THEN [d EXCEPT !.bad = TRUE]
        ELSE [at |-> next, out |-> IF more THEN Append(run, 0) ELSE run, bad |-> FALSE]

\* One turn of the loop: a code and its run, and the zero behind it unless the
\* run is full or the last.
DecodeBlock(src, cap, d) ==
    LET code == src[d.at]
        next == d.at + code
        run == d.out \o SubSeq(src, d.at + 1, next - 1)
        more == code < CodeMax /\ next <= Len(src)
    IN  IF d.bad \/ d.at > Len(src) THEN d
        ELSE IF code = 0 \/ next > Len(src) + 1 \/ Len(d.out) + (code - 1) > cap
             THEN [d EXCEPT !.bad = TRUE]
        ELSE IF more /\ Len(run) >= cap
             THEN [at |-> next, out |-> run, bad |-> TRUE]
        ELSE [at |-> next, out |-> IF more THEN Append(run, 0) ELSE run, bad |-> FALSE]

\* The decoder after i turns; it reads a byte in each.
Decoder(src, cap) ==
    LET d[i \in 0..Len(src)] ==
            IF i = 0 THEN DecodeStart ELSE DecodeBlock(src, cap, d[i - 1])
    IN  d

CobsDecode(src, cap) == Decoder(src, cap)[Len(src)]
=============================================================================

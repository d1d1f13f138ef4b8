----------------------------- MODULE FrameLink -----------------------------
(***************************************************************************)
(* Frames over a byte stream: CRC-16, COBS and FrameReader, and the pump   *)
(* that drains a transport's stream within a budget while more arrives.    *)
(*                                                                         *)
(* The peer and the stream are external.  A serial stream may lose a byte  *)
(* or damage it, and carry bytes that are no frame; once its frames are    *)
(* sent the peer may write such bytes without end.                         *)
(***************************************************************************)
EXTENDS Cobs, SequencesExt

CONSTANTS
    Crc16(_),      \* crc16_ccitt() of a sequence of bytes
    MaxPayload,    \* MESHPIGEON_MAX_FRAME_PAYLOAD
    Budget,        \* FRAME_MAX_DRAIN_BYTES_PER_PUMP
    QueueCap,      \* bytes a transport holds before they are read
    Envelopes,     \* serialized envelopes to send
    MaxFrames,     \* bound on the envelopes sent
    Damages,       \* what a damaged byte turns into
    MaxFaults      \* bound on the bytes lost, damaged or inserted

Byte == 0..255

MaxDecoded == MaxPayload + 2
MaxWire == MaxDecoded + (MaxDecoded + CodeMax - 2) \div (CodeMax - 1) + 1

\* FRAME_MAX_WIRE has no room for the empty run behind a last full one.
ASSUME LinkAssumption ==
    /\ MaxPayload \in Nat /\ MaxDecoded % (CodeMax - 1) # 0
    /\ {Budget, QueueCap} \subseteq Nat \ {0} /\ {MaxFrames, MaxFaults} \subseteq Nat
    /\ Damages \subseteq Byte
    /\ \A e \in Envelopes : /\ e \in Seq(Byte) /\ Len(e) \in 1..MaxPayload
                            /\ Crc16(e) \in Nat /\ Crc16(e) \div 256 \in Byte

\* The CRC's register does not start at zero, and no zero shifts it to zero.
ASSUME ZerosAssumption ==
    \A n \in 1..MaxPayload : Crc16([i \in 1..n |-> 0]) \in Nat \ {0}

VARIABLES
    frames,      \* the envelopes this peer sends
    sending,     \* what of them leaves the peer next: a frame, a byte of it
    damaged,     \* frames that cannot be expected to arrive
    faults,
    queue,       \* bytes arrived and not yet read
    rd,          \* FrameReader: wire_, overflow_
    out,         \* frame_out, as the reader last wrote it
    delivered,   \* envelopes handed to the core
    budget       \* what is left to this pump, 0 between pumps

linkVars == <<frames, sending, damaged, faults, queue, rd, out, delivered, budget>>

-----------------------------------------------------------------------------
\* frame_build(): the envelope and its CRC
FrameBuild(envelope) ==
    envelope \o <<Crc16(envelope) % 256, Crc16(envelope) \div 256>>

\* frame_encode_envelope()
FrameEncode(envelope) == Append(CobsEncode(FrameBuild(envelope)), 0)

\* FrameReader::feed(): the reader, frame_out and, if a frame is complete
\* and sound, its envelope
ReaderReset == [wire |-> <<>>, overflow |-> FALSE]

Feed(r, byte) ==
    LET decoded == IF r.overflow THEN DecodeStart ELSE CobsDecode(r.wire, MaxDecoded)
        n == Len(decoded.out)
    IN IF byte # 0
       THEN [rd |-> IF Len(r.wire) >= MaxWire THEN [r EXCEPT !.overflow = TRUE]
                    ELSE [r EXCEPT !.wire = Append(@, byte)],
             out |-> <<>>, envelope |-> <<>>]
       ELSE [rd |-> ReaderReset, out |-> decoded.out,
             envelope |-> IF /\ ~decoded.bad /\ n >= 2
                             /\ FrameBuild(SubSeq(decoded.out, 1, n - 2)) = decoded.out
                          THEN SubSeq(decoded.out, 1, n - 2) ELSE <<>>]

-----------------------------------------------------------------------------
\* What the peer sends: its frames, byte by byte.
Encoded == [e \in Envelopes |-> FrameEncode(e)]
Wire(f) == Encoded[frames[f]]
AllSent == sending.frame > Len(frames)
NextByte == Wire(sending.frame)[sending.at]
Onward ==
    IF sending.at < Len(Wire(sending.frame)) THEN [sending EXCEPT !.at = @ + 1]
    ELSE [frame |-> sending.frame + 1, at |-> 1]

Arriving(bytes) ==
    /\ Len(queue) + Len(bytes) <= QueueCap /\ queue' = queue \o bytes
    /\ UNCHANGED <<frames, rd, out, delivered, budget>>

Arrives ==
    /\ ~AllSent /\ Arriving(<<NextByte>>) /\ sending' = Onward
    /\ UNCHANGED <<damaged, faults>>

\* The next byte is lost or damaged, and with it its frame; with a delimiter
\* the frame that it then runs into.
Corrupted(bytes) ==
    /\ ~AllSent /\ faults < MaxFaults
    /\ Arriving(bytes) /\ bytes # <<NextByte>>
    /\ sending' = Onward /\ faults' = faults + 1
    /\ LET f == sending.frame
       IN damaged' = damaged \cup (IF NextByte = 0 THEN {f, f + 1} ELSE {f})

Lost == Corrupted(<<>>)

Damaged == \E b \in Damages : Corrupted(<<b>>)

\* Bytes between frames, of another program that writes to the port: a
\* delimiter does no harm, anything else spoils the frame behind it.
Inserted ==
    \E b \in Damages :
        /\ ~AllSent /\ sending.at = 1
        /\ faults < MaxFaults /\ faults' = faults + 1 /\ Arriving(<<b>>)
        /\ damaged' = IF b = 0 THEN damaged ELSE damaged \cup {sending.frame}
        /\ UNCHANGED sending

\* All frames are sent: bytes that are no frame, for ever.
Flood == AllSent /\ (\E b \in {0, 1} : Arriving(<<b>>)) /\ UNCHANGED <<sending, damaged, faults>>

-----------------------------------------------------------------------------
\* drain_frames(), from one pump of the board loop to the next
PumpBegin ==
    /\ budget = 0 /\ budget' = Budget + 1
    /\ UNCHANGED <<frames, sending, damaged, faults, queue, rd, out, delivered>>

\* Mutant: the budget counts frames.
PumpByte_FrameBudget ==
    /\ budget > 1 /\ queue # <<>> /\ queue' = Tail(queue)
    /\ \E fed \in {Feed(rd, Head(queue))} :
          /\ rd' = fed.rd /\ out' = fed.out
          /\ budget' = IF fed.envelope = <<>> THEN budget ELSE budget - 1
          /\ delivered' = IF fed.envelope = <<>> THEN delivered
                          ELSE Append(delivered, fed.envelope)
    /\ UNCHANGED <<frames, sending, damaged, faults>>

PumpByte ==
    /\ budget > 1 /\ queue # <<>> /\ queue' = Tail(queue) /\ budget' = budget - 1
    /\ \E fed \in {Feed(rd, Head(queue))} :
          /\ rd' = fed.rd /\ out' = fed.out
          /\ delivered' = IF fed.envelope = <<>> THEN delivered
                          ELSE Append(delivered, fed.envelope)
    /\ UNCHANGED <<frames, sending, damaged, faults>>

PumpEnd ==
    /\ budget = 1 \/ (budget > 1 /\ queue = <<>>)
    /\ budget' = 0
    /\ UNCHANGED <<frames, sending, damaged, faults, queue, rd, out, delivered>>

LinkIdle ==
    /\ sending = [frame |-> 1, at |-> 1] /\ damaged = {} /\ faults = 0 /\ queue = <<>>
    /\ rd = ReaderReset /\ out = <<>> /\ delivered = <<>> /\ budget = 0

LinkInit == (\E n \in 1..MaxFrames : frames \in [1..n -> Envelopes]) /\ LinkIdle

LinkNext ==
    \/ Arrives \/ Lost \/ Damaged \/ Inserted \/ Flood
    \/ PumpBegin \/ PumpByte \/ PumpEnd

LinkSpec == LinkInit /\ [][LinkNext]_linkVars

\* The board loop goes on pumping: weak fairness of its steps, the second
\* written out because a pump that has begun can always go on.
LinkFairness ==
    /\ WF_linkVars(PumpBegin)
    /\ []<>(budget = 0) \/ []<><<PumpByte \/ PumpEnd>>_linkVars

-----------------------------------------------------------------------------
\* The frames without those in gone, in order.
Without(gone) ==
    LET kept[n \in 0..Len(frames)] ==
            IF n = 0 THEN <<>>
            ELSE kept[n - 1] \o (IF n \in gone THEN <<>> ELSE <<frames[n]>>)
    IN  kept[Len(frames)]

\* The core gets the frames the stream did not spoil, each once, in order
\* and whole, and nothing that is not a frame that was sent: one damaged,
\* lost or foreign byte costs at most the frame it is in and the one it
\* joins to it.
ExactlyTheSound ==
    \E gone \in SUBSET damaged :
        LET expected == Without(gone)
        IN /\ IsPrefix(delivered, expected)
           /\ (AllSent /\ ~Contains(queue, 0)) => delivered = expected

\* No input makes the reader write past the buffers it is given.
WithinBuffers == Len(rd.wire) <= MaxWire /\ Len(out) <= MaxDecoded

\* Every pump ends, also while a peer writes faster than it is read bytes
\* that never complete a frame: the board loop goes on to the radio.
PumpEnds == budget > 0 ~> budget = 0
=============================================================================

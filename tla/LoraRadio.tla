----------------------------- MODULE LoraRadio -----------------------------
(***************************************************************************)
(* The radio port (class LoraRadioBase) and the part of the SX1262/LR1110  *)
(* it drives: the tuning sequence, the asynchronous transmission and the   *)
(* polled receive path.  The port's operations are action operators, one   *)
(* per outcome, that CommandProcessor calls from its handlers; the chip's  *)
(* own moves (a packet off the air, a transmission finished) are actions   *)
(* of the environment.                                                     *)
(*                                                                         *)
(* RadioLib and the chip are outside the repository: they are modelled by  *)
(* what the port relies on.  Any call may fail when its name is in Faults. *)
(* A tuning is one value; the chip holds it in NumRegs registers that      *)
(* apply() writes one after the other.                                     *)
(***************************************************************************)
EXTENDS Naturals

CONSTANTS
    Tunes,         \* the tunings a client may ask for, the default included
    DefaultTune,   \* RadioSettings::unset()
    NumRegs,       \* registers apply() writes one by one: 7 in the code
    Faults         \* the external calls that may fail

ASSUME RegsAssumption == NumRegs \in Nat \ {0} /\ DefaultTune \in Tunes

VARIABLES
    tx_started,    \* the port's flag: a transmission is keyed up
    mode,          \* what the chip is doing
    regs,          \* the tuning each chip register comes from
    irq,           \* the chip's pending interrupt, with the packet received
    deaf,          \* auxiliary: the last startReceive() failed
    halfway        \* auxiliary: apply() stopped the receiver and returned
                   \* before start_rx(), and nothing has called it since

radioVars == <<tx_started, mode, regs, irq, deaf, halfway>>

NoIrq == [kind |-> "none"]
TxDoneIrq == [kind |-> "txdone"]
RxErrIrq == [kind |-> "rxerr"]
RxDoneIrq(p) == [kind |-> "rxdone", pkt |-> p]

\* ok is a possible outcome of the external call f.
Outcome(f, ok) == ok \in BOOLEAN /\ (ok \/ f \in Faults)

-----------------------------------------------------------------------------
\* start_rx(): clears the interrupt and listens, or leaves the chip idle.
StartRx(ok) ==
    /\ Outcome("startReceive", ok)
    /\ mode' = IF ok THEN "rx" ELSE "standby"
    /\ irq' = NoIrq
    /\ deaf' = ~ok /\ halfway' = FALSE

\* The registers after the first n writes of tuning t.
Written(t, n) == [i \in 1..NumRegs |-> IF i <= n THEN t ELSE regs[i]]

\* apply() returning true.
ApplyOk(t) ==
    /\ ~tx_started
    /\ regs' = Written(t, NumRegs)
    /\ StartRx(TRUE)
    /\ UNCHANGED tx_started

\* apply() returning false because a transmission is keyed up.
ApplyRefused == tx_started /\ UNCHANGED radioVars

\* apply() returning false part way: standby() failed, a register write
\* failed with n written and the receiver stopped (start_rx() is not
\* reached), or reception did not start.
ApplyFails(t) ==
    /\ ~tx_started
    /\ \/ /\ "standby" \in Faults
          /\ UNCHANGED <<mode, regs, irq, deaf, halfway>>
       \/ /\ "set" \in Faults
          /\ \E n \in 0..(NumRegs - 1) : regs' = Written(t, n)
          /\ mode' = "standby" /\ halfway' = TRUE
          /\ UNCHANGED <<irq, deaf>>
       \/ /\ regs' = Written(t, NumRegs)
          /\ StartRx(FALSE)
    /\ UNCHANGED tx_started

\* Mutant: boot leaves the chip on the tuning begin() primes it with.
BeginOk_NoApply(t) ==
    /\ tx_started' = FALSE
    /\ regs' = [i \in 1..NumRegs |-> DefaultTune]
    /\ StartRx(TRUE)

\* begin() and apply(t) at boot, both true.
BeginOk(t) ==
    /\ tx_started' = FALSE
    /\ regs' = [i \in 1..NumRegs |-> t]
    /\ StartRx(TRUE)

\* begin() false, or the apply(t) that follows it: the chip is primed with
\* the default, and a prefix of t was written over it.  It still listens
\* when begin() succeeded and the very first call of apply(t) did not; a
\* failed startReceive() is the last call of begin() or of apply(t).
BeginFails(t) ==
    /\ "begin" \in Faults
    /\ tx_started' = FALSE /\ irq' = NoIrq
    /\ \E n \in 0..NumRegs :
          /\ regs' = [i \in 1..NumRegs |-> IF i <= n THEN t ELSE DefaultTune]
          /\ \/ n = 0 /\ mode' = "rx" /\ deaf' = FALSE /\ halfway' = FALSE
             \/ n < NumRegs /\ mode' = "standby" /\ deaf' = FALSE /\ halfway' = TRUE
             \/ n \in {0, NumRegs} /\ mode' = "standby" /\ deaf' = TRUE /\ halfway' = FALSE

\* transmit() returning 0.
TransmitOk ==
    /\ ~tx_started
    /\ mode' = "tx" /\ irq' = NoIrq
    /\ tx_started' = TRUE
    /\ UNCHANGED <<regs, deaf, halfway>>

\* Mutant: a refused transmission does not go back to listening.
TransmitRefused_NoStartRx ==
    \/ tx_started /\ UNCHANGED radioVars
    \/ /\ ~tx_started /\ "startTransmit" \in Faults
       /\ mode' = "standby" /\ irq' = NoIrq
       /\ UNCHANGED <<tx_started, regs, deaf, halfway>>

\* transmit() returning -1: busy, or startTransmit() failed and the chip
\* goes back to listening (a failure of that is ignored).
TransmitRefused ==
    \/ tx_started /\ UNCHANGED radioVars
    \/ /\ ~tx_started /\ "startTransmit" \in Faults
       /\ \E ok \in BOOLEAN : StartRx(ok)
       /\ UNCHANGED <<tx_started, regs>>

\* tx_done() returning true.
TxDone ==
    \/ ~tx_started /\ UNCHANGED radioVars
    \/ /\ tx_started /\ irq = TxDoneIrq
       /\ tx_started' = FALSE
       /\ \E ok \in BOOLEAN : StartRx(ok)
       /\ UNCHANGED regs

\* tx_done() returning false.
TxNotDone == tx_started /\ irq # TxDoneIrq /\ UNCHANGED radioVars

\* receive() returning true with packet p.
ReceiveOk(p) ==
    /\ irq = RxDoneIrq(p)
    /\ \E ok \in BOOLEAN : StartRx(ok)
    /\ UNCHANGED <<tx_started, regs>>

\* Mutant: any pending interrupt is taken for a received packet.
ReceiveDiscards_AnyIrq ==
    /\ \/ irq.kind \in {"rxerr", "txdone"}
       \/ irq.kind = "rxdone" /\ "readData" \in Faults
    /\ \E ok \in BOOLEAN : StartRx(ok)
    /\ UNCHANGED <<tx_started, regs>>

\* receive() returning false after an interrupt: a bad CRC or header, a
\* length that does not fit, or readData() failed.  Reception restarts.
ReceiveDiscards ==
    /\ \/ irq = RxErrIrq
       \/ irq.kind = "rxdone" /\ "readData" \in Faults
    /\ \E ok \in BOOLEAN : StartRx(ok)
    /\ UNCHANGED <<tx_started, regs>>

-----------------------------------------------------------------------------
(* The chip. *)

\* The transmission leaves the antenna.
ChipTxDone ==
    /\ mode = "tx"
    /\ mode' = "standby" /\ irq' = TxDoneIrq
    /\ UNCHANGED <<tx_started, regs, deaf, halfway>>

\* A packet arrives, sound or damaged; an unread one is overwritten.
ChipRx(p) ==
    /\ mode = "rx"
    /\ irq' \in {RxDoneIrq(p)} \cup (IF "crc" \in Faults THEN {RxErrIrq} ELSE {})
    /\ UNCHANGED <<tx_started, mode, regs, deaf, halfway>>

-----------------------------------------------------------------------------
RadioTypeOK ==
    /\ tx_started \in BOOLEAN /\ deaf \in BOOLEAN /\ halfway \in BOOLEAN
    /\ mode \in {"standby", "rx", "tx"}
    /\ regs \in [1..NumRegs -> Tunes]
    /\ irq.kind \in {"none", "txdone", "rxerr", "rxdone"}

\* A transmission the port believes in is really on its way: nothing the
\* firmware does (a retune, the receive poll) aborts it before TxDone, which
\* would leave tx_started set for ever.
TxNeverAborted == tx_started => mode = "tx" \/ irq = TxDoneIrq
=============================================================================

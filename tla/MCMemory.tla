------------------------------ MODULE MCMemory ------------------------------
(* Two parts that live in the board's memory and share nothing: the packet *)
(* ring, and the connection slots of the ESP32 BLE transport.  A behaviour *)
(* is one of the part it starts with, the other stays as it begins.        *)
EXTENDS PacketStore, BleCentrals

CONSTANT Checking    \* the parts of this run

VARIABLE part

memoryVars == <<part, vars, bleVars>>

\* The pool is a few bytes: packets small enough to pack tightly, large
\* enough to leave a gap at the wrap, and too large to fit.
MCPackets == {[id |-> "a", len |-> 1], [id |-> "b", len |-> 2],
              [id |-> "c", len |-> 5], [id |-> "d", len |-> 9]}

MemoryInit == part \in Checking /\ Init /\ BleInit /\ (part # "store" => capacity = 0)

StoreMoves == part = "store" /\ Next /\ UNCHANGED <<part, bleVars>>
BleMoves == part = "ble" /\ BleNext /\ UNCHANGED <<part, vars>>

\* append() runs to its end; the board loop goes on pumping, and the host
\* task finishes the callback it is in.
MemoryFairness ==
    /\ WF_vars(part = "store" /\ AppendStep)
    /\ WF_bleVars(part = "ble" /\ PumpNext)
    /\ WF_bleVars(part = "ble" /\ (Claim \/ FlagDisconnect))

MemorySpec == MemoryInit /\ [][StoreMoves \/ BleMoves]_memoryVars /\ MemoryFairness
=============================================================================

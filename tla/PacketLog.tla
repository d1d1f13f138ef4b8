----------------------------- MODULE PacketLog -----------------------------
(***************************************************************************)
(* What the packet store promises to the rest of the firmware: a           *)
(* first-in-first-out log of packets, numbered from 1 without gaps, that   *)
(* fits a byte budget and makes room by forgetting its oldest entries.     *)
(* Nothing here says where a packet lies in memory; PacketStore does, and  *)
(* is shown to implement this specification.  CommandProcessor uses this   *)
(* module as its store.                                                    *)
(***************************************************************************)
EXTENDS Naturals, Sequences, FiniteSets

CONSTANTS
    Packets,     \* the raw packets; p.len is a packet's payload length
    Overhead,    \* bytes of on-ring header per entry (kStoredPacketOverhead)
    Capacity     \* the byte budget the store is constructed with

ASSUME PacketsAssumption == \A p \in Packets : p.len \in Nat
ASSUME OverheadAssumption == Overhead \in Nat \ {0}
ASSUME CapacityAssumption == Capacity \in Nat

VARIABLES
    capacity,    \* the budget in force: 0 when the store is disabled
    log,         \* the retained packets, by sequence number
    oldest,      \* first sequence number retained
    next_seq,    \* sequence number of the next packet appended
    dropped      \* packets evicted or refused since boot

logVars == <<capacity, log, oldest, next_seq, dropped>>

-----------------------------------------------------------------------------
\* Bytes one entry costs.
Need(p) == Overhead + p.len

\* The bytes of a log, each named by its entry and its place in it, and how
\* many they are.
BytesOf(lg) == UNION {{s} \X (1..Need(lg[s])) : s \in DOMAIN lg}
Bytes(lg) == Cardinality(BytesOf(lg))

\* The budget of a store built for Capacity bytes: the pool may be too small
\* for one minimal entry, and its allocation may fail.
Budgets == {0} \cup (IF Capacity >= Overhead + 1 THEN {Capacity} ELSE {})

-----------------------------------------------------------------------------
LogInit ==
    /\ capacity \in Budgets
    /\ log = << >>
    /\ oldest = 1
    /\ next_seq = 1
    /\ dropped = 0

\* A packet that can never fit is counted and takes no sequence number.
LogReject(p) ==
    /\ capacity = 0 \/ Need(p) > capacity
    /\ dropped' = dropped + 1
    /\ UNCHANGED <<capacity, log, oldest, next_seq>>

\* Append p, evicting the entries older than o.
AppendFrom(p, o) ==
    /\ capacity # 0 /\ Need(p) <= capacity
    /\ log' = [s \in o..next_seq |-> IF s = next_seq THEN p ELSE log[s]]
    /\ Bytes(log') <= capacity
    /\ oldest' = o
    /\ next_seq' = next_seq + 1
    /\ dropped' = dropped + (o - oldest)
    /\ UNCHANGED capacity

LogAppend(p) == \E o \in oldest..next_seq : AppendFrom(p, o)

\* Mutant: a purge starts the numbering over.
LogClear_Renumbers ==
    /\ log' = << >>
    /\ oldest' = 1 /\ next_seq' = 1
    /\ UNCHANGED <<capacity, dropped>>

\* Forget everything; numbering and the drop counter go on.
LogClear ==
    /\ log' = << >>
    /\ oldest' = next_seq
    /\ UNCHANGED <<capacity, next_seq, dropped>>

LogNext ==
    \/ \E p \in Packets : LogReject(p) \/ LogAppend(p)
    \/ LogClear

LogSpec == LogInit /\ [][LogNext]_logVars

-----------------------------------------------------------------------------
\* The entries a fetch with cursor `since` delivers, oldest first.
FetchLog(since, max) ==
    LET lo == IF since >= oldest THEN since + 1 ELSE oldest
        hi == IF next_seq < lo + max THEN next_seq - 1 ELSE lo + max - 1
    IN  [i \in 1..(IF hi >= lo THEN hi - lo + 1 ELSE 0) |->
            [seq |-> lo + i - 1, pkt |-> log[lo + i - 1]]]
=============================================================================

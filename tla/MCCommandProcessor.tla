------------------------ MODULE MCCommandProcessor ------------------------
(* Small boards for the protocol core: a USB port, at most two other       *)
(* connections, two PINs, two tunings.                                     *)
EXTENDS CommandProcessor

OnePacket == {[id |-> "a", len |-> 1]}
MCPackets == {[id |-> "a", len |-> 1], [id |-> "b", len |-> 2], [id |-> "big", len |-> 9]}

Body(name, pin, wifi) == [name |-> name, pin |-> pin, wifi |-> wifi]
NoWrites == {}

\* PINs and Wi-Fi, each alone and together.
SessionWrites ==
    {Body(Absent, p, w) : p \in {"p1", Unset, Absent}, w \in {"on", "off", Absent}}

\* Names and PINs, and Wi-Fi on a board without it.
PersistenceWrites ==
    {Body(n, p, Absent) : n \in {"n1", Unset, Absent}, p \in {"p1", Unset, Absent}}
        \cup {Body("n1", Absent, "on")}

\* Renames with a PIN, the same one in the first write and in the second.
RenameWrites == {Body(Absent, "p1", Absent), Body("n1", "p1", Absent)}

\* State constraint of the run that uses it: a board works on settings and
\* restarts, before any packet, or on packets, with nothing in flash yet.
OnSettings ==
    /\ up => capacity = Capacity
    /\ next_seq = 1 /\ dropped = 0 /\ irq = NoIrq
OnPackets ==
    /\ up /\ radio_ok /\ now = 0 /\ told = {}
    /\ flash = [radio |-> Never, dev |-> Never]
SettingsOrPackets == OnSettings \/ OnPackets
=============================================================================

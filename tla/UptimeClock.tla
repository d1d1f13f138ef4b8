---------------------------- MODULE UptimeClock ----------------------------
(***************************************************************************)
(* The 64-bit uptime (class UptimeClock) kept over a millisecond counter   *)
(* that wraps, by counting the readings that went backwards.               *)
(*                                                                         *)
(* Real time is the pair <<wraps, ms>>: the counter and, unseen by the     *)
(* code, how often it has wrapped.  The counter is external.               *)
(***************************************************************************)
EXTENDS Naturals

CONSTANTS
    Wrap,          \* values of millis(): 2^32 in the code
    MaxWraps       \* bound on the time that passes

ASSUME WrapAssumption == Wrap \in Nat \ {0} /\ MaxWraps \in Nat

VARIABLES
    wraps, ms,     \* the counter, and how often it has wrapped
    last_ms,       \* last_ms_
    rollovers,     \* rollovers_
    seenWraps,     \* auxiliary: real time at the last poll
    seenMs

clockVars == <<wraps, ms, last_ms, rollovers, seenWraps, seenMs>>

\* uptime_ms64()
Uptime == rollovers * Wrap + last_ms

ClockInit ==
    /\ wraps = 0 /\ ms = 0
    /\ last_ms = 0 /\ rollovers = 0
    /\ seenWraps = 0 /\ seenMs = 0

\* The counter after one more millisecond.
NextMs == IF ms = Wrap - 1 THEN 0 ELSE ms + 1
NextWraps == IF ms = Wrap - 1 THEN wraps + 1 ELSE wraps

\* A millisecond passes.  The loop polls at least once in every period of
\* the counter: a whole period never goes by unseen.
Tick ==
    /\ ~(NextWraps = seenWraps + 1 /\ NextMs = seenMs)
    /\ NextWraps <= MaxWraps
    /\ ms' = NextMs /\ wraps' = NextWraps
    /\ UNCHANGED <<last_ms, rollovers, seenWraps, seenMs>>

\* Mutant: two polls in one millisecond are taken for a rollover.
Poll_SameIsRollover ==
    /\ rollovers' = IF ms <= last_ms THEN rollovers + 1 ELSE rollovers
    /\ last_ms' = ms
    /\ seenWraps' = wraps /\ seenMs' = ms
    /\ UNCHANGED <<wraps, ms>>

\* Mutant: the counter's own width is all there is.
Poll_NoRollover ==
    /\ last_ms' = ms
    /\ seenWraps' = wraps /\ seenMs' = ms
    /\ UNCHANGED <<wraps, ms, rollovers>>

\* poll()
Poll ==
    /\ rollovers' = IF ms < last_ms THEN rollovers + 1 ELSE rollovers
    /\ last_ms' = ms
    /\ seenWraps' = wraps /\ seenMs' = ms
    /\ UNCHANGED <<wraps, ms>>

ClockNext == Tick \/ Poll

ClockSpec == ClockInit /\ [][ClockNext]_clockVars

-----------------------------------------------------------------------------
\* The counters are naturals, the readings values of millis().
ClockTypeOK ==
    /\ {wraps, rollovers, seenWraps} \subseteq Nat
    /\ {ms, last_ms, seenMs} \subseteq 0..(Wrap - 1)

\* The clock shows the real time of the last poll, however many rollovers of
\* the counter lie behind it and wherever in the period the polls fell.
UptimeExact == rollovers = seenWraps /\ last_ms = seenMs

\* No poll makes the clock go back: timestamps, the grace period and the
\* penalty window are all differences of its readings.
NeverBack == [][Uptime' >= Uptime]_clockVars
=============================================================================

-------------------------- MODULE SmallPartsProofs --------------------------
(* Proofs about two parts that share no state: the uptime is exact, for    *)
(* every width of the counter; write_record() replaces a record            *)
(* atomically, for any paths and records and any number of parts.          *)
EXTENDS UptimeClock, RecordFiles, SequenceTheorems, TLAPS

-----------------------------------------------------------------------------
(* The uptime. *)

\* Where real time can be between two polls: in the period of the last poll,
\* not before it, or in the next one, before the same place.
Window ==
    \/ wraps = seenWraps /\ seenMs <= ms
    \/ wraps = seenWraps + 1 /\ ms < seenMs

IndInv == ClockTypeOK /\ UptimeExact /\ Window

\* The clock's inductive invariant: exact at the last poll, and less than one
\* period of the counter since then.
THEOREM ClockInvariance == ClockSpec => []IndInv
<1>1. ClockInit => IndInv
  BY WrapAssumption DEF ClockInit, IndInv, ClockTypeOK, UptimeExact, Window
<1>2. IndInv /\ [ClockNext]_clockVars => IndInv'
  <2> SUFFICES ASSUME IndInv, [ClockNext]_clockVars PROVE IndInv'
    OBVIOUS
  <2> USE WrapAssumption DEF IndInv, ClockTypeOK, UptimeExact, Window
  <2>1. CASE Tick
    BY <2>1 DEF Tick, NextMs, NextWraps
  <2>2. CASE Poll
    BY <2>2 DEF Poll
  <2>3. CASE UNCHANGED clockVars
    BY <2>3 DEF clockVars
  <2> QED
    BY <2>1, <2>2, <2>3 DEF ClockNext
<1> QED
  BY <1>1, <1>2, PTL DEF ClockSpec

\* poll() keeps the uptime exact across any number of rollovers of millis().
THEOREM UptimeIsExact == ClockSpec => []UptimeExact
<1>1. IndInv => UptimeExact
  BY DEF IndInv
<1> QED
  BY <1>1, ClockInvariance, PTL

\* The uptime never goes back, at a rollover neither.
THEOREM UptimeIsMonotonic == ClockSpec => NeverBack
<1>1. IndInv /\ [ClockNext]_clockVars => [Uptime' >= Uptime]_clockVars
  <2> SUFFICES ASSUME IndInv, [ClockNext]_clockVars PROVE Uptime' >= Uptime
    OBVIOUS
  <2> USE WrapAssumption DEF IndInv, ClockTypeOK, UptimeExact, Window
  <2>1. CASE Poll
    <3>1. CASE ms < last_ms
      <4>1. rollovers' = rollovers + 1 /\ last_ms' = ms
        BY <2>1, <3>1 DEF Poll
      <4>2. (rollovers + 1) * Wrap = rollovers * Wrap + Wrap
        OBVIOUS
      <4>3. rollovers * Wrap \in Nat
        OBVIOUS
      <4> QED
        BY <4>1, <4>2, <4>3 DEF Uptime
    <3>2. CASE ~(ms < last_ms)
      <4>1. rollovers' = rollovers /\ last_ms' = ms
        BY <2>1, <3>2 DEF Poll
      <4>2. rollovers * Wrap \in Nat
        OBVIOUS
      <4> QED
        BY <3>2, <4>1, <4>2 DEF Uptime
    <3> QED
      BY <3>1, <3>2
  <2>2. CASE Tick \/ UNCHANGED clockVars
    <3>1. rollovers * Wrap \in Nat
      OBVIOUS
    <3> QED
      BY <2>2, <3>1 DEF Tick, clockVars, Uptime
  <2> QED
    BY <2>1, <2>2 DEF ClockNext
<1> QED
  BY <1>1, ClockInvariance, PTL DEF ClockSpec, NeverBack

-----------------------------------------------------------------------------
(* The record files. *)

USE FilesAssumption

Written == {Content(r, Parts) : r \in Records}

\* What a path with a whole record loads as.
RecordOf(c) == IF c = Missing THEN Missing ELSE c[1].of

\* Only whole records reach a path, and a rename only has a whole one to
\* give: a leftover is removed before a file is opened to append to, and a
\* write that was not taken whole does not get past close().
FilesInv ==
    /\ file \in [Paths -> Written \cup {Missing}]
    /\ fpc \in {"idle", "remove", "open", "write", "close", "rename", "return"}
    /\ fpc # "idle" =>
          job \in [path : Paths, record : Records, taken : 0..Parts]
    /\ fpc = "open" => tmp = Missing
    /\ fpc \in {"write", "close"} => tmp = <<>>
    /\ fpc = "rename" => tmp = Content(job.record, Parts)

LEMMA ContentIs ==
    ASSUME NEW r \in Records
    PROVE  /\ Content(r, Parts) # Missing /\ Len(Content(r, Parts)) = Parts
           /\ Content(r, Parts)[1].of = r
           /\ SubSeq(Content(r, Parts), 1, Parts) = Content(r, Parts)
           /\ <<>> \o Content(r, Parts) = Content(r, Parts)
<1> DEFINE c == Content(r, Parts)
           S == [of : {r}, part : 1..Parts]
<1>1. DOMAIN c = 1..Parts /\ \A i \in 1..Parts : c[i] = [of |-> r, part |-> i]
  BY DEF Content, Part
<1>2. c \in [1..Parts -> S]
  BY DEF Content, Part
<1>3. c # Missing
  BY MissingAssumption
<1> HIDE DEF c, S
<1>4. c \in Seq(S) /\ Len(c) = Parts
  BY <1>1, <1>2
<1>5. SubSeq(c, 1, Parts) = c
  BY <1>4, SubSeqFull
<1>6. <<>> \o c = c
  BY <1>4
<1>7. c[1].of = r
  BY <1>1
<1> QED
  BY <1>3, <1>4, <1>5, <1>6, <1>7 DEF c

LEMMA LoadIs == FilesInv => \A p \in Paths : Load(p) = RecordOf(file[p])
<1> SUFFICES ASSUME FilesInv, NEW p \in Paths PROVE Load(p) = RecordOf(file[p])
  OBVIOUS
<1>1. CASE file[p] = Missing
  BY <1>1 DEF Load, RecordOf
<1>2. CASE file[p] # Missing
  <2>1. PICK r \in Records : file[p] = Content(r, Parts)
    BY <1>2 DEF FilesInv, Written
  <2> DEFINE c == Content(r, Parts)
  <2>2. c # Missing /\ Len(c) = Parts /\ c[1].of = r /\ SubSeq(c, 1, Parts) = c
    BY ContentIs
  <2> HIDE DEF c
  <2>3. file[p] = c /\ Content(c[1].of, Parts) = c
    BY <2>1, <2>2 DEF c
  <2> QED
    BY <2>2, <2>3 DEF Load, RecordOf
<1> QED
  BY <1>1, <1>2

THEOREM FilesInvariance == FilesSpec => []FilesInv
<1>1. FilesInit => FilesInv
  BY DEF FilesInit, FilesInv
<1>2. FilesInv /\ [FilesNext]_fileVars => FilesInv'
  <2> SUFFICES ASSUME FilesInv, [FilesNext]_fileVars PROVE FilesInv'
    OBVIOUS
  <2> USE DEF FilesInv
  <2>1. ASSUME NEW p \in Paths, NEW r \in Records, BeginRecord(p, r) PROVE FilesInv'
    BY <2>1 DEF BeginRecord
  <2>2. CASE RemoveTmp
    BY <2>2 DEF RemoveTmp
  <2>3. CASE OpenTmp
    BY <2>3 DEF OpenTmp, Fails
  <2>4. CASE WriteTmp
    BY <2>4 DEF WriteTmp
  <2>5. CASE CloseTmp
    <3>1. CASE Fails /\ UNCHANGED file
      BY <3>1 DEF Fails
    <3>2. CASE ~Fails
      <4>1. /\ fpc = "close" /\ fpc' = "rename" /\ job.taken = Parts /\ UNCHANGED <<job, file>>
            /\ tmp' = <<>> \o Content(job.record, Parts)
        BY <2>5, <3>2 DEF CloseTmp
      <4>2. job \in [path : Paths, record : Records, taken : 0..Parts]
        BY <4>1
      <4>3. tmp' = Content(job.record, Parts)
        BY <4>1, <4>2, ContentIs
      <4> QED
        BY <4>1, <4>2, <4>3
    <3> QED
      BY <2>5, <3>1, <3>2 DEF CloseTmp
  <2>6. CASE RenameTmp
    <3>1. CASE Fails /\ UNCHANGED file
      BY <3>1 DEF Fails
    <3>2. CASE ~Fails
      <4>1. /\ fpc = "rename" /\ fpc' = "return" /\ UNCHANGED job
            /\ file' = [file EXCEPT ![job.path] = Content(job.record, Parts)]
        BY <2>6, <3>2 DEF RenameTmp
      <4>2. job \in [path : Paths, record : Records, taken : 0..Parts]
        BY <4>1
      <4> DEFINE c == Content(job.record, Parts)
      <4>3. c \in Written
        BY <4>2 DEF Written
      <4> HIDE DEF c
      <4>4. file' \in [Paths -> Written \cup {Missing}]
        BY <4>1, <4>2, <4>3 DEF c
      <4>5. fpc' = "return" /\ job' \in [path : Paths, record : Records, taken : 0..Parts]
        BY <4>1, <4>2
      <4> QED
        BY <4>4, <4>5 DEF FilesInv
    <3> QED
      BY <2>6, <3>1, <3>2 DEF RenameTmp, Fails
  <2>7. CASE ReturnTrue
    BY <2>7 DEF ReturnTrue, Fails
  <2>8. CASE CutPower
    BY <2>8 DEF CutPower, Fails
  <2>9. ASSUME NEW p \in Paths, ClearRecord(p) PROVE FilesInv'
    BY <2>9 DEF ClearRecord
  <2>10. CASE UNCHANGED fileVars
    BY <2>10 DEF fileVars
  <2> QED
    BY <2>1, <2>2, <2>3, <2>4, <2>5, <2>6, <2>7, <2>8, <2>9, <2>10 DEF FilesNext
<1> QED
  BY <1>1, <1>2, PTL DEF FilesSpec

-----------------------------------------------------------------------------
Stored == [p \in Paths |-> Load(p)]

Saving == IF fpc = "idle" THEN Missing
          ELSE [path |-> job.path, record |-> job.record, done |-> fpc = "return"]

StoredIs == Stored = [p \in Paths |-> RecordOf(file[p])]

\* The abstract store's steps, of what is stored and what is being saved.
StoreStep ==
    \/ \E p \in Paths, r \in Records :
          /\ Saving = Missing /\ Saving' = [path |-> p, record |-> r, done |-> FALSE]
          /\ Stored' = Stored
    \/ /\ Saving # Missing /\ ~Saving.done /\ Saving' = [Saving EXCEPT !.done = TRUE]
       /\ Stored' = [Stored EXCEPT ![Saving.path] = Saving.record]
    \/ /\ Saving # Missing /\ Saving.done \in BOOLEAN /\ Saving' = Missing
       /\ Stored' = Stored
    \/ \E p \in Paths :
          /\ Saving = Missing /\ Stored' = [Stored EXCEPT ![p] = Missing] /\ Saving' = Saving

\* One step of write_record() is one of the abstract store, or none.
LEMMA StoreSteps ==
    ASSUME FilesInv, FilesInv', StoredIs, StoredIs', [FilesNext]_fileVars
    PROVE  StoreStep \/ UNCHANGED <<Stored, Saving>>
<1> DEFINE save(d) == [path |-> job.path, record |-> job.record, done |-> d]
<1>1. file' = file => Stored' = Stored
  BY DEF StoredIs
<1>2. ASSUME fpc # "idle"
      PROVE  /\ job \in [path : Paths, record : Records, taken : 0..Parts]
             /\ Saving = save(fpc = "return") /\ Saving # Missing
  <2>1. job \in [path : Paths, record : Records, taken : 0..Parts]
    BY <1>2 DEF FilesInv
  <2>2. save(fpc = "return") # Missing
    BY <2>1, MissingAssumption
  <2> QED
    BY <1>2, <2>1, <2>2 DEF Saving
<1>3. fpc = "idle" => Saving = Missing
  BY DEF Saving
<1>4. ASSUME NEW p \in Paths, NEW r \in Records, BeginRecord(p, r) PROVE StoreStep
  <2>1. fpc = "idle" /\ fpc' = "remove" /\ file' = file
        /\ job' = [path |-> p, record |-> r, taken |-> 0]
    BY <1>4 DEF BeginRecord
  <2>2. Saving' = [path |-> p, record |-> r, done |-> FALSE]
    BY <2>1 DEF Saving
  <2> QED
    BY <1>1, <1>3, <2>1, <2>2 DEF StoreStep
<1>5. CASE Fails /\ fpc # "idle" /\ file' = file
  <2>1. Saving' = Missing
    BY <1>5 DEF Fails, Saving
  <2>2. Saving.done \in BOOLEAN
    <3>1. Saving = save(fpc = "return")
      BY <1>2, <1>5
    <3> HIDE DEF Saving
    <3>2. CASE fpc = "return"
      <4>1. Saving.done = TRUE
        BY <3>1, <3>2
      <4> QED
        BY <4>1
    <3>3. CASE fpc # "return"
      <4>1. Saving.done = FALSE
        BY <3>1, <3>3
      <4> QED
        BY <4>1
    <3> QED
      BY <3>2, <3>3
  <2> QED
    BY <1>1, <1>2, <1>5, <2>1, <2>2 DEF StoreStep
<1>6. ASSUME fpc \in {"remove", "open", "write", "close"}, file' = file,
             fpc' \in {"open", "write", "close", "rename"},
             job'.path = job.path, job'.record = job.record
      PROVE  UNCHANGED <<Stored, Saving>>
  BY <1>1, <1>6 DEF Saving
<1>7. ASSUME RenameTmp, ~Fails PROVE StoreStep
  <2>1. /\ fpc = "rename" /\ fpc' = "return" /\ job' = job
        /\ file' = [file EXCEPT ![job.path] = Content(job.record, Parts)]
    BY <1>7 DEF RenameTmp, FilesInv
  <2>2. job.path \in Paths /\ job.record \in Records
    BY <1>2, <2>1
  <2>3. RecordOf(Content(job.record, Parts)) = job.record
    BY <2>2, ContentIs DEF RecordOf
  <2>4. Stored' = [Stored EXCEPT ![job.path] = job.record]
    <3> DEFINE c == Content(job.record, Parts)
    <3> HIDE DEF c
    <3>1. file' = [file EXCEPT ![job.path] = c] /\ RecordOf(c) = job.record
      BY <2>1, <2>3 DEF c
    <3>2. \A p \in Paths : RecordOf(file'[p])
                             = IF p = job.path THEN job.record ELSE RecordOf(file[p])
      BY <2>2, <3>1 DEF FilesInv
    <3> QED
      BY <2>2, <3>2 DEF StoredIs
  <2>5. Saving = save(FALSE) /\ Saving' = save(TRUE) /\ Saving # Missing
    BY <1>2, <2>1 DEF Saving
  <2>6. Saving.path = job.path /\ Saving.record = job.record /\ ~Saving.done
    BY <2>5
  <2>7. save(TRUE) = [save(FALSE) EXCEPT !.done = TRUE]
    <3>1. \A x, y : save(y) = [save(x) EXCEPT !.done = y]
      OBVIOUS
    <3> QED
      BY <3>1, Zenon
  <2> HIDE DEF save
  <2> QED
    BY <2>4, <2>5, <2>6, <2>7 DEF StoreStep
<1>8. ASSUME NEW p \in Paths, ClearRecord(p) PROVE StoreStep
  <2>1. fpc = "idle" /\ file' = [file EXCEPT ![p] = Missing] /\ fpc' = fpc
    BY <1>8 DEF ClearRecord
  <2>2. \A q \in Paths : RecordOf(file'[q]) = IF q = p THEN Missing ELSE RecordOf(file[q])
    BY <2>1 DEF FilesInv, RecordOf
  <2>3. Stored' = [Stored EXCEPT ![p] = Missing]
    BY <2>2 DEF StoredIs
  <2>4. Saving = Missing /\ Saving' = Missing
    BY <2>1 DEF Saving
  <2> QED
    BY <2>3, <2>4 DEF StoreStep
<1>9. CASE UNCHANGED fileVars
  BY <1>1, <1>9 DEF fileVars, Saving
<1>10. ASSUME RemoveTmp \/ OpenTmp \/ WriteTmp \/ CloseTmp \/ RenameTmp \/ ReturnTrue
              \/ CutPower
       PROVE  StoreStep \/ UNCHANGED <<Stored, Saving>>
  <2>1. CASE RemoveTmp
    BY <1>6, <2>1 DEF RemoveTmp
  <2>2. CASE OpenTmp
    BY <1>5, <1>6, <2>2 DEF OpenTmp
  <2>3. CASE WriteTmp
    <3>1. job'.path = job.path /\ job'.record = job.record
      BY <1>2, <2>3 DEF WriteTmp
    <3> QED
      BY <1>6, <2>3, <3>1 DEF WriteTmp
  <2>4. CASE CloseTmp
    BY <1>5, <1>6, <2>4 DEF CloseTmp
  <2>5. CASE RenameTmp
    BY <1>5, <1>7, <2>5 DEF RenameTmp, Fails
  <2>6. CASE ReturnTrue
    BY <1>5, <2>6 DEF ReturnTrue
  <2>7. CASE CutPower
    BY <1>5, <2>7 DEF CutPower
  <2> QED
    BY <1>10, <2>1, <2>2, <2>3, <2>4, <2>5, <2>6, <2>7
<1> QED
  BY <1>4, <1>8, <1>9, <1>10 DEF FilesNext

\* A save takes effect in one step or not at all, and reports success only of
\* the one that has: for any cuts, failing calls and leftovers before it.
THEOREM RecordsAreAtomic == FilesSpec => ImplementsStore
<1>1. FilesInit => Store!StoreInit
  <2> SUFFICES ASSUME FilesInit PROVE Stored = [p \in Paths |-> Missing] /\ Saving = Missing
    BY DEF Store!StoreInit, Stored, Saving
  <2> QED
    BY DEF FilesInit, Stored, Saving, Load
<1>2. FilesInv => StoredIs
  BY LoadIs DEF Stored, StoredIs
<1>3. FilesInv /\ FilesInv' /\ StoredIs /\ StoredIs' /\ [FilesNext]_fileVars
        => StoreStep \/ UNCHANGED <<Stored, Saving>>
  BY StoreSteps
<1>4. StoreStep => Store!StoreNext
  BY DEF StoreStep, Store!StoreNext, Store!Begin, Store!Commit, Store!Return, Store!Clear,
         Stored, Saving
<1>5. UNCHANGED <<Stored, Saving>> => UNCHANGED Store!storeVars
  BY DEF Store!storeVars, Stored, Saving
<1>6. FilesSpec => []FilesInv
  BY FilesInvariance
<1> QED
  BY <1>1, <1>2, <1>3, <1>4, <1>5, <1>6, PTL DEF FilesSpec, ImplementsStore, Store!StoreSpec
=============================================================================

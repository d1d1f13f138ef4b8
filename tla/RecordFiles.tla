---------------------------- MODULE RecordFiles ----------------------------
(***************************************************************************)
(* The settings store of the nRF52 boards: write_record() step by step on  *)
(* littlefs, with power cuts, calls that fail and files that end short.    *)
(*                                                                         *)
(* A record is Parts parts.  littlefs is external: a file opened for       *)
(* writing is appended to, what was written is kept from close() on, and   *)
(* rename() replaces its target in one step.                               *)
(***************************************************************************)
EXTENDS Naturals, Sequences

CONSTANTS
    Paths,         \* "/radio.bin", "/dev.bin", "/boots.bin"
    Checked,       \* the paths whose record carries a CRC
    Records,
    Parts,
    Missing,       \* no such file
    Torn           \* what parts of two records read as, without a CRC

ASSUME FilesAssumption == Parts \in Nat \ {0} /\ Checked \subseteq Paths

VARIABLES
    file,        \* the file system: a content, or Missing, for each path
    tmp,         \* the content of /tmp.bin, or Missing
    fpc,         \* where write_record() is
    job          \* its path and record, and the parts f.write() took

fileVars == <<file, tmp, fpc, job>>

Part(r, i) == [of |-> r, part |-> i]
Content(r, n) == [i \in 1..n |-> Part(r, i)]

\* Missing is not a content, and not a save.
ASSUME MissingAssumption ==
    /\ \A r \in Records : \A n \in 0..Parts : Content(r, n) # Missing
    /\ \A p \in Paths, r \in Records, d \in BOOLEAN :
          [path |-> p, record |-> r, done |-> d] # Missing

\* load(), load_device() and load_boot_count(): as many bytes as a record
\* has, and the CRC if it has one
Load(p) ==
    LET c == file[p] IN
    IF c = Missing \/ Len(c) < Parts THEN Missing
    ELSE IF SubSeq(c, 1, Parts) = Content(c[1].of, Parts) THEN c[1].of
    ELSE IF p \in Checked THEN Missing ELSE Torn

Idle == [path |-> Missing, record |-> Missing, taken |-> 0]

Fails == fpc' = "idle" /\ job' = Idle

BeginRecord(p, r) ==
    /\ fpc = "idle" /\ fpc' = "remove" /\ job' = [path |-> p, record |-> r, taken |-> 0]
    /\ UNCHANGED <<file, tmp>>

\* Mutant: the leftover of a write that was cut short stays.
RemoveTmp_Not == fpc = "remove" /\ fpc' = "open" /\ UNCHANGED <<file, tmp, job>>

RemoveTmp ==
    /\ fpc = "remove" /\ tmp' = Missing /\ fpc' = "open"
    /\ UNCHANGED <<file, job>>

OpenTmp ==
    /\ fpc = "open"
    /\ \/ /\ tmp' = IF tmp = Missing THEN <<>> ELSE tmp
          /\ fpc' = "write" /\ UNCHANGED job
       \/ Fails /\ UNCHANGED tmp
    /\ UNCHANGED file

\* f.write() takes some or all of the bytes.
WriteTmp ==
    /\ fpc = "write" /\ fpc' = "close"
    /\ \E n \in 0..Parts : job' = [job EXCEPT !.taken = n]
    /\ UNCHANGED <<file, tmp>>

CloseTmp ==
    /\ fpc = "close" /\ tmp' = tmp \o Content(job.record, job.taken)
    /\ \/ job.taken = Parts /\ fpc' = "rename" /\ UNCHANGED job
       \/ job.taken < Parts /\ Fails
    /\ UNCHANGED file

RenameTmp ==
    /\ fpc = "rename"
    /\ \/ /\ file' = [file EXCEPT ![job.path] = tmp] /\ tmp' = Missing
          /\ fpc' = "return" /\ UNCHANGED job
       \/ Fails /\ UNCHANGED <<file, tmp>>

ReturnTrue == fpc = "return" /\ Fails /\ UNCHANGED <<file, tmp>>

\* clear_device()
ClearRecord(p) ==
    /\ fpc = "idle" /\ file' = [file EXCEPT ![p] = Missing]
    /\ UNCHANGED <<tmp, fpc, job>>

\* What was written and not closed may have reached the flash or not.
CutPower ==
    /\ fpc # "idle" /\ Fails
    /\ \/ UNCHANGED tmp
       \/ /\ fpc = "close"
          /\ \E n \in 1..job.taken : tmp' = tmp \o Content(job.record, n)
    /\ UNCHANGED file

FilesInit ==
    /\ file = [p \in Paths |-> Missing] /\ tmp = Missing /\ fpc = "idle" /\ job = Idle

FilesNext ==
    \/ \E p \in Paths, r \in Records : BeginRecord(p, r)
    \/ RemoveTmp \/ OpenTmp \/ WriteTmp \/ CloseTmp \/ RenameTmp \/ ReturnTrue
    \/ CutPower
    \/ \E p \in Paths : ClearRecord(p)

FilesSpec == FilesInit /\ [][FilesNext]_fileVars

-----------------------------------------------------------------------------
Store == INSTANCE RecordStore WITH
    stored <- [p \in Paths |-> Load(p)],
    saving <- IF fpc = "idle" THEN Missing
              ELSE [path |-> job.path, record |-> job.record, done |-> fpc = "return"]

\* write_record() replaces a record atomically: a power cut or a failed call
\* at any step, and any number of cut writes before it, leave every path
\* loading as the old record or the new one, also where no CRC would notice
\* a mixture.
ImplementsStore == Store!StoreSpec
=============================================================================

---------------------------- MODULE RecordStore ----------------------------
(***************************************************************************)
(* What the settings store promises: a record is replaced as a whole, a    *)
(* save that reports success has replaced it, and a power cut in the       *)
(* middle leaves the old record or the new one.                            *)
(***************************************************************************)
EXTENDS Naturals

CONSTANTS Paths, Records, Missing

VARIABLES
    stored,      \* what each path loads as
    saving       \* the save in progress, and whether it has taken effect

storeVars == <<stored, saving>>

StoreInit == stored = [p \in Paths |-> Missing] /\ saving = Missing

Begin(p, r) ==
    /\ saving = Missing /\ saving' = [path |-> p, record |-> r, done |-> FALSE]
    /\ UNCHANGED stored

Commit ==
    /\ saving # Missing /\ ~saving.done /\ saving' = [saving EXCEPT !.done = TRUE]
    /\ stored' = [stored EXCEPT ![saving.path] = saving.record]

\* Success is reported of a save that has taken effect, and only of those.
Return(ok) == saving # Missing /\ saving.done = ok /\ saving' = Missing /\ UNCHANGED stored

PowerCut == saving' = Missing /\ UNCHANGED stored

Clear(p) == saving = Missing /\ stored' = [stored EXCEPT ![p] = Missing] /\ UNCHANGED saving

StoreNext ==
    \/ \E p \in Paths, r \in Records : Begin(p, r)
    \/ Commit \/ Return(TRUE) \/ Return(FALSE) \/ PowerCut
    \/ \E p \in Paths : Clear(p)

StoreSpec == StoreInit /\ [][StoreNext]_storeVars
=============================================================================

----------------------------- MODULE UnitStream -----------------------------
(***************************************************************************)
(* What reading a srcML document unit by unit promises: each read or skip  *)
(* takes the next unit of the document, a read returns exactly the text of *)
(* that unit, and once there is no more every call says so.                *)
(***************************************************************************)
EXTENDS Naturals, Sequences

CONSTANT Nothing    \* the result of a call that found no unit

VARIABLES
    stream,         \* the units: where each starts, and its text
                    \* ({} for one the document breaks off in)
    next,           \* the unit to take
    result,         \* what the last call returned
    closed          \* the reader was freed

vars == <<stream, next, result, closed>>

Exists == next <= Len(stream)
Readable == Exists /\ stream[next].text # {}

Init == next = 1 /\ result = Nothing /\ closed = FALSE

Read ==
    /\ ~ closed /\ Readable
    /\ result' = stream[next] /\ next' = next + 1
    /\ UNCHANGED <<stream, closed>>

\* the unit is skipped: its text does not matter
Skip ==
    /\ ~ closed /\ Exists
    /\ result' = [from |-> stream[next].from, text |-> {}]
    /\ next' = next + 1
    /\ UNCHANGED <<stream, closed>>

End ==
    /\ ~ closed /\ ~ Readable
    /\ result' = Nothing /\ next' = Len(stream) + 1
    /\ UNCHANGED <<stream, closed>>

Free == ~ closed /\ closed' = TRUE /\ UNCHANGED <<stream, next, result>>

Next == Read \/ Skip \/ End \/ Free

Spec == Init /\ [][Next]_vars
=============================================================================

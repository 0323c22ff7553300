----------------------------- MODULE Documents ------------------------------
(***************************************************************************)
(* What libsrcml promises to a program that makes srcML documents.  The    *)
(* program describes units, by elements and text or by a source, and       *)
(* writes them to the document that is open.  A document is the units that *)
(* were written to it, each as it was described when it was written: its   *)
(* attributes, and its elements with the namespaces they were meant to be  *)
(* in, whatever prefixes stand for them.                                   *)
(***************************************************************************)
EXTENDS Sequences, SequencesExt

CONSTANTS
    Units,              \* the units a program makes
    Undescribed         \* the meaning of a unit before it is built

VARIABLES
    meaning,            \* of each unit
    documents           \* sequences of the meanings written

vars == <<meaning, documents>>

Init ==
    /\ meaning = [u \in Units |-> Undescribed]
    /\ documents = << >>

\* Whatever a program does to a unit, other units and what is written remain.
Describe(u) ==
    /\ \A v \in Units \ {u} : meaning'[v] = meaning[v]
    /\ UNCHANGED documents

Open ==
    /\ documents' = Append(documents, << >>)
    /\ UNCHANGED meaning

Write(u) ==
    /\ documents # << >>
    /\ meaning[u] # Undescribed
    /\ documents' = [documents EXCEPT ![Len(documents)] =
                        Append(@, meaning[u])]
    /\ UNCHANGED meaning

Next == Open \/ \E u \in Units : Describe(u) \/ Write(u)

Spec == Init /\ [][Next]_vars
=============================================================================

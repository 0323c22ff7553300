--------------------------- MODULE OrderedOutput ---------------------------
(***************************************************************************)
(* What the srcml client promises about a conversion, whatever the number  *)
(* of parsing threads: the requests it accepted are written one by one, in *)
(* the order in which they were accepted, and the output is finished only  *)
(* when every accepted request has been written.  A fatal error may cut    *)
(* the output short, but what was written is still a prefix.               *)
(***************************************************************************)
EXTENDS Naturals, Sequences

CONSTANT MaxRequests        \* bound on the requests of one run

VARIABLES accepted,         \* number of requests accepted so far
          output,           \* positions written, in order
          phase             \* "open", "closed" or "aborted"

vars == <<accepted, output, phase>>

Init == accepted = 0 /\ output = << >> /\ phase = "open"

Accept ==
    /\ phase = "open"
    /\ accepted < MaxRequests
    /\ accepted' = accepted + 1
    /\ UNCHANGED <<output, phase>>

Write ==
    /\ phase = "open"
    /\ Len(output) < accepted
    /\ output' = Append(output, Len(output) + 1)
    /\ UNCHANGED <<accepted, phase>>

Close ==
    /\ phase = "open"
    /\ Len(output) = accepted
    /\ phase' = "closed"
    /\ UNCHANGED <<accepted, output>>

Abort ==
    /\ phase = "open"
    /\ phase' = "aborted"
    /\ UNCHANGED <<accepted, output>>

Next == Accept \/ Write \/ Close \/ Abort

Spec == Init /\ [][Next]_vars
=============================================================================

---------------------------- MODULE MCCurlInput -----------------------------
(* Small requests for CurlInput. *)
EXTENDS CurlInput

U(code, chunks, complete, sound) ==
    [code |-> code, chunks |-> chunks, complete |-> complete,
     sound |-> sound]

\* with more data than the pipe holds, a little, none; broken off; an error
\* with and without a page; no connection
Known == {U(200, 4, TRUE, TRUE), U(200, 1, TRUE, TRUE), U(200, 0, TRUE, TRUE),
          U(200, 2, FALSE, TRUE), U(200, 0, FALSE, TRUE),
          U(404, 1, FALSE, TRUE), U(404, 0, FALSE, TRUE)}

\* an archive that is broken, with as much data as the pipe holds and with more
Broken == {U(200, 2, TRUE, FALSE), U(200, 4, TRUE, FALSE)}

\* a broken archive only as the last: what follows one gets its answers
Pairs == {<<u, v>> : u \in Known, v \in Known \cup Broken}
=============================================================================

---------------------------- MODULE MCLibraryUser ----------------------------
(* Small programs for LibraryUser. *)
EXTENDS LibraryUser

CONSTANT u1

One == {u1}

Own == {"own"}
Names == {"", "cpp", "c", "err", "o", "p"}

Solitary == {"archive"}
Registered == {<<"o", "own">>, <<"cpp", "cpp">>}
WrittenElements == {<<"c", "b", "cpp">>, <<"o", "d", "own">>}

\* a source with an element of the preprocessor
Parsed == <<<<<<"start", "src", "a">>, <<"start", "cpp", "b">>, <<"end">>,
              <<"text", "line">>, <<"end">>>>>>

\* The source and the lines that a unit keeps decide nothing else.
WithoutSource ==
    <<archive, files, described,
      [u \in Units |-> [unit[u] EXCEPT !.src = << >>, !.has_src = FALSE,
                                       !.loc = << >>]]>>

Hash == {"hash"}
\* the hash of the source, so that a unit has that or none
HashValues == {ToString(1)}
=============================================================================

------------------------ MODULE MCArchiveConversion ------------------------
(* Small instances of ArchiveConversion, for MaxOpenFiles = 1. *)
EXTENDS ArchiveConversion

Asks(inputs, noArchive) == [inputs |-> inputs, noArchive |-> noArchive]

\* One archive as output and more archives to read than there are permits; an
\* output directory with no more archives than MaxOpenFiles = 1, and with so many
\* that main and the writer both wait.
Ends == {Asks(<<"source", "srcml", "srcml", "srcml">>, FALSE),
         Asks(<<"source", "srcml", "source">>, TRUE),
         Asks(<<"srcml", "srcml", "srcml">>, TRUE)}

\* an output directory and one archive more than MaxOpenFiles = 1
OneTooMany == {Asks(<<"source", "srcml", "srcml">>, TRUE)}
=============================================================================

---------------------------- MODULE MCParseUnit ----------------------------
EXTENDS ParseUnit

Token(type, text) == [type |-> type, text |-> text]

word == Token("WORD", <<"a">>)
space == Token("WS", <<"\t">>)
newline == Token("EOL", <<"\n">>)
open == Token("BLOCK_COMMENT_START", <<"/">>)
close == Token("BLOCK_COMMENT_END", <<"/">>)
line == Token("LINE_COMMENT_START", <<"/">>)
lineEnd == Token("LINE_COMMENT_END", <<"\n">>)
lineLast == Token("LINE_COMMENT_END", << >>)
control == Token("CONTROL_CHAR", << >>)
hash == Token("PREPROC", <<"#">>)
attribute == Token("C_ATTRIBUTE", <<"[">>)

MCPrograms ==
    { << >>,
      <<word, space, word>>,
      <<word, open, close, word>>,
      <<line, lineEnd, word>>,
      <<word, line, lineLast>>,
      <<word, open>>,
      <<control, newline>>,
      <<hash, word, word, newline>>,
      <<hash, newline, word, hash>>,
      <<word, attribute, word, word>> }
=============================================================================

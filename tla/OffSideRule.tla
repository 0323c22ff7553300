---------------------------- MODULE OffSideRule -----------------------------
(***************************************************************************)
(* The filter of Python's tokens that tells the parser where blocks begin  *)
(* and end.  nextToken() passes tokens through until the colon of a block, *)
(* which it turns into an INDENT.  handleBlocks() then reads to the end of *)
(* the outermost block into indentBuffer, with a DEDENT wherever a line    *)
(* is less indented, and arrangeBlockEnds() moves the DEDENTs back to the  *)
(* end of the last statement, ahead of blank lines and comments.           *)
(*                                                                         *)
(* A token read is its position in the source, so that what is returned    *)
(* can be compared with what was read; a DEDENT has no position.           *)
(***************************************************************************)
EXTENDS Integers, Sequences, SequencesExt

\* Programs: sequences of tokens.  lexed is the type a token has from the
\* lexer and type the one it has from the filters before this one; both are
\* among the types below.  line and column are where a token begins, and
\* length is that of its text.
CONSTANT Sources

expect_blocks_py_token_set ==
    {"KEYWORD", "PY_FUNCTION", "CLASS", "PY_MATCH", "PY_CASE"}
left_bracket_py_token_set == {"LEFT", "LPAREN"}

Types == {"WORD", "NAME", "PY_2_PRINT", "PY_TYPE",
          "STRING", "DQUOTE_DOCSTRING",
          "COLON",          \* blockStartToken
          "RIGHT",          \* right_bracket_py_token_set
          "COMMENT",        \* comment_py_token_set
          "WS", "EOL", "WS_EOL", "EOL_BACKSLASH", "EOF", "INDENT"}
         \cup expect_blocks_py_token_set \cup left_bracket_py_token_set

\* a newly made token of type DEDENT
DEDENT == 0

Token == [lexed : Types, type : Types, line : Nat, column : Nat \ {0},
          length : Nat \ {0}]

\* The lexer ends a program with EOF, and whitespace before a line's end is
\* part of that end.
ASSUME SourcesAssumption ==
    \A source \in Sources :
        /\ source \in Seq(Token) /\ source # << >>
        /\ \A p \in 1..Len(source) :
              /\ source[p].type # "INDENT"
              /\ source[p].type = "EOF" <=> p = Len(source)

VARIABLES
    source,     \* the program
    filter,     \* the state of the filter
    pc,         \* "next", "blocks", "arrange", "done", or "undefined"
    output      \* the tokens returned

vars == <<source, filter, pc, output>>

Initially ==
    [read |-> 0,                        \* how many tokens have been read
     type |-> [p \in 1..Len(source) |-> source[p].type],
     buffer |-> << >>,                  \* its last token is returned next
     indentBuffer |-> << >>,
     numIndents |-> 0,
     numBrackets |-> 0,
     numSpacesPerIndent |-> -1,
     isOneLineStatement |-> FALSE,
     expectBlock |-> FALSE,
     delayExpectBlockCheck |-> FALSE,
     checkOneLineStatement |-> FALSE,
     statementContinues |-> FALSE,
     recordToken |-> FALSE,
     tokenAfterIndent |-> DEDENT,
     block |-> DEDENT,                  \* argument of handleBlocks
     numTokensAfterIndent |-> 0,        \* its local variables
     stopCounting |-> FALSE]

Init ==
    /\ source \in Sources
    /\ filter = Initially /\ pc = "next" /\ output = << >>

-----------------------------------------------------------------------------
(* Parts of the filter, as functions of its state f and a token p *)

IsA(f, p, types) == p # DEDENT /\ f.type[p] \in types

LineEnds == {"EOL", "WS_EOL"}

\* what may follow the last statement of a block
Blank == LineEnds \cup {"WS", "COMMENT"}

Push(f, p) == [f EXCEPT !.indentBuffer = Append(@, p)]

\* the blocks that are open above n end
Dedent(f, n) ==
    [f EXCEPT !.indentBuffer = @ \o [i \in 1..(f.numIndents - n) |-> DEDENT],
              !.numIndents = n]

checkBracketToken(f, p) ==
    IF f.type[p] \in left_bracket_py_token_set
    THEN [f EXCEPT !.numBrackets = @ + 1]
    ELSE IF f.type[p] = "RIGHT" /\ f.numBrackets > 0
    THEN [f EXCEPT !.numBrackets = @ - 1]
    ELSE f

expectBlockCheck(f, p) ==
    IF (source[p].column = 1 \/ f.delayExpectBlockCheck) /\ f.numBrackets = 0
    THEN [f EXCEPT !.expectBlock = @ \/ f.type[p] \in expect_blocks_py_token_set,
                   !.delayExpectBlockCheck = f.type[p] = "WS"]
    ELSE f

Checked(f, p) == expectBlockCheck(checkBracketToken(f, p), p)

\* the colon of a block becomes an INDENT
StartBlock(f, p) ==
    IF f.type[p] = "COLON" /\ f.expectBlock /\ f.numBrackets = 0
    THEN [f EXCEPT !.type[p] = "INDENT", !.numIndents = @ + 1,
                   !.expectBlock = FALSE, !.recordToken = TRUE]
    ELSE f

\* mutant: a comment may follow whitespace after an INDENT
OneLineAfterWS(f, p) == ~ IsA(f, f.tokenAfterIndent, LineEnds \cup {"COMMENT"})

\* what follows an INDENT tells whether its block is on the same line
OneLine(f, p) ==
    LET after == f.tokenAfterIndent
    IN  IF IsA(f, after, {"WS"}) THEN ~ IsA(f, p, {"COMMENT"})
        ELSE ~ IsA(f, after, LineEnds \cup {"COMMENT"})

CheckOneLine(f, p) ==
    IF f.checkOneLineStatement
    THEN [f EXCEPT !.isOneLineStatement = OneLine(f, p),
                   !.checkOneLineStatement = FALSE]
    ELSE f

Record(f, p) ==
    IF f.recordToken
    THEN [f EXCEPT !.tokenAfterIndent = p, !.checkOneLineStatement = TRUE,
                   !.recordToken = FALSE]
    ELSE f

Continuation(f, p) ==
    IF f.numIndents > 0 /\ f.type[p] = "EOL_BACKSLASH"
    THEN [f EXCEPT !.statementContinues = TRUE]
    ELSE f

Ceiling(n, d) == (n + d - 1) \div d

\* the state with numSpacesPerIndent set
Measured(f, length) ==
    IF f.numSpacesPerIndent = -1
    THEN [f EXCEPT !.numSpacesPerIndent = Ceiling(length, f.numIndents)]
    ELSE f

-----------------------------------------------------------------------------
(* handleBlocks(): one token, or one at the start of a line and the next *)

\* a backslash right after the INDENT: the block is not on the same line
BackslashAfterIndent(f, p) ==
    f.numTokensAfterIndent < 3 /\ f.type[p] = "EOL_BACKSLASH"

\* p ends a block of one line
EndsOneLine(f, p) ==
    f.isOneLineStatement /\ f.type[p] = "EOL" /\ f.numBrackets = 0

\* mutant: the end of the line is not kept
EndOneLineLoses(f, p) ==
    [Dedent(f, f.numIndents - 1) EXCEPT !.isOneLineStatement = FALSE]

EndOneLine(f, p) ==
    [Dedent(Push(f, p), f.numIndents - 1) EXCEPT !.isOneLineStatement = FALSE]

\* whitespace that indents a line of a block
Indents(f, p) ==
    /\ f.numIndents > 0 /\ ~ f.isOneLineStatement
    /\ source[p].column = 1 /\ f.type[p] = "WS"

\* the line after whitespace p begins with token q
Indented(f, p, q) ==
    IF f.type[q] = "EOF"
    THEN Push(Dedent(Push([f EXCEPT !.read = q, !.type[p] = "WS_EOL"], p), 0), q)
    ELSE LET g == Checked(Push(Push([f EXCEPT !.read = q], p), q), q)
             h == Measured(g, source[p].length)
             expected == Ceiling(source[p].length, h.numSpacesPerIndent)
         IN  IF f.type[q] = "COMMENT" \/ f.statementContinues
             THEN [g EXCEPT !.statementContinues = FALSE]
             ELSE IF expected < f.numIndents THEN Dedent(h, expected) ELSE h

\* p is the first token of a line without indentation, or the end
ClosesAll(f, p) ==
    /\ f.numIndents > 0
    /\ \/ /\ ~ f.isOneLineStatement /\ source[p].column = 1
          /\ f.type[p] \notin Blank
       \/ f.type[p] = "EOF"

\* the token p; an end of line that closed a one-line block is in the buffer
Handled(f, p) ==
    LET one == EndsOneLine(f, p)
        g == IF one THEN EndOneLine(f, p) ELSE f
        h == Continuation(StartBlock(Record(CheckOneLine(g, p), p), p), p)
    IN  IF h.statementContinues /\ h.type[p] \in LineEnds
        THEN [Dedent(Push(h, p), 0) EXCEPT !.statementContinues = FALSE]
        ELSE IF Indents(h, p) THEN Indented(h, p, p + 1)
        ELSE IF ClosesAll(h, p) THEN Dedent(Push(h, p), 0)
        ELSE IF one THEN h ELSE Push(h, p)

Read(f, p) ==
    [f EXCEPT !.read = p,
              !.numTokensAfterIndent = IF f.stopCounting THEN @ ELSE @ + 1]

\* one iteration of the loop
Iteration(f, p) ==
    LET g == Read(f, p)
    IN  IF BackslashAfterIndent(g, p)
        THEN [Push(g, p) EXCEPT !.isOneLineStatement = FALSE,
                                !.checkOneLineStatement = FALSE,
                                !.stopCounting = TRUE]
        ELSE Handled(Checked([g EXCEPT !.stopCounting =
                                       @ \/ g.numTokensAfterIndent > 2], p), p)

HandleBlocks ==
    /\ pc = "blocks"
    /\ filter' = Iteration(filter, filter.read + 1)
    /\ pc' = IF filter'.numIndents = 0 THEN "arrange" ELSE "blocks"
    /\ UNCHANGED <<source, output>>

-----------------------------------------------------------------------------
(* arrangeBlockEnds() *)

\* the token is moved back to buffer
ArrangeToken ==
    /\ pc = "arrange" /\ filter.indentBuffer # << >>
    /\ Last(filter.indentBuffer) # DEDENT
    /\ filter' = [filter EXCEPT !.buffer = Append(@, Last(filter.indentBuffer)),
                                !.indentBuffer = Front(@)]
    /\ UNCHANGED <<source, pc, output>>

\* where the last token of the line on which the block ends is in temp
OnLine(f, temp, end) ==
    SelectLastInSeq(temp, LAMBDA p : source[p].line = source[end].line)

\* The DEDENTs at the end of indentBuffer, first the token after the block.
\* kept is what comes before the blank tokens in front of that.
ArrangeDedents ==
    LET all == filter.indentBuffer
        top == SelectLastInSeq(all, LAMBDA p : p # DEDENT)
        dedents == SubSeq(all, top + 1, Len(all))
        kept == SelectLastInSubSeq(all, 1, top - 1,
                                   LAMBDA p : ~ IsA(filter, p, Blank))
        temp == SubSeq(all, kept + 1, top - 1)
        onLine == OnLine(filter, temp, all[kept])
        after == IF kept = 0 \/ all[kept] = DEDENT THEN 0 ELSE onLine
    IN  /\ pc = "arrange" /\ all # << >> /\ Last(all) = DEDENT
        /\ filter' =
              [filter EXCEPT
               !.indentBuffer = SubSeq(all, 1, kept),
               !.buffer = @ \o <<all[top]>>
                            \o Reverse(SubSeq(temp, after + 1, Len(temp)))
                            \o dedents \o Reverse(SubSeq(temp, 1, after))]
           \* tempBuffer.back() of an empty buffer
        /\ pc' = IF /\ kept # 0 /\ all[kept] # DEDENT
                    /\ temp # << >> /\ onLine = 0
                 THEN "undefined" ELSE pc
        /\ UNCHANGED <<source, output>>

\* the INDENT is returned first
Arranged ==
    /\ pc = "arrange" /\ filter.indentBuffer = << >>
    /\ filter' = [filter EXCEPT !.buffer = Append(@, filter.block)]
    /\ pc' = "next"
    /\ UNCHANGED <<source, output>>

-----------------------------------------------------------------------------
(* nextToken() *)

ReadToken ==
    LET p == filter.read + 1
        f == StartBlock(Checked([filter EXCEPT !.read = p], p), p)
    IN  /\ pc = "next" /\ filter.buffer = << >>
        /\ IF f.type[p] = "INDENT"
           THEN /\ filter' = [f EXCEPT !.block = p, !.numTokensAfterIndent = 0,
                                       !.stopCounting = FALSE]
                /\ pc' = "blocks"
           ELSE filter' = [f EXCEPT !.buffer = <<p>>] /\ UNCHANGED pc
        /\ UNCHANGED <<source, output>>

\* the parser asks for no token after EOF
ReturnToken ==
    LET p == Last(filter.buffer)
    IN  /\ pc = "next" /\ filter.buffer # << >>
        /\ output' = Append(output, p)
        /\ filter' = [filter EXCEPT !.buffer = Front(@)]
        /\ pc' = IF IsA(filter, p, {"EOF"}) THEN "done" ELSE pc
        /\ UNCHANGED source

Finished == pc \in {"done", "undefined"} /\ UNCHANGED vars

Next == \/ HandleBlocks \/ ArrangeToken \/ ArrangeDedents \/ Arranged
        \/ ReadToken \/ ReturnToken \/ Finished

Spec == Init /\ [][Next]_vars

-----------------------------------------------------------------------------
(* Properties *)

\* Some line of the program goes on after a backslash.
Continued == \E p \in 1..Len(source) : source[p].type = "EOL_BACKSLASH"

\* those of the tokens s that are in ps
Those(s, ps) ==
    FlattenSeq([i \in DOMAIN s |-> IF s[i] \in ps THEN <<s[i]>> ELSE << >>])

\* the tokens of the program among those of s
OfSource(s) == Those(s, 1..Len(source))

\* What is returned is the program: although tokens are held back in three
\* buffers while blocks are open, none is lost and none overtakes another.
\* (An end of line after a backslash can be returned twice.)
InOrder ==
    LET s == OfSource(output)
    IN  /\ s # << >> => s[1] = 1
        /\ \A i \in 1..(Len(s) - 1) :
              \/ s[i + 1] = s[i] + 1
              \/ s[i + 1] = s[i] /\ Continued
        /\ pc = "done" => Last(s) = Len(source)

IndentTokens == {p \in 1..Len(source) : filter.type[p] = "INDENT"}

\* how many blocks are open after the tokens s
Depth(s) == Len(Those(s, IndentTokens)) - Len(Those(s, {DEDENT}))

\* A line without indentation begins with a colon, as one may after a
\* backslash.  (Such a line ends all blocks, even when the line before it goes
\* on, so that an INDENT made of its colon comes after their DEDENT tokens.)
ColonFirst == \E p \in 1..Len(source) :
                  source[p].type = "COLON" /\ source[p].column = 1

\* Blocks are nested: a DEDENT ends a block that was begun, and at the end
\* of the program all have ended, whatever its indentation.
Balanced ==
    /\ ~ ColonFirst => Depth(output) >= 0
    /\ pc = "done" => Depth(output) = 0

\* What is returned is the program with its blocks: every token once and in
\* order, and every INDENT with its DEDENT.
ReturnsProgram == InOrder /\ Balanced

=============================================================================

--------------------------- MODULE PythonFilters ---------------------------
(***************************************************************************)
(* What OffSideRule promises, and the other filters of Python's tokens.    *)
(* The blocks OffSideRule finds are those of Python: what is inside which  *)
(* block is told here from the indentation of the lines alone.             *)
(*                                                                         *)
(* Before OffSideRule,                                                     *)
(* DocstringPython makes docstrings of the strings that begin the block of *)
(* a function or class, and NameDifferentiatorPython makes names of words  *)
(* that only look like keywords.  After it, NewlineTerminatePython inserts *)
(* a TERMINATE where a statement ends with its line.                       *)
(*                                                                         *)
(* Each is a function of the types of the tokens it reads.  A comment and  *)
(* a string are one token each.                                            *)
(***************************************************************************)
EXTENDS OffSideRule, FiniteSets

\* the tokens of statements
Code == {p \in 1..Len(source) :
            source[p].type \notin Blank \cup {"EOL_BACKSLASH", "EOF"}}

SameLine(p, q) == source[p].line = source[q].line

\* the first token of a line with statements
Heads == {p \in Code : \A q \in Code : SameLine(p, q) => p <= q}

Indentation(p) ==
    LET h == CHOOSE q \in Heads : SameLine(p, q)
    IN  source[h].column - 1

OfType(p, types) == Cardinality({q \in 1..p : source[q].type \in types})

Brackets(p) == OfType(p, left_bracket_py_token_set) - OfType(p, {"RIGHT"})

\* the colons that begin a block
Colons == {p \in Code : /\ source[p].type = "COLON" /\ Brackets(p) = 0
                        /\ \E q \in Heads :
                              /\ SameLine(p, q)
                              /\ source[q].type \in expect_blocks_py_token_set
                        /\ \A q \in Code : SameLine(p, q) /\ q < p =>
                              source[q].type # "COLON" \/ Brackets(q) > 0}

\* the block is on the line of its colon
Short(colon) == \E p \in Code : p > colon /\ SameLine(p, colon)

\* A token is in the block of a colon on the same line, or where all lines
\* since are further indented.
Encloses(colon, p) ==
    /\ colon < p
    /\ \A q \in Code : q \in colon..p =>
          SameLine(q, colon) \/ Indentation(q) > Indentation(colon)
    /\ Short(colon) => SameLine(colon, p)

\* A program with lines that are not continued and indented by a fixed width,
\* by one more after a colon and by no more elsewhere.
Regular(width) ==
    /\ ~ Continued
    /\ \A h \in Heads :
          /\ source[h].type # "RIGHT"
          /\ Brackets(h) =
                (IF source[h].type \in left_bracket_py_token_set THEN 1 ELSE 0)
          /\ Indentation(h) % width = 0
          /\ LET before == {q \in Heads : q < h}
                 last == CHOOSE q \in before : \A r \in before : r <= q
                 opens == \E c \in Colons : SameLine(c, last) /\ ~ Short(c)
             IN  IF before = {} THEN Indentation(h) = 0
                 ELSE IF opens THEN Indentation(h) = Indentation(last) + width
                 ELSE Indentation(h) <= Indentation(last)
    /\ \A c \in Colons : ~ Short(c) => \E h \in Heads : h > c

\* Whitespace ends the line of a block on one line.
Trailing == \E c \in Colons, p \in 1..Len(source) :
                Short(c) /\ SameLine(c, p) /\ source[p].type = "WS_EOL"

Returned(p) == CHOOSE i \in 1..Len(output) : output[i] = p

\* p is returned between the INDENT that the colon became and its DEDENT
Inside(colon, p) ==
    /\ Returned(colon) < Returned(p)
    /\ \A i \in Returned(colon)..Returned(p) :
          Depth(SubSeq(output, Returned(colon), i)) > 0

\* In a regular program the colon of every block becomes an INDENT, no other
\* does, and each token of a statement is returned inside the blocks that
\* enclose it, wherever comments and blank lines are.
BlockStructure ==
    pc = "done" /\ ~ Trailing /\ (\E width \in 1..4 : Regular(width)) =>
        /\ {p \in Code : filter.type[p] = "INDENT"} = Colons
        /\ \A c \in Colons, p \in Code : Inside(c, p) <=> Encloses(c, p)

-----------------------------------------------------------------------------
(* The other filters *)

Bracket(n, type) == IF type \in left_bracket_py_token_set THEN n + 1
                    ELSE IF n > 0 /\ type = "RIGHT" THEN n - 1 ELSE n

LOCAL At(types, p) == IF p <= Len(types) THEN types[p] ELSE "EOF"

\* the state after n steps
After(n, initial, Step(_, _)) ==
    LET state[p \in 0..n] == IF p = 0 THEN initial ELSE Step(state[p - 1], p)
    IN  state[n]

-----------------------------------------------------------------------------
(* DocstringPython *)

\* the states after the token p
DocstringState(s, p) ==
    LET type == s.types[p]
        brackets == Bracket(s.numBrackets, type)
        definition == s.isFunctionOrClass \/ type \in {"PY_FUNCTION", "CLASS"}
        block == s.isBlockStart \/ (type = "COLON" /\ definition /\ brackets = 0)
        first == definition /\ block
                 /\ type \notin Blank \cup {"COLON", "EOL_BACKSLASH"}
    IN  [types |-> IF first /\ type = "STRING"
                   THEN [s.types EXCEPT ![p] = "DQUOTE_DOCSTRING"] ELSE s.types,
         numBrackets |-> brackets,
         isFunctionOrClass |-> definition /\ ~ first,
         isBlockStart |-> block /\ ~ first]

DocstringPython(types) ==
    After(Len(types),
          [types |-> types, numBrackets |-> 0,
           isFunctionOrClass |-> FALSE, isBlockStart |-> FALSE],
          DocstringState).types

-----------------------------------------------------------------------------
(* NameDifferentiatorPython *)

\* numBrackets after each of the tokens
NumBrackets(types) ==
    LET after[p \in 0..Len(types)] ==
            IF p = 0 THEN 0 ELSE LET n == after[p - 1] IN Bracket(n, types[p])
    IN  after

identifier_list_tokens_set ==
    {"NAME", "PY_2_PRINT", "PY_TYPE", "PY_MATCH", "PY_CASE"}

\* print or type at p is a name, told by the next two tokens
lookAheadTwoDifferentiator(types, brackets, p) ==
    LET extra == At(types, p + 2)
    IN  /\ brackets[p] = 0
        /\ \/ At(types, p + 1) # "WS"
           \/ types[p] = "PY_2_PRINT" /\ extra = "LPAREN"
           \/ types[p] = "PY_TYPE" /\ extra \notin identifier_list_tokens_set

\* mutant: brackets are not counted
StopsAnywhere(types, brackets, p, q) ==
    types[q] \in LineEnds \cup {"COLON", "EOF"}

\* the look-ahead from p stops at q
Stops(types, brackets, p, q) ==
    \/ types[q] = "EOF"
    \/ types[q] \in LineEnds \cup {"COLON"} /\ brackets[q] = brackets[p]

\* the last token read to tell what match or case at p is
LookAhead(types, brackets, p) ==
    IF types[p + 1] = "COLON" THEN p + 1
    ELSE SelectInSubSeq([q \in 1..Len(types) |-> q], p + 2, Len(types),
                        LAMBDA q : Stops(types, brackets, p, q))

\* (EOF is read again when nothing follows.)
variableLookAheadDifferentiator(types, brackets, p) ==
    LET q == LookAhead(types, brackets, p)
    IN  q = p + 1 \/ (q # 0 /\ types[q] \in LineEnds)

\* s.read is the last token in the buffer
NameState(s, p, brackets) ==
    LET Becomes(name, read) ==
            [types |-> IF name THEN [s.types EXCEPT ![p] = "NAME"] ELSE s.types,
             read |-> IF read = 0 THEN Len(s.types) ELSE read]
    IN  IF p <= s.read THEN s
        ELSE IF s.types[p] \in {"PY_2_PRINT", "PY_TYPE"}
        THEN Becomes(lookAheadTwoDifferentiator(s.types, brackets, p), p + 2)
        ELSE IF s.types[p] \in {"PY_MATCH", "PY_CASE"}
        THEN Becomes(variableLookAheadDifferentiator(s.types, brackets, p),
                     LookAhead(s.types, brackets, p))
        ELSE [s EXCEPT !.read = p]

NameDifferentiatorPython(types) ==
    LET brackets == NumBrackets(types)
    IN  After(Len(types), [types |-> types, read |-> 0],
              LAMBDA s, p : NameState(s, p, brackets)).types

\* the tokens of the lexer as OffSideRule gets them
Filtered(tokens) ==
    LET lexed == [p \in 1..Len(tokens) |-> tokens[p].lexed]
        types == NameDifferentiatorPython(DocstringPython(lexed))
    IN  [p \in 1..Len(tokens) |-> [tokens[p] EXCEPT !.type = types[p]]]

-----------------------------------------------------------------------------
(* NewlineTerminatePython *)

TERMINATE == -1

Type(p) == IF p = DEDENT THEN "DEDENT"
           ELSE IF p = TERMINATE THEN "TERMINATE" ELSE filter.type[p]

\* a TERMINATE comes before the token of a type
Terminates(s, type) ==
    \/ /\ type \in LineEnds \cup {"COMMENT"}
       /\ s.parenthesesCount = 0 /\ ~ s.firstCharacter
       /\ s.lastToken # "INDENT"
    \/ type = "EOF" /\ s.lastToken # "EOL"

\* the state after the token p, whitespace before which waits in wsBuffer
TerminateState(s, p) ==
    LET type == Type(p)
        g == [s EXCEPT !.parenthesesCount = Bracket(@, type)]
        ends == Terminates(g, type)
    IN  IF type \in {"WS", "EOL_BACKSLASH"}
        THEN [s EXCEPT !.wsBuffer = Append(@, p)]
        ELSE [parenthesesCount |-> IF ends THEN 0 ELSE g.parenthesesCount,
              firstCharacter |-> type = "EOL",
              lastToken |-> type,
              wsBuffer |-> << >>,
              buffer |-> s.buffer \o (IF ends THEN <<TERMINATE>> ELSE << >>)
                                  \o s.wsBuffer \o <<p>>]

\* what it makes of the tokens it reads
NewlineTerminatePython(read) ==
    After(Len(read),
          [parenthesesCount |-> 0, firstCharacter |-> TRUE,
           lastToken |-> "NONE", wsBuffer |-> << >>, buffer |-> << >>],
          LAMBDA s, i : TerminateState(s, read[i])).buffer

\* What the parser makes of that: a TERMINATE after a comment does not count.
Parsed(s) ==
    LET counts(i) == i = 1 \/ s[i] # TERMINATE \/ Type(s[i - 1]) # "COMMENT"
    IN  After(Len(s), << >>, LAMBDA t, i : IF counts(i) THEN Append(t, s[i]) ELSE t)

-----------------------------------------------------------------------------
(* Properties *)

NextCode(p) == {q \in Code : q > p /\ \A r \in Code : r > p => q <= r}

\* A statement ends with p: outside of brackets, the end of a line that is
\* not continued comes next, or nothing.
Ends(p) ==
    /\ Brackets(p) = 0
    /\ \A q \in NextCode(p) : \E r \in p..q : source[r].type \in LineEnds

\* the first tokens of statements
Begins == {p \in Code : \A q \in Code : NextCode(q) = {p} => Ends(q)}

\* the other tokens of the statement that begins with p
Rest(p) == {q \in Code : q > p /\ \A r \in Code : r \in p..(q - 1) => ~ Ends(r)}

\* a word has been read to tell what the one before is
Consumed(p) ==
    \E q \in 1..(p - 1) : /\ source[q].lexed \in {"PY_2_PRINT", "PY_TYPE"}
                          /\ p - q <= 2

\* the colon of the statement that begins with p
BlockColon(p) ==
    LET colons == {q \in Rest(p) : source[q].type = "COLON" /\ Brackets(q) = 0}
    IN  {q \in colons : \A r \in colons : q <= r}

\* match and case begin a statement with a block if a colon outside of
\* brackets follows, however many lines and brackets there are between, but
\* not directly.
WordsTold ==
    \A p \in Begins :
        source[p].lexed \in {"PY_MATCH", "PY_CASE"} /\ ~ Consumed(p) =>
            (source[p].type = source[p].lexed
                <=> BlockColon(p) \notin {{}, {p + 1}})

\* A string is a docstring where it is the first token of code in the block
\* of a function or class.
DocstringsTold ==
    \A p \in Code :
        source[p].type = "DQUOTE_DOCSTRING"
            <=> /\ source[p].lexed = "STRING"
                /\ \E h \in Begins :
                      /\ source[h].lexed \in {"PY_FUNCTION", "CLASS"}
                      /\ \E c \in BlockColon(h) : NextCode(c) = {p}

\* no bracket is closed that is not open, and none is left open
Closed == (\A p \in Code : Brackets(p) >= 0) /\ Brackets(Len(source)) = 0

\* There is a TERMINATE between two tokens of code where a statement ends,
\* and none inside of a statement.
StatementsEnd ==
    LET s == Parsed(NewlineTerminatePython(output))
        Place(p) == CHOOSE i \in 1..Len(s) : s[i] = p
        Between(p, q) == \E i \in Place(p)..Place(q) : s[i] = TERMINATE
    IN  \A p \in Code : filter.type[p] # "INDENT" =>
            (Between(p, IF NextCode(p) = {} THEN Len(source)
                        ELSE CHOOSE q \in NextCode(p) : TRUE)
                <=> Ends(p))

\* What the filters tell is what Python means: which words are keywords,
\* which strings docstrings, and where statements end.
StatementsTold ==
    pc = "done" /\ Closed => /\ WordsTold /\ DocstringsTold /\ StatementsEnd
=============================================================================

--------------------------- MODULE MCOffSideRule ----------------------------
(* Small programs for the filters of Python, put together from lines. *)
EXTENDS PythonFilters

Line(width, types) == [width |-> width, types |-> types]

LastTypes == {"EOL", "WS_EOL", "EOL_BACKSLASH"}

\* The tokens of a line: whitespace if it is indented, then its types and, if
\* these do not include it, the line's end.  Whitespace before that is part
\* of it.
Lexed(line, number) ==
    LET bare == IF line.width = 0 THEN line.types ELSE <<"WS">> \o line.types
        types == IF bare # << >> /\ Last(bare) \in LastTypes THEN bare
                 ELSE IF bare = <<"WS">> THEN <<"WS_EOL">>
                 ELSE Append(bare, "EOL")
        shift == IF line.width = 0 THEN 0 ELSE line.width - 1
    IN  [i \in 1..Len(types) |->
            [lexed |-> types[i], type |-> types[i], line |-> number,
             column |-> IF i = 1 THEN 1 ELSE i + shift,
             length |-> IF i = 1 THEN shift + 1 ELSE 1]]

EndOfFile(number, column) ==
    [lexed |-> "EOF", type |-> "EOF", line |-> number, column |-> column, length |-> 1]

Tokens(lines) == FlattenSeq([i \in 1..Len(lines) |-> Lexed(lines[i], i)])

\* a program that ends with a line's end, and one that does not
Program(lines) == Append(Tokens(lines), EndOfFile(Len(lines) + 1, 1))
Unended(lines) ==
    LET tokens == Tokens(lines)
    IN  Append(IF Last(tokens).type = "WS_EOL"
               THEN Append(Front(tokens), [Last(tokens) EXCEPT !.type = "WS",
                                                       !.lexed = "WS"])
               ELSE Front(tokens),
               EndOfFile(Len(lines), Last(tokens).column + 1))

statement == <<"WORD">>
header == <<"KEYWORD", "COLON">>
short == <<"KEYWORD", "COLON", "WS", "WORD">>

Lines(widths, shapes) == {Line(w, s) : w \in widths, s \in shapes}

\* blocks inside blocks
Nested == {Program(p) : p \in [1..4 -> Lines({0, 2, 4}, {statement, header})]}

\* each kind of line, in or after a block
Shapes ==
    {statement, header, short, <<"COMMENT">>, << >>,
     <<"WORD", "WS", "COMMENT">>,
     <<"KEYWORD", "COLON", "WS", "COMMENT">>,
     <<"KEYWORD", "LEFT", "COLON", "RIGHT", "COLON">>,
     <<"WORD", "LEFT">>, <<"WORD", "RIGHT">>,
     <<"WORD", "EOL_BACKSLASH">>, <<"EOL_BACKSLASH">>,
     <<"KEYWORD", "COLON", "WORD", "EOL_BACKSLASH">>,
     <<"KEYWORD", "COLON", "WS", "EOL_BACKSLASH">>,
     <<"KEYWORD", "COLON", "WORD", "WS_EOL">>}

Pairs == [1..2 -> Lines({0, 2, 3}, Shapes)]
Firsts == {<<Line(0, s)>> : s \in {header, short}}

Mixed == {Program(first \o pair) : first \in Firsts, pair \in Pairs}
             \cup {Unended(first \o pair) : first \in Firsts, pair \in Pairs}

(* with words that can be names, and strings that can be docstrings *)
Words ==
    {<<"PY_MATCH", "WS", "WORD", "COLON">>, <<"PY_MATCH", "WS", "WORD">>,
     <<"PY_CASE", "LPAREN", "WORD", "RIGHT", "COLON">>,
     <<"PY_CASE", "COLON", "WS", "NAME">>,
     <<"PY_MATCH", "LEFT", "WORD", "COLON", "RIGHT">>, <<"PY_CASE", "LPAREN">>}
More ==
    Words \cup
    {<<"PY_2_PRINT", "WS", "STRING">>, <<"PY_2_PRINT", "LPAREN", "RIGHT">>,
     <<"PY_TYPE", "WS", "NAME">>, <<"RIGHT">>, <<"RIGHT", "COLON">>,
     <<"STRING">>, <<"COMMENT">>, << >>, statement}
Thirds == {statement, <<"RIGHT", "COLON">>, <<"STRING">>,
          <<"PY_MATCH", "WS", "WORD", "COLON">>, <<"PY_CASE", "COLON", "WS", "NAME">>}
Definitions ==
    {<<"CLASS", "WS", "NAME", "COLON">>,
     <<"CLASS", "WS", "NAME", "COLON", "WS", "STRING">>,
     <<"PY_FUNCTION", "LPAREN", "NAME", "COLON", "STRING", "RIGHT", "COLON">>,
     <<"PY_FUNCTION", "LPAREN", "RIGHT", "STRING", "COLON", "WS", "COMMENT">>}

Lexing == {<<Line(0, s), second, third>> :
              s \in Words \cup Definitions,
              second \in Lines({0, 2}, More), third \in Lines({0, 2}, Thirds)}
Told == {Filtered(Program(p)) : p \in Lexing}

(* with a line that begins with the colon of a block *)
Colon == {Program(<<Line(0, header), Line(2, <<"KEYWORD", "EOL_BACKSLASH">>),
                    Line(width, <<"COLON">>), Line(4, statement)>>) : width \in 0..4}

Programs == Nested \cup Mixed \cup Told \cup Colon
=============================================================================

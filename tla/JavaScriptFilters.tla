-------------------------- MODULE JavaScriptFilters --------------------------
(***************************************************************************)
(* The filters between the lexer of JavaScript and the parser.  From the   *)
(* lexer on: NameDifferentiatorJavaScript makes names of words that only   *)
(* look like keywords, NewlineTerminateJavaScript inserts a TERMINATE      *)
(* where a statement ends without a ";", and TrailingHTMLCommentJavaScript *)
(* tells "-->" at the start of a line, a comment, from two operators.      *)
(* Each asks the one before it for a token only when its own buffer is     *)
(* empty.  A token is its position in the source.                          *)
(*                                                                         *)
(* They promise that each word is the name or the keyword the grammar      *)
(* makes of it, that "-->" is a comment where it is one, and that          *)
(* statements end where they do.  A program says of itself, by the         *)
(* positions of its tokens, what its words are, where its comments begin   *)
(* and where its statements end.                                           *)
(***************************************************************************)
EXTENDS JavaScriptNames, Integers, Sequences, SequencesExt

-----------------------------------------------------------------------------
(* isTerminateCase() of NewlineTerminateJavaScript: whether the statement  *)
(* ends between two tokens.  c is what it looks at:                        *)
(*   token, text          the type and the text of the first               *)
(*   next, nextText       of the next that is no whitespace or comment     *)
(*   eol                  whether there is the end of a line between them  *)
(*   prev                 the type of the token before the first           *)
(*   bracket              the innermost open bracket                       *)
(*   inEqualRHS           whether what is right of a "=" has begun         *)
(*   wasPostfixName       whether the first token follows a name directly  *)

Increments == {"++", "--"}
Operator(type, text, texts) == type = "OPERATORS" /\ text \in texts

\* both are parts of one literal
SameLiteral(c) == <<c.token, c.next>> \in {<<"STRING_START", "STRING_END">>,
                                           <<"CHAR_START", "CHAR_END">>,
                                           <<"BACKTICK_START", "BACKTICK_END">>}

\* where a line's end does not matter
AnyLine(c) ==
    \/ c.token # "LCURLY" /\ c.next = "RCURLY"
    \/ c.next = "EOF"
    \/ c.token = "JS_DEBUGGER" /\ (c.eol \/ c.next # "LPAREN")
    \/ /\ c.token \in {"BREAK", "CONTINUE"} /\ c.next # "NAME"
       /\ c.eol \/ c.next # "LPAREN"

\* an operand after an operand
Operands(c) ==
    /\ ~ SameLiteral(c)
    /\ \/ {c.token, c.next} \subseteq insert_terminate_js_token_set
       \/ /\ c.token \in insert_terminate_eol_js_token_set \cup Closing
          /\ c.next \in insert_terminate_eol_js_token_set \cup {"LBRACKET", "LPAREN"}

\* an operator with one operand
Unary(c) ==
    \/ c.wasPostfixName /\ Operator(c.token, c.text, Increments)
    \/ Operator(c.next, c.nextText, Increments \cup {"!"})
    \/ /\ c.prev = "RPAREN" /\ Operator(c.token, c.text, {"!"})
       /\ c.next = "NAME"

\* a keyword that nothing on the next line belongs to
Restricted(c) ==
    \/ c.token \in {"RETURN", "THROW", "JS_YIELD"}
    \/ c.token \in {"BREAK", "CONTINUE"} /\ c.next = "NAME"
    \/ c.token = "JS_ASYNC" /\ c.next \in {"LPAREN", "JS_FUNCTION"}

\* a keyword on the next line
Keyword(c) ==
    /\ c.token \notin {"LCURLY", "COMMA"}
    /\ \/ c.token \notin name_differentiator_js_token_set
       \/ c.token \in {"LITERAL_TRUE", "LITERAL_FALSE", "JS_NULL",
                       "JS_UNDEFINED", "JS_REGEX", "JS_VOID"}
    /\ c.next \in name_differentiator_js_token_set
    /\ c.next = "JS_CONST" => c.token # "TEMPOPS"

\* after and before brackets
Brackets(c) ==
    \/ c.inEqualRHS /\ c.next = "LCURLY"
    \/ c.token = "RPAREN" /\ c.next = "JS_ARROW"
    \/ /\ c.bracket \in {Outside, "LCURLY"} /\ c.token \in {"RPAREN", "RBRACKET"}
       /\ c.next \notin general_operator_tokens_set \cup {"COLON", "QMARK"}
    \/ c.bracket = "LCURLY" /\ c.token = "NAME" /\ c.next = "LBRACKET"
    \/ c.token = "RCURLY" /\ c.next \in {"LCURLY", "MULTOPS"}
    \/ c.token = "TEMPOPE" /\ c.next = "TEMPOPS"
    \/ c.token = "JS_JSX_LITERAL"

isTerminateCase(c) ==
    \/ AnyLine(c)
    \/ /\ c.eol
       /\ \/ Operands(c) \/ Unary(c) \/ Restricted(c) \/ Keyword(c) \/ Brackets(c)

-----------------------------------------------------------------------------
\* Programs, as the lexer gives them: records with the tokens and what a
\* property says of them.  A token has a type, a text (that of an operator)
\* and a line.
CONSTANT Programs

ASSUME ProgramsAssumption ==
    \A program \in Programs :
        /\ program.tokens # << >>
        /\ \A p \in 1..Len(program.tokens) :
              program.tokens[p].type = "EOF" <=> p = Len(program.tokens)

VARIABLES
    program,
    types,      \* the types of its tokens, which filters change
    read,       \* how many the lexer has given
    names,      \* the state of NameDifferentiatorJavaScript
    ends,       \* of NewlineTerminateJavaScript
    comment,    \* of TrailingHTMLCommentJavaScript
    output      \* the tokens the parser has got

vars == <<program, types, read, names, ends, comment, output>>

tokens == program.tokens

\* the token a filter begins with, and a TERMINATE it makes
NoToken == 0
Inserted == -1

TypeOf(p) == IF p = NoToken THEN "NONE"
             ELSE IF p = Inserted THEN "TERMINATE" ELSE types[p]
TextOf(p) == IF p > 0 THEN tokens[p].text ELSE ""
LineOf(p) == IF p > 0 THEN tokens[p].line ELSE 0

IsSkip(p) == TypeOf(p) \in skip_tokens_set
IsBlank(p) == TypeOf(p) \in whitespace_token_set \cup {"EOL"}

Init ==
    /\ program \in Programs
    /\ types = [p \in 1..Len(tokens) |-> tokens[p].type]
    /\ read = 0
    /\ names = [buffer |-> << >>, brackets |-> <<Outside>>,
                looking |-> NoToken,    \* whose lookAheadDifferentiator() runs
                prevToken |-> NoToken, prevNonWhitespaceToken |-> NoToken]
    /\ ends = [buffer |-> << >>, tempSkipBuffer |-> << >>,
               brackets |-> <<Outside>>, firstToken |-> TRUE,
               currentToken |-> NoToken, prevNonWhitespaceToken |-> NoToken,
               inEqualRHS |-> FALSE, wasPostfixName |-> FALSE]
    /\ comment = [buffer |-> << >>, foundNonWhitespace |-> FALSE]
    /\ output = << >>

-----------------------------------------------------------------------------
(* Who waits for a token *)

Done == output # << >> /\ TypeOf(Last(output)) = "EOF"

\* the token returned next may begin a comment: the next one is looked at
Dashes ==
    /\ comment.buffer # << >>
    /\ LET p == Head(comment.buffer)
       IN  /\ TypeOf(p) = "OPERATORS" /\ TextOf(p) = "--"
           /\ ~ comment.foundNonWhitespace

CommentWaits == ~ Done /\ Len(comment.buffer) < (IF Dashes THEN 2 ELSE 1)
EndsWaits == CommentWaits /\ (ends.firstToken \/ ends.buffer = << >>)
NamesWaits == EndsWaits /\ names.buffer = << >>

-----------------------------------------------------------------------------
(* NameDifferentiatorJavaScript *)

\* the stack of open brackets after the token p
checkBracketToken(brackets, p) ==
    IF TypeOf(p) \in Opening THEN Append(brackets, TypeOf(p))
    ELSE IF TypeOf(p) \in Closing /\ Last(brackets) # Outside THEN Front(brackets)
    ELSE brackets

\* the lexer gives EOF again when it is asked after it
After(p) == IF p < Len(tokens) THEN p + 1 ELSE p

\* nextToken() reads a token
ReadToken ==
    LET p == After(read)
        keyword == TypeOf(p) \in Keywords
    IN  /\ NamesWaits
        /\ read' = p
        /\ names' = [names EXCEPT
                     !.buffer = <<p>>, !.brackets = checkBracketToken(@, p),
                     !.looking = IF keyword THEN p ELSE NoToken,
                     !.prevToken = IF keyword THEN @ ELSE p]
        /\ UNCHANGED <<program, types, ends, comment, output>>

\* what isNameToken() sees of the token t when the next one is n
Seen(t, n, spaced, brackets) ==
    LET prev == names.prevNonWhitespaceToken
    IN  [token |-> TypeOf(t), next |-> TypeOf(n), nextText |-> TextOf(n),
         below |-> LineOf(n) > LineOf(t), spaced |-> spaced,
         prev |-> TypeOf(prev), level |-> LineOf(prev) = LineOf(t),
         before |-> TypeOf(names.prevToken), bracket |-> Last(brackets)]

\* case 1
StaysKeyword(c) == c.next \in {"LCURLY", "NAME"}

\* case 2: what is declared, or an argument of a generic type
IsDeclared(c) ==
    \/ /\ c.prev \in decl_start_js_token_set
       /\ c.token \notin {"JS_ASYNC", "JS_GET", "JS_SET", "NAME", "TS_ACCESSOR",
                          "TS_ENUM", "TS_PRIVATE", "TS_PROTECTED", "TS_PUBLIC",
                          "TS_READONLY"}
    \/ Argument(c)

\* case 4
IsListed(c) ==
    /\ c.token \in name_differentiator_subset_js_token_set
    /\ \/ c.next \in ListEnds
       \/ c.next = "OPERATORS" /\ c.token # "RETURN"

\* the token after whitespace, comments and ends of lines that begin at n
NextVisible(n) == SelectInSubSeq(types, n, Len(types),
                      LAMBDA type : type \notin whitespace_token_set \cup {"EOL"})

\* t is a name if named holds, and stays what it is otherwise
Decided(t, named) == types' = [types EXCEPT ![t] = IF named THEN "NAME" ELSE @]

\* lookAheadDifferentiator() of a token right before another
LookAtNext ==
    LET t == names.looking  n == After(read)
        brackets == checkBracketToken(names.brackets, n)
        c == Seen(t, n, FALSE, brackets)
        named == /\ ~ StaysKeyword(c)
                 /\ IsDeclared(c) \/ IsListed(c) \/ isNameToken(c)
    IN  /\ t # NoToken
        /\ ~ IsBlank(n) \/ IsDeclared(c)
        /\ read' = n
        /\ Decided(t, named)
        /\ names' = [names EXCEPT
                     !.buffer = Append(@, n), !.brackets = brackets,
                     !.looking = NoToken,
                     !.prevToken = IF named \/ StaysKeyword(c) THEN n ELSE @,
                     !.prevNonWhitespaceToken =
                        IF named \/ StaysKeyword(c) THEN t ELSE @]
        /\ UNCHANGED <<program, ends, comment, output>>

\* mutant: the next token is not looked at
LookPastWhitespaceOnce ==
    LET t == names.looking  n == After(read)  m == NextVisible(n)
        named == isNameToken(Seen(t, m, TRUE, names.brackets))
    IN  /\ t # NoToken /\ IsBlank(n)
        /\ ~ IsDeclared(Seen(t, n, FALSE, names.brackets))
        /\ read' = m
        /\ Decided(t, named)
        /\ names' = [names EXCEPT
                     !.buffer = @ \o [i \in 1..(m - read) |-> read + i],
                     !.brackets = checkBracketToken(@, m),
                     !.prevToken = m - 1, !.prevNonWhitespaceToken = t,
                     !.looking = NoToken]
        /\ UNCHANGED <<program, ends, comment, output>>

\* case 3: whitespace follows.  The token after it may be a keyword too.
LookPastWhitespace ==
    LET t == names.looking  n == After(read)  m == NextVisible(n)
        named == isNameToken(Seen(t, m, TRUE, names.brackets))
    IN  /\ t # NoToken /\ IsBlank(n)
        /\ ~ IsDeclared(Seen(t, n, FALSE, names.brackets))
        /\ read' = m
        /\ Decided(t, named)
        /\ names' = [names EXCEPT
                     !.buffer = @ \o [i \in 1..(m - read) |-> read + i],
                     !.brackets = checkBracketToken(@, m),
                     !.prevToken = m - 1, !.prevNonWhitespaceToken = t,
                     !.looking = IF TypeOf(m) \in Keywords THEN m ELSE NoToken]
        /\ UNCHANGED <<program, ends, comment, output>>

\* nextToken() returns its first token
NamesGive(p) ==
    /\ EndsWaits /\ names.buffer # << >> /\ names.looking = NoToken
    /\ p = Head(names.buffer)
    /\ names' = [names EXCEPT
                 !.buffer = Tail(@),
                 !.prevNonWhitespaceToken = IF IsSkip(p) THEN @ ELSE p]

-----------------------------------------------------------------------------
(* NewlineTerminateJavaScript *)

\* the tokens before the first that is not skipped
FirstToken ==
    \E p \in {Head(names.buffer \o <<NoToken>>)} :
        /\ ends.firstToken /\ NamesGive(p)
        /\ ends' = IF IsSkip(p) THEN [ends EXCEPT !.buffer = Append(@, p)]
                   ELSE [ends EXCEPT
                         !.firstToken = FALSE, !.currentToken = p,
                         \* emplace_back() puts it below the entry for none
                         !.brackets = IF TypeOf(p) \in Opening
                                      THEN <<TypeOf(p)>> \o @ ELSE @]
        /\ UNCHANGED <<program, types, read, comment, output>>

\* no TERMINATE is inserted before what continues a generic argument
InArguments(p, q) ==
    /\ TypeOf(p) = "TEMPOPS"
    /\ TypeOf(q) \in {"JS_TYPEOF", "TS_INFER", "TS_IS", "TS_KEYOF", "TS_SATISFIES"}

\* mutant: parentheses are not left
TrackedForever(brackets, p) ==
    IF TypeOf(p) \in Opening THEN Append(brackets, TypeOf(p)) ELSE brackets

\* the stack after the token p
Tracked(brackets, p) ==
    IF TypeOf(p) \in Opening THEN Append(brackets, TypeOf(p))
    ELSE IF TypeOf(p) \in Closing /\ Last(brackets) # Outside THEN Front(brackets)
    ELSE brackets

\* whether a TERMINATE is inserted after the token p, with q the next
Terminates(p, q, containsEOL, brackets) ==
    /\ Last(brackets) \notin {"LPAREN", "LBRACKET"} /\ ~ InArguments(p, q)
    /\ "TERMINATE" \notin {TypeOf(p), TypeOf(q)}
    /\ isTerminateCase([token |-> TypeOf(p), text |-> TextOf(p),
                        next |-> TypeOf(q), nextText |-> TextOf(q),
                        eol |-> containsEOL,
                        prev |-> TypeOf(ends.prevNonWhitespaceToken),
                        bracket |-> Last(brackets),
                        inEqualRHS |-> ends.inEqualRHS,
                        wasPostfixName |-> ends.wasPostfixName])

\* mutant: tempSkipBuffer is not emptied
PairAgain(q) ==
    LET p == ends.currentToken
        containsEOL == \E s \in ToSet(ends.tempSkipBuffer) : TypeOf(s) = "EOL"
        brackets == Tracked(ends.brackets, p)
        inserted == IF Terminates(p, q, containsEOL, brackets)
                    THEN <<Inserted>> ELSE << >>
        eof == IF TypeOf(q) = "EOF" THEN <<q>> ELSE << >>
    IN  [ends EXCEPT
         !.buffer = <<p>> \o inserted \o ends.tempSkipBuffer \o eof,
         !.brackets = brackets,
         !.inEqualRHS = IF containsEOL THEN FALSE ELSE @ \/ TypeOf(p) = "EQUAL",
         !.prevNonWhitespaceToken = p, !.currentToken = q,
         !.wasPostfixName = /\ ~ containsEOL /\ TypeOf(p) = "NAME"
                            /\ Operator(TypeOf(q), TextOf(q), Increments)]

\* q is the next token after currentToken that is not skipped
Pair(q) ==
    LET p == ends.currentToken
        containsEOL == \E s \in ToSet(ends.tempSkipBuffer) : TypeOf(s) = "EOL"
        brackets == Tracked(ends.brackets, p)
        inserted == IF Terminates(p, q, containsEOL, brackets)
                    THEN <<Inserted>> ELSE << >>
        eof == IF TypeOf(q) = "EOF" THEN <<q>> ELSE << >>
    IN  [ends EXCEPT
         !.buffer = <<p>> \o inserted \o ends.tempSkipBuffer \o eof,
         !.tempSkipBuffer = << >>, !.brackets = brackets,
         !.inEqualRHS = IF containsEOL THEN FALSE ELSE @ \/ TypeOf(p) = "EQUAL",
         !.prevNonWhitespaceToken = p, !.currentToken = q,
         !.wasPostfixName = /\ ~ containsEOL /\ TypeOf(p) = "NAME"
                            /\ Operator(TypeOf(q), TextOf(q), Increments)]

NextToken ==
    \E q \in {Head(names.buffer \o <<NoToken>>)} :
        /\ ~ ends.firstToken /\ ends.buffer = << >> /\ NamesGive(q)
        /\ ends' = IF IsSkip(q) THEN [ends EXCEPT !.tempSkipBuffer = Append(@, q)]
                   ELSE Pair(q)
        /\ UNCHANGED <<program, types, read, comment, output>>

-----------------------------------------------------------------------------
(* TrailingHTMLCommentJavaScript *)

\* a token is taken from the filter before
TakeToken ==
    /\ CommentWaits /\ ~ ends.firstToken /\ ends.buffer # << >>
    /\ comment' = [comment EXCEPT
                   !.buffer = Append(@, Head(ends.buffer))]
    /\ ends' = [ends EXCEPT !.buffer = Tail(@)]
    /\ UNCHANGED <<program, types, read, names, output>>

ReturnToken ==
    LET p == Head(comment.buffer)
        arrow == Dashes /\ TypeOf(comment.buffer[2]) = "TEMPOPE"
    IN  /\ ~ Done /\ ~ CommentWaits
        /\ types' = IF arrow THEN [types EXCEPT ![p] = "TRAILING_HTML_COMMENT_START"]
                    ELSE types
        /\ comment' = [buffer |-> Tail(comment.buffer),
                       foundNonWhitespace |->
                          /\ TypeOf(p) # "EOL"
                          /\ comment.foundNonWhitespace \/ ~ IsSkip(p)]
        /\ output' = Append(output, p)
        /\ UNCHANGED <<program, read, names, ends>>

Finished == Done /\ UNCHANGED vars

Next == \/ ReadToken \/ LookAtNext \/ LookPastWhitespace
        \/ FirstToken \/ NextToken \/ TakeToken \/ ReturnToken \/ Finished

Spec == Init /\ [][Next]_vars

-----------------------------------------------------------------------------
(* What the filters promise *)

ASSUME RolesAssumption ==
    \A p \in Programs :
        UNION {p.names, p.keywords, p.comments, p.ends} \subseteq 1..Len(p.tokens)

\* the tokens of the source in s
OfSource(s) == SelectSeq(s, LAMBDA p : p # Inserted)

\* Although three filters look ahead and hold tokens back, the parser gets
\* every token of the source once and in order, and nothing but TERMINATEs
\* between them.
SourceInOrder ==
    LET s == OfSource(output)
    IN  /\ s = [i \in 1..Len(s) |-> i]
        /\ Done => Len(s) = Len(tokens)

\* A word is a name for the parser when it is one in the program, and stays a
\* keyword when it is one, whatever whitespace, comments and ends of lines
\* there are; and "--" begins a comment only where it does in the program.
WordsTold ==
    Done => /\ \A p \in program.names : TypeOf(p) = "NAME"
            /\ \A p \in program.keywords : TypeOf(p) # "NAME"
            /\ program.comments = {p \in 1..Len(tokens) :
                                      TypeOf(p) = "TRAILING_HTML_COMMENT_START"}

\* the i-th token of the output is in a comment that "-->" begins
InComment(i) ==
    \E j \in 1..i : /\ output[j] \in program.comments
                    /\ \A k \in j..i : TypeOf(output[k]) # "EOL"

\* what the parser sees of the output
Visible ==
    LET seen == SelectSeq([i \in 1..Len(output) |-> i],
                          LAMBDA i : ~ IsSkip(output[i]) /\ ~ InComment(i))
    IN  [i \in 1..Len(seen) |-> output[seen[i]]]

\* A statement of the program is followed by one TERMINATE, be it the source's
\* or an inserted one, and nothing else is, but for what is before or after
\* the "}" of a block, where the parser does not care.
StatementsEnd ==
    Done =>
        LET v == Visible
            ended == {i \in 1..(Len(v) - 1) : TypeOf(v[i + 1]) = "TERMINATE"}
            free == {i \in ended : "RCURLY" \in {TypeOf(v[i]), TypeOf(v[i + 2])}}
        IN  /\ program.ends \subseteq {v[i] : i \in ended}
            /\ {v[i] : i \in ended \ free} \subseteq program.ends
=============================================================================

--------------------------- MODULE StreamMLParser ---------------------------
(***************************************************************************)
(* The stack of modes of the parser, with the elements opened in each, the *)
(* buffers the tokens go through on their way out, and how the parser      *)
(* takes in the tokens of the program (ModeStack, srcMLState,              *)
(* StreamMLParser).                                                        *)
(*                                                                         *)
(* Tokens of the program the parser does not look at (whitespace,          *)
(* comments, preprocessor lines, C attributes) wait in a skip buffer: an   *)
(* element started flushes it, an element ended does not, so that the end  *)
(* tag comes before the whitespace.  A preprocessor line or an attribute   *)
(* is parsed with a second pair of buffers, which at its end is put in     *)
(* the first skip buffer.                                                  *)
(*                                                                         *)
(* All operators are functions from a state p of the parser to the next.   *)
(* A mode is a record of its one flag that is tested here and its open     *)
(* elements; what else the grammar keeps in it is left out.                *)
(*                                                                         *)
(* A program is a sequence of records of the type of a token, as far as it *)
(* is told apart here, and its text, a sequence of characters.  The lexer  *)
(* closes what it opens, except that the program may end in a comment.     *)
(***************************************************************************)
EXTENDS Integers, Sequences, SequencesExt

Buffers == {"main", "pre"}      \* tb and skiptb, pretb and skippretb
Flags == {"none", "PARSE_EOL", "PREPROC", "INCLUDE_ATTRIBUTE", "TOP", "TOP_SECTION"}

\* a token: of the program at position `at`, or a tag of an element
Text(i) == [tag |-> "text", type |-> "text", at |-> i]
StartTag(e) == [tag |-> "start", type |-> e, at |-> 0]
EndTag(e) == [tag |-> "end", type |-> e, at |-> 0]
EmptyTag(e, i) == [tag |-> "empty", type |-> e, at |-> i]

Mode(flag, open) == [flag |-> flag, open |-> open]

\* StreamMLParser() after the first pop_front of nextToken
NewParser ==
    [st |-> << Mode("none", <<"SUNIT">>) >>,
     out |-> [b \in Buffers |->
                IF b = "main" THEN << EmptyTag("SUNIT", 0) >> ELSE << >>],
     skip |-> [b \in Buffers |-> << >>],
     using |-> "main",          \* pouttb and pskiptb
     inskip |-> FALSE,
     inAttribute |-> FALSE,
     paused |-> 0,              \* where in tb the token of the pause is
     comments |-> << >>,        \* open_comments
     at |-> 1]                  \* LT(1)

-----------------------------------------------------------------------------
(* Pushing tokens *)

pushToken(p, t) == [p EXCEPT !.out[p.using] = Append(@, t)]

pushSkipToken(p, t) == [p EXCEPT !.skip[p.using] = Append(@, t)]

\* mutant: the skip buffer is not emptied
flushSkipKeeps(p) == [p EXCEPT !.out[p.using] = @ \o p.skip[p.using]]

flushSkip(p) ==
    [p EXCEPT !.out[p.using] = @ \o p.skip[p.using],
              !.skip[p.using] = << >>]

pushTokenFlush(p, t) == pushToken(flushSkip(p), t)

-----------------------------------------------------------------------------
(* Modes and elements *)

currentState(p) == Last(p.st)

startNewMode(p, flag) == [p EXCEPT !.st = Append(@, Mode(flag, << >>))]

Opened(p, e) == [p EXCEPT !.st[Len(p.st)].open = Append(@, e)]

startElement(p, e) == pushTokenFlush(Opened(p, e), StartTag(e))

startNoSkipElement(p, e) == pushToken(Opened(p, e), StartTag(e))

emptyElement(p, e) == pushTokenFlush(p, EmptyTag(e, 0))

\* c-attributes among the skipped tokens belong into the element that ends
AttributesEnd(s) == SelectLastInSeq(s, LAMBDA t : t.type = "SATTRIBUTE")

GrabAttributes(p) ==
    IF ~ p.inAttribute /\ currentState(p).flag = "INCLUDE_ATTRIBUTE"
    THEN LET s == p.skip["main"]
             n == AttributesEnd(s)
         IN [p EXCEPT !.out[p.using] = @ \o SubSeq(s, 1, n),
                      !.skip["main"] = SubSeq(s, n + 1, Len(s))]
    ELSE p

endElement(p) ==
    LET q == GrabAttributes(p)
    IN [pushToken(q, EndTag(Last(currentState(p).open)))
            EXCEPT !.st[Len(p.st)].open = Front(@)]

Repeat(Op(_), p, n) ==
    LET after[i \in 0..n] == IF i = 0 THEN p ELSE Op(after[i - 1])
    IN after[n]

\* mutant: the elements still open in the mode are dropped with it
popModeOpen(p) == [p EXCEPT !.st = Front(@)]

popMode(p) ==
    LET q == Repeat(endElement, p, Len(currentState(p).open))
    IN [q EXCEPT !.st = Front(@)]

\* endMode where it does not throw
endMode(p) == IF Len(p.st) > 1 THEN popMode(p) ELSE p

\* how many modes on top of the stack have a flag, the last mode not counted
Above(p, flag) ==
    Cardinality({i \in 2..Len(p.st) :
                    \A j \in i..Len(p.st) : p.st[j].flag = flag})

endWhileMode(p, flag) == Repeat(popMode, p, Above(p, flag))

-----------------------------------------------------------------------------
(* Pausing the stream: while it is paused the tokens stay in tb, so that   *)
(* the start tag of a statement can still be taken back.                   *)

pauseStream(p) == [p EXCEPT !.paused = Len(p.out["main"])]

resumeStream(p) == [p EXCEPT !.paused = 0]

\* take back the start tag and the last token, when that is its end tag
nopStreamStart(p) ==
    LET tb == p.out[p.using]
        Nop(t) == [t EXCEPT !.type = "SNOP"]
    IN IF p.paused = 0 \/ tb[p.paused].type # Last(tb).type THEN p
       ELSE [resumeStream(p) EXCEPT
                !.out[p.using] = [i \in DOMAIN tb |->
                    IF i \in {p.paused, Len(tb)} THEN Nop(tb[i]) ELSE tb[i]]]

-----------------------------------------------------------------------------
(* The end of the program *)

completeSkip(p) ==
    IF p.comments = << >> THEN p
    ELSE [pushSkipToken(p, EndTag(Last(p.comments)))
            EXCEPT !.comments = Front(@)]

EndInner(p) == Repeat(popMode, p, Len(p.st) - 1)

\* the last mode is the unit, and what was skipped is still inside it
endAllModes(p) ==
    LET q == IF p.paused > 0 THEN nopStreamStart(EndInner(p)) ELSE p
    IN popMode(flushSkip(completeSkip(EndInner(resumeStream(q)))))

-----------------------------------------------------------------------------
(* Tokens of the program: consume, which the rules of the grammar call for *)
(* each token they match, and consumeSkippedToken, which takes what rules  *)
(* never see.                                                              *)

Types == {"WORD", "WS", "EOL", "BLOCK_COMMENT_START", "COMMENT_TEXT",
          "BLOCK_COMMENT_END", "LINE_COMMENT_START", "LINE_COMMENT_END",
          "CONTROL_CHAR", "PREPROC", "C_ATTRIBUTE", "EOF"}

whitespace_token_set ==
    {"WS", "BLOCK_COMMENT_START", "COMMENT_TEXT", "BLOCK_COMMENT_END",
     "LINE_COMMENT_START", "LINE_COMMENT_END", "CONTROL_CHAR"}

LA(p, program) ==
    IF p.at > Len(program) THEN "EOF" ELSE program[p.at].type

isSkipToken(p, type) ==
    \/ type \in whitespace_token_set
    \/ type = "EOL" /\ ~ p.inskip

-----------------------------------------------------------------------------
(* consumeSkippedToken *)

Next1(p) == [p EXCEPT !.at = @ + 1]

SkipText(p) == Next1(pushSkipToken(p, Text(p.at)))

OpenComment(p, e) ==
    [SkipText(pushSkipToken(p, StartTag(e))) EXCEPT !.comments = Append(@, e)]

\* mutant: the comment stays open
CloseCommentOpen(p) == p

CloseComment(p) == [p EXCEPT !.comments = Front(@)]

\* the newline that ends a line comment is not part of it
EndLineComment(p, text) ==
    LET q == CloseComment(p)
    IN IF text # << >> /\ Last(text) = "\n"
       THEN SkipText(pushSkipToken(q, EndTag("SLINECOMMENT")))
       ELSE pushSkipToken(SkipText(q), EndTag("SLINECOMMENT"))

SkipToken(p, token) ==
    CASE token.type = "CONTROL_CHAR" ->
            Next1(pushSkipToken(p, EmptyTag("CONTROL_CHAR", p.at)))
      [] token.type = "BLOCK_COMMENT_START" -> OpenComment(p, "SCOMMENT")
      [] token.type = "BLOCK_COMMENT_END" ->
            pushSkipToken(SkipText(CloseComment(p)), EndTag("SCOMMENT"))
      [] token.type = "LINE_COMMENT_START" -> OpenComment(p, "SLINECOMMENT")
      [] token.type = "LINE_COMMENT_END" -> EndLineComment(p, token.text)
      [] OTHER -> SkipText(p)

\* how many of the next tokens are skipped one after the other
SkipLength(p, program) ==
    LET Skipped(i) == i <= Len(program) /\ isSkipToken(p, program[i].type)
    IN CHOOSE n \in 0..Len(program) :
            /\ \A i \in p.at..(p.at + n - 1) : Skipped(i)
            /\ ~ Skipped(p.at + n)

\* the loop of consume over consumeSkippedToken, up to what is not one token
SkipAll(p, program) ==
    Repeat(LAMBDA q : SkipToken(q, program[q.at]), p, SkipLength(p, program))

\* what consumeSkippedToken parses with the second pair of buffers
StartsDirective(p, program) ==
    ~ p.inskip /\ ~ p.inAttribute /\ LA(p, program) = "PREPROC"

StartsAttribute(p, program) ==
    ~ p.inskip /\ ~ p.inAttribute /\ LA(p, program) = "C_ATTRIBUTE"

\* back to the first pair, with all of the second in its skip buffer
Rejoin(p) ==
    [p EXCEPT !.skip["main"] = @ \o p.out["pre"] \o p.skip["pre"],
              !.skip["pre"] = << >>,
              !.out["pre"] = << >>,
              !.using = "main",
              !.inskip = FALSE,
              !.inAttribute = FALSE]

-----------------------------------------------------------------------------
(* consume *)

pushCorrectToken(p, program) ==
    IF isSkipToken(p, LA(p, program)) THEN pushSkipToken(p, Text(p.at))
    ELSE pushTokenFlush(p, Text(p.at))

consume(p, program) ==
    SkipAll(Next1(pushCorrectToken(p, program)), program)

-----------------------------------------------------------------------------
(* The rules preprocessor, eol and attribute_c: what they start and end    *)

\* up to the directive itself
StartDirective(p, program) ==
    LET q == [p EXCEPT !.inskip = TRUE, !.using = "pre"]
        r == startNewMode(startNewMode(q, "PARSE_EOL"), "PREPROC")
    IN startElement(startNewMode(consume(startElement(r, "cpp"), program),
                                 "none"),
                    "directive")

\* endWhileMode(MODE_PREPROC), endMode(MODE_PARSE_EOL), and the newline
EndDirective(p, program) ==
    LET q == endMode(endWhileMode(p, "PREPROC"))
    IN IF LA(q, program) = "EOF" THEN q ELSE consume(q, program)

\* eol_post in a part of the program that #if 0 leaves out: up to the next line
SkipBlock(p, program) ==
    Repeat(LAMBDA q : IF LA(q, program) \in {"PREPROC", "EOF"} THEN q
                      ELSE consume(q, program),
           p, Len(program))

StartAttribute(p, program) ==
    LET q == [p EXCEPT !.inAttribute = TRUE, !.using = "pre"]
    IN consume(startElement(startNewMode(q, "none"), "SATTRIBUTE"), program)
=============================================================================

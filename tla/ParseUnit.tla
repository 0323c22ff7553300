----------------------------- MODULE ParseUnit -----------------------------
(***************************************************************************)
(* srcml_translator::translate for one unit: srcMLOutput asks the parser   *)
(* for a token, the parser runs a rule of the grammar when it has none,    *)
(* and writes what it gets.                                                *)
(*                                                                         *)
(* The grammar is any sequence of the calls its rules make of ModeStack    *)
(* and StreamMLParser, kept to what the rules keep to: a rule ends no mode *)
(* but the last it did not start itself, an expression statement is in     *)
(* another only in a block of its own, and ends after its terminate, with  *)
(* its block or with the program, what takes up the skipped tokens starts  *)
(* before a token, and a preprocessor line ends what it starts.            *)
(*                                                                         *)
(* Promised is what a user of srcML relies on: the text of the program is  *)
(* in the output, all of it and in order, in elements that nest as they    *)
(* were opened, with the positions and the number of lines of the text.    *)
(***************************************************************************)
EXTENDS StreamMLParser, MarkupOutput

CONSTANTS Programs,     \* the programs parsed
          Elements,     \* elements the rules start
          MaxModes,     \* bound: modes on the stack
          MaxStarts     \* bound: modes and elements the rules start

ASSUME ProgramsAssumption ==
    Programs \subseteq Seq([type : Types \ {"EOF"}, text : Seq(STRING)])

ASSUME ElementsAssumption == "CONTROL_CHAR" \notin Elements

VARIABLES program,      \* the tokens of the lexer
          position,     \* whether positions are asked for
          parser, output,
          pc,           \* who runs
          back,         \* where a preprocessor line or an attribute leads to
          starts        \* modes and elements started by rules

vars == <<program, position, parser, output, pc, back, starts>>

Init ==
    /\ program \in Programs
    /\ position \in BOOLEAN
    /\ parser = NewParser
    /\ output = NewOutput
    /\ pc = "front"
    /\ back = "front"
    /\ starts = 0

Next2 == LA(parser, program)
tb == parser.out["main"]
Fixed == UNCHANGED <<program, position>>

\* go on at b with p, after the preprocessor lines and attributes that follow
GoOn(p, b) ==
    CASE StartsDirective(p, program) ->
            parser' = StartDirective(p, program) /\ pc' = "directive" /\ back' = b
      [] StartsAttribute(p, program) ->
            parser' = StartAttribute(p, program) /\ pc' = "attribute" /\ back' = b
      [] OTHER -> parser' = p /\ pc' = b /\ back' = "front"

-----------------------------------------------------------------------------
(* nextToken, called by srcMLOutput::consume *)

\* there is a token and the stream is not paused
Deliver ==
    /\ pc = "front" /\ tb # << >> /\ parser.paused = 0
    /\ parser' = [parser EXCEPT !.out["main"] = Tail(@)]
    /\ IF Head(tb) = Text(Len(program) + 1)
       THEN /\ output' = TakeEOF(output, program, position)
            /\ pc' = "done"
       ELSE /\ output' = Take(output, Head(tb), program, position)
            /\ pc' = "front"
    /\ UNCHANGED <<back, starts>> /\ Fixed

\* fillTokenBuffer: one skipped token, a preprocessor line, or a rule
Fill ==
    /\ pc = "front" /\ (tb = << >> \/ parser.paused > 0)
    /\ IF isSkipToken(parser, Next2)
       THEN /\ parser' = flushSkip(SkipToken(parser, program[parser.at]))
            /\ UNCHANGED <<pc, back>>
       ELSE IF StartsDirective(parser, program) \/ StartsAttribute(parser, program)
       THEN GoOn(parser, "fill")
       ELSE pc' = "rule" /\ UNCHANGED <<parser, back>>
    /\ UNCHANGED <<output, starts>> /\ Fixed

-----------------------------------------------------------------------------
(* The calls of a rule *)

InRule(p) ==
    /\ pc = "rule"
    /\ parser' = p
    /\ UNCHANGED <<pc, back, output>> /\ Fixed

Starts == starts < MaxStarts /\ starts' = starts + 1
Same == UNCHANGED starts

Statement == "expr_stmt"

\* the modes on top of the last block, or section of a block
InBlock(p) ==
    LET n == SelectLastInSeq(p.st, LAMBDA m : m.flag \in {"TOP", "TOP_SECTION"})
    IN SubSeq(p.st, Max({n, 1}) + 1, Len(p.st))

InStatement(p) == \E m \in ToSet(InBlock(p)) : Statement \in ToSet(m.open)

\* the mode that is last has an element of its own
Own(p) ==
    /\ pc = "rule"
    /\ currentState(p).open # << >>
    /\ Last(currentState(p).open) \notin {"SUNIT", Statement}

StartMode(flag) ==
    /\ Len(parser.st) < MaxModes /\ Starts
    /\ InRule(startNewMode(parser, flag))

StartElement(e) ==
    Next2 # "EOF" /\ Starts /\ InRule(startElement(parser, e))

StartNoSkipElement(e) ==
    Starts /\ InRule(startNoSkipElement(parser, e))

EmptyElement(e) ==
    Next2 # "EOF" /\ Starts /\ InRule(emptyElement(parser, e))

\* SingleElement, LightweightElement
EndElement ==
    Own(parser) /\ InRule(endElement(parser)) /\ Same

EndMode ==
    /\ Len(parser.st) > 1
    /\ parser.paused = 0 \/ Statement \notin ToSet(currentState(parser).open)
    /\ InRule(endMode(parser)) /\ Same

\* expression_statement, up to its expression
StartStatement ==
    /\ pc = "rule" /\ Len(parser.st) < MaxModes /\ Next2 = "WORD"
    /\ ~ InStatement(parser)
    /\ Starts
    /\ InRule(pauseStream(startElement(startNewMode(parser, "none"), Statement)))

\* terminate
Terminate ==
    /\ Next2 = "WORD" /\ parser.paused \in 1..(Len(tb) - 1)
    /\ pc = "rule"
    /\ GoOn(consume(resumeStream(parser), program), "rule")
    /\ UNCHANGED <<output, starts>> /\ Fixed

\* rcurly, up to the brace
EndBlock ==
    LET p == flushSkip(Repeat(popMode, parser, Len(InBlock(parser))))
    IN /\ pc = "rule" /\ Next2 = "WORD"
       /\ p.out["main"] # << >> /\ p.paused # Len(p.out["main"])
       /\ InRule(endWhileMode(nopStreamStart(p), "TOP_SECTION"))
       /\ Same

Consume ==
    /\ pc = "rule" /\ Next2 # "EOF"
    /\ GoOn(consume(parser, program), "rule")
    /\ UNCHANGED <<output, starts>> /\ Fixed

\* eof, also from the handler of a rule that failed there
EndOfFile ==
    /\ pc = "rule" /\ Next2 = "EOF"
    /\ parser' = consume(endAllModes(parser), program)
    /\ pc' = "front"
    /\ UNCHANGED <<back, output, starts>> /\ Fixed

\* the rule is done; with nothing to return nextToken consumes a token
Return ==
    /\ pc = "rule" /\ Next2 # "EOF"
    /\ IF tb = << >> THEN GoOn(consume(parser, program), "front")
       ELSE pc' = "front" /\ UNCHANGED <<parser, back>>
    /\ UNCHANGED <<output, starts>> /\ Fixed

-----------------------------------------------------------------------------
(* preprocessor and attribute_c *)

\* one token more, alone or in an element of its own
TakeToken(p, e) ==
    IF e = "none" THEN consume(p, program)
    ELSE endMode(consume(startElement(startNewMode(p, "none"), e), program))

Inner(e, from, to, p) ==
    /\ pc = from /\ pc' = to /\ parser' = p
    /\ (IF e = "none" THEN Same ELSE Starts)
    /\ UNCHANGED <<back, output>> /\ Fixed

LineEnds == Next2 \in {"EOL", "EOF"}

Keyword ==
    Inner("none", "directive", "line",
          endMode(IF LineEnds THEN parser ELSE consume(parser, program)))

LineToken(e) ==
    ~ LineEnds /\ Inner(e, "line", "line", TakeToken(parser, e))

AttributeToken(e) ==
    Next2 = "WORD" /\ Inner(e, "attribute", "attribute", TakeToken(parser, e))

\* what was parsed is skipped, and whoever called goes on
Skipped(p) ==
    /\ IF back = "fill"
       THEN parser' = flushSkip(Rejoin(p)) /\ pc' = "front" /\ back' = "front"
       ELSE GoOn(SkipAll(Rejoin(p), program), back)
    /\ UNCHANGED <<output, starts>> /\ Fixed

EndLine ==
    /\ pc = "line" /\ LineEnds
    /\ LET p == EndDirective(parser, program)
       IN Skipped(p) \/ Skipped(SkipBlock(p, program))

EndAttribute ==
    pc = "attribute" /\ Skipped(endMode(parser))

Done == pc = "done" /\ UNCHANGED vars

Next ==
    \/ Deliver \/ Fill
    \/ \E flag \in {"none", "INCLUDE_ATTRIBUTE", "TOP", "TOP_SECTION"} : StartMode(flag)
    \/ \E e \in Elements : StartElement(e)
    \/ \E e \in Elements : StartNoSkipElement(e)
    \/ \E e \in Elements : EmptyElement(e)
    \/ EndElement \/ EndMode
    \/ StartStatement
    \/ Terminate \/ EndBlock \/ Consume \/ EndOfFile \/ Return
    \/ Keyword
    \/ \E e \in Elements \cup {"none"} : LineToken(e)
    \/ \E e \in Elements \cup {"none"} : AttributeToken(e)
    \/ EndLine \/ EndAttribute
    \/ Done

Spec == Init /\ [][Next]_vars

-----------------------------------------------------------------------------
(* Promised *)

\* the text that a token, or a piece of the output, stands for: where it is in
\* the program, or 0 for the element that replaces a control character
HasText(i) == i <= Len(program) /\ program[i].text # << >>
OfToken(t) ==
    CASE t.type = "CONTROL_CHAR" -> <<0>>
      [] t.tag = "text" /\ HasText(t.at) -> <<t.at>>
      [] OTHER -> << >>
OfPiece(x) ==
    CASE x.kind = "text" -> <<x.at>>
      [] x.kind = "<" /\ x.name = "CONTROL_CHAR" -> <<0>>
      [] OTHER -> << >>
OfProgram(i) ==
    CASE program[i].type = "CONTROL_CHAR" -> <<0>>
      [] program[i].type # "CONTROL_CHAR" /\ HasText(i) -> <<i>>
      [] OTHER -> << >>

Shown(Of(_), s) == FlattenSeq([i \in DOMAIN s |-> Of(s[i])])

\* Whatever the rules do, each token taken from the lexer is in exactly one of
\* the places a token waits in, and these follow each other in the order of
\* the program: what is written, the queue of the output, tb, the skip buffer,
\* and the buffers of a preprocessor line.  So the text of the unit is the
\* source, which is what srcml_unit_parse promises and what unparsing needs
\* (flushSkip, endElement, consumeSkippedToken, endAllModes).
SourceKept ==
    Shown(OfPiece, output.xml)
        \o Shown(OfToken, output.tokenQueue)
        \o Shown(OfToken, tb) \o Shown(OfToken, parser.skip["main"])
        \o Shown(OfToken, parser.out["pre"]) \o Shown(OfToken, parser.skip["pre"])
    = Shown(OfProgram, [i \in 1..Min({parser.at - 1, Len(program)}) |-> i])

\* the output read back: the elements open at its end, the elements that have
\* ended with the pieces they start and end with, and whether all is in place
ReadPiece(r, i, x) ==
    LET top == Last(r.open)
        ended == [r EXCEPT !.open = Front(@), !.tag = FALSE,
                           !.ended = @ \cup {[first |-> top, last |-> i]},
                           !.ok = @ /\ Len(r.open) > 1 /\ x.of = x.name
                                    /\ output.xml[top].name = x.name]
    IN CASE x.kind = "<" -> [r EXCEPT !.open = Append(@, i), !.tag = TRUE,
                                      !.ok = @ /\ ~ r.tag]
         [] x.kind = ">" -> [r EXCEPT !.tag = FALSE, !.ok = @ /\ r.tag]
         [] x.kind = "/>" -> [ended EXCEPT !.ok = @ /\ r.tag]
         [] x.kind = "</" -> [ended EXCEPT !.ok = @ /\ ~ r.tag]
         [] x.kind = "text" -> [r EXCEPT !.ok = @ /\ ~ r.tag]
         [] x.kind = "position" -> [r EXCEPT !.ok = @ /\ r.tag]

Reading ==
    FoldLeft(LAMBDA r, i : IF r.ok THEN ReadPiece(r, i, output.xml[i]) ELSE r,
             [open |-> << >>, ended |-> {}, tag |-> FALSE, ok |-> TRUE],
             [i \in DOMAIN output.xml |-> i])

\* The elements nest: each end tag ends the innermost element that is open and
\* was written for it, none ends the unit, text and elements only follow a
\* start tag that is complete, and when the program has ended nothing is open
\* or waits (popMode, endElement, nopStreamStart, Rejoin, closeStartTag,
\* processToken).
Nested ==
    /\ Reading.ok
    /\ pc = "done" => /\ Len(Reading.open) = 1
                      /\ output.tokenQueue = << >> /\ tb = << >>

TextBefore(i) ==
    FlattenSeq([j \in 1..(i - 1) |->
        IF output.xml[j].kind = "text" THEN program[output.xml[j].at].text
        ELSE << >>])

\* the position of the first character of an element, and of its last
Expected(element) ==
    LET from == append([line |-> 1, column |-> 0], TextBefore(element.first))
    IN PositionPiece([from EXCEPT !.column = @ + 1],
                     append([line |-> 1, column |-> 0], TextBefore(element.last)))

Lines(s) ==
    Cardinality({i \in DOMAIN s : s[i] = "\n"})
    + (IF s # << >> /\ Last(s) # "\n" THEN 1 ELSE 0)

\* An element has the positions of the text in it, and none when it has no
\* text, though its tag is queued before its text is known and elements are
\* written only when the outermost has ended; and the lines counted are those
\* of the text written (consume, addPosition, getLOC).
Counted ==
    /\ position => \A element \in Reading.ended :
            LET x == output.xml[element.first + 1]
            IN IF TextBefore(element.first) = TextBefore(element.last)
               THEN x.kind # "position"
               ELSE x = Expected(element)
    /\ getLOC(output) =
        Lines(FlattenSeq([j \in DOMAIN output.xml |->
            CASE output.xml[j].kind = "text" -> program[output.xml[j].at].text
              [] output.xml[j].kind = "<"
                    /\ output.xml[j].name = "CONTROL_CHAR" -> <<"c">>
              [] OTHER -> << >>]))
=============================================================================

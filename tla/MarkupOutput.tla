---------------------------- MODULE MarkupOutput ----------------------------
(***************************************************************************)
(* srcMLOutput: writes the tokens of the parser as elements and text.  The *)
(* start tag of the unit is written with libxml2's text writer, everything *)
(* in it directly to the same buffer, so each of the two may have a start  *)
(* tag that lacks its ">".                                                 *)
(*                                                                         *)
(* With positions a tag cannot be written before its element has ended:    *)
(* tokens are queued until no element is open.                             *)
(*                                                                         *)
(* The output is a sequence of pieces; where a piece ends an element `of`  *)
(* is the type of the token it was written for.  All operators are         *)
(* functions from a state o of the output to the next.                     *)
(***************************************************************************)
EXTENDS Integers, Sequences, SequencesExt

CONSTANT TabSize

Piece(kind, name, of) == [kind |-> kind, name |-> name, of |-> of]
TextPiece(i) == [kind |-> "text", at |-> i]
PositionPiece(s, e) == [kind |-> "position", start |-> s, end |-> e]

\* consume, before the first token: the start tag of the unit is written
NewOutput ==
    [xml |-> << Piece("<", "unit", "unit") >>,
     tokenQueue |-> << >>,
     startElementStack |-> << >>,       \* positions in tokenQueue
     currentPosition |-> [line |-> 1, column |-> 0],
     openElements |-> << >>,
     startTagOpen |-> FALSE,
     writerPending |-> TRUE,
     src |-> [newlines |-> 0, partialLine |-> FALSE]]

\* the table of elements: some types have no element, some an empty name
NotInProcess == {"text", "SUNIT", "SNOP"}
NoName == {"SONAME"}

Write(o, piece) == [o EXCEPT !.xml = Append(@, piece)]

-----------------------------------------------------------------------------
(* Position *)

AppendChar(pos, c) ==
    CASE c = "\n" -> [line |-> pos.line + 1, column |-> 0]
      [] c = "\t" -> [pos EXCEPT !.column = ((@ \div TabSize) + 1) * TabSize]
      [] OTHER -> [pos EXCEPT !.column = @ + 1]

append(pos, text) == FoldLeft(AppendChar, pos, text)

\* an element without text ends before it starts
NoWidth(s, e) == e.line < s.line \/ (e.line = s.line /\ e.column < s.column)

-----------------------------------------------------------------------------
(* Writing one token *)

\* mutant: the start tag of the unit is forgotten
closeStartTagOwn(o) ==
    IF o.startTagOpen
    THEN [Write(o, Piece(">", "", "")) EXCEPT !.startTagOpen = FALSE]
    ELSE o

closeStartTag(o) ==
    CASE o.startTagOpen ->
            [Write(o, Piece(">", "", "")) EXCEPT !.startTagOpen = FALSE]
      [] ~ o.startTagOpen /\ o.writerPending ->
            [Write(o, Piece(">", "", "")) EXCEPT !.writerPending = FALSE]
      [] OTHER -> o

\* a carriage return never comes this far: UTF8CharBuffer makes it a newline
CountChar(src, c) ==
    IF c = "\n"
    THEN [newlines |-> src.newlines + 1, partialLine |-> FALSE]
    ELSE [src EXCEPT !.partialLine = TRUE]

processText(o, i, text) ==
    IF text = << >> THEN o
    ELSE [Write(closeStartTag(o), TextPiece(i))
            EXCEPT !.src = FoldLeft(CountChar, @, text)]

addPosition(o, t) ==
    IF NoWidth(t.start, t.end) THEN o
    ELSE Write(o, PositionPiece(t.start, t.end))

\* an escaped control character is part of the source, as an element
StartOf(o, t, position) ==
    LET q == [Write(closeStartTag(o), Piece("<", t.type, t.type))
                EXCEPT !.openElements = Append(@, t.type),
                       !.startTagOpen = TRUE,
                       !.src.partialLine = @ \/ t.type = "CONTROL_CHAR"]
    IN IF position /\ t.tag = "start" THEN addPosition(q, t) ELSE q

\* without an open element, it is the text writer's unit that ends
EndOf(o, t) ==
    IF o.openElements = << >>
    THEN [Write(o, Piece("</", "unit", t.type)) EXCEPT !.writerPending = FALSE]
    ELSE [Write(o, Piece(IF o.startTagOpen THEN "/>" ELSE "</",
                         Last(o.openElements), t.type))
            EXCEPT !.startTagOpen = FALSE, !.openElements = Front(@)]

processToken(o, t, position) ==
    LET q == IF t.tag = "end" THEN o ELSE StartOf(o, t, position)
    IN IF t.type \in NoName THEN o
       ELSE IF t.tag = "start" THEN q ELSE EndOf(q, t)

\* program[i].text for a token of the program, nothing for a tag
TokenText(t, program) == IF t.tag = "text" THEN program[t.at].text ELSE << >>

outputToken(o, t, program, position) ==
    CASE t.type = "SUNIT" -> o
      [] t.type \in NotInProcess \ {"SUNIT"} ->
            processText(o, t.at, TokenText(t, program))
      [] OTHER -> processToken(o, t, position)

-----------------------------------------------------------------------------
(* consume *)

OutputQueue(o, program) ==
    LET queue == o.tokenQueue
        after[i \in 0..Len(queue)] ==
            IF i = 0 THEN [o EXCEPT !.tokenQueue = << >>]
            ELSE outputToken(after[i - 1], queue[i], program, TRUE)
    IN after[Len(queue)]

\* a token with the positions of its first character and its last
Placed(t, pos) ==
    [tag |-> t.tag, type |-> t.type, at |-> t.at, start |-> pos, end |-> pos]

Queue(o, t) ==
    [o EXCEPT !.tokenQueue = Append(@, Placed(t, o.currentPosition))]

QueueText(o, t, program) ==
    Queue([o EXCEPT !.currentPosition = append(@, TokenText(t, program))], t)

QueueStart(o, t) ==
    LET q == Queue(o, t)
        n == Len(q.tokenQueue)
    IN [q EXCEPT !.tokenQueue[n].start.column = @ + 1,
                 !.startElementStack = Append(@, n)]

\* mutant: an element ends where the last one did
EndAtStart(o) == o.tokenQueue[Last(o.startElementStack)].start

EndAt(o) == o.currentPosition

QueueEnd(o, t, program) ==
    LET i == Last(o.startElementStack)
        q == Queue([o EXCEPT !.tokenQueue[i].end = EndAt(o),
                             !.startElementStack = Front(@)], t)
    IN IF q.startElementStack = << >> THEN OutputQueue(q, program) ELSE q

\* the next token of the parser, with and without positions
Take(o, t, program, position) ==
    CASE ~ position -> outputToken(o, t, program, FALSE)
      [] position /\ t.type \in NotInProcess -> QueueText(o, t, program)
      [] position /\ t.type \notin NotInProcess /\ t.tag = "start" ->
            QueueStart(o, t)
      [] position /\ t.type \notin NotInProcess /\ t.tag = "empty" -> Queue(o, t)
      [] position /\ t.type \notin NotInProcess /\ t.tag = "end" ->
            QueueEnd(o, t, program)

\* the end of the program
TakeEOF(o, program, position) == IF position THEN OutputQueue(o, program) ELSE o

getLOC(o) == o.src.newlines + (IF o.src.partialLine THEN 1 ELSE 0)
=============================================================================

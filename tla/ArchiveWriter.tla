---------------------------- MODULE ArchiveWriter ----------------------------
(***************************************************************************)
(* Units and archives of libsrcml that are written.  A unit is built by    *)
(* its caller element by element with srcml_write_*(), or by parsing a     *)
(* source.  Either way a translator of its own writes into a buffer, and   *)
(* srcml_write_end_unit() puts the unit together from a start tag that it  *)
(* writes anew, since namespaces may have come up meanwhile, and the rest  *)
(* of the buffer.  The unit then records where its content begins and      *)
(* ends.  Its operations are functions of a unit u and of the archive a it *)
(* belongs to; of an archive only the options and namespaces are used.     *)
(*                                                                         *)
(* The translator of an archive is made with the first unit, or when the   *)
(* archive is closed without one; it writes the root unit, unless the      *)
(* archive is a solitary unit, and every unit with a start tag of its own. *)
(* What is written is in the translator's writer, and in its file once     *)
(* that is closed.  Its operations are functions of an archive a.          *)
(***************************************************************************)
EXTENDS Integers, Sequences, SequencesExt, SrcMLNamespaces

CONSTANTS
    Fields,     \* attributes of units that calls set
    Values      \* what they are set to

-----------------------------------------------------------------------------
(* The part of libxml2's xmlTextWriter that srcMLOutput and the translator *)
(* use.  A writer keeps the names of the open elements, and whether the    *)
(* start tag of the innermost one still takes attributes.  What it has     *)
(* written is a sequence of pieces, each of which stands for one byte or   *)
(* more:                                                                   *)
(*   <<"<", name>>  <<" ">>  <<"attribute", name, value>>                  *)
(*   <<"xmlns", prefix, uri>>  <<">">>  <<"/>">>  <<"</", name>>           *)
(*   <<"text", t>>                                                         *)

\* Op(value), where the set makes TLC evaluate the value once and not wherever
\* Op uses it
With(value, Op(_)) == CHOOSE y \in {Op(x) : x \in {value}} : TRUE

\* FoldLeft, with each step's result evaluated once
Fold(Op(_, _), base, seq) ==
    LET f[i \in 0..Len(seq)] ==
            IF i = 0 THEN base
            ELSE With(f[i - 1], LAMBDA x : Op(x, seq[i]))
    IN  f[Len(seq)]

NewWriter == [buffer |-> << >>, nodes |-> << >>, inTag |-> FALSE]

\* the ">" that whatever follows a start tag writes first
CloseTag(w) ==
    IF w.inTag THEN [w EXCEPT !.buffer = Append(@, <<">">>), !.inTag = FALSE]
    ELSE w

\* xmlTextWriterStartElementNS, with the prefix in the name
StartElement(w, name) ==
    LET closed == CloseTag(w)
    IN  [buffer |-> Append(closed.buffer, <<"<", name>>),
         nodes |-> Append(closed.nodes, name),
         inTag |-> TRUE]

\* xmlTextWriterWriteAttribute, which fails outside of a start tag
CanWriteAttribute(w) == w.inTag
WriteAttribute(w, attribute) ==
    [w EXCEPT !.buffer = @ \o <<<<" ">>, attribute>>]

\* xmlTextWriterWriteRawLen and xmlTextWriterWriteString
WriteRaw(w, pieces) ==
    LET closed == CloseTag(w)
    IN  [closed EXCEPT !.buffer = @ \o pieces]

\* xmlTextWriterEndElement, which fails when no element is open
CanEndElement(w) == w.nodes # << >>
EndElement(w) ==
    [buffer |-> Append(w.buffer,
                       IF w.inTag THEN <<"/>">> ELSE <<"</", Last(w.nodes)>>),
     nodes |-> Front(w.nodes),
     inTag |-> FALSE]

\* xmlTextWriterEndDocument
EndDocument(w) ==
    Fold(LAMBDA v, name : EndElement(v), w, w.nodes)

-----------------------------------------------------------------------------
(* Reading back.  A document is read as the events <<"start", name>>,      *)
(* <<"attribute", ...>>, <<"xmlns", ...>>, <<"text", t>> and <<"end">>.    *)

\* what has been read: the open elements, whether a start tag is open, the
\* events, and whether it can be read at all
Unread == [nodes |-> << >>, inTag |-> FALSE, events |-> << >>, ok |-> TRUE]

ReadPiece(r, piece) ==
    CASE piece[1] = "<" ->
            [r EXCEPT !.ok = @ /\ ~ r.inTag, !.inTag = TRUE,
                      !.nodes = Append(@, piece[2]),
                      !.events = Append(@, <<"start", piece[2]>>)]
      [] piece[1] = " " -> [r EXCEPT !.ok = @ /\ r.inTag]
      [] piece[1] \in {"attribute", "xmlns"} ->
            [r EXCEPT !.ok = @ /\ r.inTag, !.events = Append(@, piece)]
      [] piece[1] = ">" ->
            [r EXCEPT !.ok = @ /\ r.inTag, !.inTag = FALSE]
      [] piece[1] = "/>" ->
            [r EXCEPT !.ok = @ /\ r.inTag, !.inTag = FALSE,
                      !.nodes = IF @ = << >> THEN @ ELSE Front(@),
                      !.events = Append(@, <<"end">>)]
      [] piece[1] = "</" ->
            [r EXCEPT !.ok = @ /\ ~ r.inTag /\ r.nodes # << >>
                                /\ (r.nodes # << >> => Last(r.nodes) = piece[2]),
                      !.nodes = IF @ = << >> THEN @ ELSE Front(@),
                      !.events = Append(@, <<"end">>)]
      [] piece[1] = "text" ->
            [r EXCEPT !.ok = @ /\ ~ r.inTag, !.events = Append(@, piece)]

Read(pieces) == Fold(ReadPiece, Unread, pieces)

\* a whole number of elements, each ended where it should be
WellFormed(pieces) ==
    LET r == Read(pieces) IN r.ok /\ r.nodes = << >> /\ ~ r.inTag

\* the text of a document without its tags (extract_src)
Text(pieces) == SelectSeq(pieces, LAMBDA piece : piece[1] = "text")

-----------------------------------------------------------------------------
(* Units *)

Unset == "unset"

NoTranslator ==
    [exists |-> FALSE, output_unit_depth |-> 0,
     out |-> NewOutput, writer |-> NewWriter]

\* srcml_unit_create
NewUnit ==
    [attributes |-> [f \in Fields |-> Unset],
     namespaces |-> << >>,              \* no table
     unit_translator |-> NoTranslator,
     srcml |-> << >>, read_body |-> FALSE,
     content_begin |-> 0, content_end |-> 0,
     insert_begin |-> 0, insert_end |-> 0,
     src |-> << >>, has_src |-> FALSE,
     loc |-> << >>]                     \* the text whose lines were counted

\* srcml_unit_clone
Clone(u) == [NewUnit EXCEPT !.attributes = u.attributes,
                            !.namespaces = u.namespaces]

\* srcml_unit_set_filename and the like
SetAttribute(u, field, value) == [u EXCEPT !.attributes[field] = value]

\* srcml_unit_register_namespace
RegisterNamespace(u, prefix, uri) ==
    [u EXCEPT !.namespaces = addNamespace(@, uri, prefix, TRUE)]

-----------------------------------------------------------------------------
(* Writing a unit *)

\* a unit's own attributes, in its start tag
AttributePieces(attributes) ==
    LET set == SetToSeq({f \in DOMAIN attributes : attributes[f] # Unset})
    IN  [i \in 1..Len(set) |-> <<"attribute", set[i], attributes[set[i]]>>]

\* srcMLOutput::startUnit
StartUnitTag(w, out, options, attributes) ==
    Fold(WriteAttribute,
             StartElement(w, <<out.namespaces["src"].prefix, "unit">>),
             outputNamespaces(out, options) \o AttributePieces(attributes))

\* where srcml_unit_get_srcml_outer leaves out a declaration
FirstDeclaration(pieces) ==
    LET first == SelectInSeq(pieces, LAMBDA piece : piece[1] = "xmlns")
    IN  [begin |-> first - 1, end |-> first + 1]

\* srcml_write_start_unit: whatever was being built before is dropped
WriteStartUnit(a, u) ==
    LET namespaces == IF u.namespaces = << >> THEN a.namespaces
                      ELSE u.namespaces
        options == a.options \ {"archive"}
        out == initNamespaces(NewOutput, namespaces)
        w == StartUnitTag(NewWriter, out, options, u.attributes)
        insert == FirstDeclaration(w.buffer)
    IN  [u EXCEPT !.namespaces = namespaces,
                  !.unit_translator =
                      [exists |-> TRUE, output_unit_depth |-> 0,
                       out |-> [Marked(out, options) EXCEPT !.depth = 1],
                       writer |-> w],
                  !.content_begin = Len(w.buffer) + 1,
                  !.insert_begin = insert.begin,
                  !.insert_end = insert.end]

\* mutant: elements that are open stay open
CloseNone(translator) == translator

\* the loop that ends what is still open
CloseElements(translator) ==
    Fold(LAMBDA t, i : [t EXCEPT !.output_unit_depth = @ - 1,
                                     !.writer = EndElement(@)],
             translator, [i \in 1..translator.output_unit_depth |-> i])

\* mutant: the offset of the end is that in the old buffer
ContentEndUnmoved(end, before, after) == end

\* where the content ends behind another start tag
ContentEnd(end, before, after) == end + after - before

\* a start tag, and the rest of a buffer after its own
PutTogether(tag, buffer, begin, end) ==
    tag \o IF begin = end THEN <<<<"/>">>>>
           ELSE <<<<">">>>> \o SubSeq(buffer, begin + 1, Len(buffer))

\* srcml_write_end_unit; counted says that the output counted lines
WriteEndUnit(a, u, counted) ==
    LET closed == CloseElements(u.unit_translator)
        end == Len(closed.writer.buffer) + 1
        buffer == EndElement(closed.writer).buffer
        again == WriteStartUnit(a, [u EXCEPT !.unit_translator = NoTranslator])
        srcml == PutTogether(again.unit_translator.writer.buffer, buffer,
                             u.content_begin, end)
        src == IF u.has_src THEN u.src ELSE Text(srcml)
    IN  [again EXCEPT
            !.srcml = srcml,
            !.content_end = ContentEnd(end, u.content_begin,
                                        again.content_begin),
            !.src = IF counted /\ ~ u.has_src THEN @ ELSE src,
            !.has_src = @ \/ ~ counted,
            !.loc = IF counted /\ ~ u.has_src THEN Text(buffer) ELSE src,
            !.unit_translator = NoTranslator,
            !.read_body = TRUE]

\* The archive does not know the namespace of an element as the caller gives
\* it.
IsNewNamespace(a, prefix, uri) ==
    uri \in DOMAIN a.namespaces => a.namespaces[uri].prefix # prefix

\* srcml_write_start_element, of a unit that is being built
WriteStartElement(a, u, prefix, name, uri) ==
    [(IF IsNewNamespace(a, prefix, uri) THEN RegisterNamespace(u, prefix, uri)
      ELSE u)
        EXCEPT !.unit_translator.output_unit_depth = @ + 1,
               !.unit_translator.writer = StartElement(@, <<prefix, name>>)]

\* srcml_write_end_element
WriteEndElement(u) ==
    [u EXCEPT !.unit_translator.output_unit_depth = @ - 1,
              !.unit_translator.writer = EndElement(@)]

\* srcml_write_attribute; srcml_write_namespace likewise
WriteElementAttribute(u, name, value) ==
    [u EXCEPT !.unit_translator.writer =
        WriteAttribute(@, <<"attribute", name, value>>)]

\* srcml_write_string
WriteString(u, text) ==
    [u EXCEPT !.unit_translator.writer = WriteRaw(@, <<<<"text", text>>>>)]

-----------------------------------------------------------------------------
(* Parsing *)

\* An element of the parser takes the prefix of its namespace, which is used
\* from then on.
Translate1(translator, event) ==
    CASE event[1] = "start" ->
            LET out == translator.out
                uri == event[2]
            IN  [translator EXCEPT
                    !.out.namespaces = getPrefix(@, uri),
                    !.writer = StartElement(@, <<out.namespaces[uri].prefix,
                                                 event[3]>>)]
      [] event[1] = "text" ->
            [translator EXCEPT !.writer = WriteRaw(@, <<event>>)]
      [] event[1] = "end" -> [translator EXCEPT !.writer = EndElement(@)]

\* srcml_unit_parse_internal, of a source whose elements are given by events
Parse(a, u, hash, events) ==
    LET hashed == IF "hash" \in Fields /\ u.attributes["hash"] = Unset
                     /\ "hash" \in a.options
                  THEN SetAttribute(u, "hash", hash) ELSE u
        started == WriteStartUnit(a, hashed)
        translated == Fold(Translate1, started.unit_translator, events)
    IN  WriteEndUnit(a, [started EXCEPT
                            !.unit_translator = translated,
                            !.namespaces = translated.out.namespaces], TRUE)

-----------------------------------------------------------------------------
(* What a unit gives away *)

\* srcml_unit_get_srcml_inner, before it is cached, and what is written to
\* an archive
Inner(u) == SubSeq(u.srcml, u.content_begin + 1, u.content_end - 1)

\* srcml_unit_get_srcml_outer, before it is cached
Outer(u) == SubSeq(u.srcml, 1, u.insert_begin)
                \o SubSeq(u.srcml, u.insert_end + 1, Len(u.srcml))

\* srcml_unit_get_src
GetSrc(u) == IF u.has_src THEN u
             ELSE [u EXCEPT !.src = Text(u.srcml), !.has_src = TRUE]

-----------------------------------------------------------------------------
(* Archives *)

NoOutput ==
    [exists |-> FALSE, first |-> TRUE, closed |-> FALSE, file |-> 0,
     options |-> {}, out |-> NewOutput, writer |-> NewWriter]

\* srcml_archive_create, with the options it starts with
NewArchive ==
    [type |-> "INVALID", options |-> {"archive", "hash"},
     namespaces |-> starting_namespaces,
     translator |-> NoOutput,
     output_buffer |-> 0,       \* the file that is open, or 0
     rawwrites |-> FALSE]

\* srcml_archive_enable_solitary_unit, srcml_archive_disable_hash, and
\* their opposites
EnableOption(a, option) == [a EXCEPT !.options = @ \cup {option}]
DisableOption(a, option) == [a EXCEPT !.options = @ \ {option}]

\* srcml_archive_register_namespace: some namespaces imply options
RegisterArchiveNamespace(a, prefix, uri) ==
    [a EXCEPT !.namespaces = addNamespace(@, uri, prefix, FALSE),
              !.options = CASE uri = "cpp" -> @ \cup {"cpp_declared"}
                            [] uri = "err" -> @ \cup {"debug"}
                            [] OTHER -> @]

\* srcml_archive_write_open_filename and its variants
WriteOpen(a, file) == [a EXCEPT !.type = "WRITE", !.output_buffer = file]

\* srcml_archive_write_create_translator_xml_buffer
CreateTranslator(a) ==
    [a EXCEPT !.translator =
        [NoOutput EXCEPT !.exists = TRUE, !.file = a.output_buffer,
                         !.options = a.options,
                         !.out = initNamespaces(NewOutput, a.namespaces)]]

-----------------------------------------------------------------------------
(* The archive's translator t *)

\* srcMLOutput::startUnit, which counts the first unit
StartUnit(t, attributes) ==
    [t EXCEPT !.writer = StartUnitTag(@, t.out, t.options, attributes),
              !.out = [Marked(@, t.options) EXCEPT !.depth = 1]]

\* srcml_translator::prepareOutput: the root of an archive
PrepareOutput(t) ==
    IF ~ t.first THEN t
    ELSE IF "archive" \in t.options
    THEN StartUnit([t EXCEPT !.first = FALSE], << >>)
    ELSE [t EXCEPT !.first = FALSE]

\* srcMLOutput::outputUnitSeparator
Separate(t) ==
    IF "archive" \in t.options
    THEN [t EXCEPT !.writer = WriteRaw(@, <<<<"text", "separator">>>>)] ELSE t

\* srcml_translator::add_unit, when the output is not closed.  The prefixes
\* a unit was built with are merged into those of its archive.
AddUnit(t, a, u) ==
    LET ready == Separate(PrepareOutput(t))
        merged == Merge(a.namespaces, u.namespaces)
        started == StartUnit([ready EXCEPT !.out = initNamespaces(@, merged)],
                             u.attributes)
        inner == Inner(u)
        filled == IF inner = << >> THEN started
                  ELSE [started EXCEPT !.writer = WriteRaw(@, inner)]
    IN  [filled EXCEPT !.writer = EndElement(@)]

\* srcml_translator::close
CloseTranslator(t) ==
    LET separated == IF t.first THEN t ELSE Separate(t)
        ready == PrepareOutput(separated)
    IN  [ready EXCEPT !.writer = EndDocument(@), !.closed = TRUE]

-----------------------------------------------------------------------------

\* Calls that srcml_archive_write_unit accepts
CanWriteUnit(a, u) == u.read_body /\ a.type = "WRITE"

\* srcml_archive_write_unit.  A closed translator writes nothing, and whether
\* it did is not looked at.
WriteUnit(a, u) ==
    LET ready == IF a.translator.exists THEN a ELSE CreateTranslator(a)
    IN  IF ready.translator.closed THEN ready
        ELSE [ready EXCEPT !.translator = AddUnit(@, ready, u)]

\* mutant: no archive is made of no units
CreateNever(a) == FALSE

\* An archive without units is written when it is closed.
CreateWhenClosed(a) ==
    a.type = "WRITE" /\ ~ a.rawwrites /\ ~ a.translator.exists

\* srcml_archive_close
Close(a) ==
    LET ready == IF CreateWhenClosed(a) THEN CreateTranslator(a) ELSE a
        closed == IF ready.translator.exists /\ ~ ready.translator.closed
                  THEN [ready EXCEPT !.translator = CloseTranslator(@)]
                  ELSE ready
    IN  [closed EXCEPT !.type = "INVALID",
                       !.output_buffer = IF a.rawwrites THEN 0 ELSE @]
=============================================================================

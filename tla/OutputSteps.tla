----------------------------- MODULE OutputSteps ----------------------------
(***************************************************************************)
(* The steps of the client behind srcML: source code (create_src) and      *)
(* metadata (srcml_display_metadata, srcml_pretty).                        *)
(*                                                                         *)
(* These are functions of a production p: the request r, the files, what   *)
(* was written to the output, the exit code (-1 while the client runs) and *)
(* whether something was reported.                                         *)
(***************************************************************************)
EXTENDS InputHandlers

Production(r, files) == [r |-> r, files |-> files, out |-> << >>, exit |-> -1, errors |-> FALSE]

asks(p, command) == command \in p.r.command

Emit(p, text) == [p EXCEPT !.out = @ \o text]

\* srcml_read_open_internal: the archive of an input, or one without units
Opens(files, input) == IsHeld(input) \/ input.resource \in DOMAIN files
ContentIn(files, input) == IF IsHeld(input) THEN input.content ELSE files[input.resource]
Opened(files, input) ==
    IF ~ Opens(files, input) THEN srcml_archive_create
    ELSE ReadRoot(ContentIn(files, input).archive)

\* one of the inputs is never read to its end
Stuck(p, inputs) ==
    \E i \in DOMAIN inputs :
        Opens(p.files, inputs[i]) /\ Endless(ContentIn(p.files, inputs[i]))

\* srcml_unit_unparse_internal: the source of a unit with the ends of lines
\* that are asked for
EndOfLine(eol) == CASE eol \in {<<"cr">>} -> <<"CR">>
                    [] eol \in {<<"crlf">>, <<"windows">>} -> <<"CR", "NL">>
                    [] OTHER -> <<"NL">>

srcml_unit_unparse(unit, eol) ==
    FoldLeft(LAMBDA text, piece : text \o (IF piece = "NL" THEN EndOfLine(eol) ELSE <<piece>>),
             << >>, unit.text)

-----------------------------------------------------------------------------
(* create_src *)

\* src_output_filesystem: a file for each unit that has a name
ToFiles(p, input) ==
    LET directory == p.r.output_filename.resource
        prefix == IF directory \in {<<".">>, <<"./">>} THEN << >> ELSE directory
        opened == IF Opens(p.files, input) THEN p ELSE [p EXCEPT !.errors = TRUE]
    IN  FoldLeft(LAMBDA q, unit :
                     IF unit.filename = << >> THEN q
                     ELSE [q EXCEPT !.files =
                              (Path(prefix, unit.filename) :>
                                   Source(srcml_unit_unparse(unit, << >>))) @@ @],
                 opened, Opened(p.files, input).units)

\* src_output_libarchive: an entry for each unit, which gets a name if it has none
EntryOf(unit, position) ==
    [name |-> IF unit.filename # << >> THEN unit.filename
              ELSE <<"srcml_unit_", ToString(position)>>
                       \o language_to_std_extension(unit.language),
     isdirectory |-> FALSE, text |-> srcml_unit_unparse(unit, << >>)]

EntriesFor(units) == [i \in DOMAIN units |-> EntryOf(units[i], i)]

ToTar(p, inputs) ==
    LET entries == FlattenSeq([i \in DOMAIN inputs |-> EntriesFor(Opened(p.files, inputs[i]).units)])
        nameless == \E i \in DOMAIN inputs : \E j \in DOMAIN Opened(p.files, inputs[i]).units :
                        Opened(p.files, inputs[i]).units[j].filename = << >>
    IN  [p EXCEPT !.files = (p.r.output_filename.resource :> Tar(entries)) @@ @,
                  !.errors = @ \/ nameless]

\* the units of an input, from the one that is asked for; or that one alone
Asked(p, input) ==
    LET units == Opened(p.files, input).units
    IN  IF p.r.unit = 0 THEN units
        ELSE IF p.r.unit > Len(units) THEN << >> ELSE <<units[p.r.unit]>>

\* what standard output gets for a unit: a NUL before each but the first one,
\* or a newline where the unit before has not ended with one, twice
Separated(s, p, text) ==
    IF s.count = 0 THEN << >>
    ELSE IF asks(p, "NULL") THEN <<"NUL">>
    ELSE IF s.last # "NL" THEN <<"NL", "NL">>
    ELSE << >>

OneSource(s, p, archive, unit) ==
    [out |-> s.out \o Separated(s, p, unit.text)
                 \o (IF asks(p, "HEADER") THEN createYAMLHeader(archive, unit, s.count = 0)
                     ELSE << >>)
                 \o srcml_unit_unparse(unit, p.r.eol),
     last |-> IF asks(p, "NULL") THEN s.last
              ELSE IF unit.text = << >> THEN "" ELSE Last(unit.text),
     count |-> IF p.r.unit # 0 THEN s.count ELSE s.count + 1]

ToStdout(p, inputs) ==
    LET all == FoldLeft(LAMBDA s, input :
                            FoldLeft(LAMBDA t, unit :
                                         OneSource(t, p, Opened(p.files, input), unit),
                                     s, Asked(p, input)),
                        [out |-> << >>, last |-> "", count |-> 0], inputs)
        ending == /\ all.count >= 2 \/ p.r.transformations # << >>
                  /\ ~ asks(p, "NULL") /\ all.last # "NL"
        none == p.r.unit # 0 /\ \E i \in DOMAIN inputs : Asked(p, inputs[i]) = << >>
        unopened == \E i \in DOMAIN inputs : ~ Opens(p.files, inputs[i])
    IN  IF none THEN [p EXCEPT !.exit = 1]
        ELSE [Emit(p, all.out \o (IF ending THEN <<"NL">> ELSE << >>))
              EXCEPT !.errors = @ \/ unopened]

\* the unit that is asked for, or the first one
ToFile(p, input) ==
    LET units == Opened(p.files, input).units
        position == Max({p.r.unit, 1})
    IN  IF position > Len(units) THEN [p EXCEPT !.exit = 1]
        ELSE [p EXCEPT !.files = (p.r.output_filename.resource :>
                                      Source(srcml_unit_unparse(units[position], p.r.eol))) @@ @]

\* create_src; fd says that the step writes to a descriptor
create_src(p, inputs, fd) ==
    LET destination == p.r.output_filename
        plain == fd \/ (destination.compressions = << >> /\ destination.archives = << >>)
    IN  IF Stuck(p, inputs) THEN [p EXCEPT !.exit = NEVER]
        ELSE IF asks(p, "TO_DIRECTORY") THEN FoldLeft(ToFiles, p, inputs)
        ELSE IF fd THEN ToStdout(p, inputs)
        ELSE IF Len(inputs) = 1 /\ plain THEN ToFile(p, inputs[1])
        ELSE IF destination.archives = << >> THEN [p EXCEPT !.exit = 1]
        ELSE ToTar(p, inputs)

-----------------------------------------------------------------------------
(* srcml_pretty: a header, a body for each unit in braces, and a footer.   *)
(* A template is a sequence of characters and words.                       *)

valid_header_args == {"F", "N", "S", "U", "V", "X"}
valid_body_args == {"F", "f", "h", "i", "l", "N", "S", "s", "t", "U", "V", "v", "X"}
valid_footer_args == {"C", "F", "N", "S", "U", "V", "X"}

\* the first brace of a kind; one behind a "%" is none
Brace(template, brace) ==
    LET at == SelectInSeq(template, LAMBDA piece : piece = brace)
    IN  IF at > 1 /\ template[at - 1] = "%" THEN 0 ELSE at

Unescape(template) ==
    LET escaping(i) == template[i] = "%" /\ i < Len(template) /\ template[i + 1] \in {"{", "}"}
        kept == SelectSeq([i \in DOMAIN template |-> i], LAMBDA i : ~ escaping(i))
    IN  [k \in DOMAIN kept |-> template[kept[k]]]

\* split_template_sections: the character before and the one behind a brace are
\* dropped; without braces all is body
split_template_sections(template) ==
    LET open == Brace(template, "{")
        close == Brace(template, "}")
    IN  IF open = 0 /\ close = 0
        THEN [header |-> << >>, body |-> Unescape(template), footer |-> << >>,
              hasbody |-> TRUE, error |-> FALSE]
        ELSE IF open = 0 \/ close = 0
        THEN [header |-> << >>, body |-> << >>, footer |-> << >>, hasbody |-> FALSE,
              error |-> TRUE]
        ELSE [header |-> SubSeq(template, 1, open - 2),
              body |-> SubSeq(template, open + 2,
                              IF close = open + 2 THEN Len(template) ELSE close - 2),
              footer |-> SubSeq(template, close + 2, Len(template)),
              hasbody |-> close >= open + 2, error |-> FALSE]

\* parse_templates: the places of the directives of a section.  "%%" and "%s"
\* are left as they are.
Directives(template) ==
    {i \in 1..(Len(template) - 1) : template[i] = "%" /\ template[i + 1] \notin {"%", "s"}}

ArgumentAt(template, i) ==
    IF template[i + 1] = "N" /\ i + 3 <= Len(template) /\ template[i + 2] = ":"
       /\ template[i + 3] \in {"u", "p"}
    THEN <<"N", template[i + 3]>> ELSE <<template[i + 1]>>

Arguments(template) ==
    LET places == SetToSortSeq(Directives(template), <)
    IN  [i \in DOMAIN places |-> ArgumentAt(template, places[i])]

Invalid(template, allowed) ==
    \E i \in Directives(template) : template[i + 1] \notin allowed

\* expand_namespace: a place for each namespace
expand_namespace(size) ==
    FlattenSeq([i \in 1..size |-> IF i = 1 THEN <<"%", "s">> ELSE <<" ", "%", "s">>])

\* a section with "%s" for its directives
FormatOf(template, ns_size) ==
    LET format[i \in 1..(Len(template) + 4)] ==
            IF i > Len(template) THEN << >>
            ELSE IF i \notin Directives(template) THEN <<template[i]>> \o format[i + 1]
            ELSE IF template[i + 1] = "N"
            THEN expand_namespace(ns_size)
                 \o format[i + 2 * Len(ArgumentAt(template, i))]
            ELSE <<"%", "s">> \o format[i + 2]
    IN  format[1]

\* pretty_print: values for the places, from the left, as long as there are any
pretty_print(format, values) ==
    LET text[i \in 1..(Len(format) + 2), k \in 1..(Len(values) + 1)] ==
            IF i > Len(format) THEN << >>
            ELSE IF format[i] # "%" \/ i = Len(format) THEN <<format[i]>> \o text[i + 1, k]
            ELSE IF format[i + 1] = "%" \/ k > Len(values)
            THEN <<format[i + 1]>> \o text[i + 2, k]
            ELSE values[k] \o text[i + 2, k + 1]
    IN  text[1, 1]

\* acquire_metadata: MISSING for a value that is not there
MISSING == <<"MISSING">>
OrMissing(value) == IF value = << >> \/ value = <<NONE>> THEN MISSING ELSE value

acquire_metadata(archive, unit, arg) ==
    CASE arg = <<"f">> -> OrMissing(unit.filename)
      [] arg = <<"l">> -> OrMissing(<<unit.language>>)
      [] arg = <<"v">> -> OrMissing(unit.version)
      [] arg = <<"U">> -> OrMissing(archive.url)
      [] arg = <<"V">> -> OrMissing(archive.version)
      [] arg = <<"S">> -> OrMissing(<<archive.src_encoding>>)
      [] arg = <<"X">> -> OrMissing(<<archive.encoding>>)
      [] arg \in {<<"h">>, <<"t">>} -> MISSING
      [] OTHER -> <<"???">>

\* %N: the namespaces of the archive, each in a place of its own
NamespaceText(ns, arg) ==
    CASE arg = <<"N", "u">> -> <<ns.uri>>
      [] arg = <<"N", "p">> -> IF ns.prefix = "" THEN << >> ELSE <<ns.prefix>>
      [] OTHER -> (IF ns.prefix = "" THEN <<"xmlns=">> ELSE <<"xmlns:", ns.prefix, "=">>)
                  \o <<ns.uri>>

\* mutant: a value that is missing has no place
ValuesWithoutPlace(archive, unit, arguments, arg) ==
    LET value == acquire_metadata(archive, unit, arg)
    IN  IF value # MISSING THEN <<value>> ELSE << >>

\* the values of one directive; the only one of a section has none if it is missing
ValuesOf(archive, unit, arguments, arg) ==
    LET value == acquire_metadata(archive, unit, arg)
    IN  IF value # MISSING THEN <<value>>
        ELSE IF Len(arguments) > 1 THEN << << >> >> ELSE << >>

\* a section with its values is printed only if there are any
Printed(template, archive, values) ==
    IF values = << >> THEN << >>
    ELSE pretty_print(FormatOf(template, Len(archive.namespaces)), values)

HeaderText(archive, template) ==
    LET args == Arguments(template)
    IN  Printed(template, archive, FlattenSeq([i \in DOMAIN args |->
            ValuesOf(archive, NoUnit, args, args[i])]))

\* the body of the unit with a number, which counts from 0
BodyText(archive, template, index) ==
    LET args == Arguments(template)
        unit == archive.units[index + 1]
    IN  Printed(template, archive, FlattenSeq([i \in DOMAIN args |->
            IF args[i] = <<"i">> THEN << <<ToString(index)>> >>
            ELSE IF args[i][1] = "N"
            THEN [n \in DOMAIN archive.namespaces |->
                     NamespaceText(archive.namespaces[n], args[i])]
            ELSE ValuesOf(archive, unit, args, args[i])]))

FooterText(archive, template, count) ==
    LET args == Arguments(template)
    IN  Printed(template, archive, FlattenSeq([i \in DOMAIN args |->
            IF args[i] = <<"C">> THEN << <<ToString(count)>> >>
            ELSE ValuesOf(archive, NoUnit, args, args[i])]))

\* display_template: the number in the footer is that of the last unit of the
\* body, counted from 1; with a unit that is asked for, there is no body at all
display_template(archive, sections, unit_num) ==
    LET shown == IF sections.hasbody /\ unit_num = 0 THEN Len(archive.units) ELSE 0
        unit_count == IF unit_num > 0 THEN unit_num ELSE Max({shown - 1, 0})
    IN  HeaderText(archive, sections.header)
        \o FlattenSeq([i \in 1..shown |-> BodyText(archive, sections.body, i - 1)])
        \o FooterText(archive, sections.footer, unit_count + 1)

srcml_pretty(p, archive, template) ==
    LET sections == split_template_sections(template)
        invalid == \/ sections.error
                   \/ Invalid(sections.header, valid_header_args)
                   \/ Invalid(sections.body, valid_body_args)
                   \/ Invalid(sections.footer, valid_footer_args)
    IN  IF invalid THEN [p EXCEPT !.errors = TRUE]
        ELSE Emit(p, display_template(archive, sections,
                                      IF asks(p, "XML") THEN 0 ELSE p.r.unit))

-----------------------------------------------------------------------------
(* srcml_display_metadata *)

\* the queries in the order of their lines, with their directives and names
HeaderQueries == <<<<"ENCODING", "X", "encoding">>, <<"URL", "U", "url">>>>
BodyQueries == <<<<"FILENAME", "f", "filename">>, <<"LANGUAGE", "l", "language">>,
                 <<"SRC_VERSION", "v", "version">>, <<"SHOW_HASH", "h", "hash">>,
                 <<"SHOW_TIMESTAMP", "t", "timestamp">>>>

\* the value alone for a single query, or with its name
QueryLine(p, query) ==
    IF ~ asks(p, query[1]) THEN << >>
    ELSE IF p.r.command \cap Displays = {query[1]} THEN <<"%", query[2], "NL">>
    ELSE <<query[3], "=\"", "%", query[2], "\"", "NL">>

QueryLines(p, queries) == FlattenSeq([i \in DOMAIN queries |-> QueryLine(p, queries[i])])

QueryTemplate(p) ==
    QueryLines(p, HeaderQueries) \o <<" ", "{", " ">> \o QueryLines(p, BodyQueries)
        \o <<" ", "}", " ">>

Queried(p, archive) ==
    IF QueryLines(p, HeaderQueries) \o QueryLines(p, BodyQueries) = << >> THEN p
    ELSE srcml_pretty(p, archive, QueryTemplate(p))

\* the prefix of a namespace
PrefixOf(p, archive) ==
    LET uri == p.r.xmlns_prefix_query
    IN  IF uri = << >> \/ IndexOfUri(archive, uri[1]) = 0 THEN p
        ELSE Emit(p, <<srcml_archive_get_prefix_from_uri(archive, uri[1]), "NL">>)

\* srcml_unit_count: the units that have a language
srcml_unit_count(archive) ==
    Len(SelectSeq(archive.units, LAMBDA unit : unit.language # NONE))

Field(name, value) ==
    IF value = << >> THEN << >> ELSE <<name, "=\"">> \o value \o <<"\"", "NL">>

\* srcml_display_info: the long form counts a unit even if there is none
srcml_display_info(archive, long_info) ==
    LET one == IF archive.root = "unit" /\ archive.units # << >> THEN archive.units[1] ELSE NoUnit
    IN  FlattenSeq([i \in DOMAIN archive.namespaces |->
            <<"xmlns">> \o (IF archive.namespaces[i].prefix = "" THEN << >>
                            ELSE <<":", archive.namespaces[i].prefix>>)
                \o <<"=\"", archive.namespaces[i].uri, "\"", "NL">>])
        \o Field("encoding", <<archive.encoding>>)
        \o Field("language", IF one.language = NONE THEN << >> ELSE <<one.language>>)
        \o Field("url", archive.url) \o Field("filename", one.filename)
        \o (IF long_info THEN Field("units", <<ToString(Max({1, Len(archive.units)}))>>)
            ELSE << >>)

\* srcml_list: a line for each unit, and how many there are
srcml_list(archive) ==
    <<archive.encoding, "NL">>
    \o FlattenSeq([i \in DOMAIN archive.units |->
           <<ToString(i), archive.units[i].language>> \o archive.units[i].filename \o <<"NL">>])
    \o <<"units: ", ToString(Len(archive.units)), "NL">>

\* Reading uses an archive up: a query has the units left by those before it
Query(s, command, text, taken) ==
    IF ~ asks(s.p, command) THEN s
    ELSE [p |-> Emit(s.p, text),
          archive |-> [s.archive EXCEPT !.units = SubSeq(@, taken + 1, Len(@))]]

Counted(s) == Query(s, "UNITS", <<ToString(srcml_unit_count(s.archive)), "NL">>,
                    Len(s.archive.units))
Informed(s) == Query(s, "INFO", srcml_display_info(s.archive, FALSE), 1)
LongInformed(s) == Query(s, "LONGINFO", srcml_display_info(s.archive, TRUE),
                         Len(s.archive.units))
Listed(s) == Query(s, "LIST", srcml_list(s.archive), Len(s.archive.units))

\* the queries about one archive
OneMetadata(p, archive) ==
    LET queried == [p |-> Queried(PrefixOf(p, archive), archive),
                    archive |-> [archive EXCEPT !.units =
                        IF p.r.command \cap Displays = {} THEN @
                        ELSE IF p.r.unit = 0 THEN << >>
                        ELSE SubSeq(@, p.r.unit + 1, Len(@))]]
    IN  Listed(LongInformed(Informed(Counted(queried)))).p

\* srcml_display_metadata: one input after another, up to one that cannot be
\* opened; --pretty asks about the first one only
srcml_display_metadata(p, inputs) ==
    LET missing == {i \in DOMAIN inputs : ~ Opens(p.files, inputs[i])}
        opened == SubSeq(inputs, 1, IF missing = {} THEN Len(inputs) ELSE Min(missing) - 1)
        archives == [i \in DOMAIN opened |-> Opened(p.files, opened[i])]
    IN  IF Stuck(p, opened) THEN [p EXCEPT !.exit = NEVER]
        ELSE IF p.r.pretty_format # << >> /\ opened # << >>
        THEN srcml_pretty(p, archives[1], p.r.pretty_format)
        ELSE FoldLeft(OneMetadata, [p EXCEPT !.errors = @ \/ missing # {}], archives)
=============================================================================

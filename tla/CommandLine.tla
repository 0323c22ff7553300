---------------------------- MODULE CommandLine -----------------------------
(***************************************************************************)
(* The command line of the client: parseCLI11.                             *)
(*                                                                         *)
(* Inputs, texts, namespaces and transformations are taken as they are     *)
(* read, which keeps their order.  The other options are taken when all    *)
(* have been read, in the order parseCLI11 declares them, whatever their   *)
(* order on the command line.  Then come the options that exclude each     *)
(* other, and what is wrong only with the whole.                           *)
(***************************************************************************)
EXTENDS SourceText

\* an argument: "" for an input, the protocol and the pieces of its value
Argument(option, protocol, pieces) ==
    [option |-> option, protocol |-> protocol, pieces |-> pieces]

\* options taken as they are read
Triggered == {"", "--text", "--xmlns", "--xpath", "--srcql", "--xslt", "--xslt-param",
              "--relaxng"}

\* the others, as they are declared
Declared ==
    <<"--version", "--verbose", "--quiet", "--output", "--from-clipboard",
      "--to-clipboard", "--jobs", "--language", "--files-from", "--register-ext",
      "--src-encoding", "--archive", "--output-srcml", "--output-srcml-outer",
      "--output-srcml-inner", "--position", "--tabs", "--expand-tabs", "--cpp",
      "--cpp-markup-if0", "--cpp-nomarkup-else", "--xml-encoding",
      "--no-xml-declaration", "--list", "--info", "--full-info", "--show-language",
      "--show-url", "--show-filename", "--show-src-version", "--show-timestamp",
      "--show-hash", "--show-encoding", "--show-unit-count", "--show-prefix",
      "--filename", "--url", "--src-version", "--hash", "--timestamp", "--unit",
      "--eol", "--output-src", "--to-dir", "--srcql-warning-off", "--attribute",
      "--element", "--print0", "--header", "--dev", "--timing", "--cat", "--update",
      "--xml-processing", "--pretty", "--external", "--parser-test", "--no-color">>

\* what a flag adds to the command
CommandOf ==
    ("--version" :> {"VERSION"}) @@ ("--verbose" :> {"VERBOSE"})
    @@ ("--quiet" :> {"QUIET"}) @@ ("--output-srcml" :> {"XML"})
    @@ ("--output-srcml-outer" :> {"XML_FRAGMENT", "XML"})
    @@ ("--output-srcml-inner" :> {"XML_RAW", "XML"})
    @@ ("--list" :> {"LIST"}) @@ ("--info" :> {"INFO"}) @@ ("--full-info" :> {"LONGINFO"})
    @@ ("--show-language" :> {"LANGUAGE"}) @@ ("--show-url" :> {"URL"})
    @@ ("--show-filename" :> {"FILENAME"}) @@ ("--show-src-version" :> {"SRC_VERSION"})
    @@ ("--show-timestamp" :> {"SHOW_TIMESTAMP"}) @@ ("--show-hash" :> {"SHOW_HASH"})
    @@ ("--show-encoding" :> {"ENCODING"}) @@ ("--show-unit-count" :> {"UNITS"})
    @@ ("--timestamp" :> {"TIMESTAMP"}) @@ ("--output-src" :> {"SRC"})
    @@ ("--to-dir" :> {"TO_DIRECTORY", "NOARCHIVE"})
    @@ ("--srcql-warning-off" :> {"SRCQL_WARNING_OFF"})
    @@ ("--print0" :> {"NULL"}) @@ ("--header" :> {"HEADER", "NULL"})
    @@ ("--dev" :> {"DEBUG"}) @@ ("--timing" :> {"TIMING"}) @@ ("--cat" :> {"CAT_XML"})
    @@ ("--update" :> {"UPDATE"}) @@ ("--parser-test" :> {"PARSER_TEST", "TIMING"})
    @@ ("--no-color" :> {"NO_COLOR"})

\* the commands that only ask about srcML
Displays == {"LANGUAGE", "URL", "FILENAME", "SRC_VERSION", "ENCODING",
             "SHOW_TIMESTAMP", "SHOW_HASH"}
Queries == Displays \cup {"LONGINFO", "INFO", "VERSION", "LIST", "UNITS"}

\* what a flag adds to the markup options
MarkupOf ==
    ("--archive" :> {"ARCHIVE"}) @@ ("--position" :> {"POSITION"})
    @@ ("--tabs" :> {"POSITION"}) @@ ("--expand-tabs" :> {"EXPAND_TABS"})
    @@ ("--cpp" :> {"CPP"}) @@ ("--cpp-markup-if0" :> {"CPP_MARKUP_IF0"})
    @@ ("--cpp-nomarkup-else" :> {"CPP_TEXT_ELSE"})
    @@ ("--no-xml-declaration" :> {"NO_XML_DECL"}) @@ ("--hash" :> {"HASH"})

\* the field of the request that keeps the value of an option
FieldOf ==
    ("--language" :> "att_language") @@ ("--src-encoding" :> "src_encoding")
    @@ ("--xml-encoding" :> "att_xml_encoding") @@ ("--filename" :> "att_filename")
    @@ ("--url" :> "att_url") @@ ("--src-version" :> "att_version")
    @@ ("--show-prefix" :> "xmlns_prefix_query") @@ ("--pretty" :> "pretty_format")
    @@ ("--xml-processing" :> "xml_processing") @@ ("--external" :> "external")
    @@ ("--eol" :> "eol")

\* the options that need a value that is not empty
RequireValue == {"--jobs", "--files-from", "--src-encoding", "--unit", "--to-dir",
                 "--xslt-param"}

encodings == {"UTF-8", "ISO-8859-1"}
eols == {"auto", "lf", "unix", "cr", "crlf", "windows"}

Natural == [Number EXCEPT !["0"] = 0]

-----------------------------------------------------------------------------
(* The request *)

NoTerm == [prefix |-> NONE, name |-> NONE, value |-> << >>]

\* srcml_request_t as it is before an option is read
NewRequest(threads) ==
    [input_sources |-> << >>, stdindex |-> 0, command |-> {}, markup_options |-> {},
     att_language |-> << >>, att_filename |-> << >>, att_url |-> << >>,
     att_version |-> << >>, att_xml_encoding |-> <<"UTF-8">>, src_encoding |-> << >>,
     eol |-> << >>, output_filename |-> Uri("", << >>), language_ext |-> << >>,
     tabs |-> 8, xmlns_prefix_query |-> << >>, xml_processing |-> << >>,
     pretty_format |-> << >>, external |-> << >>, xmlns |-> << >>, uris |-> << >>,
     transformations |-> << >>, support |-> << >>, cached |-> << >>, unit |-> 0,
     max_threads |-> threads, given |-> {}, isText |-> FALSE, isXSLT |-> FALSE,
     isXSLTParam |-> FALSE, exit |-> -1]

\* the threads of the pool: two more than there are processors
DefaultThreads(processors) ==
    IF processors < 2 THEN 2 ELSE IF processors = 2 THEN 3 ELSE processors + 2

Transform(protocol, pieces) == [protocol |-> protocol, resource |-> pieces]

AddTransform(r, protocol, pieces) ==
    [r EXCEPT !.transformations = Append(@, Transform(protocol, pieces))]

\* addXSLT: a program takes the parameters cached before it
addXSLT(r, pieces) ==
    [r EXCEPT !.transformations =
                  Append(@, Transform("xslt", pieces))
                  \o [i \in DOMAIN r.cached |-> Transform("xslt-param", r.cached[i])],
              !.cached = << >>, !.isXSLT = TRUE]

\* a query, which may get an attribute and an element
AddQuery(r, protocol, pieces) ==
    [AddTransform(r, protocol, pieces) EXCEPT
        !.support = Append(@, [element |-> NoTerm, attribute |-> NoTerm])]

IsStdin(argument) ==
    argument.pieces = <<"-">> /\ argument.protocol \in {"", "stdin"}

AddInput(r, source) == [r EXCEPT !.input_sources = Append(@, source)]

\* an input, or a program or schema for a transformation; the place of the
\* last "-" is kept
Positional(files, r, argument) ==
    LET input == InputSrc(files, Uri(argument.protocol, argument.pieces))
        at == [r EXCEPT !.stdindex =
                   IF IsStdin(argument) THEN Len(r.input_sources) + 1 ELSE @]
    IN  IF input.extension = ".xsl" THEN addXSLT(at, argument.pieces)
        ELSE IF input.extension = ".rng" THEN AddTransform(at, "relaxng", argument.pieces)
        ELSE AddInput(at, input)

\* --xmlns=URI, --xmlns:PRE=URI
AddNamespace(r, pieces) ==
    LET equals == SelectInSeq(pieces, LAMBDA piece : piece = "=")
        prefix == IF equals > 1 THEN pieces[1] ELSE ""
        uri == Last(pieces)
    IN  [r EXCEPT !.xmlns = (prefix :> uri) @@ @, !.uris = (uri :> prefix) @@ @]

TakesParam(r, pieces) ==
    LET known == [r EXCEPT !.isXSLTParam = TRUE]
    IN  IF r.isXSLT THEN AddTransform(known, "xslt-param", pieces)
        ELSE [known EXCEPT !.cached = Append(@, pieces)]

\* an option that is taken as it is read
ReadNow(files, r, argument) ==
    CASE argument.option = "" -> Positional(files, r, argument)
      [] argument.option = "--text" ->
            AddInput([r EXCEPT !.isText = TRUE],
                     InputSrc(files, Uri("text", argument.pieces)))
      [] argument.option = "--xmlns" -> AddNamespace(r, argument.pieces)
      [] argument.option = "--xpath" -> AddQuery(r, "xpath", argument.pieces)
      [] argument.option = "--srcql" -> AddQuery(r, "srcql", argument.pieces)
      [] argument.option = "--xslt" -> addXSLT(r, argument.pieces)
      [] argument.option = "--xslt-param" -> TakesParam(r, argument.pieces)
      [] argument.option = "--relaxng" -> AddTransform(r, "relaxng", argument.pieces)

-----------------------------------------------------------------------------
(* The options taken afterwards *)

\* --output: a directory takes a file for each unit
SetOutput(files, r, argument) ==
    LET destination == InputSrc(files, Uri(argument.protocol, argument.pieces))
        todir == /\ destination.protocol = "file"
                 /\ \/ destination.isdirectory
                    \/ destination.extension = "" /\ destination.isdirectoryform
    IN  [r EXCEPT !.output_filename = destination,
                  !.command = @ \cup (IF todir THEN {"TO_DIRECTORY", "NOARCHIVE"} ELSE {})]

HasColon(pieces) == \E i \in DOMAIN pieces : pieces[i] = ":"
Support(r) == r.support[Len(r.support)]

\* --attribute and --element belong to the last query there is
SetAttribute(r, pieces) ==
    LET equals == SelectInSeq(pieces, LAMBDA piece : piece = "=")
        prefix == IF HasColon(pieces) THEN pieces[1] ELSE Support(r).element.prefix
    IN  [r EXCEPT !.support[Len(r.support)].attribute =
            [prefix |-> prefix, name |-> pieces[equals - 1],
             value |-> Unquoted(SubSeq(pieces, equals + 1, Len(pieces)))]]

SetElement(r, pieces) ==
    [r EXCEPT !.support[Len(r.support)].element =
        [prefix |-> pieces[1], name |-> pieces[3], value |-> << >>]]

\* what a check refuses
Refused(r, argument) ==
    LET o == argument.option
        value == argument.pieces
    IN  \/ o \in RequireValue /\ value = << >>
        \/ o = "--text" /\ value # << >> /\ value[1] = "-"
        \/ o = "--language" /\ Joined(value) \notin langs
        \/ o = "--tabs" /\ (value = << >> \/ Natural[value[1]] \notin 1..8)
        \/ o = "--xml-encoding" /\ Joined(value) \notin encodings
        \/ o = "--eol" /\ Joined(value) \notin eols
        \/ o \in {"--attribute", "--element"} /\ r.support = << >>
        \/ o = "--attribute" /\ ~ \E i \in DOMAIN value : value[i] = "="
        \/ o = "--attribute" /\ ~ HasColon(value) /\ Support(r).element = NoTerm
        \/ o = "--element" /\ ~ HasColon(value)
        \* a value given twice
        \/ o \in r.given /\ o \in (DOMAIN FieldOf \ {"--pretty", "--xml-processing", "--external"})
                             \cup {"--output", "--tabs", "--unit", "--to-dir", "--jobs",
                                   "--attribute", "--element"}

TakeValue(files, r, argument) ==
    LET o == argument.option
        value == argument.pieces
    IN  CASE o = "--output" -> SetOutput(files, r, argument)
          [] o = "--to-dir" ->
                [r EXCEPT !.output_filename = InputSrc(files, Uri(argument.protocol, value))]
          [] o = "--from-clipboard" -> AddInput(r, InputSrc(files, Uri("clipboard", << >>)))
          [] o = "--to-clipboard" ->
                [r EXCEPT !.output_filename = InputSrc(files, Uri("clipboard", << >>))]
          [] o = "--jobs" -> [r EXCEPT !.max_threads = Natural[value[1]]]
          [] o = "--files-from" -> AddInput(r, InputSrc(files, Uri("filelist", value)))
          [] o = "--register-ext" -> [r EXCEPT !.language_ext = Append(@, value)]
          [] o = "--tabs" -> [r EXCEPT !.tabs = Natural[value[1]]]
          [] o = "--unit" -> [r EXCEPT !.unit = Natural[value[1]]]
          [] o = "--attribute" -> SetAttribute(r, value)
          [] o = "--element" -> SetElement(r, value)
          [] o \in DOMAIN FieldOf -> [r EXCEPT ![FieldOf[o]] = value]
          [] OTHER -> r

\* Flags give the request a command or a markup option
TakeFlag(r, o) ==
    [r EXCEPT !.command = @ \cup (IF o \in DOMAIN CommandOf THEN CommandOf[o] ELSE {}),
              !.markup_options = @ \cup (IF o \in DOMAIN MarkupOf THEN MarkupOf[o] ELSE {}),
              !.given = @ \cup {o}]

Exit(r, code) == [r EXCEPT !.exit = code]

\* the exit codes of the checks that do not go through CLI11
Code(o) == IF o \in {"--eol", "--attribute", "--element"} THEN 2 ELSE 1

TakeArgument(files, r, argument) ==
    IF Refused(r, argument) THEN Exit(r, Code(argument.option))
    ELSE IF argument.option \in Triggered THEN ReadNow(files, r, argument)
    ELSE TakeFlag(TakeValue(files, r, argument), argument.option)

\* the arguments that are kept, in the order of the declarations
Kept(arguments) ==
    FlattenSeq([i \in DOMAIN Declared |->
        SelectSeq(arguments, LAMBDA argument : argument.option = Declared[i])])

-----------------------------------------------------------------------------
(* The whole *)

Excludes == {{"--output-src", "--output-srcml"}, {"--output-src", "--output-srcml-inner"},
             {"--output-src", "--output-srcml-outer"}, {"--output", "--to-dir"},
             {"--output-srcml", "--output-srcml-inner"},
             {"--output-srcml", "--output-srcml-outer"},
             {"--output-srcml-outer", "--output-srcml-inner"}}

\* the default prefix given to another namespace than srcML's, which has not
\* got another prefix
Reassigned(r) ==
    /\ "" \in DOMAIN r.xmlns
    /\ r.xmlns[""] # "src"
    /\ "src" \in DOMAIN r.uris => r.uris["src"] = ""

NoRoot(name) ==
    LET first == SelectInSeq(name, LAMBDA piece : piece \notin {"./", "/", "."})
    IN  IF first = 0 THEN << >> ELSE SubSeq(name, first, Len(name))

WithInput(files, r) ==
    IF r.input_sources # << >> THEN r
    ELSE [AddInput(r, InputSrc(files, Uri("stdin", <<"-">>))) EXCEPT !.stdindex = 1]

WithUrl(r) ==
    IF Len(r.input_sources) = 1 /\ r.input_sources[1].isdirectory
    THEN [r EXCEPT !.att_url = NoRoot(r.input_sources[1].resource)] ELSE r

\* the end of parseCLI11: standard output, standard input if there is nothing
\* else, and the url of a directory
Completed(files, r) ==
    LET destination == IF r.output_filename.protocol = ""
                       THEN InputSrc(files, Uri("stdout", <<"-">>)) ELSE r.output_filename
    IN  IF \/ \E pair \in Excludes : pair \subseteq r.given
           \/ r.isText /\ {"--language", "--filename"} \cap r.given = {}
           \/ r.isXSLTParam /\ ~ r.isXSLT
           \/ Reassigned(r)
        THEN Exit(r, 1)
        ELSE WithUrl(WithInput(files, [r EXCEPT !.output_filename = destination]))
=============================================================================

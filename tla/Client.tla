------------------------------- MODULE Client -------------------------------
(***************************************************************************)
(* The client as a whole: the command line is taken apart, standard input  *)
(* is looked at, the steps are chosen and run, each reading what the step  *)
(* before it has written.  Programs that are piped together follow one     *)
(* another, the output of one being the input of the next, over the same   *)
(* files.  A program may also use the library alone: srcml() with the      *)
(* settings of its own archive.                                            *)
(***************************************************************************)
EXTENDS OutputSteps

CONSTANTS
    Scenarios,     \* the files, the standard input and the programs of each run
    Processors     \* of the machine

VARIABLES
    scenario,      \* what is run
    programs,      \* the programs that are left, the first one running
    stage,         \* where that program is
    next,          \* the argument, option, input or call that is next
    r,             \* srcml_request
    steps,         \* the steps that are left
    c,             \* the conversion of create_srcml
    files,         \* what is on disk
    stdin,         \* what the program can read
    stream,        \* what the last step has written for the next one
    out,           \* what is written to standard output
    errors,        \* whether something was reported: SRCMLStatus::errors
    global,        \* the archive and the unit of the library
    codes          \* the exit codes of the programs that have ended

vars == <<scenario, programs, stage, next, r, steps, c, files, stdin, stream, out,
          errors, global, codes>>

Srcml(arguments) == [library |-> FALSE, arguments |-> arguments]
Library(calls) == [library |-> TRUE, arguments |-> calls]

Nothing == Source(<< >>)
NewGlobal == [archive |-> srcml_archive_create, unit |-> srcml_unit_create,
              filename |-> << >>, eol |-> << >>]
NewProgram == NewRequest(DefaultThreads(Processors))

StageOf(program) == IF program.library THEN "library" ELSE "read"

Init ==
    /\ scenario \in Scenarios
    /\ programs = scenario.programs
    /\ stage = StageOf(Head(scenario.programs))
    /\ next = 1
    /\ r = NewProgram
    /\ steps = << >>
    /\ c = Conversion(NewProgram, scenario.files)
    /\ files = scenario.files
    /\ stdin = scenario.stdin
    /\ stream = Nothing
    /\ out = Nothing
    /\ errors = FALSE
    /\ global = NewGlobal
    /\ codes = << >>

arguments == Head(programs).arguments

\* the program ends with a code, whatever is left to do, unless it never ends
Ends(code) ==
    /\ stage' = IF code = NEVER THEN "stuck" ELSE "ended"
    /\ codes' = IF code = NEVER THEN codes ELSE Append(codes, code)

-----------------------------------------------------------------------------
(* The command line *)

Take(argument) ==
    /\ r' = TakeArgument(files, r, argument)
    /\ IF r'.exit # -1 THEN Ends(r'.exit) ELSE UNCHANGED <<stage, codes>>

\* an argument that is taken as it is read, or kept for later
ReadArgument ==
    /\ stage = "read" /\ next <= Len(arguments)
    /\ next' = next + 1
    /\ IF arguments[next].option \in Triggered THEN Take(arguments[next])
       ELSE UNCHANGED <<r, stage, codes>>
    /\ UNCHANGED <<scenario, programs, steps, c, files, stdin, stream, out, errors, global>>

\* an option that was kept
ApplyOption ==
    LET applied == next - Len(arguments)
    IN  /\ stage = "read" /\ next > Len(arguments)
        /\ applied <= Len(Kept(arguments))
        /\ next' = next + 1
        /\ Take(Kept(arguments)[applied])
        /\ UNCHANGED <<scenario, programs, steps, c, files, stdin, stream, out, errors, global>>

\* the end of parseCLI11; --version is answered at once
CompleteRequest ==
    /\ stage = "read" /\ next > Len(arguments) + Len(Kept(arguments))
    /\ r' = Completed(files, r)
    /\ IF r'.exit # -1 THEN Ends(r'.exit) /\ UNCHANGED out
       ELSE IF "VERSION" \in r'.command
       THEN Ends(0) /\ out' = Source(<<"versions", "NL">>)
       ELSE stage' = "inputs" /\ UNCHANGED <<codes, out>>
    /\ UNCHANGED <<scenario, programs, next, steps, c, files, stdin, stream, errors, global>>

-----------------------------------------------------------------------------
(* The rest of main *)

\* the unit for a single input, and standard input, whose first block says
\* whether it is srcML
WithUnit(request) ==
    IF Len(request.input_sources) = 1 /\ request.unit # 0
    THEN [request EXCEPT !.input_sources[1].unit = request.unit] ELSE request

WithStdin(request) ==
    IF request.stdindex = 0 THEN request
    ELSE [request EXCEPT
             !.input_sources[request.stdindex].content = stdin,
             !.input_sources[request.stdindex].state =
                 IF stdin.kind = "srcml" THEN "SRCML" ELSE "SRC"]

OpenInputs ==
    /\ stage = "inputs"
    /\ r' = WithStdin(WithUnit(r))
    /\ stage' = "ranges"
    /\ UNCHANGED <<scenario, programs, next, steps, c, files, stdin, stream, out, errors,
                   global, codes>>

\* a position starts with one, a range does not end before it starts, and only
\* a source file has positions
WrongRange(input) ==
    LET s == input.slice
    IN  \/ INVALID_POSITION \in {s.line, s.column, s.endLine, s.endColumn}
        \/ /\ s.line # 0
           /\ \/ s.endLine # END_OF_FILE
                 /\ \/ s.endLine < s.line
                    \/ s.endLine = s.line /\ s.endColumn # 0
                       /\ s.endColumn < Max({s.column, 1})
              \/ input.state = "SRCML" \/ input.isdirectory \/ input.archives # << >>

CheckRanges ==
    /\ stage = "ranges"
    /\ IF \E i \in DOMAIN r.input_sources : WrongRange(r.input_sources[i])
       THEN Ends(1)
       ELSE stage' = "choose" /\ UNCHANGED codes
    /\ UNCHANGED <<scenario, programs, next, r, steps, c, files, stdin, stream, out, errors,
                   global>>

\* request_create_srcml, request_display_metadata, request_create_src and
\* request_output_compression
request_create_srcml ==
    \/ \E i \in DOMAIN r.input_sources : r.input_sources[i].state = "SRC"
    \/ r.output_filename.state = "SRCML"
    \/ "XML" \in r.command
    \/ r.transformations # << >>

request_display_metadata ==
    r.command \cap Queries # {} \/ r.xmlns_prefix_query # << >> \/ r.pretty_format # << >>

request_create_src ==
    \/ "SRC" \in r.command
    \/ r.output_filename.state # "SRCML" /\ ~ request_create_srcml /\ ~ request_display_metadata

request_output_compression == r.output_filename.compressions # << >>

StepsOf ==
    (IF request_create_srcml THEN <<"create_srcml">> ELSE << >>)
    \o (IF request_display_metadata THEN <<"srcml_display_metadata">> ELSE << >>)
    \o (IF request_create_src THEN <<"create_src">> ELSE << >>)
    \o (IF request_output_compression THEN <<"compress_srcml">> ELSE << >>)

ChooseSteps ==
    /\ stage = "choose"
    /\ steps' = StepsOf
    /\ r' = IF r.transformations # << >> THEN [r EXCEPT !.command = @ \cup {"XML"}] ELSE r
    /\ stage' = "step"
    /\ UNCHANGED <<scenario, programs, next, c, files, stdin, stream, out, errors, global, codes>>

-----------------------------------------------------------------------------
(* The steps: srcml_execute joins them by pipes *)

FirstStep == steps = StepsOf
LastStep == Len(steps) = 1

\* what a step reads: the inputs, or the pipe
FromPipe == [InputSrc(files, Uri("stdin", <<"-">>)) EXCEPT !.content = stream,
                                                          !.state = "INDETERMINATE"]
Inputs == IF FirstStep THEN r.input_sources ELSE <<FromPipe>>

ToDescriptor == ~ LastStep \/ r.output_filename.fd

\* where what a step has written goes; there is a file from the moment the
\* step opens it
Put(content) ==
    IF ~ LastStep THEN stream' = content /\ UNCHANGED <<files, out>>
    ELSE IF r.output_filename.fd THEN out' = content /\ UNCHANGED <<files, stream>>
    ELSE files' = (r.output_filename.resource :> content) @@ files /\ UNCHANGED <<stream, out>>

StepDone == steps' = Tail(steps) /\ stage' = "step" /\ UNCHANGED codes

\* create_srcml, to the first input: the output is opened before all else
OpenArchive ==
    /\ stage = "step" /\ steps # << >> /\ Head(steps) = "create_srcml"
    /\ c' = Settings(Conversion(r, files))
    /\ next' = 1
    /\ IF c'.exit # -1 THEN Ends(c'.exit) ELSE stage' = "convert" /\ UNCHANGED codes
    /\ IF "NOARCHIVE" \in r.command THEN UNCHANGED <<files, stream, out>>
       ELSE Put(SrcML(srcml_archive_create, FALSE))
    /\ UNCHANGED <<scenario, programs, r, steps, stdin, errors, global>>

\* one input, unless one before it has failed
HandleInput ==
    /\ stage = "convert" /\ c.status # -1 /\ next <= Len(Inputs)
    /\ c' = srcml_handler_dispatch(c, Inputs[next])
    /\ next' = next + 1
    /\ IF c'.exit # -1 THEN Ends(c'.exit) ELSE UNCHANGED <<stage, codes>>
    /\ UNCHANGED <<scenario, programs, r, steps, files, stdin, stream, out, errors, global>>

\* the end of create_srcml
CloseArchive ==
    /\ stage = "convert" /\ (c.status = -1 \/ next > Len(Inputs))
    /\ errors' = (errors \/ c.errors)
    /\ IF "NOARCHIVE" \in r.command
       THEN files' = c.files @@ files /\ UNCHANGED <<stream, out>>
       ELSE Put(Output(c))
    /\ StepDone
    /\ UNCHANGED <<scenario, programs, next, r, c, stdin, global>>

\* srcml_display_metadata: always to standard output
DisplayMetadata ==
    /\ stage = "step" /\ steps # << >> /\ Head(steps) = "srcml_display_metadata"
    /\ LET p == srcml_display_metadata(Production(r, files), Inputs)
       IN  /\ out' = Source(p.out)
           /\ errors' = (errors \/ p.errors)
           /\ IF p.exit # -1 THEN Ends(p.exit) /\ UNCHANGED steps ELSE StepDone
    /\ UNCHANGED <<scenario, programs, next, r, c, files, stdin, stream, global>>

\* create_src: files, or a text for a descriptor
CreateSource ==
    /\ stage = "step" /\ steps # << >> /\ Head(steps) = "create_src"
    /\ LET p == create_src(Production(r, files), Inputs, ToDescriptor)
       IN  /\ IF p.exit # -1 THEN Ends(p.exit) /\ UNCHANGED steps ELSE StepDone
           /\ errors' = (errors \/ p.errors)
           /\ IF p.exit # -1 THEN UNCHANGED <<files, stream, out>>
              ELSE IF ToDescriptor /\ "TO_DIRECTORY" \notin r.command THEN Put(Source(p.out))
              ELSE files' = p.files /\ UNCHANGED <<stream, out>>
    /\ UNCHANGED <<scenario, programs, next, r, c, stdin, global>>

\* compress_srcml: the same, packed
CompressOutput ==
    /\ stage = "step" /\ steps # << >> /\ Head(steps) = "compress_srcml"
    /\ Put(stream)
    /\ StepDone
    /\ UNCHANGED <<scenario, programs, next, r, c, stdin, errors, global>>

\* the end of main
Finish ==
    /\ stage = "step" /\ steps = << >>
    /\ Ends(IF errors THEN 1 ELSE 0)
    /\ UNCHANGED <<scenario, programs, next, r, steps, c, files, stdin, stream, out, errors,
                   global>>

-----------------------------------------------------------------------------
(* The library alone: a call is a record of a name and its values.  The    *)
(* functions on an archive that have no counterpart for the library's own  *)
(* are called on it here.                                                  *)

Archived(archive) == [global EXCEPT !.archive = archive]

SetText(call) ==
    LET a == global.archive
    IN  CASE call.name = "srcml_set_language" ->
                Archived(srcml_archive_set(a, "language", call.value))
          [] call.name = "srcml_set_src_encoding" ->
                Archived(srcml_archive_set(a, "src_encoding", call.value))
          [] call.name = "srcml_set_xml_encoding" ->
                Archived(srcml_archive_set(a, "encoding", call.value))
          [] call.name = "srcml_set_url" -> Archived(srcml_archive_set(a, "url", call.value))
          [] call.name = "srcml_set_version" ->
                Archived(srcml_archive_set(a, "version", call.value))
          [] call.name = "srcml_set_filename" -> [global EXCEPT !.filename = call.value]

SetOption(call) ==
    LET a == global.archive
    IN  CASE call.name = "srcml_set_options" ->
                Archived(srcml_archive_set_options(a, call.value))
          [] call.name = "srcml_enable_option" ->
                Archived(srcml_archive_enable_option(a, call.value))
          [] call.name = "srcml_disable_option" ->
                Archived(srcml_archive_disable_option(a, call.value))
          [] call.name = "srcml_set_tabstop" ->
                Archived(srcml_archive_set_tabstop(a, call.value))
          [] call.name = "srcml_register_file_extension" ->
                Archived(srcml_archive_register_file_extension(
                             a, call.value[1], call.value[2]))
          [] call.name = "srcml_register_namespace" ->
                Archived(srcml_archive_register_namespace(a, call.value[1], call.value[2]))
          [] call.name = "srcml_add_attribute" ->
                Archived(srcml_archive_add_attribute(
                             a, call.value[1], call.value[2], call.value[3]))

\* a unit of the library's archive
SetUnit(call) ==
    LET u == global.unit
        value == call.value
    IN  [global EXCEPT !.unit =
            CASE call.name = "srcml_unit_set_language" -> srcml_unit_set_language(u, value)
              [] call.name = "srcml_unit_set_eol" -> srcml_unit_set_eol(u, value)
              [] call.name = "srcml_unit_set" -> srcml_unit_set(u, value[1], value[2])
              [] call.name = "srcml_unit_register_namespace" ->
                    srcml_unit_register_namespace(u, value[1], value[2])
              [] call.name = "srcml_unit_add_attribute" ->
                    srcml_unit_add_attribute(global.archive, u, value[1], value[2], value[3])]

\* the ends of lines that are set are never used
SetGlobal(call) ==
    CASE call.name \in {"srcml_unit_set_language", "srcml_unit_set_eol", "srcml_unit_set",
                        "srcml_unit_register_namespace", "srcml_unit_add_attribute"} ->
            SetUnit(call)
      [] call.name = "srcml_set_eol" -> [global EXCEPT !.eol = call.value]
      [] call.name = "srcml_set_processing_instruction" ->
            Archived(srcml_archive_set_processing_instruction(
                         global.archive, call.value[1], call.value[2]))
      [] call.name = "srcml_archive_register_macro" ->
            Archived(srcml_archive_register_macro(
                         global.archive, call.value[1], call.value[2]))
      [] call.name \in {"srcml_set_options", "srcml_enable_option", "srcml_disable_option",
                        "srcml_set_tabstop", "srcml_register_file_extension",
                        "srcml_register_namespace", "srcml_add_attribute"} -> SetOption(call)
      [] OTHER -> SetText(call)

\* what a call asks for
GetGlobal(call) ==
    LET a == global.archive
    IN  CASE call.name = "srcml_get_filename" -> global.filename
          [] call.name = "srcml_get_url" -> srcml_archive_get(a, "url")
          [] call.name = "srcml_get_language" -> <<srcml_archive_get(a, "language")>>
          [] call.name = "srcml_get_options" ->
                SetToSortSeq(srcml_archive_get_options(a),
                             LAMBDA o, p : OptionBit[o] < OptionBit[p])
          [] call.name = "srcml_get_prefix_from_uri" ->
                <<srcml_archive_get_prefix_from_uri(a, call.value)>>
          [] call.name = "srcml_get_uri_from_prefix" ->
                <<srcml_archive_get_uri_from_prefix(a, call.value)>>
          [] call.name = "srcml_get_size" ->
                <<ToString(srcml_archive_get_size(a, call.value))>>
          [] call.name = "srcml_get_namespace" -> srcml_archive_get_namespace(a, call.value)
          [] call.name = "srcml_get_attribute" -> srcml_archive_get_attribute(a, call.value)
          [] call.name = "srcml_archive_get_macro_token_type" ->
                <<srcml_archive_get_macro_token_type(a, call.value)>>
          [] call.name = "srcml_archive_get_macro" -> srcml_archive_get_macro(a, call.value)
          [] call.name = "srcml_get_processing_instruction" ->
                srcml_archive_get_processing_instruction(a)

\* what a call asks of the unit
GetUnit(call) ==
    LET u == global.unit
    IN  CASE call.name = "srcml_unit_get" -> srcml_unit_get(u, call.value)
          [] call.name = "srcml_unit_get_eol" -> <<ToString(srcml_unit_get(u, "eol"))>>
          [] call.name = "srcml_unit_get_attribute_size" ->
                <<ToString(srcml_unit_get_attribute_size(u))>>
          [] call.name = "srcml_unit_get_attribute" -> srcml_unit_get_attribute(u, call.value)
          [] call.name = "srcml_unit_get_namespace_size" ->
                <<ToString(srcml_unit_get_namespace_size(u))>>
          [] call.name = "srcml_unit_get_namespace" -> srcml_unit_get_namespace(u, call.value)
          [] call.name = "srcml_unit_get_prefix_from_uri" ->
                <<srcml_unit_get_prefix_from_uri(u, call.value)>>
          [] call.name = "srcml_unit_get_uri_from_prefix" ->
                <<srcml_unit_get_uri_from_prefix(u, call.value)>>

UnitGetters == {"srcml_unit_get", "srcml_unit_get_eol", "srcml_unit_get_attribute_size",
                "srcml_unit_get_attribute", "srcml_unit_get_namespace_size",
                "srcml_unit_get_namespace", "srcml_unit_get_prefix_from_uri",
                "srcml_unit_get_uri_from_prefix"}

Getters == UnitGetters \cup {"srcml_get_url", "srcml_get_language", "srcml_get_filename", "srcml_get_options",
            "srcml_get_size", "srcml_get_namespace", "srcml_get_attribute",
            "srcml_get_prefix_from_uri", "srcml_get_uri_from_prefix",
            "srcml_archive_get_macro_token_type", "srcml_archive_get_macro",
            "srcml_get_processing_instruction"}

LibraryGet ==
    /\ stage = "library" /\ next <= Len(arguments) /\ arguments[next].name \in Getters
    /\ LET call == arguments[next]
           answer == IF call.name \in UnitGetters THEN GetUnit(call) ELSE GetGlobal(call)
       IN  out' = Source(out.text \o answer)
    /\ next' = next + 1
    /\ UNCHANGED <<scenario, programs, stage, r, steps, c, files, stdin, stream, errors, global,
                   codes>>

LibrarySet ==
    /\ stage = "library" /\ next <= Len(arguments)
    /\ arguments[next].name \notin Getters \cup {"srcml"}
    /\ global' = SetGlobal(arguments[next])
    /\ next' = next + 1
    /\ UNCHANGED <<scenario, programs, stage, r, steps, c, files, stdin, stream, out, errors,
                   codes>>

\* the language a unit of srcml() gets: the one that is set, or else that of the
\* name, letters counting as they are
LanguageIn(a, name) ==
    IF a.language \in langs THEN a.language ELSE get_language_from_filename(a.registry, name)

\* srcml(): the unit for a source file
GlobalUnit(name) ==
    [NoUnit EXCEPT !.filename = IF global.filename # << >> THEN global.filename ELSE name,
                   !.language = LanguageIn(global.archive, name),
                   !.url = global.archive.url, !.version = global.archive.version,
                   !.text = files[name].text]

\* srcml() reads srcML, of which there is a file
Unparses(from) ==
    /\ check_extension(global.archive.registry, from) = NONE
    /\ \/ get_language_extension(from) \in {".xml", ".srcml"}
       \/ global.archive.language = "xml"
    /\ from \in DOMAIN files

\* srcml(): to srcML if the extension is that of a language, from srcML if it is
\* that of srcML; the second takes the first unit, with its own ends of lines
LibraryConvert ==
    LET from == arguments[next].value[1]
        to == arguments[next].value[2]
        solitary == srcml_archive_enable_solitary_unit(srcml_archive_clone(global.archive))
        source == check_extension(global.archive.registry, from) # NONE
        there == from \in DOMAIN files
    IN  /\ stage = "library" /\ next <= Len(arguments) /\ arguments[next].name = "srcml"
        /\ ~ (Unparses(from) /\ Endless(files[from]))
        /\ next' = next + 1
        /\ files' =
             IF source
             THEN IF there /\ LanguageIn(global.archive, from) # NONE
                  THEN (to :> SrcML(srcml_archive_write_unit(solitary, GlobalUnit(from)), TRUE))
                       @@ files
                  ELSE (to :> SrcML(srcml_archive_create, FALSE)) @@ files
             ELSE IF Unparses(from) /\ files[from].archive.units # << >>
                  THEN (to :> Source(files[from].archive.units[1].text)) @@ files
                  ELSE files
        /\ UNCHANGED <<scenario, programs, stage, r, steps, c, stdin, stream, out, errors,
                       global, codes>>

\* srcml() from srcML whose root is never read to its end
LibraryStuck ==
    LET from == arguments[next].value[1]
    IN  /\ stage = "library" /\ next <= Len(arguments) /\ arguments[next].name = "srcml"
        /\ Unparses(from) /\ Endless(files[from])
        /\ Ends(NEVER)
        /\ UNCHANGED <<scenario, programs, next, r, steps, c, files, stdin, stream, out, errors,
                       global>>

LibraryEnds ==
    /\ stage = "library" /\ next > Len(arguments)
    /\ Ends(0)
    /\ UNCHANGED <<scenario, programs, next, r, steps, c, files, stdin, stream, out, errors,
                   global>>

-----------------------------------------------------------------------------

\* the next program of the pipe
NextProgram ==
    /\ stage = "ended" /\ Len(programs) > 1
    /\ programs' = Tail(programs)
    /\ stage' = StageOf(programs[2])
    /\ next' = 1
    /\ r' = NewProgram
    /\ steps' = << >>
    /\ stdin' = out
    /\ stream' = Nothing
    /\ out' = Nothing
    /\ errors' = FALSE
    /\ global' = NewGlobal
    /\ UNCHANGED <<scenario, c, files, codes>>

Next ==
    \/ ReadArgument \/ ApplyOption \/ CompleteRequest
    \/ OpenInputs \/ CheckRanges \/ ChooseSteps
    \/ OpenArchive \/ HandleInput \/ CloseArchive
    \/ DisplayMetadata \/ CreateSource \/ CompressOutput \/ Finish
    \/ LibrarySet \/ LibraryGet \/ LibraryConvert \/ LibraryStuck \/ LibraryEnds
    \/ NextProgram

Spec == Init /\ [][Next]_vars

-----------------------------------------------------------------------------
(* Properties *)

\* the last program has ended, and all have succeeded
Succeeded ==
    /\ stage = "ended" /\ Len(programs) = 1
    /\ \A i \in DOMAIN codes : codes[i] = 0

\* what the last program has written
Result == IF scenario.result \in DOMAIN files THEN files[scenario.result] ELSE out

Part(filename, language, text) == [filename |-> filename, language |-> language, text |-> text]
PartOf(unit) == Part(unit.filename, unit.language, unit.text)
Parts(archive) == [i \in DOMAIN archive.units |-> PartOf(archive.units[i])]

\* The archive that is written has a unit for each part of the inputs that the
\* command line names, in their order, with the part's name and language and
\* exactly its text: files, ranges of lines and columns in them, what is between
\* the NULs of a text or of standard input, the entries of archives and the files
\* of directories and lists that are in a known language.  A command line that
\* cannot be followed, and no other, ends with a code that says so.  A program
\* that never ends is one that reads srcML with options on its root.
PartsTaken ==
    /\ Succeeded /\ scenario.asks = "parts" => Parts(Result.archive) = scenario.expected
    /\ stage = "ended" /\ Len(programs) = 1
           => (Last(codes) = 0 <=> scenario.asks # "refused") /\ scenario.asks # "endless"
    /\ stage = "stuck" => scenario.asks = "endless"

\* the attributes of the root are written into the header of each unit, before
\* those of the unit, and what comes last of one name is what is read
Inherited(archive, unit) ==
    unit.attributes
    \cup {a \in ToSet(archive.attributes) :
              ~ \E own \in unit.attributes : own.prefix = a.prefix /\ own.name = a.name}

\* Writing the source code of an archive with headers (-S -H) and reading that
\* gives the units again, with their names, languages and texts, and the url.
\* The attributes of the root are not the root's any more but each unit's, next
\* to those the unit had, which win over the root's of the same name.  Left out
\* by name: the version of a unit, written as src_version and read as
\* src-version, which is lost, and values with # or ---, which end what they are in.
RoundTrip ==
    Succeeded /\ scenario.asks = "again" =>
        LET original == files[scenario.expected].archive
        IN  /\ Parts(Result.archive) = Parts(original)
            /\ \A i \in DOMAIN Result.archive.units :
                  Result.archive.units[i].attributes = Inherited(original, original.units[i])
            /\ Result.archive.attributes = << >>
            /\ Result.archive.url = original.url

\* What is shown of an archive is what is in it, for each unit or for the whole.
Answers == Succeeded /\ scenario.asks = "shown" => out.text = scenario.expected

\* srcML as the only input, without --archive and without the option for srcML
\* output (-X, or what implies it): what is written keeps the form of one unit
KeepsForm(request) ==
    /\ Len(request.input_sources) = 1
    /\ request.input_sources[1].state = "SRCML"
    /\ "ARCHIVE" \notin request.markup_options
    /\ "XML" \notin request.command

\* What is written as one unit has no other unit behind it: an output that turns
\* out to hold several files is made an archive before the first is written.
\* Left out by name is KeepsForm: an archive as the only input is then written as
\* several roots, in code and model alike.
OneRoot ==
    c.archive.root = "unit" /\ ~ KeepsForm(c.r) => Len(c.archive.units) <= 1
=============================================================================

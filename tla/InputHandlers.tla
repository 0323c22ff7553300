---------------------------- MODULE InputHandlers ---------------------------
(***************************************************************************)
(* The step of the client that makes srcML: how create_srcml sets up the   *)
(* output archive and how each kind of input becomes parse requests.       *)
(*                                                                         *)
(* These are functions of a conversion c: the request r of the command     *)
(* line, the archive that is written, the files, the status of the step,   *)
(* the exit code (-1 while the client runs) and whether something was      *)
(* reported.  A request is parsed and written where it is scheduled, since *)
(* the order of the units is that of the requests; the settings of the     *)
(* archive that the writing depends on change before its first request.    *)
(*                                                                         *)
(* What is in a file, or comes in on a stream: a source text, an archive   *)
(* of source files ("tar"), srcML, or a directory.  What is compressed is  *)
(* decompressed by the library that reads it.                              *)
(***************************************************************************)
EXTENDS CommandLine

CONSTANT NameOrder    \* the names of files, sorted

NoUnit == [filename |-> << >>, language |-> NONE, url |-> << >>, version |-> << >>,
           text |-> << >>, attributes |-> {}, namespaces |-> {}]

Source(text) == [kind |-> "source", text |-> text]
SrcML(archive, closed) == [kind |-> "srcml", archive |-> archive, closed |-> closed]
Tar(entries) == [kind |-> "tar", entries |-> entries]
Directory == [kind |-> "directory"]

Conversion(r, files) ==
    [r |-> r, files |-> files, archive |-> srcml_archive_create, status |-> 0,
     exit |-> -1, errors |-> FALSE, always_archive |-> FALSE]

Reported(c) == [c EXCEPT !.errors = TRUE]
\* the code of a client that never ends
NEVER == -2
Exits(c, code) == [Reported(c) EXCEPT !.exit = code]
Failed(c) == [Reported(c) EXCEPT !.status = -1]

option(c, command) == command \in c.r.command

\* the path of a file in a directory
Path(directory, name) ==
    IF directory = << >> \/ name[1] = "/" THEN name
    ELSE IF Last(directory) = "/" THEN directory \o name
    ELSE directory \o <<"/">> \o name

-----------------------------------------------------------------------------
(* Reading srcML: what startRoot and startUnit of the reader make of the   *)
(* archive a that was written.  The namespaces of the markup itself are    *)
(* left out.                                                               *)

\* srcMLOutput::startUnit: the root has an attribute with options
HasOptions(a) == a.root # "none" /\ a.options \cap {"CPP_TEXT_ELSE", "CPP_MARKUP_IF0"} # {}

\* startRoot: the loop over the names in that attribute does not get past the first
Endless(content) == HasOptions(content.archive)

\* unit_update_attributes and the end of startUnit: a unit that is the root has
\* the namespaces of the root
ReadUnit(a, unit) ==
    IF a.root = "unit" THEN [unit EXCEPT !.namespaces = @ \cup ToSet(a.namespaces)] ELSE unit

\* startDocument and startRoot: the attributes of the root, which are those of the
\* unit if that is the root, belong to the archive
ReadRoot(a) ==
    LET positions == a.root # "none" /\ "POSITION" \in a.options
        new == [srcml_archive_create EXCEPT
                   !.root = a.root, !.encoding = IF a.encoding = NONE THEN "UTF-8" ELSE a.encoding,
                   !.tabstop = IF positions THEN a.tabstop ELSE @,
                   !.units = [i \in DOMAIN a.units |-> ReadUnit(a, a.units[i])]]
        attributed ==
            CASE a.root = "archive" -> [new EXCEPT !.url = a.url, !.version = a.version,
                                                   !.attributes = a.attributes]
              [] a.root = "unit" ->
                   [srcml_archive_enable_solitary_unit(new) EXCEPT
                       !.url = a.units[1].url, !.version = a.units[1].version,
                       !.attributes = SetToSeq(a.units[1].attributes)]
              [] OTHER -> new
        declared == IF a.root = "unit" THEN a.namespaces \o SetToSeq(a.units[1].namespaces)
                    ELSE IF a.root = "archive" THEN a.namespaces ELSE << >>
    IN  FoldLeft(LAMBDA archive, ns :
                     srcml_archive_register_namespace(archive, ns.prefix, ns.uri),
                 attributed, declared)

-----------------------------------------------------------------------------
(* The settings *)

Enabled(a, r) ==
    LET markup == r.markup_options \cap
            {"POSITION", "CPP", "CPP_MARKUP_IF0", "CPP_TEXT_ELSE", "NO_XML_DECL", "EXPAND_TABS"}
        archive == IF "ARCHIVE" \in r.markup_options
                   THEN srcml_archive_disable_solitary_unit(a) ELSE a
        enabled == FoldLeft(srcml_archive_enable_option, archive, SetToSeq(markup))
    IN  IF "HASH" \in r.markup_options THEN srcml_archive_enable_hash(enabled) ELSE enabled

\* one input that is not an archive, and no wish for an archive
OneUnit(r) ==
    /\ Len(r.input_sources) = 1
    /\ "ARCHIVE" \notin r.markup_options
    /\ LET input == r.input_sources[1]
       IN  input.protocol # "filelist" /\ ~ input.isdirectory /\ input.archives = << >>

Form(a, r) ==
    IF ~ OneUnit(r) THEN srcml_archive_enable_hash(srcml_archive_disable_solitary_unit(a))
    ELSE LET solitary == srcml_archive_enable_solitary_unit(a)
         IN  IF "HASH" \in r.markup_options THEN srcml_archive_enable_hash(solitary)
             ELSE srcml_archive_disable_hash(solitary)

\* the url that is given, or the name of the only input, if that is an archive
UrlOf(r) ==
    IF r.att_url # << >> THEN r.att_url
    ELSE IF Len(r.input_sources) = 1 /\ r.input_sources[1].archives # << >>
         THEN NoRoot(r.input_sources[1].resource)
    ELSE << >>

\* EXT=LANGUAGE: the extension is registered with its dot
WithDot == ("h" :> ".h") @@ ("user" :> ".user") @@ ("i" :> ".i")
Registered(a, ext) ==
    srcml_archive_register_file_extension(a, WithDot[ext[1]], Joined(SubSeq(ext, 3, Len(ext))))

WithNamespaces(a, r) ==
    FoldLeft(LAMBDA archive, prefix :
                 srcml_archive_register_namespace(archive, prefix, r.xmlns[prefix]),
             a, SetToSeq(DOMAIN r.xmlns))

\* the beginning of create_srcml, up to the transformations
Settings(c) ==
    LET r == c.r
        encoded == [c.archive EXCEPT !.encoding = Joined(r.att_xml_encoding),
                                     !.src_encoding = Joined(r.src_encoding),
                                     !.url = UrlOf(r), !.version = r.att_version]
        known == [Enabled(encoded, r) EXCEPT !.language = Joined(r.att_language)]
        formed == Form(srcml_archive_set_tabstop(known, r.tabs), r)
        extended == FoldLeft(Registered, formed, r.language_ext)
    IN  IF ~ OneUnit(r) /\ r.att_filename # << >> THEN Exits(c, 2)
        ELSE IF \E i \in DOMAIN r.language_ext :
                    ~ CanRegister(Joined(SubSeq(r.language_ext[i], 3, Len(r.language_ext[i]))))
             THEN Exits(c, 2)
        ELSE [c EXCEPT !.archive = WithNamespaces(extended, r)]

\* mutant: what was set for one unit stays
SeveralNot(c) == c

\* There is more than one file in the input
Several(c) ==
    [c EXCEPT !.archive = srcml_archive_enable_hash(srcml_archive_disable_solitary_unit(@))]

-----------------------------------------------------------------------------
(* From a request to its unit *)

\* ParseRequest: unset if no language is known, disk if a file is read when the
\* unit is parsed, parsed if the unit comes from srcML
ParseRequest(filename, language, text) ==
    [filename |-> filename, language |-> language, url |-> << >>, version |-> << >>, text |-> text,
     unset |-> FALSE, disk |-> << >>, parsed |-> FALSE, attributes |-> {}, namespaces |-> {}]

\* srcml_consume and srcml_unit_parse_...: the language of the unit, or else
\* the one of a file's extension
ParsedLanguage(c, q) ==
    IF q.language \in langs THEN q.language
    ELSE IF q.disk # << >> THEN get_language_from_filename(c.archive.registry, q.disk)
    ELSE NONE

UnitOf(c, q) ==
    [filename |-> IF q.parsed THEN q.filename ELSE Cleaned(q.filename),
     language |-> IF q.parsed THEN q.language ELSE ParsedLanguage(c, q),
     url |-> IF q.parsed THEN q.url ELSE c.archive.url,
     version |-> IF q.parsed \/ q.version # << >> THEN q.version ELSE c.r.att_version,
     text |-> IF q.disk = << >> THEN q.text ELSE c.files[q.disk].text,
     attributes |-> q.attributes, namespaces |-> q.namespaces]

\* srcml_write_request: into a file of its own, or into the archive
Written(c, unit) ==
    IF ~ option(c, "NOARCHIVE") THEN [c EXCEPT !.archive = srcml_archive_write_unit(@, unit)]
    ELSE LET directory == IF option(c, "TO_DIRECTORY") THEN c.r.output_filename.resource ELSE << >>
             own == srcml_archive_disable_hash(
                        srcml_archive_enable_solitary_unit(srcml_archive_clone(c.archive)))
         IN  [c EXCEPT !.files = (Append(Path(directory, unit.filename), ".xml") :>
                                      SrcML(srcml_archive_write_unit(own, unit), TRUE)) @@ @]

\* queue.schedule: a file that is not there ends the client
schedule(c, q) ==
    IF c.exit # -1 THEN c
    ELSE IF q.unset THEN IF option(c, "VERBOSE") THEN c ELSE Reported(c)
    ELSE IF q.disk # << >> /\ q.disk \notin DOMAIN c.files THEN Exits(c, 1)
    ELSE IF ~ q.parsed /\ ParsedLanguage(c, q) = NONE THEN Reported(c)
    ELSE Written(c, UnitOf(c, q))

-----------------------------------------------------------------------------
(* The handlers of an input *)

\* src_input_text: the parts between NULs
src_input_text(c, input) ==
    LET parts == Split(Unescaped(input.resource))
        language == IF c.r.att_language # << >> THEN Joined(c.r.att_language)
                    ELSE check_extension(c.archive.registry, c.r.att_filename)
    IN  FoldLeft(LAMBDA d, part : schedule(d, ParseRequest(c.r.att_filename, language, part)),
                 IF Len(parts) > 1 THEN Several(c) ELSE c, parts)

\* what reading a file, or standard input, gives: its entries
EntriesOf(content) ==
    IF content.kind = "tar"
    THEN LET files == SelectSeq(content.entries, LAMBDA entry : ~ entry.isdirectory)
         IN  IF files = << >> THEN <<[name |-> << >>, isdirectory |-> FALSE, text |-> << >>]>>
             ELSE files
    ELSE <<[name |-> << >>, isdirectory |-> FALSE, text |-> content.text]>>

\* the name an entry gets: its own, or that of the input
EntryName(c, input, entry) ==
    LET own == IF input.prefix = << >> THEN entry.name ELSE Path(input.prefix, entry.name)
        cleaned == Cleaned(input.resource)
    IN  IF c.r.att_filename # << >> /\ srcml_archive_is_solitary_unit(c.archive)
        THEN c.r.att_filename
        ELSE IF entry.name # << >> THEN own
        ELSE SubSeq(cleaned, 1, Len(cleaned) - Len(input.compressions))

\* the language that is asked for, if the name may have one; or the one of the
\* name's extension; or the one behind the extensions of the packing
EntryLanguage(c, input, filename) ==
    LET byname == check_extension(c.archive.registry, filename)
        asked == Joined(c.r.att_language)
    IN  IF asked # NONE /\ (input.protocol \in {"text", "stdin", "clipboard"} \/ byname # NONE)
        THEN asked
        ELSE IF byname # NONE THEN byname
        ELSE check_extension(c.archive.registry, <<input.extension>>)

Value(pairs, key, default) == IF key \in DOMAIN pairs THEN pairs[key] ELSE default

Keys(pairs) == DOMAIN pairs
NamespaceKeys(pairs) == {key \in Keys(pairs) : Len(key) = 3 /\ key[1] = "xmlns"}
AttributeKeys(pairs) == {key \in Keys(pairs) : Len(key) = 3 /\ key[1] # "xmlns"}

\* the prefix of an attribute must be declared
Declares(c, namespaces, prefix) ==
    \/ \E ns \in namespaces : ns.prefix = prefix
    \/ IndexOfPrefix(c.archive, prefix) # 0

UnitNamespaces(pairs) ==
    {Namespace(key[3], Joined(pairs[key])) : key \in NamespaceKeys(pairs)}
UnitAttributes(c, pairs, namespaces) ==
    {Attribute(key[1], key[3], pairs[key]) : key \in
        {k \in AttributeKeys(pairs) : Declares(c, namespaces, k[1])}}

\* a part of an entry with what its header says, cut to the range
PartRequest(c, named, language, pairs, namespaces, text) ==
    [ParseRequest(Value(pairs, <<"filename">>, named), language, text)
     EXCEPT !.version = Value(pairs, <<"src-version">>, << >>),
            !.unset = language = NONE,
            !.namespaces = namespaces,
            !.attributes = UnitAttributes(c, pairs, namespaces)]

FromHeader(c, input, named, language, header) ==
    IF language = NONE /\ input.protocol = "stdin" THEN Exits(c, 1)
    ELSE schedule([c EXCEPT !.archive.url = Value(header.pairs, <<"url">>, @)],
                  PartRequest(c, named, language, header.pairs, UnitNamespaces(header.pairs),
                              SliceOf(header.text, input.slice)))

FromRead(c, input, named, language, header) ==
    FromHeader(c, input, named, Joined(Value(header.pairs, <<"language">>, <<language>>)), header)

FromPart(c, input, filename, language, part) ==
    IF c.exit # -1 THEN c
    ELSE FromRead(c, input,
                  IF c.r.att_filename # << >> \/ filename # <<"-">> THEN filename ELSE << >>,
                  language, ReadHeader(part))

\* an entry, which is several files if there are NULs in it
FromParts(c, input, filename, language, parts) ==
    FoldLeft(LAMBDA d, part : FromPart(d, input, filename, language, part),
             IF Len(parts) > 1 THEN Several(c) ELSE c, parts)

FromNamed(c, input, filename, text) ==
    FromParts(c, input, filename, EntryLanguage(c, input, filename), Split(text))

FromEntry(c, input, entry) == FromNamed(c, input, EntryName(c, input, entry), entry.text)

IsHeld(input) == input.fd \/ input.protocol = "clipboard"

\* src_input_libarchive: a file that cannot be source code is not even opened
src_input_libarchive(c, input) ==
    LET notSource == \/ input.skip
                     \/ /\ ~ IsHeld(input) /\ ~ option(c, "HEADER")
                        /\ input.compressions = << >> /\ input.archives = << >>
                        /\ check_extension(c.archive.registry, input.plainfile) = NONE
        content == IF IsHeld(input) THEN input.content ELSE c.files[input.resource]
    IN  IF notSource
        THEN IF option(c, "VERBOSE")
             THEN schedule(c, [ParseRequest(Cleaned(input.resource), NONE, << >>)
                               EXCEPT !.unset = TRUE])
             ELSE IF input.exists \/ IsHeld(input) THEN c ELSE Reported(c)
        ELSE IF ~ IsHeld(input) /\ input.resource \notin DOMAIN c.files THEN Reported(c)
        ELSE FoldLeft(LAMBDA d, entry : FromEntry(d, input, entry),
                      IF content.kind = "tar" THEN Several(c) ELSE c, EntriesOf(content))

\* src_input_file: the parser reads the file
src_input_file(c, input) ==
    LET filename == IF c.r.att_filename # << >> THEN c.r.att_filename ELSE input.resource
        language == IF c.r.att_language # << >> THEN Joined(c.r.att_language)
                    ELSE check_extension(c.archive.registry, filename)
    IN  IF option(c, "VERBOSE") THEN src_input_libarchive(c, input)
        ELSE schedule(c, [ParseRequest(filename, language, << >>)
                          EXCEPT !.disk = input.resource])

\* the regular files of a directory that are not hidden, sorted
IsBelow(directory, name) ==
    LET size == Len(directory)
    IN  Len(name) > size + 1 /\ SubSeq(name, 1, size) = directory /\ name[size + 1] = "/"
Hidden(directory, name) ==
    \E i \in (Len(directory) + 1)..(Len(name) - 1) : name[i] = "/" /\ IsDotted(name[i + 1])

FilesBelow(c, directory) ==
    SelectSeq(NameOrder, LAMBDA name :
        /\ name \in DOMAIN c.files
        /\ c.files[name].kind # "directory"
        /\ IsBelow(directory, name) /\ ~ Hidden(directory, name))

ParentOf(name) ==
    LET slash == SelectLastInSeq(name, LAMBDA piece : piece = "/")
    IN  IF slash = 0 THEN name ELSE SubSeq(name, 1, slash - 1)

\* src_input_filesystem: what is not source code, and source archives, are skipped
src_input_filesystem(c, input) ==
    FoldLeft(LAMBDA d, name :
                 LET file == InputSrc(d.files, Uri("file", name))
                     skip == \/ check_extension(d.archive.registry, file.plainfile) = NONE
                             \/ file.archives # << >>
                 IN  src_input_libarchive(d, [file EXCEPT !.skip = skip,
                                                          !.prefix = ParentOf(name)]),
             c, FilesBelow(c, input.resource))

\* srcml_input_srcml: all units, or the one that is asked for; the archive that
\* is written takes the form of the one that is read only for srcML output
LikeInput(c, input, read) ==
    IF ~ option(c, "XML") THEN c
    ELSE LET a == IF read.root = "archive" /\ input.unit = 0
                  THEN srcml_archive_disable_solitary_unit(c.archive) ELSE c.archive
         IN  [c EXCEPT !.archive =
                 FoldLeft(LAMBDA archive, ns :
                              srcml_archive_register_namespace(archive, ns.prefix, ns.uri),
                          a, read.namespaces)]

FromUnit(c, unit) ==
    [filename |-> unit.filename,
     language |-> IF c.archive.language # NONE THEN c.archive.language ELSE unit.language,
     url |-> unit.url, version |-> unit.version, text |-> unit.text, unset |-> FALSE, disk |-> << >>,
     parsed |-> TRUE, attributes |-> unit.attributes, namespaces |-> unit.namespaces]

ContentOf(c, input) == IF IsHeld(input) THEN input.content ELSE c.files[input.resource]

srcml_input_srcml(c, input) ==
    IF ~ IsHeld(input) /\ input.resource \notin DOMAIN c.files THEN Failed(c)
    ELSE IF Endless(ContentOf(c, input)) THEN [c EXCEPT !.exit = NEVER]
    ELSE LET read == ReadRoot(ContentOf(c, input).archive)
             units == IF input.unit = 0 THEN read.units
                      ELSE SubSeq(read.units, input.unit, Min({input.unit, Len(read.units)}))
         IN  IF units = << >> THEN Exits(LikeInput(c, input, read), 1)
             ELSE FoldLeft(LAMBDA d, unit : schedule(d, FromUnit(d, unit)),
                           LikeInput(c, input, read), units)

\* srcml_handler_dispatch, of an input that is not a list
DispatchFile(c, input) ==
    IF input.state = "SRCML" THEN srcml_input_srcml(c, input)
    ELSE IF input.protocol = "text" THEN src_input_text(c, input)
    ELSE IF input.protocol = "file" /\ input.isdirectory THEN src_input_filesystem(c, input)
    ELSE IF /\ input.protocol = "file" /\ input.slice.line = 0 /\ ~ option(c, "HEADER")
            /\ input.archives = << >> /\ input.compressions = << >>
            /\ check_extension(c.archive.registry, <<input.extension>>) # NONE
         THEN src_input_file(c, input)
    ELSE src_input_libarchive(c, input)

\* the names in a list: lines that are neither empty nor comments
NamesIn(text) ==
    SelectSeq([i \in DOMAIN FullLines(Append(text, "NL")) |->
                  Trimmed(FullLines(Append(text, "NL"))[i])],
              LAMBDA line : line # << >> /\ line[1] # "#")

\* src_input_filelist: a name that is that of the list is left out, and one
\* that fails ends the list
src_input_filelist(c, input) ==
    IF input.resource \notin DOMAIN c.files THEN Failed(c)
    ELSE IF c.files[input.resource].kind # "source" THEN [c EXCEPT !.status = -1]
    ELSE FoldLeft(LAMBDA d, name :
                      IF d.status = -1 \/ d.exit # -1 THEN d
                      ELSE IF name = input.resource THEN Reported(d)
                      ELSE DispatchFile(d, InputSrc(d.files, Uri("", name))),
                  c, NamesIn(c.files[input.resource].text))

\* srcml_handler_dispatch
srcml_handler_dispatch(c, input) ==
    IF input.state # "SRCML" /\ input.protocol = "filelist"
    THEN src_input_filelist([c EXCEPT !.archive = srcml_archive_disable_solitary_unit(@),
                                      !.always_archive = TRUE], input)
    ELSE DispatchFile(c, input)

\* the end of create_srcml: after an error the output is left open, except when
\* there was a list of files
Closes(c) == c.always_archive \/ (c.status # -1 /\ ~ c.errors)

Output(c) == SrcML(IF Closes(c) THEN srcml_archive_close(c.archive) ELSE c.archive, Closes(c))
=============================================================================

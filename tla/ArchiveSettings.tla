-------------------------- MODULE ArchiveSettings ---------------------------
(***************************************************************************)
(* What is set on an archive of libsrcml before units are written to it,   *)
(* and read from it: among it the languages by the extensions of names.    *)
(* The functions of the library that are named srcml_set_... do the same   *)
(* to an archive of the library's own.                                     *)
(*                                                                         *)
(* A name is a sequence of pieces, and what begins with a dot is a piece   *)
(* of its own.  Values that are not set are NONE, or << >> where they are  *)
(* sequences of pieces.                                                    *)
(***************************************************************************)
EXTENDS Sequences, SequencesExt, TLC, Integers

NONE == ""

\* srcml_check_language: the languages that can be asked for
langs == {"C", "C++", "C#", "Java", "Python", "JavaScript", "CMake",
          "Objective-C"}

Extensions(names, language) == [e \in names |-> language]

\* language_extension_registry(): capitals are registered beside small letters
Standard ==
    Extensions({".c", ".h", ".i"}, "C")
    @@ Extensions({".cpp", ".CPP", ".cp", ".hpp", ".cxx", ".hxx", ".cc", ".hh",
                   ".c++", ".h++", ".C", ".H", ".tcc", ".ii"}, "C++")
    @@ Extensions({".java", ".aj"}, "Java")
    @@ Extensions({".cs"}, "C#")
    @@ Extensions({".py", ".pyi", ".pyw", ".pyz"}, "Python")
    @@ Extensions({".js", ".cjs", ".mjs", ".ts", ".tsx", ".mts", ".cts"},
                  "JavaScript")
    @@ Extensions({".cmake"}, "CMake")

\* register_user_ext: the last registration is found first; NONE disables one
register_user_ext(registry, extension, language) ==
    (extension :> language) @@ registry

Lower(piece) ==
    CASE piece = ".C" -> ".c" [] piece = ".H" -> ".h" [] piece = ".CPP" -> ".cpp"
      [] piece = "CMakeLists" -> "cmakelists" [] OTHER -> piece

IsDotted(piece) == piece \in DOMAIN Standard \cup
    {".gz", ".bz2", ".lz", ".lzma", ".xz", ".z", ".7z", ".ar", ".cpio", ".iso",
     ".mtree", ".pax", ".shar", ".tar", ".taz", ".tb2", ".tbz", ".tbz2", ".tgz",
     ".tlz", ".txz", ".xar", ".zip", ".xml", ".srcml", ".txt", ".xsl", ".rng",
     ".user", ".hidden", "./"}

LastDot(name) == SelectLastInSeq(name, IsDotted)

\* get_language_extension: what follows the last dot, of a name without .gz
get_language_extension(name) ==
    LET path == IF name # << >> /\ Last(name) = ".gz" /\ Len(name) > 1
                THEN Front(name) ELSE name
    IN  IF LastDot(path) = Len(path) /\ path # << >> THEN Last(path) ELSE ""

\* get_language_from_filename
get_language_from_filename(registry, name) ==
    LET extension == get_language_extension(name)
    IN  IF extension \in DOMAIN registry THEN registry[extension] ELSE NONE

\* srcml_archive_check_extension: all letters are made small, so that the
\* capitals that are registered are never found
check_extension(registry, name) ==
    LET path == [i \in DOMAIN name |-> Lower(name[i])]
        size == Len(path)
        cmake == size >= 2 /\ SubSeq(path, size - 1, size) = <<"cmakelists", ".txt">>
    IN  get_language_from_filename(registry,
            IF cmake THEN <<"cmakelists", ".cmake">> ELSE path)

-----------------------------------------------------------------------------
(* An archive a *)

\* SRCML_OPTION_...: the bit of each
OptionBit ==
    ("NO_XML_DECL" :> 1) @@ ("POSITION" :> 2) @@ ("CPP" :> 3)
    @@ ("CPP_TEXT_ELSE" :> 4) @@ ("CPP_MARKUP_IF0" :> 5)
    @@ ("STORE_ENCODING" :> 6) @@ ("EXPAND_TABS" :> 7)
    @@ ("NAMESPACE_DECL" :> 8) @@ ("DEBUG" :> 11) @@ ("CPP_DECLARED" :> 13)
    @@ ("ARCHIVE" :> 14) @@ ("HASH" :> 15)

Below(options, bit) == {option \in options : OptionBit[option] < bit}

Namespace(prefix, uri) == [prefix |-> prefix, uri |-> uri]
Attribute(prefix, name, value) == [prefix |-> prefix, name |-> name, value |-> value]

\* srcml_archive_create.  root says how the output begins, once it does.
srcml_archive_create ==
    [options |-> {"ARCHIVE", "HASH", "NAMESPACE_DECL"},
     src_encoding |-> NONE, encoding |-> NONE, language |-> NONE,
     url |-> << >>, version |-> << >>, tabstop |-> 8,
     namespaces |-> <<Namespace("", "src")>>, attributes |-> << >>,
     processing_instruction |-> << >>, user_macro_list |-> << >>,
     registry |-> Standard, root |-> "none", units |-> << >>]

\* srcml_archive_clone: the settings without the output
srcml_archive_clone(a) == [a EXCEPT !.root = "none", !.units = << >>]

\* srcml_archive_set_src_encoding, ..._set_xml_encoding, ..._set_language,
\* ..._set_url and ..._set_version
srcml_archive_set(a, field, value) == [a EXCEPT ![field] = value]

\* srcml_archive_set_options: the internal options are cleared, and with them
\* what the first statement may have set
srcml_archive_set_options(a, options) == [a EXCEPT !.options = Below(options, 7)]

srcml_archive_is_solitary_unit(a) == "ARCHIVE" \notin a.options
srcml_archive_disable_solitary_unit(a) == [a EXCEPT !.options = @ \cup {"ARCHIVE"}]
srcml_archive_enable_solitary_unit(a) == [a EXCEPT !.options = @ \ {"ARCHIVE"}]
srcml_archive_enable_hash(a) == [a EXCEPT !.options = @ \cup {"HASH"}]
srcml_archive_disable_hash(a) == [a EXCEPT !.options = @ \ {"HASH"}]

\* srcml_archive_enable_option: one bit more than can be disabled
srcml_archive_enable_option(a, option) ==
    [a EXCEPT !.options = @ \cup Below({option}, 8)
                            \cup (IF option = "CPP" THEN {"CPP_DECLARED"} ELSE {})]

srcml_archive_disable_option(a, option) == [a EXCEPT !.options = @ \ Below({option}, 7)]

srcml_archive_set_tabstop(a, tabstop) == [a EXCEPT !.tabstop = tabstop]

\* srcml_archive_register_file_extension: whether it succeeds, and what it does
CanRegister(language) == language \in langs \cup {"NONE"}

srcml_archive_register_file_extension(a, extension, language) ==
    IF ~ CanRegister(language) THEN a
    ELSE [a EXCEPT !.registry =
             register_user_ext(@, extension, IF language = "NONE" THEN NONE ELSE language)]

IndexOfUri(a, uri) == SelectInSeq(a.namespaces, LAMBDA ns : ns.uri = uri)
\* of namespaces with the same prefix, the last one
IndexOfPrefix(a, prefix) == SelectLastInSeq(a.namespaces, LAMBDA ns : ns.prefix = prefix)

\* addNamespace, of an archive or a unit: a known URI takes the prefix
addNamespace(a, prefix, uri) ==
    [a EXCEPT !.namespaces = IF IndexOfUri(a, uri) # 0
                             THEN [@ EXCEPT ![IndexOfUri(a, uri)].prefix = prefix]
                             ELSE Append(@, Namespace(prefix, uri))]

\* addAttribute: one that is known takes the value
addAttribute(a, prefix, name, value) ==
    LET same == SelectInSeq(a.attributes, LAMBDA t : t.prefix = prefix /\ t.name = name)
    IN  IF same # 0 THEN [a EXCEPT !.attributes[same].value = value]
        ELSE [a EXCEPT !.attributes = Append(@, Attribute(prefix, name, value))]

\* srcml_archive_register_namespace: some namespaces turn options on
srcml_archive_register_namespace(a, prefix, uri) ==
    [addNamespace(a, prefix, uri) EXCEPT
        !.options = @ \cup CASE uri = "cpp" -> {"CPP", "CPP_DECLARED"}
                             [] uri = "err" -> {"DEBUG"}
                             [] uri = "pos" -> {"POSITION"}
                             [] OTHER -> {}]

\* srcml_archive_add_attribute: the prefix must be declared; one that is declared
\* again for another URI is not told apart
srcml_archive_add_attribute(a, prefix, name, value) ==
    IF IndexOfPrefix(a, prefix) = 0 THEN a ELSE addAttribute(a, prefix, name, value)

srcml_archive_set_processing_instruction(a, target, data) ==
    [a EXCEPT !.processing_instruction = <<target, data>>]

\* srcml_archive_register_macro: the type of a known token changes
srcml_archive_register_macro(a, token, type) ==
    LET same == SelectInSeq(a.user_macro_list, LAMBDA m : m[1] = token)
    IN  IF same # 0 THEN [a EXCEPT !.user_macro_list[same][2] = type]
        ELSE [a EXCEPT !.user_macro_list = Append(@, <<token, type>>)]

\* srcml_archive_get_src_encoding, ..._xml_encoding, ..._language, ..._url and
\* ..._version
srcml_archive_get(a, field) == a[field]

srcml_archive_get_options(a) == Below(a.options, 7)

\* srcml_archive_get_namespace_..., ..._attribute_...: the first position is 0;
\* some read one entry behind the last, which is nobody's, and are not asked for it
srcml_archive_get_size(a, list) == Len(a[list])

srcml_archive_get_namespace(a, pos) ==
    IF pos >= Len(a.namespaces) THEN << >>
    ELSE <<a.namespaces[pos + 1].prefix, a.namespaces[pos + 1].uri>>

srcml_archive_get_attribute(a, pos) ==
    IF pos >= Len(a.attributes) THEN << >>
    ELSE <<a.attributes[pos + 1].name, a.attributes[pos + 1].value>>

\* srcml_archive_get_macro_token and ..._type
srcml_archive_get_macro(a, pos) ==
    IF pos >= Len(a.user_macro_list) THEN << >> ELSE a.user_macro_list[pos + 1]

\* srcml_archive_get_processing_instruction_target and ..._data
srcml_archive_get_processing_instruction(a) == a.processing_instruction

srcml_archive_get_macro_token_type(a, token) ==
    LET known == SelectInSeq(a.user_macro_list, LAMBDA m : m[1] = token)
    IN  IF known = 0 THEN NONE ELSE a.user_macro_list[known][2]

\* srcml_archive_get_prefix_from_uri, ..._get_uri_from_prefix
srcml_archive_get_prefix_from_uri(a, uri) ==
    IF IndexOfUri(a, uri) = 0 THEN NONE ELSE a.namespaces[IndexOfUri(a, uri)].prefix
srcml_archive_get_uri_from_prefix(a, prefix) ==
    IF IndexOfPrefix(a, prefix) = 0 THEN NONE ELSE a.namespaces[IndexOfPrefix(a, prefix)].uri

-----------------------------------------------------------------------------
(* A unit u of an archive a, before it is built.  A language is a sequence *)
(* of pieces: a unit that stands for two revisions names one of each.      *)

\* the ends of lines: SOURCE_OUTPUT_EOL_AUTO, _LF, _CR and _CRLF
SOURCE_OUTPUT_EOL_CRLF == 3

\* srcml_unit_create: a unit has no namespaces until one is registered
srcml_unit_create ==
    [encoding |-> << >>, revision |-> << >>, language |-> << >>, filename |-> << >>,
     version |-> << >>, timestamp |-> << >>, hash |-> << >>, attributes |-> << >>,
     namespaces |-> << >>, eol |-> 0]

\* srcml_markup_version_string: a version for each revision, in their order, and
\* none for what is not a language
srcml_markup_version_string(language) ==
    LET versions == [i \in DOMAIN language |->
                        IF language[i] \in langs THEN "version" ELSE language[i]]
    IN  SelectSeq(versions, LAMBDA piece : piece \in {"version", "|"})

\* srcml_unit_set_src_encoding, ..._filename, ..._version, ..._timestamp, ..._hash
srcml_unit_set(u, field, value) == [u EXCEPT ![field] = value]

srcml_unit_set_language(u, language) ==
    [u EXCEPT !.language = language, !.revision = srcml_markup_version_string(language)]

srcml_unit_set_eol(u, eol) ==
    IF eol > SOURCE_OUTPUT_EOL_CRLF THEN u ELSE [u EXCEPT !.eol = eol]

srcml_unit_register_namespace(u, prefix, uri) == addNamespace(u, prefix, uri)

\* srcml_unit_add_attribute: a prefix of the unit or of its archive
srcml_unit_add_attribute(a, u, prefix, name, value) ==
    IF IndexOfPrefix(u, prefix) = 0 /\ IndexOfPrefix(a, prefix) = 0 THEN u
    ELSE addAttribute(u, prefix, name, value)

\* srcml_unit_get_src_encoding, ..._revision, ..._language, ..._filename,
\* ..._version, ..._timestamp, ..._hash and ..._eol
srcml_unit_get(u, field) == u[field]

\* the lists of a unit are read as those of an archive are
srcml_unit_get_attribute_size(u) == Len(u.attributes)
srcml_unit_get_attribute(u, pos) == srcml_archive_get_attribute(u, pos)
srcml_unit_get_namespace_size(u) == Len(u.namespaces)
srcml_unit_get_namespace(u, pos) == srcml_archive_get_namespace(u, pos)

\* srcml_unit_get_prefix_from_uri, ..._get_uri_from_prefix: what only the archive
\* declares is not found
srcml_unit_get_prefix_from_uri(u, uri) == srcml_archive_get_prefix_from_uri(u, uri)
srcml_unit_get_uri_from_prefix(u, prefix) == srcml_archive_get_uri_from_prefix(u, prefix)

-----------------------------------------------------------------------------
(* Writing *)

\* The form of the output is decided with the first unit that is written, or
\* when the archive is closed without one; a unit alone is then not written.
Root(a) == IF a.root # "none" THEN a.root
           ELSE IF srcml_archive_is_solitary_unit(a) THEN "unit" ELSE "archive"

srcml_archive_write_unit(a, unit) ==
    [a EXCEPT !.root = Root(a), !.units = Append(@, unit)]

srcml_archive_close(a) ==
    IF a.units = << >> /\ srcml_archive_is_solitary_unit(a) THEN a
    ELSE [a EXCEPT !.root = Root(a)]
=============================================================================

----------------------------- MODULE SourceText -----------------------------
(***************************************************************************)
(* What the client makes of the name of an input, and of its text before   *)
(* it is parsed: the protocol, the extensions and the range of positions   *)
(* of a name (srcml_input_src; srcml_output_dest is the same class), the   *)
(* escapes of --text, the NULs that separate files, and the YAML header    *)
(* that says what a file was.                                              *)
(*                                                                         *)
(* A name is a protocol ("" if none is given) and the pieces of the rest:  *)
(* names, extensions, "/", "./", ":", "-", "?" and numbers.  A text is a   *)
(* sequence of pieces: characters and words, "NL", "NUL".                  *)
(***************************************************************************)
EXTENDS ArchiveSettings

Uri(protocol, pieces) == [protocol |-> protocol, pieces |-> pieces]

\* format_callsmap, compression_callsmap: some extensions are both
archiveExtensions == {".7z", ".ar", ".cpio", ".iso", ".mtree", ".pax", ".shar",
    ".tar", ".taz", ".tb2", ".tbz", ".tbz2", ".tgz", ".tlz", ".txz", ".xar", ".zip"}
compressionExtensions == {".bz2", ".gz", ".lz", ".lzma", ".taz", ".tb2", ".tbz2",
    ".tgz", ".tlz", ".txz", ".xar", ".xz", ".z"}

is_archive(extension) == extension \in archiveExtensions
is_compressed(extension) == extension \in compressionExtensions

lang2ext == ("C" :> ".c") @@ ("C++" :> ".cpp") @@ ("C#" :> ".cs") @@ ("Java" :> ".java")

language_to_std_extension(language) ==
    IF language \in DOMAIN lang2ext THEN <<lang2ext[language]>> ELSE << >>

\* src_prefix_add_uri: a name without a protocol is that of a file
src_prefix_add_uri(uri) ==
    IF uri.protocol # "" THEN uri
    ELSE IF uri.pieces \in {<<"-">>, <<"/", "dev", "/", "stdin">>}
         THEN Uri("stdin", <<"-">>)
    ELSE Uri("file", uri.pieces)

curl_supported(protocol) == protocol \in {"file", "http", "https"}

-----------------------------------------------------------------------------
(* A range of positions behind the name: LINE:COLUMN-LINE:COLUMN *)

INVALID_POSITION == -1
END_OF_FILE == 1000000      \* INT_MAX

\* a number too large for a position, "big", is not one at all
Number == ("0" :> INVALID_POSITION) @@ ("1" :> 1) @@ ("2" :> 2) @@ ("3" :> 3)
          @@ ("9" :> 9)

\* LINE or LINE:COLUMN
IsPosition(s) ==
    \/ Len(s) = 1 /\ s[1] \in DOMAIN Number
    \/ Len(s) = 3 /\ s[1] \in DOMAIN Number /\ s[2] = ":" /\ s[3] \in DOMAIN Number

LineOf(s) == Number[s[1]]
ColumnOf(s) == IF Len(s) = 3 THEN Number[s[3]] ELSE 0

Slice(line, column, endLine, endColumn) ==
    [line |-> line, column |-> column, endLine |-> endLine, endColumn |-> endColumn]

NoSlice == Slice(0, 0, 0, 0)

\* what stands before and after the first "-" of a suffix
Dash(s) == SelectInSeq(s, LAMBDA piece : piece = "-")
From(s) == IF Dash(s) = 0 THEN s ELSE SubSeq(s, 1, Dash(s) - 1)
Upto(s) == SubSeq(s, Dash(s) + 1, Len(s))

\* parse_suffix: what it takes, and the positions it then gives.  A suffix
\* without a start begins with the first line, one with a dash and no end goes
\* to the end of the file, and one without a dash ends with its line.
IsRange(s) ==
    /\ IsPosition(From(s)) \/ (From(s) = << >> /\ Dash(s) # 0)
    /\ Dash(s) # 0 => IsPosition(Upto(s)) \/ (Upto(s) = << >> /\ From(s) # << >>)

\* mutant: a range without an end ends with its line
ClosedSuffix(s) ==
    LET from == IF From(s) = << >> THEN <<"1">> ELSE From(s)
    IN  IF Dash(s) = 0 \/ Upto(s) = << >>
        THEN Slice(LineOf(from), ColumnOf(from), LineOf(from), 0)
        ELSE Slice(LineOf(from), ColumnOf(from), LineOf(Upto(s)), ColumnOf(Upto(s)))

parse_suffix(s) ==
    LET from == IF From(s) = << >> THEN <<"1">> ELSE From(s)
    IN  IF Dash(s) = 0 THEN Slice(LineOf(from), ColumnOf(from), LineOf(from), 0)
        ELSE IF Upto(s) = << >> THEN Slice(LineOf(from), ColumnOf(from), END_OF_FILE, 0)
        ELSE Slice(LineOf(from), ColumnOf(from), LineOf(Upto(s)), ColumnOf(Upto(s)))

\* The first colon of the name proper that a suffix follows, or 0
SuffixColon(pieces) ==
    LET base == SelectLastInSeq(pieces, LAMBDA piece : piece = "/")
        colons == {i \in (base + 1)..Len(pieces) :
                      pieces[i] = ":" /\ IsRange(SubSeq(pieces, i + 1, Len(pieces)))}
    IN  IF colons = {} THEN 0 ELSE CHOOSE i \in colons : \A j \in colons : i <= j

-----------------------------------------------------------------------------
(* srcml_input_src *)

\* the name without what follows a "?"
WithoutQuery(pieces) ==
    LET query == SelectInSeq(pieces, LAMBDA piece : piece = "?")
    IN  IF query = 0 THEN pieces ELSE SubSeq(pieces, 1, query - 1)

\* what follows the last dot, which need not be an extension
cur_extension(name) ==
    IF LastDot(name) = 0 THEN ""
    ELSE IF LastDot(name) = Len(name) THEN Last(name) ELSE "./"

IsPacked(piece) == is_archive(piece) \/ is_compressed(piece)

\* the name without the extensions at its end that say how the file is packed,
\* and those, the last first
Unpacked(name) == SubSeq(name, 1, SelectLastInSeq(name, LAMBDA piece : ~ IsPacked(piece)))
Behind(name, plainfile) == Reverse(SubSeq(name, Len(plainfile) + 1, Len(name)))

IsDirectory(files, name) == name \in DOMAIN files /\ files[name].kind = "directory"

\* a name without the "./" that it begins with
Cleaned(name) ==
    LET first == SelectInSeq(name, LAMBDA piece : piece # "./")
    IN  IF first = 0 THEN << >> ELSE SubSeq(name, first, Len(name))

\* what is known of an input by its protocol, the name without a range, the
\* range, and the part of the name before the extensions of packing
Source1(files, protocol, resource, slice, plainfile, extension) ==
    [protocol |-> protocol, resource |-> resource, plainfile |-> plainfile, slice |-> slice,
     exists |-> protocol = "file" /\ resource \in DOMAIN files,
     isdirectory |-> protocol = "file" /\ IsDirectory(files, resource),
     isdirectoryform |-> resource # << >> /\ Last(resource) = "/",
     extension |-> extension,
     compressions |-> SelectSeq(Behind(resource, plainfile), is_compressed),
     archives |-> SelectSeq(Behind(resource, plainfile), is_archive),
     state |-> IF protocol # "text" /\ resource = <<"-">> THEN "INDETERMINATE"
               ELSE IF extension \in {".xml", ".srcml"} THEN "SRCML" ELSE "SRC",
     fd |-> protocol \in {"stdin", "stdout"},
     content |-> [kind |-> "source", text |-> << >>],
     unit |-> 0, skip |-> FALSE, prefix |-> << >>]

\* a text and a directory have no extensions
FromPlainfile(files, protocol, resource, slice, plainfile) ==
    Source1(files, protocol, resource, slice, plainfile,
            IF protocol = "text" \/ (protocol = "file" /\ IsDirectory(files, resource)) THEN ""
            ELSE cur_extension(plainfile))

FromResource(files, protocol, resource, slice) ==
    FromPlainfile(files, protocol, resource, slice,
                  IF protocol = "text" \/ (protocol = "file" /\ IsDirectory(files, resource))
                  THEN resource ELSE Unpacked(resource))

FromColon(files, protocol, given, colon) ==
    IF colon = 0 THEN FromResource(files, protocol, given, NoSlice)
    ELSE FromResource(files, protocol, SubSeq(given, 1, colon - 1),
                      parse_suffix(SubSeq(given, colon + 1, Len(given))))

\* a file that is named like a range is that file
FromGiven(files, protocol, given) ==
    FromColon(files, protocol, given,
              IF curl_supported(protocol) /\ ~ (protocol = "file" /\ given \in DOMAIN files)
              THEN SuffixColon(given) ELSE 0)

FromUri(files, uri) ==
    FromGiven(files, uri.protocol,
              IF uri.protocol \in {"text", "filelist", "stdin"} THEN uri.pieces
              ELSE WithoutQuery(uri.pieces))

\* srcml_input_src(std::string_view): the source a name stands for; files is
\* what there is, by name.
InputSrc(files, name) == FromUri(files, src_prefix_add_uri(name))

-----------------------------------------------------------------------------
(* The text of an input *)

\* The parts of a text between its NULs
Split(text) ==
    FoldLeft(LAMBDA parts, piece :
                 IF piece = "NUL" THEN Append(parts, << >>)
                 ELSE [parts EXCEPT ![Len(parts)] = Append(@, piece)],
             << << >> >>, text)

-----------------------------------------------------------------------------
(* The escapes of --text *)

Escaped == ("n" :> "NL") @@ ("t" :> "TAB") @@ ("f" :> "FF") @@ ("a" :> "BEL")
           @@ ("b" :> "BS") @@ ("e" :> "ESC") @@ ("r" :> "CR") @@ ("v" :> "VT")

\* hex2decimal and isodigit
hex2decimal == [d \in {"a", "A"} |-> 10] @@ [d \in {"f", "F"} |-> 15]
               @@ ("0" :> 0) @@ ("1" :> 1) @@ ("2" :> 2) @@ ("4" :> 4) @@ ("7" :> 7)
isodigit(piece) == piece \in {"0", "1", "2", "4", "7"}

\* the characters the model spells, by their codes
Character == (0 :> "NUL") @@ (1 :> "SOH") @@ (7 :> "BEL") @@ (8 :> "BS")
             @@ (9 :> "TAB") @@ (10 :> "NL") @@ (32 :> " ") @@ (65 :> "A")
             @@ (74 :> "J") @@ (102 :> "f") @@ (15 :> "SI") @@ (2 :> "STX")

\* how many of the pieces from i on, at most most, are digits
Digits(raw, i, most, IsDigit(_)) ==
    CHOOSE n \in 0..most :
        /\ \A j \in i..(i + n - 1) : j <= Len(raw) /\ IsDigit(raw[j])
        /\ n = most \/ i + n > Len(raw) \/ ~ IsDigit(raw[i + n])

Coded(raw, i, n, base) ==
    Character[FoldLeft(LAMBDA value, d : hex2decimal[d] + base * value, 0,
                       SubSeq(raw, i, i + n - 1))]

\* the pieces an escape at i takes, and what it gives
Taken(size, pieces) == [size |-> size, pieces |-> pieces]

\* the character behind the backslash says which escape it is; an unknown one
\* stays as it is
Escape(raw, i) ==
    LET next == raw[i + 1]
        hex == Digits(raw, i + 2, 2, LAMBDA d : d \in DOMAIN hex2decimal)
        octal == Digits(raw, i + 1, IF next = "0" THEN 4 ELSE 3, isodigit)
    IN  IF next \in DOMAIN Escaped THEN Taken(2, <<Escaped[next]>>)
        ELSE IF next = "x" /\ hex > 0
             THEN Taken(2 + hex, <<Coded(raw, i + 2, hex, 16)>>)
        ELSE IF isodigit(next) THEN Taken(1 + octal, <<Coded(raw, i + 1, octal, 8)>>)
        ELSE Taken(2, <<"\\", next>>)

\* the text that raw stands for, from its last piece back
Unescaped(raw) ==
    LET text[i \in 1..(Len(raw) + 3)] ==
            IF i > Len(raw) THEN << >>
            ELSE IF raw[i] # "\\" THEN <<raw[i]>> \o text[i + 1]
            ELSE LET taken == Escape(raw, i) IN taken.pieces \o text[i + taken.size]
    IN  text[1]

-----------------------------------------------------------------------------
(* A range of positions: offsets count from 0 *)

\* where a line begins, or the end of a text that has fewer lines
line_start(text, line) ==
    IF line <= 1 THEN 0
    ELSE LET newlines == {i \in DOMAIN text : text[i] = "NL"}
         IN  IF Cardinality(newlines) < line - 1 THEN Len(text)
             ELSE CHOOSE i \in newlines :
                      Cardinality({j \in newlines : j <= i}) = line - 1

\* where the line at an offset ends
line_end(text, offset) ==
    LET newlines == {i \in (offset + 1)..Len(text) : text[i] = "NL"}
    IN  IF newlines = {} THEN Len(text) ELSE Min(newlines) - 1


SliceStart(text, slice) ==
    LET start == line_start(text, slice.line)
    IN  IF slice.column = 0 THEN start
        ELSE Min({start + slice.column - 1, line_end(text, start)})

SliceStop(text, slice) ==
    LET start == line_start(text, slice.endLine)
        eol == line_end(text, start)
    IN  IF slice.endLine = END_OF_FILE THEN Len(text)
        ELSE IF slice.endColumn # 0 THEN Min({start + slice.endColumn, eol})
        ELSE Min({eol + 1, Len(text)})

\* the part of the text a range names, which ends with a newline; a range that
\* begins behind the last line has none
SliceOf(text, slice) ==
    IF slice.line = 0 THEN text
    ELSE IF line_start(text, slice.line) >= Len(text) THEN << >>
    ELSE LET part == SubSeq(text, SliceStart(text, slice) + 1, SliceStop(text, slice))
         IN  IF part # << >> /\ Last(part) = "NL" THEN part ELSE Append(part, "NL")

-----------------------------------------------------------------------------
(* The YAML header *)

\* a name of a language, in pieces and as it is known
Spelled(language) == IF language = "C#" THEN <<"C", "#">> ELSE <<language>>
Joined(pieces) ==
    IF pieces = << >> THEN NONE
    ELSE IF pieces = <<"C", "#">> THEN "C#" ELSE pieces[1]

\* createYAMLNamespace
createYAMLNamespace(ns) ==
    (IF ns.prefix = "" THEN <<"xmlns", ":">>
     ELSE <<"\"", "xmlns", ":", ns.prefix, "\"", ":">>)
    \o <<" ", "\"", ns.uri, "\"", "NL">>

Line(key, value) ==
    IF value = << >> THEN << >>
    ELSE <<key, ":", " ", "\"">> \o value \o <<"\"", "NL">>

AttributeLine(attribute) ==
    <<"\"", attribute.prefix, ":", attribute.name, "\"", ":", " ", "\"">>
    \o attribute.value \o <<"\"", "NL">>

Lines(items, LineOf1(_)) == FoldLeft(LAMBDA text, item : text \o LineOf1(item), << >>, items)

\* mutant: the attributes of the root come behind those of the unit
HeaderRootLast(a, unit, first) ==
    <<"---", "NL">>
    \o Lines(SelectSeq(a.namespaces, LAMBDA ns : ns.uri = "src"), createYAMLNamespace)
    \o Lines(SelectSeq(a.namespaces, LAMBDA ns : ns.uri # "src"), createYAMLNamespace)
    \o Lines(SetToSeq({ns \in unit.namespaces : ns.uri # "src"}), createYAMLNamespace)
    \o (IF first THEN Line("url", a.url) ELSE << >>)
    \o Line("language", IF unit.language = NONE THEN << >> ELSE Spelled(unit.language))
    \o Line("filename", unit.filename)
    \o Line("src_version", unit.version)
    \o Lines(SetToSeq(unit.attributes), AttributeLine)
    \o Lines(a.attributes, AttributeLine)
    \o <<"---", "NL">>

\* createYAMLHeader: the srcML namespace first, then all that is custom, the
\* url with the first unit only
createYAMLHeader(a, unit, first) ==
    <<"---", "NL">>
    \o Lines(SelectSeq(a.namespaces, LAMBDA ns : ns.uri = "src"), createYAMLNamespace)
    \o Lines(SelectSeq(a.namespaces, LAMBDA ns : ns.uri # "src"), createYAMLNamespace)
    \o Lines(SetToSeq({ns \in unit.namespaces : ns.uri # "src"}), createYAMLNamespace)
    \o Lines(a.attributes, AttributeLine)
    \o (IF first THEN Line("url", a.url) ELSE << >>)
    \o Line("language", IF unit.language = NONE THEN << >> ELSE Spelled(unit.language))
    \o Line("filename", unit.filename)
    \o Line("src_version", unit.version)
    \o Lines(SetToSeq(unit.attributes), AttributeLine)
    \o <<"---", "NL">>

\* the places of the two marks of a header, or << >>
HeaderEnd(text) ==
    IF Len(text) > 2 /\ text[1] = "---" /\ text[2] = "NL"
    THEN SelectInSubSeq(text, 3, Len(text), LAMBDA piece : piece = "---")
    ELSE 0

Trimmed(pieces) ==
    LET black == {i \in DOMAIN pieces : pieces[i] # " "}
    IN  IF black = {} THEN << >> ELSE SubSeq(pieces, Min(black), Max(black))

\* without the quotes; one that a comment has cut off is not missed
Unquoted(pieces) ==
    IF pieces # << >> /\ pieces[1] = "\""
    THEN IF Len(pieces) > 1 /\ Last(pieces) = "\"" THEN SubSeq(pieces, 2, Len(pieces) - 1)
         ELSE Tail(pieces)
    ELSE pieces

\* where the key of a line ends: at the first colon behind a quoted key
Separator(line) ==
    LET endKey == IF line # << >> /\ line[1] = "\""
                  THEN SelectInSubSeq(line, 2, Len(line), LAMBDA piece : piece = "\"")
                  ELSE 0
    IN  SelectInSubSeq(line, endKey + 1, Len(line), LAMBDA piece : piece = ":")

\* the lines of a text that end with a newline
FullLines(text) ==
    Front(FoldLeft(LAMBDA lines, piece :
                       IF piece = "NL" THEN Append(lines, << >>)
                       ELSE [lines EXCEPT ![Len(lines)] = Append(@, piece)],
                   << << >> >>, text))

\* what stands before the first "#", even one between quotes
Uncommented(line) ==
    LET comment == SelectInSeq(line, LAMBDA piece : piece = "#")
    IN  IF comment = 0 THEN line ELSE SubSeq(line, 1, comment - 1)

\* parseYAMLHeader: the values by their keys, the last one of each
parseYAMLHeader(text) ==
    FoldLeft(LAMBDA pairs, full :
                 LET line == Uncommented(Trimmed(full))
                     colon == Separator(line)
                 IN  IF colon = 0 THEN pairs
                     ELSE (Unquoted(Trimmed(SubSeq(line, 1, colon - 1))) :>
                               Unquoted(Trimmed(SubSeq(line, colon + 1, Len(line)))))
                          @@ pairs,
             << >>, FullLines(text))

\* A text that begins with a header that names the srcML namespace: what the
\* header says, and what is left
NoHeader(text) == [pairs |-> << >>, text |-> text]

ReadHeader(text) ==
    IF HeaderEnd(text) = 0 THEN NoHeader(text)
    ELSE LET pairs == parseYAMLHeader(SubSeq(text, 3, HeaderEnd(text) - 1))
         IN  IF \E key \in DOMAIN pairs : pairs[key] = <<"src">>
             THEN [pairs |-> pairs, text |-> SubSeq(text, HeaderEnd(text) + 2, Len(text))]
             ELSE NoHeader(text)
=============================================================================

------------------------------ MODULE MCClient ------------------------------
(***************************************************************************)
(* What is run: command lines over a few files.  What is expected of them  *)
(* is put together from the parts, not found by taking the inputs apart.   *)
(***************************************************************************)
EXTENDS Client

Name(stem, extension) == <<stem, extension>>
AC == Name("a", ".c")
BPP == Name("b", ".cpp")
KH == Name("k", ".h")
AXML == Name("a", ".xml")
BXML == Name("b", ".xml")
UXML == Name("u", ".xml")
In(directory, name) == <<directory, "/">> \o name

AText == <<"1", "2", "NL", "3", "NL", "NL", "4">>
BText == <<"b", "NL">>
Entry(name, text) == [name |-> name, isdirectory |-> FALSE, text |-> text]

MCNameOrder == <<In("d", <<".hidden">>), In("d", Name("a", ".c")), In("d", Name("t", ".tar")),
                 In("d", Name("x", ".txt")), <<"d", "/", "e", "/", "j", ".java">>,
                 In("o", AC), In("o", BPP)>>

\* two units, with a namespace and an attribute of their own
Tagged(filename, language, text) ==
    [NoUnit EXCEPT !.filename = filename, !.language = language, !.text = text,
                   !.namespaces = {Namespace("p", "purl")},
                   !.attributes = {Attribute("p", "k", <<"v">>)}]

Plain(filename, language, text) ==
    [NoUnit EXCEPT !.filename = filename, !.language = language, !.text = text]

Archive(units) ==
    [srcml_archive_create EXCEPT !.root = "archive", !.units = units, !.encoding = "UTF-8"]
Solitary(unit) ==
    [srcml_archive_create EXCEPT !.root = "unit", !.units = <<unit>>, !.encoding = "UTF-8",
                                 !.options = @ \ {"ARCHIVE"}]

U1 == Tagged(AC, "C", AText)
U2 == Plain(BPP, "C++", BText)
U3 == Plain(<< >>, "Java", <<"j">>)

World ==
    (AC :> Source(AText)) @@ (BPP :> Source(BText)) @@ (KH :> Source(<<"k">>))
    @@ (Name("list", ".txt") :> Source(<<"#", "no", "NL", " ", "a", ".c", "NL", "NL", "b", ".cpp", "NL">>))
    @@ (<<"t", ".tar", ".gz">> :> Tar(<<[name |-> <<"s", "/">>, isdirectory |-> TRUE, text |-> << >>],
                                      Entry(<<"s", "/", "a", ".c">>, AText),
                                      Entry(Name("x", ".txt"), <<"x">>),
                                      Entry(Name("p", ".py"), <<"p">>)>>))
    @@ (<<"./", "a", ".c">> :> Source(AText))
    @@ (<<"A", ".C">> :> Source(<<"A">>))
    @@ (<<"g", ".c", ".gz">> :> Source(<<"g">>))
    @@ (<<"d">> :> Directory) @@ (<<"o">> :> Directory)
    @@ [name \in {MCNameOrder[1], MCNameOrder[2], MCNameOrder[3], MCNameOrder[4], MCNameOrder[5]} |->
           Source(name)]
    @@ (UXML :> SrcML(Archive(<<U1, U2>>), TRUE))

-----------------------------------------------------------------------------
(* Command lines *)

Input(pieces) == Argument("", "", pieces)
Call(name, value) == [name |-> name, value |-> value]
With(o, pieces) == Argument(o, "", pieces)
Flag(o) == With(o, << >>)
To(name) == With("--output", name)

Scenario(input, pipe, result, asked, expected) ==
    [files |-> World, stdin |-> input, programs |-> pipe, result |-> result,
     asks |-> asked, expected |-> expected]

\* one program that makes a.xml, which has the parts
Converts(arguments_, input, parts) ==
    Scenario(Source(input), <<Srcml(Append(arguments_, To(AXML)))>>, AXML, "parts", parts)

\* inputs with their parts
Whole(name, language) == [argument |-> Input(name), parts |-> <<Part(name, language, World[name].text)>>]

DirectoryParts == <<Part(MCNameOrder[2], "C", MCNameOrder[2]),
                    Part(MCNameOrder[5], "Java", MCNameOrder[5])>>

Inputs1 ==
    {Whole(AC, "C"), Whole(BPP, "C++"), Whole(KH, "C"),
     [argument |-> Input(<<"./", "a", ".c">>), parts |-> <<Part(AC, "C", AText)>>],
     [argument |-> Input(<<"g", ".c", ".gz">>), parts |-> <<Part(Name("g", ".c"), "C", <<"g">>)>>],
     [argument |-> Input(<<"d">>), parts |-> DirectoryParts],
     [argument |-> Input(UXML), parts |-> <<PartOf(U1), PartOf(U2)>>]}

\* an archive with an entry in no language reports it
Lists1 ==
    {[argument |-> With("--files-from", Name("list", ".txt")),
      parts |-> <<Part(AC, "C", AText), Part(BPP, "C++", BText)>>]}

\* One input, two inputs; what stays the same with and without --archive.  An
\* archive alone does not: it is written as several roots, which are no document
\* that the next program could read.
AloneInputs == {i \in Inputs1 : i.argument # Input(UXML)}
OneInput == {Converts(<<i.argument>>, << >>, i.parts) : i \in AloneInputs \cup Lists1}
OneArchived == {Converts(<<Flag("--archive"), i.argument>>, << >>, i.parts) : i \in Inputs1}
SeveralRoots ==
    {[Converts(<<argument>>, << >>, << >>) EXCEPT !.stdin = World[UXML], !.asks = "roots"] :
        argument \in {Input(UXML), Input(<<"-">>)}}
TwoInputs == {Converts(<<i.argument, j.argument>>, << >>, i.parts \o j.parts) :
                  i \in Inputs1, j \in Inputs1 \cup Lists1}

\* a list is taken behind the inputs
ListFirst == {Converts(<<j.argument, i.argument>>, << >>, i.parts \o j.parts) :
                  i \in Inputs1, j \in Lists1}

\* the language, the name and the extensions that are given
Harmless == <<"--quiet", "--output-srcml", "--expand-tabs", "--cpp", "--cpp-markup-if0",
              "--cpp-nomarkup-else", "--no-xml-declaration", "--timestamp", "--timing", "--no-color">>

Given ==
    {Converts(<<Input(KH), With("--language", <<"C++">>)>>, << >>, <<Part(KH, "C++", <<"k">>)>>),
     Converts(<<Input(KH), With("--register-ext", <<"h", "=", "C++">>)>>, << >>,
              <<Part(KH, "C++", <<"k">>)>>),
     Converts(<<With("--register-ext", <<"h", "=", "C++">>), Input(<<"d">>), Input(KH)>>, << >>,
              DirectoryParts \o <<Part(KH, "C++", <<"k">>)>>),
     Converts(<<Input(<<"A", ".C">>)>>, << >>, <<Part(<<"A", ".C">>, "C", <<"A">>)>>),
     Converts(<<Input(AC)>> \o [i \in 1..Len(Harmless) |-> Flag(Harmless[i])] \o <<With("--jobs", <<"2">>)>>,
              << >>, <<Part(AC, "C", AText)>>),
     Converts(<<Input(AC), With("--filename", Name("n", ".java"))>>, << >>,
              <<Part(Name("n", ".java"), "Java", AText)>>),
     Converts(<<Input(<<"t", ".tar", ".gz">>), Flag("--verbose")>>, << >>,
              <<Part(<<"s", "/", "a", ".c">>, "C", AText), Part(Name("p", ".py"), "Python", <<"p">>)>>),
     Converts(<<With("--language", <<"Java">>)>>, AText, <<Part(<< >>, "Java", AText)>>),
     Converts(<<Input(AC), Flag("--position"), Flag("--hash"), With("--tabs", <<"3">>),
                With("--url", <<"u">>), With("--src-version", <<"9">>),
                Argument("--xmlns", "", <<"p", "=", "purl">>)>>, << >>, <<Part(AC, "C", AText)>>)}

-----------------------------------------------------------------------------
(* Ranges of lines and columns, a column of 0 being left out *)

Digit == (1 :> "1") @@ (2 :> "2") @@ (3 :> "3") @@ (9 :> "9")
Places == {1, 2, 3, 9} \X {0, 1, 2, 3, 9}
PlaceText(place) == IF place[2] = 0 THEN <<Digit[place[1]]>>
                    ELSE <<Digit[place[1]], ":", Digit[place[2]]>>
EndPlace == <<1000000, 0>>

\* the line and the column of each character
PlaceOf(text) ==
    [i \in DOMAIN text |->
        LET before == {j \in 1..(i - 1) : text[j] = "NL"}
        IN  <<Cardinality(before) + 1, i - Max(before \cup {0})>>]

LengthOf(text, line) ==
    Cardinality({i \in DOMAIN text : PlaceOf(text)[i][1] = line /\ text[i] # "NL"})

InRange(text, i, from, upto) ==
    LET place == PlaceOf(text)[i]
        column == Min({from[2], LengthOf(text, from[1]) + 1})
    IN  /\ \/ place[1] > from[1]
           \/ place[1] = from[1] /\ place[2] >= column
        /\ \/ place[1] < upto[1]
           \/ /\ place[1] = upto[1]
              /\ upto[2] = 0 \/ (place[2] <= upto[2] /\ text[i] # "NL")

RangeText(text, from, upto) ==
    LET kept == SelectSeq([i \in DOMAIN text |-> i], LAMBDA i : InRange(text, i, from, upto))
        part == [k \in DOMAIN kept |-> text[kept[k]]]
    IN  IF ~ \E i \in DOMAIN text : PlaceOf(text)[i][1] >= from[1] THEN << >>
        ELSE IF part # << >> /\ Last(part) = "NL" THEN part ELSE Append(part, "NL")

Ranged(text, suffix, from, upto) ==
    Converts(<<Input(AC \o <<":">> \o suffix)>>, << >>,
             <<Part(AC, "C", RangeText(text, from, upto))>>)

Forward(from, upto) ==
    \/ from[1] < upto[1]
    \/ from[1] = upto[1] /\ (upto[2] = 0 \/ upto[2] >= Max({1, from[2]}))

Ranges ==
    {Ranged(AText, PlaceText(p[1]) \o <<"-">> \o PlaceText(p[2]), p[1], p[2]) :
        p \in {q \in Places \X Places : Forward(q[1], q[2])}}
    \cup {Ranged(AText, PlaceText(p), p, <<p[1], 0>>) : p \in Places}
    \cup {Ranged(AText, PlaceText(p) \o <<"-">>, p, EndPlace) : p \in Places}
    \cup {Ranged(AText, <<"-">> \o PlaceText(p), <<1, 0>>, p) : p \in Places}

-----------------------------------------------------------------------------
(* --text: the escapes by what they stand for; a short one is followed by  *)
(* what cannot belong to it                                                *)

Escapes ==
    {[raw |-> <<"q">>, text |-> <<"q">>], [raw |-> <<"\\", "n">>, text |-> <<"NL">>],
     [raw |-> <<"\\", "q">>, text |-> <<"\\", "q">>],
     [raw |-> <<"\\", "x", "q">>, text |-> <<"\\", "x", "q">>],
     [raw |-> <<"\\", "x", "4", "1">>, text |-> <<"A">>],
     [raw |-> <<"\\", "x", "f", "q">>, text |-> <<"SI", "q">>],
     [raw |-> <<"\\", "x", "0", "0">>, text |-> <<"NUL">>],
     [raw |-> <<"\\", "1", "0", "1">>, text |-> <<"A">>],
     [raw |-> <<"\\", "0", "1", "0", "1">>, text |-> <<"A">>],
     [raw |-> <<"\\", "2", "q">>, text |-> <<"STX", "q">>],
     [raw |-> <<"\\", "0", "0", "0", "0">>, text |-> <<"NUL">>],
     [raw |-> <<"4">>, text |-> <<"4">>]}

Between(text) ==
    LET nuls == {0} \cup {i \in DOMAIN text : text[i] = "NUL"} \cup {Len(text) + 1}
        ends == SetToSortSeq(nuls, <)
    IN  [k \in 1..(Len(ends) - 1) |-> SubSeq(text, ends[k] + 1, ends[k + 1] - 1)]

PartsBetween(name, language, text) ==
    LET between == Between(text) IN [k \in DOMAIN between |-> Part(name, language, between[k])]

TextOf(raw, text) ==
    Converts(<<With("--text", raw), With("--language", <<"C">>)>>, << >>,
             PartsBetween(<< >>, "C", text))

Texts == {TextOf(e.raw \o f.raw \o g.raw, e.text \o f.text \o g.text) :
              e \in Escapes, f \in Escapes, g \in Escapes}
    \cup {Converts(<<With("--text", <<"q">>), With("--filename", BPP)>>, << >>,
                   <<Part(BPP, "C++", <<"q">>)>>)}

-----------------------------------------------------------------------------
(* Standard input: several files, with and without headers, an archive *)

Mark == <<"---", "NL">>
Pair(key, value) == <<key, ":", " ", "\"", value, "\"", "NL">>
SrcLine == <<"xmlns", ":", " ", "\"", "src", "\"", "NL">>
HeaderOf(language) == Mark \o SrcLine \o Pair("language", language) \o Pair("filename", "f") \o Mark

Stdins ==
    {Converts(<<With("--language", <<"Java">>)>>, text, PartsBetween(<< >>, "Java", text)) :
        text \in {<< >>, BText, <<"q", "NUL">>, <<"NUL", "q">>, <<"q", "NUL", "NUL", "NL">>}}
    \cup {Converts(<<Input(<<"-">>), Input(AC)>>,
                   HeaderOf("C++") \o <<"h">> \o <<"NUL">> \o HeaderOf("Python") \o <<"NL">>,
                   <<Part(<<"f">>, "C++", <<"h">>), Part(<<"f">>, "Python", <<"NL">>),
                     Part(AC, "C", AText)>>),
           \* a header that does not name srcML is text
           Converts(<<With("--language", <<"C">>)>>, Mark \o Pair("language", "C++") \o Mark,
                    <<Part(<< >>, "C", Mark \o Pair("language", "C++") \o Mark)>>),
           Scenario(World[<<"t", ".tar", ".gz">>], <<Srcml(<<To(AXML), Flag("--verbose")>>)>>, AXML,
                    "refused", << >>),
           Scenario(World[UXML], <<Srcml(<<Input(<<"-">>), Flag("--output-srcml"), To(AXML)>>)>>,
                    AXML, "parts", <<PartOf(U1), PartOf(U2)>>)}

-----------------------------------------------------------------------------
(* Archives that are written as source code and read again *)

Again(first, language) ==
    Scenario(Nothing,
             <<Srcml(Append(first, To(AXML))),
               Srcml(<<Input(AXML), Flag("--output-src"), Flag("--header")>>),
               Srcml(<<Input(<<"-">>), To(BXML)>> \o language)>>,
             BXML, "again", AXML)

\* archives with attributes on the root, which a unit has as well, or has not
VXML == Name("v", ".xml")
Rooted(units, attributes) ==
    SrcML([Archive(units) EXCEPT !.namespaces = @ \o <<Namespace("p", "purl"), Namespace("m", "murl")>>,
                                 !.attributes = attributes, !.url = <<"w">>], TRUE)

AgainFrom(content) ==
    [Scenario(Nothing,
              <<Srcml(<<Input(VXML), Flag("--output-src"), Flag("--header")>>),
                Srcml(<<Input(<<"-">>), To(BXML)>>)>>,
              BXML, "again", VXML)
     EXCEPT !.files = (VXML :> content) @@ @]

OfRoot == {Attribute("m", "k", <<"7">>), Attribute("p", "k", <<"7">>), Attribute("p", "l", <<"8">>)}
FromRoots ==
    {AgainFrom(Rooted(units, SetToSeq(attributes))) :
        units \in {<<U1, U2>>, <<U2, U1, U2>>, <<U1>>}, attributes \in SUBSET OfRoot}

RoundTrips ==
    FromRoots
    \cup {Again(<<i.argument, Flag("--archive")>>, << >>) : i \in Inputs1}
    \cup {Again(<<i.argument>>, << >>) : i \in AloneInputs}
    \cup {Again(<<i.argument, Input(UXML), With("--url", <<"w">>)>>, << >>) : i \in Inputs1}
    \cup {Again(<<Input(AC), Input(UXML)>>, <<With("--language", <<"Java">>)>>),
           Again(<<Input(AC), With("--url", <<"w">>), Flag("--position"), With("--tabs", <<"3">>)>>, << >>),
           Again(<<Input(UXML), With("--unit", <<"1">>), Flag("--output-srcml")>>, << >>),
           Again(<<With("--text", <<"q", "\\", "0", "\\", "n">>), With("--language", <<"C">>)>>, << >>)}

-----------------------------------------------------------------------------
(* The parts of u.xml by other ways: an archive of source files, compressed *)
(* srcML, a directory, files of their own                                   *)

Ways(first, second) ==
    Scenario(Nothing, <<Srcml(first), Srcml(Append(second, To(AXML)))>>, AXML, "parts",
             <<Part(AC, "C", AText), Part(BPP, "C++", BText)>>)

Out == <<"o">>
Below1(part) == [part EXCEPT !.filename = In("o", @)]

OtherWays ==
    {Ways(<<Input(UXML), To(<<"s", ".tar">>)>>, <<Input(<<"s", ".tar">>)>>),
     Ways(<<Input(UXML), Flag("--archive"), Flag("--output-srcml"), To(<<"s", ".xml", ".gz">>)>>,
          <<Input(<<"s", ".xml", ".gz">>), Flag("--archive")>>),
     Ways(<<Input(AC), Input(BPP), With("--to-dir", <<"o">>)>>,
          <<Input(In("o", <<"a", ".c", ".xml">>)), Input(In("o", <<"b", ".cpp", ".xml">>))>>),
     Ways(<<Input(UXML), Flag("--output-src"), Flag("--print0")>>,
          <<Input(AC), Input(BPP)>>),
     Scenario(Nothing, <<Srcml(<<Input(UXML), To(Out)>>), Srcml(<<Input(Out), To(AXML)>>)>>,
              AXML, "parts",
              <<Below1(Part(AC, "C", AText)), Below1(Part(BPP, "C++", BText))>>),
     Scenario(Nothing, <<Srcml(<<Input(UXML), With("--unit", <<"2">>), To(Name("z", ".cpp"))>>),
                         Srcml(<<Input(Name("z", ".cpp")), To(AXML)>>)>>,
              AXML, "parts", <<Part(Name("z", ".cpp"), "C++", BText)>>),
     Scenario(Nothing, <<Srcml(<<Input(BPP), To(<<"w", ".xml">>)>>),
                         Srcml(<<Input(<<"w", ".xml">>), To(<<"w", ".cpp", ".gz">>)>>),
                         Srcml(<<Input(<<"w", ".cpp", ".gz">>), To(AXML)>>)>>,
              AXML, "parts", <<Part(<<"w", ".cpp">>, "C++", BText)>>),
     Scenario(Nothing, <<Srcml(<<Input(UXML), With("--unit", <<"2">>), To(AXML), Flag("--output-srcml")>>)>>,
              AXML, "parts", <<PartOf(U2)>>)}

-----------------------------------------------------------------------------
(* What is shown of an archive *)

Shown(content, options, expected) ==
    [Scenario(content, <<Srcml(<<Input(<<"-">>)>> \o options)>>, << >>, "shown", expected)
     EXCEPT !.files = World]

Whole2 == SrcML([Archive(<<U1, U2, U3>>) EXCEPT !.url = <<"w">>], TRUE)
One1 == SrcML(Solitary(U1), TRUE)
Empty0 == SrcML(Archive(<< >>), TRUE)
Tagged1 == <<"xmlns", "=\"", "src", "\"", "NL", "encoding", "=\"", "UTF-8", "\"", "NL">>
Template == <<"%", "U", " ", "{", " ", "%", "i", "%", "f", ":", "%", "l", "NL", " ", "}", " ", "%", "C">>

Shows ==
    {Shown(Whole2, <<Flag("--show-filename")>>, AC \o <<"NL">> \o BPP \o <<"NL">>),
     Shown(Whole2, <<Flag("--show-language")>>, <<"C", "NL", "C++", "NL", "Java", "NL">>),
     Shown(Whole2, <<Flag("--show-url")>>, <<"w", "NL">>),
     Shown(Whole2, <<Flag("--show-encoding")>>, <<"UTF-8", "NL">>),
     Shown(Whole2, <<Flag("--show-hash")>>, << >>),
     Shown(Whole2, <<Flag("--show-timestamp")>>, << >>),
     Shown(Whole2, <<Flag("--show-src-version")>>, << >>),
     Shown(Empty0, <<Flag("--show-language")>>, << >>),
     Shown(Whole2, <<Flag("--show-language"), Flag("--show-filename")>>,
           <<"filename", "=\"">> \o AC \o <<"\"", "NL", "language", "=\"", "C", "\"", "NL",
             "filename", "=\"">> \o BPP \o <<"\"", "NL", "language", "=\"", "C++", "\"", "NL",
             "filename", "=\"", "\"", "NL", "language", "=\"", "Java", "\"", "NL">>),
     Shown(Whole2, <<Flag("--show-unit-count")>>, <<"3", "NL">>),
     Shown(Whole2, <<With("--show-prefix", <<"src">>)>>, <<"", "NL">>),
     Shown(Whole2, <<With("--show-prefix", <<"cpp">>)>>, << >>),
     \* a unit that is the root declares its namespaces there
     Shown(One1, <<Flag("--info")>>,
           <<"xmlns", "=\"", "src", "\"", "NL", "xmlns", ":", "p", "=\"", "purl", "\"", "NL",
             "encoding", "=\"", "UTF-8", "\"", "NL", "language", "=\"", "C", "\"", "NL", "filename", "=\"">>
                                             \o AC \o <<"\"", "NL">>),
     Shown(Whole2, <<Flag("--full-info")>>, Tagged1 \o <<"url", "=\"", "w", "\"", "NL",
                                                        "units", "=\"", "3", "\"", "NL">>),
     Shown(Whole2, <<Flag("--list")>>,
           <<"UTF-8", "NL", "1", "C">> \o AC \o <<"NL", "2", "C++">> \o BPP
               \o <<"NL", "3", "Java", "NL", "units: ", "3", "NL">>),
     Shown(Whole2, <<With("--pretty", Template)>>,
           <<"w", "0">> \o AC \o <<":", "C", "NL", "1">> \o BPP \o <<":", "C++", "NL", "2", ":", "Java", "NL", "3">>),
     Shown(Whole2, <<With("--pretty", <<"%", "N", ":", "u", "NL">>)>>,
           <<"src", "NL", "src", "NL", "src", "NL">>),
     Shown(Whole2, <<Flag("--output-src"), Flag("--print0")>>,
           AText \o <<"NUL">> \o BText \o <<"NUL", "j">>),
     Shown(Whole2, <<Flag("--output-src")>>, AText \o <<"NL", "NL">> \o BText \o <<"j", "NL">>),
     Shown(Whole2, <<Flag("--output-src"), With("--unit", <<"2">>), With("--eol", <<"crlf">>)>>,
           <<"b", "CR", "NL">>),
     Shown(One1, <<Flag("--output-src"), With("--eol", <<"cr">>)>>,
           <<"1", "2", "CR", "3", "CR", "CR", "4">>)}

-----------------------------------------------------------------------------
(* Command lines that cannot be followed *)

Refusal(arguments_) == Converts(arguments_, << >>, << >>)
RefusedOnes ==
    {[s EXCEPT !.asks = "refused"] : s \in
        {Refusal(<<Input(AC), With(o[1], o[2])>>) : o \in
            {<<"--language", <<"x">>>>, <<"--tabs", <<"9">>>>, <<"--xml-encoding", <<"x">>>>,
             <<"--eol", <<"x">>>>, <<"--files-from", << >>>>, <<"--files-from", <<"none">>>>,
             <<"--text", <<"-">>>>, <<"--text", <<"q">>>>,
             <<"--register-ext", <<"h", "=", "x">>>>, <<"--to-dir", <<"o">>>>,
             <<"--xslt-param", <<"n", "=", "v">>>>, <<"--xmlns", <<"other">>>>,
             <<"--attribute", <<"p", ":", "k", "=", "v">>>>,
             <<"--element", <<"p", ":", "e">>>>}}
        \cup {Refusal(<<Input(AC), Flag("--output-src"), Flag("--output-srcml")>>),
              Refusal(<<Input(AC), With("--url", <<"1">>), With("--url", <<"2">>)>>),
              Refusal(<<Input(AC), Input(KH), With("--filename", BPP)>>),
              Refusal(<<Input(Name("missing", ".c"))>>),
              Refusal(<<Input(Name("missing", ".c")), With("--xpath", <<"q">>), With("--srcql", <<"q">>),
                        With("--element", <<"p", ":", "e">>), With("--attribute", <<"k", "=", "v">>),
                        With("--xslt-param", <<"n", "=", "v">>), Input(Name("s", ".xsl")),
                        With("--xslt", <<"s">>), With("--relaxng", <<"s">>), Input(Name("s", ".rng"))>>),
              Refusal(<<Input(AC), With("--xpath", <<"q">>), With("--attribute", <<"k", "=", "v">>)>>),
              Refusal(<<Input(AC), With("--xpath", <<"q">>), With("--element", <<"e">>)>>),
              Refusal(<<Input(Name("missing", ".txt"))>>),
              Refusal(<<Input(Name("missing", ".xml"))>>),
              Refusal(<<Input(Name("missing", ".xml")), Input(AC)>>),
              Refusal(<<Input(AC \o <<":", "0">>)>>),
              Refusal(<<Input(AC \o <<":", "2", "-", "1">>)>>),
              Refusal(<<Input(AC \o <<":", "1", ":", "3", "-", "1", ":", "2">>)>>),
              Refusal(<<Input(UXML \o <<":", "1">>)>>),
              Refusal(<<Input(<<"d", ":", "1">>)>>),
              Refusal(<<Input(<<"t", ".tar", ".gz">>)>>),
              Refusal(<<Input(<<"-">>)>>),
              Refusal(<<Input(UXML), With("--unit", <<"9">>)>>),
              Scenario(Nothing, <<Srcml(<<Input(UXML), Flag("--output-src"), With("--unit", <<"9">>)>>)>>,
                       << >>, "refused", << >>),
              Scenario(Nothing, <<Srcml(<<Input(UXML), Input(UXML), To(Name("z", ".cpp"))>>)>>,
                       << >>, "refused", << >>),
              Scenario(Nothing, <<Srcml(<<Input(Name("missing", ".xml")), Flag("--show-language")>>)>>,
                       << >>, "refused", << >>),
              Scenario(Whole2, <<Srcml(<<Input(<<"-">>), With("--pretty", <<"{", " ">>)>>)>>,
                       << >>, "refused", << >>),
              Scenario(Whole2, <<Srcml(<<Input(<<"-">>), With("--pretty", <<"%", "C">>)>>)>>,
                       << >>, "refused", << >>)}}

-----------------------------------------------------------------------------
(* srcML with options on its root, read in each way there is *)

Marked(option_, last) ==
    [Scenario(Nothing, <<Srcml(<<Input(AC), Flag(option_), To(AXML)>>), last>>, << >>, "parts", << >>)
     EXCEPT !.asks = "endless"]

EndlessOnes ==
    {Marked(o, Srcml(<<Input(AXML)>> \o more)) :
        o \in {"--cpp-markup-if0", "--cpp-nomarkup-else"},
        more \in {<<Flag("--output-src")>>, <<Flag("--show-language")>>,
                  <<Flag("--archive"), To(BXML)>>}}
    \cup {Marked("--cpp-markup-if0", Library(<<Call("srcml", <<AXML, BPP>>)>>)),
           [Scenario(Nothing, <<Srcml(<<Input(AC), Flag("--cpp-markup-if0"), Flag("--show-language")>>)>>,
                     << >>, "parts", << >>) EXCEPT !.asks = "endless"]}

-----------------------------------------------------------------------------
(* The library alone *)

Through(calls, from, part) ==
    Scenario(Nothing, <<Library(Append(calls, Call("srcml", <<from, AXML>>)))>>, AXML, "parts", <<part>>)

Libraries ==
    {Through(<< >>, AC, Part(AC, "C", AText)),
     Through(<< >>, <<"A", ".C">>, Part(<<"A", ".C">>, "C++", <<"A">>)),
     Through(<<Call("srcml_set_language", "C++")>>, KH, Part(KH, "C++", <<"k">>)),
     Through(<<Call("srcml_set_filename", BPP), Call("srcml_set_src_encoding", "UTF-8"),
               Call("srcml_set_xml_encoding", "UTF-8"), Call("srcml_set_url", <<"w">>),
               Call("srcml_set_version", <<"9">>), Call("srcml_set_eol", <<"lf">>),
               Call("srcml_set_options", {"POSITION"}), Call("srcml_enable_option", "CPP"),
               Call("srcml_disable_option", "POSITION"), Call("srcml_set_tabstop", 4),
               Call("srcml_register_file_extension", <<".user", "C++">>),
               Call("srcml_register_namespace", <<"p", "purl">>),
               Call("srcml_set_processing_instruction", <<"t", "d">>)>>, AC,
             Part(BPP, "C", AText)),
     Scenario(Nothing, <<Library(<<Call("srcml", <<BPP, AXML>>), Call("srcml", <<AXML, Name("z", ".cpp")>>)>>),
                         Srcml(<<Input(Name("z", ".cpp")), To(AXML)>>)>>,
              AXML, "parts", <<Part(Name("z", ".cpp"), "C++", BText)>>)}

\* what was set last is what is read, except the options that are internal
Settled ==
    {Scenario(Nothing, <<Library(calls \o asked.calls)>>, << >>, "shown", asked.answer) :
        calls \in {<<Call("srcml_register_namespace", <<"p", "purl">>),
                    Call("srcml_register_namespace", <<"q", "purl">>),
                    Call("srcml_register_namespace", <<"cpp", "cpp">>),
                    Call("srcml_register_namespace", <<"err", "err">>),
                    Call("srcml_add_attribute", <<"q", "k", "v">>),
                    Call("srcml_add_attribute", <<"none", "k", "v">>),
                    Call("srcml_add_attribute", <<"q", "k", "w">>),
                    Call("srcml_archive_register_macro", <<"t", "type">>),
                    Call("srcml_archive_register_macro", <<"t", "name">>),
                    Call("srcml_set_options", {"POSITION", "ARCHIVE"}),
                    Call("srcml_enable_option", "EXPAND_TABS"),
                    Call("srcml_enable_option", "CPP"),
                    Call("srcml_disable_option", "POSITION"),
                    Call("srcml_register_namespace", <<"pos", "pos">>),
                    Call("srcml_set_filename", <<"f">>),
                    Call("srcml_set_url", <<"u">>), Call("srcml_set_url", <<"w">>)>>},
        asked \in
            {[calls |-> <<Call("srcml_get_prefix_from_uri", "purl"),
                          Call("srcml_get_prefix_from_uri", "none"),
                          Call("srcml_get_uri_from_prefix", "q"),
                          Call("srcml_get_uri_from_prefix", "p"),
                          Call("srcml_get_size", "namespaces"), Call("srcml_get_size", "attributes"),
                          Call("srcml_get_filename", NONE),
                          Call("srcml_archive_get_macro_token_type", "t"),
                          Call("srcml_archive_get_macro_token_type", "n")>>,
              answer |-> <<"q", NONE, "purl", NONE, "5", "1", "f", "name", NONE>>],
             [calls |-> <<Call("srcml_get_attribute", 0), Call("srcml_get_attribute", 1)>>,
              answer |-> <<"k", "w">>],
             [calls |-> <<Call("srcml_get_namespace", 1)>>, answer |-> <<"q", "purl">>],
             [calls |-> <<Call("srcml_get_url", NONE), Call("srcml_get_language", NONE)>>, answer |-> <<"w", NONE>>],
             [calls |-> <<Call("srcml_get_options", NONE)>>, answer |-> <<"POSITION", "CPP">>],
             [calls |-> <<Call("srcml_set_processing_instruction", <<"t", "d">>),
                          Call("srcml_archive_get_macro", 0), Call("srcml_archive_get_macro", 1),
                          Call("srcml_get_processing_instruction", NONE)>>,
              answer |-> <<"t", "name", "t", "d">>]}}

\* the same of a unit, whose archive has the prefix a
SettledUnits ==
    {Scenario(Nothing, <<Library(calls \o asked.calls)>>, << >>, "shown", asked.answer) :
        calls \in {<<Call("srcml_register_namespace", <<"a", "aurl">>),
                    Call("srcml_unit_add_attribute", <<"a", "k", "1">>),
                    Call("srcml_unit_add_attribute", <<"u", "k", "2">>),
                    Call("srcml_unit_register_namespace", <<"p", "purl">>),
                    Call("srcml_unit_register_namespace", <<"u", "uurl">>),
                    Call("srcml_unit_register_namespace", <<"q", "purl">>),
                    Call("srcml_unit_add_attribute", <<"u", "k", "3">>),
                    Call("srcml_unit_add_attribute", <<"p", "k", "4">>),
                    Call("srcml_unit_add_attribute", <<"a", "k", "5">>),
                    Call("srcml_unit_set_language", <<"Java", "|", "x", "|", "C++">>),
                    Call("srcml_unit_set", <<"filename", <<"f">>>>),
                    Call("srcml_unit_set", <<"timestamp", <<"now">>>>),
                    Call("srcml_unit_set", <<"hash", <<"h">>>>),
                    Call("srcml_unit_set_eol", 3), Call("srcml_unit_set_eol", 4)>>},
        asked \in
            {[calls |-> <<Call("srcml_unit_get_attribute_size", NONE),
                          Call("srcml_unit_get_attribute", 0), Call("srcml_unit_get_attribute", 1),
                          Call("srcml_unit_get_attribute", 2)>>,
              answer |-> <<"2", "k", "5", "k", "3">>],
             [calls |-> <<Call("srcml_unit_get_namespace_size", NONE),
                          Call("srcml_unit_get_namespace", 0), Call("srcml_unit_get_namespace", 1),
                          Call("srcml_unit_get_namespace", 2),
                          Call("srcml_unit_get_prefix_from_uri", "purl"),
                          Call("srcml_unit_get_prefix_from_uri", "aurl"),
                          Call("srcml_unit_get_uri_from_prefix", "u"),
                          Call("srcml_unit_get_uri_from_prefix", "p"),
                          Call("srcml_unit_get_uri_from_prefix", "a")>>,
              answer |-> <<"2", "q", "purl", "u", "uurl", "q", NONE, "uurl", NONE, NONE>>],
             [calls |-> <<Call("srcml_unit_get", "language"), Call("srcml_unit_get", "revision"),
                          Call("srcml_unit_get", "filename"), Call("srcml_unit_get", "encoding"),
                          Call("srcml_unit_get", "timestamp"), Call("srcml_unit_get", "hash"),
                          Call("srcml_unit_get_eol", NONE)>>,
              answer |-> <<"Java", "|", "x", "|", "C++", "version", "|", "|", "version", "f",
                           "now", "h", "3">>]}}

Version == {Scenario(Nothing, <<Srcml(<<Flag("--version")>>)>>, << >>, "shown", <<"versions", "NL">>)}

MCScenarios ==
    OneInput \cup SeveralRoots \cup OneArchived \cup TwoInputs \cup ListFirst \cup Given \cup Ranges \cup Texts
    \cup Stdins \cup RoundTrips \cup OtherWays \cup Shows \cup RefusedOnes \cup EndlessOnes \cup Libraries \cup Settled
    \cup SettledUnits \cup Version
MCProcessors == 4
=============================================================================

--------------------------- MODULE UTF8CharBuffer ---------------------------
(***************************************************************************)
(* UTF8CharBuffer: the characters of a source file for the lexer, one byte *)
(* of UTF-8 at a time, with newlines in one form, whatever the encoding of *)
(* the file and however many bytes each read of it returns.                *)
(*                                                                         *)
(* A byte is a name: "a" is any ASCII character but a newline, NUL, CR and *)
(* LF are themselves, L2 and L3 start a sequence of two and of three bytes *)
(* in UTF-8 and C continues one, XX does neither; EF, BB, BF, FE and FF    *)
(* are the bytes of byte order marks, and P, Q and S are the bytes of      *)
(* UTF-16 that are none of these, S with an error.  A character given is a *)
(* byte in a tuple of its own or, converted by iconv from what is not      *)
(* ASCII, the bytes it was converted from with the number of a byte of its *)
(* UTF-8.                                                                  *)
(*                                                                         *)
(* The file is described by the characters in it, sequences of bytes, and  *)
(* by its encoding; `given` is the name of the encoding the buffer is told *)
(* when it is made, "" for none.  A buffer is made from a name, from memory, *)
(* from a FILE, from a descriptor or from callbacks of the user (`from`);  *)
(* `there` says that the file can be opened, or the pointer, descriptor or *)
(* callback is one; `context` that what is opened is not the descriptor 0  *)
(* or a null context; `close` that the user has a callback to close.       *)
(***************************************************************************)
EXTENDS Integers, Sequences, SequencesExt, TLC

CONSTANTS Sources,      \* the files: [bom, encoding, text, given, from,
                        \* there, context, close]
          SRCBUFSIZE,   \* the most bytes of one read
          MinFirst      \* the least bytes of the first read of a longer file

VARIABLES source,       \* the file
          offset,       \* how much of it has been read
          hashed,       \* the bytes hashed
          buffer,       \* the fields of UTF8CharBuffer
          pc,           \* "new", "get", "give", "eof" or "gone"
          failed,       \* "no", or what ended the input: "read" or "data"
          chars,        \* the characters given
          closed,       \* how often the file was closed, if it is open
          hash          \* what the user finds as the hash: none, << >>, or the
                        \* bytes it is over in a tuple

vars == <<source, offset, hashed, buffer, pc, failed, chars, closed, hash>>

Ascii == {"a", "NUL", "CR", "LF"}
NUL == <<"NUL">>
CR == <<"CR">>
LF == <<"LF">>
Continuation == {"C", "BB", "BF"}

boms == << [encoding |-> "UTF-8", generic |-> "UTF-8", mark |-> <<"EF", "BB", "BF">>],
           [encoding |-> "UTF-32LE", generic |-> "UTF-32",
            mark |-> <<"FF", "FE", "NUL", "NUL">>],
           [encoding |-> "UTF-32BE", generic |-> "UTF-32",
            mark |-> <<"NUL", "NUL", "FE", "FF">>],
           [encoding |-> "UTF-16LE", generic |-> "UTF-16", mark |-> <<"FF", "FE">>],
           [encoding |-> "UTF-16BE", generic |-> "UTF-16", mark |-> <<"FE", "FF">>] >>

Bytes(s) == s.bom \o FlattenSeq(s.text)

IsMark(raw, bom) == IsPrefix(bom.mark, raw)

\* Reads return something.  A first read of nothing but a byte order mark, with
\* more of the file to follow, is not looked at: nothing is left of it to be
\* converted, and readChars then returns 0, which getChar takes for the end
\* of the input.
ASSUME ReadAssumption ==
    /\ SRCBUFSIZE \in Nat \ {0} /\ MinFirst \in Nat \ {0}
    /\ \A s \in Sources :
        /\ Bytes(s) \in Seq(STRING)
        /\ \A i \in DOMAIN boms :
            IsMark(Bytes(s), boms[i]) /\ MinFirst <= Len(boms[i].mark) =>
                Bytes(s) = boms[i].mark

-----------------------------------------------------------------------------
(* iconv *)

Width(encoding) ==
    CASE encoding \in {"UTF-16LE", "UTF-16BE"} -> 2
      [] encoding \in {"UTF-32LE", "UTF-32BE"} -> 4
      [] OTHER -> 1

BigEndian == {"UTF-16BE", "UTF-32BE"}

\* how many bytes of UTF-8 the character of a unit takes
Utf8Length(unit) == IF Len(unit) = 1 THEN 2 ELSE 3

\* the UTF-8 of one unit of an encoding that is not UTF-8 itself
Utf8(encoding, unit) ==
    LET w == Len(unit)
        low == IF encoding \in BigEndian THEN unit[w] ELSE unit[1]
        high == IF encoding \in BigEndian THEN Front(unit) ELSE Tail(unit)
    IN IF low \in Ascii /\ (w = 1 \/ ToSet(high) = {"NUL"}) THEN << <<low>> >>
       ELSE [i \in 1..Utf8Length(unit) |-> Append(unit, ToString(i))]

Unit(encoding, raw, i) ==
    LET w == Width(encoding) IN SubSeq(raw, (i - 1) * w + 1, i * w)

\* all whole units are converted, what is left of the last one is not
Convert(encoding, raw) ==
    LET n == Len(raw) \div Width(encoding)
    IN [cooked |-> FlattenSeq([i \in 1..n |->
                        Utf8(encoding, Unit(encoding, raw, i))]),
        left |-> SubSeq(raw, n * Width(encoding) + 1, Len(raw)),
        illegal |-> encoding # "ISO-8859-1" /\ "S" \in ToSet(raw)]

-----------------------------------------------------------------------------
(* What an encoding is guessed from *)

\* the positions in a group of four that NUL bytes are in nearly all of the
\* time, and those they are nearly never in
wideEncoding(raw) ==
    LET groups == Len(raw) \div 4
        few == groups \div 4
        nul(k) == Len(SelectSeq([i \in DOMAIN raw |->
                            (i - 1) % 4 = k /\ raw[i] = "NUL"], LAMBDA x : x))
        Data(ks) == /\ \A k \in ks : nul(k) <= few
                    /\ \A k \in (0..3) \ ks : nul(k) >= groups - few
    IN CASE Len(raw) < 4 -> ""
         [] Len(raw) >= 4 /\ Data({0}) -> "UTF-32LE"
         [] Len(raw) >= 4 /\ Data({3}) -> "UTF-32BE"
         [] Len(raw) >= 4 /\ Data({0, 2}) -> "UTF-16LE"
         [] Len(raw) >= 4 /\ Data({1, 3}) -> "UTF-16BE"
         [] OTHER -> ""

Following(b) ==
    CASE b = "L2" -> 1
      [] b \in {"L3", "EF"} -> 2
      [] OTHER -> 0

\* mutant: data that starts inside a character is not valid
ContinuedNever(raw) == 0

\* the bytes at the start that may belong to what was read before
Continued(raw) ==
    CHOOSE n \in 0..3 :
        /\ \A i \in 1..n : i <= Len(raw) /\ raw[i] \in Continuation
        /\ n = 3 \/ n = Len(raw) \/ raw[n + 1] \notin Continuation

\* where the sequence that byte i is part of would have to start; a sequence
\* that the end of the data cuts off is not looked at
validUTF8(raw, continued) ==
    LET from == IF continued THEN Continued(raw) ELSE 0
        Step(i) == IF i > Len(raw) THEN i ELSE i + 1 + Following(raw[i])
        starts[n \in 0..Len(raw)] ==
            IF n = 0 THEN from + 1 ELSE Step(starts[n - 1])
        Whole(i) == i + Following(raw[i]) <= Len(raw)
        Good(i) == /\ raw[i] \in Ascii \cup {"L2", "L3", "EF"}
                   /\ Whole(i) => \A j \in 1..Following(raw[i]) :
                                    raw[i + j] \in Continuation
        \* the first start that is not good, or is cut off, ends the scan
        Stops(n) == starts[n] > Len(raw) \/ ~ Good(starts[n])
                        \/ ~ Whole(starts[n])
        last == CHOOSE n \in 0..Len(raw) :
                    Stops(n) /\ \A k \in 0..(n - 1) : ~ Stops(k)
    IN starts[last] > Len(raw) \/ Good(starts[last])

compatibleEncodings(e, f) == e = f

-----------------------------------------------------------------------------
(* The name of the encoding that is given *)

\* toupper, of the names that are not in capitals
Capitals == [name \in {"utf8", "utf-8"} |-> IF name = "utf8" THEN "UTF8" ELSE "UTF-8"]

encodingAliases ==
    [n \in {"UTF8", "CSUTF8"} |-> "UTF-8"]
    @@ [n \in {"UTF16", "CSUTF16"} |-> "UTF-16"]
    @@ [n \in {"UTF16LE", "CSUTF16LE"} |-> "UTF-16LE"]
    @@ [n \in {"UTF16BE", "CSUTF16BE"} |-> "UTF-16BE"]
    @@ [n \in {"UTF32", "CSUTF32"} |-> "UTF-32"]
    @@ [n \in {"UTF32LE", "CSUTF32LE"} |-> "UTF-32LE"]
    @@ [n \in {"UTF32BE", "CSUTF32BE"} |-> "UTF-32BE"]
    @@ ("UCS2" :> "UCS-2") @@ ("UCS4" :> "UCS-4")

normalizeEncodingName(name) ==
    LET str == IF name \in DOMAIN Capitals THEN Capitals[name] ELSE name
    IN IF str \in DOMAIN encodingAliases THEN encodingAliases[str] ELSE str

-----------------------------------------------------------------------------
(* readChars *)

NewBuffer ==
    [raw |-> << >>, cooked |-> << >>, pos |-> 0, insize |-> 0,
     inbytesleft |-> << >>, encoding |-> "", trivial |-> FALSE,
     detected |-> FALSE, firstRead |-> TRUE, lastcr |-> FALSE,
     lastchar |-> NUL, loc |-> 0]

Init ==
    /\ source \in Sources
    /\ offset = 0 /\ hashed = << >> /\ chars = << >>
    /\ buffer = [NewBuffer EXCEPT !.encoding = normalizeEncodingName(source.given)]
    /\ pc = "new" /\ failed = "no"
    /\ closed = 0 /\ hash = << >>

\* The conversion is one that iconv knows, as every one used here: iconv_open
\* failing, which ends the input with a message, is left out.
setEncoding(b, encoding) ==
    [b EXCEPT !.encoding = encoding, !.trivial = encoding = "UTF-8"]

setFallbackEncoding(b) ==
    [setEncoding(b, "ISO-8859-1") EXCEPT !.detected = FALSE]

\* a BOM is skipped, and names the encoding that was not given
SkipBOM(b) ==
    IF \A i \in DOMAIN boms : ~ IsMark(b.raw, boms[i]) THEN b
    ELSE LET bom == boms[SelectInSeq(boms, LAMBDA x : IsMark(b.raw, x))]
         IN [b EXCEPT !.pos = Len(bom.mark),
                      !.encoding = IF @ = "" \/ compatibleEncodings(@, bom.generic)
                                   THEN bom.encoding ELSE @]

Detect(b) ==
    IF b.encoding # "" THEN b
    ELSE IF wideEncoding(b.raw) # ""
    THEN [b EXCEPT !.encoding = wideEncoding(b.raw)]
    ELSE [b EXCEPT !.detected = validUTF8(b.raw, FALSE),
                   !.encoding = IF validUTF8(b.raw, FALSE) THEN "UTF-8"
                                ELSE "ISO-8859-1"]

\* the byte order mark of data to be converted is not converted
Unmarked(b) ==
    IF b.trivial THEN b
    ELSE [b EXCEPT !.raw = SubSeq(@, b.pos + 1, Len(@)), !.pos = 0]

Encoded(b) == Unmarked(setEncoding(b, b.encoding))

FirstRead(b) == Encoded(Detect(SkipBOM(b)))

\* what was guessed is checked against each read but the one it was guessed from
Invalid(b, first) ==
    /\ b.trivial /\ ~ (first /\ b.detected)
    /\ ~ validUTF8(b.raw, ~ first)

\* mutant: the bytes of a character that is cut off are dropped
KeepNothing(b, left) == [b EXCEPT !.inbytesleft = << >>]

Keep(b, left) == [b EXCEPT !.inbytesleft = left]

\* a read that cannot be used
Failed(b) == [ok |-> FALSE, b |-> [b EXCEPT !.insize = 0]]

Cooked(b, converted) ==
    IF converted.illegal THEN Failed(b)
    ELSE [ok |-> TRUE,
          b |-> Keep([b EXCEPT !.cooked = converted.cooked,
                               !.insize = Len(converted.cooked)],
                     converted.left)]

Decoded(b) ==
    IF b.trivial THEN [ok |-> TRUE, b |-> [b EXCEPT !.insize = Len(b.raw)]]
    ELSE Cooked(b, Convert(b.encoding, b.raw))

\* a guess that turns out wrong is corrected, an encoding that was given is not
Checked(b, first) ==
    CASE ~ Invalid(b, first) -> Decoded(b)
      [] Invalid(b, first) /\ b.detected -> Decoded(setFallbackEncoding(b))
      [] OTHER -> Failed(b)

\* with raw filled: the encoding, the check and the conversion
Process(b) ==
    IF b.firstRead
    THEN Checked(FirstRead([b EXCEPT !.pos = 0, !.firstRead = FALSE]), TRUE)
    ELSE Checked([b EXCEPT !.pos = 0], FALSE)

\* mutant: what was kept of the last read is hashed again
FreshAll(b) == b.raw

\* what is hashed of raw
Fresh(b) == SubSeq(b.raw, Len(b.inbytesleft) + 1, Len(b.raw))

\* the buffer with n more bytes
Filled(n) ==
    [buffer EXCEPT !.raw = buffer.inbytesleft
                           \o SubSeq(Bytes(source), offset + 1, offset + n)]

\* what is in memory is read and converted when the buffer is made
FromMemory ==
    /\ pc = "new" /\ source.from = "memory" /\ source.there
    /\ pc' = "get" /\ offset' = Len(Bytes(source))
    /\ IF offset' = 0 THEN UNCHANGED <<buffer, hashed, failed>>
       ELSE \E result \in {Process(Filled(offset'))} :
            /\ hashed' = Fresh(Filled(offset'))
            /\ buffer' = result.b
            /\ failed' = IF result.ok THEN "no" ELSE "data"
    /\ UNCHANGED <<source, chars, closed, hash>>

\* from a name, a FILE, a descriptor or callbacks nothing is read yet
FromFile ==
    /\ pc = "new" /\ source.from # "memory" /\ source.there
    /\ pc' = "get"
    /\ UNCHANGED <<source, offset, hashed, buffer, failed, chars, closed, hash>>

\* a name is opened by the buffer and user callbacks are the buffer's to call;
\* a FILE and a descriptor stay with who opened them
Closes ==
    /\ source.there /\ source.context
    /\ source.from = "filename" \/ (source.from = "io" /\ source.close)

\* a constructor that throws has run the one that sets the encoding, and so
\* the destructor runs as well
Destroy ==
    /\ pc # "gone" /\ (pc = "new" => ~ source.there)
    /\ pc' = "gone"
    /\ closed' = closed + (IF Closes THEN 1 ELSE 0)
    /\ hash' = <<hashed>>
    /\ UNCHANGED <<source, offset, hashed, buffer, failed, chars>>

\* one call of the read callback, of n bytes
Read(n) ==
    /\ pc = "get" /\ (buffer.insize = 0 \/ buffer.pos >= buffer.insize)
    /\ offset' = offset + n
    /\ IF n = 0
       THEN /\ pc' = "eof"
            /\ buffer' = [buffer EXCEPT !.insize = 0]
            /\ UNCHANGED <<hashed, failed>>
       ELSE \E result \in {Process(Filled(n))} :
            /\ hashed' = hashed \o Fresh(Filled(n))
            /\ buffer' = result.b
            /\ failed' = IF result.ok THEN "no" ELSE "data"
            /\ pc' = IF result.b.insize # 0 THEN "give"
                     ELSE IF result.ok /\ result.b.inbytesleft # << >>
                     THEN "get" ELSE "eof"
    /\ UNCHANGED <<source, chars, closed, hash>>

Sizes ==
    LET rest == Len(Bytes(source)) - offset
        room == SRCBUFSIZE - Len(buffer.inbytesleft)
        most == IF rest < room THEN rest ELSE room
        least == IF buffer.firstRead THEN MinFirst ELSE 1
    IN {n \in 0..most : n >= least \/ n = rest}

\* the callback returns -1, which getChar does not tell from the end
ReadFails ==
    /\ source.from # "memory" /\ pc = "get" /\ (buffer.insize = 0 \/ buffer.pos >= buffer.insize)
    /\ pc' = "eof" /\ failed' = "read"
    /\ buffer' = [buffer EXCEPT !.insize = 0]
    /\ UNCHANGED <<source, offset, hashed, chars, closed, hash>>

-----------------------------------------------------------------------------
(* getChar, with a character in the buffer *)

Available == pc = "give" \/ (pc = "get" /\ buffer.pos < buffer.insize)

Given(raw) == [i \in DOMAIN raw |-> <<raw[i]>>]

Data == IF buffer.trivial THEN Given(buffer.raw) ELSE buffer.cooked

\* a byte order mark alone leaves pos after the last byte
Current == IF buffer.pos < Len(Data) THEN Data[buffer.pos + 1] ELSE NUL

\* the second character of "\r\n"
SkipLF ==
    /\ Available /\ buffer.lastcr /\ Current = LF
    /\ buffer' = [buffer EXCEPT !.pos = @ + 1, !.lastcr = FALSE]
    /\ pc' = "get"
    /\ UNCHANGED <<source, offset, hashed, failed, chars, closed, hash>>

\* mutant: a newline is only known within one read
AfterCRForgotten(c, b) == c = CR /\ b.pos + 1 < b.insize

AfterCR(c, b) == c = CR

Give ==
    LET c == IF Current = CR THEN LF ELSE Current
    IN /\ Available /\ ~ (buffer.lastcr /\ Current = LF)
       /\ chars' = Append(chars, c)
       /\ buffer' = [buffer EXCEPT !.pos = @ + 1,
                                   !.lastcr = AfterCR(Current, buffer),
                                   !.lastchar = c,
                                   !.loc = IF c = LF THEN @ + 1 ELSE @]
       /\ pc' = "get"
       /\ UNCHANGED <<source, offset, hashed, failed, closed, hash>>

getLOC == IF buffer.lastchar = LF THEN buffer.loc ELSE buffer.loc + 1

Next ==
    \/ FromMemory
    \/ FromFile
    \/ \E n \in Sizes : Read(n)
    \/ ReadFails
    \/ SkipLF
    \/ Give
    \/ Destroy
    \/ pc = "gone" /\ UNCHANGED vars

Spec == Init /\ [][Next]_vars

-----------------------------------------------------------------------------
(* What the lexer and the user of the hash rely on *)

\* the text of the file in UTF-8 with a newline for each CR, LF and CR LF
Ends(u) == {i \in DOMAIN u : u[i] = CR \/ (u[i] = LF /\ (i = 1 \/ u[i - 1] # CR))}
InUtf8 == FlattenSeq([i \in DOMAIN source.text |->
    IF source.encoding = "UTF-8" THEN Given(source.text[i])
    ELSE Utf8(source.encoding, source.text[i])])
Expected ==
    FlattenSeq([i \in DOMAIN InUtf8 |->
        CASE i \in Ends(InUtf8) -> <<LF>>
          [] InUtf8[i] \in {CR, LF} /\ i \notin Ends(InUtf8) -> << >>
          [] OTHER -> <<InUtf8[i]>>])

\* not in the encoding it is said to be in
IllFormed ==
    \E i \in DOMAIN source.text :
        \/ source.encoding = "UTF-8" /\ ToSet(source.text[i]) \cap {"XX", "S"} # {}
        \/ source.encoding = "UTF-16LE" /\ "S" \in ToSet(source.text[i])

\* However the reads cut the file, between the bytes of a character, between
\* those of a newline or behind a byte order mark, the characters given are
\* those of the file, and at the end they are all of them and the lines have
\* been counted: only a read that fails, or data that is not in the encoding
\* given, ends a file early (readChars, validUTF8, getChar, getLOC).
ReadsSource ==
    /\ IsPrefix(chars, Expected)
    /\ failed = "data" => IllFormed
    /\ pc = "eof" /\ failed = "no" =>
        /\ chars = Expected
        /\ Expected # << >> =>
            getLOC = Len(SelectSeq(Expected, LAMBDA c : c = LF))
                     + (IF Last(Expected) = LF THEN 0 ELSE 1)

\* The user finds as the hash of the source one over each byte of the file once
\* and in order, the byte order mark included, though the bytes of a character
\* that a read cuts off are in the buffer for two reads; when the whole file was
\* read it is over the whole file, however it was given.  What the buffer opened
\* itself is closed once, with the buffer, and what others opened is left to
\* them (the constructors, readChars, the destructor).
HashesSource ==
    /\ hashed = SubSeq(Bytes(source), 1, offset)
    /\ pc = "eof" /\ failed = "no" => hashed = Bytes(source)
    /\ (hash # << >>) <=> (pc = "gone")
    /\ pc = "gone" =>
        /\ hash = <<hashed>>
        /\ source.from \in {"memory", "FILE", "fd"} => closed = 0
        /\ source.from = "io" /\ ~ source.close => closed = 0
        /\ source.there /\ source.context /\ source.from \in {"filename", "io"}
            => closed = 1 \/ (source.from = "io" /\ ~ source.close)
=============================================================================

----------------------- MODULE UTF8CharBuffer_proofs -----------------------
(***************************************************************************)
(* The hash of a source, for every file, size of the buffer and way to cut *)
(* the file into reads: it is over each byte once and in order, though the *)
(* bytes of a character that a read cuts off stay in the buffer for the    *)
(* next, and at the end of the input it is over the whole file.            *)
(*                                                                         *)
(* The second part needs that an input only ends where its file does.  A   *)
(* read that is converted to nothing ends it as well: that is a read of    *)
(* the byte order mark alone, which ReadAssumption leaves out.             *)
(***************************************************************************)
EXTENDS UTF8CharBuffer, SequenceFacts, TLAPS

-----------------------------------------------------------------------------
(* The inductive invariant *)

\* the fields a buffer always has
Fields == {"raw", "cooked", "pos", "insize", "inbytesleft", "encoding", "trivial",
           "detected", "firstRead", "lastcr", "lastchar", "loc"}

IsBuffer(b) ==
    /\ DOMAIN b = Fields
    /\ b.inbytesleft \in Seq(STRING)
    /\ b.firstRead \in BOOLEAN

\* nothing is read before the first read
Unread ==
    /\ pc = "new" => buffer.firstRead
    /\ buffer.firstRead => offset = 0 /\ buffer.inbytesleft = << >>

\* only a read that fails and the end of the file end the input
EndsAtEnd == pc = "eof" /\ failed = "no" => offset = Len(Bytes(source))

\* the destructor runs once
Released ==
    /\ pc # "gone" => closed = 0 /\ hash = << >>
    /\ pc = "gone" => closed = (IF Closes THEN 1 ELSE 0) /\ hash = <<hashed>>

Inv ==
    /\ source \in Sources
    /\ offset \in 0..Len(Bytes(source))
    /\ hashed = SubSeq(Bytes(source), 1, offset)
    /\ IsBuffer(buffer)
    /\ Unread
    /\ EndsAtEnd
    /\ Released

-----------------------------------------------------------------------------
(* What a conversion leaves *)

LEMMA NotEmpty ==
    ASSUME NEW S, NEW s \in Seq(S), Len(s) # 0
    PROVE  s # << >>
  OBVIOUS

\* each unit is converted to something
LEMMA Utf8Facts ==
    ASSUME NEW e, NEW unit
    PROVE  /\ Utf8(e, unit) # << >>
           /\ DOMAIN Utf8(e, unit) = 1..Len(Utf8(e, unit))
           /\ Len(Utf8(e, unit)) \in 1..3
           /\ \E S : Utf8(e, unit) \in Seq(S)
  <1> DEFINE low == IF e \in BigEndian THEN unit[Len(unit)] ELSE unit[1]
             many == [i \in 1..Utf8Length(unit) |-> Append(unit, ToString(i))]
  <1>1. Utf8(e, unit) = << <<low>> >> \/ Utf8(e, unit) = many
    BY DEF Utf8
  <1>2. CASE Utf8(e, unit) = << <<low>> >>
    <2> DEFINE c == <<low>>
    <2>1. Utf8(e, unit) = <<c>>
      BY <1>2
    <2> HIDE DEF c
    <2>2. <<c>> # << >> /\ <<c>> \in Seq({c}) /\ Len(<<c>>) = 1 /\ DOMAIN <<c>> = 1..1
      OBVIOUS
    <2> DEFINE t == <<c>>
    <2>3. Utf8(e, unit) = t /\ t # << >> /\ t \in Seq({c}) /\ Len(t) = 1 /\ DOMAIN t = 1..1
      BY <2>1, <2>2
    <2> HIDE DEF t
    <2> QED BY <2>3
  <1>3. CASE Utf8(e, unit) = many
    <2> DEFINE n == Utf8Length(unit)
               F(i) == Append(unit, ToString(i))
               S == {F(i) : i \in 1..3}
    <2>1. n \in {2, 3}
      BY DEF Utf8Length
    <2>2. \A i \in 1..n : F(i) \in S
      BY <2>1
    <2> HIDE DEF F, S, n
    <2>3. [i \in 1..n |-> F(i)] \in Seq(S)
      BY <2>1, <2>2
    <2>4. Len([i \in 1..n |-> F(i)]) = n /\ DOMAIN [i \in 1..n |-> F(i)] = 1..n
      BY <2>1
    <2> DEFINE t == [i \in 1..n |-> F(i)]
    <2>5. Utf8(e, unit) = t
      BY <1>3 DEF F, n
    <2>6. t \in Seq(S) /\ Len(t) = n /\ DOMAIN t = 1..n
      BY <2>3, <2>4
    <2> HIDE DEF t
    <2>7. t # << >>
      <3>1. Len(t) # 0
        BY <2>1, <2>6
      <3> QED BY <2>6, <3>1, NotEmpty
    <2> QED BY <2>1, <2>5, <2>6, <2>7
  <1> QED BY <1>1, <1>2, <1>3

\* sequences that are not empty, one after the other, are not empty
LEMMA FlattenNonEmpty ==
    ASSUME NEW S, NEW s \in Seq(Seq(S)), s # << >>,
           \A i \in 1..Len(s) : s[i] # << >>
    PROVE  FlattenSeq(s) # << >>
  <1> DEFINE A == Seq(S)
  <1>1. s \in Seq(A)
    OBVIOUS
  <1> HIDE DEF A
  <1>2. PICK v \in Seq(A), x \in A : s = Append(v, x)
    BY <1>1, SequenceEmptyOrAppend
  <1>3. x # << >>
    <2>1. Len(s) \in 1..Len(s) /\ s[Len(s)] = x
      BY <1>2
    <2> QED BY <2>1
  <1>4. FlattenSeq(v) \in Seq(S) /\ x \in Seq(S) /\ v \in Seq(Seq(S))
    BY <1>2, FlattenType DEF A
  <1>5. FlattenSeq(Append(v, x)) = FlattenSeq(v) \o x
    BY <1>4, FlattenAppend
  <1> DEFINE f == FlattenSeq(v)
  <1>6. f \in Seq(S)
    BY <1>4
  <1> HIDE DEF f
  <1>7. f \o x # << >>
    BY <1>3, <1>4, <1>6
  <1> QED BY <1>2, <1>5, <1>7 DEF f

\* What is kept is a sequence, and of data that is not empty something is
\* converted or kept.
LEMMA ConvertFacts ==
    ASSUME NEW e, NEW raw \in Seq(STRING)
    PROVE  /\ Convert(e, raw).left \in Seq(STRING)
           /\ Len(Convert(e, raw).cooked) = 0 /\ Convert(e, raw).left = << >>
                => raw = << >>
           /\ DOMAIN Convert(e, raw) = {"cooked", "left", "illegal"}
  <1> DEFINE w == Width(e)
             n == Len(raw) \div w
             U(i) == Utf8(e, Unit(e, raw, i))
             s == [i \in 1..n |-> U(i)]
             left == SubSeq(raw, n * w + 1, Len(raw))
  <1>1. w \in {1, 2, 4}
    BY DEF Width
  <1>2. Len(raw) \in Nat
    OBVIOUS
  <1>3. n \in Nat /\ n * w <= Len(raw) /\ n * w \in Nat
    BY <1>1, <1>2
  <1>4. /\ Convert(e, raw).left = left
        /\ Convert(e, raw).cooked = FlattenSeq(s)
        /\ DOMAIN Convert(e, raw) = {"cooked", "left", "illegal"}
    BY DEF Convert
  <1> HIDE DEF n, w
  <1>5. left \in Seq(STRING) /\ Len(left) = Len(raw) - n * w
    BY <1>2, <1>3
  <1>6. ASSUME n # 0 PROVE Len(FlattenSeq(s)) # 0
    <2> DEFINE S == UNION {{U(i)[j] : j \in 1..3} : i \in 1..n}
    <2>1. \A i \in 1..n : /\ U(i) # << >>
                          /\ U(i) \in Seq(S)
      <3> TAKE i \in 1..n
      <3> DEFINE u == U(i)
      <3>1. u # << >> /\ DOMAIN u = 1..Len(u) /\ Len(u) \in 1..3 /\ \E X : u \in Seq(X)
        BY Utf8Facts
      <3>2. {u[j] : j \in 1..3} \subseteq S
        OBVIOUS
      <3> HIDE DEF u, S
      <3>3. Len(u) \in Nat /\ \A j \in 1..Len(u) : j \in 1..3
        BY <3>1
      <3>4. u # << >> /\ u \in Seq(S)
        <4>1. u # << >>
          BY <3>1
        <4>2. \A j \in 1..Len(u) : u[j] \in S
          BY <3>2, <3>3
        <4>3. PICK X : u \in Seq(X)
          BY <3>1
        <4>4. u = [j \in 1..Len(u) |-> u[j]]
          BY <4>3
        <4>5. u \in Seq(S)
          BY <3>3, <4>2, <4>4
        <4> QED BY <4>1, <4>5
      <3> QED BY <3>4 DEF u
    <2> HIDE DEF S, U
    <2> DEFINE A == Seq(S)
    <2>2. s \in Seq(A) /\ Len(s) = n /\ s # << >> /\ \A i \in 1..Len(s) : s[i] = U(i)
      <3>1. \A i \in 1..n : U(i) \in A
        BY <2>1
      <3> HIDE DEF A
      <3>2. s \in Seq(A) /\ Len(s) = n /\ \A i \in 1..n : s[i] = U(i)
        BY <1>3, <3>1
      <3> QED BY <1>3, <1>6, <3>2
    <2>3. s \in Seq(Seq(S))
      BY <2>2
    <2> HIDE DEF s
    <2>4. FlattenSeq(s) # << >>
      BY <2>1, <2>2, <2>3, FlattenNonEmpty
    <2>5. FlattenSeq(s) \in Seq(S)
      BY <2>3, FlattenType
    <2> QED BY <2>4, <2>5
  <1> HIDE DEF s
  <1>7. Len(FlattenSeq(s)) = 0 /\ left = << >> => raw = << >>
    <2>1. SUFFICES ASSUME Len(FlattenSeq(s)) = 0, left = << >>
                   PROVE  raw = << >>
      OBVIOUS
    <2>2. n = 0 /\ Len(left) = 0
      BY <1>6, <2>1
    <2>3. n * w = 0
      <3>1. w \in Nat
        BY <1>1
      <3> QED BY <2>2, <3>1
    <2>4. Len(raw) = 0
      BY <1>2, <1>5, <2>2, <2>3
    <2> QED BY <2>4
  <1> QED BY <1>4, <1>5, <1>7


-----------------------------------------------------------------------------
(* What is left of a read *)

\* all of a buffer that the encoding set for it does not change
Alike(b, c) ==
    /\ IsBuffer(c) /\ c.raw = b.raw /\ c.pos = b.pos
    /\ c.inbytesleft = b.inbytesleft /\ c.firstRead = b.firstRead

LEMMA AlikeTransitive ==
    ASSUME NEW b, NEW c, NEW d, Alike(b, c), Alike(c, d)
    PROVE  Alike(b, d)
  BY DEF Alike

LEMMA SettingFacts ==
    ASSUME NEW b, IsBuffer(b), NEW e
    PROVE  Alike(b, setEncoding(b, e)) /\ Alike(b, setFallbackEncoding(b))
  <1>1. Alike(b, setEncoding(b, e)) /\ Alike(b, setEncoding(b, "ISO-8859-1"))
    BY DEF setEncoding, Alike, IsBuffer, Fields
  <1> DEFINE c == setEncoding(b, "ISO-8859-1")
  <1> HIDE DEF c
  <1>2. ASSUME Alike(b, c) PROVE Alike(b, [c EXCEPT !.detected = FALSE])
    BY <1>2 DEF Alike, IsBuffer, Fields
  <1> QED BY <1>1, <1>2 DEF setFallbackEncoding, c

\* What is kept of data, once it is decoded, is a sequence, and of data that
\* can be decoded nothing is given or kept only if there was nothing.
Decodes(raw, r) ==
    /\ IsBuffer(r.b)
    /\ r.ok /\ r.b.insize = 0 /\ r.b.inbytesleft = << >> => raw = << >>

LEMMA DecodedFacts ==
    ASSUME NEW b, IsBuffer(b), b.raw \in Seq(STRING)
    PROVE  /\ Decodes(b.raw, Decoded(b))
           /\ Decoded(b).b.firstRead = b.firstRead
  <1>1. CASE b.trivial
    <2> DEFINE d == [b EXCEPT !.insize = Len(b.raw)]
    <2>1. Decoded(b) = [ok |-> TRUE, b |-> d]
      BY <1>1 DEF Decoded
    <2>2. IsBuffer(d) /\ d.firstRead = b.firstRead /\ d.insize = Len(b.raw)
      BY DEF IsBuffer, Fields
    <2>3. Len(b.raw) = 0 => b.raw = << >>
      OBVIOUS
    <2> HIDE DEF d
    <2> QED BY <2>1, <2>2, <2>3 DEF Decodes
  <1>2. CASE ~ b.trivial
    <2> DEFINE c == Convert(b.encoding, b.raw)
    <2>1. /\ c.left \in Seq(STRING)
          /\ Len(c.cooked) = 0 /\ c.left = << >> => b.raw = << >>
      BY ConvertFacts
    <2> HIDE DEF c
    <2>2. Decoded(b) = Cooked(b, c)
      BY <1>2 DEF Decoded, c
    <2>3. CASE c.illegal
      <3> DEFINE d == [b EXCEPT !.insize = 0]
      <3>1. Decoded(b) = [ok |-> FALSE, b |-> d]
        BY <2>2, <2>3 DEF Cooked, Failed
      <3>2. IsBuffer(d) /\ d.firstRead = b.firstRead
        BY DEF IsBuffer, Fields
      <3> HIDE DEF d
      <3> QED BY <3>1, <3>2 DEF Decodes
    <2>4. CASE ~ c.illegal
      <3> DEFINE d == Keep([b EXCEPT !.cooked = c.cooked, !.insize = Len(c.cooked)],
                           c.left)
      <3>1. Decoded(b) = [ok |-> TRUE, b |-> d]
        BY <2>2, <2>4 DEF Cooked
      <3>2. /\ IsBuffer(d) /\ d.firstRead = b.firstRead
            /\ d.insize = Len(c.cooked) /\ d.inbytesleft = c.left
        BY <2>1 DEF IsBuffer, Fields, Keep
      <3> HIDE DEF d
      <3> QED BY <2>1, <3>1, <3>2 DEF Decodes
    <2> QED BY <2>3, <2>4
  <1> QED BY <1>1, <1>2

LEMMA CheckedFacts ==
    ASSUME NEW b, IsBuffer(b), b.raw \in Seq(STRING), NEW first
    PROVE  /\ Decodes(b.raw, Checked(b, first))
           /\ Checked(b, first).b.firstRead = b.firstRead
  <1>1. CASE ~ Invalid(b, first)
    <2>1. Checked(b, first) = Decoded(b)
      BY <1>1 DEF Checked
    <2> QED BY <2>1, DecodedFacts
  <1>2. CASE Invalid(b, first) /\ b.detected
    <2> DEFINE c == setFallbackEncoding(b)
    <2>1. Checked(b, first) = Decoded(c)
      BY <1>2 DEF Checked
    <2>2. IsBuffer(c) /\ c.raw = b.raw /\ c.firstRead = b.firstRead
      BY SettingFacts DEF Alike
    <2> HIDE DEF c
    <2> QED BY <2>1, <2>2, DecodedFacts
  <1>3. CASE Invalid(b, first) /\ ~ b.detected
    <2> DEFINE d == [b EXCEPT !.insize = 0]
    <2>1. Checked(b, first) = [ok |-> FALSE, b |-> d]
      BY <1>3 DEF Checked, Failed
    <2>2. IsBuffer(d) /\ d.firstRead = b.firstRead
      BY DEF IsBuffer, Fields
    <2> HIDE DEF d
    <2> QED BY <2>1, <2>2 DEF Decodes
  <1> QED BY <1>1, <1>2, <1>3

MarkBytes == {"EF", "BB", "BF", "FF", "FE", "NUL"}

LEMMA BomTypes ==
    /\ DOMAIN boms = 1..5
    /\ \A i \in 1..5 : boms[i].mark \in Seq(MarkBytes)
  <1>1. DOMAIN boms = 1..5
    BY DEF boms
  <1>2. /\ <<"EF", "BB", "BF">> \in Seq(MarkBytes)
        /\ <<"FF", "FE", "NUL", "NUL">> \in Seq(MarkBytes)
        /\ <<"NUL", "NUL", "FE", "FF">> \in Seq(MarkBytes)
        /\ <<"FF", "FE">> \in Seq(MarkBytes)
        /\ <<"FE", "FF">> \in Seq(MarkBytes)
    BY DEF MarkBytes
  <1>3. /\ boms[1].mark = <<"EF", "BB", "BF">>
        /\ boms[2].mark = <<"FF", "FE", "NUL", "NUL">>
        /\ boms[3].mark = <<"NUL", "NUL", "FE", "FF">>
        /\ boms[4].mark = <<"FF", "FE">>
        /\ boms[5].mark = <<"FE", "FF">>
    BY DEF boms
  <1>4. \A i \in 1..5 : i = 1 \/ i = 2 \/ i = 3 \/ i = 4 \/ i = 5
    OBVIOUS
  <1>5. \A i \in 1..5 : boms[i].mark \in Seq(MarkBytes)
    BY <1>2, <1>3, <1>4
  <1> QED BY <1>1, <1>5

\* a byte order mark is skipped, and nothing else
LEMMA SkipFacts ==
    ASSUME NEW b, IsBuffer(b), b.pos = 0
    PROVE  LET c == SkipBOM(b)
           IN  /\ IsBuffer(c) /\ c.raw = b.raw
               /\ c.inbytesleft = b.inbytesleft /\ c.firstRead = b.firstRead
               /\ \/ c.pos = 0
                  \/ \E i \in 1..5 : /\ IsMark(b.raw, boms[i])
                                     /\ c.pos = Len(boms[i].mark)
  <1>1. CASE \A i \in DOMAIN boms : ~ IsMark(b.raw, boms[i])
    BY <1>1 DEF SkipBOM
  <1>2. CASE \E i \in DOMAIN boms : IsMark(b.raw, boms[i])
    <2> DEFINE I == {i \in 1..Len(boms) : IsMark(b.raw, boms[i])}
               k == SelectInSeq(boms, LAMBDA x : IsMark(b.raw, x))
    <2>1. Len(boms) = 5 /\ DOMAIN boms = 1..5
      BY DEF boms
    <2>2. I # {} /\ I \in SUBSET Nat
      BY <1>2, <2>1
    <2>3. PICK n \in I : \A m \in I : n <= m
      BY <2>2, Least
    <2>4. k = Min(I)
      BY <2>2 DEF SelectInSeq
    <2>5. Min(I) \in I
      BY <2>3 DEF Min
    <2>6. k \in 1..5 /\ IsMark(b.raw, boms[k])
      BY <2>1, <2>4, <2>5
    <2> HIDE DEF k
    <2> DEFINE bom == boms[k]
               e == IF b.encoding = "" \/ compatibleEncodings(b.encoding, bom.generic)
                    THEN bom.encoding ELSE b.encoding
               c == [b EXCEPT !.pos = Len(bom.mark), !.encoding = e]
    <2>7. SkipBOM(b) = c
      BY <1>2, <2>6 DEF SkipBOM, k, IsBuffer, Fields
    <2>8. /\ IsBuffer(c) /\ c.raw = b.raw /\ c.pos = Len(bom.mark)
          /\ c.inbytesleft = b.inbytesleft /\ c.firstRead = b.firstRead
      BY DEF IsBuffer, Fields
    <2> HIDE DEF c
    <2> QED BY <2>6, <2>7, <2>8
  <1> QED BY <1>1, <1>2


LEMMA FirstReadFacts ==
    ASSUME NEW b, IsBuffer(b), b.pos = 0, b.raw \in Seq(STRING), b.raw # << >>
    PROVE  LET f == FirstRead(b)
           IN  /\ IsBuffer(f) /\ f.raw \in Seq(STRING) /\ f.firstRead = b.firstRead
               /\ f.raw = << >> => \E i \in DOMAIN boms : b.raw = boms[i].mark
  <1> DEFINE c == SkipBOM(b)
             d == Detect(c)
             e == setEncoding(d, d.encoding)
             f == Unmarked(e)
  <1>1. /\ IsBuffer(c) /\ c.raw = b.raw /\ c.firstRead = b.firstRead
        /\ \/ c.pos = 0
           \/ \E i \in 1..5 : IsMark(b.raw, boms[i]) /\ c.pos = Len(boms[i].mark)
    BY SkipFacts
  <1> HIDE DEF c
  <1>2. Alike(c, d)
    <2>1. ASSUME NEW x PROVE Alike(c, [c EXCEPT !.encoding = x])
      BY <1>1 DEF Alike, IsBuffer, Fields
    <2>2. ASSUME NEW x, NEW y
          PROVE  Alike(c, [c EXCEPT !.detected = x, !.encoding = y])
      BY <1>1 DEF Alike, IsBuffer, Fields
    <2>3. Alike(c, c)
      BY <1>1 DEF Alike
    <2> QED BY <2>1, <2>2, <2>3 DEF Detect
  <1> HIDE DEF d
  <1>3. Alike(c, e)
    <2>1. Alike(d, e)
      BY <1>2, SettingFacts DEF Alike
    <2> QED BY <1>2, <2>1, AlikeTransitive
  <1>4. FirstRead(b) = f
    BY DEF FirstRead, Encoded, c, d
  <1> HIDE DEF e
  <1>5. CASE e.trivial
    <2>1. f = e
      BY <1>5 DEF Unmarked
    <2> QED BY <1>1, <1>3, <1>4, <2>1 DEF Alike
  <1>6. CASE ~ e.trivial
    <2> DEFINE rest == SubSeq(e.raw, e.pos + 1, Len(e.raw))
    <2>1. f = [e EXCEPT !.raw = rest, !.pos = 0]
      BY <1>6 DEF Unmarked
    <2>2. IsBuffer(e) /\ e.raw = b.raw /\ e.pos = c.pos /\ e.firstRead = b.firstRead
      BY <1>1, <1>3 DEF Alike
    <2>3. IsBuffer(f) /\ f.raw = rest /\ f.firstRead = b.firstRead
      BY <2>1, <2>2 DEF IsBuffer, Fields
    <2>4. CASE c.pos = 0
      <3>1. rest = b.raw
        BY <2>2, <2>4
      <3> QED BY <1>4, <2>3, <3>1
    <2>5. CASE \E i \in 1..5 : IsMark(b.raw, boms[i]) /\ c.pos = Len(boms[i].mark)
      <3>1. PICK i \in 1..5 : IsMark(b.raw, boms[i]) /\ c.pos = Len(boms[i].mark)
        BY <2>5
      <3> DEFINE mark == boms[i].mark
      <3>2. mark \in Seq(MarkBytes) /\ i \in DOMAIN boms
        BY BomTypes
      <3> HIDE DEF mark
      <3>3. Len(mark) <= Len(b.raw)
            /\ SubSeq(mark, 1, Len(mark)) = SubSeq(b.raw, 1, Len(mark))
        BY <3>1 DEF IsMark, IsPrefix, mark
      <3>4. rest = SubSeq(b.raw, Len(mark) + 1, Len(b.raw))
        BY <2>2, <3>1 DEF mark
      <3>5. rest \in Seq(STRING) /\ Len(rest) = Len(b.raw) - Len(mark)
        <4>1. Len(mark) \in Nat /\ Len(b.raw) \in Nat
          BY <3>2
        <4> DEFINE m == Len(mark)
        <4>2. m \in Nat /\ m <= Len(b.raw)
          BY <3>3, <4>1
        <4> HIDE DEF m
        <4>3. /\ SubSeq(b.raw, m + 1, Len(b.raw)) \in Seq(STRING)
              /\ Len(SubSeq(b.raw, m + 1, Len(b.raw))) = Len(b.raw) - m
          BY <4>1, <4>2
        <4> QED BY <3>4, <4>3 DEF m
      <3>6. ASSUME rest = << >> PROVE b.raw = mark
        <4>1. Len(b.raw) = Len(mark)
          <5>1. Len(rest) = 0
            BY <3>6
          <5> HIDE DEF rest
          <5> QED BY <3>2, <3>3, <3>5, <5>1
        <4>2. SubSeq(b.raw, 1, Len(b.raw)) = b.raw
          OBVIOUS
        <4>3. SubSeq(mark, 1, Len(mark)) = mark
          BY <3>2
        <4> QED BY <3>3, <4>1, <4>2, <4>3
      <3>7. rest = << >> => \E j \in DOMAIN boms : b.raw = boms[j].mark
        BY <3>2, <3>6 DEF mark
      <3> HIDE DEF rest
      <3> QED BY <1>4, <2>3, <3>5, <3>7
    <2> QED BY <1>1, <2>4, <2>5
  <1> QED BY <1>5, <1>6

\* What a read leaves is a buffer, and one that can be used and of which
\* nothing is given or kept is the first and of a byte order mark alone.
LEMMA ProcessFacts ==
    ASSUME NEW b, IsBuffer(b), b.raw \in Seq(STRING), b.raw # << >>
    PROVE  LET r == Process(b)
           IN  /\ IsBuffer(r.b) /\ ~ r.b.firstRead
               /\ r.ok /\ r.b.insize = 0 /\ r.b.inbytesleft = << >> =>
                    b.firstRead /\ \E i \in DOMAIN boms : b.raw = boms[i].mark
  <1>1. CASE b.firstRead
    <2> DEFINE c == [b EXCEPT !.pos = 0, !.firstRead = FALSE]
               f == FirstRead(c)
    <2>1. /\ IsBuffer(c) /\ c.pos = 0 /\ c.raw = b.raw /\ c.firstRead = FALSE
      BY DEF IsBuffer, Fields
    <2>2. Process(b) = Checked(f, TRUE)
      BY <1>1 DEF Process
    <2> HIDE DEF c
    <2>3. /\ IsBuffer(f) /\ f.raw \in Seq(STRING) /\ f.firstRead = FALSE
          /\ f.raw = << >> => \E i \in DOMAIN boms : b.raw = boms[i].mark
      BY <2>1, FirstReadFacts
    <2> HIDE DEF f
    <2>4. /\ Decodes(f.raw, Checked(f, TRUE))
          /\ Checked(f, TRUE).b.firstRead = FALSE
      BY <2>3, CheckedFacts
    <2> QED BY <1>1, <2>2, <2>3, <2>4 DEF Decodes
  <1>2. CASE ~ b.firstRead
    <2> DEFINE c == [b EXCEPT !.pos = 0]
    <2>1. /\ IsBuffer(c) /\ c.raw = b.raw /\ c.firstRead = b.firstRead
      BY DEF IsBuffer, Fields
    <2>2. Process(b) = Checked(c, FALSE)
      BY <1>2 DEF Process
    <2> HIDE DEF c
    <2>3. /\ Decodes(c.raw, Checked(c, FALSE))
          /\ Checked(c, FALSE).b.firstRead = b.firstRead
      BY <2>1, CheckedFacts
    <2> QED BY <1>2, <2>1, <2>2, <2>3 DEF Decodes
  <1> QED BY <1>1, <1>2


-----------------------------------------------------------------------------
(* The steps *)

\* the next n bytes of a sequence after the first k
LEMMA Extends ==
    ASSUME NEW S, NEW s \in Seq(S), NEW k \in Nat, NEW n \in Nat, k + n <= Len(s)
    PROVE  /\ SubSeq(s, 1, k) \o SubSeq(s, k + 1, k + n) = SubSeq(s, 1, k + n)
           /\ SubSeq(s, k + 1, k + n) \in Seq(S)
           /\ Len(SubSeq(s, k + 1, k + n)) = n
  OBVIOUS

\* what was kept is not part of what is fresh
LEMMA FreshFacts ==
    ASSUME NEW S, NEW left \in Seq(S), NEW t \in Seq(S)
    PROVE  SubSeq(left \o t, Len(left) + 1, Len(left \o t)) = t
  OBVIOUS

LEMMA FilledFacts ==
    ASSUME Inv, NEW n \in Nat, offset + n <= Len(Bytes(source))
    PROVE  LET b == Filled(n)
               t == SubSeq(Bytes(source), offset + 1, offset + n)
           IN  /\ IsBuffer(b) /\ b.raw \in Seq(STRING)
               /\ b.raw = buffer.inbytesleft \o t
               /\ n # 0 => b.raw # << >>
               /\ b.firstRead = buffer.firstRead
               /\ Fresh(b) = t
               /\ hashed \o Fresh(b) = SubSeq(Bytes(source), 1, offset + n)
  <1> DEFINE s == Bytes(source)
             t == SubSeq(s, offset + 1, offset + n)
             left == buffer.inbytesleft
             b == Filled(n)
  <1>1. /\ s \in Seq(STRING) /\ offset \in Nat /\ IsBuffer(buffer)
        /\ hashed = SubSeq(s, 1, offset) /\ left \in Seq(STRING)
    BY ReadAssumption DEF Inv, IsBuffer
  <1>2. b = [buffer EXCEPT !.raw = left \o t]
    BY DEF Filled
  <1>3. /\ IsBuffer(b) /\ b.raw = left \o t /\ b.inbytesleft = left
        /\ b.firstRead = buffer.firstRead
    BY <1>1, <1>2 DEF IsBuffer, Fields
  <1> HIDE DEF b, s
  <1>4. t \in Seq(STRING) /\ Len(t) = n /\ hashed \o t = SubSeq(s, 1, offset + n)
    BY <1>1, Extends DEF s
  <1> HIDE DEF t, left
  <1>5. left \o t \in Seq(STRING) /\ Len(left \o t) = Len(left) + n /\ Len(left) \in Nat
    <2>1. left \in Seq(STRING) /\ t \in Seq(STRING) /\ Len(t) = n
      BY <1>1, <1>4 DEF left
    <2>2. Len(left \o t) = Len(left) + Len(t) /\ left \o t \in Seq(STRING)
      BY <2>1, ConcatProperties
    <2>3. Len(left) \in Nat
      BY <2>1
    <2> QED BY <2>1, <2>2, <2>3
  <1>6. Fresh(b) = t
    BY <1>1, <1>3, <1>4, FreshFacts DEF Fresh
  <1>7. n # 0 => left \o t # << >>
    <2> DEFINE u == left \o t
    <2>1. u \in Seq(STRING) /\ Len(u) = Len(left) + n /\ Len(left) \in Nat
      BY <1>5
    <2> HIDE DEF u
    <2>2. n # 0 => u # << >>
      BY <2>1, NotEmpty
    <2> QED BY <2>2 DEF u
  <1> QED BY <1>3, <1>4, <1>5, <1>6, <1>7 DEF b, s, t, left

\* a read of a byte order mark alone is of the whole file
LEMMA MarkIsAll ==
    ASSUME Inv, NEW n \in Nat, offset + n <= Len(Bytes(source)),
           buffer.firstRead, n >= MinFirst,
           NEW i \in DOMAIN boms, Filled(n).raw = boms[i].mark
    PROVE  offset + n = Len(Bytes(source))
  <1> DEFINE s == Bytes(source)
             mark == boms[i].mark
  <1>1. /\ offset = 0 /\ buffer.inbytesleft = << >> /\ s \in Seq(STRING)
        /\ MinFirst \in Nat
    BY ReadAssumption DEF Inv, Unread
  <1>2. mark = << >> \o SubSeq(s, offset + 1, offset + n)
    BY <1>1, FilledFacts
  <1> HIDE DEF s, mark
  <1>3. n <= Len(s)
    BY <1>1 DEF s
  <1>4. mark = SubSeq(s, 1, n)
    <2>1. offset + 1 = 1 /\ offset + n = n
      BY <1>1
    <2>2. mark = << >> \o SubSeq(s, 1, n)
      BY <1>2, <2>1
    <2>3. SubSeq(s, 1, n) \in Seq(STRING)
      BY <1>1, <1>3
    <2> QED BY <2>2, <2>3
  <1>5. Len(mark) = n /\ SubSeq(mark, 1, n) = mark
    BY <1>1, <1>3, <1>4
  <1>6. IsPrefix(mark, s)
    BY <1>3, <1>4, <1>5 DEF IsPrefix
  <1>7. s = mark
    BY <1>1, <1>5, <1>6, ReadAssumption DEF Inv, IsMark, s, mark
  <1> QED BY <1>1, <1>5, <1>7 DEF s

LEMMA ReadKeeps ==
    ASSUME Inv, NEW n \in Sizes, Read(n)
    PROVE  Inv'
  <1> DEFINE s == Bytes(source)
  <1>1. /\ s \in Seq(STRING) /\ offset \in 0..Len(s) /\ IsBuffer(buffer)
        /\ SRCBUFSIZE \in Nat /\ MinFirst \in Nat \ {0}
        /\ Len(buffer.inbytesleft) \in Nat /\ Len(s) \in Nat
    BY ReadAssumption DEF Inv, IsBuffer
  <1>2. /\ pc = "get" /\ offset' = offset + n /\ source' = source
        /\ closed' = closed /\ hash' = hash
    BY DEF Read
  <1>3. n \in Nat /\ offset + n <= Len(s)
        /\ \/ n >= (IF buffer.firstRead THEN MinFirst ELSE 1)
           \/ offset + n = Len(s)
    BY <1>1 DEF Sizes, s
  <1>4. s' = s
    BY <1>2 DEF Bytes
  <1>5. offset' \in 0..Len(s)
    BY <1>1, <1>2, <1>3
  <1>6. closed = 0 /\ hash = << >>
    BY <1>2 DEF Inv, Released
  <1>7. CASE n = 0
    <2>1. /\ pc' = "eof" /\ hashed' = hashed /\ offset' = offset
          /\ buffer' = [buffer EXCEPT !.insize = 0] /\ failed' = failed
      BY <1>1, <1>2, <1>7 DEF Read
    <2>2. /\ IsBuffer(buffer') /\ buffer'.firstRead = buffer.firstRead
          /\ buffer'.inbytesleft = buffer.inbytesleft
      BY <1>1, <2>1 DEF IsBuffer, Fields
    <2>3. offset = Len(s)
      BY <1>1, <1>3, <1>7
    <2>4. Unread'
      BY <2>1, <2>2 DEF Inv, Unread
    <2>5. EndsAtEnd' /\ Released'
      BY <1>2, <1>4, <1>6, <2>1, <2>3 DEF EndsAtEnd, Released
    <2>6. source' \in Sources /\ hashed' = SubSeq(s, 1, offset')
      BY <1>2, <2>1 DEF Inv
    <2> QED BY <1>2, <1>4, <1>5, <2>2, <2>4, <2>5, <2>6 DEF Inv
  <1>8. CASE n # 0
    <2> DEFINE r == Process(Filled(n))
    <2>1. /\ hashed' = hashed \o Fresh(Filled(n)) /\ buffer' = r.b
          /\ failed' = IF r.ok THEN "no" ELSE "data"
          /\ pc' = IF r.b.insize # 0 THEN "give"
                   ELSE IF r.ok /\ r.b.inbytesleft # << >> THEN "get" ELSE "eof"
      BY <1>8 DEF Read
    <2>2. /\ IsBuffer(Filled(n)) /\ Filled(n).raw \in Seq(STRING)
          /\ Filled(n).raw # << >> /\ Filled(n).firstRead = buffer.firstRead
          /\ hashed' = SubSeq(s, 1, offset + n)
      BY <1>3, <1>8, <2>1, FilledFacts
    <2>3. /\ IsBuffer(r.b) /\ ~ r.b.firstRead
          /\ r.ok /\ r.b.insize = 0 /\ r.b.inbytesleft = << >> =>
                buffer.firstRead /\ \E i \in DOMAIN boms : Filled(n).raw = boms[i].mark
      BY <2>2, ProcessFacts
    <2> HIDE DEF r
    <2>4. Unread'
      BY <2>1, <2>3 DEF Unread
    <2>5. ASSUME pc' = "eof", failed' = "no" PROVE offset' = Len(s)
      <3>1. r.ok /\ r.b.insize = 0 /\ r.b.inbytesleft = << >>
        BY <2>1, <2>5
      <3>2. PICK i \in DOMAIN boms : Filled(n).raw = boms[i].mark
        BY <2>3, <3>1
      <3>3. buffer.firstRead
        BY <2>3, <3>1
      <3>4. CASE n >= MinFirst
        BY <1>2, <1>3, <3>2, <3>3, <3>4, MarkIsAll
      <3>5. CASE offset + n = Len(s)
        BY <1>2, <3>5
      <3> QED BY <1>3, <3>3, <3>4, <3>5
    <2>6. EndsAtEnd'
      BY <1>4, <2>5 DEF EndsAtEnd
    <2>7. Released'
      BY <1>2, <1>6, <2>1 DEF Released
    <2>8. source' \in Sources /\ hashed' = SubSeq(s, 1, offset') /\ IsBuffer(buffer')
      BY <1>2, <2>1, <2>2, <2>3 DEF Inv
    <2> QED BY <1>2, <1>4, <1>5, <2>4, <2>6, <2>7, <2>8 DEF Inv
  <1> QED BY <1>7, <1>8


LEMMA MemoryKeeps ==
    ASSUME Inv, FromMemory
    PROVE  Inv'
  <1> DEFINE s == Bytes(source)
             n == Len(s)
  <1>1. /\ s \in Seq(STRING) /\ n \in Nat /\ offset = 0 /\ buffer.firstRead
        /\ buffer.inbytesleft = << >> /\ IsBuffer(buffer)
        /\ hashed = SubSeq(s, 1, offset)
        /\ closed = 0 /\ hash = << >> /\ source \in Sources
    BY ReadAssumption DEF Inv, Unread, Released, FromMemory
  <1>2. /\ pc' = "get" /\ offset' = n /\ source' = source
        /\ closed' = closed /\ hash' = hash
    BY DEF FromMemory
  <1>3. s' = s
    BY <1>2 DEF Bytes
  <1>4. offset' \in 0..n
    BY <1>1, <1>2
  <1>5. Released' /\ EndsAtEnd'
    BY <1>1, <1>2 DEF Released, EndsAtEnd
  <1>6. CASE n = 0
    <2>1. buffer' = buffer /\ hashed' = hashed /\ offset' = offset
      BY <1>1, <1>2, <1>6 DEF FromMemory
    <2>2. Unread'
      BY <1>1, <1>2, <2>1 DEF Unread
    <2> QED BY <1>1, <1>2, <1>3, <1>4, <1>5, <2>1, <2>2 DEF Inv
  <1>7. CASE n # 0
    <2> DEFINE r == Process(Filled(n))
    <2>1. hashed' = Fresh(Filled(n)) /\ buffer' = r.b
      BY <1>2, <1>7 DEF FromMemory
    <2>2. /\ IsBuffer(Filled(n)) /\ Filled(n).raw \in Seq(STRING)
          /\ Filled(n).raw # << >>
          /\ Fresh(Filled(n)) = SubSeq(s, offset + 1, offset + n)
      <3>1. offset + n <= Len(Bytes(source)) /\ n \in Nat /\ n # 0
        BY <1>1, <1>7
      <3> HIDE DEF n, s
      <3>2. /\ IsBuffer(Filled(n)) /\ Filled(n).raw \in Seq(STRING)
            /\ Filled(n).raw # << >>
            /\ Fresh(Filled(n)) = SubSeq(Bytes(source), offset + 1, offset + n)
        BY <3>1, FilledFacts
      <3> QED BY <3>2 DEF s
    <2>3. IsBuffer(r.b) /\ ~ r.b.firstRead
      BY <2>2, ProcessFacts
    <2> HIDE DEF r
    <2>4. hashed' = SubSeq(s, 1, offset')
      BY <1>1, <1>2, <2>1, <2>2
    <2>5. Unread'
      BY <1>2, <2>1, <2>3 DEF Unread
    <2> QED BY <1>1, <1>2, <1>3, <1>4, <1>5, <2>1, <2>3, <2>4, <2>5 DEF Inv
  <1> QED BY <1>6, <1>7

\* Steps that read nothing keep what is kept of the file.
LEMMA OthersKeep ==
    ASSUME Inv, UNCHANGED <<source, offset, hashed>>, IsBuffer(buffer'),
           buffer'.firstRead = buffer.firstRead,
           buffer'.inbytesleft = buffer.inbytesleft,
           pc' # "new", EndsAtEnd', Released'
    PROVE  Inv'
  <1>1. Bytes(source)' = Bytes(source)
    BY DEF Bytes
  <1>2. Unread'
    BY DEF Inv, Unread
  <1> QED BY <1>1, <1>2 DEF Inv

LEMMA StepKeeps ==
    ASSUME Inv, [Next]_vars
    PROVE  Inv'
  <1>1. ASSUME NEW n \in Sizes, Read(n) PROVE Inv'
    BY <1>1, ReadKeeps
  <1>2. CASE FromMemory
    BY <1>2, MemoryKeeps
  <1>3. CASE FromFile
    <2>1. EndsAtEnd' /\ Released'
      BY <1>3 DEF Inv, FromFile, EndsAtEnd, Released
    <2> QED BY <1>3, <2>1, OthersKeep DEF Inv, FromFile
  <1>4. CASE ReadFails
    <2>1. EndsAtEnd' /\ Released'
      BY <1>4 DEF Inv, ReadFails, EndsAtEnd, Released
    <2>2. /\ IsBuffer(buffer') /\ buffer'.firstRead = buffer.firstRead
          /\ buffer'.inbytesleft = buffer.inbytesleft
      BY <1>4 DEF Inv, ReadFails, IsBuffer, Fields
    <2> QED BY <1>4, <2>1, <2>2, OthersKeep DEF ReadFails
  <1>5. CASE SkipLF
    <2>1. pc \in {"give", "get"}
      BY <1>5 DEF SkipLF, Available
    <2>2. EndsAtEnd' /\ Released'
      BY <1>5, <2>1 DEF Inv, SkipLF, EndsAtEnd, Released
    <2>3. /\ IsBuffer(buffer') /\ buffer'.firstRead = buffer.firstRead
          /\ buffer'.inbytesleft = buffer.inbytesleft
      BY <1>5 DEF Inv, SkipLF, IsBuffer, Fields
    <2> QED BY <1>5, <2>2, <2>3, OthersKeep DEF SkipLF
  <1>6. CASE Give
    <2> DEFINE c == IF Current = CR THEN LF ELSE Current
    <2>1. pc \in {"give", "get"}
      BY <1>6 DEF Give, Available
    <2>2. EndsAtEnd' /\ Released'
      BY <1>6, <2>1 DEF Inv, Give, EndsAtEnd, Released
    <2>3. buffer' = [buffer EXCEPT !.pos = @ + 1, !.lastcr = AfterCR(Current, buffer),
                                   !.lastchar = c,
                                   !.loc = IF c = LF THEN @ + 1 ELSE @]
      BY <1>6 DEF Give
    <2> HIDE DEF c
    <2>4. /\ IsBuffer(buffer') /\ buffer'.firstRead = buffer.firstRead
          /\ buffer'.inbytesleft = buffer.inbytesleft
      BY <2>3 DEF Inv, IsBuffer, Fields
    <2> QED BY <1>6, <2>2, <2>4, OthersKeep DEF Give
  <1>7. CASE Destroy
    <2>1. EndsAtEnd'
      BY <1>7 DEF Destroy, EndsAtEnd
    <2>2. Closes' = Closes
      BY <1>7 DEF Destroy, Closes
    <2>3. closed = 0 /\ pc' = "gone" /\ hash' = <<hashed>> /\ hashed' = hashed
          /\ closed' = closed + (IF Closes THEN 1 ELSE 0)
      BY <1>7 DEF Inv, Destroy, Released
    <2>4. Released'
      BY <2>2, <2>3 DEF Released
    <2> QED BY <1>7, <2>1, <2>4, OthersKeep DEF Inv, Destroy
  <1>8. CASE UNCHANGED vars
    <2>1. Bytes(source)' = Bytes(source) /\ Closes' = Closes
      BY <1>8 DEF vars, Bytes, Closes
    <2> QED BY <1>8, <2>1 DEF vars, Inv, Unread, EndsAtEnd, Released
  <1> QED BY <1>1, <1>2, <1>3, <1>4, <1>5, <1>6, <1>7, <1>8 DEF Next

LEMMA InitHolds ==
    ASSUME Init
    PROVE  Inv
  <1>1. Bytes(source) \in Seq(STRING) /\ source \in Sources
    BY ReadAssumption DEF Init
  <1> DEFINE s == Bytes(source)
  <1> HIDE DEF s
  <1>2. 0 \in 0..Len(s) /\ SubSeq(s, 1, 0) = << >>
    BY <1>1 DEF s
  <1>3. << >> \in Seq(STRING)
    OBVIOUS
  <1>4. IsBuffer(buffer) /\ buffer.firstRead /\ buffer.inbytesleft = << >>
    BY <1>3 DEF Init, NewBuffer, IsBuffer, Fields
  <1>5. Unread /\ EndsAtEnd /\ Released
    BY <1>4 DEF Init, Unread, EndsAtEnd, Released
  <1> QED BY <1>1, <1>2, <1>4, <1>5 DEF Init, Inv, s

LEMMA InvHashesSource ==
    ASSUME Inv
    PROVE  HashesSource
  <1>1. Bytes(source) \in Seq(STRING)
    BY ReadAssumption DEF Inv
  <1>2. hashed = SubSeq(Bytes(source), 1, offset)
    BY DEF Inv
  <1>3. pc = "eof" /\ failed = "no" => hashed = Bytes(source)
    <2> DEFINE s == Bytes(source)
    <2>1. s \in Seq(STRING) /\ hashed = SubSeq(s, 1, offset)
      BY <1>1, <1>2
    <2>2. pc = "eof" /\ failed = "no" => offset = Len(s)
      BY DEF Inv, EndsAtEnd
    <2> HIDE DEF s
    <2>3. SubSeq(s, 1, Len(s)) = s
      BY <2>1
    <2> QED BY <2>1, <2>2, <2>3 DEF s
  <1>4. (hash # << >>) <=> (pc = "gone")
    <2>1. <<hashed>> # << >>
      OBVIOUS
    <2> QED BY <2>1 DEF Inv, Released
  <1>5. pc = "gone" =>
            /\ hash = <<hashed>>
            /\ source.from \in {"memory", "FILE", "fd"} => closed = 0
            /\ source.from = "io" /\ ~ source.close => closed = 0
            /\ source.there /\ source.context /\ source.from \in {"filename", "io"}
                => closed = 1 \/ (source.from = "io" /\ ~ source.close)
    BY DEF Inv, Released, Closes
  <1> QED BY <1>2, <1>3, <1>4, <1>5 DEF HashesSource

-----------------------------------------------------------------------------
(* The theorem *)

\* The user finds as the hash of a source one over each byte of it once and in
\* order, over the whole file when it was read to its end, and what is closed
\* with the buffer is what the buffer opened (the constructors, readChars, the
\* destructor).
THEOREM WholeSourceHashed == Spec => []HashesSource
  <1>1. Init => Inv
    BY InitHolds
  <1>2. Inv /\ [Next]_vars => Inv'
    BY StepKeeps
  <1>3. Inv => HashesSource
    BY InvHashesSource
  <1> QED BY <1>1, <1>2, <1>3, PTL DEF Spec
=============================================================================

-------------------------- MODULE UnitReader_proofs --------------------------
(***************************************************************************)
(* A reader, for every document: the type invariant, that the user and the *)
(* thread that parses never run in the handler together and never wait for *)
(* each other, that the root comes first and a unit is written in its call *)
(* only; and, for every document the library writes, that reading it       *)
(* returns its units.                                                      *)
(***************************************************************************)
EXTENDS UnitReader, FiniteSetTheorems, SequenceTheorems, TLAPS

-----------------------------------------------------------------------------
(* The SAX layer keeps its state within the tokens parsed so far *)

SaxOK(s, p) == s \in SaxState /\ s.text \subseteq 1..p /\ s.base <= p


LEMMA UpdateOK ==
    ASSUME NEW p \in Nat, NEW s, SaxOK(s, p),
           NEW text \in SUBSET (1..p), NEW base \in Nat, base <= p
    PROVE  SaxOK([s EXCEPT !.text = text, !.base = base], p)
  <1> DEFINE t == [s EXCEPT !.text = text, !.base = base]
  <1>1. text \in SUBSET Nat
    OBVIOUS
  <1>2. t \in SaxState
    BY <1>1 DEF SaxOK, SaxState
  <1>3. t.text = text /\ t.base = base
    BY DEF SaxOK, SaxState
  <1> QED BY <1>2, <1>3 DEF SaxOK

LEMMA CollectUpTo ==
    ASSUME NEW p \in Nat \ {0}, NEW q \in 1..p, NEW s, SaxOK(s, p)
    PROVE  SaxOK(Collect(s, q), p)
  <1> DEFINE text == IF s.collect THEN s.text \cup (s.base + 1)..q ELSE s.text
  <1>1. text \in SUBSET (1..p)
    BY DEF SaxOK, SaxState
  <1>2. Collect(s, q) = [s EXCEPT !.text = text, !.base = q]
    BY DEF Collect, SaxOK, SaxState
  <1>3. p \in Nat /\ q \in Nat /\ q <= p
    OBVIOUS
  <1> HIDE DEF text
  <1>4. SaxOK([s EXCEPT !.text = text, !.base = q], p)
    BY <1>1, <1>3, UpdateOK
  <1> QED BY <1>2, <1>4

LEMMA CollectOK ==
    ASSUME NEW p \in Nat \ {0}, NEW s, SaxOK(s, p)
    PROVE  SaxOK(Collect(s, p), p)
  <1>1. p \in 1..p
    OBVIOUS
  <1> QED BY <1>1, CollectUpTo

LEMMA StartTextOK ==
    ASSUME NEW p \in Nat \ {0}, NEW s, SaxOK(s, p)
    PROVE  SaxOK(StartText(s, p), p)
  <1>1. {p} \in SUBSET (1..p)
    OBVIOUS
  <1>2. p \in Nat /\ p <= p
    OBVIOUS
  <1>3. SaxOK([s EXCEPT !.text = {p}, !.base = p], p)
    BY <1>1, <1>2, UpdateOK
  <1> QED BY <1>3 DEF StartText

\* sequences of calls, about tokens up to p
CallSeq(p) == Seq(Calls \X (1..p))

DoesOK(d, p) == SaxOK(d.sax, p) /\ d.calls \in CallSeq(p)

LEMMA DoesIs ==
    ASSUME NEW p, NEW s, NEW c, SaxOK(s, p), c \in CallSeq(p)
    PROVE  DoesOK(Does(s, c), p)
  BY DEF DoesOK, Does

LEMMA CallsJoin ==
    ASSUME NEW p, NEW a \in CallSeq(p), NEW b \in CallSeq(p)
    PROVE  a \o b \in CallSeq(p)
  BY DEF CallSeq

LEMMA Sequences1 ==
    ASSUME NEW S, NEW a \in S, NEW b \in S, NEW c \in S
    PROVE  /\ << >> \in Seq(S) /\ <<a>> \in Seq(S)
           /\ <<a, b>> \in Seq(S) /\ <<a, b, c>> \in Seq(S)
  <1>1. << >> \in Seq(S)
    OBVIOUS
  <1>2. <<a>> \in Seq(S)
    OBVIOUS
  <1>3. <<a, b>> \in Seq(S)
    OBVIOUS
  <1>4. <<a, b, c>> \in Seq(S)
    OBVIOUS
  <1> QED BY <1>1, <1>2, <1>3, <1>4

LEMMA CallSeqs ==
    ASSUME NEW p \in Nat \ {0}, NEW i \in 1..p, NEW j \in 1..p, NEW k \in 1..p,
           NEW a \in Calls, NEW b \in Calls, NEW c \in Calls
    PROVE  /\ << >> \in CallSeq(p) /\ << <<a, i>> >> \in CallSeq(p)
           /\ << <<a, i>>, <<b, j>> >> \in CallSeq(p)
           /\ << <<a, i>>, <<b, j>>, <<c, k>> >> \in CallSeq(p)
  <1>1. <<a, i>> \in Calls \X (1..p) /\ <<b, j>> \in Calls \X (1..p)
        /\ <<c, k>> \in Calls \X (1..p)
    OBVIOUS
  <1> QED BY <1>1, Sequences1 DEF CallSeq

LEMMA CallbacksOK ==
    ASSUME NEW p \in Nat, NEW s, SaxOK(s, p)
    PROVE  SaxOK(Callbacks(s), p)
  BY DEF SaxOK, Callbacks, SaxState

LEMMA FirstOK ==
    ASSUME NEW p \in Nat \ {0}, NEW s, SaxOK(s, p), NEW name
    PROVE  DoesOK(First(s, p, name), p)
  <1>1. 1 \in 1..p /\ p \in 1..p
    OBVIOUS
  <1>2. CASE name = "macro-list"
    <2>1. << >> \in CallSeq(p)
      BY DEF CallSeq
    <2> QED BY <1>2, <2>1 DEF First, Does, DoesOK
  <1>3. CASE name = "unit"
    <2> DEFINE t == [StartText(s, p) EXCEPT !.isArchive = TRUE, !.rootcalled = TRUE]
               c == << <<"startRoot", 1>>, <<"startUnit", p>>, <<"callbacks", p>> >>
    <2>1. SaxOK(StartText(s, p), p)
      BY StartTextOK
    <2>2. SaxOK(t, p)
      BY <2>1 DEF SaxOK, SaxState
    <2>3. c \in CallSeq(p)
      BY <1>1, CallSeqs DEF Calls
    <2>4. First(s, p, name) = Does(t, c)
      BY <1>3 DEF First
    <2> HIDE DEF t, c
    <2> QED BY <2>2, <2>3, <2>4, DoesIs
  <1>4. CASE name \notin {"macro-list", "unit"}
    <2> DEFINE t == [s EXCEPT !.onStart = "element", !.rootcalled = TRUE]
               c == << <<"startRoot", 1>>, <<"startUnit", 1>>, <<"element", p>> >>
    <2>1. SaxOK(t, p)
      BY DEF SaxOK, SaxState
    <2>2. c \in CallSeq(p)
      BY <1>1, CallSeqs DEF Calls
    <2>3. First(s, p, name) = Does(t, c)
      BY <1>4 DEF First
    <2> HIDE DEF t, c
    <2> QED BY <2>1, <2>2, <2>3, DoesIs
  <1> QED BY <1>2, <1>3, <1>4

LEMMA StartTagOK ==
    ASSUME NEW p \in Nat \ {0}, NEW s, SaxOK(s, p), NEW name,
           NEW empty \in BOOLEAN
    PROVE  DoesOK(StartTag(s, p, name, empty), p)
  <1>1. p \in 1..p /\ << >> \in CallSeq(p)
    <2>1. << >> \in CallSeq(p)
      BY DEF CallSeq
    <2> QED BY <2>1
  <1>2. CASE s.onStart = "root"
    <2> DEFINE u == Callbacks(StartText(s, p))
               t == [u EXCEPT !.onStart = "first", !.rootcalled = empty]
               c == IF empty THEN << <<"startRoot", p>>, <<"startUnit", p>> >>
                             ELSE << >>
    <2>1. SaxOK(u, p)
      BY StartTextOK, CallbacksOK
    <2>2. SaxOK(t, p)
      BY <2>1 DEF SaxOK, SaxState
    <2>3. c \in CallSeq(p)
      BY <1>1, CallSeqs DEF Calls
    <2>4. StartTag(s, p, name, empty) = Does(t, c)
      BY <1>2 DEF StartTag
    <2> HIDE DEF t, c
    <2> QED BY <2>2, <2>3, <2>4, DoesIs
  <1>3. CASE s.onStart = "first"
    BY <1>3, FirstOK DEF StartTag
  <1>4. CASE s.onStart = "unit"
    <2> DEFINE c == << <<"startUnit", p>>, <<"callbacks", p>> >>
    <2>1. c \in CallSeq(p)
      BY <1>1, CallSeqs DEF Calls
    <2>2. StartTag(s, p, name, empty) = Does(StartText(s, p), c)
      BY <1>4 DEF StartTag
    <2> HIDE DEF c
    <2> QED BY <2>1, <2>2, StartTextOK, DoesIs
  <1>5. CASE s.onStart = "element"
    BY <1>1, <1>5, CollectOK DEF StartTag, Does, DoesOK
  <1>6. CASE s.onStart = "none"
    BY <1>1, <1>6 DEF StartTag, Does, DoesOK
  <1> QED BY <1>2, <1>3, <1>4, <1>5, <1>6 DEF SaxOK, SaxState

LEMMA EndTagOK ==
    ASSUME NEW p \in Nat \ {0}, NEW s, SaxOK(s, p), NEW name, NEW d \in Int
    PROVE  DoesOK(EndTag(s, p, name, d), p)
  <1> DEFINE unitEnds == name = "unit" /\ EndsUnit(s, d)
             rootEnds == name = "unit" /\ d = 1
             u == Collect(s, p)
             t == [u EXCEPT !.onStart = IF unitEnds THEN "unit" ELSE @,
                            !.onText = IF unitEnds THEN "root" ELSE @,
                            !.rootcalled = @ \/ rootEnds]
             a == IF unitEnds THEN << <<"endUnit", p>> >> ELSE << >>
             b == LateRoot(s, p) \o << <<"endRoot", p>> >>
             c == IF rootEnds THEN b ELSE << >>
  <1>1. p \in 1..p /\ 1 \in 1..p
    OBVIOUS
  <1>2. << >> \in CallSeq(p)
    BY DEF CallSeq
  <1>3. SaxOK(u, p)
    BY CollectOK
  <1>4. SaxOK(t, p)
    BY <1>3 DEF SaxOK, SaxState
  <1>5. a \in CallSeq(p)
    BY <1>1, <1>2, CallSeqs DEF Calls
  <1>6. LateRoot(s, p) \in CallSeq(p)
    BY <1>1, <1>2, CallSeqs DEF LateRoot, Calls
  <1>7. << <<"endRoot", p>> >> \in CallSeq(p)
    BY <1>1, CallSeqs DEF Calls
  <1>8. b \in CallSeq(p)
    BY <1>6, <1>7, CallsJoin
  <1>9. c \in CallSeq(p)
    BY <1>2, <1>8
  <1>10. a \o c \in CallSeq(p)
    BY <1>5, <1>9, CallsJoin
  <1>11. EndTag(s, p, name, d) = Does(t, a \o c)
    BY DEF EndTag
  <1> HIDE DEF t, a, c
  <1> QED BY <1>4, <1>10, <1>11, DoesIs

LEMMA TextOK ==
    ASSUME NEW p \in Nat \ {0}, NEW s, SaxOK(s, p)
    PROVE  SaxOK(Text(s, p), p)
  <1>1. SaxOK(Collect(s, p), p)
    BY CollectOK
  <1>2. SaxOK([s EXCEPT !.base = p], p)
    BY DEF SaxOK, SaxState
  <1> QED BY <1>1, <1>2 DEF Text, SaxOK, SaxState

LEMMA CallbackOK ==
    ASSUME NEW p \in Nat \ {0}, NEW s, SaxOK(s, p), NEW token \in Token,
           token.tag # "error", NEW d \in Int
    PROVE  DoesOK(Callback(s, p, token, d), p)
  <1>1. CASE token.tag \in {"start", "empty"}
    <2>1. Callback(s, p, token, d)
             = StartTag(s, p, token.name, token.tag = "empty")
      BY <1>1 DEF Callback
    <2>2. (token.tag = "empty") \in BOOLEAN
      OBVIOUS
    <2>3. DoesOK(StartTag(s, p, token.name, token.tag = "empty"), p)
      BY <2>2, StartTagOK
    <2> QED BY <2>1, <2>3
  <1>2. CASE token.tag = "end"
    <2>1. Callback(s, p, token, d) = EndTag(s, p, token.name, d)
      BY <1>2 DEF Callback
    <2> QED BY <2>1, EndTagOK
  <1>3. CASE token.tag = "text"
    <2>1. Callback(s, p, token, d) = Does(Text(s, p), << >>)
      BY <1>3 DEF Callback
    <2>2. << >> \in CallSeq(p)
      BY DEF CallSeq
    <2> QED BY <2>1, <2>2, TextOK DEF Does, DoesOK
  <1> QED BY <1>1, <1>2, <1>3 DEF Token, Tags

-----------------------------------------------------------------------------
(* Type correctness *)

(* the three parts of TypeOK *)

ParserTypes ==
    /\ doc \in Documents
    /\ pos \in 0..Len(doc) /\ depth \in Int /\ stopped \in BOOLEAN
    /\ sax \in SaxState /\ sax.text \subseteq 1..pos /\ sax.base <= pos
    /\ calls \in Seq(Calls \X (1..pos))
    /\ ppc \in {"parse", "root", "unit", "header", "end", "failed", "ended"}
    /\ ppc \in {"root", "unit", "header", "end"} => calls # << >>

FlagTypes ==
    /\ waiting \subseteq Threads
    /\ isDone \in BOOLEAN /\ terminate \in BOOLEAN /\ waitRoot \in BOOLEAN
    /\ readRoot \in BOOLEAN
    /\ collectHeader \in BOOLEAN /\ collectBody \in BOOLEAN
    /\ unit \in {"none", "object"}
    /\ rootSeen \in BOOLEAN

UserTypes ==
    /\ object \in [attrs : 0..pos, ns : SUBSET (1..pos), text : SUBSET (1..pos)]
    /\ op \in {"read", "skip"} /\ notDone \in BOOLEAN /\ readBody \in BOOLEAN
    /\ call \in {"open", "idle", "header", "body", "free", "freed"}
    /\ at \in {"user", "begin", "enter", "holds", "waits", "left", "stop",
               "resume", "join"}
    /\ taken \in Int /\ result \in [from : 0..pos, text : SUBSET (1..pos)]

LEMMA InitType == Init => TypeOK
  <1> SUFFICES ASSUME Init PROVE TypeOK
    OBVIOUS
  <1>1. sax \in SaxState /\ sax.text = {} /\ sax.base = 0
    BY DEF Init, SaxInit, SaxState
  <1>2. calls \in Seq(Calls \X (1..pos))
    BY DEF Init
  <1>3. object \in [attrs : 0..pos, ns : SUBSET (1..pos), text : SUBSET (1..pos)]
    BY DEF Init, NewUnit
  <1>4. result \in [from : 0..pos, text : SUBSET (1..pos)]
    BY DEF Init, Nothing
  <1>5. call = "open" /\ at = "enter"
    BY DEF Init
  <1>6. doc \in Seq(Token)
    BY DocumentsAssumption DEF Init
  <1>7. pos \in 0..Len(doc)
    BY <1>6 DEF Init
  <1>8. sax.text \subseteq 1..pos /\ sax.base <= pos
    BY <1>1 DEF Init
  <1>9. depth \in Int /\ taken \in Int /\ waiting \subseteq Threads
    BY DEF Init
  <1> QED BY <1>1, <1>2, <1>3, <1>4, <1>5, <1>7, <1>8, <1>9 DEF Init, TypeOK

LEMMA TokenType ==
    ASSUME TypeOK, NextToken
    PROVE  TypeOK'
  <1> DEFINE token == doc[pos + 1]
             does == Callback(sax, pos + 1, token, depth)
  <1>1. doc \in Seq(Token) /\ pos \in Nat /\ pos < Len(doc)
    BY DocumentsAssumption DEF TypeOK, NextToken
  <1>2. token \in Token /\ token.tag # "error"
    BY <1>1 DEF NextToken
  <1>3. SaxOK(sax, pos + 1)
    <2>1. sax.text \subseteq 1..(pos + 1)
      BY <1>1 DEF TypeOK
    <2> QED BY <1>1, <2>1 DEF TypeOK, SaxOK, SaxState
  <1>4. pos + 1 \in Nat \ {0} /\ depth \in Int
    BY <1>1 DEF TypeOK
  <1>5. DoesOK(does, pos + 1)
    BY <1>2, <1>3, <1>4, CallbackOK
  <1>6. sax' = does.sax /\ calls' = does.calls /\ pos' = pos + 1
    BY DEF NextToken
  <1>7. depth' \in Int
    BY <1>4 DEF NextToken
  <1> HIDE DEF does
  <1>8. /\ sax' \in SaxState /\ sax'.text \subseteq 1..pos' /\ sax'.base <= pos'
        /\ calls' \in Seq(Calls \X (1..pos'))
    BY <1>5, <1>6 DEF DoesOK, SaxOK, CallSeq
  <1>9. 1..pos \subseteq 1..pos' /\ 0..pos \subseteq 0..pos' /\ pos' \in 0..Len(doc)
    BY <1>1, <1>6
  <1>10. object' \in [attrs : 0..pos', ns : SUBSET (1..pos'),
                      text : SUBSET (1..pos')]
    BY <1>9 DEF NextToken, TypeOK
  <1>11. result' \in [from : 0..pos', text : SUBSET (1..pos')]
    BY <1>9 DEF NextToken, TypeOK, history, userVars
  <1> QED
    BY <1>7, <1>8, <1>9, <1>10, <1>11
    DEF NextToken, TypeOK, flagVars, callVars, history, userVars

\* the token a call is about, and the rest of the calls
LEMMA CallType ==
    ASSUME TypeOK, calls # << >>
    PROVE  Here \in 1..pos /\ Tail(calls) \in Seq(Calls \X (1..pos))
  <1>1. Head(calls) \in Calls \X (1..pos)
    BY DEF TypeOK
  <1>2. Head(calls)[2] \in 1..pos
    BY <1>1
  <1>3. Tail(calls) \in Seq(Calls \X (1..pos))
    BY DEF TypeOK
  <1> QED BY <1>2, <1>3 DEF Here

LEMMA ParserType ==
    ASSUME TypeOK, Parser
    PROVE  TypeOK'
  <1> USE DEF flagVars, callVars, history, userVars
  <1>1. CASE NextToken
    BY <1>1, TokenType
  <1>2. CASE ParseEnds
    BY <1>2 DEF TypeOK, ParseEnds
  <1>3. CASE ParseFails
    BY <1>3 DEF TypeOK, ParseFails
  <1>4. CASE DoneNotifies
    BY <1>4 DEF TypeOK, DoneNotifies
  <1>5. CASE StartRoot
    <2>1. calls' \in Seq(Calls \X (1..pos)) /\ ppc' = "parse"
      BY <1>5, CallType DEF StartRoot, At, Return
    <2>2. rootSeen' \in BOOLEAN
      BY <1>5 DEF StartRoot
    <2>11. ParserTypes'
      BY <1>5, <2>1, <2>2 DEF TypeOK, StartRoot, ParserTypes
    <2>12. FlagTypes'
      BY <1>5, <2>1, <2>2 DEF TypeOK, StartRoot, FlagTypes
    <2>13. UserTypes'
      BY <1>5, <2>1, <2>2 DEF TypeOK, StartRoot, UserTypes
    <2> QED BY <2>11, <2>12, <2>13 DEF TypeOK, ParserTypes, FlagTypes, UserTypes
  <1>6. CASE PauseAtRoot
    <2>1. calls' = calls /\ calls # << >> /\ ppc' = "root"
      BY <1>6 DEF PauseAtRoot, At
    <2>2. stopped' \in BOOLEAN /\ isDone' \in BOOLEAN /\ waitRoot' \in BOOLEAN
      BY <1>6 DEF PauseAtRoot, StopIf, TypeOK
    <2>3. waiting' \subseteq Threads
      BY <1>6 DEF PauseAtRoot, Threads
    <2>11. ParserTypes'
      BY <1>6, <2>1, <2>2, <2>3 DEF TypeOK, PauseAtRoot, ParserTypes
    <2>12. FlagTypes'
      BY <1>6, <2>1, <2>2, <2>3 DEF TypeOK, PauseAtRoot, FlagTypes
    <2>13. UserTypes'
      BY <1>6, <2>1, <2>2, <2>3 DEF TypeOK, PauseAtRoot, UserTypes
    <2> QED BY <2>11, <2>12, <2>13 DEF TypeOK, ParserTypes, FlagTypes, UserTypes
  <1>7. CASE LeaveRoot
    <2>1. calls' \in Seq(Calls \X (1..pos)) /\ ppc' = "parse"
      BY <1>7, CallType DEF LeaveRoot, Return, TypeOK
    <2> QED BY <1>7, <2>1 DEF TypeOK, LeaveRoot, StopIf
  <1>8. CASE Attributes
    <2>1. Here \in 0..pos
      <3>1. Here \in 1..pos
        BY <1>8, CallType DEF Attributes, At
      <3> QED BY <3>1
    <2>2. object' \in [attrs : 0..pos, ns : SUBSET (1..pos), text : SUBSET (1..pos)]
      BY <1>8, <2>1 DEF TypeOK, Attributes
    <2>3. /\ sax' \in SaxState
          /\ sax'.text = sax.text /\ sax'.base = sax.base
      BY <1>8 DEF TypeOK, Attributes, SaxState
    <2>4. calls' = calls /\ calls # << >> /\ ppc' = "unit"
      BY <1>8 DEF Attributes, At
    <2>11. ParserTypes'
      BY <1>8, <2>2, <2>3, <2>4 DEF TypeOK, Attributes, ParserTypes
    <2>12. FlagTypes'
      BY <1>8, <2>2, <2>3, <2>4 DEF TypeOK, Attributes, FlagTypes
    <2>13. UserTypes'
      BY <1>8, <2>2, <2>3, <2>4 DEF TypeOK, Attributes, UserTypes
    <2> QED BY <2>11, <2>12, <2>13 DEF TypeOK, ParserTypes, FlagTypes, UserTypes
  <1>9. CASE PauseAtHeader
    BY <1>9 DEF TypeOK, PauseAtHeader, StopIf, Threads
  <1>10. CASE LeaveHeader
    <2>1. Here \in 1..pos /\ Tail(calls) \in Seq(Calls \X (1..pos))
      BY <1>10, CallType DEF LeaveHeader, TypeOK
    <2>2. object' \in [attrs : 0..pos, ns : SUBSET (1..pos), text : SUBSET (1..pos)]
      BY <1>10, <2>1 DEF TypeOK, LeaveHeader
    <2>3. /\ sax' \in SaxState
          /\ sax'.text = sax.text /\ sax'.base = sax.base
      BY <1>10 DEF TypeOK, LeaveHeader, SaxState
    <2>4. stopped' \in BOOLEAN /\ isDone' \in BOOLEAN
      BY <1>10 DEF LeaveHeader, StopIf, TypeOK
    <2>5. calls' \in Seq(Calls \X (1..pos)) /\ ppc' = "parse"
      BY <1>10, <2>1 DEF LeaveHeader, Return
    <2>11. ParserTypes'
      BY <1>10, <2>2, <2>3, <2>4, <2>5 DEF TypeOK, LeaveHeader, ParserTypes
    <2>12. FlagTypes'
      BY <1>10, <2>2, <2>3, <2>4, <2>5 DEF TypeOK, LeaveHeader, FlagTypes
    <2>13. UserTypes'
      BY <1>10, <2>2, <2>3, <2>4, <2>5 DEF TypeOK, LeaveHeader, UserTypes
    <2> QED BY <2>11, <2>12, <2>13 DEF TypeOK, ParserTypes, FlagTypes, UserTypes
  <1>11. CASE AfterCall
    <2>1. Here \in 1..pos /\ Tail(calls) \in Seq(Calls \X (1..pos))
      BY <1>11, CallType DEF AfterCall, At
    <2>2. SaxOK(sax, pos)
      BY DEF TypeOK, SaxOK
    <2>3. SaxOK(sax', pos)
      <3>1. CASE sax' = Callbacks(sax)
        <4>1. pos \in Nat
          BY DEF TypeOK
        <4> QED BY <2>2, <3>1, <4>1, CallbacksOK
      <3>2. CASE sax' = Collect(sax, Here)
        <4>1. pos \in Nat \ {0}
          BY <2>1 DEF TypeOK
        <4> QED BY <2>1, <2>2, <3>2, <4>1, CollectUpTo
      <3> QED BY <1>11, <3>1, <3>2 DEF AfterCall
    <2> QED BY <1>11, <2>1, <2>3 DEF TypeOK, AfterCall, Return, SaxOK
  <1>12. CASE PauseAtEnd
    <2>1. object' \in [attrs : 0..pos, ns : SUBSET (1..pos), text : SUBSET (1..pos)]
      BY <1>12 DEF TypeOK, PauseAtEnd
    <2>2. sax' \in SaxState /\ sax'.text = {} /\ sax'.base = sax.base
      <3>1. {} \in SUBSET Nat
        OBVIOUS
      <3>2. sax' = [sax EXCEPT !.text = {}]
        BY <1>12 DEF PauseAtEnd
      <3> QED BY <3>1, <3>2 DEF TypeOK, SaxState
    <2>3. stopped' \in BOOLEAN /\ isDone' \in BOOLEAN
      BY <1>12 DEF PauseAtEnd, StopIf, TypeOK
    <2>4. waiting' \subseteq Threads
      BY <1>12 DEF PauseAtEnd, Threads
    <2>5. calls' = calls /\ calls # << >> /\ ppc' = "end"
      BY <1>12 DEF PauseAtEnd, At
    <2>6. sax'.text \subseteq 1..pos /\ sax'.base <= pos
      BY <2>2 DEF TypeOK
    <2>11. ParserTypes'
      BY <1>12, <2>1, <2>2, <2>3, <2>4, <2>5, <2>6 DEF TypeOK, PauseAtEnd, ParserTypes
    <2>12. FlagTypes'
      BY <1>12, <2>1, <2>2, <2>3, <2>4, <2>5, <2>6 DEF TypeOK, PauseAtEnd, FlagTypes
    <2>13. UserTypes'
      BY <1>12, <2>1, <2>2, <2>3, <2>4, <2>5, <2>6 DEF TypeOK, PauseAtEnd, UserTypes
    <2> QED BY <2>11, <2>12, <2>13 DEF TypeOK, ParserTypes, FlagTypes, UserTypes
  <1>13. CASE LeaveEnd
    <2>11. ParserTypes'
      BY <1>13, CallType DEF TypeOK, LeaveEnd, StopIf, Return, ParserTypes
    <2>12. FlagTypes'
      BY <1>13, CallType DEF TypeOK, LeaveEnd, StopIf, Return, FlagTypes
    <2>13. UserTypes'
      BY <1>13, CallType DEF TypeOK, LeaveEnd, StopIf, Return, UserTypes
    <2> QED BY <2>11, <2>12, <2>13 DEF TypeOK, ParserTypes, FlagTypes, UserTypes
  <1>14. CASE PassEnd
    <2>11. ParserTypes'
      BY <1>14, CallType DEF TypeOK, PassEnd, StopIf, At, Return, ParserTypes
    <2>12. FlagTypes'
      BY <1>14, CallType DEF TypeOK, PassEnd, StopIf, At, Return, FlagTypes
    <2>13. UserTypes'
      BY <1>14, CallType DEF TypeOK, PassEnd, StopIf, At, Return, UserTypes
    <2> QED BY <2>11, <2>12, <2>13 DEF TypeOK, ParserTypes, FlagTypes, UserTypes
  <1>15. CASE EndRoot
    <2>11. ParserTypes'
      BY <1>15, CallType DEF TypeOK, EndRoot, At, Return, ParserTypes
    <2>12. FlagTypes'
      BY <1>15, CallType DEF TypeOK, EndRoot, At, Return, FlagTypes
    <2>13. UserTypes'
      BY <1>15, CallType DEF TypeOK, EndRoot, At, Return, UserTypes
    <2> QED BY <2>11, <2>12, <2>13 DEF TypeOK, ParserTypes, FlagTypes, UserTypes
  <1> QED
    BY <1>1, <1>2, <1>3, <1>4, <1>5, <1>6, <1>7, <1>8, <1>9, <1>10, <1>11,
       <1>12, <1>13, <1>14, <1>15 DEF Parser, StartUnit, EndUnit

LEMMA UserType ==
    ASSUME TypeOK, Continues \/ Call \/ Free
    PROVE  TypeOK'
  <1> USE DEF userFrame, parserVars, callVars, history, Reaches
  <1>1. CASE EnterWait
    BY <1>1 DEF TypeOK, EnterWait
  <1>2. CASE EnterResume
    BY <1>2 DEF TypeOK, EnterResume
  <1>3. CASE Wait
    <2>1. waiting' \subseteq Threads
      BY <1>3 DEF TypeOK, Wait, Threads
    <2> QED BY <1>3, <2>1 DEF TypeOK, Wait
  <1>4. CASE Wake
    BY <1>4 DEF TypeOK, Wake
  <1>5. CASE Call
    <2>1. object' \in [attrs : 0..pos, ns : SUBSET (1..pos), text : SUBSET (1..pos)]
      BY <1>5 DEF TypeOK, Call, NewUnit
    <2>2. /\ call' \in {"body", "header"} /\ at' \in {"begin", "enter"}
          /\ collectHeader' \in BOOLEAN /\ collectBody' \in BOOLEAN
      BY <1>5 DEF TypeOK, Call
    <2>11. ParserTypes'
      BY <1>5, <2>1, <2>2 DEF TypeOK, Call, ParserTypes
    <2>12. FlagTypes'
      BY <1>5, <2>1, <2>2 DEF TypeOK, Call, FlagTypes
    <2>13. UserTypes'
      BY <1>5, <2>1, <2>2 DEF TypeOK, Call, UserTypes
    <2> QED BY <2>11, <2>12, <2>13 DEF TypeOK, ParserTypes, FlagTypes, UserTypes
  <1>6. CASE HeaderDone
    <2>11. ParserTypes'
      BY <1>6 DEF TypeOK, HeaderDone, ParserTypes
    <2>12. FlagTypes'
      BY <1>6 DEF TypeOK, HeaderDone, FlagTypes
    <2>13. UserTypes'
      BY <1>6 DEF TypeOK, HeaderDone, UserTypes
    <2> QED BY <2>11, <2>12, <2>13 DEF TypeOK, ParserTypes, FlagTypes, UserTypes
  <1>7. CASE BodyBegins
    BY <1>7 DEF TypeOK, BodyBegins
  <1>8. ASSUME NEW read \in BOOLEAN, Returns(read)
        PROVE  /\ result' \in [from : 0..pos, text : SUBSET (1..pos)]
               /\ taken' \in Int /\ call' = "idle" /\ at' = "user"
    <2>1. [from |-> object.attrs, text |-> object.text]
             \in [from : 0..pos, text : SUBSET (1..pos)]
      BY DEF TypeOK
    <2>2. [from |-> object.attrs, text |-> {}]
             \in [from : 0..pos, text : SUBSET (1..pos)]
      BY DEF TypeOK
    <2>3. Nothing \in [from : 0..pos, text : SUBSET (1..pos)]
      BY DEF TypeOK, Nothing
    <2>4. \/ result' = [from |-> object.attrs, text |-> object.text]
          \/ result' = [from |-> object.attrs, text |-> {}]
          \/ result' = Nothing
      BY <1>8 DEF Returns
    <2>5. taken' \in Int
      BY <1>8 DEF TypeOK, Returns
    <2> QED BY <1>8, <2>1, <2>2, <2>3, <2>4, <2>5 DEF Returns
  <1>9. CASE NoBody
    <2>1. /\ result' \in [from : 0..pos, text : SUBSET (1..pos)]
          /\ taken' \in Int /\ call' = "idle" /\ at' = "user"
      BY <1>8, <1>9 DEF NoBody
    <2> QED BY <1>9, <2>1 DEF TypeOK, NoBody
  <1>10. CASE BodyDone
    <2>1. (~ isDone) \in BOOLEAN
      OBVIOUS
    <2>2. readBody' \in BOOLEAN
      BY <1>10 DEF BodyDone
    <2>3. Returns(~ isDone)
      BY <1>10 DEF BodyDone
    <2>4. /\ result' \in [from : 0..pos, text : SUBSET (1..pos)]
          /\ taken' \in Int /\ call' = "idle" /\ at' = "user"
      BY <1>8, <2>1, <2>3
    <2>11. ParserTypes'
      BY <1>10, <2>2, <2>4 DEF TypeOK, BodyDone, ParserTypes
    <2>12. FlagTypes'
      BY <1>10, <2>2, <2>4 DEF TypeOK, BodyDone, FlagTypes
    <2>13. UserTypes'
      BY <1>10, <2>2, <2>4 DEF TypeOK, BodyDone, UserTypes
    <2> QED BY <2>11, <2>12, <2>13 DEF TypeOK, ParserTypes, FlagTypes, UserTypes
  <1>11. CASE Free
    BY <1>11 DEF TypeOK, Free
  <1>12. CASE Stop
    BY <1>12 DEF TypeOK, Stop
  <1>13. CASE Resume
    BY <1>13 DEF TypeOK, Resume
  <1>14. CASE Join
    BY <1>14 DEF TypeOK, Join
  <1> QED
    BY <1>1, <1>2, <1>3, <1>4, <1>5, <1>6, <1>7, <1>9, <1>10, <1>11, <1>12,
       <1>13, <1>14 DEF Continues

LEMMA TypeStep == TypeOK /\ [Next]_vars => TypeOK'
  <1> SUFFICES ASSUME TypeOK, [Next]_vars PROVE TypeOK'
    OBVIOUS
  <1>1. CASE UNCHANGED vars
    BY <1>1 DEF TypeOK, vars, parserVars, flagVars, callVars, history, userVars
  <1> QED BY <1>1, ParserType, UserType DEF Next, Terminating

\* Every state of the reader, of the parser and of the SAX layer has its
\* type, and a text never reaches beyond what has been parsed, for every
\* document (srcml_reader_handler, sax2_srcsax_handler).
THEOREM TypeCorrect == Spec => []TypeOK
  <1> QED BY InitType, TypeStep, PTL DEF Spec

-----------------------------------------------------------------------------
(* The hand-over of control *)

Paused == {"root", "header", "end"}

\* who waits, and where
WaitInv ==
    /\ "user" \in waiting => at = "waits"
    /\ "parser" \in waiting => ppc \in Paused
    /\ at = "holds" => "parser" \notin waiting
    /\ NeverBothWait

\* until the parser has paused at the first unit the user asks for nothing
RootInv ==
    /\ waitRoot => ~ readRoot /\ ppc \in {"parse", "failed", "ended"}
    /\ collectHeader \/ collectBody => ~ waitRoot
    /\ call # "open" /\ ~ isDone => ~ waitRoot
    /\ call = "open" /\ ~ waitRoot => waiting = {"parser"}
    /\ ppc = "failed" => isDone

\* a user that was woken will run
HandInv ==
    /\ HandOff
    /\ at = "waits" /\ "user" \notin waiting => waiting = {"parser"} \/ isDone
    /\ call = "idle" => at = "user"
    /\ call = "open" => at \in {"enter", "holds", "waits"}

Inv == TypeOK /\ WaitInv /\ RootInv /\ HandInv

\* what the steps of the user leave alone
LEMMA UserFrame ==
    ASSUME Continues \/ Call \/ Free
    PROVE  UNCHANGED <<doc, pos, depth, stopped, sax, calls, ppc, isDone,
                       waitRoot, readRoot, rootSeen>>
  BY DEF Continues, Call, Free, EnterWait, EnterResume, Wait, Wake, HeaderDone,
         BodyBegins, NoBody, BodyDone, Stop, Resume, Join, userFrame, parserVars

\* what those of the parser leave alone
LEMMA ParserFrame ==
    ASSUME TypeOK, Parser
    PROVE  /\ UNCHANGED <<doc, terminate, collectHeader, collectBody, unit, op,
                          notDone, readBody, call, at, taken, result>>
           /\ isDone => isDone'
  <1> isDone \in BOOLEAN
    BY DEF TypeOK
  <1> USE DEF flagVars, userVars, StopIf
  <1>1. CASE NextToken
    BY <1>1 DEF NextToken
  <1>2. CASE ParseEnds
    BY <1>2 DEF ParseEnds
  <1>3. CASE ParseFails
    BY <1>3 DEF ParseFails
  <1>4. CASE DoneNotifies
    BY <1>4 DEF DoneNotifies
  <1>5. CASE StartRoot
    BY <1>5 DEF StartRoot
  <1>6. CASE PauseAtRoot
    BY <1>6 DEF PauseAtRoot
  <1>7. CASE LeaveRoot
    BY <1>7 DEF LeaveRoot
  <1>8. CASE Attributes
    BY <1>8 DEF Attributes
  <1>9. CASE PauseAtHeader
    BY <1>9 DEF PauseAtHeader
  <1>10. CASE LeaveHeader
    BY <1>10 DEF LeaveHeader
  <1>11. CASE AfterCall
    BY <1>11 DEF AfterCall
  <1>12. CASE PauseAtEnd
    BY <1>12 DEF PauseAtEnd
  <1>13. CASE LeaveEnd
    BY <1>13 DEF LeaveEnd
  <1>14. CASE PassEnd
    BY <1>14 DEF PassEnd
  <1>15. CASE EndRoot
    BY <1>15 DEF EndRoot
  <1> QED
    BY <1>1, <1>2, <1>3, <1>4, <1>5, <1>6, <1>7, <1>8, <1>9, <1>10, <1>11,
       <1>12, <1>13, <1>14, <1>15 DEF Parser, StartUnit, EndUnit

\* A parser that moves is not waiting, and either pauses, and waits, or does
\* not: then at most it wakes the user, and ends the reading if it does.
LEMMA ParserMoves ==
    ASSUME TypeOK, WaitInv, RootInv, Parser
    PROVE  /\ "parser" \notin waiting
           /\ \/ /\ at # "holds" /\ waiting' = {"parser"} /\ ppc' \in Paused
                 /\ waitRoot' => waitRoot /\ ppc' = "end" /\ collectBody
                 /\ ppc' = "header" => collectHeader /\ ~ waitRoot
                 /\ readRoot' = readRoot
              \/ /\ waiting' = waiting /\ ppc' \notin Paused
                 /\ waitRoot' = waitRoot
                 /\ ppc' = "failed" => isDone'
                 /\ readRoot' # readRoot => ~ waitRoot
                 /\ ppc' = "unit" => readRoot
              \/ /\ waiting' = waiting \ {"user"} /\ isDone'
                 /\ ppc' \in {"parse", "ended"}
                 /\ UNCHANGED <<waitRoot, readRoot>>
  <1> USE DEF flagVars, userVars, StopIf, Paused, MutexFree, WaitInv, Return
  <1>1. CASE NextToken
    BY <1>1 DEF NextToken, TypeOK
  <1>2. CASE ParseEnds
    BY <1>2 DEF ParseEnds
  <1>3. CASE ParseFails
    BY <1>3 DEF ParseFails
  <1>4. CASE DoneNotifies
    BY <1>4 DEF DoneNotifies, RootInv
  <1>5. CASE StartRoot
    BY <1>5 DEF StartRoot
  <1>6. CASE PauseAtRoot
    BY <1>6 DEF PauseAtRoot
  <1>7. CASE LeaveRoot
    BY <1>7 DEF LeaveRoot, RootInv
  <1>8. CASE Attributes
    BY <1>8 DEF Attributes
  <1>9. CASE PauseAtHeader
    BY <1>9 DEF PauseAtHeader, RootInv
  <1>10. CASE LeaveHeader
    BY <1>10 DEF LeaveHeader
  <1>11. CASE AfterCall
    BY <1>11 DEF AfterCall
  <1>12. CASE PauseAtEnd
    BY <1>12 DEF PauseAtEnd
  <1>13. CASE LeaveEnd
    BY <1>13 DEF LeaveEnd
  <1>14. CASE PassEnd
    BY <1>14 DEF PassEnd
  <1>15. CASE EndRoot
    BY <1>15 DEF EndRoot
  <1> QED
    BY <1>1, <1>2, <1>3, <1>4, <1>5, <1>6, <1>7, <1>8, <1>9, <1>10, <1>11,
       <1>12, <1>13, <1>14, <1>15 DEF Parser, StartUnit, EndUnit

LEMMA ParserStep ==
    ASSUME Inv, Parser
    PROVE  (WaitInv /\ RootInv /\ HandInv)'
  <1>1. TypeOK /\ WaitInv /\ RootInv /\ HandInv
    BY DEF Inv
  <1>2. /\ UNCHANGED <<collectHeader, collectBody, call, at>>
        /\ isDone => isDone'
    BY <1>1, ParserFrame
  <1>3. /\ ppc' \in {"parse", "root", "unit", "header", "end", "failed", "ended"}
        /\ {isDone, isDone', waitRoot, waitRoot', readRoot, readRoot'} \subseteq BOOLEAN
        /\ collectHeader \in BOOLEAN /\ collectBody \in BOOLEAN
    BY <1>1, ParserType DEF TypeOK
  <1>4. "parser" \notin waiting
    BY <1>1, ParserMoves
  <1>5. CASE /\ at # "holds" /\ waiting' = {"parser"} /\ ppc' \in Paused
             /\ waitRoot' => waitRoot /\ ppc' = "end" /\ collectBody
             /\ ppc' = "header" => collectHeader /\ ~ waitRoot
             /\ readRoot' = readRoot
    <2>1. WaitInv'
      BY <1>2, <1>5 DEF WaitInv, NeverBothWait, Threads
    <2>2. RootInv'
      BY <1>1, <1>2, <1>3, <1>5 DEF RootInv, Paused
    <2>3. HandInv'
      BY <1>1, <1>2, <1>5 DEF HandInv, HandOff
    <2> QED BY <2>1, <2>2, <2>3
  <1>6. CASE /\ waiting' = waiting /\ ppc' \notin Paused
             /\ waitRoot' = waitRoot
             /\ ppc' = "failed" => isDone'
             /\ readRoot' # readRoot => ~ waitRoot
             /\ ppc' = "unit" => readRoot
    <2>1. WaitInv'
      BY <1>1, <1>2, <1>4, <1>6 DEF WaitInv, NeverBothWait, Threads
    <2>2. RootInv'
      BY <1>1, <1>2, <1>3, <1>4, <1>6 DEF RootInv, Paused
    <2>3. HandInv'
      BY <1>1, <1>2, <1>4, <1>6 DEF HandInv, HandOff, UserRuns
    <2> QED BY <2>1, <2>2, <2>3
  <1>7. CASE /\ waiting' = waiting \ {"user"} /\ isDone'
             /\ ppc' \in {"parse", "ended"}
             /\ UNCHANGED <<waitRoot, readRoot>>
    <2>1. WaitInv'
      BY <1>1, <1>2, <1>4, <1>7 DEF WaitInv, NeverBothWait, Threads
    <2>2. RootInv'
      BY <1>1, <1>2, <1>3, <1>4, <1>7 DEF RootInv
    <2>3. HandInv'
      BY <1>1, <1>2, <1>7 DEF HandInv, HandOff
    <2> QED BY <2>1, <2>2, <2>3
  <1> QED BY <1>1, <1>5, <1>6, <1>7, ParserMoves

LEMMA UserStep ==
    ASSUME Inv, Continues \/ Call \/ Free
    PROVE  (WaitInv /\ RootInv /\ HandInv)'
  <1>1. TypeOK /\ WaitInv /\ RootInv /\ HandInv
    BY DEF Inv
  <1>2. UNCHANGED <<ppc, isDone, waitRoot, readRoot>>
    BY UserFrame
  <1>3. /\ {isDone, waitRoot, readRoot, collectHeader, collectBody} \subseteq BOOLEAN
        /\ waiting \subseteq Threads
    BY <1>1 DEF TypeOK
  <1> USE DEF WaitInv, RootInv, HandInv, HandOff, UserRuns, NeverBothWait,
              Threads, Reaches, Paused
  <1>4. CASE EnterWait
    <2>1. WaitInv'
      BY <1>1, <1>2, <1>3, <1>4 DEF EnterWait
    <2>2. RootInv'
      BY <1>1, <1>2, <1>3, <1>4 DEF EnterWait
    <2>3. HandInv'
      BY <1>1, <1>2, <1>3, <1>4 DEF EnterWait
    <2> QED BY <2>1, <2>2, <2>3
  <1>5. CASE EnterResume
    <2>1. WaitInv'
      BY <1>1, <1>2, <1>3, <1>5 DEF EnterResume
    <2>2. RootInv'
      BY <1>1, <1>2, <1>3, <1>5 DEF EnterResume
    <2>3. HandInv'
      BY <1>1, <1>2, <1>3, <1>5 DEF EnterResume
    <2> QED BY <2>1, <2>2, <2>3
  <1>6. CASE Wait
    <2>1. WaitInv'
      BY <1>1, <1>2, <1>3, <1>6 DEF Wait
    <2>2. RootInv'
      BY <1>1, <1>2, <1>3, <1>6 DEF Wait
    <2>3. HandInv'
      BY <1>1, <1>2, <1>3, <1>6 DEF Wait
    <2> QED BY <2>1, <2>2, <2>3
  <1>7. CASE Wake
    <2>1. WaitInv'
      BY <1>1, <1>2, <1>3, <1>7 DEF Wake
    <2>2. RootInv'
      BY <1>1, <1>2, <1>3, <1>7 DEF Wake
    <2>3. HandInv'
      BY <1>1, <1>2, <1>3, <1>7 DEF Wake
    <2> QED BY <2>1, <2>2, <2>3
  <1>8. CASE HeaderDone
    <2>1. WaitInv'
      BY <1>1, <1>2, <1>3, <1>8 DEF HeaderDone
    <2>2. RootInv'
      BY <1>1, <1>2, <1>3, <1>8 DEF HeaderDone
    <2>3. HandInv'
      BY <1>1, <1>2, <1>3, <1>8 DEF HeaderDone
    <2> QED BY <2>1, <2>2, <2>3
  <1>9. CASE BodyBegins
    <2>1. WaitInv'
      BY <1>1, <1>2, <1>3, <1>9 DEF BodyBegins
    <2>2. RootInv'
      BY <1>1, <1>2, <1>3, <1>9 DEF BodyBegins
    <2>3. HandInv'
      BY <1>1, <1>2, <1>3, <1>9 DEF BodyBegins
    <2> QED BY <2>1, <2>2, <2>3
  <1>10. CASE NoBody
    <2>1. WaitInv'
      BY <1>1, <1>2, <1>3, <1>10 DEF NoBody, Returns
    <2>2. RootInv'
      BY <1>1, <1>2, <1>3, <1>10 DEF NoBody, Returns
    <2>3. HandInv'
      BY <1>1, <1>2, <1>3, <1>10 DEF NoBody, Returns
    <2> QED BY <2>1, <2>2, <2>3
  <1>11. CASE BodyDone
    <2>1. WaitInv'
      BY <1>1, <1>2, <1>3, <1>11 DEF BodyDone, Returns
    <2>2. RootInv'
      BY <1>1, <1>2, <1>3, <1>11 DEF BodyDone, Returns
    <2>3. HandInv'
      BY <1>1, <1>2, <1>3, <1>11 DEF BodyDone, Returns
    <2> QED BY <2>1, <2>2, <2>3
  <1>12. CASE Stop
    <2>1. WaitInv'
      BY <1>1, <1>2, <1>3, <1>12 DEF Stop
    <2>2. RootInv'
      BY <1>1, <1>2, <1>3, <1>12 DEF Stop
    <2>3. HandInv'
      BY <1>1, <1>2, <1>3, <1>12 DEF Stop
    <2> QED BY <2>1, <2>2, <2>3
  <1>13. CASE Resume
    <2>1. WaitInv'
      BY <1>1, <1>2, <1>3, <1>13 DEF Resume
    <2>2. RootInv'
      BY <1>1, <1>2, <1>3, <1>13 DEF Resume
    <2>3. HandInv'
      BY <1>1, <1>2, <1>3, <1>13 DEF Resume
    <2> QED BY <2>1, <2>2, <2>3
  <1>14. CASE Join
    <2>1. WaitInv'
      BY <1>1, <1>2, <1>3, <1>14 DEF Join
    <2>2. RootInv'
      BY <1>1, <1>2, <1>3, <1>14 DEF Join
    <2>3. HandInv'
      BY <1>1, <1>2, <1>3, <1>14 DEF Join
    <2> QED BY <2>1, <2>2, <2>3
  <1>15. CASE Call
    <2>1. WaitInv'
      BY <1>1, <1>2, <1>3, <1>15 DEF Call
    <2>2. RootInv'
      BY <1>1, <1>2, <1>3, <1>15 DEF Call
    <2>3. HandInv'
      BY <1>1, <1>2, <1>3, <1>15 DEF Call
    <2> QED BY <2>1, <2>2, <2>3
  <1>16. CASE Free
    <2>1. WaitInv'
      BY <1>1, <1>2, <1>3, <1>16 DEF Free
    <2>2. RootInv'
      BY <1>1, <1>2, <1>3, <1>16 DEF Free
    <2>3. HandInv'
      BY <1>1, <1>2, <1>3, <1>16 DEF Free
    <2> QED BY <2>1, <2>2, <2>3
  <1> QED
    BY <1>4, <1>5, <1>6, <1>7, <1>8, <1>9, <1>10, <1>11, <1>12, <1>13, <1>14,
       <1>15, <1>16 DEF Continues

LEMMA InvStep == Inv /\ [Next]_vars => Inv'
  <1> SUFFICES ASSUME Inv, [Next]_vars PROVE Inv'
    OBVIOUS
  <1>1. TypeOK'
    BY TypeStep DEF Inv
  <1>2. CASE UNCHANGED vars
    BY <1>1, <1>2 DEF Inv, WaitInv, RootInv, HandInv, HandOff, UserRuns,
                      NeverBothWait, vars, parserVars, flagVars, userVars
  <1>3. (WaitInv /\ RootInv /\ HandInv)'
    BY <1>1, <1>2, ParserStep, UserStep DEF Next, Terminating, Inv
  <1> QED BY <1>1, <1>3 DEF Inv

LEMMA InvInit == Init => Inv
  <1> SUFFICES ASSUME Init PROVE Inv
    OBVIOUS
  <1>1. TypeOK
    BY InitType
  <1>2. WaitInv /\ RootInv /\ HandInv
    BY DEF Init, WaitInv, RootInv, HandInv, HandOff, UserRuns, NeverBothWait,
           Threads
  <1> QED BY <1>1, <1>2 DEF Inv

\* Control is handed over: while the user of the library runs, the parser
\* stands still or has nothing more to call, whatever the document and
\* however the two threads interleave, as long as no wait ends by itself
\* (srcml_reader_handler::wait, resume_and_wait, stop).
THEOREM HandedOver == Spec => []HandOff
  <1>1. Inv => HandOff
    BY DEF Inv, HandInv
  <1> QED BY <1>1, InvInit, InvStep, PTL DEF Spec

\* The user of the library and the parser never wait for each other.
THEOREM NoDeadlock == Spec => []NeverBothWait
  <1>1. Inv => NeverBothWait
    BY DEF Inv, WaitInv
  <1> QED BY <1>1, InvInit, InvStep, PTL DEF Spec

-----------------------------------------------------------------------------
(* The root is announced before the first unit *)

\* how many elements are open after the first n tokens
DepthAt(n) == OpenAfter(doc, n)

\* the root is announced at the first element that is no macro list, or at the
\* end of the root, and nothing is announced before
SaxInv ==
    /\ depth = DepthAt(pos)
    /\ pos = 0 => ~ sax.rootcalled
    /\ sax.onStart = "root" => pos = 0 \/ depth <= 0
    /\ sax.onStart \in {"unit", "element", "none"} => sax.rootcalled
    /\ calls # << >> => sax.rootcalled
    /\ ~ sax.rootcalled =>
         \A q \in 2..pos : Opens(doc[q]) => doc[q].name = "macro-list"

\* the calls for a token: the root before a unit, one unit at most, its end
\* before its start only if no unit was started at all, the end of the root last
ListOK(list, seen, waits, over) ==
    \A i \in 1..Len(list) :
        /\ list[i][1] = "startUnit" =>
             /\ seen \/ \E j \in 1..(i - 1) : list[j][1] = "startRoot"
             /\ \A j \in 1..(i - 1) : /\ list[j][1] # "startUnit"
                                      /\ list[j][1] = "endUnit" => waits
        /\ list[i][1] = "endRoot" => i = Len(list) /\ over

Announced(list) == \E i \in 1..Len(list) : list[i][1] = "startRoot"

CallsInv ==
    /\ ListOK(calls, rootSeen, waitRoot, RootEnded)
    /\ sax.rootcalled => rootSeen \/ Announced(calls)
    /\ ~ waitRoot => rootSeen /\ sax.rootcalled

\* the call a parser is in
AtInv ==
    /\ ppc \in {"root", "unit", "header"} => At("startUnit")
    /\ ppc = "end" => At("endUnit")

-----------------------------------------------------------------------------
(* The parser writes to a unit only during a call *)

\* there is no token to parse, or it will not be parsed
Halted == stopped \/ ppc \in {"failed", "ended"} \/ RootEnded

\* where the user can be in a call, and which flags the call has set
CallInv ==
    /\ call = "header" => at \in {"enter", "holds", "waits", "left"}
    /\ call = "body" => at \in {"begin", "enter", "holds", "waits", "left"}
    /\ call = "free" => /\ at \in {"stop", "resume", "join"}
                        /\ at = "stop" <=> ~ terminate
    /\ call = "freed" => ppc = "ended"
    /\ terminate => call \in {"free", "freed"}
    /\ stopped => terminate
    /\ collectHeader => call = "header"
    /\ collectBody => call = "body" /\ at # "begin"
    /\ call = "body" /\ at = "begin" /\ ~ isDone => unit = "none"

\* what the parser is at then
PlaceInv ==
    /\ ~ waitRoot /\ ~ readRoot => ppc = "root"
    /\ call = "open" => ppc \notin {"unit", "header"}
    /\ isDone /\ ~ terminate =>
         /\ calls = << >>
         /\ ppc \in {"failed", "ended"} \/ (ppc = "parse" /\ RootEnded)
    /\ call = "free" /\ ~ terminate => waiting = {"parser"} \/ isDone
    /\ call = "body" /\ at \in {"waits", "left"} /\ "parser" \in waiting =>
         ppc = "end"

\* between the calls of the user the parser has no unit to write to
AtRest ==
    /\ ppc # "unit"
    /\ ppc = "header" => unit = "none"
    /\ \A i \in 1..Len(calls) : calls[i][1] = "startUnit" =>
          i = 1 /\ ppc \in {"root", "header"}
    /\ ppc \in Paused \/ Halted

RestInv == call \in {"idle", "free"} => AtRest

-----------------------------------------------------------------------------
(* Lists of calls *)

LEMMA RestOfList ==
    ASSUME NEW S, NEW list \in Seq(S), list # << >>
    PROVE  /\ Len(Tail(list)) = Len(list) - 1
           /\ Len(list) \in Nat \ {0} /\ Head(list) = list[1]
           /\ \A i \in 1..(Len(list) - 1) : Tail(list)[i] = list[i + 1]
  OBVIOUS

LEMMA TailListOK ==
    ASSUME NEW S, NEW list \in Seq(S), list # << >>,
           NEW seen \in BOOLEAN, NEW waits \in BOOLEAN, NEW over \in BOOLEAN,
           ListOK(list, seen, waits, over),
           seen \/ list[1][1] # "startRoot"
    PROVE  ListOK(Tail(list), seen, waits, over)
  <1> DEFINE rest == Tail(list)
             n == Len(list)
  <1>1. /\ Len(rest) = n - 1 /\ n \in Nat \ {0}
        /\ \A i \in 1..(n - 1) : rest[i] = list[i + 1]
    BY RestOfList
  <1> HIDE DEF rest
  <1> SUFFICES ASSUME NEW i \in 1..(n - 1)
               PROVE  /\ rest[i][1] = "startUnit" =>
                           /\ seen \/ \E j \in 1..(i - 1) : rest[j][1] = "startRoot"
                           /\ \A j \in 1..(i - 1) :
                                 /\ rest[j][1] # "startUnit"
                                 /\ rest[j][1] = "endUnit" => waits
                      /\ rest[i][1] = "endRoot" => i = n - 1 /\ over
    BY <1>1 DEF ListOK, rest
  <1>2. i + 1 \in 1..n /\ rest[i] = list[i + 1] /\ i \in Nat /\ (i + 1) - 1 = i
    BY <1>1
  <1>3. CASE rest[i][1] = "startUnit"
    <2>1. /\ seen \/ \E j \in 1..i : list[j][1] = "startRoot"
          /\ \A j \in 1..i : /\ list[j][1] # "startUnit"
                             /\ list[j][1] = "endUnit" => waits
      BY <1>2, <1>3 DEF ListOK
    <2>2. \A j \in 1..(i - 1) : j + 1 \in 1..i /\ rest[j] = list[j + 1]
      BY <1>1, <1>2
    <2>3. \A j \in 1..i : j # 1 => j - 1 \in 1..(i - 1) /\ rest[j - 1] = list[j]
      BY <1>1, <1>2
    <2>4. seen \/ \E j \in 1..(i - 1) : rest[j][1] = "startRoot"
      BY <2>1, <2>3
    <2>5. \A j \in 1..(i - 1) : /\ rest[j][1] # "startUnit"
                                /\ rest[j][1] = "endUnit" => waits
      BY <2>1, <2>2
    <2>6. rest[i][1] # "endRoot"
      BY <1>3
    <2> QED BY <2>4, <2>5, <2>6
  <1>4. CASE rest[i][1] # "startUnit"
    <2>1. rest[i][1] = "endRoot" => i + 1 = n /\ over
      BY <1>2 DEF ListOK
    <2> QED BY <1>1, <1>2, <1>4, <2>1
  <1> QED BY <1>3, <1>4

\* the lists there are
LEMMA NoCalls ==
    ASSUME NEW seen, NEW waits, NEW over
    PROVE  ListOK(<< >>, seen, waits, over)
  BY DEF ListOK

LEMMA StartLists ==
    ASSUME NEW waits \in BOOLEAN, NEW over \in BOOLEAN, NEW seen \in BOOLEAN,
           NEW p, NEW q
    PROVE  LET root == << <<"startRoot", q>>, <<"startUnit", q>> >>
               first == << <<"startRoot", 1>>, <<"startUnit", p>>,
                           <<"callbacks", p>> >>
               single == << <<"startRoot", 1>>, <<"startUnit", 1>>,
                            <<"element", p>> >>
               more == << <<"startUnit", p>>, <<"callbacks", p>> >>
           IN  /\ ListOK(root, seen, waits, over) /\ Announced(root)
               /\ ListOK(first, seen, waits, over) /\ Announced(first)
               /\ ListOK(single, seen, waits, over) /\ Announced(single)
               /\ ListOK(more, TRUE, waits, over)
  <1> DEFINE root == << <<"startRoot", q>>, <<"startUnit", q>> >>
             first == << <<"startRoot", 1>>, <<"startUnit", p>>,
                         <<"callbacks", p>> >>
             single == << <<"startRoot", 1>>, <<"startUnit", 1>>,
                          <<"element", p>> >>
             more == << <<"startUnit", p>>, <<"callbacks", p>> >>
  <1>1. ListOK(root, seen, waits, over) /\ Announced(root)
    BY DEF ListOK, Announced
  <1>2. ListOK(first, seen, waits, over) /\ Announced(first)
    BY DEF ListOK, Announced
  <1>3. ListOK(single, seen, waits, over) /\ Announced(single)
    BY DEF ListOK, Announced
  <1>4. ListOK(more, TRUE, waits, over)
    BY DEF ListOK
  <1> QED BY <1>1, <1>2, <1>3, <1>4

LEMMA EndLists ==
    ASSUME NEW waits \in BOOLEAN, NEW seen \in BOOLEAN, NEW p
    PROVE  LET late == << <<"startRoot", 1>>, <<"startUnit", 1>>,
                          <<"endUnit", p>>, <<"endRoot", p>> >>
               unit1 == << <<"endUnit", p>>, <<"startRoot", 1>>,
                           <<"startUnit", 1>>, <<"endUnit", p>>,
                           <<"endRoot", p>> >>
               archive == << <<"endRoot", p>> >>
               single == << <<"endUnit", p>>, <<"endRoot", p>> >>
               unit2 == << <<"endUnit", p>> >>
           IN  /\ ListOK(late, seen, waits, TRUE) /\ Announced(late)
               /\ ListOK(unit1, seen, TRUE, TRUE) /\ Announced(unit1)
               /\ ListOK(archive, seen, waits, TRUE)
               /\ ListOK(single, seen, waits, TRUE)
               /\ \A over \in BOOLEAN : ListOK(unit2, seen, waits, over)
  <1> DEFINE late == << <<"startRoot", 1>>, <<"startUnit", 1>>,
                        <<"endUnit", p>>, <<"endRoot", p>> >>
             unit1 == << <<"endUnit", p>>, <<"startRoot", 1>>,
                         <<"startUnit", 1>>, <<"endUnit", p>>,
                         <<"endRoot", p>> >>
             archive == << <<"endRoot", p>> >>
             single == << <<"endUnit", p>>, <<"endRoot", p>> >>
             unit2 == << <<"endUnit", p>> >>
  <1>1. ListOK(late, seen, waits, TRUE)
    BY DEF ListOK
  <1>2. Announced(late) /\ Announced(unit1)
    BY DEF Announced
  <1>3. ListOK(unit1, seen, TRUE, TRUE)
    BY DEF ListOK
  <1>4. ListOK(archive, seen, waits, TRUE) /\ ListOK(single, seen, waits, TRUE)
    BY DEF ListOK
  <1>5. \A over \in BOOLEAN : ListOK(unit2, seen, waits, over)
    BY DEF ListOK
  <1> QED BY <1>1, <1>2, <1>3, <1>4, <1>5

-----------------------------------------------------------------------------
(* The parser's steps keep SaxInv and CallsInv *)

LEMMA CountNext ==
    ASSUME NEW S, NEW n \in Nat
    PROVE  /\ Cardinality(S \cap 1..n) \in Nat
           /\ Cardinality(S \cap 1..(n + 1))
              = Cardinality(S \cap 1..n) + (IF n + 1 \in S THEN 1 ELSE 0)
  <1>1. IsFiniteSet(1..n)
    BY FS_Interval
  <1>2. IsFiniteSet(S \cap 1..n)
    BY <1>1, FS_Subset
  <1>3. Cardinality(S \cap 1..n) \in Nat
    BY <1>2, FS_CardinalityType
  <1>4. CASE n + 1 \in S
    <2>1. S \cap 1..(n + 1) = (S \cap 1..n) \cup {n + 1}
      BY <1>4
    <2>2. n + 1 \notin S \cap 1..n
      OBVIOUS
    <2>3. Cardinality((S \cap 1..n) \cup {n + 1}) = Cardinality(S \cap 1..n) + 1
      BY <1>2, <2>2, FS_AddElement
    <2> QED BY <1>3, <1>4, <2>1, <2>3
  <1>5. CASE n + 1 \notin S
    <2>1. S \cap 1..(n + 1) = S \cap 1..n
      BY <1>5
    <2> QED BY <1>3, <1>5, <2>1
  <1> QED BY <1>4, <1>5, <1>3

\* how many elements are open, one token on
LEMMA DepthNext ==
    ASSUME NEW n \in Nat
    PROVE  /\ DepthAt(n) \in Int
           /\ DepthAt(n + 1) = DepthAt(n)
              + (IF Opens(doc[n + 1]) THEN 1 ELSE 0)
              - (IF doc[n + 1].tag = "end" THEN 1 ELSE 0)
  <1> DEFINE O == {i \in Nat : Opens(doc[i])}
             E == {i \in Nat : doc[i].tag = "end"}
  <1>1. \A m \in Nat : /\ {i \in 1..m : Opens(doc[i])} = O \cap 1..m
                       /\ {i \in 1..m : doc[i].tag = "end"} = E \cap 1..m
    OBVIOUS
  <1>2. n + 1 \in Nat
    OBVIOUS
  <1>3. /\ n + 1 \in O <=> Opens(doc[n + 1])
        /\ n + 1 \in E <=> doc[n + 1].tag = "end"
    OBVIOUS
  <1>4. DepthAt(n) = Cardinality(O \cap 1..n) - Cardinality(E \cap 1..n)
    BY <1>1 DEF DepthAt, OpenAfter
  <1>5. DepthAt(n + 1) = Cardinality(O \cap 1..(n + 1))
                         - Cardinality(E \cap 1..(n + 1))
    BY <1>1, <1>2 DEF DepthAt, OpenAfter
  <1> HIDE DEF O, E
  <1>6. /\ Cardinality(O \cap 1..n) \in Nat
        /\ Cardinality(O \cap 1..(n + 1))
              = Cardinality(O \cap 1..n) + (IF n + 1 \in O THEN 1 ELSE 0)
    BY CountNext
  <1>7. /\ Cardinality(E \cap 1..n) \in Nat
        /\ Cardinality(E \cap 1..(n + 1))
              = Cardinality(E \cap 1..n) + (IF n + 1 \in E THEN 1 ELSE 0)
    BY CountNext
  <1> QED BY <1>3, <1>4, <1>5, <1>6, <1>7

LEMMA DepthAtNone == DepthAt(0) = 0
  <1>1. {i \in 1..0 : Opens(doc[i])} = {} /\ {i \in 1..0 : doc[i].tag = "end"} = {}
    OBVIOUS
  <1>2. Cardinality({}) = 0
    BY FS_EmptySet
  <1> QED BY <1>1, <1>2 DEF DepthAt, OpenAfter

\* the end of a unit before the root was announced is that of the root
LEMMA UnitEndsRoot ==
    ASSUME TypeOK, SaxInv, pos < Len(doc), ~ sax.rootcalled,
           doc[pos + 1].tag = "end", doc[pos + 1].name = "unit"
    PROVE  depth = 1
  <1>1. pos \in Nat /\ depth \in Int /\ pos + 1 \in 1..Len(doc) /\ doc \in Documents
    BY DocumentsAssumption DEF TypeOK
  <1>2. ~ \E q \in 2..((pos + 1) - 1) : Opens(doc[q]) /\ doc[q].name = "unit"
    BY <1>1 DEF SaxInv
  <1>3. Cardinality({i \in 1..(pos + 1) : Opens(doc[i])})
        = Cardinality({i \in 1..(pos + 1) : doc[i].tag = "end"})
    BY <1>1, <1>2, MatchAssumption DEF TagsMatch
  <1>4. DepthAt(pos + 1) = DepthAt(pos) - 1 /\ DepthAt(pos) \in Int
    <2>1. ~ Opens(doc[pos + 1])
      BY DEF Opens
    <2>2. /\ DepthAt(pos) \in Int
          /\ DepthAt(pos + 1) = DepthAt(pos)
              + (IF Opens(doc[pos + 1]) THEN 1 ELSE 0)
              - (IF doc[pos + 1].tag = "end" THEN 1 ELSE 0)
      BY <1>1, DepthNext
    <2> QED BY <2>1, <2>2
  <1>5. Cardinality({i \in 1..(pos + 1) : Opens(doc[i])}) \in Int
    <2> DEFINE O == {i \in Nat : Opens(doc[i])}
    <2>1. {i \in 1..(pos + 1) : Opens(doc[i])} = O \cap 1..(pos + 1)
      BY <1>1
    <2>2. pos + 1 \in Nat
      BY <1>1
    <2> HIDE DEF O
    <2>3. Cardinality(O \cap 1..(pos + 1)) \in Nat
      BY <2>2, CountNext
    <2>4. Cardinality(O \cap 1..(pos + 1)) \in Int
      BY <2>3
    <2> QED BY <2>1, <2>4, Zenon
  <1>6. DepthAt(pos + 1) = 0
    BY <1>3, <1>5 DEF DepthAt, OpenAfter
  <1> QED BY <1>1, <1>4, <1>6 DEF SaxInv
\* what the SAX layer has announced when libxml2 parses a token
LEMMA BeforeToken ==
    ASSUME TypeOK, SaxInv, CallsInv, NextToken
    PROVE  /\ doc' = doc /\ rootSeen' = rootSeen /\ waitRoot' = waitRoot
           /\ pos' = pos + 1 /\ pos \in Nat /\ depth \in Int /\ pos < Len(doc)
           /\ sax.rootcalled => rootSeen
           /\ ~ waitRoot => sax.rootcalled
           /\ ~ sax.rootcalled => waitRoot
           /\ pos = 0 => depth = 0 /\ ~ sax.rootcalled
           /\ pos > 0 => depth > 0
           /\ sax.onStart = "root" => pos = 0
           /\ depth' = DepthAt(pos)'
           /\ sax \in SaxState /\ SaxOK(sax, pos)
  <1>1. /\ doc' = doc /\ rootSeen' = rootSeen /\ waitRoot' = waitRoot
        /\ pos' = pos + 1 /\ calls = << >> /\ ~ RootEnded /\ pos < Len(doc)
    BY DEF NextToken
  <1>2. pos \in Nat /\ depth \in Int /\ sax \in SaxState /\ SaxOK(sax, pos)
        /\ waitRoot \in BOOLEAN /\ doc \in Seq(Token)
    BY DocumentsAssumption DEF TypeOK, SaxOK
  <1>3. ~ Announced(calls)
    BY <1>1 DEF Announced
  <1>4. pos > 0 => depth > 0
    BY <1>1, <1>2 DEF RootEnded
  <1>5. depth = DepthAt(pos) /\ (pos = 0 => depth = 0)
    BY DepthAtNone DEF SaxInv
  <1>6. depth' = DepthAt(pos)'
    <2>1. DepthAt(pos)' = DepthAt(pos + 1)
      BY <1>1 DEF DepthAt, OpenAfter
    <2>2. doc[pos + 1] \in Token
      BY <1>1, <1>2
    <2>3. depth' = depth + (IF Opens(doc[pos + 1]) THEN 1 ELSE 0)
                   - (IF doc[pos + 1].tag = "end" THEN 1 ELSE 0)
      BY <1>2, <2>2 DEF NextToken, Opens
    <2>4. DepthAt(pos + 1) = DepthAt(pos)
              + (IF Opens(doc[pos + 1]) THEN 1 ELSE 0)
              - (IF doc[pos + 1].tag = "end" THEN 1 ELSE 0)
      BY <1>2, DepthNext
    <2> QED BY <1>5, <2>1, <2>3, <2>4
  <1>7. /\ sax.rootcalled => rootSeen
        /\ ~ waitRoot => sax.rootcalled
    BY <1>3 DEF CallsInv
  <1>8. sax.onStart = "root" => pos = 0
    BY <1>2, <1>4 DEF SaxInv
  <1>9. pos = 0 => ~ sax.rootcalled
    BY DEF SaxInv
  <1>10. sax.rootcalled \in BOOLEAN
    BY <1>2 DEF SaxState
  <1> QED BY <1>1, <1>2, <1>4, <1>5, <1>6, <1>7, <1>8, <1>9, <1>10

\* no macro list but the tokens before
LEMMA StillMacros ==
    ASSUME TypeOK, SaxInv, CallsInv, NextToken, ~ sax.rootcalled,
           Opens(doc[pos + 1]) /\ pos > 0 => doc[pos + 1].name = "macro-list"
    PROVE  \A q \in 2..pos' : Opens(doc'[q]) => doc'[q].name = "macro-list"
  <1>1. pos' = pos + 1 /\ pos \in Nat /\ doc' = doc
    BY BeforeToken
  <1>2. \A q \in 2..pos : Opens(doc[q]) => doc[q].name = "macro-list"
    BY DEF SaxInv
  <1>3. \A q \in 2..(pos + 1) : q \in 2..pos \/ (q = pos + 1 /\ pos > 0)
    BY <1>1
  <1> QED BY <1>1, <1>2, <1>3

LEMMA StartTagSax ==
    ASSUME TypeOK, SaxInv, CallsInv, NextToken, Opens(doc[pos + 1])
    PROVE  SaxInv' /\ CallsInv'
  <1> DEFINE p == pos + 1
             name == doc[p].name
             empty == doc[p].tag = "empty"
  <1>1. sax' = StartTag(sax, p, name, empty).sax
        /\ calls' = StartTag(sax, p, name, empty).calls
    BY DEF NextToken, Callback, Opens
  <1>2. /\ doc' = doc /\ rootSeen' = rootSeen /\ waitRoot' = waitRoot
        /\ pos' = p /\ pos \in Nat /\ p > 0 /\ depth \in Int
        /\ sax.rootcalled => rootSeen
        /\ ~ waitRoot => sax.rootcalled
        /\ pos = 0 => depth = 0 /\ ~ sax.rootcalled
        /\ pos > 0 => depth > 0
        /\ sax.onStart = "root" => pos = 0
        /\ depth' = DepthAt(pos)'
    BY BeforeToken
  <1>3. sax \in SaxState /\ waitRoot \in BOOLEAN /\ rootSeen \in BOOLEAN
        /\ RootEnded' \in BOOLEAN /\ empty \in BOOLEAN
    BY DEF TypeOK, RootEnded
  <1> HIDE DEF p, name, empty
  <1>4. CASE sax.onStart = "root"
    <2>1. /\ sax'.onStart = "first" /\ sax'.rootcalled = empty
          /\ calls' = IF empty THEN << <<"startRoot", p>>, <<"startUnit", p>> >>
                               ELSE << >>
      BY <1>1, <1>3, <1>4 DEF StartTag, Does, Callbacks, StartText, SaxState
    <2>2. p = 1 /\ ~ sax.rootcalled
      BY <1>2, <1>4 DEF p
    <2>3. SaxInv'
      BY <1>2, <1>3, <2>1, <2>2 DEF SaxInv
    <2>4. ListOK(calls', rootSeen', waitRoot', RootEnded')
          /\ (empty => Announced(calls'))
      BY <1>2, <1>3, <2>1, StartLists, NoCalls
    <2>5. CallsInv'
      BY <1>2, <2>1, <2>2, <2>4 DEF CallsInv, Announced
    <2> QED BY <2>3, <2>5
  <1>5. CASE sax.onStart = "first" /\ name = "macro-list"
    <2>1. sax' = sax /\ calls' = << >>
      BY <1>1, <1>5 DEF StartTag, First, Does
    <2>2. SaxInv'
      <3>1. ~ sax.rootcalled =>
              \A q \in 2..pos' : Opens(doc'[q]) => doc'[q].name = "macro-list"
        BY <1>5, StillMacros DEF name, p
      <3> QED BY <1>2, <1>5, <2>1, <3>1 DEF SaxInv
    <2>3. CallsInv'
      BY <1>2, <2>1, NoCalls DEF CallsInv
    <2> QED BY <2>2, <2>3
  <1>6. CASE sax.onStart = "first" /\ name = "unit"
    <2> DEFINE c == << <<"startRoot", 1>>, <<"startUnit", p>>,
                       <<"callbacks", p>> >>
    <2>1. sax'.onStart = "first" /\ sax'.rootcalled = TRUE /\ calls' = c
      BY <1>1, <1>3, <1>6 DEF StartTag, First, Does, StartText, SaxState
    <2>2. ListOK(c, rootSeen', waitRoot', RootEnded') /\ Announced(c)
      BY <1>2, <1>3, StartLists
    <2>3. SaxInv'
      BY <1>2, <2>1 DEF SaxInv
    <2> HIDE DEF c
    <2>4. CallsInv'
      BY <1>2, <2>1, <2>2 DEF CallsInv, Announced
    <2> QED BY <2>3, <2>4
  <1>7. CASE sax.onStart = "first" /\ name \notin {"unit", "macro-list"}
    <2> DEFINE c == << <<"startRoot", 1>>, <<"startUnit", 1>>, <<"element", p>> >>
    <2>1. sax'.onStart = "element" /\ sax'.rootcalled = TRUE /\ calls' = c
      BY <1>1, <1>3, <1>7 DEF StartTag, First, Does, SaxState
    <2>2. ListOK(c, rootSeen', waitRoot', RootEnded') /\ Announced(c)
      BY <1>2, <1>3, StartLists
    <2>3. SaxInv'
      BY <1>2, <2>1 DEF SaxInv
    <2> HIDE DEF c
    <2>4. CallsInv'
      BY <1>2, <2>1, <2>2 DEF CallsInv, Announced
    <2> QED BY <2>3, <2>4
  <1>8. CASE sax.onStart = "unit"
    <2> DEFINE c == << <<"startUnit", p>>, <<"callbacks", p>> >>
    <2>1. /\ sax'.onStart = "unit" /\ sax'.rootcalled = sax.rootcalled
          /\ calls' = c
      BY <1>1, <1>3, <1>8 DEF StartTag, Does, StartText, SaxState
    <2>2. sax.rootcalled
      BY <1>8 DEF SaxInv
    <2>3. rootSeen = TRUE
      BY <1>2, <1>3, <2>2
    <2>4. ListOK(c, rootSeen', waitRoot', RootEnded')
      BY <1>2, <1>3, <2>3, StartLists
    <2>5. SaxInv'
      BY <1>2, <2>1, <2>2 DEF SaxInv
    <2> HIDE DEF c
    <2>6. CallsInv'
      BY <1>2, <2>1, <2>3, <2>4, <2>2 DEF CallsInv
    <2> QED BY <2>5, <2>6
  <1>9. CASE sax.onStart \in {"element", "none"}
    <2>1. /\ sax'.onStart = sax.onStart /\ sax'.rootcalled = sax.rootcalled
          /\ calls' = << >>
      BY <1>1, <1>3, <1>9 DEF StartTag, Does, Collect, SaxState
    <2>2. sax.rootcalled
      BY <1>9 DEF SaxInv
    <2>3. SaxInv'
      BY <1>2, <1>9, <2>1, <2>2 DEF SaxInv
    <2>4. CallsInv'
      BY <1>2, <2>1, <2>2, NoCalls DEF CallsInv
    <2> QED BY <2>3, <2>4
  <1> QED BY <1>3, <1>4, <1>5, <1>6, <1>7, <1>8, <1>9 DEF SaxState

\* two sequences joined, elementwise
LEMMA JoinIs ==
    ASSUME NEW S, NEW s \in Seq(S), NEW t \in Seq(S), NEW u \in Seq(S),
           Len(u) = Len(s) + Len(t),
           \A i \in 1..Len(s) : u[i] = s[i],
           \A i \in 1..Len(t) : u[Len(s) + i] = t[i]
    PROVE s \o t = u
  <1>1. /\ s \o t \in Seq(S) /\ Len(s \o t) = Len(s) + Len(t)
        /\ \A i \in 1..(Len(s) + Len(t)) :
              (s \o t)[i] = IF i <= Len(s) THEN s[i] ELSE t[i - Len(s)]
    BY ConcatProperties
  <1>2. \A i \in 1..Len(u) : (s \o t)[i] = u[i]
    <2> TAKE i \in 1..Len(u)
    <2>1. CASE i <= Len(s)
      BY <1>1, <2>1
    <2>2. CASE i > Len(s)
      <3>1. i - Len(s) \in 1..Len(t) /\ Len(s) + (i - Len(s)) = i
        BY <2>2
      <3>2. u[i] = t[i - Len(s)]
        BY <3>1
      <3> QED BY <1>1, <2>2, <3>2
    <2> QED BY <2>1, <2>2
  <1> QED BY <1>1, <1>2

LEMMA Join31 ==
    ASSUME NEW w, NEW x, NEW y, NEW z
    PROVE <<w, x, y>> \o <<z>> = <<w, x, y, z>>
  <1> DEFINE S == {w, x, y, z}
             s == <<w, x, y>>
             t == <<z>>
             u == <<w, x, y, z>>
  <1>1. s \in Seq(S) /\ t \in Seq(S) /\ u \in Seq(S)
    OBVIOUS
  <1>2. Len(s) = 3 /\ Len(t) = 1 /\ Len(u) = 4
    OBVIOUS
  <1>3. u[1] = s[1] /\ u[2] = s[2] /\ u[3] = s[3] /\ u[4] = t[1]
    OBVIOUS
  <1> HIDE DEF s, t, u, S
  <1>4. \A i \in 1..Len(s) : u[i] = s[i]
    BY <1>2, <1>3
  <1>5. \A i \in 1..Len(t) : u[Len(s) + i] = t[i]
    <2> TAKE i \in 1..Len(t)
    <2>1. i = 1 /\ Len(s) + i = 4
      BY <1>2
    <2> QED BY <1>3, <2>1
  <1>6. Len(u) = Len(s) + Len(t)
    BY <1>2
  <1>7. s \o t = u
    BY <1>1, <1>4, <1>5, <1>6, JoinIs, Zenon
  <1> QED BY <1>7 DEF s, t, u

LEMMA Join04 ==
    ASSUME NEW w, NEW x, NEW y, NEW z
    PROVE << >> \o <<w, x, y, z>> = <<w, x, y, z>>
  <1>1. <<w, x, y, z>> \in Seq({w, x, y, z})
    OBVIOUS
  <1> QED BY <1>1, ConcatEmptySeq

LEMMA Join14 ==
    ASSUME NEW v, NEW w, NEW x, NEW y, NEW z
    PROVE <<v>> \o <<w, x, y, z>> = <<v, w, x, y, z>>
  <1> DEFINE S == {v, w, x, y, z}
             s == <<v>>
             t == <<w, x, y, z>>
             u == <<v, w, x, y, z>>
  <1>1. s \in Seq(S) /\ t \in Seq(S) /\ u \in Seq(S)
    OBVIOUS
  <1>2. Len(s) = 1 /\ Len(t) = 4 /\ Len(u) = 5
    OBVIOUS
  <1>3. u[1] = s[1] /\ u[2] = t[1] /\ u[3] = t[2] /\ u[4] = t[3] /\ u[5] = t[4]
    OBVIOUS
  <1> HIDE DEF s, t, u, S
  <1>4. \A i \in 1..Len(s) : u[i] = s[i]
    BY <1>2, <1>3
  <1>5. \A i \in 1..Len(t) : u[Len(s) + i] = t[i]
    <2> TAKE i \in 1..Len(t)
    <2>1. i \in {1, 2, 3, 4} /\ Len(s) + i = 1 + i
      BY <1>2
    <2>2. u[1 + 1] = t[1] /\ u[1 + 2] = t[2] /\ u[1 + 3] = t[3] /\ u[1 + 4] = t[4]
      BY <1>3
    <2> QED BY <2>1, <2>2
  <1>6. Len(u) = Len(s) + Len(t)
    BY <1>2
  <1>7. s \o t = u
    BY <1>1, <1>4, <1>5, <1>6, JoinIs, Zenon
  <1> QED BY <1>7 DEF s, t, u

LEMMA Join00 == << >> \o << >> = << >>
  OBVIOUS

LEMMA Join01 == ASSUME NEW x PROVE << >> \o <<x>> = <<x>>
  OBVIOUS

LEMMA Join10 == ASSUME NEW x PROVE <<x>> \o << >> = <<x>>
  OBVIOUS

LEMMA Join11 ==
    ASSUME NEW x, NEW y
    PROVE <<x>> \o <<y>> = <<x, y>>
  <1> DEFINE S == {x, y}
             s == <<x>>
             t == <<y>>
             u == <<x, y>>
  <1>1. s \in Seq(S) /\ t \in Seq(S) /\ u \in Seq(S)
    OBVIOUS
  <1>2. Len(s) = 1 /\ Len(t) = 1 /\ Len(u) = 2
    OBVIOUS
  <1>3. u[1] = s[1] /\ u[2] = t[1]
    OBVIOUS
  <1> HIDE DEF s, t, u, S
  <1>4. \A i \in 1..Len(s) : u[i] = s[i]
    BY <1>2, <1>3
  <1>5. \A i \in 1..Len(t) : u[Len(s) + i] = t[i]
    <2> TAKE i \in 1..Len(t)
    <2>1. i = 1 /\ Len(s) + i = 2
      BY <1>2
    <2> QED BY <1>3, <2>1
  <1>6. Len(u) = Len(s) + Len(t)
    BY <1>2
  <1>7. s \o t = u
    BY <1>1, <1>4, <1>5, <1>6, JoinIs, Zenon
  <1> QED BY <1>7 DEF s, t, u

LEMMA EndTagSax ==
    ASSUME TypeOK, SaxInv, CallsInv, NextToken, doc[pos + 1].tag = "end"
    PROVE  SaxInv' /\ CallsInv'
  <1> DEFINE p == pos + 1
             name == doc[p].name
             unitEnds == name = "unit" /\ EndsUnit(sax, depth)
             rootEnds == name = "unit" /\ depth = 1
             a == IF unitEnds THEN << <<"endUnit", p>> >> ELSE << >>
             b == IF rootEnds THEN LateRoot(sax, p) \o << <<"endRoot", p>> >>
                              ELSE << >>
  <1>1. sax' = EndTag(sax, p, name, depth).sax
        /\ calls' = EndTag(sax, p, name, depth).calls
        /\ depth' = depth - 1
    BY DEF NextToken, Callback
  <1>2. /\ doc' = doc /\ rootSeen' = rootSeen /\ waitRoot' = waitRoot
        /\ pos' = p /\ pos \in Nat /\ p > 0 /\ depth \in Int /\ pos < Len(doc)
        /\ sax.rootcalled => rootSeen
        /\ ~ waitRoot => sax.rootcalled
        /\ ~ sax.rootcalled => waitRoot
        /\ pos = 0 => depth = 0
        /\ sax.onStart = "root" => pos = 0
        /\ depth' = DepthAt(pos)'
    BY BeforeToken
  <1>3. sax \in SaxState /\ waitRoot \in BOOLEAN /\ rootSeen \in BOOLEAN
        /\ sax.rootcalled \in BOOLEAN /\ RootEnded' \in BOOLEAN
    BY DEF TypeOK, RootEnded, SaxState
  <1>4. /\ sax'.onStart = IF unitEnds THEN "unit" ELSE sax.onStart
        /\ sax'.rootcalled = (sax.rootcalled \/ rootEnds)
        /\ calls' = a \o b
    BY <1>1, <1>3 DEF EndTag, Does, Collect, SaxState
  <1>5. name = "unit" /\ ~ sax.rootcalled => depth = 1
    BY <1>2, UnitEndsRoot DEF name, p
  <1>6. rootEnds => RootEnded'
    BY <1>1, <1>2 DEF RootEnded
  <1>7. ~ Opens(doc[p])
    BY DEF Opens
  <1> HIDE DEF p, name
  <1>8. unitEnds \/ rootEnds => sax'.rootcalled
    BY <1>3, <1>4, <1>5
  <1>9. calls' # << >> => unitEnds \/ rootEnds
    BY <1>4
  <1>10. SaxInv'
    <2>1. sax'.onStart = "root" => depth' <= 0
      BY <1>1, <1>2, <1>4
    <2>2. sax'.onStart \in {"unit", "element", "none"} => sax'.rootcalled
      BY <1>3, <1>4, <1>8 DEF SaxInv
    <2>3. ~ sax.rootcalled =>
            \A q \in 2..pos' : Opens(doc'[q]) => doc'[q].name = "macro-list"
      BY <1>7, StillMacros DEF p
    <2>4. ~ sax'.rootcalled => ~ sax.rootcalled
      BY <1>4
    <2> QED BY <1>2, <1>8, <1>9, <2>1, <2>2, <2>3, <2>4 DEF SaxInv
  <1>11. CASE sax.rootcalled
    <2>1. LateRoot(sax, p) = << >>
      BY <1>11 DEF LateRoot
    <2>2. \/ calls' \in {<< >>, << <<"endUnit", p>> >>}
          \/ rootEnds /\ calls' \in {<< <<"endRoot", p>> >>,
                                     << <<"endUnit", p>>, <<"endRoot", p>> >>}
      <3>1. a \in {<< >>, << <<"endUnit", p>> >>}
        OBVIOUS
      <3>2. \/ b = << >>
            \/ rootEnds /\ b = << <<"endRoot", p>> >>
        <4>1. rootEnds => b = << >> \o << <<"endRoot", p>> >>
          BY <2>1
        <4> QED BY <4>1, Join01, Zenon
      <3> HIDE DEF a, b, rootEnds
      <3>3. calls' = a \o b
        BY <1>4
      <3>4. CASE a = << >> /\ b = << >>
        <4>1. calls' = << >>
          BY <3>3, <3>4, Join00, Zenon
        <4> QED BY <4>1
      <3>5. CASE a = << <<"endUnit", p>> >> /\ b = << >>
        <4>1. calls' = << <<"endUnit", p>> >>
          BY <3>3, <3>5, Join10, Zenon
        <4> QED BY <4>1
      <3>6. CASE a = << >> /\ rootEnds /\ b = << <<"endRoot", p>> >>
        <4>1. calls' = << <<"endRoot", p>> >>
          BY <3>3, <3>6, Join01, Zenon
        <4> QED BY <3>6, <4>1
      <3>7. CASE a = << <<"endUnit", p>> >> /\ rootEnds
                 /\ b = << <<"endRoot", p>> >>
        <4>1. calls' = << <<"endUnit", p>>, <<"endRoot", p>> >>
          BY <3>3, <3>7, Join11, Zenon
        <4> QED BY <3>7, <4>1
      <3> QED BY <3>1, <3>2, <3>4, <3>5, <3>6, <3>7
    <2>3. ListOK(calls', rootSeen', waitRoot', RootEnded')
      BY <1>2, <1>3, <1>6, <2>2, EndLists, NoCalls
    <2>4. CallsInv'
      BY <1>2, <1>3, <1>4, <1>11, <2>3 DEF CallsInv
    <2> QED BY <1>10, <2>4
  <1>12. CASE ~ sax.rootcalled /\ name # "unit"
    <2>1. calls' = << >> /\ ~ sax'.rootcalled
      BY <1>3, <1>4, <1>12
    <2>2. CallsInv'
      BY <1>2, <1>12, <2>1, NoCalls DEF CallsInv
    <2> QED BY <1>10, <2>2
  <1>13. CASE ~ sax.rootcalled /\ name = "unit"
    <2>1. rootEnds /\ waitRoot = TRUE /\ sax'.rootcalled
      BY <1>2, <1>3, <1>4, <1>5, <1>13
    <2>2. LateRoot(sax, p) = << <<"startRoot", 1>>, <<"startUnit", 1>>,
                                <<"endUnit", p>> >>
      BY <1>13 DEF LateRoot
    <2>3. calls' \in {<< <<"startRoot", 1>>, <<"startUnit", 1>>,
                         <<"endUnit", p>>, <<"endRoot", p>> >>,
                      << <<"endUnit", p>>, <<"startRoot", 1>>,
                         <<"startUnit", 1>>, <<"endUnit", p>>,
                         <<"endRoot", p>> >>}
      <3>1. a \in {<< >>, << <<"endUnit", p>> >>}
        OBVIOUS
      <3>2. b = << <<"startRoot", 1>>, <<"startUnit", 1>>, <<"endUnit", p>>,
                   <<"endRoot", p>> >>
        <4>1. b = LateRoot(sax, p) \o << <<"endRoot", p>> >>
          BY <2>1
        <4>2. << <<"startRoot", 1>>, <<"startUnit", 1>>, <<"endUnit", p>> >>
                 \o << <<"endRoot", p>> >>
              = << <<"startRoot", 1>>, <<"startUnit", 1>>, <<"endUnit", p>>,
                   <<"endRoot", p>> >>
          BY Join31
        <4> QED BY <2>2, <4>1, <4>2, Zenon
      <3>5. calls' = a \o b
        BY <1>4
      <3> HIDE DEF a, b
      <3>3. CASE a = << >>
        <4>1. calls' = << <<"startRoot", 1>>, <<"startUnit", 1>>,
                          <<"endUnit", p>>, <<"endRoot", p>> >>
          BY <3>2, <3>3, <3>5, Join04, Zenon
        <4> QED BY <4>1
      <3>4. CASE a = << <<"endUnit", p>> >>
        <4>1. calls' = << <<"endUnit", p>>, <<"startRoot", 1>>,
                          <<"startUnit", 1>>, <<"endUnit", p>>,
                          <<"endRoot", p>> >>
          BY <3>2, <3>4, <3>5, Join14, Zenon
        <4> QED BY <4>1
      <3> QED BY <3>1, <3>3, <3>4
    <2>4. ListOK(calls', rootSeen', waitRoot', RootEnded') /\ Announced(calls')
      BY <1>2, <1>3, <1>6, <2>1, <2>3, EndLists
    <2>5. CallsInv'
      BY <1>2, <2>1, <2>4 DEF CallsInv, Announced
    <2> QED BY <1>10, <2>5
  <1> QED BY <1>11, <1>12, <1>13

LEMMA TokenSax ==
    ASSUME TypeOK, SaxInv, CallsInv, NextToken
    PROVE  SaxInv' /\ CallsInv'
  <1> DEFINE token == doc[pos + 1]
  <1>1. token \in Token /\ token.tag # "error"
    BY DocumentsAssumption DEF NextToken, TypeOK
  <1>2. CASE token.tag = "text"
    <2>1. sax' = Text(sax, pos + 1) /\ calls' = << >> /\ depth' = depth
      BY <1>2 DEF NextToken, Callback, Does
    <2>2. /\ doc' = doc /\ rootSeen' = rootSeen /\ waitRoot' = waitRoot
          /\ pos' = pos + 1 /\ pos \in Nat /\ depth \in Int
          /\ sax.rootcalled => rootSeen
          /\ ~ waitRoot => sax.rootcalled
          /\ pos = 0 => depth = 0
          /\ sax.onStart = "root" => pos = 0
          /\ depth' = DepthAt(pos)' /\ sax \in SaxState
      BY BeforeToken
    <2>3. sax'.onStart = sax.onStart /\ sax'.rootcalled = sax.rootcalled
      BY <2>1, <2>2 DEF Text, Collect, SaxState
    <2>4. ~ sax.rootcalled =>
            \A q \in 2..pos' : Opens(doc'[q]) => doc'[q].name = "macro-list"
      BY <1>2, StillMacros DEF Opens
    <2>5. SaxInv'
      BY <2>1, <2>2, <2>3, <2>4 DEF SaxInv
    <2>6. CallsInv'
      BY <2>1, <2>2, <2>3, NoCalls DEF CallsInv
    <2> QED BY <2>5, <2>6
  <1> QED BY <1>1, <1>2, StartTagSax, EndTagSax DEF Token, Tags, Opens
\* a step that makes no call
LEMMA SaxKept ==
    ASSUME SaxInv, UNCHANGED <<doc, pos, depth>>,
           sax'.rootcalled = sax.rootcalled,
           \/ sax'.onStart = sax.onStart
           \/ sax'.onStart \in {"element", "none"} /\ calls # << >>,
           calls' # << >> => calls # << >>
    PROVE  SaxInv'
  <1>1. DepthAt(pos)' = DepthAt(pos)
    BY DEF DepthAt, OpenAfter
  <1> QED BY <1>1 DEF SaxInv

LEMMA CallsKept ==
    ASSUME CallsInv, UNCHANGED <<pos, depth, calls, rootSeen, waitRoot>>,
           sax'.rootcalled = sax.rootcalled
    PROVE  CallsInv'
  BY DEF CallsInv, RootEnded

\* a call that returns, and has not told of the root
LEMMA CallsTail ==
    ASSUME TypeOK, CallsInv, UNCHANGED <<pos, depth, rootSeen, waitRoot>>,
           sax'.rootcalled = sax.rootcalled,
           calls # << >>, Head(calls)[1] # "startRoot", calls' = Tail(calls)
    PROVE  CallsInv'
  <1>1. calls \in Seq(Calls \X (1..pos)) /\ rootSeen \in BOOLEAN
        /\ waitRoot \in BOOLEAN /\ RootEnded \in BOOLEAN /\ calls[1][1] # "startRoot"
    BY DEF TypeOK, RootEnded
  <1>2. ListOK(calls, rootSeen, waitRoot, RootEnded)
    BY DEF CallsInv
  <1>3. ListOK(Tail(calls), rootSeen, waitRoot, RootEnded)
    BY <1>1, <1>2, TailListOK
  <1>4. Announced(calls) => Announced(Tail(calls))
    <2> SUFFICES ASSUME Announced(calls) PROVE Announced(Tail(calls))
      OBVIOUS
    <2>1. PICK i \in 1..Len(calls) : calls[i][1] = "startRoot"
      BY DEF Announced
    <2>2. /\ Len(Tail(calls)) = Len(calls) - 1 /\ Len(calls) \in Nat
          /\ \A j \in 1..(Len(calls) - 1) : Tail(calls)[j] = calls[j + 1]
      BY <1>1, RestOfList
    <2>3. i # 1
      BY <1>1, <2>1
    <2>4. i - 1 \in 1..Len(Tail(calls)) /\ Tail(calls)[i - 1] = calls[i]
      BY <2>2, <2>3
    <2> QED BY <2>1, <2>4 DEF Announced
  <1>5. RootEnded' = RootEnded
    BY DEF RootEnded
  <1>6. /\ sax'.rootcalled => rootSeen' \/ Announced(calls')
        /\ ~ waitRoot' => rootSeen' /\ sax'.rootcalled
    BY <1>4 DEF CallsInv
  <1>7. ListOK(calls', rootSeen', waitRoot', RootEnded')
    BY <1>3, <1>5
  <1> QED BY <1>6, <1>7 DEF CallsInv

LEMMA ListSeen ==
    ASSUME NEW list, NEW seen, NEW waits, NEW over,
           ListOK(list, seen, waits, over)
    PROVE  ListOK(list, TRUE, waits, over)
  BY DEF ListOK

LEMMA StartRootCalls ==
    ASSUME TypeOK, SaxInv, CallsInv, StartRoot
    PROVE  CallsInv'
  <1>1. calls \in Seq(Calls \X (1..pos)) /\ waitRoot \in BOOLEAN
        /\ RootEnded \in BOOLEAN /\ calls # << >> /\ sax.rootcalled \in BOOLEAN
    BY DEF TypeOK, RootEnded, StartRoot, At, SaxState
  <1>2. ListOK(calls, TRUE, waitRoot, RootEnded)
    BY ListSeen DEF CallsInv
  <1>3. ListOK(Tail(calls), TRUE, waitRoot, RootEnded)
    BY <1>1, <1>2, TailListOK
  <1>4. /\ calls' = Tail(calls) /\ rootSeen' = TRUE /\ waitRoot' = waitRoot
        /\ RootEnded' = RootEnded /\ sax' = sax
    BY DEF StartRoot, Return, RootEnded
  <1>5. sax.rootcalled
    BY <1>1 DEF SaxInv
  <1>6. ListOK(calls', rootSeen', waitRoot', RootEnded')
    BY <1>3, <1>4
  <1> QED BY <1>4, <1>5, <1>6 DEF CallsInv

LEMMA PauseAtRootCalls ==
    ASSUME TypeOK, SaxInv, CallsInv, PauseAtRoot
    PROVE  CallsInv'
  <1>1. /\ calls' = calls /\ rootSeen' = rootSeen /\ waitRoot' = FALSE
        /\ RootEnded' = RootEnded /\ sax' = sax
        /\ calls # << >> /\ Head(calls)[1] = "startUnit"
    BY DEF PauseAtRoot, At, RootEnded
  <1>2. calls \in Seq(Calls \X (1..pos)) /\ rootSeen \in BOOLEAN
    BY DEF TypeOK
  <1>3. Len(calls) \in Nat \ {0} /\ calls[1][1] = "startUnit"
    BY <1>1, <1>2
  <1>4. ListOK(calls, rootSeen, waitRoot, RootEnded)
    BY DEF CallsInv
  <1>5. rootSeen
    <2>1. 1 \in 1..Len(calls) /\ ~ \E j \in 1..(1 - 1) : calls[j][1] = "startRoot"
      BY <1>3
    <2> QED BY <1>3, <1>4, <2>1 DEF ListOK
  <1>6. \A i \in 1..Len(calls) : calls[i][1] = "startUnit" => i = 1
    <2> SUFFICES ASSUME NEW i \in 1..Len(calls), calls[i][1] = "startUnit", i # 1
                 PROVE  FALSE
      OBVIOUS
    <2>1. 1 \in 1..(i - 1)
      BY <1>3
    <2> QED BY <1>3, <1>4, <2>1 DEF ListOK
  <1>7. ListOK(calls, rootSeen, FALSE, RootEnded)
    <2> SUFFICES ASSUME NEW i \in 1..Len(calls)
                 PROVE  /\ calls[i][1] = "startUnit" =>
                             \A j \in 1..(i - 1) :
                                /\ calls[j][1] # "startUnit"
                                /\ calls[j][1] = "endUnit" => FALSE
                        /\ calls[i][1] = "endRoot" => i = Len(calls) /\ RootEnded
      BY <1>5 DEF ListOK
    <2>1. calls[i][1] = "startUnit" => 1..(i - 1) = {}
      BY <1>6
    <2>2. calls[i][1] = "endRoot" => i = Len(calls) /\ RootEnded
      BY <1>4 DEF ListOK
    <2> QED BY <2>1, <2>2
  <1>8. sax.rootcalled
    BY <1>1 DEF SaxInv
  <1>9. ListOK(calls', rootSeen', waitRoot', RootEnded')
    BY <1>1, <1>7
  <1> QED BY <1>1, <1>5, <1>8, <1>9 DEF CallsInv

LEMMA ParserSax ==
    ASSUME TypeOK, SaxInv, CallsInv, AtInv, Parser
    PROVE  SaxInv' /\ CallsInv' /\ AtInv'
  <1> USE DEF flagVars, userVars
  <1>1. CASE NextToken
    <2>1. ppc' = "parse"
      BY <1>1 DEF NextToken
    <2> QED BY <1>1, <2>1, TokenSax DEF AtInv
  <1>2. CASE ParseEnds
    <2>1. ppc' = "ended" /\ UNCHANGED <<doc, pos, depth, calls, sax, rootSeen, waitRoot>>
      BY <1>2 DEF ParseEnds
    <2> QED BY <2>1, SaxKept, CallsKept DEF AtInv
  <1>3. CASE ParseFails
    <2>1. ppc' = "failed" /\ UNCHANGED <<doc, pos, depth, calls, sax, rootSeen, waitRoot>>
      BY <1>3 DEF ParseFails
    <2> QED BY <2>1, SaxKept, CallsKept DEF AtInv
  <1>4. CASE DoneNotifies
    <2>1. ppc' = "ended" /\ UNCHANGED <<doc, pos, depth, calls, sax, rootSeen, waitRoot>>
      BY <1>4 DEF DoneNotifies
    <2> QED BY <2>1, SaxKept, CallsKept DEF AtInv
  <1>5. CASE StartRoot
    <2>1. ppc' = "parse" /\ UNCHANGED <<doc, pos, depth, sax>> /\ calls # << >>
      BY <1>5 DEF StartRoot, At, Return
    <2> QED BY <1>5, <2>1, SaxKept, StartRootCalls DEF AtInv
  <1>6. CASE PauseAtRoot
    <2>1. ppc' = "root" /\ UNCHANGED <<doc, pos, depth, sax, calls>> /\ At("startUnit")
      BY <1>6 DEF PauseAtRoot
    <2>2. AtInv'
      BY <2>1 DEF AtInv, At
    <2> QED BY <1>6, <2>1, <2>2, SaxKept, PauseAtRootCalls
  <1>7. CASE LeaveRoot
    <2>1. ppc' = "parse" /\ UNCHANGED <<doc, pos, depth, sax, rootSeen, waitRoot>>
          /\ calls # << >> /\ Head(calls)[1] # "startRoot"
          /\ (calls' = calls \/ calls' = Tail(calls))
      BY <1>7 DEF LeaveRoot, Return, AtInv, At
    <2> QED BY <2>1, SaxKept, CallsKept, CallsTail DEF AtInv
  <1>8. CASE Attributes
    <2>1. ppc' = "unit" /\ UNCHANGED <<doc, pos, depth, calls, rootSeen, waitRoot>>
          /\ At("startUnit")
      BY <1>8 DEF Attributes
    <2>2. sax'.onStart = sax.onStart /\ sax'.rootcalled = sax.rootcalled
      BY <1>8 DEF Attributes, TypeOK, SaxState
    <2>3. AtInv'
      BY <2>1 DEF AtInv, At
    <2> QED BY <2>1, <2>2, <2>3, SaxKept, CallsKept
  <1>9. CASE PauseAtHeader
    <2>1. ppc' = "header" /\ UNCHANGED <<doc, pos, depth, sax, calls, rootSeen, waitRoot>>
          /\ At("startUnit")
      BY <1>9 DEF PauseAtHeader, AtInv
    <2>2. AtInv'
      BY <2>1 DEF AtInv, At
    <2> QED BY <2>1, <2>2, SaxKept, CallsKept
  <1>10. CASE LeaveHeader
    <2>1. ppc' = "parse" /\ UNCHANGED <<doc, pos, depth, rootSeen, waitRoot>>
          /\ calls # << >> /\ Head(calls)[1] # "startRoot" /\ calls' = Tail(calls)
      BY <1>10 DEF LeaveHeader, Return, AtInv, At
    <2>2. sax'.onStart = sax.onStart /\ sax'.rootcalled = sax.rootcalled
      BY <1>10 DEF LeaveHeader, TypeOK, SaxState
    <2> QED BY <2>1, <2>2, SaxKept, CallsTail DEF AtInv
  <1>11. CASE AfterCall
    <2>1. ppc' = "parse" /\ UNCHANGED <<doc, pos, depth, rootSeen, waitRoot>>
          /\ calls # << >> /\ Head(calls)[1] # "startRoot" /\ calls' = Tail(calls)
      BY <1>11 DEF AfterCall, Return, At
    <2>2. /\ sax'.rootcalled = sax.rootcalled
          /\ sax'.onStart = sax.onStart \/ sax'.onStart \in {"element", "none"}
      BY <1>11 DEF AfterCall, Callbacks, Collect, TypeOK, SaxState
    <2> QED BY <2>1, <2>2, SaxKept, CallsTail DEF AtInv
  <1>12. CASE PauseAtEnd
    <2>1. ppc' = "end" /\ UNCHANGED <<doc, pos, depth, calls, rootSeen, waitRoot>>
          /\ At("endUnit")
      BY <1>12 DEF PauseAtEnd
    <2>2. sax'.onStart = sax.onStart /\ sax'.rootcalled = sax.rootcalled
      BY <1>12 DEF PauseAtEnd, TypeOK, SaxState
    <2>3. AtInv'
      BY <2>1 DEF AtInv, At
    <2> QED BY <2>1, <2>2, <2>3, SaxKept, CallsKept
  <1>13. CASE LeaveEnd
    <2>1. ppc' = "parse" /\ UNCHANGED <<doc, pos, depth, sax, rootSeen, waitRoot>>
          /\ calls # << >> /\ Head(calls)[1] # "startRoot" /\ calls' = Tail(calls)
      BY <1>13 DEF LeaveEnd, Return, AtInv, At
    <2> QED BY <2>1, SaxKept, CallsTail DEF AtInv
  <1>14. CASE PassEnd
    <2>1. ppc' = "parse" /\ UNCHANGED <<doc, pos, depth, sax, rootSeen, waitRoot>>
          /\ calls # << >> /\ Head(calls)[1] # "startRoot" /\ calls' = Tail(calls)
      BY <1>14 DEF PassEnd, Return, At
    <2> QED BY <2>1, SaxKept, CallsTail DEF AtInv
  <1>15. CASE EndRoot
    <2>1. ppc' = "parse" /\ UNCHANGED <<doc, pos, depth, sax, rootSeen, waitRoot>>
          /\ calls # << >> /\ Head(calls)[1] # "startRoot" /\ calls' = Tail(calls)
      BY <1>15 DEF EndRoot, Return, At
    <2> QED BY <2>1, SaxKept, CallsTail DEF AtInv
  <1> QED
    BY <1>1, <1>2, <1>3, <1>4, <1>5, <1>6, <1>7, <1>8, <1>9, <1>10, <1>11,
       <1>12, <1>13, <1>14, <1>15 DEF Parser, StartUnit, EndUnit
Told == SaxInv /\ CallsInv /\ AtInv

LEMMA ToldInit == Init => Told
  <1> SUFFICES ASSUME Init PROVE Told
    OBVIOUS
  <1>1. /\ pos = 0 /\ depth = 0 /\ calls = << >> /\ ppc = "parse"
        /\ sax.onStart = "root" /\ sax.rootcalled = FALSE /\ waitRoot = TRUE
    BY DEF Init, SaxInit
  <1>2. SaxInv
    BY <1>1, DepthAtNone DEF SaxInv
  <1>3. CallsInv
    BY <1>1, NoCalls DEF CallsInv
  <1>4. AtInv
    BY <1>1 DEF AtInv
  <1> QED BY <1>2, <1>3, <1>4 DEF Told

LEMMA ToldStep == Inv /\ Told /\ [Next]_vars => Told'
  <1> SUFFICES ASSUME Inv, Told, [Next]_vars PROVE Told'
    OBVIOUS
  <1>1. CASE Parser
    BY <1>1, ParserSax DEF Inv, Told
  <1>2. CASE UNCHANGED <<doc, pos, depth, sax, calls, ppc, rootSeen, waitRoot>>
    <2>1. SaxInv'
      BY <1>2, SaxKept DEF Told
    <2>2. CallsInv'
      BY <1>2, CallsKept DEF Told
    <2>3. AtInv'
      BY <1>2 DEF Told, AtInv, At
    <2> QED BY <2>1, <2>2, <2>3 DEF Told
  <1>3. [Next]_vars => \/ Parser \/ Continues \/ Call \/ Free
                       \/ UNCHANGED <<doc, pos, depth, sax, calls, ppc,
                                      rootSeen, waitRoot>>
    BY DEF Next, Terminating, vars, parserVars
  <1> QED BY <1>1, <1>2, <1>3, UserFrame

\* When an archive has been opened, and while units are read from it, the
\* attributes of its root are known, for every document, although the root is
\* announced only after the first element below it that is no macro list
\* (sax2_srcsax_handler: start_root, first_start_element, end_root).
THEOREM RootIsFirst == Spec => []RootFirst
  <1>1. Inv /\ Told => RootFirst
    <2> SUFFICES ASSUME Inv, Told, UserRuns, ~ isDone PROVE rootSeen
      BY DEF RootFirst
    <2>1. call # "open"
      BY DEF UserRuns, Inv, HandInv
    <2>2. ~ waitRoot
      BY <2>1 DEF Inv, RootInv
    <2> QED BY <2>2 DEF Told, CallsInv
  <1> QED BY <1>1, InvInit, InvStep, ToldInit, ToldStep, PTL DEF Spec
-----------------------------------------------------------------------------
(* The parser's steps keep CallInv, PlaceInv and RestInv *)

LEMMA ParserCall ==
    ASSUME TypeOK, WaitInv, RootInv, CallInv, Parser
    PROVE  CallInv'
  <1>1. /\ UNCHANGED <<terminate, collectHeader, collectBody, unit, call, at>>
        /\ isDone => isDone'
    BY ParserFrame
  <1>2. ppc # "ended"
    BY DEF Parser, StartUnit, EndUnit, NextToken, ParseEnds, ParseFails,
           DoneNotifies, StartRoot, PauseAtRoot, LeaveRoot, Attributes,
           PauseAtHeader, LeaveHeader, AfterCall, PauseAtEnd, LeaveEnd,
           PassEnd, EndRoot
  <1>3. stopped' => stopped \/ terminate
    BY DEF Parser, StartUnit, EndUnit, NextToken, ParseEnds, ParseFails,
           DoneNotifies, StartRoot, PauseAtRoot, LeaveRoot, Attributes,
           PauseAtHeader, LeaveHeader, AfterCall, PauseAtEnd, LeaveEnd,
           PassEnd, EndRoot, StopIf
  <1>4. isDone \in BOOLEAN /\ isDone' \in BOOLEAN /\ terminate \in BOOLEAN
    BY ParserType DEF TypeOK
  <1> QED BY <1>1, <1>2, <1>3, <1>4 DEF CallInv

\* the end of the root is the last call
LEMMA EndRootLast ==
    ASSUME TypeOK, CallsInv, At("endRoot")
    PROVE  Tail(calls) = << >> /\ RootEnded
  <1>1. calls \in Seq(Calls \X (1..pos)) /\ calls # << >>
        /\ Head(calls)[1] = "endRoot"
    BY DEF TypeOK, At
  <1>2. Len(calls) \in Nat \ {0} /\ calls[1][1] = "endRoot"
        /\ Len(Tail(calls)) = Len(calls) - 1
    BY <1>1
  <1>3. Len(calls) = 1 /\ RootEnded
    <2>1. ListOK(calls, rootSeen, waitRoot, RootEnded)
      BY DEF CallsInv
    <2>2. 1 \in 1..Len(calls)
      BY <1>2
    <2> QED BY <1>2, <2>1, <2>2 DEF ListOK
  <1>4. Tail(calls) \in Seq(Calls \X (1..pos))
    BY <1>1
  <1>5. Len(Tail(calls)) = 0
    <2>1. Len(calls) = 1 /\ Len(Tail(calls)) = Len(calls) - 1
      BY <1>2, <1>3
    <2> QED BY <2>1
  <1>6. Tail(calls) = << >>
    BY <1>4, <1>5, EmptySeq, Zenon
  <1> QED BY <1>3, <1>6

LEMMA ParserPlace ==
    ASSUME Inv, Told, CallInv, PlaceInv, Parser
    PROVE  PlaceInv'
  <1>1. TypeOK /\ WaitInv /\ RootInv /\ HandInv /\ SaxInv /\ CallsInv /\ AtInv
    BY DEF Inv, Told
  <1>2. /\ UNCHANGED <<terminate, collectHeader, collectBody, unit, call, at>>
        /\ isDone => isDone'
    BY <1>1, ParserFrame
  <1>3. /\ "parser" \notin waiting
        /\ \/ waiting' = {"parser"}
           \/ waiting' = waiting
           \/ waiting' = waiting \ {"user"}
    BY <1>1, ParserMoves
  <1>4. /\ {isDone, isDone', terminate, waitRoot, readRoot} \subseteq BOOLEAN
        /\ RootEnded \in BOOLEAN
    BY <1>1, ParserType DEF TypeOK, RootEnded
  \* a parser that moves before the reader is freed has not announced the end
  <1>5. isDone /\ ~ terminate => calls = << >> /\ ~ NextToken
    BY DEF PlaceInv, NextToken
  <1>6. ~ waitRoot' /\ ~ readRoot' => ppc' = "root"
    BY <1>4
    DEF PlaceInv, Parser, StartUnit, EndUnit, NextToken, ParseEnds, ParseFails,
        DoneNotifies, StartRoot, PauseAtRoot, LeaveRoot, Attributes,
        PauseAtHeader, LeaveHeader, AfterCall, PauseAtEnd, LeaveEnd,
        PassEnd, EndRoot, flagVars
  <1>7. call = "open" => ppc' \notin {"unit", "header"}
    BY <1>1, <1>3, <1>4
    DEF PlaceInv, RootInv, Parser, StartUnit, EndUnit, NextToken, ParseEnds,
        ParseFails, DoneNotifies, StartRoot, PauseAtRoot, LeaveRoot,
        Attributes, PauseAtHeader, LeaveHeader, AfterCall, PauseAtEnd,
        LeaveEnd, PassEnd, EndRoot, Return
  <1>8. isDone' /\ ~ terminate =>
          /\ calls' = << >>
          /\ ppc' \in {"failed", "ended"} \/ (ppc' = "parse" /\ RootEnded')
    <2> SUFFICES ASSUME isDone', ~ terminate
                 PROVE  /\ calls' = << >>
                        /\ \/ ppc' \in {"failed", "ended"}
                           \/ ppc' = "parse" /\ RootEnded'
      OBVIOUS
    <2>1. CASE isDone
      <3>1. calls = << >> /\ ~ NextToken
        BY <1>5, <2>1
      <3>2. ParseEnds \/ ParseFails \/ DoneNotifies
        BY <1>1, <3>1 DEF Parser, StartUnit, EndUnit, StartRoot, PauseAtRoot,
          LeaveRoot, Attributes, PauseAtHeader, LeaveHeader, AfterCall,
          PauseAtEnd, LeaveEnd, PassEnd, EndRoot, At, TypeOK
      <3> QED BY <3>1, <3>2 DEF ParseEnds, ParseFails, DoneNotifies
    <2>2. CASE ~ isDone
      <3>1. ParseFails \/ EndRoot
        BY <2>2 DEF Parser, StartUnit, EndUnit, NextToken, ParseEnds,
          DoneNotifies, StartRoot, PauseAtRoot, LeaveRoot, Attributes,
          PauseAtHeader, LeaveHeader, AfterCall, PauseAtEnd, LeaveEnd,
          PassEnd, StopIf
      <3>2. CASE ParseFails
        BY <3>2 DEF ParseFails
      <3>3. CASE EndRoot
        BY <1>1, <3>3, EndRootLast DEF EndRoot, Return, RootEnded
      <3> QED BY <3>1, <3>2, <3>3
    <2> QED BY <2>1, <2>2
  <1>9. call = "free" /\ ~ terminate => isDone'
    BY <1>2, <1>3 DEF PlaceInv
  <1>10. call = "body" /\ "parser" \in waiting' => ppc' = "end"
    <2> SUFFICES ASSUME call = "body", "parser" \in waiting'
                 PROVE  ppc' = "end"
      OBVIOUS
    <2>1. ~ collectHeader /\ ~ terminate
      BY DEF CallInv
    <2>2. ~ PauseAtHeader
      BY <2>1 DEF PauseAtHeader
    <2>3. ~ PauseAtRoot
      <3> SUFFICES ASSUME PauseAtRoot PROVE FALSE
        OBVIOUS
      <3>1. ppc = "parse" /\ ~ readRoot /\ calls # << >>
        BY DEF PauseAtRoot, At
      <3>2. ~ isDone
        BY <1>5, <2>1, <3>1
      <3>3. ~ waitRoot
        BY <1>1, <3>2 DEF RootInv
      <3> QED BY <3>1, <3>3 DEF PlaceInv
    <2>4. PauseAtEnd
      BY <1>3, <2>2, <2>3
      DEF Parser, StartUnit, EndUnit, NextToken, ParseEnds, ParseFails,
          DoneNotifies, StartRoot, LeaveRoot, Attributes, LeaveHeader,
          AfterCall, LeaveEnd, PassEnd, EndRoot
    <2> QED BY <2>4 DEF PauseAtEnd
  <1> QED BY <1>2, <1>6, <1>7, <1>8, <1>9, <1>10 DEF PlaceInv

\* none of the calls that are left starts a unit
LEMMA NoneLeft ==
    ASSUME TypeOK, calls # << >>,
           \A i \in 1..Len(calls) : calls[i][1] = "startUnit" => i = 1
    PROVE  \A i \in 1..Len(Tail(calls)) : Tail(calls)[i][1] # "startUnit"
  <1>1. calls \in Seq(Calls \X (1..pos))
    BY DEF TypeOK
  <1>2. /\ Len(Tail(calls)) = Len(calls) - 1 /\ Len(calls) \in Nat
        /\ \A i \in 1..(Len(calls) - 1) : Tail(calls)[i] = calls[i + 1]
    BY <1>1, RestOfList
  <1>3. \A i \in 1..(Len(calls) - 1) : i + 1 \in 1..Len(calls) /\ i + 1 # 1
    BY <1>2
  <1> QED BY <1>2, <1>3

LEMMA ParserRest ==
    ASSUME Inv, Told, CallInv, PlaceInv, RestInv, Parser
    PROVE  RestInv'
  <1>1. TypeOK /\ WaitInv /\ RootInv /\ HandInv /\ SaxInv /\ CallsInv /\ AtInv
    BY DEF Inv, Told
  <1>2. UNCHANGED <<terminate, collectHeader, collectBody, unit, call, at>>
    BY <1>1, ParserFrame
  <1> SUFFICES ASSUME call \in {"idle", "free"} PROVE AtRest'
    BY <1>2 DEF RestInv
  <1>3. "parser" \notin waiting
    BY <1>1, ParserMoves
  <1>4. terminate \/ isDone
    BY <1>1, <1>3 DEF HandInv, HandOff, UserRuns, PlaceInv
  <1>5. AtRest /\ ~ collectBody
    BY DEF RestInv, CallInv
  <1>6. calls # << >> => terminate = TRUE
    BY <1>1, <1>4 DEF PlaceInv, TypeOK
  <1>7. ppc = "parse" => \A i \in 1..Len(calls) : calls[i][1] # "startUnit"
    BY <1>5 DEF AtRest
  <1>8. ~ (ppc = "parse" /\ At("startUnit")) /\ ppc # "unit"
    <2>1. calls # << >> => Head(calls) = calls[1] /\ 1 \in 1..Len(calls)
      BY <1>1 DEF TypeOK
    <2> QED BY <1>5, <1>7, <2>1 DEF At, AtRest
  <1>9. ~ NextToken
    BY <1>5 DEF AtRest, Halted, NextToken, Paused
  <1>10. ~ PauseAtRoot /\ ~ Attributes /\ ~ PauseAtHeader /\ ~ PauseAtEnd
    BY <1>5, <1>8 DEF PauseAtRoot, Attributes, PauseAtHeader, PauseAtEnd
  <1>11. CASE ParseEnds \/ ParseFails \/ DoneNotifies
    <2>1. ppc' \in {"failed", "ended"} /\ calls' = calls
      BY <1>11 DEF ParseEnds, ParseFails, DoneNotifies
    <2>2. ppc \in {"parse", "failed"}
      BY <1>11 DEF ParseEnds, ParseFails, DoneNotifies
    <2>3. \A i \in 1..Len(calls) : calls[i][1] # "startUnit"
      BY <1>5, <2>2 DEF AtRest
    <2> QED BY <2>1, <2>3 DEF AtRest, Halted
  <1>12. CASE LeaveRoot \/ LeaveHeader \/ LeaveEnd
    <2>1. calls # << >>
      BY <1>1, <1>8, <1>12 DEF LeaveRoot, LeaveHeader, LeaveEnd, TypeOK
    <2>2. terminate = TRUE
      BY <1>6, <2>1
    <2>3. ppc' = "parse" /\ calls' = Tail(calls) /\ stopped' = TRUE
      BY <1>12, <2>2 DEF LeaveRoot, LeaveHeader, LeaveEnd, Return, StopIf
    <2>4. \A i \in 1..Len(Tail(calls)) : Tail(calls)[i][1] # "startUnit"
      BY <1>1, <1>5, <2>1, NoneLeft DEF AtRest
    <2> QED BY <2>3, <2>4 DEF AtRest, Halted
  <1>13. CASE StartRoot \/ AfterCall \/ PassEnd \/ EndRoot
    <2>1. /\ ppc = "parse" /\ calls # << >> /\ calls' = Tail(calls)
          /\ ppc' = "parse" /\ UNCHANGED <<pos, depth>>
          /\ stopped => stopped'
      <3>1. stopped \in BOOLEAN /\ terminate \in BOOLEAN
        BY <1>1 DEF TypeOK
      <3>2. CASE StartRoot
        BY <3>2 DEF StartRoot, At, Return
      <3>3. CASE AfterCall
        BY <3>3 DEF AfterCall, At, Return
      <3>4. CASE PassEnd
        BY <3>1, <3>4 DEF PassEnd, At, Return, StopIf
      <3>5. CASE EndRoot
        BY <3>1, <3>5 DEF EndRoot, At, Return
      <3> QED BY <1>13, <3>2, <3>3, <3>4, <3>5
    <2>2. \A i \in 1..Len(Tail(calls)) : Tail(calls)[i][1] # "startUnit"
      BY <1>1, <1>7, <2>1, NoneLeft
    <2>3. stopped \/ RootEnded
      BY <1>5, <2>1 DEF AtRest, Halted, Paused
    <2>4. stopped' \/ RootEnded'
      BY <2>1, <2>3 DEF RootEnded
    <2> QED BY <2>1, <2>2, <2>4 DEF AtRest, Halted
  <1> QED
    BY <1>9, <1>10, <1>11, <1>12, <1>13 DEF Parser, StartUnit, EndUnit
-----------------------------------------------------------------------------
(* and so do the user's *)

\* what is told, the flags and the places as a step of the user finds them
LEMMA UserFinds ==
    ASSUME Inv, Continues \/ Call \/ Free
    PROVE  /\ UNCHANGED <<pos, depth, stopped, calls, ppc, isDone, waitRoot,
                          readRoot>>
           /\ Halted' = Halted
           /\ {isDone, terminate, collectHeader, collectBody} \subseteq BOOLEAN
           /\ waiting \subseteq Threads
  <1>1. UNCHANGED <<pos, depth, stopped, calls, ppc, isDone, waitRoot, readRoot>>
    BY UserFrame
  <1>2. Halted' = Halted
    BY <1>1 DEF Halted, RootEnded
  <1> QED BY <1>1, <1>2 DEF Inv, TypeOK

LEMMA UserCall ==
    ASSUME Inv, CallInv, Continues \/ Call \/ Free
    PROVE  CallInv'
  <1>1. /\ UNCHANGED <<stopped, ppc, isDone>>
        /\ isDone \in BOOLEAN /\ terminate \in BOOLEAN
        /\ collectHeader \in BOOLEAN /\ collectBody \in BOOLEAN
    BY UserFinds
  <1>2. /\ call = "idle" => at = "user"
        /\ call = "open" => at \in {"enter", "holds", "waits"}
    BY DEF Inv, HandInv
  <1> USE DEF CallInv, Reaches
  <1>3. CASE EnterWait
    BY <1>1, <1>2, <1>3 DEF EnterWait
  <1>4. CASE EnterResume
    BY <1>1, <1>2, <1>4 DEF EnterResume
  <1>5. CASE Wait
    BY <1>1, <1>2, <1>5 DEF Wait
  <1>6. CASE Wake
    BY <1>1, <1>2, <1>6 DEF Wake
  <1>7. CASE HeaderDone
    BY <1>1, <1>2, <1>7 DEF HeaderDone
  <1>8. CASE BodyBegins
    BY <1>1, <1>2, <1>8 DEF BodyBegins
  <1>9. CASE NoBody
    BY <1>1, <1>2, <1>9 DEF NoBody, Returns
  <1>10. CASE BodyDone
    BY <1>1, <1>2, <1>10 DEF BodyDone, Returns
  <1>11. CASE Stop
    BY <1>1, <1>2, <1>11 DEF Stop
  <1>12. CASE Resume
    BY <1>1, <1>2, <1>12 DEF Resume
  <1>13. CASE Join
    BY <1>1, <1>2, <1>13 DEF Join
  <1>14. CASE Call
    BY <1>1, <1>2, <1>14 DEF Call
  <1>15. CASE Free
    BY <1>1, <1>2, <1>15 DEF Free
  <1> QED
    BY <1>3, <1>4, <1>5, <1>6, <1>7, <1>8, <1>9,
       <1>10, <1>11, <1>12, <1>13, <1>14, <1>15 DEF Continues

LEMMA UserPlace ==
    ASSUME Inv, CallInv, PlaceInv, Continues \/ Call \/ Free
    PROVE  PlaceInv'
  <1>1. UNCHANGED <<pos, depth, stopped, calls, ppc, isDone, waitRoot, readRoot>>
    BY UserFinds
  <1>2. RootEnded' = RootEnded
    BY <1>1 DEF RootEnded
  <1>3. isDone \in BOOLEAN /\ terminate \in BOOLEAN
    BY UserFinds
  <1>4. terminate' = terminate \/ terminate' = TRUE
    BY DEF Continues, Call, Free, EnterWait, EnterResume, Wait, Wake,
           HeaderDone, BodyBegins, NoBody, BodyDone, Stop, Resume, Join
  <1>5. call' = "open" => call = "open"
    BY DEF Continues, Call, Free, EnterWait, EnterResume, Wait, Wake,
           HeaderDone, BodyBegins, NoBody, BodyDone, Stop, Resume, Join,
           Reaches, Returns
  <1>6. /\ ~ waitRoot /\ ~ readRoot => ppc = "root"
        /\ call = "open" => ppc \notin {"unit", "header"}
        /\ isDone /\ ~ terminate =>
             /\ calls = << >>
             /\ ppc \in {"failed", "ended"} \/ (ppc = "parse" /\ RootEnded)
    BY DEF PlaceInv
  <1>7. call' = "free" /\ ~ terminate' => waiting' = {"parser"} \/ isDone'
    <2> SUFFICES ASSUME call' = "free", ~ terminate'
                 PROVE  waiting' = {"parser"} \/ isDone'
      OBVIOUS
    <2>1. ~ Stop /\ ~ terminate
      BY <1>3, <1>4 DEF Stop
    <2>2. CASE call = "free"
      <3>1. at = "stop"
        BY <2>1, <2>2 DEF CallInv
      <3> QED
        BY <2>1, <2>2, <3>1
        DEF Continues, Call, Free, EnterWait, EnterResume, Wait, Wake,
            HeaderDone, BodyBegins, NoBody, BodyDone, Resume, Join
    <2>3. CASE call # "free"
      <3>1. Free
        BY <2>3 DEF Continues, Call, EnterWait, EnterResume, Wait, Wake,
          HeaderDone, BodyBegins, NoBody, BodyDone, Stop, Resume, Join,
          Reaches, Returns
      <3>2. call = "idle" /\ waiting' = waiting
        BY <3>1 DEF Free
      <3> QED BY <1>1, <3>2 DEF Inv, HandInv, HandOff, UserRuns
    <2> QED BY <2>2, <2>3
  <1>8. call' = "body" /\ at' \in {"waits", "left"} /\ "parser" \in waiting' =>
           ppc = "end"
    <2> SUFFICES ASSUME call' = "body", at' \in {"waits", "left"},
                        "parser" \in waiting'
                 PROVE  ppc = "end"
      OBVIOUS
    <2>1. Wait \/ Wake
      BY DEF Continues, Call, Free, EnterWait, EnterResume,
          HeaderDone, BodyBegins, NoBody, BodyDone, Stop, Resume, Join,
          Reaches, Returns
    <2>2. ~ Wait
      BY DEF Wait, Inv, WaitInv
    <2>3. Wake /\ call = "body" /\ at = "waits" /\ "parser" \in waiting
      BY <2>1, <2>2 DEF Wake, Reaches
    <2> QED BY <2>3 DEF PlaceInv
  <1>9. /\ ~ waitRoot' /\ ~ readRoot' => ppc' = "root"
        /\ call' = "open" => ppc' \notin {"unit", "header"}
    BY <1>1, <1>5, <1>6
  <1>10. isDone' /\ ~ terminate' =>
             /\ calls' = << >>
             /\ ppc' \in {"failed", "ended"} \/ (ppc' = "parse" /\ RootEnded')
    BY <1>1, <1>2, <1>3, <1>4, <1>6
  <1>11. call' = "body" /\ at' \in {"waits", "left"} /\ "parser" \in waiting' =>
           ppc' = "end"
    BY <1>1, <1>8
  <1> QED BY <1>7, <1>9, <1>10, <1>11 DEF PlaceInv

\* a parser that has paused, or has nothing more to call, is at rest
LEMMA RestsWhenPaused ==
    ASSUME Inv, Told, PlaceInv, ~ terminate, waiting = {"parser"} \/ isDone,
           ppc = "header" => unit = "none"
    PROVE  AtRest
  <1>1. CASE isDone
    <2>1. calls = << >> /\ (ppc \in {"failed", "ended"} \/ RootEnded)
      BY <1>1 DEF PlaceInv
    <2>2. ppc \notin {"root", "unit", "header", "end"}
      BY <2>1 DEF Inv, TypeOK
    <2>3. \A i \in 1..Len(calls) : calls[i][1] # "startUnit"
      BY <2>1
    <2> QED BY <2>1, <2>2, <2>3 DEF AtRest, Halted
  <1>2. CASE waiting = {"parser"}
    <2>1. ppc \in Paused
      BY <1>2 DEF Inv, WaitInv
    <2>2. ~ waitRoot
      BY <2>1 DEF Inv, RootInv, Paused
    <2>3. calls \in Seq(Calls \X (1..pos)) /\ calls # << >>
      BY <2>1 DEF Inv, TypeOK, Paused
    <2>4. /\ Len(calls) \in Nat \ {0}
          /\ calls[1][1] = IF ppc = "end" THEN "endUnit" ELSE "startUnit"
      BY <2>1, <2>3 DEF Told, AtInv, At, Paused
    <2>5. ListOK(calls, rootSeen, waitRoot, RootEnded)
      BY DEF Told, CallsInv
    <2>6. ASSUME NEW i \in 1..Len(calls), calls[i][1] = "startUnit"
          PROVE  i = 1 /\ ppc \in {"root", "header"}
      <3>1. \A j \in 1..(i - 1) : /\ calls[j][1] # "startUnit"
                                  /\ calls[j][1] # "endUnit"
        BY <2>2, <2>5, <2>6 DEF ListOK
      <3>2. i # 1 => 1 \in 1..(i - 1)
        BY <2>4
      <3>3. i = 1
        BY <2>4, <3>1, <3>2
      <3>4. ppc # "end"
        BY <2>4, <2>6, <3>3
      <3> QED BY <2>1, <3>3, <3>4 DEF Paused
    <2>7. ppc # "unit"
      BY <2>1 DEF Paused
    <2> QED BY <2>1, <2>6, <2>7 DEF AtRest
  <1> QED BY <1>1, <1>2

LEMMA UserRest ==
    ASSUME Inv, Told, CallInv, PlaceInv, RestInv, Continues \/ Call \/ Free
    PROVE  RestInv'
  <1>1. UNCHANGED <<calls, ppc>> /\ Halted' = Halted
    BY UserFinds
  <1>2. AtRest /\ unit' = unit => AtRest'
    BY <1>1 DEF AtRest
  <1>3. CASE Free \/ Stop \/ Resume \/ Join
    BY <1>2, <1>3 DEF RestInv, Free, Stop, Resume, Join, Reaches
  <1>4. CASE EnterWait \/ Wake
    <2> SUFFICES ASSUME call' \in {"idle", "free"} PROVE AtRest'
      BY DEF RestInv
    <2>1. call = "open" /\ unit' = unit
      BY <1>4 DEF EnterWait, Wake, Reaches, CallInv, Inv, HandInv
    <2>2. ~ terminate /\ ppc # "header"
      BY <2>1 DEF CallInv, PlaceInv
    <2>3. waiting = {"parser"} \/ isDone
      BY <1>4, <2>1 DEF EnterWait, Wake, Reaches, Inv, RootInv, HandInv
    <2>4. AtRest
      BY <2>2, <2>3, RestsWhenPaused
    <2> QED BY <1>2, <2>1, <2>4
  <1>5. CASE NoBody \/ BodyDone
    <2>1. /\ call = "body" /\ at \in {"begin", "left"} /\ unit' = unit
      BY <1>5 DEF NoBody, BodyDone
    <2>2. ~ terminate
      BY <2>1 DEF CallInv
    <2>3. waiting = {"parser"} \/ isDone
      BY <2>1 DEF Inv, HandInv, HandOff, UserRuns
    <2>4. ppc = "header" => unit = "none"
      <3> SUFFICES ASSUME ppc = "header" PROVE unit = "none"
        OBVIOUS
      <3>1. ~ isDone
        BY <2>2 DEF PlaceInv
      <3>2. at # "left"
        BY <2>1, <2>3, <3>1 DEF PlaceInv
      <3> QED BY <2>1, <3>1, <3>2 DEF CallInv
    <2>5. AtRest
      BY <2>2, <2>3, <2>4, RestsWhenPaused
    <2> QED BY <1>2, <2>1, <2>5 DEF RestInv
  <1>6. CASE Call \/ HeaderDone \/ BodyBegins \/ EnterResume \/ Wait
    <2>1. call' \notin {"idle", "free"} \/ (Wait /\ call' = call)
      BY <1>6 DEF Call, HeaderDone, BodyBegins, EnterResume, Wait, Reaches
    <2>2. Wait => unit' = unit
      BY DEF Wait
    <2> QED BY <1>2, <2>1, <2>2 DEF RestInv
  <1> QED BY <1>3, <1>4, <1>5, <1>6 DEF Continues

-----------------------------------------------------------------------------
Placed == CallInv /\ PlaceInv /\ RestInv

LEMMA PlacedInit == Init => Placed
  BY DEF Init, Placed, CallInv, PlaceInv, RestInv

LEMMA PlacedStep == Inv /\ Told /\ Placed /\ [Next]_vars => Placed'
  <1> SUFFICES ASSUME Inv, Told, Placed, [Next]_vars PROVE Placed'
    OBVIOUS
  <1>1. CASE Parser
    BY <1>1, ParserCall, ParserPlace, ParserRest DEF Inv, Placed
  <1>2. CASE Continues \/ Call \/ Free
    BY <1>2, UserCall, UserPlace, UserRest DEF Placed
  <1>3. CASE UNCHANGED vars
    <2> USE <1>3 DEF vars, parserVars, flagVars, userVars, RootEnded
    <2>1. CallInv'
      BY DEF Placed, CallInv
    <2>2. PlaceInv'
      BY DEF Placed, PlaceInv
    <2>3. RestInv'
      BY DEF Placed, RestInv, AtRest, Halted
    <2> QED BY <2>1, <2>2, <2>3 DEF Placed
  <1> QED BY <1>1, <1>2, <1>3 DEF Next, Terminating

\* who writes to a unit
LEMMA WhoWrites ==
    ASSUME Inv, Told, Placed, [Next]_vars, object' # object,
           UNCHANGED <<call, at>>
    PROVE  call \in {"header", "body"}
  <1>1. Attributes \/ LeaveHeader \/ PauseAtEnd \/ Call
    BY DEF Next, Terminating, Parser, StartUnit, EndUnit, NextToken, ParseEnds,
      ParseFails, DoneNotifies, StartRoot, PauseAtRoot, LeaveRoot,
      PauseAtHeader, AfterCall, LeaveEnd, PassEnd, EndRoot, Continues, Free,
      EnterWait, EnterResume, Wait, Wake, HeaderDone, BodyBegins, NoBody,
      BodyDone, Stop, Resume, Join, vars, userVars
  <1>2. ~ Call
    BY DEF Call, Reaches
  <1>3. call \in {"open", "idle", "header", "body", "free", "freed"}
    BY DEF Inv, TypeOK
  <1>4. CASE Attributes
    <2>1. ppc = "parse" /\ calls # << >> /\ Head(calls)[1] = "startUnit" /\ readRoot
      BY <1>4 DEF Attributes, At
    <2>2. "parser" \notin waiting
      BY <1>4, ParserMoves DEF Inv, Parser, StartUnit
    <2>3. call # "open"
      BY <2>1, <2>2 DEF Inv, RootInv
    <2>4. 1 \in 1..Len(calls) /\ Head(calls) = calls[1]
      BY <2>1 DEF Inv, TypeOK
    <2>5. call \notin {"idle", "free"}
      BY <2>1, <2>4 DEF Placed, RestInv, AtRest
    <2>6. call # "freed"
      BY <2>1 DEF Placed, CallInv
    <2> QED BY <1>3, <2>3, <2>5, <2>6
  <1>5. CASE LeaveHeader
    <2>1. ppc \in {"unit", "header"} /\ unit # "none"
      BY <1>5 DEF LeaveHeader
    <2>2. call \notin {"open", "idle", "free", "freed"}
      BY <2>1 DEF Placed, PlaceInv, RestInv, AtRest, CallInv
    <2> QED BY <1>3, <2>2
  <1>6. CASE PauseAtEnd
    BY <1>6 DEF PauseAtEnd, Placed, CallInv
  <1> QED BY <1>1, <1>2, <1>4, <1>5, <1>6

\* The parser writes to a unit only while the call it belongs to waits, for
\* every document and every sequence of calls: never after the unit was
\* returned and may have been freed (srcml_reader_handler::startUnit, endUnit).
THEOREM WritesDuringCall == Spec => WritesInCall
  <1>1. Inv /\ Told /\ Placed /\ [Next]_vars =>
           [object' # object /\ UNCHANGED <<call, at>> =>
               call \in {"header", "body"}]_vars
    BY WhoWrites
  <1> QED
    BY <1>1, InvInit, InvStep, ToldInit, ToldStep, PlacedInit, PlacedStep, PTL
    DEF Spec, WritesInCall

-----------------------------------------------------------------------------
(* Reading implements the stream of the units.                             *)
(*                                                                         *)
(* Two invariants carry this.  SaxUnits relates the state of the SAX layer *)
(* and the calls it still has to make to the place in the document: the    *)
(* unit that started last is announced once, is collected to its last tag  *)
(* and is ended once.  UserUnits relates that place to the user: how many  *)
(* units the parser has entered, how many the user has taken, and what the *)
(* unit of the running call holds already.                                 *)

\* u is the last unit that starts up to p
Cur(d, u, p) == /\ u \in UnitStarts(d) /\ u <= p
                /\ \A q \in UnitStarts(d) : q <= p => q <= u

HasCall(list, c) == \E i \in 1..Len(list) : list[i][1] = c
Has(c) == HasCall(calls, c)

Once == {"startUnit", "callbacks", "element"}

\* the calls for the token p, in the unit u or at its end
CallsOf(list, u, p) ==
    \A i \in 1..Len(list) :
        /\ list[i][1] = "startUnit" => list[i][2] = u
        /\ list[i][1] = "element" => list[i][2] = p
        /\ list[i][1] \in Once =>
             \A j \in 1..Len(list) : list[j][1] = list[i][1] => j = i

\* the calls for a token of a unit: what comes after start_unit comes last
OpeningCalls(list) ==
    \A i \in 1..Len(list) :
        /\ list[i][1] \notin {"endUnit", "endRoot"}
        /\ list[i][1] \in {"callbacks", "element"} => i = Len(list)

\* the calls for an end tag: what is started is ended, and not ended twice
ClosingCalls(list) ==
    \A i \in 1..Len(list) :
        /\ list[i][1] \notin {"callbacks", "element"}
        /\ list[i][1] = "startUnit" =>
             \E j \in (i + 1)..Len(list) : list[j][1] = "endUnit"
        /\ list[i][1] = "endUnit" =>
             \A j \in (i + 1)..Len(list) : list[j][1] = "endUnit" =>
                \E k \in (i + 1)..(j - 1) : list[k][1] = "startUnit"

\* the unit u is open from its start tag to p
Inside(d, u, p) == \A n \in u..p : OpenAfter(d, n) >= DepthOf(d, u)

\* the unit u ends at p
Closes(d, u, p) == /\ u < p /\ d[p].tag = "end" /\ OpenAfter(d, p) < DepthOf(d, u)
                   /\ Inside(d, u, p - 1)

\* the text is all of the unit u so far
Gathered(u) == u <= sax.base /\ sax.text = u..sax.base

Collecting == sax.onStart = "element" /\ sax.onText = "unit"

\* the parser is in the unit u: after its start, at its start, or at the start
\* of a root without elements
InUnit(u) ==
    /\ Inside(doc, u, pos) /\ OpeningCalls(calls)
    /\ sax.collect \/ Has("startUnit") => Gathered(u)
    /\ \/ /\ sax.onStart \in {"element", "none"} /\ ~ Has("callbacks")
          /\ sax.collect \/ Has("startUnit") => Collecting
       \/ Has("callbacks") /\ sax.onStart \in {"first", "unit"}
       \/ /\ pos = 1 /\ u = 1 /\ doc[1].tag = "empty" /\ ~ Has("callbacks")
          /\ sax.onStart = "first" /\ sax.onText = "unit"

\* the parser is behind the unit u, or at its end with the text of all of it
OutUnit(u) ==
    /\ depth < DepthOf(doc, u) /\ sax.onStart = "unit" /\ ClosingCalls(calls)
    /\ Has("endUnit") =>
         /\ Closes(doc, u, pos)
         /\ (sax.collect \/ Has("startUnit")) /\ ppc # "end" => sax.text = u..pos

SaxUnits ==
    /\ pos > 0 => pos \in Parsed(doc) /\ Opens(doc[1])
    /\ pos = 0 => sax = SaxInit
    /\ ~ sax.rootcalled /\ pos > 0 =>
         /\ sax.onStart = "first" /\ ~ sax.isArchive
         /\ sax.collect /\ sax.onText = "unit" /\ Gathered(1)
    /\ sax.rootcalled =>
         /\ sax.isArchive = Archive(doc)
         /\ \E u \in UnitStarts(doc) :
               /\ Cur(doc, u, pos) /\ CallsOf(calls, u, pos)
               /\ InUnit(u) \/ OutUnit(u)

\* the units whose start the SAX layer has found, and those the handler has
\* written the header of
Known == IF sax.rootcalled THEN Rank(doc, pos) ELSE 0
Pending == Has("startUnit") /\ ppc \notin {"unit", "header"}
Entered == Known - (IF Pending THEN 1 ELSE 0)

\* the header of the next unit is in the unit of the call
Given == object.attrs \in UnitStarts(doc) /\ Rank(doc, object.attrs) = taken + 1
Total == Cardinality(UnitStarts(doc))
Live == call \notin {"free", "freed"}

\* where a call is in the reader, the parser stands still or is about to go on
Standing ==
    /\ call \in {"header", "body"} /\ at = "enter" => waiting = {"parser"} \/ isDone
    /\ ~ isDone /\ call = "body" /\ at = "enter" => ppc = "header"
    /\ call = "header" /\ at \in {"waits", "left"} /\ "parser" \in waiting =>
          ppc = "header"

\* a document that is over while no unit is being read has no unit left
OverInv ==
    /\ isDone /\ (call \in {"open", "idle", "header"} \/ (call = "body" /\ ~ notDone))
          => taken \in {-1, Total}
    /\ taken = -1 => isDone
    /\ taken \in -1..Total

\* no unit is entered before the first call, and none between two calls
OpenInv == call = "open" => taken = 0 /\ (~ isDone => Entered = 0)
IdleInv ==
    ~ isDone /\ (call = "idle" \/ (call = "header" /\ at = "enter")) => Entered = taken

AtHeader == ppc = "unit" \/ (ppc = "header" /\ "parser" \in waiting)

\* a header is waited for: it is the next, and the parser stops there
HeaderInv ==
    /\ call = "header" => collectHeader
    /\ ~ isDone /\ call = "header" /\ at \in {"holds", "waits"} =>
          IF AtHeader THEN Entered = taken + 1 /\ Given ELSE Entered = taken

\* the header has been read
LeftInv ==
    /\ ~ isDone /\ ((call = "header" /\ at = "left") \/ (call = "body" /\ at = "begin")) =>
         ppc = "header" /\ Entered = taken + 1 /\ Given
    /\ call = "body" /\ at = "begin" => notDone = ~ isDone

\* the text is waited for: the parser is in the unit, has found its end, or
\* has handed over all of it; or the document broke off in it
BodyInv == call = "body" /\ at # "begin" =>
    /\ op = "read" /\ notDone /\ Given /\ collectBody
    /\ isDone => TextOf(doc, object.attrs) = {}
    /\ ~ isDone =>
        /\ Entered = taken + 1 /\ Known = taken + 1
        /\ ppc = "header" \/ sax.collect
        /\ ppc # "unit"
        /\ InUnit(object.attrs) \/ Has("endUnit")
        /\ ppc = "end" => /\ "parser" \in waiting
                          /\ object.text = TextOf(doc, object.attrs) /\ object.text # {}
        /\ at = "left" => ppc = "end"

UserUnits ==
    Live => /\ Standing /\ OverInv /\ OpenInv /\ IdleInv
            /\ HeaderInv /\ LeftInv /\ BodyInv


-----------------------------------------------------------------------------
(* The nesting of a document *)

\* how many elements are open, one token on
LEMMA OpenNext ==
    ASSUME NEW d, NEW n \in Nat
    PROVE  /\ OpenAfter(d, n) \in Int
           /\ OpenAfter(d, n + 1) = OpenAfter(d, n)
              + (IF Opens(d[n + 1]) THEN 1 ELSE 0)
              - (IF d[n + 1].tag = "end" THEN 1 ELSE 0)
  <1> DEFINE O == {i \in Nat : Opens(d[i])}
             E == {i \in Nat : d[i].tag = "end"}
  <1>1. \A m \in Nat : /\ {i \in 1..m : Opens(d[i])} = O \cap 1..m
                       /\ {i \in 1..m : d[i].tag = "end"} = E \cap 1..m
    OBVIOUS
  <1>2. n + 1 \in Nat
    OBVIOUS
  <1>3. /\ n + 1 \in O <=> Opens(d[n + 1])
        /\ n + 1 \in E <=> d[n + 1].tag = "end"
    OBVIOUS
  <1>4. OpenAfter(d, n) = Cardinality(O \cap 1..n) - Cardinality(E \cap 1..n)
    BY <1>1 DEF OpenAfter
  <1>5. OpenAfter(d, n + 1) = Cardinality(O \cap 1..(n + 1))
                         - Cardinality(E \cap 1..(n + 1))
    BY <1>1, <1>2 DEF OpenAfter
  <1> HIDE DEF O, E
  <1>6. /\ Cardinality(O \cap 1..n) \in Nat
        /\ Cardinality(O \cap 1..(n + 1))
              = Cardinality(O \cap 1..n) + (IF n + 1 \in O THEN 1 ELSE 0)
    BY CountNext
  <1>7. /\ Cardinality(E \cap 1..n) \in Nat
        /\ Cardinality(E \cap 1..(n + 1))
              = Cardinality(E \cap 1..n) + (IF n + 1 \in E THEN 1 ELSE 0)
    BY CountNext
  <1> QED BY <1>3, <1>4, <1>5, <1>6, <1>7

\* nothing is open before the first token
LEMMA OpenNone == ASSUME NEW d PROVE OpenAfter(d, 0) = 0
  <1>1. {i \in 1..0 : Opens(d[i])} = {} /\ {i \in 1..0 : d[i].tag = "end"} = {}
    OBVIOUS
  <1>2. Cardinality({}) = 0
    BY FS_EmptySet
  <1> QED BY <1>1, <1>2 DEF OpenAfter

\* what a token does to the depth, and the depth of its element
LEMMA TokenDepth ==
    ASSUME NEW d, NEW p \in Nat \ {0}
    PROVE  /\ OpenAfter(d, p - 1) \in Int /\ OpenAfter(d, p) \in Int
           /\ Opens(d[p]) => /\ OpenAfter(d, p) = OpenAfter(d, p - 1) + 1
                             /\ DepthOf(d, p) = OpenAfter(d, p)
                             /\ d[p].tag # "end"
           /\ d[p].tag = "end" => /\ OpenAfter(d, p) = OpenAfter(d, p - 1) - 1
                                  /\ DepthOf(d, p) = OpenAfter(d, p - 1)
                                  /\ ~ Opens(d[p])
           /\ d[p].tag # "end" /\ ~ Opens(d[p]) =>
                 OpenAfter(d, p) = OpenAfter(d, p - 1)
  <1>1. p - 1 \in Nat /\ (p - 1) + 1 = p
    OBVIOUS
  <1>2. /\ OpenAfter(d, p - 1) \in Int
        /\ OpenAfter(d, (p - 1) + 1) = OpenAfter(d, p - 1)
              + (IF Opens(d[(p - 1) + 1]) THEN 1 ELSE 0)
              - (IF d[(p - 1) + 1].tag = "end" THEN 1 ELSE 0)
    BY <1>1, OpenNext
  <1>3. OpenAfter(d, p) = OpenAfter(d, p - 1)
              + (IF Opens(d[p]) THEN 1 ELSE 0)
              - (IF d[p].tag = "end" THEN 1 ELSE 0)
    BY <1>1, <1>2
  <1>4. ~ (Opens(d[p]) /\ d[p].tag = "end")
    BY DEF Opens
  <1>5. Opens(d[p]) => DepthOf(d, p) = OpenAfter(d, p)
    BY DEF DepthOf
  <1>6. ~ Opens(d[p]) => DepthOf(d, p) = OpenAfter(d, p - 1)
    BY DEF DepthOf
  <1> QED BY <1>2, <1>3, <1>4, <1>5, <1>6

\* which tokens are parsed
LEMMA ParsedNext ==
    ASSUME NEW d, NEW p \in 1..Len(d), Len(d) \in Nat,
           p = 1 \/ (p - 1 \in Parsed(d) /\ OpenAfter(d, p - 1) > 0)
    PROVE  p \in Parsed(d)
  <1> SUFFICES ASSUME NEW n \in 1..(p - 1) PROVE OpenAfter(d, n) > 0
    BY DEF Parsed
  <1>1. p # 1 /\ (n = p - 1 \/ n \in 1..((p - 1) - 1))
    OBVIOUS
  <1>2. CASE n = p - 1
    BY <1>1, <1>2
  <1>3. CASE n \in 1..((p - 1) - 1)
    BY <1>1, <1>3 DEF Parsed
  <1> QED BY <1>1, <1>2, <1>3

\* the root is open at every token that is parsed
LEMMA ParsedOpen ==
    ASSUME NEW d, NEW p \in Parsed(d)
    PROVE  /\ p \in 1..Len(d)
           /\ \A n \in 1..(p - 1) : OpenAfter(d, n) > 0
  BY DEF Parsed

\* nothing is parsed after the end of the root
LEMMA NothingAfter ==
    ASSUME NEW d, NEW p \in Nat \ {0}, OpenAfter(d, p) <= 0, Len(d) \in Nat
    PROVE  \A q \in Parsed(d) : q <= p
  <1> SUFFICES ASSUME NEW q \in Parsed(d), q > p PROVE FALSE
    BY DEF Parsed
  <1>1. q \in Nat /\ p \in 1..(q - 1)
    BY DEF Parsed
  <1>2. OpenAfter(d, p) > 0
    BY <1>1, ParsedOpen
  <1>3. OpenAfter(d, p) \in Int
    BY TokenDepth
  <1> QED BY <1>2, <1>3

\* the depths of the root and of the elements in it
LEMMA RootDepth ==
    ASSUME NEW d, Opens(d[1])
    PROVE  OpenAfter(d, 1) = 1 /\ DepthOf(d, 1) = 1
  <1>1. /\ OpenAfter(d, 1) = OpenAfter(d, 1 - 1) + 1
        /\ DepthOf(d, 1) = OpenAfter(d, 1)
    BY TokenDepth
  <1>2. OpenAfter(d, 1 - 1) = 0
    BY OpenNone
  <1> QED BY <1>1, <1>2

\* what comes after the first tag is in the root
LEMMA InRoot ==
    ASSUME NEW d, Len(d) \in Nat, NEW p \in Parsed(d), p # 1
    PROVE  /\ OpenAfter(d, p - 1) >= 1
           /\ Opens(d[p]) => DepthOf(d, p) >= 2
           /\ d[p].tag = "end" => DepthOf(d, p) >= 1
  <1>1. p \in Nat \ {0} /\ p - 1 \in 1..(p - 1)
    BY DEF Parsed
  <1>2. OpenAfter(d, p - 1) > 0
    BY <1>1, ParsedOpen
  <1>3. OpenAfter(d, p - 1) \in Int
    BY <1>1, TokenDepth
  <1>4. Opens(d[p]) => DepthOf(d, p) = OpenAfter(d, p - 1) + 1
    BY <1>1, TokenDepth
  <1>5. d[p].tag = "end" => DepthOf(d, p) = OpenAfter(d, p - 1)
    BY <1>1, TokenDepth
  <1> QED BY <1>2, <1>3, <1>4, <1>5

\* the children come after the root
LEMMA ChildrenInRoot ==
    ASSUME NEW d, Len(d) \in Nat, NEW c \in Children(d), Opens(d[1])
    PROVE  c \in Starts(d) /\ c \in Nat /\ c >= 2
  <1>1. c \in Starts(d) /\ DepthOf(d, c) = 2 /\ c \in Nat \ {0}
    BY DEF Children, Starts, Parsed
  <1>2. DepthOf(d, 1) = 1
    BY RootDepth
  <1>3. c # 1
    BY <1>1, <1>2
  <1> QED BY <1>1, <1>3

\* the units of an archive are children, and that of a single unit is the root
LEMMA UnitIs ==
    ASSUME NEW d, NEW u \in UnitStarts(d)
    PROVE  /\ u \in Starts(d) /\ Opens(d[u])
           /\ Archive(d) => u \in Children(d) /\ d[u].name = "unit" /\ DepthOf(d, u) = 2
           /\ ~ Archive(d) => u = 1
  BY DEF UnitStarts, Children, Starts

\* the units of an archive are in the root, any other unit is the root
LEMMA UnitDepth ==
    ASSUME NEW d, Len(d) \in Nat, NEW u \in UnitStarts(d)
    PROVE  /\ u \in 1..Len(d) /\ Opens(d[u])
           /\ DepthOf(d, u) = OpenAfter(d, u)
           /\ DepthOf(d, u) = IF Archive(d) THEN 2 ELSE 1
  <1>1. /\ u \in Starts(d) /\ Opens(d[u])
        /\ Archive(d) => DepthOf(d, u) = 2
        /\ ~ Archive(d) => u = 1
    BY UnitIs
  <1>2. u \in Nat \ {0} /\ u \in 1..Len(d)
    BY <1>1 DEF Starts, Parsed
  <1>3. DepthOf(d, u) = OpenAfter(d, u)
    BY <1>1, <1>2, TokenDepth
  <1>4. ~ Archive(d) => DepthOf(d, u) = 1
    BY <1>1, RootDepth
  <1> QED BY <1>1, <1>2, <1>3, <1>4

\* the first element below the root that is no list of macros tells which kind
\* of document it is
LEMMA FirstChild ==
    ASSUME NEW d, Len(d) \in Nat, SrcML(d), Opens(d[1]),
           NEW p \in Starts(d), p # 1, d[p].name # "macro-list",
           \A q \in 2..(p - 1) : Opens(d[q]) => d[q].name = "macro-list"
    PROVE  p \in Children(d) /\ \A c \in Children(d) : p <= c
  <1>1. p \in Parsed(d) /\ Opens(d[p]) /\ p \in Nat
    BY DEF Starts, Parsed
  <1>2. \A c \in Children(d) : p <= c
    <2> SUFFICES ASSUME NEW c \in Children(d), c < p PROVE FALSE
      BY <1>1, ChildrenInRoot
    <2>1. c \in Starts(d) /\ c \in Nat /\ c >= 2
      BY ChildrenInRoot
    <2>2. c \in 2..(p - 1) /\ Opens(d[c]) /\ d[c].name # "macro-list"
      BY <1>1, <2>1 DEF Children, Starts
    <2> QED BY <2>2
  <1>3. DepthOf(d, p) >= 2
    BY <1>1, InRoot
  <1>4. ~ (DepthOf(d, p) > 2)
    <2> SUFFICES ASSUME DepthOf(d, p) > 2 PROVE FALSE
      OBVIOUS
    <2>1. \E c \in Children(d) : c < p
      BY DEF SrcML
    <2> QED BY <1>1, <1>2, <2>1, ChildrenInRoot
  <1>5. DepthOf(d, p) \in Int
    BY <1>1, TokenDepth DEF Parsed
  <1>6. DepthOf(d, p) = 2
    BY <1>3, <1>4, <1>5
  <1> QED BY <1>2, <1>6 DEF Children

\* the first element below the root is a unit: an archive, and its first unit
LEMMA FirstUnit ==
    ASSUME NEW d, Len(d) \in Nat, SrcML(d), Opens(d[1]),
           NEW p \in Starts(d), p # 1, d[p].name = "unit",
           \A q \in 2..(p - 1) : Opens(d[q]) => d[q].name = "macro-list"
    PROVE  Archive(d) /\ p \in UnitStarts(d) /\ \A u \in UnitStarts(d) : p <= u
  <1>1. p \in Children(d) /\ \A c \in Children(d) : p <= c
    <2>1. d[p].name # "macro-list"
      OBVIOUS
    <2> QED BY <2>1, FirstChild
  <1>2. Archive(d)
    BY <1>1 DEF Archive
  <1> QED BY <1>1, <1>2 DEF UnitStarts

\* it is another element: the root is the unit
LEMMA FirstOther ==
    ASSUME NEW d, Len(d) \in Nat, SrcML(d), Opens(d[1]),
           NEW p \in Starts(d), p # 1, d[p].name \notin {"unit", "macro-list"},
           \A q \in 2..(p - 1) : Opens(d[q]) => d[q].name = "macro-list"
    PROVE  ~ Archive(d) /\ UnitStarts(d) = {1}
  <1>1. p \in Children(d) /\ \A c \in Children(d) : p <= c
    <2>1. d[p].name # "macro-list"
      OBVIOUS
    <2> QED BY <2>1, FirstChild
  <1>2. ~ Archive(d)
    <2> SUFFICES ASSUME NEW c \in Children(d), d[c].name = "unit",
                        \A i \in Children(d) : c <= i
                 PROVE FALSE
      BY DEF Archive
    <2>1. c <= p /\ p <= c /\ c \in Nat /\ p \in Nat
      BY <1>1, ChildrenInRoot
    <2>2. c = p
      BY <2>1
    <2> QED BY <2>2
  <1>3. 1 \in Starts(d)
    <2>1. 1 \in 1..Len(d)
      BY DEF Starts, Parsed
    <2>2. 1 \in Parsed(d)
      BY <2>1, ParsedNext
    <2> QED BY <2>2 DEF Starts
  <1> QED BY <1>1, <1>2, <1>3 DEF UnitStarts

\* a root that ends without such an element, or does not, is a single unit
LEMMA OnlyRoot ==
    ASSUME NEW d, Len(d) \in Nat, Opens(d[1]), NEW e \in Nat,
           \A p \in Starts(d) : p <= e,
           \A q \in 2..e : Opens(d[q]) => d[q].name = "macro-list"
    PROVE  /\ Children(d) = {} /\ ~ Archive(d)
           /\ (\E i \in Ends(d) : DepthOf(d, i) = 1) => UnitStarts(d) = {1}
           /\ ~ (\E i \in Ends(d) : DepthOf(d, i) = 1) => UnitStarts(d) = {}
  <1>1. Children(d) = {}
    <2> SUFFICES ASSUME NEW c \in Children(d) PROVE FALSE
      OBVIOUS
    <2>1. c \in Starts(d) /\ c \in Nat /\ c >= 2
      BY ChildrenInRoot
    <2>2. c \in 2..e /\ Opens(d[c]) /\ d[c].name # "macro-list"
      BY <2>1 DEF Children, Starts
    <2> QED BY <2>2
  <1>2. ~ Archive(d)
    BY <1>1 DEF Archive
  <1>3. ASSUME NEW i \in Ends(d), DepthOf(d, i) = 1 PROVE UnitStarts(d) = {1}
    <2>1. 1 \in 1..Len(d)
      BY <1>3 DEF Ends, Parsed
    <2>2. 1 \in Parsed(d)
      BY <2>1, ParsedNext
    <2>3. 1 \in Starts(d)
      BY <2>2 DEF Starts
    <2> QED BY <1>2, <1>3, <2>3 DEF UnitStarts
  <1>4. ~ (\E i \in Ends(d) : DepthOf(d, i) = 1) => UnitStarts(d) = {}
    BY <1>1, <1>2 DEF UnitStarts
  <1> QED BY <1>1, <1>2, <1>3, <1>4

\* the root of a document without elements
LEMMA EmptyRoot ==
    ASSUME NEW d, Len(d) \in Nat, 1 \in Starts(d), d[1].tag = "empty",
           SrcML(d)
    PROVE  /\ 2 \in Parsed(d) /\ d[2].tag = "end"
           /\ ~ Archive(d) /\ UnitStarts(d) = {1}
  <1>1. Opens(d[1])
    BY DEF Starts
  <1>2. 1 < Len(d) /\ d[1 + 1].tag = "end"
    BY DEF SrcML, WellFormed
  <1>3. OpenAfter(d, 1) = 1 /\ 1 \in Parsed(d)
    BY <1>1, RootDepth DEF Starts
  <1>4. 2 \in Parsed(d)
    <2>1. 2 - 1 = 1 /\ 2 \in 1..Len(d)
      BY <1>2
    <2> QED BY <1>3, <2>1, ParsedNext
  <1>5. /\ OpenAfter(d, 2) = OpenAfter(d, 2 - 1) - 1
        /\ DepthOf(d, 2) = OpenAfter(d, 2 - 1) /\ ~ Opens(d[2])
    <2>1. d[2].tag = "end"
      BY <1>2
    <2> QED BY <2>1, TokenDepth
  <1>6. OpenAfter(d, 2) <= 0 /\ DepthOf(d, 2) = 1
    BY <1>3, <1>5
  <1>7. \A p \in Parsed(d) : p <= 2
    BY <1>6, NothingAfter
  <1>8. 2 \in Ends(d)
    BY <1>2, <1>4 DEF Ends
  <1>9. \A p \in Starts(d) : p <= 2
    BY <1>7 DEF Starts
  <1>10. \A q \in 2..2 : Opens(d[q]) => d[q].name = "macro-list"
    BY <1>5
  <1> QED BY <1>1, <1>2, <1>4, <1>6, <1>8, <1>9, <1>10, OnlyRoot

-----------------------------------------------------------------------------
(* The unit there is at a token, and the next token *)

\* the unit goes on
LEMMA UnitGoesOn ==
    ASSUME NEW d, Len(d) \in Nat, NEW p \in Parsed(d), p > 1,
           NEW u, Cur(d, u, p - 1), Inside(d, u, p - 1), Opens(d[1]),
           d[p].tag # "end" \/ OpenAfter(d, p - 1) > DepthOf(d, u)
    PROVE  Cur(d, u, p) /\ Inside(d, u, p)
  <1>1. p \in Nat \ {0} /\ p \in 1..Len(d) /\ u \in UnitStarts(d) /\ u <= p - 1
    BY DEF Parsed, Cur
  <1>2. /\ u \in 1..Len(d) /\ DepthOf(d, u) \in Int
        /\ DepthOf(d, u) = IF Archive(d) THEN 2 ELSE 1
    BY <1>1, UnitDepth
  <1>3. p - 1 \in u..(p - 1)
    BY <1>1, <1>2
  <1>4. OpenAfter(d, p - 1) >= DepthOf(d, u)
    BY <1>3 DEF Inside
  <1>5. /\ OpenAfter(d, p - 1) \in Int /\ OpenAfter(d, p) \in Int
        /\ Opens(d[p]) => /\ OpenAfter(d, p) = OpenAfter(d, p - 1) + 1
                          /\ DepthOf(d, p) = OpenAfter(d, p)
        /\ d[p].tag = "end" => OpenAfter(d, p) = OpenAfter(d, p - 1) - 1
        /\ d[p].tag # "end" /\ ~ Opens(d[p]) =>
                 OpenAfter(d, p) = OpenAfter(d, p - 1)
    BY <1>1, TokenDepth
  <1>6. OpenAfter(d, p) >= DepthOf(d, u)
    BY <1>2, <1>4, <1>5
  <1>7. Inside(d, u, p)
    <2> SUFFICES ASSUME NEW n \in u..p PROVE OpenAfter(d, n) >= DepthOf(d, u)
      BY DEF Inside
    <2>1. n = p \/ n \in u..(p - 1)
      BY <1>1, <1>2
    <2> QED BY <1>6, <2>1 DEF Inside
  <1>8. p \notin UnitStarts(d)
    <2> SUFFICES ASSUME p \in UnitStarts(d) PROVE FALSE
      OBVIOUS
    <2>1. Opens(d[p]) /\ DepthOf(d, p) = IF Archive(d) THEN 2 ELSE 1
      BY UnitDepth
    <2> QED BY <1>2, <1>4, <1>5, <2>1
  <1>9. Cur(d, u, p)
    <2>1. \A q \in UnitStarts(d) : q \in Nat
      BY UnitDepth
    <2>2. \A q \in UnitStarts(d) : q <= p => q <= p - 1
      BY <1>1, <1>8, <2>1
    <2> QED BY <1>1, <1>2, <2>2 DEF Cur
  <1> QED BY <1>7, <1>9

\* no element of the depth of the unit starts or ends in it
LEMMA InsideDeeper ==
    ASSUME NEW d, Len(d) \in Nat, NEW p \in Nat, NEW u \in UnitStarts(d),
           Inside(d, u, p), NEW q \in Nat, u < q, q <= p
    PROVE  DepthOf(d, q) = DepthOf(d, u) => ~ Opens(d[q]) /\ d[q].tag # "end"
  <1>1. u \in Nat \ {0} /\ DepthOf(d, u) \in Int
    BY UnitDepth
  <1>2. q - 1 \in u..p /\ q \in u..p
    BY <1>1
  <1>3. OpenAfter(d, q - 1) >= DepthOf(d, u) /\ OpenAfter(d, q) >= DepthOf(d, u)
    BY <1>2 DEF Inside
  <1>4. /\ OpenAfter(d, q - 1) \in Int /\ OpenAfter(d, q) \in Int
        /\ Opens(d[q]) => /\ OpenAfter(d, q) = OpenAfter(d, q - 1) + 1
                          /\ DepthOf(d, q) = OpenAfter(d, q)
        /\ d[q].tag = "end" => /\ OpenAfter(d, q) = OpenAfter(d, q - 1) - 1
                               /\ DepthOf(d, q) = OpenAfter(d, q - 1)
    BY <1>1, TokenDepth
  <1> QED BY <1>1, <1>3, <1>4

\* an end tag in a unit is that of the unit, named so, or of an element that
\* is not taken for it
LEMMA EndInUnit ==
    ASSUME NEW d, Len(d) \in Nat, SrcML(d), NEW p \in Ends(d), p > 1,
           NEW u, Cur(d, u, p - 1), Inside(d, u, p - 1), Opens(d[1])
    PROVE  /\ OpenAfter(d, p - 1) = DepthOf(d, u) => d[p].name = "unit"
           /\ OpenAfter(d, p - 1) > DepthOf(d, u) /\ d[p].name = "unit" =>
                Archive(d) /\ OpenAfter(d, p - 1) > 2
  <1>1. p \in Nat \ {0} /\ p - 1 \in Nat /\ d[p].tag = "end" /\ u \in UnitStarts(d) /\ u <= p - 1
    BY DEF Ends, Parsed, Cur
  <1>2. /\ u \in 1..Len(d) /\ DepthOf(d, u) \in Int /\ Opens(d[u])
        /\ DepthOf(d, u) = IF Archive(d) THEN 2 ELSE 1
    BY <1>1, UnitDepth
  <1>3. DepthOf(d, p) = OpenAfter(d, p - 1) /\ OpenAfter(d, p - 1) \in Int
    BY <1>1, TokenDepth
  <1>4. PICK q \in Starts(d) :
           /\ q < p /\ DepthOf(d, q) = DepthOf(d, p) /\ d[q].name = d[p].name
           /\ \A r \in Starts(d) : q < r /\ r < p => DepthOf(d, r) # DepthOf(d, p)
    BY DEF SrcML, WellFormed
  <1>5. q \in Nat \ {0} /\ Opens(d[q])
    BY DEF Starts, Parsed
  <1>6. u \in Starts(d) /\ (~ Archive(d) => u = 1)
        /\ (Archive(d) => d[u].name = "unit")
    BY <1>1, UnitIs
  <1>7. CASE OpenAfter(d, p - 1) = DepthOf(d, u)
    <2>1. ~ (u < q)
      <3> SUFFICES ASSUME u < q PROVE FALSE
        OBVIOUS
      <3>1. q <= p - 1 /\ DepthOf(d, q) = DepthOf(d, u)
        BY <1>1, <1>3, <1>4, <1>5, <1>7
      <3> QED BY <1>1, <1>5, <3>1, InsideDeeper
    <2>2. ~ (q < u)
      BY <1>1, <1>2, <1>3, <1>4, <1>5, <1>6, <1>7
    <2>3. q = u
      BY <1>2, <1>5, <2>1, <2>2
    <2>4. CASE Archive(d)
      BY <1>4, <1>6, <1>7, <1>2, <2>3, <2>4
    <2>5. CASE ~ Archive(d)
      <3>1. d # << >> /\ d[1].tag # "error" /\ q = 1
        BY <1>2, <1>6, <2>3, <2>5 DEF Opens
      <3>2. d[1].name = "unit"
        BY <3>1 DEF SrcML
      <3> QED BY <1>2, <1>4, <1>7, <3>1, <3>2
    <2> QED BY <2>4, <2>5
  <1>8. CASE OpenAfter(d, p - 1) > DepthOf(d, u)
    <2> SUFFICES ASSUME d[p].name = "unit" PROVE Archive(d) /\ OpenAfter(d, p - 1) > 2
      BY <1>2, <1>8
    <2>1. CASE Archive(d)
      BY <1>2, <1>8, <2>1
    <2>2. CASE ~ Archive(d)
      <3>1. q = 1 \/ q \in UnitStarts(d)
        BY <1>4 DEF SrcML
      <3>2. q = 1
        BY <2>2, <3>1, UnitIs
      <3>3. DepthOf(d, q) = 1
        BY <3>2, RootDepth
      <3> QED BY <1>2, <1>3, <1>4, <1>8, <2>2, <3>3
    <2> QED BY <2>1, <2>2
  <1> QED BY <1>2, <1>3, <1>7, <1>8

\* an end tag of the depth of the unit ends it
LEMMA UnitCloses ==
    ASSUME NEW d, Len(d) \in Nat, NEW p \in Ends(d), p > 1,
           NEW u, Cur(d, u, p - 1), Inside(d, u, p - 1),
           OpenAfter(d, p - 1) = DepthOf(d, u)
    PROVE  Cur(d, u, p) /\ Closes(d, u, p)
  <1>1. p \in Nat \ {0} /\ d[p].tag = "end" /\ u \in UnitStarts(d) /\ u <= p - 1
    BY DEF Ends, Parsed, Cur
  <1>2. u \in Nat /\ DepthOf(d, u) \in Int /\ \A q \in UnitStarts(d) : q \in Nat /\ Opens(d[q])
    BY <1>1, UnitDepth
  <1>3. OpenAfter(d, p) = OpenAfter(d, p - 1) - 1 /\ ~ Opens(d[p])
    BY <1>1, TokenDepth
  <1>4. \A q \in UnitStarts(d) : q <= p => q <= p - 1
    BY <1>1, <1>2, <1>3
  <1>5. Cur(d, u, p)
    BY <1>1, <1>2, <1>4 DEF Cur
  <1>6. Closes(d, u, p)
    BY <1>1, <1>2, <1>3 DEF Closes
  <1> QED BY <1>5, <1>6

\* the text of a unit that has ended, and of one that has not
LEMMA TextIs ==
    ASSUME NEW d, Len(d) \in Nat, NEW p \in Parsed(d), NEW u \in UnitStarts(d),
           Closes(d, u, p)
    PROVE  TextOf(d, u) = u..p /\ u \in TextOf(d, u)
  <1>1. /\ p \in 1..Len(d) /\ u < p /\ d[p].tag = "end"
        /\ OpenAfter(d, p) < DepthOf(d, u) /\ Inside(d, u, p - 1)
    BY DEF Closes, Parsed
  <1>2. u \in 1..Len(d) /\ DepthOf(d, u) \in Int
    BY UnitDepth
  <1>3. DepthOf(d, p) = DepthOf(d, u)
    <2>1. /\ OpenAfter(d, p) = OpenAfter(d, p - 1) - 1 /\ OpenAfter(d, p - 1) \in Int
          /\ DepthOf(d, p) = OpenAfter(d, p - 1)
      BY <1>1, TokenDepth
    <2>2. p - 1 \in u..(p - 1)
      BY <1>1, <1>2
    <2>3. OpenAfter(d, p - 1) >= DepthOf(d, u)
      BY <1>1, <2>2 DEF Inside
    <2> QED BY <1>1, <1>2, <2>1, <2>3
  <1> DEFINE ends == {i \in Ends(d) : i > u /\ DepthOf(d, i) = DepthOf(d, u)}
  <1>4. p \in ends
    BY <1>1, <1>3 DEF Ends
  <1>5. \A f \in ends : p <= f
    <2> SUFFICES ASSUME NEW f \in ends, f < p PROVE FALSE
      BY <1>1 DEF Ends, Parsed
    <2>1. f \in Nat /\ p - 1 \in Nat /\ u < f /\ f <= p - 1
      BY <1>1 DEF Ends, Parsed
    <2>2. d[f].tag # "end"
      BY <1>1, <2>1, InsideDeeper
    <2> QED BY <2>2 DEF Ends
  <1>6. \A e \in ends : e \in Nat
    BY DEF Ends, Parsed
  <1>7. TextOf(d, u) = {i \in u..Len(d) : \E e \in ends : i <= e /\ \A f \in ends : e <= f}
    BY DEF TextOf
  <1> HIDE DEF ends
  <1>8. \A e \in ends : (\A f \in ends : e <= f) <=> e = p
    BY <1>1, <1>4, <1>5, <1>6
  <1>9. \A i \in u..Len(d) : (\E e \in ends : i <= e /\ \A f \in ends : e <= f) <=> i <= p
    BY <1>4, <1>8
  <1>10. TextOf(d, u) = {i \in u..Len(d) : i <= p}
    BY <1>7, <1>9
  <1>11. TextOf(d, u) = u..p
    BY <1>1, <1>2, <1>10
  <1> QED BY <1>1, <1>2, <1>11

\* a unit whose end is not among the tokens has no text
LEMMA NoText ==
    ASSUME NEW d, Len(d) \in Nat, NEW p \in Nat, NEW u \in UnitStarts(d),
           Inside(d, u, p), \A e \in Ends(d) : e <= p
    PROVE  TextOf(d, u) = {}
  <1>1. \A i \in Ends(d) : i > u => DepthOf(d, i) # DepthOf(d, u)
    <2> SUFFICES ASSUME NEW i \in Ends(d), i > u, DepthOf(d, i) = DepthOf(d, u) PROVE FALSE
      OBVIOUS
    <2>1. i \in Nat /\ i <= p /\ d[i].tag = "end"
      BY DEF Ends, Parsed
    <2>2. u < i
      BY <2>1, UnitDepth
    <2> QED BY <2>1, <2>2, InsideDeeper
  <1>2. {i \in Ends(d) : i > u /\ DepthOf(d, i) = DepthOf(d, u)} = {}
    BY <1>1
  <1> QED BY <1>2 DEF TextOf

\* between the units of an archive: the next one starts, or the root ends
LEMMA BetweenUnits ==
    ASSUME NEW d, Len(d) \in Nat, SrcML(d), NEW p \in Parsed(d), p > 1, Opens(d[1]),
           NEW u, Cur(d, u, p - 1), OpenAfter(d, p - 1) < DepthOf(d, u)
    PROVE  /\ Archive(d) /\ OpenAfter(d, p - 1) = 1
           /\ Opens(d[p]) => Cur(d, p, p)
           /\ ~ Opens(d[p]) => Cur(d, u, p)
           /\ ~ Opens(d[p]) => OpenAfter(d, p) < DepthOf(d, u)
  <1>1. p \in Nat \ {0} /\ u \in UnitStarts(d) /\ u <= p - 1
    BY DEF Parsed, Cur
  <1>2. /\ u \in Nat /\ DepthOf(d, u) = IF Archive(d) THEN 2 ELSE 1
    BY <1>1, UnitDepth
  <1>3. OpenAfter(d, p - 1) >= 1
    BY <1>1, InRoot
  <1>4. /\ OpenAfter(d, p - 1) \in Int
        /\ Opens(d[p]) => DepthOf(d, p) = OpenAfter(d, p) /\ OpenAfter(d, p) = OpenAfter(d, p - 1) + 1
        /\ d[p].tag = "end" => OpenAfter(d, p) = OpenAfter(d, p - 1) - 1
        /\ d[p].tag # "end" /\ ~ Opens(d[p]) => OpenAfter(d, p) = OpenAfter(d, p - 1)
    BY <1>1, TokenDepth
  <1>5. Archive(d) /\ OpenAfter(d, p - 1) = 1
    BY <1>2, <1>3, <1>4
  <1>6. \A q \in UnitStarts(d) : q \in Nat /\ Opens(d[q])
    BY UnitDepth
  <1>7. ASSUME Opens(d[p]) PROVE Cur(d, p, p)
    <2>1. p \in Starts(d) /\ DepthOf(d, p) = 2 /\ p > u
      BY <1>1, <1>2, <1>4, <1>5, <1>7 DEF Starts
    <2>2. p \in UnitStarts(d)
      BY <1>1, <1>5, <2>1 DEF SrcML
    <2> QED BY <1>1, <1>6, <2>2 DEF Cur
  <1>8. ASSUME ~ Opens(d[p]) PROVE Cur(d, u, p)
    <2>1. \A q \in UnitStarts(d) : q <= p => q <= p - 1
      BY <1>1, <1>6, <1>8
    <2> QED BY <1>1, <1>2, <2>1 DEF Cur
  <1> QED BY <1>2, <1>4, <1>5, <1>7, <1>8

\* the root ends with the name it has
LEMMA EndOfRoot ==
    ASSUME NEW d, Len(d) \in Nat, SrcML(d), NEW p \in Ends(d), p > 1, Opens(d[1]),
           OpenAfter(d, p - 1) = 1
    PROVE  d[p].name = "unit" /\ OpenAfter(d, p) = 0 /\ DepthOf(d, p) = 1
  <1>1. p \in Nat \ {0} /\ d[p].tag = "end" /\ p \in Parsed(d)
    BY DEF Ends, Parsed
  <1>2. DepthOf(d, p) = 1 /\ OpenAfter(d, p) = 0
    BY <1>1, TokenDepth
  <1>3. PICK q \in Starts(d) :
           q < p /\ DepthOf(d, q) = DepthOf(d, p) /\ d[q].name = d[p].name
    BY DEF SrcML, WellFormed
  <1>4. q \in Parsed(d) /\ Opens(d[q])
    BY DEF Starts
  <1>5. q = 1
    <2>1. q # 1 => DepthOf(d, q) >= 2
      BY <1>4, InRoot
    <2> QED BY <1>2, <1>3, <2>1
  <1>6. d # << >> /\ d[1].tag # "error"
    BY <1>1 DEF Opens, Parsed
  <1>7. d[1].name = "unit"
    BY <1>6 DEF SrcML
  <1> QED BY <1>2, <1>3, <1>5, <1>7

-----------------------------------------------------------------------------
(* The units, in order *)

\* the units are finitely many
LEMMA UnitsFinite ==
    ASSUME NEW d, Len(d) \in Nat
    PROVE  /\ IsFiniteSet(UnitStarts(d)) /\ Cardinality(UnitStarts(d)) \in Nat
           /\ UnitStarts(d) \subseteq 1..Len(d)
  <1>1. UnitStarts(d) \subseteq 1..Len(d)
    BY UnitDepth
  <1>2. IsFiniteSet(1..Len(d))
    BY FS_Interval
  <1>3. IsFiniteSet(UnitStarts(d))
    BY <1>1, <1>2, FS_Subset
  <1> QED BY <1>1, <1>3, FS_CardinalityType

\* the rank of a token counts units
LEMMA RankIs ==
    ASSUME NEW d, Len(d) \in Nat, NEW p
    PROVE  /\ Rank(d, p) = Cardinality({q \in UnitStarts(d) : q <= p})
           /\ IsFiniteSet({q \in UnitStarts(d) : q <= p})
           /\ Rank(d, p) \in Nat /\ Rank(d, p) <= Cardinality(UnitStarts(d))
  <1> DEFINE S == {q \in UnitStarts(d) : q <= p}
  <1>1. Rank(d, p) = Cardinality(S)
    BY DEF Rank
  <1>2. S \subseteq UnitStarts(d)
    OBVIOUS
  <1> HIDE DEF S
  <1>3. IsFiniteSet(UnitStarts(d))
    BY UnitsFinite
  <1>4. IsFiniteSet(S) /\ Cardinality(S) <= Cardinality(UnitStarts(d))
    BY <1>2, <1>3, FS_Subset
  <1>5. Cardinality(S) \in Nat
    BY <1>4, FS_CardinalityType
  <1> QED BY <1>1, <1>4, <1>5 DEF S

\* the rank of a unit, of the tokens up to the next, and of the next
LEMMA RankOfUnit ==
    ASSUME NEW d, Len(d) \in Nat, NEW u, NEW p \in Nat, Cur(d, u, p)
    PROVE  Rank(d, p) = Rank(d, u)
  <1>1. u \in Nat /\ u <= p /\ \A q \in UnitStarts(d) : q <= p => q <= u
    BY UnitDepth DEF Cur
  <1>2. \A q \in UnitStarts(d) : q \in Nat
    BY UnitDepth
  <1>3. {q \in UnitStarts(d) : q <= p} = {q \in UnitStarts(d) : q <= u}
    BY <1>1, <1>2
  <1> QED BY <1>3 DEF Rank

\* it goes up by one at a unit
LEMMA RankOfNext ==
    ASSUME NEW d, Len(d) \in Nat, NEW p \in Nat \ {0}, p \in UnitStarts(d)
    PROVE  Rank(d, p) = Rank(d, p - 1) + 1
  <1> DEFINE S == {q \in UnitStarts(d) : q <= p - 1}
             T == {q \in UnitStarts(d) : q <= p}
  <1>1. \A q \in UnitStarts(d) : q \in Nat
    BY UnitDepth
  <1>7. \A q \in UnitStarts(d) : (q <= p <=> q <= p - 1 \/ q = p) /\ ~ (p <= p - 1)
    BY <1>1
  <1>2. T = S \cup {p} /\ p \notin S
    BY <1>7
  <1>3. IsFiniteSet(S) /\ Rank(d, p - 1) = Cardinality(S)
    BY RankIs
  <1>4. Rank(d, p) = Cardinality(T)
    BY RankIs
  <1>5. Cardinality(S) \in Nat
    BY <1>3, FS_CardinalityType
  <1> HIDE DEF S, T
  <1>6. Cardinality(S \cup {p}) = Cardinality(S) + 1
    BY <1>2, <1>3, FS_AddElement
  <1> QED BY <1>2, <1>3, <1>4, <1>6

\* it is 0 before the first unit
LEMMA NoUnitYet ==
    ASSUME NEW d, NEW p, \A u \in UnitStarts(d) : ~ (u <= p)
    PROVE  Rank(d, p) = 0
  <1>1. {q \in UnitStarts(d) : q <= p} = {}
    OBVIOUS
  <1> QED BY <1>1, FS_EmptySet DEF Rank

\* from the last unit on it is the number of units
LEMMA AllUnits ==
    ASSUME NEW d, NEW p, \A u \in UnitStarts(d) : u <= p
    PROVE  Rank(d, p) = Cardinality(UnitStarts(d))
  <1>1. {q \in UnitStarts(d) : q <= p} = UnitStarts(d)
    OBVIOUS
  <1> QED BY <1>1 DEF Rank

\* the first unit
LEMMA RankOfFirst ==
    ASSUME NEW d, Len(d) \in Nat, NEW u \in UnitStarts(d), NEW p \in Nat, u <= p,
           \A q \in UnitStarts(d) : u <= q, \A q \in UnitStarts(d) : q <= p => q = u
    PROVE  Cur(d, u, p) /\ Rank(d, p) = 1
  <1>1. \A q \in UnitStarts(d) : q \in Nat \ {0}
    BY UnitDepth
  <1>2. Cur(d, u, p)
    BY <1>1 DEF Cur
  <1>3. {q \in UnitStarts(d) : q <= p} = {u}
    OBVIOUS
  <1>4. Cardinality({u}) = 1
    BY FS_Singleton
  <1> QED BY <1>2, <1>3, <1>4 DEF Rank

\* no two units have the same rank
LEMMA RankLess ==
    ASSUME NEW d, Len(d) \in Nat, NEW u \in UnitStarts(d), NEW v \in UnitStarts(d), u < v
    PROVE  Rank(d, u) < Rank(d, v)
  <1>1. \A q \in UnitStarts(d) : q \in Nat \ {0}
    BY UnitDepth
  <1>2. v \in Nat \ {0} /\ u \in Nat
    BY <1>1
  <1>3. Rank(d, v) = Rank(d, v - 1) + 1
    BY <1>2, RankOfNext
  <1> DEFINE S == {q \in UnitStarts(d) : q <= u}
             T == {q \in UnitStarts(d) : q <= v - 1}
  <1>7. \A q \in UnitStarts(d) : q <= u => q <= v - 1
    BY <1>1, <1>2
  <1>4. S \subseteq T
    BY <1>7
  <1>5. IsFiniteSet(T) /\ Rank(d, v - 1) = Cardinality(T) /\ Rank(d, u) = Cardinality(S)
        /\ Rank(d, v - 1) \in Nat /\ Rank(d, u) \in Nat
    BY RankIs
  <1> HIDE DEF S, T
  <1>6. Cardinality(S) <= Cardinality(T)
    BY <1>4, <1>5, FS_Subset
  <1> QED BY <1>3, <1>5, <1>6

\* no two units have the same rank
LEMMA RankInjective ==
    ASSUME NEW d, Len(d) \in Nat, NEW u \in UnitStarts(d), NEW v \in UnitStarts(d),
           Rank(d, u) = Rank(d, v)
    PROVE  u = v
  <1>1. u \in Nat /\ v \in Nat
    BY UnitDepth
  <1>2. Rank(d, u) \in Nat /\ Rank(d, v) \in Nat
    BY RankIs
  <1>3. ~ (u < v) /\ ~ (v < u)
    BY <1>2, RankLess
  <1> QED BY <1>1, <1>3

\* the units are ranked from 1 on
LEMMA RankPositive ==
    ASSUME NEW d, Len(d) \in Nat, NEW u \in UnitStarts(d)
    PROVE  Rank(d, u) \in 1..Cardinality(UnitStarts(d))
  <1>1. u \in Nat \ {0}
    BY UnitDepth
  <1>2. Rank(d, u) = Rank(d, u - 1) + 1
    BY <1>1, RankOfNext
  <1>3. Rank(d, u - 1) \in Nat /\ Rank(d, u) \in Nat /\ Rank(d, u) <= Cardinality(UnitStarts(d))
    BY RankIs
  <1>4. Cardinality(UnitStarts(d)) \in Nat
    BY UnitsFinite
  <1> QED BY <1>2, <1>3, <1>4

\* the sequence of the units
LEMMA UnitsAre ==
    ASSUME NEW d, Len(d) \in Nat
    PROVE  /\ Len(UnitsIn(d)) = Cardinality(UnitStarts(d)) /\ Len(UnitsIn(d)) \in Nat
           /\ \A u \in UnitStarts(d) :
                 UnitsIn(d)[Rank(d, u)] = [from |-> u, text |-> TextOf(d, u)]
  <1> DEFINE n == Cardinality(UnitStarts(d))
             nth(k) == LET p == CHOOSE q \in UnitStarts(d) : Rank(d, q) = k
                        IN  [from |-> p, text |-> TextOf(d, p)]
  <1>1. UnitsIn(d) = [k \in 1..n |-> nth(k)]
    BY DEF UnitsIn
  <1>2. n \in Nat
    BY UnitsFinite
  <1>3. \A u \in UnitStarts(d) : Rank(d, u) \in 1..n
    BY RankPositive
  <1>4. ASSUME NEW u \in UnitStarts(d)
        PROVE  nth(Rank(d, u)) = [from |-> u, text |-> TextOf(d, u)]
    <2> DEFINE p == CHOOSE q \in UnitStarts(d) : Rank(d, q) = Rank(d, u)
    <2>1. p \in UnitStarts(d) /\ Rank(d, p) = Rank(d, u)
      OBVIOUS
    <2>2. p = u
      BY <2>1, RankInjective
    <2> QED BY <2>2
  <1> HIDE DEF nth, n
  <1>5. Len([k \in 1..n |-> nth(k)]) = n
    <2>1. [k \in 1..n |-> nth(k)] \in Seq({nth(k) : k \in 1..n})
      BY <1>2
    <2>2. DOMAIN [k \in 1..n |-> nth(k)] = 1..n
      OBVIOUS
    <2> QED BY <1>2, <2>1, <2>2, LenProperties
  <1>6. \A u \in UnitStarts(d) : UnitsIn(d)[Rank(d, u)] = nth(Rank(d, u))
    BY <1>1, <1>3
  <1>7. Len(UnitsIn(d)) = n
    BY <1>1, <1>5
  <1>8. \A u \in UnitStarts(d) :
           UnitsIn(d)[Rank(d, u)] = [from |-> u, text |-> TextOf(d, u)]
    BY <1>4, <1>6
  <1> QED BY <1>2, <1>7, <1>8 DEF n

-----------------------------------------------------------------------------
(* The calls for a unit *)

\* the rest of the calls for a token
LEMMA TailCalls ==
    ASSUME NEW S, NEW list \in Seq(S), list # << >>, NEW u, NEW p
    PROVE  /\ CallsOf(list, u, p) => CallsOf(Tail(list), u, p)
           /\ OpeningCalls(list) => OpeningCalls(Tail(list))
           /\ \A c : HasCall(Tail(list), c) => HasCall(list, c)
           /\ \A c : HasCall(list, c) /\ Head(list)[1] # c => HasCall(Tail(list), c)
           /\ CallsOf(list, u, p) /\ Head(list)[1] \in Once => ~ HasCall(Tail(list), Head(list)[1])
  <1> DEFINE rest == Tail(list)
             n == Len(list)
  <1>1. /\ Len(rest) = n - 1 /\ n \in Nat \ {0} /\ Head(list) = list[1]
        /\ \A i \in 1..(n - 1) : rest[i] = list[i + 1]
    BY RestOfList
  <1> HIDE DEF rest, n
  <1>2. \A i \in 1..(n - 1) : i + 1 \in 1..n /\ i + 1 # 1
    BY <1>1
  <1>3. \A i \in 1..n : i # 1 => i - 1 \in 1..(n - 1) /\ rest[i - 1] = list[i]
    BY <1>1
  <1>4. CallsOf(list, u, p) => CallsOf(rest, u, p)
    <2> SUFFICES ASSUME CallsOf(list, u, p), NEW i \in 1..(n - 1)
                 PROVE  /\ rest[i][1] = "startUnit" => rest[i][2] = u
                        /\ rest[i][1] = "element" => rest[i][2] = p
                        /\ rest[i][1] \in Once =>
                              \A j \in 1..(n - 1) : rest[j][1] = rest[i][1] => j = i
      BY <1>1 DEF CallsOf
    <2>1. rest[i] = list[i + 1] /\ i + 1 \in 1..n
      BY <1>1, <1>2
    <2>2. /\ list[i + 1][1] = "startUnit" => list[i + 1][2] = u
          /\ list[i + 1][1] = "element" => list[i + 1][2] = p
          /\ list[i + 1][1] \in Once =>
                \A j \in 1..n : list[j][1] = list[i + 1][1] => j = i + 1
      BY <2>1 DEF CallsOf, n
    <2>3. ASSUME rest[i][1] \in Once, NEW j \in 1..(n - 1), rest[j][1] = rest[i][1]
          PROVE  j = i
      <3>1. rest[j] = list[j + 1] /\ j + 1 \in 1..n
        BY <1>1, <1>2
      <3>2. j + 1 = i + 1
        BY <2>1, <2>2, <2>3, <3>1
      <3> QED BY <1>1, <3>2
    <2> QED BY <2>1, <2>2, <2>3
  <1>5. OpeningCalls(list) => OpeningCalls(rest)
    BY <1>1, <1>2 DEF OpeningCalls, n
  <1>6. \A c : HasCall(rest, c) => HasCall(list, c)
    BY <1>1, <1>2 DEF HasCall, n
  <1>7. ASSUME NEW c, HasCall(list, c), Head(list)[1] # c PROVE HasCall(rest, c)
    <2>1. PICK i \in 1..n : list[i][1] = c
      BY <1>7 DEF HasCall, n
    <2>2. i # 1
      BY <1>1, <1>7, <2>1
    <2>3. i - 1 \in 1..(n - 1) /\ rest[i - 1] = list[i]
      BY <1>3, <2>2
    <2>4. i - 1 \in 1..Len(rest) /\ rest[i - 1][1] = c
      BY <1>1, <2>1, <2>3
    <2> QED BY <2>4 DEF HasCall
  <1>8. CallsOf(list, u, p) /\ Head(list)[1] \in Once => ~ HasCall(rest, Head(list)[1])
    <2> SUFFICES ASSUME CallsOf(list, u, p), Head(list)[1] \in Once,
                        HasCall(rest, Head(list)[1])
                 PROVE  FALSE
      OBVIOUS
    <2>1. PICK i \in 1..(n - 1) : rest[i][1] = list[1][1]
      BY <1>1 DEF HasCall
    <2>2. i + 1 \in 1..n /\ i + 1 # 1 /\ 1 \in 1..n /\ list[i + 1][1] = list[1][1]
      BY <1>1, <1>2, <2>1
    <2>3. i + 1 = 1
      BY <1>1, <2>2 DEF CallsOf, n
    <2> QED BY <2>2, <2>3
  <1> QED BY <1>4, <1>5, <1>6, <1>7, <1>8 DEF rest

\* the rest of the calls for an end tag
LEMMA TailClosing ==
    ASSUME NEW S, NEW list \in Seq(S), list # << >>, ClosingCalls(list)
    PROVE  ClosingCalls(Tail(list))
  <1> DEFINE rest == Tail(list)
             n == Len(list)
  <1>1. /\ Len(rest) = n - 1 /\ n \in Nat \ {0}
        /\ \A i \in 1..(n - 1) : rest[i] = list[i + 1]
    BY RestOfList
  <1> HIDE DEF rest, n
  <1> SUFFICES ClosingCalls(rest)
    BY DEF rest
  <1> SUFFICES ASSUME NEW i \in 1..Len(rest)
               PROVE  /\ rest[i][1] \notin {"callbacks", "element"}
                      /\ rest[i][1] = "startUnit" =>
                            \E j \in (i + 1)..Len(rest) : rest[j][1] = "endUnit"
                      /\ rest[i][1] = "endUnit" =>
                            \A j \in (i + 1)..Len(rest) : rest[j][1] = "endUnit" =>
                                \E k \in (i + 1)..(j - 1) : rest[k][1] = "startUnit"
    BY Zenon DEF ClosingCalls
  <1>2. i + 1 \in 1..n /\ rest[i] = list[i + 1] /\ i \in Nat
    BY <1>1
  <1>3. /\ list[i + 1][1] \notin {"callbacks", "element"}
        /\ list[i + 1][1] = "startUnit" =>
              \E j \in ((i + 1) + 1)..n : list[j][1] = "endUnit"
        /\ list[i + 1][1] = "endUnit" =>
              \A j \in ((i + 1) + 1)..n : list[j][1] = "endUnit" =>
                 \E k \in ((i + 1) + 1)..(j - 1) : list[k][1] = "startUnit"
    BY <1>2 DEF ClosingCalls, n
  <1>4. ASSUME rest[i][1] = "startUnit"
        PROVE  \E j \in (i + 1)..(n - 1) : rest[j][1] = "endUnit"
    <2>1. PICK j \in ((i + 1) + 1)..n : list[j][1] = "endUnit"
      BY <1>2, <1>3, <1>4
    <2>2. j - 1 \in (i + 1)..(n - 1) /\ j - 1 \in 1..(n - 1) /\ (j - 1) + 1 = j
      BY <1>1, <1>2
    <2>3. rest[j - 1] = list[j]
      BY <1>1, <2>2
    <2> QED BY <2>1, <2>2, <2>3
  <1>5. ASSUME rest[i][1] = "endUnit",
               NEW j \in (i + 1)..(n - 1), rest[j][1] = "endUnit"
        PROVE  \E k \in (i + 1)..(j - 1) : rest[k][1] = "startUnit"
    <2>1. j + 1 \in ((i + 1) + 1)..n /\ j \in 1..(n - 1) /\ j \in Int /\ (j + 1) - 1 = j
      BY <1>1, <1>2
    <2>2. list[j + 1][1] = "endUnit"
      BY <1>1, <1>5, <2>1
    <2>3. PICK k \in ((i + 1) + 1)..((j + 1) - 1) : list[k][1] = "startUnit"
      BY <1>2, <1>3, <1>5, <2>1, <2>2
    <2>4. k - 1 \in (i + 1)..(j - 1) /\ k - 1 \in 1..(n - 1) /\ (k - 1) + 1 = k
      BY <1>1, <1>2, <2>1, <2>3
    <2>5. rest[k - 1] = list[k]
      BY <1>1, <2>4
    <2> QED BY <2>3, <2>4, <2>5
  <1>6. Len(rest) = n - 1
    BY <1>1
  <1> QED BY <1>2, <1>3, <1>4, <1>5, <1>6

\* the lists there are
LEMMA NoUnitCalls ==
    ASSUME NEW u, NEW p
    PROVE  /\ CallsOf(<< >>, u, p) /\ OpeningCalls(<< >>) /\ ClosingCalls(<< >>)
           /\ \A c : ~ HasCall(<< >>, c)
  BY DEF CallsOf, OpeningCalls, ClosingCalls, HasCall

\* the calls at the start of an empty root
LEMMA RootCalls ==
    ASSUME NEW list, list = << <<"startRoot", 1>>, <<"startUnit", 1>> >>
    PROVE  /\ CallsOf(list, 1, 1) /\ OpeningCalls(list)
           /\ HasCall(list, "startUnit") /\ ~ HasCall(list, "callbacks")
  BY DEF CallsOf, OpeningCalls, HasCall, Once

\* the calls at the first unit of an archive
LEMMA FirstUnitCalls ==
    ASSUME NEW p, NEW list, list = << <<"startRoot", 1>>, <<"startUnit", p>>, <<"callbacks", p>> >>
    PROVE  /\ CallsOf(list, p, p) /\ OpeningCalls(list)
           /\ HasCall(list, "startUnit") /\ HasCall(list, "callbacks")
  BY DEF CallsOf, OpeningCalls, HasCall, Once

\* the calls at the units after it
LEMMA NextUnitCalls ==
    ASSUME NEW p, NEW list, list = << <<"startUnit", p>>, <<"callbacks", p>> >>
    PROVE  /\ CallsOf(list, p, p) /\ OpeningCalls(list)
           /\ HasCall(list, "startUnit") /\ HasCall(list, "callbacks")
  BY DEF CallsOf, OpeningCalls, HasCall, Once

\* the calls at the first element of a single unit
LEMMA SingleCalls ==
    ASSUME NEW p, NEW list, list = << <<"startRoot", 1>>, <<"startUnit", 1>>, <<"element", p>> >>
    PROVE  /\ CallsOf(list, 1, p) /\ OpeningCalls(list)
           /\ HasCall(list, "startUnit") /\ ~ HasCall(list, "callbacks")
  BY DEF CallsOf, OpeningCalls, HasCall, Once

\* the calls at the end of a unit
LEMMA EndUnitCalls ==
    ASSUME NEW u, NEW p, NEW list,
           list \in {<< <<"endUnit", p>> >>, << <<"endUnit", p>>, <<"endRoot", p>> >>}
    PROVE  /\ CallsOf(list, u, p) /\ ClosingCalls(list)
           /\ ~ HasCall(list, "startUnit") /\ HasCall(list, "endUnit")
  <1>1. CASE list = << <<"endUnit", p>> >>
    BY <1>1 DEF CallsOf, ClosingCalls, HasCall, Once
  <1>2. CASE list = << <<"endUnit", p>>, <<"endRoot", p>> >>
    BY <1>2 DEF CallsOf, ClosingCalls, HasCall, Once
  <1> QED BY <1>1, <1>2

\* the calls at the end of an archive
LEMMA EndRootCalls ==
    ASSUME NEW u, NEW p, NEW list, list = << <<"endRoot", p>> >>
    PROVE  /\ CallsOf(list, u, p) /\ ClosingCalls(list)
           /\ ~ HasCall(list, "startUnit") /\ ~ HasCall(list, "endUnit")
  BY DEF CallsOf, ClosingCalls, HasCall, Once

\* the calls at the end of a root without elements
LEMMA LateCalls ==
    ASSUME NEW p, NEW list,
           list = << <<"endUnit", p>>, <<"startRoot", 1>>, <<"startUnit", 1>>,
                     <<"endUnit", p>>, <<"endRoot", p>> >>
    PROVE  /\ CallsOf(list, 1, p) /\ ClosingCalls(list)
           /\ HasCall(list, "startUnit") /\ HasCall(list, "endUnit")
  <1>1. CallsOf(list, 1, p)
    BY DEF CallsOf, Once
  <1>2. ClosingCalls(list)
    BY DEF ClosingCalls
  <1>3. HasCall(list, "startUnit") /\ HasCall(list, "endUnit")
    BY DEF HasCall
  <1> QED BY <1>1, <1>2, <1>3

-----------------------------------------------------------------------------
(* What the parser's steps do to the units *)

\* what is known of the document
LEMMA DocFacts ==
    ASSUME TypeOK
    PROVE  /\ doc \in Seq(Token) /\ Len(doc) \in Nat /\ pos \in 0..Len(doc)
           /\ sax \in SaxState /\ sax.base \in Nat /\ sax.base <= pos
           /\ sax.collect \in BOOLEAN /\ sax.rootcalled \in BOOLEAN /\ sax.isArchive \in BOOLEAN
           /\ calls \in Seq(Calls \X (1..pos)) /\ depth \in Int
  BY DocumentsAssumption DEF TypeOK, SaxState

\* the depth libxml2 counts is that of the tags
LEMMA DepthIs ==
    ASSUME TypeOK, SaxInv
    PROVE  depth = OpenAfter(doc, pos)
  BY DEF SaxInv, DepthAt, OpenAfter

\* the next token
LEMMA NextIs ==
    ASSUME TypeOK, SaxInv, CallsInv, SaxUnits, SrcML(doc), NextToken
    PROVE  /\ doc' = doc /\ pos' = pos + 1 /\ calls = << >> /\ ppc' = "parse"
           /\ pos + 1 \in Parsed(doc) /\ doc[pos + 1].tag \in {"start", "empty", "end", "text"}
           /\ depth = OpenAfter(doc, pos) /\ depth' = OpenAfter(doc, pos + 1)
           /\ Opens(doc[1]) /\ doc[1].name = "unit"
           /\ pos = 0 => sax = SaxInit
           /\ pos > 0 => depth >= 1 /\ pos \in Parsed(doc)
           /\ sax' = Callback(sax, pos + 1, doc[pos + 1], depth).sax
           /\ calls' = Callback(sax, pos + 1, doc[pos + 1], depth).calls
  <1>1. /\ doc' = doc /\ pos' = pos + 1 /\ calls = << >> /\ ppc' = "parse" /\ ~ RootEnded
        /\ pos < Len(doc) /\ doc[pos + 1].tag # "error"
        /\ sax' = Callback(sax, pos + 1, doc[pos + 1], depth).sax
        /\ calls' = Callback(sax, pos + 1, doc[pos + 1], depth).calls
    BY DEF NextToken
  <1>2. /\ doc \in Seq(Token) /\ Len(doc) \in Nat /\ pos \in 0..Len(doc) /\ depth \in Int
    BY DocFacts
  <1>3. depth = OpenAfter(doc, pos)
    BY DepthIs
  <1>4. depth' = OpenAfter(doc, pos + 1)
    <2>1. depth' = DepthAt(pos)'
      BY BeforeToken
    <2>2. DepthAt(pos)' = OpenAfter(doc', pos')
      BY DEF DepthAt, OpenAfter
    <2> QED BY <1>1, <2>1, <2>2
  <1>5. pos > 0 => depth >= 1 /\ pos \in Parsed(doc)
    BY <1>1, <1>2 DEF RootEnded, SaxUnits
  <1>6. pos + 1 \in 1..Len(doc) /\ (pos + 1) - 1 = pos
    BY <1>1, <1>2
  <1>7. pos + 1 \in Parsed(doc)
    BY <1>2, <1>3, <1>5, <1>6, ParsedNext
  <1>8. doc[pos + 1] \in Token
    BY <1>2, <1>6
  <1>9. doc[pos + 1].tag \in {"start", "empty", "end", "text"}
    BY <1>1, <1>8 DEF Token, Tags
  <1>10. Opens(doc[1]) /\ doc[1].name = "unit"
    <2>1. doc # << >>
      BY <1>6
    <2>2. doc[1].tag = "error" \/ (Opens(doc[1]) /\ doc[1].name = "unit")
      BY <2>1 DEF SrcML
    <2>3. pos = 0 => doc[1].tag # "error"
      BY <1>1
    <2>4. pos > 0 => doc[1].tag # "error"
      BY DEF SaxUnits, Opens
    <2> QED BY <1>2, <2>2, <2>3, <2>4
  <1>11. pos = 0 => sax = SaxInit
    BY DEF SaxUnits
  <1> QED BY <1>1, <1>3, <1>4, <1>5, <1>7, <1>9, <1>10, <1>11

\* the units after a step, if the root has been announced
LEMMA UnitAfter ==
    ASSUME doc' = doc, Opens(doc[1]), pos' \in Parsed(doc), pos' \in Nat \ {0},
           sax'.rootcalled, sax'.isArchive = Archive(doc),
           NEW u, Cur(doc, u, pos'), CallsOf(calls', u, pos'),
           InUnit(u)' \/ OutUnit(u)'
    PROVE  SaxUnits'
  <1>1. u \in UnitStarts(doc)
    BY DEF Cur
  <1> QED BY <1>1 DEF SaxUnits

\* what is known after a token
LEMMA KnownAfter ==
    ASSUME doc' = doc, sax'.rootcalled
    PROVE  Known' = Rank(doc, pos')
  BY DEF Known

\* the step finds a new unit or it does not
Finds == Known' = Known + (IF HasCall(calls', "startUnit") THEN 1 ELSE 0)

\* how many units are known
LEMMA KnownType ==
    ASSUME TypeOK
    PROVE  Known \in Nat
  <1>1. Rank(doc, pos) \in Nat
    BY DocFacts, RankIs
  <1> QED BY <1>1 DEF Known

\* the root
LEMMA TokenRoot ==
    ASSUME TypeOK, SaxInv, CallsInv, SaxUnits, SrcML(doc), NextToken, pos = 0
    PROVE  SaxUnits' /\ Finds
  <1>1. /\ doc' = doc /\ pos' = 1 /\ calls = << >>
        /\ 1 \in Parsed(doc) /\ Opens(doc[1]) /\ doc[1].name = "unit"
        /\ sax = SaxInit
        /\ sax' = Callback(sax, 1, doc[1], depth).sax
        /\ calls' = Callback(sax, 1, doc[1], depth).calls
    <2>1. pos + 1 = 1
      OBVIOUS
    <2> QED BY <2>1, NextIs
  <1>2. /\ sax' = StartTag(sax, 1, "unit", doc[1].tag = "empty").sax
        /\ calls' = StartTag(sax, 1, "unit", doc[1].tag = "empty").calls
    BY <1>1 DEF Callback, Opens
  <1> DEFINE empty == doc[1].tag = "empty"
  <1>3. /\ sax'.onStart = "first" /\ sax'.onText = "unit" /\ sax'.isArchive = FALSE
        /\ sax'.rootcalled = empty /\ sax'.collect /\ sax'.text = {1} /\ sax'.base = 1
        /\ calls' = IF empty THEN << <<"startRoot", 1>>, <<"startUnit", 1>> >> ELSE << >>
    <2>1. StartTag(sax, 1, "unit", empty)
          = [sax |-> [Callbacks(StartText(sax, 1)) EXCEPT !.onStart = "first",
                                                          !.rootcalled = empty],
             calls |-> IF empty THEN << <<"startRoot", 1>>, <<"startUnit", 1>> >>
                                ELSE << >>]
      BY <1>1 DEF StartTag, Does, SaxInit
    <2> HIDE DEF empty
    <2>2. Callbacks(StartText(sax, 1))
          = [onStart |-> "element", onText |-> "unit", isArchive |-> FALSE,
             rootcalled |-> FALSE, collect |-> TRUE, text |-> {1}, base |-> 1]
      BY <1>1 DEF Callbacks, StartText, SaxInit
    <2>3. /\ sax' = [Callbacks(StartText(sax, 1)) EXCEPT !.onStart = "first",
                                                        !.rootcalled = empty]
          /\ calls' = IF empty THEN << <<"startRoot", 1>>, <<"startUnit", 1>> >>
                                ELSE << >>
      BY <1>2, <2>1 DEF empty
    <2> QED BY <2>2, <2>3
  <1>4. Gathered(1)'
    BY <1>3 DEF Gathered
  <1>5. Known = 0
    BY <1>1 DEF Known, SaxInit
  <1>6. Len(doc) \in Nat
    BY DocFacts
  <1>7. CASE ~ empty
    <2>3. sax'.rootcalled = empty /\ sax'.isArchive = FALSE
      BY <1>3
    <2>6. pos' # 0
      BY <1>1
    <2>4. ~ sax'.rootcalled /\ ~ sax'.isArchive /\ pos' # 0
      BY <1>7, <2>3, <2>6, Zenon
    <2>5. sax'.onStart = "first" /\ sax'.onText = "unit" /\ sax'.collect
      BY <1>3
    <2>1. SaxUnits'
      BY <1>1, <1>4, <2>4, <2>5, Zenon DEF SaxUnits
    <2>2. Known' = 0
      BY <1>3, <1>7 DEF Known
    <2>7. ~ HasCall(calls', "startUnit")
      BY <1>3, <1>7, NoUnitCalls
    <2> QED BY <1>5, <2>1, <2>2, <2>7 DEF Finds
  <1>8. CASE empty
    <2>1. calls' = << <<"startRoot", 1>>, <<"startUnit", 1>> >> /\ sax'.rootcalled
      BY <1>3, <1>8
    <2>2. /\ CallsOf(calls', 1, 1) /\ OpeningCalls(calls')
          /\ HasCall(calls', "startUnit") /\ ~ HasCall(calls', "callbacks")
      BY <2>1, RootCalls
    <2>3. 1 \in Starts(doc)
      BY <1>1 DEF Starts
    <2>4. ~ Archive(doc) /\ UnitStarts(doc) = {1}
      BY <1>6, <1>8, <2>3, EmptyRoot
    <2>5. Cur(doc, 1, 1) /\ Rank(doc, 1) = 1
      BY <1>6, <2>4, RankOfFirst
    <2>6. Inside(doc, 1, 1)
      BY <1>1, RootDepth DEF Inside
    <2>7. InUnit(1)'
      BY <1>1, <1>3, <1>4, <1>8, <2>2, <2>6 DEF InUnit, Has
    <2>8. SaxUnits'
      <3>1. sax'.isArchive = Archive(doc)
        BY <1>3, <2>4 DEF Archive
      <3>2. pos' \in Parsed(doc) /\ pos' \in Nat \ {0}
        BY <1>1
      <3> QED BY <1>1, <2>1, <2>2, <2>5, <2>7, <3>1, <3>2, UnitAfter
    <2>9. Known' = 1
      BY <1>1, <2>1, <2>5, KnownAfter
    <2> QED BY <1>5, <2>2, <2>8, <2>9 DEF Finds
  <1> QED BY <1>7, <1>8

\* what is collected goes on from where it was
LEMMA CollectIs ==
    ASSUME NEW s \in SaxState, NEW p \in Nat
    PROVE  LET t == Collect(s, p) IN
           /\ t.onStart = s.onStart /\ t.onText = s.onText /\ t.isArchive = s.isArchive
           /\ t.rootcalled = s.rootcalled /\ t.collect = s.collect /\ t.base = p
           /\ s.collect /\ s.base <= p =>
                \A u \in Nat : u <= s.base /\ s.text = u..s.base => t.text = u..p
  <1>1. LET t == Collect(s, p) IN
        /\ t.onStart = s.onStart /\ t.onText = s.onText /\ t.isArchive = s.isArchive
        /\ t.rootcalled = s.rootcalled /\ t.collect = s.collect /\ t.base = p
        /\ s.collect => t.text = s.text \cup (s.base + 1)..p
    BY DEF Collect, SaxState
  <1>2. s.base \in Nat
    BY DEF SaxState
  <1>3. ASSUME NEW u \in Nat, u <= s.base, s.base <= p
        PROVE  (u..s.base) \cup ((s.base + 1)..p) = u..p
    BY <1>2, <1>3
  <1> QED BY <1>1, <1>3

\* before the root is announced
LEMMA TokenBefore ==
    ASSUME TypeOK, SaxInv, CallsInv, SaxUnits, SrcML(doc), NextToken,
           pos > 0, ~ sax.rootcalled
    PROVE  /\ sax.onStart = "first" /\ sax.isArchive = FALSE
           /\ sax.collect /\ sax.onText = "unit" /\ 1 <= sax.base /\ sax.text = 1..sax.base
           /\ Known = 0
           /\ \A q \in 2..pos : Opens(doc[q]) => doc[q].name = "macro-list"
  <1>1. sax.isArchive \in BOOLEAN
    BY DocFacts
  <1> QED BY <1>1 DEF SaxUnits, Gathered, Known, SaxInv

\* a token before it is known which kind of document it is
LEMMA StillBefore ==
    ASSUME TypeOK, SaxInv, CallsInv, SaxUnits, SrcML(doc), NextToken,
           pos > 0, ~ sax.rootcalled,
           calls' = << >>, sax' = sax \/ sax' = Collect(sax, pos + 1)
    PROVE  SaxUnits' /\ Finds
  <1>1. /\ doc' = doc /\ pos' = pos + 1 /\ pos + 1 \in Parsed(doc) /\ Opens(doc[1])
    BY NextIs
  <1>2. /\ sax.onStart = "first" /\ sax.isArchive = FALSE
        /\ sax.collect /\ sax.onText = "unit" /\ 1 <= sax.base /\ sax.text = 1..sax.base
        /\ Known = 0
    BY TokenBefore
  <1>3. sax \in SaxState /\ sax.base <= pos /\ pos \in Nat /\ sax.base \in Nat
    BY DocFacts
  <1>4. /\ sax'.onStart = "first" /\ sax'.isArchive = FALSE /\ ~ sax'.rootcalled
        /\ sax'.collect /\ sax'.onText = "unit" /\ Gathered(1)'
    <2>1. CASE sax' = sax
      BY <1>2, <2>1 DEF Gathered
    <2>2. CASE sax' = Collect(sax, pos + 1)
      <3>1. /\ sax'.onStart = "first" /\ sax'.isArchive = FALSE /\ ~ sax'.rootcalled
            /\ sax'.collect /\ sax'.onText = "unit"
        BY <1>2, <1>3, <2>2, CollectIs
      <3>2. sax'.base = pos + 1 /\ sax'.text = 1..(pos + 1)
        BY <1>2, <1>3, <2>2, CollectIs
      <3>3. Gathered(1)'
        BY <1>3, <3>2 DEF Gathered
      <3> QED BY <3>1, <3>3
    <2> QED BY <2>1, <2>2
  <1>5. pos' # 0
    BY <1>1, <1>3
  <1>6. SaxUnits'
    BY <1>1, <1>4, <1>5, Zenon DEF SaxUnits
  <1>7. Known' = 0
    BY <1>4 DEF Known
  <1>8. ~ HasCall(calls', "startUnit")
    BY NoUnitCalls
  <1> QED BY <1>2, <1>6, <1>7, <1>8 DEF Finds

\* the first element: a unit
LEMMA TokenFirstUnit ==
    ASSUME TypeOK, SaxInv, CallsInv, SaxUnits, SrcML(doc), NextToken,
           pos > 0, ~ sax.rootcalled, NEW p, p = pos + 1, Opens(doc[p]), doc[p].name = "unit"
    PROVE  SaxUnits' /\ Finds
  <1>1. /\ doc' = doc /\ pos' = p /\ p \in Parsed(doc) /\ Opens(doc[1])
        /\ sax' = Callback(sax, p, doc[p], depth).sax
        /\ calls' = Callback(sax, p, doc[p], depth).calls
    BY NextIs
  <1>2. /\ sax.onStart = "first" /\ Known = 0
        /\ \A q \in 2..pos : Opens(doc[q]) => doc[q].name = "macro-list"
    BY TokenBefore
  <1>3. sax \in SaxState /\ pos \in Nat /\ Len(doc) \in Nat
    BY DocFacts
  <1>4. /\ sax' = First(sax, p, "unit").sax
        /\ calls' = First(sax, p, "unit").calls
    BY <1>1, <1>2 DEF Callback, Opens, StartTag
  <1>5. /\ sax'.onStart = "first" /\ sax'.rootcalled = TRUE /\ sax'.isArchive = TRUE
        /\ sax'.text = {p} /\ sax'.base = p
        /\ calls' = << <<"startRoot", 1>>, <<"startUnit", p>>, <<"callbacks", p>> >>
    BY <1>2, <1>3, <1>4 DEF First, Does, StartText, SaxState
  <1>6. p \in Starts(doc) /\ p # 1 /\ p \in Nat \ {0} /\ p - 1 = pos
    BY <1>1, <1>3 DEF Starts
  <1>7. Archive(doc) /\ p \in UnitStarts(doc) /\ \A u \in UnitStarts(doc) : p <= u
    <2>1. doc[p].name = "unit" /\ \A q \in 2..(p - 1) : Opens(doc[q]) => doc[q].name = "macro-list"
      BY <1>2, <1>6
    <2> QED BY <1>1, <1>3, <1>6, <2>1, FirstUnit
  <1>8. Cur(doc, p, p) /\ Rank(doc, p) = 1
    <2>1. \A u \in UnitStarts(doc) : u \in Nat
      BY <1>3, UnitDepth
    <2>2. \A u \in UnitStarts(doc) : u <= p => u = p
      <3> TAKE u \in UnitStarts(doc)
      <3>1. u \in Nat /\ p <= u /\ p \in Nat
        BY <1>6, <1>7, <2>1
      <3> QED BY <3>1
    <2>3. p <= p
      BY <1>6
    <2> QED BY <1>3, <1>6, <1>7, <2>2, <2>3, RankOfFirst
  <1>9. Inside(doc, p, p)
    <2>1. \A n \in p..p : n = p
      BY <1>6
    <2>2. DepthOf(doc, p) = OpenAfter(doc, p) /\ OpenAfter(doc, p) \in Int
      BY <1>3, <1>6, <1>7, UnitDepth, TokenDepth
    <2> QED BY <2>1, <2>2 DEF Inside
  <1>10. /\ CallsOf(calls', p, p) /\ OpeningCalls(calls')
         /\ HasCall(calls', "startUnit") /\ HasCall(calls', "callbacks")
    BY <1>5, FirstUnitCalls
  <1>11. Gathered(p)'
    <2>1. {p} = p..p /\ p <= p
      BY <1>6
    <2> QED BY <1>5, <2>1 DEF Gathered
  <1>12. InUnit(p)'
    BY <1>1, <1>5, <1>9, <1>10, <1>11, Zenon DEF InUnit, Has
  <1>13. SaxUnits'
    <2>1. sax'.isArchive = Archive(doc)
      BY <1>5, <1>7 DEF Archive
    <2>2. sax'.rootcalled /\ pos' \in Parsed(doc) /\ pos' \in Nat \ {0} /\ Cur(doc, p, pos')
          /\ CallsOf(calls', p, pos')
      BY <1>1, <1>5, <1>6, <1>8, <1>10
    <2> QED BY <1>1, <1>12, <2>1, <2>2, UnitAfter
  <1>14. Known' = 1
    BY <1>1, <1>5, <1>8, KnownAfter
  <1> QED BY <1>2, <1>10, <1>13, <1>14 DEF Finds

\* another
LEMMA TokenFirstOther ==
    ASSUME TypeOK, SaxInv, CallsInv, SaxUnits, SrcML(doc), NextToken,
           pos > 0, ~ sax.rootcalled, Opens(doc[pos + 1]),
           doc[pos + 1].name \notin {"unit", "macro-list"}
    PROVE  SaxUnits' /\ Finds
  <1> DEFINE p == pos + 1
  <1>1. /\ doc' = doc /\ pos' = p /\ p \in Parsed(doc) /\ Opens(doc[1])
        /\ sax' = Callback(sax, p, doc[p], depth).sax
        /\ calls' = Callback(sax, p, doc[p], depth).calls
    BY NextIs
  <1>2. /\ sax.onStart = "first" /\ sax.isArchive = FALSE
        /\ sax.collect /\ sax.onText = "unit" /\ 1 <= sax.base /\ sax.text = 1..sax.base
        /\ Known = 0
        /\ \A q \in 2..pos : Opens(doc[q]) => doc[q].name = "macro-list"
    BY TokenBefore
  <1>3. sax \in SaxState /\ pos \in Nat /\ Len(doc) \in Nat
    BY DocFacts
  <1>4. /\ sax' = First(sax, p, doc[p].name).sax
        /\ calls' = First(sax, p, doc[p].name).calls
    BY <1>1, <1>2 DEF Callback, Opens, StartTag
  <1>5. /\ sax'.onStart = "element" /\ sax'.rootcalled = TRUE /\ sax'.isArchive = FALSE
        /\ sax'.text = sax.text /\ sax'.base = sax.base /\ sax'.onText = "unit"
        /\ calls' = << <<"startRoot", 1>>, <<"startUnit", 1>>, <<"element", p>> >>
    BY <1>2, <1>3, <1>4 DEF First, Does, SaxState
  <1>6. p \in Starts(doc) /\ p # 1 /\ p \in Nat \ {0} /\ p - 1 = pos
    BY <1>1, <1>3 DEF Starts
  <1>7. ~ Archive(doc) /\ UnitStarts(doc) = {1}
    <2>1. doc[p].name \notin {"unit", "macro-list"} /\ \A q \in 2..(p - 1) : Opens(doc[q]) => doc[q].name = "macro-list"
      BY <1>2, <1>6
    <2> HIDE DEF p
    <2> QED BY <1>1, <1>3, <1>6, <2>1, FirstOther
  <1> HIDE DEF p
  <1>8. Cur(doc, 1, p) /\ Rank(doc, p) = 1
    <2>1. 1 <= p /\ p \in Nat /\ 1 \in UnitStarts(doc)
      BY <1>6, <1>7
    <2>2. \A q \in UnitStarts(doc) : 1 <= q /\ (q <= p => q = 1)
      BY <1>7
    <2> QED BY <1>3, <2>1, <2>2, RankOfFirst
  <1>9. Inside(doc, 1, p)
    <2> SUFFICES ASSUME NEW n \in 1..p PROVE OpenAfter(doc, n) >= DepthOf(doc, 1)
      BY DEF Inside
    <2>1. DepthOf(doc, 1) = 1
      BY <1>1, RootDepth
    <2>2. OpenAfter(doc, n) \in Int
      BY TokenDepth
    <2>3. n \in 1..(p - 1) => OpenAfter(doc, n) > 0
      BY <1>1, ParsedOpen
    <2>4. DepthOf(doc, p) >= 2 /\ DepthOf(doc, p) = OpenAfter(doc, p)
      <3>1. Opens(doc[p])
        BY DEF p
      <3> QED BY <1>1, <1>3, <1>6, <3>1, InRoot, TokenDepth
    <2> QED BY <1>6, <2>1, <2>2, <2>3, <2>4
  <1>10. /\ CallsOf(calls', 1, p) /\ OpeningCalls(calls')
         /\ HasCall(calls', "startUnit") /\ ~ HasCall(calls', "callbacks")
    BY <1>5, SingleCalls
  <1>11. Gathered(1)'
    BY <1>2, <1>5 DEF Gathered
  <1>12. InUnit(1)'
    <2>1. sax'.onStart \in {"element", "none"}
      BY <1>5
    <2> QED BY <1>1, <1>5, <1>9, <1>10, <1>11, <2>1, Zenon DEF InUnit, Has, Collecting
  <1>13. SaxUnits'
    <2>1. sax'.isArchive = Archive(doc)
      BY <1>5, <1>7 DEF Archive
    <2>2. sax'.rootcalled /\ pos' \in Parsed(doc) /\ pos' \in Nat \ {0} /\ Cur(doc, 1, pos')
          /\ CallsOf(calls', 1, pos')
      BY <1>1, <1>5, <1>6, <1>8, <1>10
    <2> QED BY <1>1, <1>12, <2>1, <2>2, UnitAfter
  <1>14. Known' = 1
    BY <1>1, <1>5, <1>8, KnownAfter
  <1> QED BY <1>2, <1>10, <1>13, <1>14 DEF Finds

UnitEnds(s, name, dep) == name = "unit" /\ EndsUnit(s, dep)
RootEnds(name, dep) == name = "unit" /\ dep = 1

\* the state after an end tag
LEMMA EndTagIs ==
    ASSUME NEW s \in SaxState, NEW p \in Nat, NEW name, NEW dep
    PROVE  LET t == EndTag(s, p, name, dep).sax IN
           /\ t.onStart = IF UnitEnds(s, name, dep) THEN "unit" ELSE s.onStart
           /\ t.onText = IF UnitEnds(s, name, dep) THEN "root" ELSE s.onText
           /\ t.isArchive = s.isArchive /\ t.collect = s.collect
           /\ t.rootcalled = (s.rootcalled \/ RootEnds(name, dep))
           /\ t.base = p /\ t.text = Collect(s, p).text
  BY DEF EndTag, Does, Collect, SaxState, UnitEnds, RootEnds

\* the calls at an end tag: of a unit, of the root, of both
LEMMA EndTagCalls ==
    ASSUME NEW s, NEW p, NEW name, NEW dep
    PROVE  EndTag(s, p, name, dep).calls
           = (IF UnitEnds(s, name, dep) THEN << <<"endUnit", p>> >> ELSE << >>)
             \o (IF RootEnds(name, dep) THEN LateRoot(s, p) \o << <<"endRoot", p>> >>
                                        ELSE << >>)
  BY DEF EndTag, Does, UnitEnds, RootEnds

\* the end of any other element
LEMMA EndsNothing ==
    ASSUME NEW s, NEW p, NEW name, NEW dep, ~ UnitEnds(s, name, dep), ~ RootEnds(name, dep)
    PROVE  EndTag(s, p, name, dep).calls = << >>
  <1>1. EndTag(s, p, name, dep).calls = << >> \o << >>
    BY EndTagCalls, Zenon
  <1> QED BY <1>1, Join00, Zenon

\* the end of a unit of an archive
LEMMA EndsUnitOnly ==
    ASSUME NEW s, NEW p, NEW name, NEW dep, UnitEnds(s, name, dep), ~ RootEnds(name, dep)
    PROVE  EndTag(s, p, name, dep).calls = << <<"endUnit", p>> >>
  <1>1. EndTag(s, p, name, dep).calls = << <<"endUnit", p>> >> \o << >>
    BY EndTagCalls, Zenon
  <1> QED BY <1>1, Join10, Zenon

\* the end of a root that was announced
LEMMA EndsWithRoot ==
    ASSUME NEW s, NEW p, NEW name, NEW dep, RootEnds(name, dep), s.rootcalled
    PROVE  /\ UnitEnds(s, name, dep) =>
                EndTag(s, p, name, dep).calls = << <<"endUnit", p>>, <<"endRoot", p>> >>
           /\ ~ UnitEnds(s, name, dep) =>
                EndTag(s, p, name, dep).calls = << <<"endRoot", p>> >>
  <1>1. LateRoot(s, p) = << >>
    BY DEF LateRoot
  <1>2. LateRoot(s, p) \o << <<"endRoot", p>> >> = << <<"endRoot", p>> >>
    BY <1>1, Join01, Zenon
  <1>3. UnitEnds(s, name, dep) => EndTag(s, p, name, dep).calls = << <<"endUnit", p>> >> \o << <<"endRoot", p>> >>
    BY <1>2, EndTagCalls, Zenon
  <1>4. ~ UnitEnds(s, name, dep) => EndTag(s, p, name, dep).calls = << >> \o << <<"endRoot", p>> >>
    BY <1>2, EndTagCalls, Zenon
  <1>5. << <<"endUnit", p>> >> \o << <<"endRoot", p>> >> = << <<"endUnit", p>>, <<"endRoot", p>> >>
    BY Join11, Zenon
  <1>6. << >> \o << <<"endRoot", p>> >> = << <<"endRoot", p>> >>
    BY Join01, Zenon
  <1> QED BY <1>3, <1>4, <1>5, <1>6, Zenon

\* the end of a root that was not
LEMMA EndsLate ==
    ASSUME NEW s, NEW p, NEW name, NEW dep, RootEnds(name, dep), UnitEnds(s, name, dep), ~ s.rootcalled
    PROVE  EndTag(s, p, name, dep).calls =
              << <<"endUnit", p>>, <<"startRoot", 1>>, <<"startUnit", 1>>,
                 <<"endUnit", p>>, <<"endRoot", p>> >>
  <1>1. LateRoot(s, p) = << <<"startRoot", 1>>, <<"startUnit", 1>>, <<"endUnit", p>> >>
    BY DEF LateRoot
  <1>2. LateRoot(s, p) \o << <<"endRoot", p>> >>
        = << <<"startRoot", 1>>, <<"startUnit", 1>>, <<"endUnit", p>>, <<"endRoot", p>> >>
    BY <1>1, Join31, Zenon
  <1>3. EndTag(s, p, name, dep).calls = << <<"endUnit", p>> >> \o
           << <<"startRoot", 1>>, <<"startUnit", 1>>, <<"endUnit", p>>, <<"endRoot", p>> >>
    BY <1>2, EndTagCalls, Zenon
  <1> QED BY <1>3, Join14, Zenon

\* the root ends without such an element
LEMMA TokenLate ==
    ASSUME TypeOK, SaxInv, CallsInv, SaxUnits, SrcML(doc), NextToken,
           pos > 0, ~ sax.rootcalled, NEW p, p = pos + 1, doc[p].tag = "end", depth = 1
    PROVE  SaxUnits' /\ Finds
  <1>1. /\ doc' = doc /\ pos' = p /\ p \in Parsed(doc) /\ Opens(doc[1]) /\ ppc' = "parse"
        /\ sax' = Callback(sax, p, doc[p], depth).sax
        /\ calls' = Callback(sax, p, doc[p], depth).calls
        /\ OpenAfter(doc, pos) = 1 /\ depth' = OpenAfter(doc, p)
    BY NextIs
  <1>2. /\ sax.onStart = "first" /\ sax.isArchive = FALSE
        /\ sax.collect /\ sax.onText = "unit" /\ 1 <= sax.base /\ sax.text = 1..sax.base
        /\ Known = 0
        /\ \A q \in 2..pos : Opens(doc[q]) => doc[q].name = "macro-list"
    BY TokenBefore
  <1>3. sax \in SaxState /\ pos \in Nat /\ Len(doc) \in Nat /\ sax.base <= pos /\ p \in Nat /\ sax.base \in Nat
    BY DocFacts
  <1>4. p \in Ends(doc) /\ p # 1 /\ p > 1 /\ p - 1 = pos /\ p \in Nat \ {0} /\ 1 < p
    BY <1>1, <1>3 DEF Ends
  <1>5. doc[p].name = "unit" /\ OpenAfter(doc, p) = 0 /\ DepthOf(doc, p) = 1
    BY <1>1, <1>3, <1>4, EndOfRoot
  <1>6. /\ sax' = EndTag(sax, p, "unit", 1).sax
        /\ calls' = EndTag(sax, p, "unit", 1).calls
    BY <1>1, <1>5 DEF Callback
  <1>7. UnitEnds(sax, "unit", 1) /\ RootEnds("unit", 1)
    BY <1>2 DEF UnitEnds, RootEnds, EndsUnit
  <1>8. calls' = << <<"endUnit", p>>, <<"startRoot", 1>>, <<"startUnit", 1>>,
                    <<"endUnit", p>>, <<"endRoot", p>> >>
    BY <1>6, <1>7, EndsLate
  <1>9. /\ sax'.onStart = "unit" /\ sax'.isArchive = FALSE /\ sax'.rootcalled
        /\ sax'.text = Collect(sax, p).text
    <2>1. LET t == EndTag(sax, p, "unit", 1).sax IN
           /\ t.onStart = IF UnitEnds(sax, "unit", 1) THEN "unit" ELSE sax.onStart
           /\ t.isArchive = sax.isArchive
           /\ t.rootcalled = (sax.rootcalled \/ RootEnds("unit", 1))
           /\ t.text = Collect(sax, p).text
      BY <1>3, EndTagIs
    <2> QED BY <1>2, <1>6, <1>7, <2>1, Zenon
  <1>10. sax'.text = 1..p
    <2>1. Collect(sax, p).text = 1..p
      BY <1>2, <1>3, CollectIs
    <2> QED BY <1>9, <2>1
  <1>11. ~ Archive(doc) /\ UnitStarts(doc) = {1}
    <2>1. \A q \in Starts(doc) : q <= p
      BY <1>3, <1>4, <1>5, NothingAfter DEF Starts
    <2>2. \A q \in 2..p : Opens(doc[q]) => doc[q].name = "macro-list"
      <3>1. ~ Opens(doc[p])
        BY DEF Opens
      <3>2. \A q \in 2..p : q = p \/ q \in 2..pos
        BY <1>3, <1>4
      <3> QED BY <1>2, <3>1, <3>2
    <2>3. \E i \in Ends(doc) : DepthOf(doc, i) = 1
      BY <1>4, <1>5
    <2> QED BY <1>1, <1>3, <2>1, <2>2, <2>3, OnlyRoot
  <1>12. Cur(doc, 1, p) /\ Rank(doc, p) = 1
    <2>1. 1 <= p /\ p \in Nat /\ 1 \in UnitStarts(doc)
      BY <1>4, <1>11
    <2>2. \A q \in UnitStarts(doc) : 1 <= q /\ (q <= p => q = 1)
      BY <1>11
    <2> QED BY <1>3, <2>1, <2>2, RankOfFirst
  <1>13. DepthOf(doc, 1) = 1
    BY <1>1, RootDepth
  <1>14. Closes(doc, 1, p)
    <2>1. \A n \in 1..(p - 1) : OpenAfter(doc, n) > 0 /\ OpenAfter(doc, n) \in Int
      BY <1>1, ParsedOpen, TokenDepth
    <2>2. Inside(doc, 1, p - 1)
      BY <1>13, <2>1 DEF Inside
    <2> QED BY <1>4, <1>5, <1>13, <2>2 DEF Closes
  <1>15. /\ CallsOf(calls', 1, p) /\ ClosingCalls(calls')
         /\ HasCall(calls', "startUnit") /\ HasCall(calls', "endUnit")
    BY <1>8, LateCalls
  <1>16. OutUnit(1)'
    <2>1. depth' < DepthOf(doc', 1)
      BY <1>1, <1>5, <1>13
    <2> QED BY <1>1, <1>9, <1>10, <1>14, <1>15, <2>1, Zenon DEF OutUnit, Has
  <1>17. SaxUnits'
    <2>1. sax'.isArchive = Archive(doc)
      BY <1>9, <1>11 DEF Archive
    <2>2. sax'.rootcalled /\ pos' \in Parsed(doc) /\ pos' \in Nat \ {0} /\ Cur(doc, 1, pos')
          /\ CallsOf(calls', 1, pos')
      BY <1>1, <1>4, <1>9, <1>12, <1>15
    <2> QED BY <1>1, <1>16, <2>1, <2>2, UnitAfter
  <1>18. Known' = 1
    BY <1>1, <1>9, <1>12, KnownAfter
  <1> QED BY <1>2, <1>15, <1>17, <1>18 DEF Finds

\* every token before the root is announced
LEMMA TokenUnannounced ==
    ASSUME TypeOK, SaxInv, CallsInv, SaxUnits, SrcML(doc), NextToken,
           pos > 0, ~ sax.rootcalled
    PROVE  SaxUnits' /\ Finds
  <1> DEFINE p == pos + 1
  <1>1. /\ p \in Parsed(doc) /\ doc[p].tag \in {"start", "empty", "end", "text"}
        /\ sax' = Callback(sax, p, doc[p], depth).sax
        /\ calls' = Callback(sax, p, doc[p], depth).calls
        /\ depth = OpenAfter(doc, pos) /\ Opens(doc[1])
    BY NextIs
  <1>2. /\ sax.onStart = "first" /\ sax.isArchive = FALSE
        /\ sax.collect /\ sax.onText = "unit"
    BY TokenBefore
  <1>3. sax \in SaxState /\ pos \in Nat /\ Len(doc) \in Nat /\ p \in Nat /\ depth \in Int
    BY DocFacts
  <1>4. CASE doc[p].tag \in {"start", "empty"}
    <2>1. Opens(doc[p])
      BY <1>4 DEF Opens
    <2>2. CASE doc[p].name = "macro-list"
      <3>1. sax' = sax /\ calls' = << >>
        BY <1>1, <1>2, <1>4, <2>2 DEF Callback, StartTag, First, Does
      <3> QED BY <3>1, StillBefore
    <2>3. CASE doc[p].name = "unit"
      BY <2>1, <2>3, TokenFirstUnit
    <2>4. CASE doc[p].name \notin {"unit", "macro-list"}
      BY <2>1, <2>4, TokenFirstOther
    <2> QED BY <2>2, <2>3, <2>4
  <1>5. CASE doc[p].tag = "text"
    <2>1. sax' = Collect(sax, p) /\ calls' = << >>
      BY <1>1, <1>2, <1>5 DEF Callback, Text, Does
    <2> QED BY <2>1, StillBefore
  <1>6. CASE doc[p].tag = "end" /\ depth = 1
    BY <1>6, TokenLate
  <1>7. CASE doc[p].tag = "end" /\ depth # 1
    <2>1. doc[p].name # "unit"
      BY <1>3, <1>7, UnitEndsRoot DEF NextToken
    <2>2. ~ UnitEnds(sax, doc[p].name, depth) /\ ~ RootEnds(doc[p].name, depth)
      BY <2>1 DEF UnitEnds, RootEnds
    <2>3. calls' = << >>
      BY <1>1, <1>7, <2>2, EndsNothing DEF Callback
    <2>4. sax' = EndTag(sax, p, doc[p].name, depth).sax
      BY <1>1, <1>7 DEF Callback
    <2>5. sax' = Collect(sax, p)
      BY <1>3, <2>1, <2>4 DEF EndTag, Does, Collect, SaxState
    <2> QED BY <2>3, <2>5, StillBefore
  <1> QED BY <1>1, <1>4, <1>5, <1>6, <1>7

\* a token of a unit, or between two, of which no call is made
LEMMA NoNewUnit ==
    ASSUME TypeOK, sax.rootcalled, sax'.rootcalled, doc' = doc, NEW u, Cur(doc, u, pos),
           Cur(doc, u, pos'), pos' \in Nat, ~ HasCall(calls', "startUnit")
    PROVE  Finds
  <1>1. Len(doc) \in Nat /\ pos \in Nat
    BY DocFacts
  <1>2. Rank(doc, pos) = Rank(doc, u) /\ Rank(doc, pos') = Rank(doc, u)
    BY <1>1, RankOfUnit
  <1>3. Known = Rank(doc, u) /\ Known' = Rank(doc, u)
    BY <1>2 DEF Known
  <1>4. Known \in Nat
    BY KnownType
  <1> QED BY <1>3, <1>4 DEF Finds

\* a token of the unit, which is not its end
LEMMA TokenInUnit ==
    ASSUME TypeOK, SaxInv, CallsInv, SaxUnits, SrcML(doc), NextToken,
           pos > 0, sax.rootcalled, NEW p, p = pos + 1,
           NEW u, Cur(doc, u, pos), InUnit(u),
           doc[p].tag # "end" \/ depth > DepthOf(doc, u)
    PROVE  /\ SaxUnits' /\ Finds
           /\ InUnit(u)' /\ sax'.collect = sax.collect /\ ~ HasCall(calls', "startUnit")
  <1>1. /\ doc' = doc /\ pos' = p /\ p \in Parsed(doc) /\ Opens(doc[1]) /\ calls = << >>
        /\ doc[p].tag \in {"start", "empty", "end", "text"}
        /\ sax' = Callback(sax, p, doc[p], depth).sax
        /\ calls' = Callback(sax, p, doc[p], depth).calls
        /\ OpenAfter(doc, pos) = depth
    BY NextIs
  <1>2. sax \in SaxState /\ pos \in Nat /\ Len(doc) \in Nat /\ sax.base <= pos /\ p \in Nat
        /\ sax.base \in Nat /\ depth \in Int /\ p - 1 = pos /\ p > 1 /\ p \in Nat \ {0} /\ sax.base <= p
        /\ sax.collect \in BOOLEAN
    BY DocFacts
  <1>3. ~ Has("callbacks") /\ ~ Has("startUnit")
    BY <1>1, NoUnitCalls DEF Has
  <1>4. /\ Inside(doc, u, pos) /\ (sax.collect => Gathered(u))
        /\ \/ /\ sax.onStart \in {"element", "none"}
              /\ sax.collect => Collecting
           \/ /\ pos = 1 /\ u = 1 /\ doc[1].tag = "empty"
              /\ sax.onStart = "first" /\ sax.onText = "unit"
    BY <1>3 DEF InUnit
  <1>5. u \in UnitStarts(doc) /\ u \in Nat
    BY <1>2, UnitDepth DEF Cur
  <1>6. sax.isArchive = Archive(doc)
    BY DEF SaxUnits
  <1>7. Cur(doc, u, p) /\ Inside(doc, u, p)
    BY <1>1, <1>2, <1>4, UnitGoesOn
  \* a root without elements ends
  <1>8. /\ sax.onStart \in {"element", "none"}
        /\ sax.collect => Collecting
    <2> SUFFICES ASSUME pos = 1, doc[1].tag = "empty" PROVE FALSE
      BY <1>4
    <2>1. 1 \in Starts(doc)
      BY <1>1 DEF Starts, SaxUnits
    <2>2. doc[2].tag = "end" /\ ~ Archive(doc)
      BY <1>2, <2>1, EmptyRoot
    <2>3. u = 1
      BY <1>5, <2>2, UnitIs
    <2>4. depth = 1 /\ DepthOf(doc, u) = 1
      BY <1>1, <2>3, RootDepth
    <2> QED BY <1>2, <2>2, <2>4
  \* what the callback does to the state
  <1>9. /\ calls' = << >>
        /\ sax' = Collect(sax, p) \/ (sax' = sax /\ ~ sax.collect)
           \/ (sax' = [sax EXCEPT !.base = p] /\ ~ sax.collect)
    <2>1. CASE doc[p].tag \in {"start", "empty"}
      <3>1. sax.onStart = "none" => ~ sax.collect
        BY <1>8 DEF Collecting
      <3> QED BY <1>1, <1>8, <2>1, <3>1 DEF Callback, StartTag, Does
    <2>2. CASE doc[p].tag = "text"
      <3>1. sax' = Text(sax, p) /\ calls' = << >>
        BY <1>1, <2>2 DEF Callback, Does
      <3>2. sax.collect => sax.onText = "unit"
        BY <1>8 DEF Collecting
      <3>3. sax.onText \in {"unit", "root", "none"}
        BY <1>2 DEF SaxState
      <3> QED BY <3>1, <3>2, <3>3 DEF Text
    <2>3. CASE doc[p].tag = "end"
      <3>1. p \in Ends(doc) /\ depth > DepthOf(doc, u) /\ OpenAfter(doc, p - 1) = depth
        BY <1>1, <1>2, <2>3 DEF Ends
      <3>2. doc[p].name = "unit" => Archive(doc) /\ depth > 2
        BY <1>1, <1>2, <1>4, <3>1, EndInUnit
      <3>3. DepthOf(doc, u) \in Int /\ DepthOf(doc, u) >= 1
        BY <1>2, <1>5, UnitDepth
      <3>4. ~ UnitEnds(sax, doc[p].name, depth) /\ ~ RootEnds(doc[p].name, depth)
        BY <1>2, <1>6, <3>1, <3>2, <3>3 DEF UnitEnds, RootEnds, EndsUnit
      <3>5. calls' = << >>
        BY <1>1, <2>3, <3>4, EndsNothing DEF Callback
      <3>6. sax' = EndTag(sax, p, doc[p].name, depth).sax
        BY <1>1, <2>3 DEF Callback
      <3>7. sax' = Collect(sax, p)
        BY <1>2, <3>4, <3>6 DEF EndTag, Does, Collect, SaxState, UnitEnds, RootEnds
      <3> QED BY <3>5, <3>7
    <2> QED BY <1>1, <2>1, <2>2, <2>3
  <1>10. /\ sax'.onStart = sax.onStart /\ sax'.onText = sax.onText /\ sax'.isArchive = sax.isArchive
         /\ sax'.collect = sax.collect /\ sax'.rootcalled = sax.rootcalled
    <2>1. CASE sax' = Collect(sax, p)
      BY <1>2, <2>1, CollectIs
    <2>2. CASE sax' = [sax EXCEPT !.base = p]
      BY <1>2, <2>2 DEF SaxState
    <2> QED BY <1>9, <2>1, <2>2
  <1>11. sax'.collect => Gathered(u)'
    <2> SUFFICES ASSUME sax.collect PROVE Gathered(u)'
      BY <1>10
    <2>1. u <= sax.base /\ sax.text = u..sax.base
      BY <1>4 DEF Gathered
    <2>2. sax' = Collect(sax, p)
      BY <1>9
    <2>3. sax'.base = p /\ sax'.text = u..p
      BY <1>2, <1>5, <2>1, <2>2, CollectIs
    <2>4. u <= p
      BY <1>2, <1>5, <2>1
    <2> QED BY <2>3, <2>4 DEF Gathered
  <1>12. /\ CallsOf(calls', u, p) /\ OpeningCalls(calls') /\ ~ HasCall(calls', "startUnit")
         /\ ~ HasCall(calls', "callbacks")
    BY <1>9, NoUnitCalls
  <1>13. InUnit(u)'
    <2>1. sax'.collect => Collecting'
      BY <1>8, <1>10 DEF Collecting
    <2>2. sax'.onStart \in {"element", "none"}
      BY <1>8, <1>10
    <2> QED BY <1>1, <1>7, <1>11, <1>12, <2>1, <2>2, Zenon DEF InUnit, Has
  <1>14. SaxUnits'
    <2>1. sax'.isArchive = Archive(doc) /\ sax'.rootcalled
      BY <1>6, <1>10
    <2>2. pos' \in Parsed(doc) /\ pos' \in Nat \ {0} /\ Cur(doc, u, pos')
          /\ CallsOf(calls', u, pos')
      BY <1>1, <1>2, <1>7, <1>12
    <2> QED BY <1>1, <1>13, <2>1, <2>2, UnitAfter
  <1>15. Finds
    <2>1. Cur(doc, u, pos') /\ pos' \in Nat /\ sax'.rootcalled
      BY <1>1, <1>2, <1>7, <1>10
    <2> QED BY <1>1, <1>12, <2>1, NoNewUnit
  <1> QED BY <1>10, <1>12, <1>13, <1>14, <1>15

\* the end of a unit
LEMMA TokenEndsUnit ==
    ASSUME TypeOK, SaxInv, CallsInv, SaxUnits, SrcML(doc), NextToken,
           pos > 0, sax.rootcalled, NEW p, p = pos + 1,
           NEW u, Cur(doc, u, pos), InUnit(u),
           doc[p].tag = "end", depth = DepthOf(doc, u)
    PROVE  /\ SaxUnits' /\ Finds
           /\ HasCall(calls', "endUnit")
           /\ sax'.collect = sax.collect /\ ~ HasCall(calls', "startUnit")
  <1>1. /\ doc' = doc /\ pos' = p /\ p \in Parsed(doc) /\ Opens(doc[1]) /\ calls = << >>
        /\ sax' = Callback(sax, p, doc[p], depth).sax
        /\ calls' = Callback(sax, p, doc[p], depth).calls
        /\ OpenAfter(doc, pos) = depth /\ depth' = OpenAfter(doc, p)
    BY NextIs
  <1>2. sax \in SaxState /\ pos \in Nat /\ Len(doc) \in Nat /\ sax.base <= pos /\ p \in Nat
        /\ sax.base \in Nat /\ depth \in Int /\ p - 1 = pos /\ p > 1 /\ p \in Nat \ {0} /\ sax.base <= p
        /\ sax.collect \in BOOLEAN
    BY DocFacts
  <1>3. ~ Has("callbacks") /\ ~ Has("startUnit")
    BY <1>1, NoUnitCalls DEF Has
  <1>4. Inside(doc, u, pos) /\ (sax.collect => Gathered(u))
    BY <1>3 DEF InUnit
  <1>5. u \in UnitStarts(doc) /\ u \in Nat /\ DepthOf(doc, u) = IF Archive(doc) THEN 2 ELSE 1
    BY <1>2, UnitDepth DEF Cur
  <1>6. sax.isArchive = Archive(doc)
    BY DEF SaxUnits
  <1>7. p \in Ends(doc) /\ OpenAfter(doc, p - 1) = DepthOf(doc, u)
    BY <1>1, <1>2 DEF Ends
  <1>8. Cur(doc, u, p) /\ Closes(doc, u, p)
    BY <1>2, <1>4, <1>7, UnitCloses
  <1>9. doc[p].name = "unit"
    BY <1>1, <1>2, <1>4, <1>7, EndInUnit
  <1>10. /\ sax' = EndTag(sax, p, "unit", depth).sax
         /\ calls' = EndTag(sax, p, "unit", depth).calls
    BY <1>1, <1>9 DEF Callback
  <1>11. UnitEnds(sax, "unit", depth)
    BY <1>5, <1>6 DEF UnitEnds, EndsUnit
  <1>12. calls' \in {<< <<"endUnit", p>> >>, << <<"endUnit", p>>, <<"endRoot", p>> >>}
    <2>1. CASE RootEnds("unit", depth)
      <3>1. calls' = << <<"endUnit", p>>, <<"endRoot", p>> >>
        BY <1>10, <1>11, <2>1, EndsWithRoot
      <3> QED BY <3>1
    <2>2. CASE ~ RootEnds("unit", depth)
      <3>1. calls' = << <<"endUnit", p>> >>
        BY <1>10, <1>11, <2>2, EndsUnitOnly
      <3> QED BY <3>1
    <2> QED BY <2>1, <2>2
  <1>13. /\ sax'.onStart = "unit" /\ sax'.isArchive = sax.isArchive /\ sax'.rootcalled
         /\ sax'.collect = sax.collect /\ sax'.text = Collect(sax, p).text
    <2>1. LET t == EndTag(sax, p, "unit", depth).sax IN
           /\ t.onStart = IF UnitEnds(sax, "unit", depth) THEN "unit" ELSE sax.onStart
           /\ t.isArchive = sax.isArchive /\ t.collect = sax.collect
           /\ t.rootcalled = (sax.rootcalled \/ RootEnds("unit", depth))
           /\ t.text = Collect(sax, p).text
      BY <1>2, EndTagIs
    <2> QED BY <1>10, <1>11, <2>1, Zenon
  <1>14. sax.collect => sax'.text = u..p
    <2> SUFFICES ASSUME sax.collect PROVE sax'.text = u..p
      OBVIOUS
    <2>1. u <= sax.base /\ sax.text = u..sax.base
      BY <1>4 DEF Gathered
    <2>2. Collect(sax, p).text = u..p
      BY <1>2, <1>5, <2>1, CollectIs
    <2> QED BY <1>13, <2>2
  <1>15. /\ CallsOf(calls', u, p) /\ ClosingCalls(calls')
         /\ ~ HasCall(calls', "startUnit") /\ HasCall(calls', "endUnit")
    BY <1>12, EndUnitCalls
  <1>16. OutUnit(u)'
    <2>1. depth' < DepthOf(doc', u)
      BY <1>1, <1>8 DEF Closes
    <2>2. sax'.collect => sax'.text = u..p
      BY <1>13, <1>14
    <2> QED BY <1>1, <1>8, <1>13, <1>15, <2>1, <2>2, Zenon DEF OutUnit, Has
  <1>17. SaxUnits'
    <2>1. sax'.isArchive = Archive(doc) /\ sax'.rootcalled
      BY <1>6, <1>13
    <2>2. pos' \in Parsed(doc) /\ pos' \in Nat \ {0} /\ Cur(doc, u, pos')
          /\ CallsOf(calls', u, pos')
      BY <1>1, <1>2, <1>8, <1>15
    <2> QED BY <1>1, <1>16, <2>1, <2>2, UnitAfter
  <1>18. Finds
    <2>1. Cur(doc, u, pos') /\ pos' \in Nat /\ sax'.rootcalled
      BY <1>1, <1>2, <1>8, <1>13
    <2> QED BY <1>1, <1>15, <2>1, NoNewUnit
  <1> QED BY <1>13, <1>15, <1>17, <1>18

\* between two units
LEMMA TokenBetween ==
    ASSUME TypeOK, SaxInv, CallsInv, SaxUnits, SrcML(doc), NextToken,
           pos > 0, sax.rootcalled, NEW p, p = pos + 1,
           NEW u, Cur(doc, u, pos), OutUnit(u)
    PROVE  SaxUnits' /\ Finds
  <1>1. /\ doc' = doc /\ pos' = p /\ p \in Parsed(doc) /\ Opens(doc[1]) /\ calls = << >>
        /\ doc[p].tag \in {"start", "empty", "end", "text"}
        /\ sax' = Callback(sax, p, doc[p], depth).sax
        /\ calls' = Callback(sax, p, doc[p], depth).calls
        /\ OpenAfter(doc, pos) = depth /\ depth' = OpenAfter(doc, p)
    BY NextIs
  <1>2. sax \in SaxState /\ pos \in Nat /\ Len(doc) \in Nat /\ p \in Nat
        /\ depth \in Int /\ p - 1 = pos /\ p > 1 /\ p \in Nat \ {0}
    BY DocFacts
  <1>3. sax.onStart = "unit" /\ depth < DepthOf(doc, u)
    BY DEF OutUnit
  <1>4. /\ Archive(doc) /\ OpenAfter(doc, pos) = 1
        /\ Opens(doc[p]) => Cur(doc, p, p)
        /\ ~ Opens(doc[p]) => Cur(doc, u, p)
        /\ ~ Opens(doc[p]) => OpenAfter(doc, p) < DepthOf(doc, u)
    BY <1>1, <1>2, <1>3, BetweenUnits
  <1>5. sax.isArchive = Archive(doc) /\ sax.isArchive
    BY <1>4 DEF SaxUnits
  <1>6. CASE Opens(doc[p])
    <2>1. doc[p].tag \in {"start", "empty"}
      BY <1>6 DEF Opens
    <2>2. sax' = StartText(sax, p) /\ calls' = << <<"startUnit", p>>, <<"callbacks", p>> >>
      BY <1>1, <1>3, <2>1 DEF Callback, StartTag, Does
    <2>3. /\ sax'.onStart = "unit" /\ sax'.isArchive = sax.isArchive /\ sax'.rootcalled
          /\ sax'.text = {p} /\ sax'.base = p
      BY <1>2, <1>3, <2>2 DEF StartText, SaxState
    <2>4. /\ CallsOf(calls', p, p) /\ OpeningCalls(calls')
          /\ HasCall(calls', "startUnit") /\ HasCall(calls', "callbacks")
      BY <2>2, NextUnitCalls
    <2>5. Cur(doc, p, p) /\ p \in UnitStarts(doc)
      BY <1>4, <1>6 DEF Cur
    <2>6. Inside(doc, p, p)
      <3>1. \A n \in p..p : n = p
        BY <1>2
      <3>2. DepthOf(doc, p) = OpenAfter(doc, p) /\ OpenAfter(doc, p) \in Int
        BY <1>2, <2>5, UnitDepth, TokenDepth
      <3> QED BY <3>1, <3>2 DEF Inside
    <2>7. Gathered(p)'
      <3>1. {p} = p..p /\ p <= p
        BY <1>2
      <3> QED BY <2>3, <3>1 DEF Gathered
    <2>8. InUnit(p)'
      <3>1. sax'.onStart \in {"first", "unit"}
        BY <2>3
      <3> QED BY <1>1, <2>4, <2>6, <2>7, <3>1, Zenon DEF InUnit, Has
    <2>9. SaxUnits'
      <3>1. sax'.isArchive = Archive(doc) /\ sax'.rootcalled
        BY <1>5, <2>3
      <3>2. pos' \in Parsed(doc) /\ pos' \in Nat \ {0} /\ Cur(doc, p, pos')
            /\ CallsOf(calls', p, pos')
        BY <1>1, <1>2, <2>4, <2>5
      <3> QED BY <1>1, <2>8, <3>1, <3>2, UnitAfter
    <2>10. Known' = Known + 1
      <3>1. Known' = Rank(doc, p)
        BY <1>1, <2>3, KnownAfter
      <3>2. Rank(doc, p) = Rank(doc, p - 1) + 1
        BY <1>2, <2>5, RankOfNext
      <3>3. Known = Rank(doc, p - 1)
        BY <1>2 DEF Known
      <3> QED BY <3>1, <3>2, <3>3
    <2> QED BY <2>4, <2>9, <2>10 DEF Finds
  <1>7. CASE ~ Opens(doc[p])
    <2>3. /\ sax'.onStart = "unit" /\ sax'.isArchive = sax.isArchive /\ sax'.rootcalled
          /\ CallsOf(calls', u, p) /\ ClosingCalls(calls')
          /\ ~ HasCall(calls', "startUnit") /\ ~ HasCall(calls', "endUnit")
      <3>1. CASE doc[p].tag = "text"
        <4>1. sax' = Text(sax, p) /\ calls' = << >>
          BY <1>1, <3>1 DEF Callback, Does
        <4>2. /\ sax'.onStart = "unit" /\ sax'.isArchive = sax.isArchive /\ sax'.rootcalled
          BY <1>2, <1>3, <4>1 DEF Text, Collect, SaxState
        <4>3. /\ CallsOf(calls', u, p) /\ ClosingCalls(calls')
              /\ ~ HasCall(calls', "startUnit") /\ ~ HasCall(calls', "endUnit")
          BY <4>1, NoUnitCalls
        <4> QED BY <4>2, <4>3
      <3>2. CASE doc[p].tag = "end"
        <4>1. p \in Ends(doc) /\ depth = 1 /\ OpenAfter(doc, p - 1) = 1
          BY <1>1, <1>2, <1>4, <3>2 DEF Ends
        <4>2. doc[p].name = "unit"
          BY <1>1, <1>2, <4>1, EndOfRoot
        <4>3. ~ UnitEnds(sax, "unit", 1) /\ RootEnds("unit", 1)
          BY <1>5 DEF UnitEnds, EndsUnit, RootEnds
        <4>4. /\ sax' = EndTag(sax, p, "unit", 1).sax
              /\ calls' = EndTag(sax, p, "unit", 1).calls
          BY <1>1, <3>2, <4>1, <4>2 DEF Callback
        <4>5. calls' = << <<"endRoot", p>> >>
          BY <4>3, <4>4, EndsWithRoot
        <4>6. /\ sax'.onStart = "unit" /\ sax'.isArchive = sax.isArchive /\ sax'.rootcalled
          <5>1. LET t == EndTag(sax, p, "unit", 1).sax IN
                /\ t.onStart = IF UnitEnds(sax, "unit", 1) THEN "unit" ELSE sax.onStart
                /\ t.isArchive = sax.isArchive
                /\ t.rootcalled = (sax.rootcalled \/ RootEnds("unit", 1))
            BY <1>2, EndTagIs
          <5> QED BY <1>3, <4>3, <4>4, <5>1, Zenon
        <4>7. /\ CallsOf(calls', u, p) /\ ClosingCalls(calls')
              /\ ~ HasCall(calls', "startUnit") /\ ~ HasCall(calls', "endUnit")
          BY <4>5, EndRootCalls
        <4> QED BY <4>6, <4>7
      <3> QED BY <1>1, <1>7, <3>1, <3>2 DEF Opens
    <2>4. OutUnit(u)'
      <3>1. depth' < DepthOf(doc', u)
        BY <1>1, <1>4, <1>7
      <3> QED BY <2>3, <3>1, Zenon DEF OutUnit, Has
    <2>5. SaxUnits'
      <3>1. sax'.isArchive = Archive(doc) /\ sax'.rootcalled
        BY <1>5, <2>3
      <3>2. pos' \in Parsed(doc) /\ pos' \in Nat \ {0} /\ Cur(doc, u, pos')
            /\ CallsOf(calls', u, pos')
        BY <1>1, <1>2, <1>4, <1>7, <2>3
      <3> QED BY <1>1, <2>4, <3>1, <3>2, UnitAfter
    <2>6. Finds
      <3>1. Cur(doc, u, pos') /\ pos' \in Nat /\ sax'.rootcalled
        BY <1>1, <1>2, <1>4, <1>7, <2>3
      <3> QED BY <1>1, <2>3, <3>1, NoNewUnit
    <2> QED BY <2>5, <2>6
  <1> QED BY <1>6, <1>7

\* the next token after one of a unit
LEMMA TokenInside ==
    ASSUME TypeOK, SaxInv, CallsInv, SaxUnits, SrcML(doc), NextToken,
           pos > 0, sax.rootcalled, NEW u, Cur(doc, u, pos), InUnit(u)
    PROVE  /\ SaxUnits' /\ Finds
           /\ InUnit(u)' \/ HasCall(calls', "endUnit")
           /\ sax'.collect = sax.collect /\ ~ HasCall(calls', "startUnit")
  <1>1. pos \in Nat /\ depth \in Int /\ Len(doc) \in Nat
    BY DocFacts
  <1>2. depth >= DepthOf(doc, u) /\ DepthOf(doc, u) \in Int
    <2>1. DepthOf(doc, u) \in Int /\ pos \in u..pos
      BY <1>1, UnitDepth DEF Cur
    <2>2. OpenAfter(doc, pos) = depth
      BY DepthIs
    <2> QED BY <2>1, <2>2 DEF Inside, InUnit
  <1>3. CASE doc[pos + 1].tag # "end" \/ depth > DepthOf(doc, u)
    BY <1>3, TokenInUnit
  <1>4. CASE doc[pos + 1].tag = "end" /\ depth = DepthOf(doc, u)
    BY <1>4, TokenEndsUnit
  <1> QED BY <1>1, <1>2, <1>3, <1>4

\* whatever the next token is
LEMMA TokenUnits ==
    ASSUME TypeOK, SaxInv, CallsInv, SaxUnits, SrcML(doc), NextToken
    PROVE  SaxUnits' /\ Finds
  <1>1. pos \in Nat /\ depth \in Int /\ Len(doc) \in Nat
    BY DocFacts
  <1>2. CASE pos = 0
    BY <1>2, TokenRoot
  <1>3. CASE pos > 0 /\ ~ sax.rootcalled
    BY <1>3, TokenUnannounced
  <1>4. CASE pos > 0 /\ sax.rootcalled
    <2>1. PICK u \in UnitStarts(doc) : Cur(doc, u, pos) /\ (InUnit(u) \/ OutUnit(u))
      BY <1>4 DEF SaxUnits
    <2>2. CASE OutUnit(u)
      BY <1>4, <2>1, <2>2, TokenBetween
    <2>3. CASE InUnit(u)
      BY <1>4, <2>1, <2>3, TokenInside
    <2> QED BY <2>1, <2>2, <2>3
  <1> QED BY <1>1, <1>2, <1>3, <1>4

-----------------------------------------------------------------------------
(* The calls keep SaxUnits *)

\* a call that returns: its rest is as the call was
LEMMA CallReturns ==
    ASSUME TypeOK, SaxInv, SaxUnits, UNCHANGED <<doc, pos, depth>>,
           calls # << >>, calls' = Tail(calls), Head(calls)[1] \notin {"callbacks", "element"},
           sax' \in SaxState,
           \A f \in {"onStart", "onText", "isArchive", "rootcalled", "text", "base"} :
              sax'[f] = sax[f],
           sax'.collect = sax.collect \/ Head(calls)[1] = "startUnit",
           ppc = "end" => ~ HasCall(calls', "endUnit")
    PROVE  SaxUnits'
  <1>1. /\ sax'.onStart = sax.onStart /\ sax'.onText = sax.onText /\ sax'.isArchive = sax.isArchive
        /\ sax'.rootcalled = sax.rootcalled /\ sax'.text = sax.text /\ sax'.base = sax.base
    OBVIOUS
  <1>2. calls \in Seq(Calls \X (1..pos)) /\ pos \in Nat /\ Len(calls) \in Nat \ {0}
    BY DocFacts
  <1>3. sax.rootcalled
    BY DEF SaxInv
  <1>4. pos > 0
    BY <1>2, <1>3 DEF SaxUnits, SaxInit
  <1>5. PICK u \in UnitStarts(doc) : /\ Cur(doc, u, pos) /\ CallsOf(calls, u, pos)
                                     /\ InUnit(u) \/ OutUnit(u)
    BY <1>3 DEF SaxUnits
  <1>6. /\ CallsOf(calls', u, pos)
        /\ OpeningCalls(calls) => OpeningCalls(calls')
        /\ \A c : HasCall(calls', c) => HasCall(calls, c)
        /\ \A c : HasCall(calls, c) /\ Head(calls)[1] # c => HasCall(calls', c)
    BY <1>2, <1>5, TailCalls
  <1>7. Head(calls)[1] = "startUnit" => HasCall(calls, "startUnit")
    <2>1. Head(calls) = calls[1] /\ 1 \in 1..Len(calls)
      BY <1>2
    <2> QED BY <2>1 DEF HasCall
  <1>8. sax'.collect \/ HasCall(calls', "startUnit") => sax.collect \/ HasCall(calls, "startUnit")
    BY <1>6, <1>7
  <1>9. HasCall(calls', "callbacks") <=> HasCall(calls, "callbacks")
    BY <1>6
  <1>10. InUnit(u) => InUnit(u)'
    <2> SUFFICES ASSUME InUnit(u) PROVE InUnit(u)'
      OBVIOUS
    <2>1. Inside(doc, u, pos)' /\ OpeningCalls(calls)'
      BY <1>6 DEF InUnit
    <2>2. Gathered(u)' = Gathered(u) /\ Collecting' = Collecting
      BY <1>1 DEF Gathered, Collecting
    <2>3. (sax.collect \/ Has("startUnit"))' => Gathered(u)'
      BY <1>8, <2>2 DEF InUnit, Has
    <2>4. CASE /\ sax.onStart \in {"element", "none"} /\ ~ Has("callbacks")
               /\ sax.collect \/ Has("startUnit") => Collecting
      BY <1>1, <1>8, <1>9, <2>1, <2>2, <2>3, <2>4 DEF InUnit, Has
    <2>5. CASE Has("callbacks") /\ sax.onStart \in {"first", "unit"}
      BY <1>1, <1>9, <2>1, <2>3, <2>5 DEF InUnit, Has
    <2>6. CASE /\ pos = 1 /\ u = 1 /\ doc[1].tag = "empty" /\ ~ Has("callbacks")
               /\ sax.onStart = "first" /\ sax.onText = "unit"
      BY <1>1, <1>9, <2>1, <2>3, <2>6 DEF InUnit, Has
    <2> QED BY <2>4, <2>5, <2>6 DEF InUnit
  <1>11. OutUnit(u) => OutUnit(u)'
    <2> SUFFICES ASSUME OutUnit(u) PROVE OutUnit(u)'
      OBVIOUS
    <2>1. ClosingCalls(calls')
      BY <1>2, TailClosing DEF OutUnit
    <2>2. (depth < DepthOf(doc, u) /\ sax.onStart = "unit")'
      BY <1>1 DEF OutUnit
    <2>3. ASSUME HasCall(calls', "endUnit")
          PROVE  /\ Closes(doc, u, pos)
                 /\ sax'.collect \/ HasCall(calls', "startUnit") => sax'.text = u..pos
      <3>1. HasCall(calls, "endUnit") /\ ppc # "end"
        BY <1>6, <2>3
      <3> QED BY <1>1, <1>8, <3>1 DEF OutUnit, Has
    <2> QED BY <2>1, <2>2, <2>3 DEF OutUnit, Has
  <1>12. sax'.isArchive = Archive(doc) /\ Opens(doc[1]) /\ pos \in Parsed(doc)
    BY <1>1, <1>3, <1>4 DEF SaxUnits
  <1>13. pos' \in Nat \ {0} /\ Cur(doc, u, pos') /\ CallsOf(calls', u, pos') /\ pos' \in Parsed(doc)
    BY <1>2, <1>4, <1>5, <1>6, <1>12
  <1> QED BY <1>1, <1>3, <1>5, <1>10, <1>11, <1>12, <1>13, UnitAfter

\* a call that has not returned yet
LEMMA CallStays ==
    ASSUME TypeOK, SaxInv, SaxUnits, UNCHANGED <<doc, pos, depth, calls>>,
           sax' \in SaxState,
           \A f \in {"onStart", "onText", "isArchive", "rootcalled", "text", "base"} :
              sax'[f] = sax[f],
           sax'.collect = sax.collect \/ At("startUnit"),
           ppc = "end" => ppc' = "end" \/ calls = << >>
    PROVE  SaxUnits'
  <1>1. /\ sax'.onStart = sax.onStart /\ sax'.onText = sax.onText /\ sax'.isArchive = sax.isArchive
        /\ sax'.rootcalled = sax.rootcalled /\ sax'.text = sax.text /\ sax'.base = sax.base
    OBVIOUS
  <1>2. calls \in Seq(Calls \X (1..pos)) /\ pos \in Nat /\ sax \in SaxState
    BY DocFacts
  <1>3. At("startUnit") => HasCall(calls, "startUnit") /\ sax.rootcalled
    <2>1. calls # << >> => Head(calls) = calls[1] /\ 1 \in 1..Len(calls)
      BY <1>2
    <2> QED BY <2>1 DEF HasCall, At, SaxInv
  <1>4. CASE ~ sax.rootcalled
    <2>1. sax'.collect = sax.collect
      BY <1>3, <1>4
    <2>2. sax' = sax
      <3> HIDE <1>2
      <3>1. sax \in SaxState
        BY <1>2
      <3> QED BY <1>1, <2>1, <3>1 DEF SaxState
    <2> QED BY <1>4, <2>2 DEF SaxUnits, Gathered
  <1>5. CASE sax.rootcalled
    <2>1. pos > 0
      BY <1>2, <1>5 DEF SaxUnits, SaxInit
    <2>2. PICK u \in UnitStarts(doc) : /\ Cur(doc, u, pos) /\ CallsOf(calls, u, pos)
                                       /\ InUnit(u) \/ OutUnit(u)
      BY <1>5 DEF SaxUnits
    <2>3. sax'.collect \/ HasCall(calls, "startUnit") => sax.collect \/ HasCall(calls, "startUnit")
      BY <1>3
    <2>4. InUnit(u) => InUnit(u)'
      BY <1>1, <2>3 DEF InUnit, Has, Gathered, Collecting
    <2>5. OutUnit(u) => OutUnit(u)'
      <3> SUFFICES ASSUME OutUnit(u) PROVE OutUnit(u)'
        OBVIOUS
      <3>1. HasCall(calls, "endUnit") => calls # << >>
        BY DEF HasCall
      <3>2. ASSUME HasCall(calls, "endUnit"), sax'.collect \/ HasCall(calls, "startUnit"), ppc' # "end"
            PROVE  sax.text = u..pos
        BY <2>3, <3>1, <3>2 DEF OutUnit, Has
      <3> QED BY <1>1, <3>2 DEF OutUnit, Has
    <2>6. sax'.isArchive = Archive(doc) /\ Opens(doc[1]) /\ pos \in Parsed(doc)
      BY <1>1, <1>5, <2>1 DEF SaxUnits
    <2>7. pos' \in Nat \ {0} /\ Cur(doc, u, pos') /\ CallsOf(calls', u, pos') /\ pos' \in Parsed(doc)
      BY <1>2, <2>1, <2>2, <2>6
    <2> QED BY <1>1, <1>5, <2>2, <2>4, <2>5, <2>6, <2>7, UnitAfter
  <1> QED BY <1>4, <1>5

\* the call the parser is at
LEMMA AtHead ==
    ASSUME TypeOK, NEW c, At(c)
    PROVE  /\ calls \in Seq(Calls \X (1..pos)) /\ Len(calls) \in Nat \ {0}
           /\ 1 \in 1..Len(calls) /\ Head(calls) = calls[1] /\ calls[1][1] = c
           /\ HasCall(calls, c)
  <1>1. calls \in Seq(Calls \X (1..pos)) /\ calls # << >> /\ Head(calls)[1] = c
    BY DocFacts DEF At
  <1>2. Len(calls) \in Nat \ {0} /\ 1 \in 1..Len(calls) /\ Head(calls) = calls[1]
    BY <1>1
  <1> QED BY <1>1, <1>2 DEF HasCall

\* the last calls for a unit, callbacks and element
LEMMA AfterCallUnits ==
    ASSUME TypeOK, SaxInv, SaxUnits, AfterCall
    PROVE  SaxUnits'
  <1>1. /\ UNCHANGED <<doc, pos, depth>> /\ calls # << >> /\ calls' = Tail(calls)
        /\ Head(calls)[1] \in {"callbacks", "element"}
    BY DEF AfterCall, At, Return
  <1>2. /\ calls \in Seq(Calls \X (1..pos)) /\ pos \in Nat /\ Len(calls) \in Nat \ {0}
        /\ sax \in SaxState /\ sax.base \in Nat /\ sax.base <= pos /\ sax.collect \in BOOLEAN
    BY <1>1, DocFacts
  <1>3. sax.rootcalled /\ pos > 0
    BY <1>1, <1>2 DEF SaxInv, SaxUnits, SaxInit
  <1>4. PICK u \in UnitStarts(doc) : /\ Cur(doc, u, pos) /\ CallsOf(calls, u, pos)
                                     /\ InUnit(u) \/ OutUnit(u)
    BY <1>3 DEF SaxUnits
  <1>5. Head(calls) = calls[1] /\ 1 \in 1..Len(calls)
    BY <1>2
  <1>6. InUnit(u)
    <2>1. ~ ClosingCalls(calls)
      BY <1>1, <1>5 DEF ClosingCalls
    <2> QED BY <1>4, <2>1 DEF OutUnit
  <1>7. Len(calls) = 1
    BY <1>1, <1>5, <1>6 DEF InUnit, OpeningCalls
  <1>8. calls' = << >>
    <2>1. Tail(calls) \in Seq(Calls \X (1..pos)) /\ Len(Tail(calls)) = Len(calls) - 1
      BY <1>1, <1>2
    <2> HIDE <1>2
    <2>2. Len(Tail(calls)) = 0
      BY <1>7, <2>1
    <2> QED BY <1>1, <2>1, <2>2, EmptySeq, Zenon
  <1>9. CallsOf(calls', u, pos) /\ OpeningCalls(calls') /\ (\A c : ~ HasCall(calls', c))
    BY <1>8, NoUnitCalls
  <1>10. HasCall(calls, Head(calls)[1])
    BY <1>5 DEF HasCall
  <1>11. u \in Nat
    BY <1>2, <1>4, DocFacts, UnitDepth
  <1>12. InUnit(u)' /\ sax'.rootcalled = sax.rootcalled /\ sax'.isArchive = sax.isArchive
    <2>1. Inside(doc, u, pos)' /\ (sax.collect => Gathered(u))
      BY <1>1, <1>6 DEF InUnit
    <2>2. CASE At("callbacks")
      <3>1. sax' = Callbacks(sax)
        BY <2>2 DEF AfterCall, At
      <3>2. /\ sax'.text = sax.text /\ sax'.base = sax.base /\ sax'.collect = sax.collect
            /\ sax'.onStart \in {"element", "none"}
            /\ sax.collect => sax'.onStart = "element" /\ sax'.onText = "unit"
            /\ sax'.rootcalled = sax.rootcalled /\ sax'.isArchive = sax.isArchive
        BY <1>2, <3>1 DEF Callbacks, SaxState
      <3>3. (sax'.collect \/ Has("startUnit")') => Gathered(u)' /\ Collecting'
        BY <1>9, <2>1, <3>2 DEF Gathered, Collecting, Has
      <3> QED BY <1>9, <2>1, <3>2, <3>3 DEF InUnit, Has
    <2>3. CASE At("element")
      <3>1. sax' = Collect(sax, pos)
        <4>1. Here = pos
          BY <1>4, <1>5, <2>3 DEF CallsOf, Here, At
        <4> QED BY <2>3, <4>1 DEF AfterCall, At
      <3>2. /\ sax'.onStart = sax.onStart /\ sax'.onText = sax.onText
            /\ sax'.isArchive = sax.isArchive /\ sax'.rootcalled = sax.rootcalled
            /\ sax'.collect = sax.collect /\ sax'.base = pos
            /\ sax.collect /\ u <= sax.base /\ sax.text = u..sax.base => sax'.text = u..pos
        <4> DEFINE t == Collect(sax, pos)
        <4>1. /\ t.onStart = sax.onStart /\ t.onText = sax.onText
              /\ t.isArchive = sax.isArchive /\ t.rootcalled = sax.rootcalled
              /\ t.collect = sax.collect /\ t.base = pos
              /\ sax.collect /\ sax.base <= pos =>
                   \A v \in Nat : v <= sax.base /\ sax.text = v..sax.base => t.text = v..pos
          BY <1>2, CollectIs, Zenon
        <4> HIDE DEF t
        <4>2. sax' = t
          BY <3>1 DEF t
        <4> QED BY <1>2, <1>11, <4>1, <4>2
      <3>3. sax'.collect => Gathered(u)'
        BY <1>2, <1>11, <2>1, <3>2 DEF Gathered
      <3>4. ~ HasCall(calls, "callbacks")
        <4>1. \A i \in 1..Len(calls) : i = 1
          BY <1>7
        <4> QED BY <1>5, <2>3, <4>1 DEF HasCall, At
      <3>5. ~ (pos = 1 /\ doc[1].tag = "empty") \/ sax.onStart # "first" \/ sax'.onStart = "first"
        BY <3>2
      <3>6. sax.collect => Collecting \/ sax.onStart = "first"
        BY <1>6, <3>4 DEF InUnit, Has
      <3> QED BY <1>1, <1>6, <1>9, <2>1, <3>2, <3>3, <3>4 DEF InUnit, Has, Collecting
    <2> QED BY <2>2, <2>3 DEF AfterCall
  <1>13. pos' \in Nat \ {0} /\ Cur(doc, u, pos') /\ CallsOf(calls', u, pos') /\ pos' \in Parsed(doc)
         /\ sax'.rootcalled /\ sax'.isArchive = Archive(doc) /\ Opens(doc[1])
    BY <1>1, <1>2, <1>3, <1>4, <1>9, <1>12 DEF SaxUnits
  <1> QED BY <1>1, <1>12, <1>13, UnitAfter

\* when a unit has ended
LEMMA PauseAtEndUnits ==
    ASSUME TypeOK, SaxInv, SaxUnits, PauseAtEnd
    PROVE  SaxUnits'
  <1>1. /\ UNCHANGED <<doc, pos, depth, calls>> /\ At("endUnit")
        /\ sax' = [sax EXCEPT !.text = {}] /\ ppc' = "end"
    BY DEF PauseAtEnd
  <1>2. sax \in SaxState /\ pos \in Nat
    BY DocFacts
  <1>3. /\ sax'.onStart = sax.onStart /\ sax'.isArchive = sax.isArchive
        /\ sax'.rootcalled = sax.rootcalled
    BY <1>1, <1>2 DEF SaxState
  <1>4. HasCall(calls, "endUnit")
    BY <1>1, AtHead
  <1>5. sax.rootcalled /\ pos > 0
    BY <1>1, <1>2 DEF SaxInv, SaxUnits, SaxInit, At
  <1>6. PICK u \in UnitStarts(doc) : /\ Cur(doc, u, pos) /\ CallsOf(calls, u, pos)
                                     /\ InUnit(u) \/ OutUnit(u)
    BY <1>5 DEF SaxUnits
  <1>7. OutUnit(u)
    BY <1>4, <1>6 DEF InUnit, OpeningCalls, HasCall
  <1>8. OutUnit(u)'
    BY <1>1, <1>3, <1>4, <1>7 DEF OutUnit, Has
  <1>9. pos' \in Nat \ {0} /\ Cur(doc, u, pos') /\ CallsOf(calls', u, pos') /\ pos' \in Parsed(doc)
         /\ sax'.rootcalled /\ sax'.isArchive = Archive(doc) /\ Opens(doc[1])
    BY <1>1, <1>2, <1>3, <1>5, <1>6 DEF SaxUnits
  <1> QED BY <1>1, <1>8, <1>9, UnitAfter

\* no other unit ends in the call that ended one
LEMMA EndsOnce ==
    ASSUME TypeOK, SaxInv, CallsInv, SaxUnits, At("endUnit"), ~ waitRoot
    PROVE  ~ HasCall(Tail(calls), "endUnit")
  <1>1. /\ calls \in Seq(Calls \X (1..pos)) /\ Len(calls) \in Nat \ {0} /\ calls # << >>
        /\ 1 \in 1..Len(calls) /\ calls[1][1] = "endUnit" /\ HasCall(calls, "endUnit")
    BY AtHead DEF At
  <1>2. sax.rootcalled
    BY <1>1 DEF SaxInv
  <1>3. PICK u \in UnitStarts(doc) : InUnit(u) \/ OutUnit(u)
    BY <1>2 DEF SaxUnits
  <1>4. ClosingCalls(calls)
    <2>1. ~ InUnit(u)
      BY <1>1 DEF InUnit, OpeningCalls
    <2> QED BY <1>3, <2>1 DEF OutUnit
  <1> SUFFICES ASSUME NEW i \in 1..Len(Tail(calls)), Tail(calls)[i][1] = "endUnit"
               PROVE  FALSE
    BY DEF HasCall
  <1>5. i + 1 \in (1 + 1)..Len(calls) /\ calls[i + 1][1] = "endUnit"
    <2>1. /\ Len(Tail(calls)) = Len(calls) - 1
          /\ \A j \in 1..(Len(calls) - 1) : Tail(calls)[j] = calls[j + 1]
      BY <1>1, RestOfList
    <2> QED BY <1>1, <2>1
  <1>6. PICK k \in (1 + 1)..((i + 1) - 1) : calls[k][1] = "startUnit"
    BY <1>1, <1>4, <1>5 DEF ClosingCalls
  <1>7. k \in 1..Len(calls) /\ 1 \in 1..(k - 1)
    <2> DEFINE n == Len(calls)
    <2>1. n \in Nat /\ i + 1 \in (1 + 1)..n /\ k \in (1 + 1)..((i + 1) - 1) /\ i \in Int
      BY <1>1, <1>5, <1>6
    <2> HIDE DEF n
    <2>2. k \in 1..n /\ 1 \in 1..(k - 1)
      BY <2>1
    <2> QED BY <2>2 DEF n
  <1>8. ListOK(calls, rootSeen, waitRoot, RootEnded)
    BY DEF CallsInv
  <1>9. calls[1][1] = "endUnit" => waitRoot
    BY <1>6, <1>7, <1>8 DEF ListOK
  <1> QED BY <1>1, <1>9

\* the steps of the parser
LEMMA ParserUnits ==
    ASSUME Inv, Told, SaxUnits, SrcML(doc), Parser
    PROVE  SaxUnits'
  <1> USE DEF flagVars, userVars
  <1>1. TypeOK /\ RootInv /\ SaxInv /\ CallsInv /\ AtInv /\ TypeOK'
    BY ParserType DEF Inv, Told
  <1>2. sax \in SaxState /\ sax' \in SaxState
    BY <1>1 DEF TypeOK
  <1>3. CASE NextToken
    BY <1>1, <1>3, TokenUnits
  <1>4. CASE ParseEnds \/ ParseFails \/ DoneNotifies \/ PauseAtRoot \/ PauseAtHeader
    <2>1. /\ UNCHANGED <<doc, pos, depth, calls, sax>> /\ ppc # "end"
      BY <1>4 DEF ParseEnds, ParseFails, DoneNotifies, PauseAtRoot, PauseAtHeader
    <2> QED BY <1>1, <1>2, <2>1, CallStays
  <1>5. CASE StartRoot \/ PassEnd \/ EndRoot
    <2>1. /\ UNCHANGED <<doc, pos, depth, sax>> /\ ppc = "parse" /\ calls # << >>
          /\ calls' = Tail(calls) /\ Head(calls)[1] \notin {"callbacks", "element"}
      BY <1>5 DEF StartRoot, PassEnd, EndRoot, At, Return
    <2> QED BY <1>1, <1>2, <2>1, CallReturns
  <1>6. CASE LeaveRoot
    <2>1. /\ UNCHANGED <<doc, pos, depth, sax>> /\ ppc = "root" /\ calls # << >>
          /\ Head(calls)[1] = "startUnit" /\ calls' \in {calls, Tail(calls)}
      BY <1>1, <1>6 DEF LeaveRoot, Return, AtInv, At
    <2>2. CASE calls' = calls
      BY <1>1, <1>2, <2>1, <2>2, CallStays
    <2>3. CASE calls' = Tail(calls)
      BY <1>1, <1>2, <2>1, <2>3, CallReturns
    <2> QED BY <2>1, <2>2, <2>3
  <1>7. CASE Attributes
    <2>1. /\ UNCHANGED <<doc, pos, depth, calls>> /\ ppc = "parse" /\ At("startUnit")
          /\ sax' = [sax EXCEPT !.collect = collectBody]
      BY <1>7 DEF Attributes
    <2>2. \A f \in {"onStart", "onText", "isArchive", "rootcalled", "text", "base"} :
              sax'[f] = sax[f]
      BY <1>2, <2>1 DEF SaxState
    <2> QED BY <1>1, <1>2, <2>1, <2>2, CallStays
  <1>8. CASE LeaveHeader
    <2>1. /\ UNCHANGED <<doc, pos, depth>> /\ ppc \in {"unit", "header"} /\ calls # << >>
          /\ Head(calls)[1] = "startUnit" /\ calls' = Tail(calls)
          /\ sax' = [sax EXCEPT !.collect = collectBody]
      BY <1>1, <1>8 DEF LeaveHeader, Return, AtInv, At
    <2>2. \A f \in {"onStart", "onText", "isArchive", "rootcalled", "text", "base"} :
              sax'[f] = sax[f]
      BY <1>2, <2>1 DEF SaxState
    <2> QED BY <1>1, <1>2, <2>1, <2>2, CallReturns
  <1>9. CASE AfterCall
    BY <1>1, <1>9, AfterCallUnits
  <1>10. CASE PauseAtEnd
    BY <1>1, <1>10, PauseAtEndUnits
  <1>11. CASE LeaveEnd
    <2>1. /\ UNCHANGED <<doc, pos, depth, sax>> /\ ppc = "end" /\ At("endUnit") /\ calls # << >>
          /\ calls' = Tail(calls) /\ Head(calls)[1] \notin {"callbacks", "element"}
      BY <1>1, <1>11 DEF LeaveEnd, Return, AtInv, At
    <2>2. ~ waitRoot
      BY <1>1, <2>1 DEF RootInv
    <2>3. ~ HasCall(calls', "endUnit")
      BY <1>1, <2>1, <2>2, EndsOnce
    <2> QED BY <1>1, <1>2, <2>1, <2>3, CallReturns
  <1> QED
    BY <1>3, <1>4, <1>5, <1>6, <1>7, <1>8, <1>9, <1>10, <1>11
    DEF Parser, StartUnit, EndUnit

\* nothing has been found at first
LEMMA InitUnits == Init => SaxUnits
  BY DEF Init, SaxUnits, SaxInit

\* what is known is of the document, the position and the call
LEMMA UnitsKept ==
    ASSUME SaxUnits, UNCHANGED <<doc, pos, depth, sax, calls, ppc>>
    PROVE  SaxUnits'
  BY DEF SaxUnits, InUnit, OutUnit, Gathered, Collecting, Has

-----------------------------------------------------------------------------
(* What the user gets *)

\* a step before the reader is freed
LEMMA LiveFacts ==
    ASSUME Inv, Placed, Live
    PROVE  /\ TypeOK /\ WaitInv /\ RootInv /\ HandInv /\ CallInv /\ PlaceInv
           /\ terminate = FALSE /\ stopped = FALSE
           /\ call \in {"open", "idle", "header", "body"}
           /\ isDone \in BOOLEAN
  BY DEF Inv, Placed, Live, CallInv, TypeOK

\* what a step of the parser leaves alone
LEMMA LiveStep ==
    ASSUME Inv, Placed, Live, Parser
    PROVE  /\ Live' /\ UNCHANGED <<doc, terminate, collectHeader, collectBody, op, notDone,
                                   readBody, call, at, taken, result>>
           /\ "parser" \notin waiting
           /\ call = "idle" \/ at \in {"begin", "left"} => isDone
  <1>1. TypeOK /\ WaitInv /\ RootInv /\ HandInv
    BY DEF Inv
  <1>2. UNCHANGED <<doc, terminate, collectHeader, collectBody, op, notDone,
                    readBody, call, at, taken, result>>
    BY <1>1, ParserFrame
  <1>3. "parser" \notin waiting
    BY <1>1, ParserMoves
  <1> QED BY <1>1, <1>2, <1>3 DEF Live, HandInv, HandOff, UserRuns

\* the unit whose start is announced
LEMMA Announces ==
    ASSUME TypeOK, SaxInv, SaxUnits, At("startUnit")
    PROVE  /\ sax.rootcalled /\ ~ HasCall(Tail(calls), "startUnit")
           /\ Cur(doc, Here, pos) /\ Here \in UnitStarts(doc)
           /\ HasCall(calls, "startUnit")
  <1>1. /\ calls \in Seq(Calls \X (1..pos)) /\ Len(calls) \in Nat \ {0} /\ calls # << >>
        /\ 1 \in 1..Len(calls) /\ Head(calls) = calls[1] /\ calls[1][1] = "startUnit"
        /\ HasCall(calls, "startUnit") /\ Head(calls)[1] = "startUnit"
    BY AtHead DEF At
  <1>2. sax.rootcalled
    BY <1>1 DEF SaxInv
  <1>3. PICK u \in UnitStarts(doc) : Cur(doc, u, pos) /\ CallsOf(calls, u, pos)
    BY <1>2 DEF SaxUnits
  <1>4. Here = u
    BY <1>1, <1>3 DEF CallsOf, Here
  <1>5. ~ HasCall(Tail(calls), "startUnit")
    <2>1. "startUnit" \in Once
      BY DEF Once
    <2> QED BY <1>1, <1>3, <2>1, TailCalls
  <1> QED BY <1>1, <1>2, <1>3, <1>4, <1>5

\* no token, no unit
LEMMA KnownSame ==
    ASSUME UNCHANGED <<doc, pos>>, sax'.rootcalled = sax.rootcalled
    PROVE  Known' = Known
  BY DEF Known

\* a unit is entered when its attributes are taken
LEMMA EnteredStep ==
    ASSUME Inv, Told, Placed, SaxUnits, SrcML(doc), Live, Parser, ~ isDone'
    PROVE  Entered' = Entered + (IF Attributes THEN 1 ELSE 0)
  <1> USE DEF flagVars, userVars
  <1>1. /\ TypeOK /\ SaxInv /\ CallsInv /\ AtInv /\ WaitInv /\ RootInv
        /\ terminate = FALSE /\ ~ isDone
    BY LiveFacts, ParserFrame DEF Told
  <1>2. Known \in Nat
    BY <1>1, KnownType
  <1>3. sax \in SaxState /\ calls \in Seq(Calls \X (1..pos))
    BY <1>1, DocFacts
  <1>4. ASSUME Known' = Known, Pending' <=> Pending, ~ Attributes
        PROVE  Entered' = Entered + (IF Attributes THEN 1 ELSE 0)
    BY <1>2, <1>4 DEF Entered
  <1>5. CASE NextToken
    <2>1. /\ calls = << >> /\ ppc' = "parse" /\ ~ Attributes
      BY <1>5 DEF NextToken, Attributes, At
    <2>2. ~ Pending /\ (Pending' <=> HasCall(calls', "startUnit"))
      BY <2>1, NoUnitCalls DEF Pending, Has
    <2>3. Known' = Known + (IF HasCall(calls', "startUnit") THEN 1 ELSE 0)
      BY <1>1, <1>5, TokenUnits DEF Finds
    <2>4. Entered' = Known' - (IF HasCall(calls', "startUnit") THEN 1 ELSE 0)
      BY <2>2, Zenon DEF Entered
    <2>5. Entered = Known
      BY <1>2, <2>2 DEF Entered
    <2> QED BY <1>2, <2>1, <2>3, <2>4, <2>5
  <1>6. CASE ParseEnds \/ PauseAtRoot \/ PauseAtEnd
    <2>1. /\ UNCHANGED <<doc, pos, calls>> /\ ppc = "parse" /\ ppc' \in {"ended", "root", "end"}
          /\ ~ Attributes /\ sax'.rootcalled = sax.rootcalled
      BY <1>3, <1>6 DEF ParseEnds, PauseAtRoot, PauseAtEnd, Attributes, SaxState
    <2>2. Pending' = Pending
      BY <2>1 DEF Pending, Has
    <2> QED BY <1>4, <2>1, <2>2, KnownSame
  <1>7. CASE LeaveRoot
    <2>1. UNCHANGED <<doc, pos, calls, sax>> /\ ppc = "root" /\ ppc' = "parse"
          /\ ~ Attributes
      BY <1>1, <1>7 DEF LeaveRoot, Attributes
    <2>2. Pending' = Pending
      BY <2>1 DEF Pending, Has
    <2> QED BY <1>4, <2>1, <2>2, KnownSame
  <1>8. CASE PauseAtHeader
    <2>1. UNCHANGED <<doc, pos, calls, sax>> /\ ppc = "unit" /\ ppc' = "header"
          /\ ~ Attributes
      BY <1>1, <1>8 DEF PauseAtHeader, Attributes
    <2>2. Pending' = Pending
      BY <2>1 DEF Pending, Has
    <2> QED BY <1>4, <2>1, <2>2, KnownSame
  <1>9. CASE StartRoot \/ AfterCall \/ PassEnd \/ LeaveEnd
    <2>1. /\ UNCHANGED <<doc, pos>> /\ ppc \in {"parse", "end"} /\ ppc' = "parse"
          /\ calls # << >> /\ calls' = Tail(calls) /\ Head(calls)[1] # "startUnit"
      BY <1>1, <1>9 DEF StartRoot, AfterCall, PassEnd, LeaveEnd, At, Return, AtInv
    <2>2. ~ Attributes
      BY <2>1 DEF Attributes, At
    <2>3. sax'.rootcalled = sax.rootcalled
      BY <1>3, <1>9 DEF StartRoot, AfterCall, PassEnd, LeaveEnd, Callbacks, Collect, SaxState
    <2>4. HasCall(Tail(calls), "startUnit") <=> HasCall(calls, "startUnit")
      BY <1>3, <2>1, TailCalls
    <2>5. Pending' = Pending
      BY <2>1, <2>4 DEF Pending, Has
    <2> QED BY <1>4, <2>1, <2>2, <2>3, <2>5, KnownSame
  <1>10. CASE LeaveHeader
    <2>1. /\ UNCHANGED <<doc, pos>> /\ ppc \in {"unit", "header"} /\ ppc' = "parse"
          /\ calls' = Tail(calls) /\ At("startUnit") /\ ~ Attributes
      BY <1>1, <1>10 DEF LeaveHeader, Return, AtInv, Attributes
    <2>2. sax'.rootcalled = sax.rootcalled
      BY <1>3, <1>10 DEF LeaveHeader, SaxState
    <2>3. ~ HasCall(Tail(calls), "startUnit")
      BY <1>1, <2>1, Announces
    <2>4. ~ Pending /\ ~ Pending'
      BY <2>1, <2>3 DEF Pending, Has
    <2> QED BY <1>4, <2>1, <2>2, <2>4, KnownSame
  <1>11. CASE Attributes
    <2>1. UNCHANGED <<doc, pos, calls>> /\ ppc = "parse" /\ At("startUnit") /\ ppc' = "unit"
      BY <1>11 DEF Attributes
    <2>2. sax'.rootcalled = sax.rootcalled
      BY <1>3, <1>11 DEF Attributes, SaxState
    <2>3. Pending /\ ~ Pending'
      BY <1>1, <2>1, Announces DEF Pending, Has
    <2>4. Known' = Known
      BY <2>1, <2>2, KnownSame
    <2> QED BY <1>2, <1>11, <2>3, <2>4 DEF Entered
  <1>12. ~ ParseFails /\ ~ DoneNotifies /\ ~ EndRoot
    BY <1>1 DEF ParseFails, DoneNotifies, EndRoot, RootInv
  <1> QED
    BY <1>5, <1>6, <1>7, <1>8, <1>9, <1>10, <1>11, <1>12 DEF Parser, StartUnit, EndUnit

\* where the document breaks off, or its root ends, every unit was entered
LEMMA AllEntered ==
    ASSUME Inv, Told, Placed, SaxUnits, SrcML(doc), Live, ~ isDone, ParseFails \/ EndRoot
    PROVE  /\ Entered = Total
           /\ \A e \in Ends(doc) : e <= pos
           /\ ~ Has("endUnit") /\ ~ Has("startUnit") /\ ~ (EndRoot /\ OpeningCalls(calls))
  <1>1. /\ TypeOK /\ SaxInv /\ CallsInv /\ AtInv
    BY LiveFacts DEF Told
  <1>2. /\ pos \in 0..Len(doc) /\ Len(doc) \in Nat /\ sax \in SaxState /\ depth = OpenAfter(doc, pos)
        /\ calls \in Seq(Calls \X (1..pos)) /\ pos \in Nat /\ doc \in Seq(Token)
    BY <1>1, DocFacts, DepthIs
  <1>3. \A p \in Parsed(doc) : Opens(doc[p]) \/ doc[p].tag = "end" => p <= pos
    <2>1. CASE ParseFails
      <3>1. /\ calls = << >> /\ pos < Len(doc) /\ ~ RootEnded /\ doc[pos + 1].tag = "error"
        BY <2>1 DEF ParseFails
      <3>2. pos + 1 \in Parsed(doc)
        <4>1. pos > 0 => pos \in Parsed(doc) /\ depth > 0
          BY <1>1, <1>2, <3>1 DEF RootEnded, SaxUnits, TypeOK
        <4>2. pos + 1 \in 1..Len(doc) /\ (pos + 1) - 1 = pos
          BY <1>2, <3>1
        <4>3. pos + 1 = 1 \/ (pos \in Parsed(doc) /\ OpenAfter(doc, pos) > 0)
          BY <1>2, <4>1
        <4> QED BY <1>2, <4>2, <4>3, ParsedNext
      <3>3. pos + 1 = Len(doc)
        BY <3>1, <3>2 DEF SrcML, WellFormed
      <3>4. \A p \in Parsed(doc) : p \in 1..Len(doc)
        BY DEF Parsed
      <3>5. \A p \in Parsed(doc) : Opens(doc[p]) \/ doc[p].tag = "end" => p # pos + 1
        BY <3>1 DEF Opens
      <3> QED BY <1>2, <3>3, <3>4, <3>5
    <2>2. CASE EndRoot
      <3>1. RootEnded
        BY <1>1, <2>2, EndRootLast DEF EndRoot
      <3> QED BY <1>1, <1>2, <3>1, NothingAfter DEF RootEnded, SaxUnits
    <2> QED BY <2>1, <2>2
  <1>4. \A u \in UnitStarts(doc) : u <= pos
    BY <1>3 DEF UnitStarts, Children, Starts
  <1>5. \A e \in Ends(doc) : e <= pos
    BY <1>3 DEF Ends
  <1>6. ~ Has("endUnit") /\ ~ Has("startUnit") /\ ~ (EndRoot /\ OpeningCalls(calls))
    <2>1. CASE ParseFails
      <3>1. calls = << >> /\ ~ EndRoot
        BY <2>1 DEF ParseFails, EndRoot, At
      <3> QED BY <3>1, NoUnitCalls DEF Has
    <2>2. CASE EndRoot
      <3>1. At("endRoot")
        BY <2>2 DEF EndRoot
      <3>2. Tail(calls) = << >> /\ Head(calls)[1] = "endRoot"
        BY <1>1, <3>1, EndRootLast DEF At
      <3>3. \A c : HasCall(calls, c) /\ Head(calls)[1] # c => HasCall(Tail(calls), c)
        BY <1>2, <3>1, TailCalls DEF At
      <3>4. \A c : ~ HasCall(<< >>, c)
        BY NoUnitCalls
      <3>5. ~ OpeningCalls(calls)
        <4>1. 1 \in 1..Len(calls) /\ calls[1][1] = "endRoot"
          BY <1>1, <3>1, AtHead
        <4> QED BY <4>1 DEF OpeningCalls
      <3> QED BY <3>2, <3>3, <3>4, <3>5 DEF Has
    <2> QED BY <2>1, <2>2
  <1>7. Entered = Known /\ Known \in Nat
    <2>1. Known \in Nat
      BY <1>1, KnownType
    <2> QED BY <1>6, <2>1 DEF Entered, Pending
  <1>8. CASE sax.rootcalled
    <2>1. Rank(doc, pos) = Cardinality(UnitStarts(doc))
      BY <1>2, <1>4, AllUnits
    <2> QED BY <1>5, <1>6, <1>7, <1>8, <2>1 DEF Known, Total
  <1>9. CASE ~ sax.rootcalled
    <2>1. UnitStarts(doc) = {}
      <3> SUFFICES ASSUME NEW u \in UnitStarts(doc) PROVE FALSE
        OBVIOUS
      <3>1. ParseFails
        BY <1>1, <1>9 DEF EndRoot, At, SaxInv
      <3>2. u \in Nat \ {0} /\ pos > 0 /\ ~ RootEnded
        BY <1>2, <1>4, <3>1, UnitDepth DEF ParseFails
      <3>3. Opens(doc[1]) /\ pos \in Parsed(doc) /\ depth > 0
        <4>1. Opens(doc[1]) /\ pos \in Parsed(doc)
          BY <3>2 DEF SaxUnits
        <4>2. depth \in Int
          BY <1>1, DocFacts
        <4> QED BY <3>2, <4>1, <4>2 DEF RootEnded
      <3>4. \A p \in Starts(doc) : p <= pos
        BY <1>3 DEF Starts
      <3>5. \A q \in 2..pos : Opens(doc[q]) => doc[q].name = "macro-list"
        BY <1>1, <1>9 DEF SaxInv
      <3>6. \E i \in Ends(doc) : DepthOf(doc, i) = 1
        BY <1>2, <3>3, <3>4, <3>5, OnlyRoot
      <3>7. PICK i \in Ends(doc) : DepthOf(doc, i) = 1
        BY <3>6
      <3>8. i \in 1..Len(doc) /\ doc[i].tag = "end" /\ ~ Opens(doc[i]) /\ i <= pos
        BY <1>5, <3>7 DEF Ends, Parsed, Opens
      <3>9. OpenAfter(doc, i - 1) = 1
        BY <3>7, <3>8 DEF DepthOf
      <3>10. OpenAfter(doc, i) = 0
        <4>1. i - 1 \in Nat /\ (i - 1) + 1 = i
          BY <1>2, <3>8
        <4>2. OpenAfter(doc, (i - 1) + 1) = OpenAfter(doc, i - 1)
                 + (IF Opens(doc[(i - 1) + 1]) THEN 1 ELSE 0)
                 - (IF doc[(i - 1) + 1].tag = "end" THEN 1 ELSE 0)
          BY <4>1, OpenNext
        <4> QED BY <3>8, <3>9, <4>1, <4>2
      <3>11. i = pos \/ OpenAfter(doc, i) > 0
        BY <1>2, <3>3, <3>8 DEF Parsed
      <3> QED BY <1>2, <3>3, <3>10, <3>11
    <2>2. Total = 0
      BY <2>1, FS_EmptySet DEF Total
    <2> QED BY <1>5, <1>6, <1>7, <1>9, <2>2 DEF Known
  <1> QED BY <1>8, <1>9

\* only one unit started last
LEMMA CurUnique ==
    ASSUME NEW d, Len(d) \in Nat, NEW p \in Nat, NEW u, NEW v, Cur(d, u, p), Cur(d, v, p)
    PROVE  u = v
  <1>1. u \in Nat /\ v \in Nat
    BY UnitDepth DEF Cur
  <1>2. u <= v /\ v <= u
    BY DEF Cur
  <1> QED BY <1>1, <1>2

\* the unit the parser is at
LEMMA UnitNow ==
    ASSUME TypeOK, SaxUnits, Given, Known = taken + 1
    PROVE  /\ sax.rootcalled /\ pos > 0
           /\ object.attrs \in UnitStarts(doc) /\ object.attrs \in Nat \ {0}
           /\ Cur(doc, object.attrs, pos)
           /\ InUnit(object.attrs) \/ OutUnit(object.attrs)
  <1>1. /\ Len(doc) \in Nat /\ pos \in Nat /\ doc \in Seq(Token)
    BY DocFacts
  <1>2. /\ object.attrs \in UnitStarts(doc) /\ Rank(doc, object.attrs) = Known
    BY DEF Given
  <1>3. Rank(doc, object.attrs) > 0
    <2>1. Rank(doc, object.attrs) \in 1..Cardinality(UnitStarts(doc))
      BY <1>1, <1>2, RankPositive
    <2>2. Cardinality(UnitStarts(doc)) \in Nat
      BY <1>1, UnitsFinite
    <2> QED BY <2>1, <2>2
  <1>4. sax.rootcalled /\ Known = Rank(doc, pos)
    BY <1>2, <1>3 DEF Known
  <1>5. PICK u \in UnitStarts(doc) : Cur(doc, u, pos) /\ (InUnit(u) \/ OutUnit(u))
    BY <1>4 DEF SaxUnits
  <1>6. Rank(doc, pos) = Rank(doc, u)
    BY <1>1, <1>5, RankOfUnit
  <1>7. u = object.attrs
    BY <1>1, <1>2, <1>4, <1>5, <1>6, RankInjective
  <1>8. u \in Nat \ {0} /\ u <= pos
    BY <1>1, <1>5, UnitDepth DEF Cur
  <1> QED BY <1>1, <1>2, <1>4, <1>5, <1>7, <1>8

\* the parser is still in the unit if no token is parsed
LEMMA UnitKept ==
    ASSUME TypeOK, SaxInv, SaxUnits', UNCHANGED <<doc, pos, depth>>, sax'.rootcalled,
           NEW u, Cur(doc, u, pos), InUnit(u)
    PROVE  InUnit(u)'
  <1>1. Len(doc) \in Nat /\ pos \in Nat
    BY DocFacts
  <1>2. PICK v \in UnitStarts(doc) : Cur(doc, v, pos) /\ (InUnit(v)' \/ OutUnit(v)')
    BY DEF SaxUnits
  <1>3. v = u
    BY <1>1, <1>2, CurUnique
  <1>4. depth >= DepthOf(doc, u) /\ DepthOf(doc, u) \in Int /\ depth \in Int
    <2>1. DepthOf(doc, u) \in Int /\ pos \in u..pos
      BY <1>1, UnitDepth DEF Cur
    <2>2. OpenAfter(doc, pos) = depth /\ depth \in Int
      BY DepthIs, DocFacts
    <2> QED BY <2>1, <2>2 DEF Inside, InUnit
  <1>5. ~ OutUnit(u)'
    BY <1>4 DEF OutUnit
  <1> QED BY <1>2, <1>3, <1>5

\* a reader at the end of its document has nothing to call
LEMMA LiveMoves ==
    ASSUME Inv, Told, Placed, Live, Parser
    PROVE  /\ isDone => ParseEnds \/ DoneNotifies
           /\ ~ isDone /\ isDone' => ParseFails \/ EndRoot
  <1>1. /\ TypeOK /\ AtInv /\ RootInv /\ PlaceInv /\ terminate = FALSE
    BY LiveFacts DEF Told
  <1>2. ASSUME isDone PROVE ParseEnds \/ DoneNotifies
    <2>1. /\ calls = << >> /\ ppc \in {"parse", "failed", "ended"}
          /\ ppc = "parse" => RootEnded
      BY <1>1, <1>2 DEF PlaceInv
    <2>2. ~ NextToken /\ ~ ParseFails
      BY <2>1 DEF NextToken, ParseFails
    <2>3. \A c : ~ At(c)
      BY <2>1 DEF At
    <2> QED
      BY <2>1, <2>2, <2>3 DEF Parser, StartUnit, EndUnit, StartRoot, PauseAtRoot, LeaveRoot,
        Attributes, PauseAtHeader, LeaveHeader, AfterCall, PauseAtEnd, LeaveEnd, PassEnd, EndRoot
  <1>3. ASSUME ~ isDone, isDone' PROVE ParseFails \/ EndRoot
    BY <1>1, <1>3 DEF Parser, StartUnit, EndUnit, NextToken, ParseEnds, DoneNotifies, StartRoot,
        PauseAtRoot, LeaveRoot, Attributes, PauseAtHeader, LeaveHeader, AfterCall, PauseAtEnd,
        LeaveEnd, PassEnd, StopIf
  <1> QED BY <1>2, <1>3

\* while the parser reads a unit for the user
LEMMA BodyMoves ==
    ASSUME Inv, Told, Placed, SaxUnits, SrcML(doc), Live, Parser, ~ isDone', ~ isDone,
           BodyInv, call = "body", at # "begin", NEW u, u = object.attrs
    PROVE  /\ op = "read" /\ notDone /\ Given /\ collectBody
           /\ Entered = taken + 1 /\ Known = taken + 1 /\ taken \in Int
           /\ ppc = "header" \/ sax.collect
           /\ InUnit(u) \/ Has("endUnit")
           /\ sax.rootcalled /\ pos > 0 /\ Cur(doc, u, pos)
           /\ InUnit(u) \/ OutUnit(u)
           /\ u \in UnitStarts(doc) /\ u \in Nat \ {0}
           /\ sax \in SaxState /\ calls \in Seq(Calls \X (1..pos))
           /\ pos \in Nat /\ Len(doc) \in Nat
           /\ NextToken \/ ParseEnds \/ StartRoot \/ AfterCall \/ LeaveHeader \/ PauseAtEnd
           /\ ~ Attributes
  <1>1. /\ TypeOK /\ SaxInv /\ CallsInv /\ AtInv /\ WaitInv /\ RootInv
        /\ terminate = FALSE
    BY LiveFacts DEF Told
  <1>2. "parser" \notin waiting /\ at # "left"
    BY LiveStep
  <1>3. /\ op = "read" /\ notDone /\ Given /\ collectBody
        /\ Entered = taken + 1 /\ Known = taken + 1
        /\ ppc = "header" \/ sax.collect
        /\ ppc # "unit" /\ ppc # "end"
        /\ InUnit(u) \/ Has("endUnit")
    BY <1>2 DEF BodyInv
  <1>4. /\ sax.rootcalled /\ pos > 0 /\ Cur(doc, u, pos)
        /\ InUnit(u) \/ OutUnit(u)
        /\ u \in UnitStarts(doc) /\ u \in Nat \ {0}
    BY <1>1, <1>3, UnitNow
  <1>5. /\ sax \in SaxState /\ calls \in Seq(Calls \X (1..pos)) /\ pos \in Nat
        /\ Len(doc) \in Nat /\ taken \in Int
    BY <1>1, DocFacts DEF TypeOK
  <1>6. Has("startUnit") => ppc = "header"
    BY <1>3, <1>5 DEF Entered, Pending
  <1>7. At("startUnit") => ppc = "header"
    BY <1>1, <1>6, AtHead DEF Has
  <1>8. ~ PauseAtRoot /\ ~ LeaveRoot /\ ~ Attributes /\ ~ PauseAtHeader
    BY <1>1, <1>3, <1>7 DEF PauseAtRoot, LeaveRoot, Attributes, PauseAtHeader, AtInv
  <1>9. ~ LeaveEnd /\ ~ PassEnd
    BY <1>3 DEF LeaveEnd, PassEnd
  <1>10. ~ EndRoot /\ ~ ParseFails /\ ~ DoneNotifies
    BY <1>1 DEF EndRoot, ParseFails, DoneNotifies, RootInv
  <1>11. NextToken \/ ParseEnds \/ StartRoot \/ AfterCall \/ LeaveHeader \/ PauseAtEnd
    BY <1>8, <1>9, <1>10 DEF Parser, StartUnit, EndUnit
  <1> QED BY <1>3, <1>4, <1>5, <1>8, <1>11

\* what the user is waiting for, after a step of the parser
Awaited(u) ==
    /\ Known' = Known
    /\ ppc' = "header" \/ sax'.collect
    /\ ppc' # "unit"
    /\ InUnit(u)' \/ HasCall(calls', "endUnit")
    /\ object'.attrs = object.attrs
    /\ ppc' = "end" => /\ "parser" \in waiting'
                       /\ object'.text = TextOf(doc, u)
                       /\ object'.text # {}

\* a step of the parser while the user waits for the text
LEMMA BodyAwaits ==
    ASSUME Inv, Told, Placed, SaxUnits, SrcML(doc), Live, Parser, ~ isDone', ~ isDone,
           BodyInv, call = "body", at # "begin", NEW u, u = object.attrs
    PROVE  Awaited(u)
  <1> USE DEF flagVars, userVars
  <1>1. /\ TypeOK /\ SaxInv /\ CallsInv /\ AtInv /\ SaxUnits'
        /\ object \in [attrs : 0..pos, ns : SUBSET (1..pos), text : SUBSET (1..pos)]
    BY LiveFacts, ParserUnits DEF Told, TypeOK
  <1>2. /\ collectBody
        /\ ppc = "header" \/ sax.collect
        /\ InUnit(u) \/ Has("endUnit")
        /\ sax.rootcalled /\ pos > 0 /\ Cur(doc, u, pos)
        /\ InUnit(u) \/ OutUnit(u)
        /\ u \in UnitStarts(doc) /\ u \in Nat \ {0}
        /\ sax \in SaxState /\ calls \in Seq(Calls \X (1..pos))
        /\ pos \in Nat /\ Len(doc) \in Nat
        /\ NextToken \/ ParseEnds \/ StartRoot \/ AfterCall \/ LeaveHeader \/ PauseAtEnd
    BY BodyMoves
  <1>3. CASE NextToken
    <2>1. ppc' = "parse" /\ ppc = "parse" /\ calls = << >> /\ object' = object
      BY <1>3 DEF NextToken
    <2>2. InUnit(u) /\ sax.collect
      BY <1>2, <2>1, NoUnitCalls DEF Has
    <2>3. /\ Finds
          /\ InUnit(u)' \/ HasCall(calls', "endUnit")
          /\ sax'.collect = sax.collect /\ ~ HasCall(calls', "startUnit")
      BY <1>1, <1>2, <1>3, <2>2, TokenInside
    <2>4. Known' = Known
      <3>1. Known \in Nat
        BY <1>1, KnownType
      <3>2. Known' = Known + 0
        BY <2>3 DEF Finds
      <3> QED BY <3>1, <3>2
    <2> QED BY <2>1, <2>2, <2>3, <2>4 DEF Awaited
  <1>4. CASE ~ NextToken
    <2>1. UNCHANGED <<doc, pos, depth>> /\ sax'.rootcalled = sax.rootcalled
      BY <1>2, <1>4 DEF ParseEnds, StartRoot, AfterCall, LeaveHeader, PauseAtEnd,
                        Callbacks, Collect, SaxState
    <2>2. Known' = Known
      BY <2>1, KnownSame
    <2>3. InUnit(u) => InUnit(u)'
      BY <1>1, <1>2, <2>1, UnitKept
    <2>4. object'.attrs = object.attrs
      BY <1>1, <1>2, <1>4 DEF ParseEnds, StartRoot, AfterCall, LeaveHeader, PauseAtEnd
    <2>5. CASE PauseAtEnd
      <3>1. /\ ppc = "parse" /\ ppc' = "end" /\ waiting' = {"parser"} /\ calls' = calls
            /\ object'.text = sax.text /\ sax'.collect = sax.collect /\ At("endUnit")
        BY <1>1, <1>2, <2>5 DEF PauseAtEnd, SaxState
      <3>2. Has("endUnit") /\ HasCall(calls', "endUnit")
        BY <1>1, <3>1, AtHead DEF Has
      <3>3. OutUnit(u)
        BY <1>2, <3>2 DEF InUnit, OpeningCalls, Has, HasCall
      <3>4. Closes(doc, u, pos) /\ sax.text = u..pos /\ sax.collect
        BY <1>2, <3>1, <3>2, <3>3 DEF OutUnit
      <3>5. TextOf(doc, u) = u..pos /\ u \in TextOf(doc, u)
        <4>1. pos \in Parsed(doc)
          BY <1>2 DEF SaxUnits
        <4> QED BY <1>2, <3>4, <4>1, TextIs
      <3>6. object'.text = TextOf(doc, u) /\ object'.text # {}
        BY <3>1, <3>4, <3>5
      <3> QED BY <2>2, <2>4, <3>1, <3>2, <3>4, <3>6 DEF Awaited
    <2>6. CASE LeaveHeader
      <3>1. /\ ppc' = "parse" /\ calls' = Tail(calls) /\ sax'.collect = collectBody
            /\ At("startUnit")
        BY <1>1, <1>2, <2>6 DEF LeaveHeader, Return, SaxState, AtInv
      <3>2. Has("endUnit") => HasCall(calls', "endUnit")
        BY <1>2, <3>1, TailCalls DEF At, Has
      <3> QED BY <1>2, <2>2, <2>3, <2>4, <3>1, <3>2 DEF Awaited
    <2>7. CASE ParseEnds
      <3>1. /\ ppc = "parse" /\ ppc' = "ended" /\ calls' = calls /\ sax' = sax
        BY <2>7 DEF ParseEnds
      <3> QED BY <1>2, <2>2, <2>3, <2>4, <3>1 DEF Awaited, Has
    <2>8. CASE StartRoot \/ AfterCall
      <3>1. /\ ppc = "parse" /\ ppc' = "parse" /\ calls # << >> /\ calls' = Tail(calls)
            /\ Head(calls)[1] # "endUnit"
        BY <2>8 DEF StartRoot, AfterCall, Return, At
      <3>2. sax'.collect = sax.collect
        BY <1>2, <2>8 DEF StartRoot, AfterCall, Callbacks, Collect, SaxState
      <3>3. Has("endUnit") => HasCall(calls', "endUnit")
        BY <1>2, <3>1, TailCalls DEF Has
      <3> QED BY <1>2, <2>2, <2>3, <2>4, <3>1, <3>2, <3>3 DEF Awaited
    <2> QED BY <1>2, <1>4, <2>5, <2>6, <2>7, <2>8
  <1> QED BY <1>3, <1>4

\* it keeps what is known of the text
LEMMA BodyGoesOn ==
    ASSUME Inv, Told, Placed, SaxUnits, SrcML(doc), Live, Parser, ~ isDone', ~ isDone,
           BodyInv, call = "body", at # "begin"
    PROVE  BodyInv'
  <1> DEFINE u == object.attrs
  <1>1. /\ UNCHANGED <<doc, collectBody, op, notDone, call, at, taken>>
        /\ at # "left"
    BY LiveStep
  <1>2. /\ op = "read" /\ notDone /\ Given /\ collectBody
        /\ Entered = taken + 1 /\ Known = taken + 1 /\ taken \in Int
        /\ ~ Attributes
    BY BodyMoves
  <1>3. \A v : v = object.attrs => Awaited(v)
    BY BodyAwaits
  <1>4. PICK v : v = object.attrs
    OBVIOUS
  <1>5. Awaited(v)
    BY <1>3, <1>4
  <1>6. object'.attrs = v
    BY <1>4, <1>5 DEF Awaited
  <1>7. Given'
    BY <1>1, <1>2, <1>4, <1>6 DEF Given
  <1>8. Entered' = taken' + 1 /\ Known' = taken' + 1
    <2>1. Entered' = Entered + 0
      BY <1>2, EnteredStep
    <2> QED BY <1>1, <1>2, <1>5, <2>1 DEF Awaited
  <1>9. InUnit(object.attrs)' \/ Has("endUnit")'
    <2>1. InUnit(v)' => InUnit(object.attrs)'
      BY <1>6 DEF InUnit, Gathered
    <2> QED BY <1>5, <2>1 DEF Awaited, Has
  <1>10. ppc' = "end" => /\ "parser" \in waiting'
                         /\ object'.text = TextOf(doc', object'.attrs)
                         /\ object'.text # {}
    BY <1>1, <1>5, <1>6 DEF Awaited
  <1> QED BY <1>1, <1>2, <1>5, <1>7, <1>8, <1>9, <1>10 DEF BodyInv, Awaited

\* while the user waits for the header of a unit
LEMMA HeaderGoesOn ==
    ASSUME Inv, Told, Placed, SaxUnits, SrcML(doc), Live, Parser, ~ isDone', ~ isDone,
           HeaderInv
    PROVE  HeaderInv'
  <1> USE DEF flagVars, userVars
  <1>1. /\ TypeOK /\ SaxInv /\ AtInv /\ terminate = FALSE
        /\ object \in [attrs : 0..pos, ns : SUBSET (1..pos), text : SUBSET (1..pos)]
        /\ taken \in Int
    BY LiveFacts DEF Told, TypeOK
  <1>2. /\ UNCHANGED <<doc, collectHeader, call, at, taken>> /\ "parser" \notin waiting
    BY LiveStep
  <1>3. Entered' = Entered + (IF Attributes THEN 1 ELSE 0)
    BY EnteredStep
  <1>4. Known \in Nat /\ sax \in SaxState /\ Len(doc) \in Nat /\ pos \in Nat
    BY <1>1, KnownType, DocFacts
  <1> SUFFICES ASSUME call = "header", at \in {"holds", "waits"}
               PROVE  IF AtHeader' THEN Entered' = taken + 1 /\ Given' ELSE Entered' = taken
    BY <1>2 DEF HeaderInv
  <1>5. collectHeader /\ IF AtHeader THEN Entered = taken + 1 /\ Given ELSE Entered = taken
    BY DEF HeaderInv
  <1>6. CASE Attributes
    <2>1. /\ ppc = "parse" /\ ppc' = "unit" /\ At("startUnit") /\ object'.attrs = Here
      BY <1>1, <1>6 DEF Attributes
    <2>2. ~ AtHeader /\ AtHeader'
      BY <2>1 DEF AtHeader
    <2>3. /\ sax.rootcalled /\ Cur(doc, Here, pos) /\ Here \in UnitStarts(doc) /\ Has("startUnit")
      BY <1>1, <2>1, Announces DEF Has
    <2>4. Known = taken + 1
      <3>1. Pending
        BY <2>1, <2>3 DEF Pending
      <3> QED BY <1>1, <1>4, <1>5, <2>2, <3>1 DEF Entered
    <2>5. Rank(doc, Here) = taken + 1
      <3>1. Rank(doc, pos) = Rank(doc, Here)
        BY <1>4, <2>3, RankOfUnit
      <3> QED BY <2>3, <2>4, <3>1 DEF Known
    <2>6. Given'
      BY <1>2, <2>1, <2>3, <2>5 DEF Given
    <2> QED BY <1>1, <1>3, <1>5, <1>6, <2>2, <2>6
  <1>7. CASE PauseAtHeader
    <2>1. ppc = "unit" /\ ppc' = "header" /\ waiting' = {"parser"} /\ object' = object /\ ~ Attributes
      BY <1>7 DEF PauseAtHeader, Attributes
    <2>2. AtHeader /\ AtHeader'
      BY <2>1 DEF AtHeader
    <2>3. Given' = Given
      BY <1>2, <2>1 DEF Given
    <2> QED BY <1>1, <1>3, <1>5, <2>1, <2>2, <2>3
  <1>8. CASE ~ Attributes /\ ~ PauseAtHeader
    <2>1. ppc # "unit"
      BY <1>5, <1>8 DEF Parser, StartUnit, EndUnit, NextToken, ParseEnds, ParseFails, DoneNotifies,
        StartRoot, PauseAtRoot, LeaveRoot, LeaveHeader, AfterCall, PauseAtEnd,
        LeaveEnd, PassEnd, EndRoot
    <2>2. ppc' \notin {"unit", "header"}
      BY <1>1, <1>8 DEF Parser, StartUnit, EndUnit, NextToken, ParseEnds, ParseFails, DoneNotifies,
        StartRoot, PauseAtRoot, LeaveRoot, LeaveHeader, AfterCall, PauseAtEnd,
        LeaveEnd, PassEnd, EndRoot, Return
    <2>3. ~ AtHeader /\ ~ AtHeader'
      BY <1>2, <2>1, <2>2 DEF AtHeader
    <2> QED BY <1>1, <1>3, <1>5, <1>8, <2>3
  <1> QED BY <1>6, <1>7, <1>8

\* where the two stand
LEMMA ParserStanding ==
    ASSUME Inv, Told, Placed, Live, Parser, Standing
    PROVE  Standing'
  <1> USE DEF flagVars, userVars
  <1>1. /\ TypeOK /\ WaitInv /\ RootInv /\ HandInv /\ CallInv /\ PlaceInv
    BY LiveFacts
  <1>2. /\ UNCHANGED <<collectBody, call, at>> /\ "parser" \notin waiting
        /\ isDone => isDone'
        /\ call = "idle" \/ at \in {"begin", "left"} => isDone
    BY <1>1, LiveStep, ParserFrame
  <1>3. call \in {"header", "body"} /\ at = "enter" => isDone
    BY <1>2 DEF Standing
  <1>4. ASSUME call = "header", at \in {"waits", "left"}, "parser" \in waiting'
        PROVE  ppc' = "header"
    <2>1. /\ ~ isDone /\ waiting' = {"parser"} /\ ~ collectBody
      <3>1. CASE isDone
        <4>1. ParseEnds \/ DoneNotifies
          BY <3>1, LiveMoves
        <4>2. "parser" \notin waiting'
          BY <1>2, <4>1 DEF ParseEnds, DoneNotifies
        <4> QED BY <1>4, <4>2
      <3>2. ~ collectBody
        BY <1>1, <1>4 DEF CallInv
      <3>3. waiting' = {"parser"} \/ waiting' = waiting \/ waiting' = waiting \ {"user"}
        BY <1>1, ParserMoves
      <3> QED BY <1>2, <1>4, <3>1, <3>2, <3>3
    <2>2. ~ PauseAtRoot
      <3>1. ~ waitRoot
        BY <1>1, <1>4, <2>1 DEF RootInv
      <3> QED BY <1>1, <3>1 DEF PlaceInv, PauseAtRoot
    <2>3. PauseAtHeader
      BY <1>2, <2>1, <2>2 DEF Parser, StartUnit, EndUnit, NextToken, ParseEnds, ParseFails,
        DoneNotifies, StartRoot, LeaveRoot, Attributes, LeaveHeader, AfterCall, PauseAtEnd,
        LeaveEnd, PassEnd, EndRoot
    <2> QED BY <2>3 DEF PauseAtHeader
  <1> QED BY <1>2, <1>3, <1>4 DEF Standing

\* what the reader gives is kept while the parser reads on
LEMMA ParserUser ==
    ASSUME Inv, Told, Placed, SaxUnits, SrcML(doc), UserUnits, Parser
    PROVE  UserUnits'
  <1> SUFFICES ASSUME Live PROVE UserUnits'
    BY ParserFrame DEF UserUnits, Live, Inv
  <1>1. /\ UNCHANGED <<doc, collectHeader, collectBody, op, notDone, call, at, taken>>
        /\ call = "idle" \/ at \in {"begin", "left"} => isDone
        /\ isDone => isDone' /\ isDone \in BOOLEAN /\ isDone' \in BOOLEAN
    BY LiveStep, LiveFacts, ParserFrame, ParserType DEF TypeOK
  <1>2. /\ Standing /\ OverInv /\ OpenInv /\ IdleInv /\ HeaderInv /\ LeftInv /\ BodyInv
    BY DEF UserUnits
  <1>3. Total' = Total
    BY <1>1 DEF Total
  <1>4. Standing'
    BY <1>2, ParserStanding
  <1>5. call \in {"header", "body"} /\ at = "enter" => isDone
    <2>1. "parser" \notin waiting
      BY LiveStep
    <2> QED BY <1>2, <2>1 DEF Standing
  <1>6. TypeOK /\ taken \in Int /\ Total \in Nat /\ CallInv
    <2>1. TypeOK /\ CallInv
      BY LiveFacts
    <2>2. Total \in Nat
      BY <2>1, DocFacts, UnitsFinite DEF Total
    <2> QED BY <2>1, <2>2 DEF TypeOK
  <1>7. CASE isDone
    <2>1. ParseEnds \/ DoneNotifies
      BY <1>7, LiveMoves
    <2>2. UNCHANGED <<object, isDone>>
      BY <2>1 DEF ParseEnds, DoneNotifies, userVars
    <2>3. OverInv'
      BY <1>1, <1>2, <1>3, <1>7 DEF OverInv
    <2>4. OpenInv' /\ IdleInv' /\ LeftInv'
      BY <1>1, <1>2, <1>7 DEF OpenInv, IdleInv, LeftInv
    <2>5. HeaderInv'
      BY <1>1, <1>2, <1>7 DEF HeaderInv
    <2>6. BodyInv'
      BY <1>1, <1>2, <1>7, <2>2 DEF BodyInv, Given
    <2> QED BY <1>4, <2>3, <2>4, <2>5, <2>6 DEF UserUnits
  <1>8. CASE ~ isDone /\ isDone'
    <2>1. ParseFails \/ EndRoot
      BY <1>8, LiveMoves
    <2>2. /\ object' = object /\ ppc = "parse"
      BY <2>1 DEF ParseFails, EndRoot, userVars
    <2>3. /\ Entered = Total
          /\ \A e \in Ends(doc) : e <= pos
          /\ ~ Has("endUnit") /\ ~ (EndRoot /\ OpeningCalls(calls))
      BY <1>8, <2>1, AllEntered DEF Told
    <2>4. ~ AtHeader
      BY <2>2 DEF AtHeader
    <2>5. call \in {"open", "header"} => taken = Total
      <3>1. call = "open" => taken = Total
        BY <1>2, <1>8, <2>3 DEF OpenInv
      <3>2. call = "header" => at \in {"holds", "waits"}
        BY <1>1, <1>5, <1>6, <1>8 DEF CallInv
      <3>3. call = "header" => taken = Total
        BY <1>2, <1>8, <2>3, <2>4, <3>2 DEF HeaderInv
      <3> QED BY <3>1, <3>3
    <2>6. OverInv'
      <3>1. call # "idle" /\ (call = "body" => notDone)
        BY <1>1, <1>2, <1>8 DEF BodyInv
      <3> QED BY <1>1, <1>2, <1>3, <1>8, <2>5, <3>1 DEF OverInv
    <2>7. OpenInv' /\ IdleInv' /\ LeftInv'
      BY <1>1, <1>2, <1>8 DEF OpenInv, IdleInv, LeftInv
    <2>8. HeaderInv'
      BY <1>1, <1>2, <1>8 DEF HeaderInv
    <2>9. BodyInv'
      <3> SUFFICES ASSUME call = "body", at # "begin" PROVE TextOf(doc, object.attrs) = {}
        BY <1>1, <1>2, <1>8, <2>2 DEF BodyInv, Given
      <3>1. InUnit(object.attrs) /\ Given
        BY <1>2, <1>8, <2>3 DEF BodyInv
      <3>2. Inside(doc, object.attrs, pos) /\ object.attrs \in UnitStarts(doc)
        BY <3>1 DEF InUnit, Given
      <3>3. pos \in Nat /\ Len(doc) \in Nat
        BY <1>6, DocFacts
      <3> QED BY <2>3, <3>2, <3>3, NoText
    <2> QED BY <1>4, <2>6, <2>7, <2>8, <2>9 DEF UserUnits
  <1>9. CASE ~ isDone /\ ~ isDone'
    <2>1. OverInv'
      BY <1>1, <1>2, <1>3, <1>9 DEF OverInv
    <2>2. OpenInv'
      <3> SUFFICES ASSUME call = "open" PROVE Entered' = 0 /\ taken = 0
        BY <1>1, <1>9 DEF OpenInv
      <3>1. taken = 0 /\ Entered = 0
        BY <1>2, <1>9 DEF OpenInv
      <3>2. ~ Attributes
        BY LiveFacts, LiveStep DEF RootInv, Attributes
      <3> QED BY <1>9, <3>1, <3>2, EnteredStep
    <2>3. IdleInv'
      BY <1>1, <1>5, <1>9 DEF IdleInv
    <2>4. HeaderInv'
      BY <1>2, <1>9, HeaderGoesOn
    <2>5. LeftInv'
      BY <1>1, <1>2, <1>9 DEF LeftInv
    <2>6. BodyInv'
      <3>1. CASE call = "body" /\ at # "begin"
        BY <1>2, <1>9, <3>1, BodyGoesOn
      <3>2. CASE ~ (call = "body" /\ at # "begin")
        BY <1>1, <3>2 DEF BodyInv
      <3> QED BY <3>1, <3>2
    <2> QED BY <1>4, <2>1, <2>2, <2>3, <2>4, <2>5, <2>6 DEF UserUnits
  <1> QED BY <1>1, <1>7, <1>8, <1>9

\* what a step of the user finds
LEMMA UserSame ==
    ASSUME Inv, Continues \/ Call \/ Free
    PROVE  /\ UNCHANGED <<doc, pos, depth, sax, calls, ppc, isDone, waitRoot>>
           /\ Entered' = Entered /\ Known' = Known /\ Total' = Total
           /\ Given /\ object' = object /\ taken' = taken => Given'
           /\ (AtHeader /\ "parser" \in waiting' => AtHeader')
           /\ isDone \in BOOLEAN /\ taken \in Int /\ Total \in Nat /\ Entered \in Int
           /\ call \in {"open", "idle", "header", "body", "free", "freed"}
           /\ op \in {"read", "skip"} /\ notDone \in BOOLEAN
  <1>1. UNCHANGED <<doc, pos, depth, sax, calls, ppc, isDone, waitRoot>>
    BY UserFrame
  <1>2. Known' = Known
    BY <1>1 DEF Known
  <1>3. Pending' = Pending
    BY <1>1 DEF Pending, Has
  <1>4. Entered' = Entered
    BY <1>2, <1>3 DEF Entered
  <1>5. Total' = Total
    BY <1>1 DEF Total
  <1>6. Given /\ object' = object /\ taken' = taken => Given'
    BY <1>1 DEF Given
  <1>7. AtHeader /\ "parser" \in waiting' => AtHeader'
    BY <1>1 DEF AtHeader
  <1>8. /\ isDone \in BOOLEAN /\ taken \in Int
        /\ call \in {"open", "idle", "header", "body", "free", "freed"}
        /\ op \in {"read", "skip"} /\ notDone \in BOOLEAN
    BY DEF Inv, TypeOK
  <1>9. Total \in Nat /\ Known \in Nat
    BY DocFacts, UnitsFinite, KnownType DEF Total, Inv
  <1>10. Entered \in Int
    BY <1>9 DEF Entered
  <1> QED BY <1>1, <1>2, <1>4, <1>5, <1>6, <1>7, <1>8, <1>9, <1>10

\* a step of the user while it waits for the text
LEMMA BodySame ==
    ASSUME BodyInv, Inv, Continues \/ Call \/ Free, call = "body", at # "begin",
           call' = "body", at' # "begin",
           UNCHANGED <<object, taken, collectBody, op, notDone>>,
           ~ isDone /\ ppc = "end" => "parser" \in waiting',
           at' = "left" /\ ~ isDone => ppc = "end"
    PROVE  BodyInv'
  <1>1. /\ UNCHANGED <<doc, pos, depth, sax, calls, ppc, isDone>>
        /\ Entered' = Entered /\ Known' = Known
        /\ Given => Given'
    BY UserSame
  <1>2. InUnit(object.attrs)' <=> InUnit(object.attrs)
    BY <1>1 DEF InUnit, Gathered, Collecting, Has
  <1>3. Has("endUnit")' <=> Has("endUnit")
    BY <1>1 DEF Has
  <1>4. /\ op = "read" /\ notDone /\ Given /\ collectBody
        /\ isDone => TextOf(doc, object.attrs) = {}
        /\ ~ isDone =>
            /\ Entered = taken + 1 /\ Known = taken + 1
            /\ ppc = "header" \/ sax.collect
            /\ ppc # "unit"
            /\ InUnit(object.attrs) \/ Has("endUnit")
            /\ ppc = "end" => object.text = TextOf(doc, object.attrs) /\ object.text # {}
    BY DEF BodyInv
  <1>5. /\ op' = "read" /\ notDone' /\ Given' /\ collectBody'
        /\ isDone' => TextOf(doc', object'.attrs) = {}
    BY <1>1, <1>4
  <1>6. ASSUME ~ isDone
        PROVE  /\ Entered' = taken' + 1 /\ Known' = taken' + 1
               /\ ppc' = "header" \/ sax'.collect
               /\ ppc' # "unit"
               /\ InUnit(object.attrs)' \/ Has("endUnit")'
               /\ ppc' = "end" => /\ "parser" \in waiting'
                                  /\ object'.text = TextOf(doc', object'.attrs)
                                  /\ object'.text # {}
               /\ at' = "left" => ppc' = "end"
    BY <1>1, <1>2, <1>3, <1>4, <1>6
  <1> QED BY <1>1, <1>5, <1>6 DEF BodyInv

\* the wait, in either call
LEMMA WaitUnits ==
    ASSUME Inv, Placed, UserUnits, Live, EnterResume \/ Wait
    PROVE  UserUnits'
  <1>1. Continues
    BY DEF Continues
  <1>2. /\ UNCHANGED <<doc, ppc, isDone, waitRoot>>
        /\ Entered' = Entered /\ Known' = Known /\ Total' = Total
        /\ Given /\ object' = object /\ taken' = taken => Given'
        /\ isDone \in BOOLEAN
    BY <1>1, UserSame
  <1>3. /\ UNCHANGED <<collectHeader, collectBody, object, op, notDone, taken>> /\ call' = call
    BY DEF EnterResume, Wait, callVars, history, Reaches
  <1>4. /\ Standing /\ OverInv /\ OpenInv /\ IdleInv /\ HeaderInv /\ LeftInv /\ BodyInv
    BY DEF UserUnits
  <1>5. WaitInv /\ HandInv /\ CallInv /\ call \in {"open", "idle", "header", "body"}
    BY LiveFacts
  <1>6. CASE EnterResume
    <2>1. /\ call \in {"header", "body"} /\ at = "enter"
          /\ at' = (IF isDone THEN "left" ELSE "holds") /\ waiting' = waiting \ {"parser"}
      BY <1>6 DEF EnterResume, Reaches
    <2>2. ~ isDone => ppc \in Paused /\ (call = "body" => ppc = "header")
      BY <1>4, <1>5, <2>1 DEF Standing, WaitInv
    <2>3. Standing'
      BY <1>2, <1>3, <2>1 DEF Standing
    <2>4. OverInv' /\ OpenInv' /\ IdleInv'
      BY <1>2, <1>3, <1>4, <2>1 DEF OverInv, OpenInv, IdleInv
    <2>5. HeaderInv'
      <3>1. ~ isDone => ~ AtHeader'
        BY <1>2, <2>1, <2>2 DEF AtHeader, Paused
      <3>2. ~ isDone /\ call = "header" => Entered = taken
        BY <1>4, <2>1 DEF IdleInv
      <3> QED BY <1>2, <1>3, <1>4, <2>1, <3>1, <3>2 DEF HeaderInv
    <2>6. LeftInv'
      BY <1>2, <1>3, <2>1 DEF LeftInv
    <2>7. BodyInv'
      <3>1. CASE call = "body"
        <4>1. ~ (ppc = "end") \/ isDone
          BY <2>2, <3>1
        <4> QED BY <1>1, <1>3, <1>4, <2>1, <3>1, <4>1, BodySame
      <3>2. CASE call # "body"
        BY <1>3, <3>2 DEF BodyInv
      <3> QED BY <3>1, <3>2
    <2> QED BY <2>3, <2>4, <2>5, <2>6, <2>7 DEF UserUnits
  <1>7. CASE Wait
    <2>1. at = "holds" /\ at' = "waits" /\ waiting' = waiting \cup {"user"} /\ "parser" \notin waiting
      BY <1>5, <1>7 DEF Wait, Reaches, WaitInv
    <2>2. "parser" \notin waiting'
      BY <2>1
    <2>3. Standing'
      BY <1>2, <1>3, <2>1, <2>2 DEF Standing
    <2>4. OverInv' /\ OpenInv' /\ IdleInv' /\ LeftInv'
      BY <1>2, <1>3, <1>4, <2>1 DEF OverInv, OpenInv, IdleInv, LeftInv
    <2>5. HeaderInv'
      <3>1. AtHeader' <=> AtHeader
        BY <1>2, <2>1, <2>2 DEF AtHeader
      <3>2. call = "header" => collectHeader
        BY <1>4 DEF HeaderInv
      <3>3. ~ isDone /\ call = "header" =>
               IF AtHeader THEN Entered = taken + 1 /\ Given ELSE Entered = taken
        BY <1>4, <2>1 DEF HeaderInv
      <3>4. ~ isDone /\ call = "header" =>
               IF AtHeader' THEN Entered' = taken' + 1 /\ Given' ELSE Entered' = taken'
        BY <1>2, <1>3, <3>1, <3>3
      <3> QED BY <1>2, <1>3, <3>2, <3>4 DEF HeaderInv
    <2>6. BodyInv'
      <3>1. CASE call = "body"
        <4>1. ~ isDone => ppc # "end"
          BY <1>4, <2>1, <3>1 DEF BodyInv
        <4> QED BY <1>1, <1>3, <1>4, <2>1, <3>1, <4>1, BodySame
      <3>2. CASE call # "body"
        BY <1>3, <3>2 DEF BodyInv
      <3> QED BY <3>1, <3>2
    <2> QED BY <2>3, <2>4, <2>5, <2>6 DEF UserUnits
  <1> QED BY <1>6, <1>7

\* the archive is open
LEMMA OpenedUnits ==
    ASSUME Inv, Placed, UserUnits, Live, EnterWait \/ (Wake /\ call = "open")
    PROVE  UserUnits'
  <1>1. Continues
    BY DEF Continues
  <1>2. /\ UNCHANGED <<doc, ppc, isDone, waitRoot>>
        /\ Entered' = Entered /\ Known' = Known /\ Total' = Total
        /\ isDone \in BOOLEAN
    BY <1>1, UserSame
  <1>3. /\ UNCHANGED taken /\ call = "open" /\ call' \in {"open", "idle"}
        /\ call' = "idle" => at' = "user"
        /\ call' = "open" => at' = "holds"
    BY DEF EnterWait, Wake, history, Reaches
  <1>4. /\ Standing /\ OverInv /\ OpenInv
    BY DEF UserUnits
  <1>5. OverInv' /\ OpenInv' /\ IdleInv'
    BY <1>2, <1>3, <1>4 DEF OverInv, OpenInv, IdleInv
  <1>6. Standing' /\ HeaderInv' /\ LeftInv' /\ BodyInv'
    BY <1>3 DEF Standing, HeaderInv, LeftInv, BodyInv
  <1> QED BY <1>5, <1>6 DEF UserUnits

\* a wait that ends
LEMMA WokenUnits ==
    ASSUME Inv, Placed, UserUnits, Live, Wake, call # "open"
    PROVE  UserUnits'
  <1>1. Continues
    BY DEF Continues
  <1>2. /\ UNCHANGED <<doc, ppc, isDone, waitRoot>>
        /\ Entered' = Entered /\ Known' = Known /\ Total' = Total
        /\ Given /\ object' = object /\ taken' = taken => Given'
        /\ isDone \in BOOLEAN
    BY <1>1, UserSame
  <1>3. /\ UNCHANGED <<waiting, collectHeader, collectBody, object, op, notDone, taken>>
        /\ call' = call /\ at = "waits" /\ at' = "left" /\ "user" \notin waiting
    BY DEF Wake, callVars, history, Reaches
  <1>4. /\ Standing /\ OverInv /\ OpenInv /\ IdleInv /\ HeaderInv /\ LeftInv /\ BodyInv
    BY DEF UserUnits
  <1>5. HandInv /\ PlaceInv /\ call \in {"open", "idle", "header", "body"}
    BY LiveFacts
  <1>6. ~ isDone => "parser" \in waiting
    BY <1>3, <1>5 DEF HandInv
  <1>7. ~ isDone /\ call = "header" => ppc = "header" /\ AtHeader
    BY <1>3, <1>4, <1>6 DEF Standing, AtHeader
  <1>8. ~ isDone /\ call = "body" => ppc = "end"
    BY <1>3, <1>5, <1>6 DEF PlaceInv
  <1>9. Standing'
    BY <1>2, <1>3, <1>4 DEF Standing
  <1>10. OverInv' /\ OpenInv' /\ IdleInv'
    BY <1>2, <1>3, <1>4 DEF OverInv, OpenInv, IdleInv
  <1>11. HeaderInv' /\ LeftInv'
    <2>1. ~ isDone /\ call = "header" => Entered = taken + 1 /\ Given
      BY <1>3, <1>4, <1>7 DEF HeaderInv
    <2> QED BY <1>2, <1>3, <1>4, <1>7, <2>1 DEF HeaderInv, LeftInv
  <1>12. BodyInv'
    <2>1. CASE call = "body"
      BY <1>1, <1>3, <1>4, <1>6, <1>8, <2>1, BodySame
    <2>2. CASE call # "body"
      BY <1>3, <2>2 DEF BodyInv
    <2> QED BY <2>1, <2>2
  <1> QED BY <1>9, <1>10, <1>11, <1>12 DEF UserUnits

\* a call begins
LEMMA CallUnits ==
    ASSUME Inv, Placed, UserUnits, Live, Call
    PROVE  UserUnits'
  <1>1. /\ UNCHANGED <<doc, ppc, isDone, waitRoot>>
        /\ Entered' = Entered /\ Known' = Known /\ Total' = Total
        /\ isDone \in BOOLEAN
    BY UserSame
  <1>2. /\ call = "idle" /\ taken' = taken /\ waiting' = waiting /\ notDone' = FALSE
        /\ isDone => call' = "body" /\ at' = "begin"
        /\ ~ isDone => call' = "header" /\ at' = "enter" /\ collectHeader' = TRUE
    BY DEF Call, history, Reaches
  <1>3. OverInv /\ IdleInv /\ HandOff
    BY LiveFacts DEF UserUnits, HandInv
  <1>4. waiting = {"parser"} \/ isDone
    BY <1>2, <1>3 DEF HandOff, UserRuns
  <1>5. Standing'
    BY <1>1, <1>2, <1>4 DEF Standing
  <1>6. OverInv' /\ OpenInv' /\ IdleInv'
    BY <1>1, <1>2, <1>3 DEF OverInv, OpenInv, IdleInv
  <1>7. HeaderInv' /\ LeftInv' /\ BodyInv'
    BY <1>1, <1>2 DEF HeaderInv, LeftInv, BodyInv
  <1> QED BY <1>5, <1>6, <1>7 DEF UserUnits

\* the header has been read
LEMMA HeaderDoneUnits ==
    ASSUME Inv, Placed, UserUnits, Live, HeaderDone
    PROVE  UserUnits'
  <1>1. Continues
    BY DEF Continues
  <1>2. /\ UNCHANGED <<doc, ppc, isDone, waitRoot>>
        /\ Entered' = Entered /\ Known' = Known /\ Total' = Total
        /\ Given /\ object' = object /\ taken' = taken => Given'
        /\ isDone \in BOOLEAN
    BY <1>1, UserSame
  <1>3. /\ UNCHANGED <<object, taken>> /\ call = "header" /\ at = "left"
        /\ call' = "body" /\ at' = "begin" /\ notDone' = ~ isDone
    BY DEF HeaderDone, history, Reaches
  <1>4. OverInv /\ LeftInv
    BY DEF UserUnits
  <1>5. OverInv' /\ OpenInv' /\ IdleInv'
    BY <1>2, <1>3, <1>4 DEF OverInv, OpenInv, IdleInv
  <1>6. LeftInv'
    BY <1>2, <1>3, <1>4 DEF LeftInv
  <1>7. Standing' /\ HeaderInv' /\ BodyInv'
    BY <1>3 DEF Standing, HeaderInv, BodyInv
  <1> QED BY <1>5, <1>6, <1>7 DEF UserUnits

\* the body is wanted: the parser is still in the unit, or has found its end
LEMMA BodyBeginsUnits ==
    ASSUME Inv, Told, Placed, SaxUnits, UserUnits, Live, BodyBegins
    PROVE  UserUnits'
  <1>1. Continues
    BY DEF Continues
  <1>2. /\ UNCHANGED <<doc, pos, depth, sax, calls, ppc, isDone>>
        /\ Entered' = Entered /\ Known' = Known /\ Total' = Total
        /\ Given /\ object' = object /\ taken' = taken => Given'
        /\ isDone \in BOOLEAN
    BY <1>1, UserSame
  <1>3. /\ UNCHANGED <<waiting, object, op, notDone, taken>> /\ call = "body" /\ at = "begin"
        /\ call' = "body" /\ at' = "enter" /\ op = "read" /\ ~ isDone /\ collectBody' = TRUE
    BY DEF BodyBegins, callVars, history, Reaches
  <1>4. /\ OverInv /\ ppc = "header" /\ Entered = taken + 1 /\ Given /\ notDone
    BY <1>3 DEF UserUnits, LeftInv
  <1>5. TypeOK /\ HandInv /\ Known \in Nat
    BY LiveFacts, KnownType
  <1>6. waiting = {"parser"}
    BY <1>3, <1>5 DEF HandInv, HandOff, UserRuns
  <1>7. Known = taken + 1
    BY <1>4, <1>5 DEF Entered, Pending
  <1>8. InUnit(object.attrs) \/ Has("endUnit")
    <2>1. InUnit(object.attrs) \/ OutUnit(object.attrs)
      BY <1>4, <1>5, <1>7, UnitNow
    <2>2. ASSUME OutUnit(object.attrs) PROVE Has("endUnit")
      <3>1. 1 \in 1..Len(calls) /\ calls[1][1] = "startUnit" /\ Len(calls) \in Nat
        BY <1>4, <1>5, AtHead DEF Told, AtInv
      <3>2. PICK j \in (1 + 1)..Len(calls) : calls[j][1] = "endUnit"
        BY <2>2, <3>1 DEF OutUnit, ClosingCalls
      <3>3. j \in 1..Len(calls)
        BY <3>1, <3>2
      <3> QED BY <3>2, <3>3 DEF Has, HasCall
    <2> QED BY <2>1, <2>2
  <1>9. InUnit(object.attrs)' \/ Has("endUnit")'
    BY <1>2, <1>3, <1>8 DEF InUnit, Gathered, Collecting, Has
  <1>10. BodyInv'
    BY <1>2, <1>3, <1>4, <1>7, <1>9 DEF BodyInv
  <1>11. OverInv' /\ OpenInv' /\ IdleInv' /\ LeftInv' /\ HeaderInv'
    BY <1>2, <1>3, <1>4 DEF OverInv, OpenInv, IdleInv, LeftInv, HeaderInv
  <1>12. Standing'
    BY <1>2, <1>3, <1>4, <1>6 DEF Standing
  <1> QED BY <1>10, <1>11, <1>12 DEF UserUnits

-----------------------------------------------------------------------------
(* What a call returns *)

\* no unit is where there is none
LEMMA GivenUnit ==
    ASSUME TypeOK, Given, taken \in Int
    PROVE  /\ object.attrs \in Nat \ {0} /\ taken + 1 \in 1..Total /\ Total \in Nat
           /\ \A t : [from |-> object.attrs, text |-> t] # Nothing
           /\ UnitsIn(doc)[taken + 1] = [from |-> object.attrs, text |-> TextOf(doc, object.attrs)]
  <1>1. Len(doc) \in Nat /\ object.attrs \in UnitStarts(doc) /\ Rank(doc, object.attrs) = taken + 1
    BY DocFacts DEF Given
  <1>2. object.attrs \in Nat \ {0}
    BY <1>1, UnitDepth
  <1>3. taken + 1 \in 1..Total /\ Total \in Nat
    BY <1>1, RankPositive, UnitsFinite DEF Total
  <1>4. ASSUME NEW t, [from |-> object.attrs, text |-> t] = Nothing PROVE FALSE
    <2>1. [from |-> object.attrs, text |-> t].from = Nothing.from
      BY <1>4
    <2>2. object.attrs = 0
      BY <2>1 DEF Nothing
    <2> QED BY <1>2, <2>2
  <1> QED BY <1>1, <1>2, <1>3, <1>4, UnitsAre

\* a skip, or a call after the end
LEMMA NoBodyReturns ==
    ASSUME Inv, Placed, UserUnits, Live, NoBody
    PROVE  /\ isDone => /\ result' = Nothing /\ taken' = -1 /\ taken \in {-1, Total}
           /\ ~ isDone => /\ result' = [from |-> object.attrs, text |-> {}]
                          /\ taken' = taken + 1 /\ Given /\ Entered = taken + 1
           /\ call' = "idle" /\ at' = "user"
  <1>1. /\ call = "body" /\ at = "begin"
        /\ op = "skip" \/ isDone
        /\ result' = CASE op = "read" /\ notDone /\ FALSE ->
                            [from |-> object.attrs, text |-> object.text]
                       [] op = "skip" /\ notDone -> [from |-> object.attrs, text |-> {}]
                       [] OTHER -> Nothing
        /\ taken' = IF result' = Nothing THEN -1 ELSE taken + 1
        /\ call' = "idle" /\ at' = "user"
    BY DEF NoBody, Returns, Reaches
  <1>2. notDone = ~ isDone /\ isDone \in BOOLEAN /\ TypeOK /\ taken \in Int
    BY <1>1, LiveFacts DEF UserUnits, LeftInv, TypeOK
  <1>3. CASE isDone
    <2>1. result' = Nothing
      BY <1>1, <1>2, <1>3
    <2>2. taken \in {-1, Total}
      BY <1>1, <1>2, <1>3 DEF UserUnits, OverInv
    <2> QED BY <1>1, <1>3, <2>1, <2>2
  <1>4. CASE ~ isDone
    <2>1. Given /\ Entered = taken + 1
      BY <1>1, <1>4 DEF UserUnits, LeftInv
    <2>2. result' = [from |-> object.attrs, text |-> {}]
      BY <1>1, <1>2, <1>4
    <2>3. result' # Nothing
      BY <1>2, <2>1, <2>2, GivenUnit
    <2> QED BY <1>1, <1>4, <2>1, <2>2, <2>3
  <1> QED BY <1>1, <1>3, <1>4

\* a read
LEMMA BodyReturns ==
    ASSUME Inv, Placed, UserUnits, Live, BodyDone
    PROVE  /\ Given /\ call' = "idle" /\ at' = "user"
           /\ isDone => /\ result' = Nothing /\ taken' = -1
                        /\ TextOf(doc, object.attrs) = {}
           /\ ~ isDone => /\ result' = [from |-> object.attrs, text |-> TextOf(doc, object.attrs)]
                          /\ taken' = taken + 1 /\ Entered = taken + 1
                          /\ TextOf(doc, object.attrs) # {}
  <1>1. /\ call = "body" /\ at = "left"
        /\ result' = CASE op = "read" /\ notDone /\ ~ isDone ->
                            [from |-> object.attrs, text |-> object.text]
                       [] op = "skip" /\ notDone -> [from |-> object.attrs, text |-> {}]
                       [] OTHER -> Nothing
        /\ taken' = IF result' = Nothing THEN -1 ELSE taken + 1
        /\ call' = "idle" /\ at' = "user"
    BY DEF BodyDone, Returns, Reaches
  <1>2. /\ op = "read" /\ notDone /\ Given
        /\ isDone => TextOf(doc, object.attrs) = {}
        /\ ~ isDone => /\ Entered = taken + 1
                       /\ object.text = TextOf(doc, object.attrs) /\ object.text # {}
    BY <1>1 DEF UserUnits, BodyInv
  <1>3. TypeOK /\ taken \in Int
    BY LiveFacts DEF TypeOK
  <1>4. CASE isDone
    <2>1. result' = Nothing
      BY <1>1, <1>2, <1>4
    <2> QED BY <1>1, <1>2, <1>4, <2>1
  <1>5. CASE ~ isDone
    <2>1. result' = [from |-> object.attrs, text |-> TextOf(doc, object.attrs)]
      BY <1>1, <1>2, <1>5
    <2>2. result' # Nothing
      BY <1>2, <1>3, <2>1, GivenUnit
    <2> QED BY <1>1, <1>2, <1>5, <2>1, <2>2
  <1> QED BY <1>4, <1>5

\* the call returns
LEMMA ReturnUnits ==
    ASSUME Inv, Placed, UserUnits, Live, NoBody \/ BodyDone
    PROVE  UserUnits'
  <1>1. Continues
    BY DEF Continues
  <1>2. /\ UNCHANGED <<doc, isDone>> /\ Entered' = Entered /\ Total' = Total
        /\ isDone \in BOOLEAN /\ taken \in Int /\ Total \in Nat /\ TypeOK
    BY <1>1, UserSame DEF Inv
  <1>3. /\ call' = "idle" /\ at' = "user"
        /\ isDone => taken' = -1
        /\ ~ isDone => taken' = taken + 1 /\ Entered = taken + 1 /\ Given
    BY NoBodyReturns, BodyReturns
  <1>4. ~ isDone => taken + 1 \in 1..Total
    BY <1>2, <1>3, GivenUnit
  <1>5. OverInv'
    BY <1>2, <1>3, <1>4 DEF OverInv
  <1>6. IdleInv' /\ OpenInv' /\ HeaderInv' /\ LeftInv' /\ BodyInv' /\ Standing'
    BY <1>2, <1>3 DEF IdleInv, OpenInv, HeaderInv, LeftInv, BodyInv, Standing
  <1> QED BY <1>5, <1>6 DEF UserUnits

-----------------------------------------------------------------------------
(* The invariants, and the refinement *)

Gives == SaxUnits /\ UserUnits

\* both hold at first
LEMMA GivesInit ==
    ASSUME Init
    PROVE  Gives
  <1>1. SaxUnits
    BY InitUnits
  <1>2. TypeOK
    BY InitType
  <1>3. /\ call = "open" /\ at = "enter" /\ taken = 0 /\ isDone = FALSE /\ calls = << >>
        /\ sax.rootcalled = FALSE
    BY DEF Init, SaxInit
  <1>4. Entered = 0
    <2>1. ~ Pending
      BY <1>3, NoUnitCalls DEF Pending, Has
    <2> QED BY <1>3, <2>1 DEF Entered, Known
  <1>5. Total \in Nat
    BY <1>2, DocFacts, UnitsFinite DEF Total
  <1>6. UserUnits
    BY <1>3, <1>4, <1>5 DEF UserUnits, Standing, OverInv, OpenInv, IdleInv, HeaderInv, LeftInv, BodyInv
  <1> QED BY <1>1, <1>6 DEF Gives

\* and every step keeps them, for a document the library writes
LEMMA GivesStep ==
    ASSUME Inv, Told, Placed, Gives, SrcML(doc), [Next]_vars
    PROVE  Gives'
  <1>1. SaxUnits /\ UserUnits
    BY DEF Gives
  <1>2. CASE Parser
    BY <1>1, <1>2, ParserUnits, ParserUser DEF Gives
  <1>3. CASE Continues \/ Call \/ Free
    <2>1. SaxUnits'
      BY <1>1, <1>3, UserFrame, UnitsKept
    <2>2. CASE ~ Live \/ ~ Live'
      <3>1. ~ Live'
        BY <1>3, <2>2 DEF Live, Continues, Call, Free, EnterWait, EnterResume, Wait, Wake,
           HeaderDone, BodyBegins, NoBody, BodyDone, Stop, Resume, Join, Reaches, Returns
      <3> QED BY <2>1, <3>1 DEF Gives, UserUnits
    <2>3. CASE Live /\ Live'
      <3>1. ~ Free /\ ~ Stop /\ ~ Resume /\ ~ Join
        BY <2>3 DEF Live, Free, Stop, Resume, Join, Reaches
      <3>2. UserUnits'
        BY <1>1, <1>3, <2>3, <3>1, WaitUnits, OpenedUnits, WokenUnits, CallUnits, HeaderDoneUnits,
           BodyBeginsUnits, ReturnUnits DEF Continues
      <3> QED BY <2>1, <3>2 DEF Gives
    <2> QED BY <2>2, <2>3
  <1>4. CASE UNCHANGED vars
    <2> USE <1>4 DEF vars, parserVars, flagVars, userVars
    <2>1. SaxUnits'
      BY <1>1, UnitsKept
    <2>2. Known' = Known /\ Pending' = Pending /\ Total' = Total /\ Given' = Given
      BY DEF Known, Pending, Has, Total, Given
    <2>3. Entered' = Entered
      BY <2>2 DEF Entered
    <2>4. Live => Standing' /\ OverInv' /\ OpenInv' /\ IdleInv' /\ LeftInv'
      BY <1>1, <2>2, <2>3 DEF UserUnits, Standing, OverInv, OpenInv, IdleInv, LeftInv
    <2>5. Live => HeaderInv'
      BY <1>1, <2>2, <2>3 DEF UserUnits, HeaderInv, AtHeader
    <2>6. Live => BodyInv'
      <3>1. Has("endUnit")' = Has("endUnit")
        BY DEF Has
      <3>2. InUnit(object.attrs)' = InUnit(object.attrs)
        BY <3>1 DEF InUnit, Gathered, Collecting, Has
      <3> QED BY <1>1, <2>2, <2>3, <3>1, <3>2 DEF UserUnits, BodyInv
    <2>7. Live' = Live
      BY DEF Live
    <2> QED BY <2>1, <2>4, <2>5, <2>6, <2>7 DEF Gives, UserUnits
  <1> QED BY <1>2, <1>3, <1>4 DEF Next, Terminating

\* what the refinement mapping makes of the state
LEMMA Mapped ==
    ASSUME TypeOK
    PROVE  /\ Units[doc] = UnitsIn(doc) /\ Len(Units[doc]) = Total /\ Total \in Nat
           /\ taken \in Int
  BY DocFacts, UnitsAre, UnitsFinite DEF TypeOK, Units, Total

\* what a call that returns does is a step of the unit stream
LEMMA ReturnImplements ==
    ASSUME Inv, Placed, UserUnits, NoBody \/ BodyDone
    PROVE  Abstract!Next
  <1> DEFINE next == IF taken = -1 THEN Len(Units[doc]) + 1 ELSE taken + 1
  <1>1. call = "body" /\ doc' = doc
    BY DEF NoBody, BodyDone, userFrame
  <1>2. Live /\ TypeOK
    BY <1>1 DEF Live, Inv
  <1>3. /\ Units[doc] = UnitsIn(doc) /\ Len(Units[doc]) = Total /\ Total \in Nat
        /\ taken \in Int /\ Units[doc'] = Units[doc]
    BY <1>1, <1>2, Mapped
  <1>4. taken = -1 => isDone
    BY <1>2 DEF UserUnits, OverInv
  <1>5. ASSUME Given
        PROVE  /\ taken + 1 \in 1..Total
               /\ Units[doc][taken + 1].from = object.attrs
               /\ Units[doc][taken + 1].text = TextOf(doc, object.attrs)
               /\ Units[doc][taken + 1] = [from |-> object.attrs, text |-> TextOf(doc, object.attrs)]
    BY <1>2, <1>3, <1>5, GivenUnit
  <1>6. /\ ~ (call \in {"free", "freed"})
        /\ call' = "idle" => (call' \in {"free", "freed"}) = (call \in {"free", "freed"})
    BY <1>1
  <1>7. ASSUME taken' = taken + 1, Given
        PROVE  next = taken + 1 /\ next' = next + 1 /\ next \in 1..Total
    BY <1>3, <1>5, <1>7
  <1>8. ASSUME taken' = -1
        PROVE  next' = Len(Units[doc]) + 1
    BY <1>3, <1>8
  <1>9. CASE NoBody /\ ~ isDone
    <2>1. /\ result' = [from |-> object.attrs, text |-> {}] /\ taken' = taken + 1
          /\ Given /\ call' = "idle"
      BY <1>2, <1>9, NoBodyReturns
    <2>2. next = taken + 1 /\ next' = next + 1 /\ next <= Len(Units[doc])
      BY <1>3, <1>7, <2>1
    <2>3. result' = [from |-> Units[doc][next].from, text |-> {}]
      BY <1>5, <2>1, <2>2
    <2> QED BY <1>3, <1>6, <2>1, <2>2, <2>3 DEF Abstract!Next, Abstract!Skip, Abstract!Exists
  <1>10. CASE NoBody /\ isDone
    <2>1. result' = Nothing /\ taken' = -1 /\ taken \in {-1, Total} /\ call' = "idle"
      BY <1>2, <1>10, NoBodyReturns
    <2>2. next' = Len(Units[doc]) + 1 /\ ~ (next <= Len(Units[doc]))
      BY <1>3, <1>8, <2>1
    <2> QED BY <1>3, <1>6, <2>1, <2>2 DEF Abstract!Next, Abstract!End, Abstract!Readable,
               Abstract!Exists
  <1>11. CASE BodyDone /\ ~ isDone
    <2>1. /\ result' = [from |-> object.attrs, text |-> TextOf(doc, object.attrs)]
          /\ taken' = taken + 1 /\ TextOf(doc, object.attrs) # {} /\ Given /\ call' = "idle"
      BY <1>2, <1>11, BodyReturns
    <2>2. next = taken + 1 /\ next' = next + 1 /\ next <= Len(Units[doc])
      BY <1>3, <1>7, <2>1
    <2>3. result' = Units[doc][next] /\ Units[doc][next].text # {}
      BY <1>5, <2>1, <2>2
    <2> QED BY <1>3, <1>6, <2>1, <2>2, <2>3 DEF Abstract!Next, Abstract!Read,
               Abstract!Readable, Abstract!Exists
  <1>12. CASE BodyDone /\ isDone
    <2>1. /\ result' = Nothing /\ taken' = -1 /\ TextOf(doc, object.attrs) = {}
          /\ Given /\ call' = "idle"
      BY <1>2, <1>12, BodyReturns
    <2>2. next' = Len(Units[doc]) + 1
      BY <1>8, <2>1
    <2>3. taken # -1 => next = taken + 1
      OBVIOUS
    <2>4. taken # -1 => Units[doc][next].text = {}
      BY <1>5, <2>1, <2>3
    <2>5. taken = -1 => ~ (next <= Len(Units[doc]))
      BY <1>3
    <2> QED BY <1>3, <1>6, <2>1, <2>2, <2>4, <2>5 DEF Abstract!Next, Abstract!End,
               Abstract!Readable, Abstract!Exists
  <1> QED BY <1>9, <1>10, <1>11, <1>12

\* a step that neither returns nor frees is not seen
LEMMA Unseen ==
    ASSUME TypeOK, UNCHANGED <<doc, taken, result>>,
           (call' \in {"free", "freed"}) <=> (call \in {"free", "freed"})
    PROVE  UNCHANGED Abstract!vars
  BY DEF Abstract!vars

\* every step of the reader is one of the unit stream, or is not seen
LEMMA StepImplements ==
    ASSUME Inv, Told, Placed, Gives, [Next]_vars
    PROVE  [Abstract!Next]_(Abstract!vars)
  <1>1. TypeOK /\ UserUnits
    BY DEF Inv, Gives
  <1>2. CASE Parser
    <2>1. UNCHANGED <<doc, taken, result, call>>
      BY <1>1, <1>2, ParserFrame
    <2> QED BY <1>1, <2>1, Unseen
  <1>3. CASE NoBody \/ BodyDone
    BY <1>1, <1>3, ReturnImplements
  <1>4. CASE EnterWait \/ EnterResume \/ Wait \/ Wake \/ HeaderDone \/ BodyBegins
             \/ Stop \/ Resume \/ Join \/ Call
    <2>1. UNCHANGED <<doc, taken, result>>
      BY <1>4 DEF EnterWait, EnterResume, Wait, Wake, HeaderDone, BodyBegins, Stop, Resume,
         Join, Call, userFrame, history
    <2>2. \/ call' = call
          \/ call \in {"open", "idle", "header"} /\ call' \in {"idle", "header", "body"}
          \/ call = "free" /\ call' = "freed"
      BY <1>4 DEF EnterWait, EnterResume, Wait, Wake, HeaderDone, BodyBegins, Stop, Resume,
         Join, Call, Reaches
    <2> QED BY <1>1, <2>1, <2>2, Unseen
  <1>5. CASE Free
    <2>1. /\ call = "idle" /\ call' = "free" /\ UNCHANGED <<doc, taken, result>>
      BY <1>5 DEF Free, Reaches, userFrame, history
    <2> QED BY <2>1 DEF Abstract!Next, Abstract!Free
  <1>6. CASE UNCHANGED vars
    BY <1>1, <1>6, Unseen DEF vars, userVars
  <1> QED BY <1>2, <1>3, <1>4, <1>5, <1>6 DEF Next, Continues, Terminating

\* Reading an archive that is what the library writes, whole or broken off
\* anywhere, returns its units in order, each once and with its own text,
\* whatever is skipped, and no unit after the last.
THEOREM Refinement ==
    ASSUME \A d \in Documents : SrcML(d)
    PROVE  Spec => ImplementsUnitStream
  <1>1. Init => Abstract!Init
    <2> SUFFICES ASSUME Init PROVE Abstract!Init
      OBVIOUS
    <2>1. taken = 0 /\ result = Nothing /\ call = "open"
      BY DEF Init
    <2> QED BY <2>1 DEF Abstract!Init
  <1>2. TypeOK => SrcML(doc)
    BY DEF TypeOK
  <1>3. Inv /\ Told /\ Placed /\ Gives /\ [Next]_vars => Gives'
    BY <1>2, GivesStep DEF Inv
  <1>4. Inv /\ Told /\ Placed /\ Gives /\ [Next]_vars => [Abstract!Next]_(Abstract!vars)
    BY StepImplements
  <1>5. Init => Gives
    BY GivesInit
  <1> QED BY <1>1, <1>3, <1>4, <1>5, InvInit, InvStep, ToldInit, ToldStep, PlacedInit, PlacedStep,
             PTL DEF Spec, ImplementsUnitStream, Abstract!Spec
=============================================================================

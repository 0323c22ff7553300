-------------------------- MODULE ParseUnit_proofs --------------------------
(***************************************************************************)
(* No character of a program is lost, doubled or moved on its way through  *)
(* the buffers of the parser and of its output, whatever the rules of the  *)
(* grammar do.                                                             *)
(***************************************************************************)
EXTENDS ParseUnit, SequenceFacts, FiniteSetTheorems

-----------------------------------------------------------------------------
(* The text that tokens, pieces and a part of a program stand for.  The    *)
(* program is a parameter here, so that facts about it hold in every state *)

TokenShows(pr, t) ==
    CASE t.type = "CONTROL_CHAR" -> <<0>>
      [] t.tag = "text" /\ t.at <= Len(pr) /\ pr[t.at].text # << >> -> <<t.at>>
      [] OTHER -> << >>

PieceShows(x) ==
    CASE x.kind = "text" -> <<x.at>>
      [] x.kind = "<" /\ x.name = "CONTROL_CHAR" -> <<0>>
      [] OTHER -> << >>

ProgramShows(pr, i) ==
    CASE pr[i].type = "CONTROL_CHAR" -> <<0>>
      [] pr[i].type # "CONTROL_CHAR" /\ i <= Len(pr) /\ pr[i].text # << >> -> <<i>>
      [] OTHER -> << >>

Tokens(pr, s) == FlattenSeq([i \in DOMAIN s |-> TokenShows(pr, s[i])])
Pieces(s) == FlattenSeq([i \in DOMAIN s |-> PieceShows(s[i])])

\* the text before the token n
Source(pr, n) ==
    FlattenSeq([i \in 1..(IF n - 1 <= Len(pr) THEN n - 1 ELSE Len(pr)) |->
                   ProgramShows(pr, i)])

\* tokens that stand for text of the program
TokensIn(pr, S) == \A t \in S : TokenShows(pr, t) \in Seq(Nat)

LEMMA TokensSpread ==
    ASSUME NEW pr, NEW S, TokensIn(pr, S)
    PROVE  LET F == [t \in S |-> TokenShows(pr, t)]
           IN  /\ Spreads(F, S, Nat)
               /\ \A s \in Seq(S) : Tokens(pr, s) = Spread(F, s)
  <1> DEFINE F == [t \in S |-> TokenShows(pr, t)]
  <1>1. Spreads(F, S, Nat)
    BY DEF Spreads, TokensIn
  <1>2. ASSUME NEW s \in Seq(S)
        PROVE  Tokens(pr, s) = Spread(F, s)
    <2>1. \A i \in DOMAIN s : s[i] \in S
      OBVIOUS
    <2>2. [i \in DOMAIN s |-> TokenShows(pr, s[i])] = [i \in DOMAIN s |-> F[s[i]]]
      BY <2>1
    <2> QED BY <2>2 DEF Tokens, Spread
  <1> QED BY <1>1, <1>2

LEMMA TokensType ==
    ASSUME NEW pr, NEW S, TokensIn(pr, S), NEW s \in Seq(S)
    PROVE  Tokens(pr, s) \in Seq(Nat)
  <1> DEFINE F == [t \in S |-> TokenShows(pr, t)]
  <1>1. Spreads(F, S, Nat) /\ \A u \in Seq(S) : Tokens(pr, u) = Spread(F, u)
    BY TokensSpread
  <1> HIDE DEF F
  <1> QED BY <1>1, SpreadType

LEMMA TokensEmpty ==
    ASSUME NEW pr
    PROVE  Tokens(pr, << >>) = << >>
  <1>1. [i \in DOMAIN << >> |-> TokenShows(pr, << >>[i])] = << >>
    OBVIOUS
  <1> QED BY <1>1, FlattenEmpty DEF Tokens

LEMMA TokensConcat ==
    ASSUME NEW pr, NEW S, TokensIn(pr, S), NEW s \in Seq(S), NEW t \in Seq(S)
    PROVE  Tokens(pr, s \o t) = Tokens(pr, s) \o Tokens(pr, t)
  <1> DEFINE F == [x \in S |-> TokenShows(pr, x)]
  <1>1. Spreads(F, S, Nat) /\ \A u \in Seq(S) : Tokens(pr, u) = Spread(F, u)
    BY TokensSpread
  <1> HIDE DEF F
  <1>2. Spread(F, s \o t) = Spread(F, s) \o Spread(F, t)
    BY <1>1, SpreadConcat
  <1>3. s \o t \in Seq(S)
    OBVIOUS
  <1> QED BY <1>1, <1>2, <1>3

LEMMA TokensAppend ==
    ASSUME NEW pr, NEW S, TokensIn(pr, S), NEW s \in Seq(S), NEW x \in S
    PROVE  Tokens(pr, Append(s, x)) = Tokens(pr, s) \o TokenShows(pr, x)
  <1> DEFINE F == [t \in S |-> TokenShows(pr, t)]
  <1>1. Spreads(F, S, Nat) /\ \A u \in Seq(S) : Tokens(pr, u) = Spread(F, u)
    BY TokensSpread
  <1>2. F[x] = TokenShows(pr, x)
    OBVIOUS
  <1> HIDE DEF F
  <1>3. Spread(F, Append(s, x)) = Spread(F, s) \o F[x]
    BY <1>1, SpreadAppend
  <1>4. Append(s, x) \in Seq(S)
    OBVIOUS
  <1> QED BY <1>1, <1>2, <1>3, <1>4

LEMMA TokensTail ==
    ASSUME NEW pr, NEW S, TokensIn(pr, S), NEW s \in Seq(S), s # << >>
    PROVE  Tokens(pr, s) = TokenShows(pr, Head(s)) \o Tokens(pr, Tail(s))
  <1> DEFINE F == [t \in S |-> TokenShows(pr, t)]
  <1>1. Spreads(F, S, Nat) /\ \A u \in Seq(S) : Tokens(pr, u) = Spread(F, u)
    BY TokensSpread
  <1>2. Head(s) \in S /\ Tail(s) \in Seq(S)
    OBVIOUS
  <1>3. F[Head(s)] = TokenShows(pr, Head(s))
    BY <1>2
  <1> HIDE DEF F
  <1>4. Spread(F, s) = F[Head(s)] \o Spread(F, Tail(s))
    BY <1>1, SpreadTail
  <1> QED BY <1>1, <1>2, <1>3, <1>4

\* changing what a token does not show changes nothing
LEMMA TokensSame ==
    ASSUME NEW pr, NEW s, NEW t, DOMAIN s = DOMAIN t,
           \A i \in DOMAIN s : TokenShows(pr, s[i]) = TokenShows(pr, t[i])
    PROVE  Tokens(pr, s) = Tokens(pr, t)
  BY DEF Tokens

LEMMA PiecesAppend ==
    ASSUME NEW S, \A y \in S : PieceShows(y) \in Seq(Nat),
           NEW s \in Seq(S), NEW x \in S
    PROVE  /\ Pieces(Append(s, x)) = Pieces(s) \o PieceShows(x)
           /\ Pieces(s) \in Seq(Nat)
  <1> DEFINE F == [y \in S |-> PieceShows(y)]
  <1>1. Spreads(F, S, Nat)
    BY DEF Spreads
  <1>2. ASSUME NEW u \in Seq(S)
        PROVE  Pieces(u) = Spread(F, u)
    <2>1. \A i \in DOMAIN u : u[i] \in S
      OBVIOUS
    <2>2. [i \in DOMAIN u |-> PieceShows(u[i])] = [i \in DOMAIN u |-> F[u[i]]]
      BY <2>1
    <2> QED BY <2>2 DEF Pieces, Spread
  <1>3. F[x] = PieceShows(x)
    OBVIOUS
  <1> HIDE DEF F
  <1>4. Spread(F, Append(s, x)) = Spread(F, s) \o F[x] /\ Spread(F, s) \in Seq(Nat)
    <2>1. Spread(F, s) \in Seq(Nat)
      BY <1>1, SpreadType
    <2> QED BY <1>1, <2>1, SpreadAppend
  <1>5. Append(s, x) \in Seq(S)
    OBVIOUS
  <1> QED BY <1>2, <1>3, <1>4, <1>5

ProgramSet == Seq([type : Types \ {"EOF"}, text : Seq(STRING)])

LEMMA ProgramShowsType ==
    ASSUME NEW pr \in ProgramSet, NEW i \in 1..Len(pr)
    PROVE  ProgramShows(pr, i) \in Seq(Nat)
  BY DEF ProgramShows

LEMMA SourceType ==
    ASSUME NEW pr \in ProgramSet, NEW n \in Nat \ {0}
    PROVE  Source(pr, n) \in Seq(Nat)
  <1> DEFINE m == IF n - 1 <= Len(pr) THEN n - 1 ELSE Len(pr)
             s == [i \in 1..m |-> ProgramShows(pr, i)]
  <1>1. m \in 0..Len(pr) /\ Len(pr) \in Nat
    BY DEF ProgramSet
  <1>2. \A i \in 1..m : ProgramShows(pr, i) \in Seq(Nat)
    BY <1>1, ProgramShowsType
  <1>3. s \in Seq(Seq(Nat))
    BY <1>1, <1>2, IsASeq
  <1> QED BY <1>3, FlattenType DEF Source

\* one token more
LEMMA SourceNext ==
    ASSUME NEW pr \in ProgramSet, NEW n \in 1..Len(pr)
    PROVE  Source(pr, n + 1) = Source(pr, n) \o ProgramShows(pr, n)
  <1> DEFINE s == [i \in 1..(n - 1) |-> ProgramShows(pr, i)]
             t == [i \in 1..n |-> ProgramShows(pr, i)]
             x == ProgramShows(pr, n)
  <1>1. Len(pr) \in Nat
    BY DEF ProgramSet
  <1>2. /\ Source(pr, n) = FlattenSeq(s)
        /\ Source(pr, n + 1) = FlattenSeq(t)
    <2>1. (IF n - 1 <= Len(pr) THEN n - 1 ELSE Len(pr)) = n - 1
      BY <1>1
    <2>2. (IF (n + 1) - 1 <= Len(pr) THEN (n + 1) - 1 ELSE Len(pr)) = n
      BY <1>1
    <2> QED BY <2>1, <2>2 DEF Source
  <1>3. \A i \in 1..n : ProgramShows(pr, i) \in Seq(Nat)
    BY <1>1, ProgramShowsType
  <1>4. s \in Seq(Seq(Nat)) /\ Len(s) = n - 1
    BY <1>1, <1>3
  <1>5. t \in Seq(Seq(Nat)) /\ Len(t) = n
    BY <1>1, <1>3
  <1>6. x \in Seq(Nat) /\ t[n] = x /\ \A i \in 1..(n - 1) : t[i] = s[i]
    BY <1>1, <1>3
  <1> HIDE DEF s, t, x
  <1>7. t = Append(s, x)
    <2>1. Append(s, x) \in Seq(Seq(Nat)) /\ Len(Append(s, x)) = n
      BY <1>1, <1>4, <1>6
    <2>2. \A i \in 1..n : t[i] = Append(s, x)[i]
      BY <1>1, <1>4, <1>6
    <2> QED BY <1>5, <2>1, <2>2, SeqEqual
  <1>8. FlattenSeq(t) = FlattenSeq(s) \o x
    BY <1>4, <1>6, <1>7, FlattenAppend
  <1> QED BY <1>2, <1>8 DEF x

\* at the end of the program there is no more
LEMMA SourceEnd ==
    ASSUME NEW pr \in ProgramSet, NEW n \in Nat, n > Len(pr)
    PROVE  Source(pr, n + 1) = Source(pr, n)
  <1>1. Len(pr) \in Nat
    BY DEF ProgramSet
  <1>2. (IF n - 1 <= Len(pr) THEN n - 1 ELSE Len(pr)) = Len(pr)
    BY <1>1
  <1>3. (IF (n + 1) - 1 <= Len(pr) THEN (n + 1) - 1 ELSE Len(pr)) = Len(pr)
    BY <1>1
  <1> QED BY <1>2, <1>3 DEF Source

-----------------------------------------------------------------------------
(* The states of a parser *)

\* the names of elements, as the grammar and the parser give them
Name == Elements \cup {"SUNIT", "SNOP", "SCOMMENT", "SLINECOMMENT", "SATTRIBUTE",
                       "cpp", "directive", Statement}

\* text of the program, or a tag; a control character is an empty element
TokenOf(pr) ==
    {t \in [tag : {"text", "start", "end", "empty"},
            type : Name \cup {"text", "CONTROL_CHAR"}, at : Nat] :
        /\ t.tag = "text" => t.type = "text" /\ t.at \in 1..(Len(pr) + 1)
        /\ t.type = "CONTROL_CHAR" => t.tag = "empty"}

Parser(pr) ==
    [st : Seq([flag : Flags, open : Seq(Name)]),
     out : [Buffers -> Seq(TokenOf(pr))],
     skip : [Buffers -> Seq(TokenOf(pr))],
     using : Buffers,
     inskip : BOOLEAN,
     inAttribute : BOOLEAN,
     paused : Nat,
     comments : Seq(Name),
     at : Nat \ {0}]

\* the second pair of buffers is empty when it is not in use, and the token of
\* a pause is the start tag of a statement
Good(pr, p) ==
    /\ p \in Parser(pr)
    /\ p.using = "main" => p.out["pre"] = << >> /\ p.skip["pre"] = << >>
    /\ p.paused > 0 => /\ p.paused <= Len(p.out["main"])
                       /\ p.out["main"][p.paused].tag = "start"
                       /\ p.out["main"][p.paused].type = Statement

\* what waits in the buffers, in the order it will be written
Waiting(pr, p) ==
    Tokens(pr, p.out["main"]) \o Tokens(pr, p.skip["main"])
        \o Tokens(pr, p.out["pre"]) \o Tokens(pr, p.skip["pre"])

\* all but the buffers
SameControl(p, q) ==
    /\ q.st = p.st /\ q.using = p.using
    /\ q.inskip = p.inskip /\ q.inAttribute = p.inAttribute
    /\ q.paused = p.paused /\ q.comments = p.comments /\ q.at = p.at

LEMMA TokenFacts ==
    ASSUME NEW pr \in ProgramSet
    PROVE  /\ TokensIn(pr, TokenOf(pr))
           /\ \A i \in 1..(Len(pr) + 1) : Text(i) \in TokenOf(pr)
           /\ \A e \in Name :
                /\ StartTag(e) \in TokenOf(pr) /\ TokenShows(pr, StartTag(e)) = << >>
                /\ EndTag(e) \in TokenOf(pr) /\ TokenShows(pr, EndTag(e)) = << >>
                /\ EmptyTag(e, 0) \in TokenOf(pr)
                /\ TokenShows(pr, EmptyTag(e, 0)) = << >>
           /\ \A i \in Nat : /\ EmptyTag("CONTROL_CHAR", i) \in TokenOf(pr)
                             /\ TokenShows(pr, EmptyTag("CONTROL_CHAR", i)) = <<0>>
  <1>1. TokensIn(pr, TokenOf(pr))
    BY DEF TokensIn, TokenOf, TokenShows
  <1>2. \A i \in 1..(Len(pr) + 1) : Text(i) \in TokenOf(pr)
    BY DEF TokenOf, Text, ProgramSet
  <1>3. \A e \in Name :
           /\ StartTag(e) \in TokenOf(pr) /\ TokenShows(pr, StartTag(e)) = << >>
           /\ EndTag(e) \in TokenOf(pr) /\ TokenShows(pr, EndTag(e)) = << >>
           /\ EmptyTag(e, 0) \in TokenOf(pr)
           /\ TokenShows(pr, EmptyTag(e, 0)) = << >>
    BY ElementsAssumption
    DEF TokenOf, TokenShows, Name, StartTag, EndTag, EmptyTag, Statement
  <1>4. \A i \in Nat : /\ EmptyTag("CONTROL_CHAR", i) \in TokenOf(pr)
                       /\ TokenShows(pr, EmptyTag("CONTROL_CHAR", i)) = <<0>>
    BY DEF TokenOf, TokenShows, EmptyTag
  <1> QED BY <1>1, <1>2, <1>3, <1>4

\* the buffers that a parser appends to keep what makes it good
LEMMA GoodBuffers ==
    ASSUME NEW pr \in ProgramSet, NEW p, Good(pr, p), NEW q \in Parser(pr),
           SameControl(p, q), NEW u \in Seq(TokenOf(pr)),
           q.out["main"] = p.out["main"] \o u,
           p.using = "main" => q.out["pre"] = << >> /\ q.skip["pre"] = << >>
    PROVE  Good(pr, q)
  <1>1. /\ p.out["main"] \in Seq(TokenOf(pr)) /\ p.paused \in Nat
        /\ q.using = p.using /\ q.paused = p.paused
    BY DEF Good, Parser, SameControl, Buffers
  <1>2. /\ Len(p.out["main"]) <= Len(q.out["main"])
        /\ \A i \in 1..Len(p.out["main"]) : q.out["main"][i] = p.out["main"][i]
    BY <1>1
  <1>3. p.paused > 0 => p.paused \in 1..Len(p.out["main"])
    BY <1>1 DEF Good
  <1> QED BY <1>1, <1>2, <1>3 DEF Good

LEMMA BufferTypes ==
    ASSUME NEW pr \in ProgramSet, NEW p, Good(pr, p)
    PROVE  /\ p \in Parser(pr) /\ p.using \in Buffers
           /\ p.out \in [Buffers -> Seq(TokenOf(pr))]
           /\ p.skip \in [Buffers -> Seq(TokenOf(pr))]
           /\ p.out["main"] \in Seq(TokenOf(pr)) /\ p.out["pre"] \in Seq(TokenOf(pr))
           /\ p.skip["main"] \in Seq(TokenOf(pr)) /\ p.skip["pre"] \in Seq(TokenOf(pr))
  BY DEF Good, Parser, Buffers

LEMMA WaitingTypes ==
    ASSUME NEW pr \in ProgramSet, NEW p, Good(pr, p)
    PROVE  /\ Tokens(pr, p.out["main"]) \in Seq(Nat)
           /\ Tokens(pr, p.skip["main"]) \in Seq(Nat)
           /\ Tokens(pr, p.out["pre"]) \in Seq(Nat)
           /\ Tokens(pr, p.skip["pre"]) \in Seq(Nat)
           /\ Waiting(pr, p) \in Seq(Nat)
           /\ p.using = "main" => /\ Tokens(pr, p.out["pre"]) = << >>
                                  /\ Tokens(pr, p.skip["pre"]) = << >>
  <1>1. \A s \in Seq(TokenOf(pr)) : Tokens(pr, s) \in Seq(Nat)
    BY TokenFacts, TokensType
  <1>2. /\ Tokens(pr, p.out["main"]) \in Seq(Nat)
        /\ Tokens(pr, p.skip["main"]) \in Seq(Nat)
        /\ Tokens(pr, p.out["pre"]) \in Seq(Nat)
        /\ Tokens(pr, p.skip["pre"]) \in Seq(Nat)
    BY <1>1, BufferTypes
  <1>3. p.using = "main" => /\ Tokens(pr, p.out["pre"]) = << >>
                            /\ Tokens(pr, p.skip["pre"]) = << >>
    BY TokensEmpty DEF Good
  <1> QED BY <1>2, <1>3 DEF Waiting

\* sequences of numbers put together in any order of brackets
LEMMA Brackets ==
    ASSUME NEW a \in Seq(Nat), NEW b \in Seq(Nat), NEW c \in Seq(Nat)
    PROVE  /\ a \o b \in Seq(Nat)
           /\ (a \o b) \o c = a \o (b \o c)
           /\ a \o << >> = a /\ << >> \o a = a
  BY ConcatAssociative

\* concatenation, without what the provers know of its elements
Then(s, t) == s \o t

LEMMA ThenFacts ==
    ASSUME NEW a \in Seq(Nat), NEW b \in Seq(Nat), NEW c \in Seq(Nat)
    PROVE  /\ Then(a, b) \in Seq(Nat)
           /\ Then(Then(a, b), c) = Then(a, Then(b, c))
           /\ Then(a, << >>) = a /\ Then(<< >>, a) = a
  BY ConcatAssociative DEF Then

LEMMA ThenNothing ==
    ASSUME NEW a \in Seq(Nat)
    PROVE  Then(a, << >>) = a /\ Then(<< >>, a) = a /\ << >> \in Seq(Nat)
  BY Brackets DEF Then

LEMMA AppendShows ==
    ASSUME NEW pr \in ProgramSet, NEW s \in Seq(TokenOf(pr)), NEW t \in TokenOf(pr)
    PROVE  /\ Append(s, t) \in Seq(TokenOf(pr))
           /\ Tokens(pr, s) \in Seq(Nat)
           /\ TokenShows(pr, t) \in Seq(Nat)
           /\ Tokens(pr, Append(s, t)) = Tokens(pr, s) \o TokenShows(pr, t)
           /\ TokenShows(pr, t) = << >> => Tokens(pr, Append(s, t)) = Tokens(pr, s)
  <1> DEFINE S == TokenOf(pr)
  <1>1. TokensIn(pr, S)
    BY TokenFacts
  <1>2. t \in S /\ s \in Seq(S)
    OBVIOUS
  <1> HIDE DEF S
  <1>3. Append(s, t) \in Seq(S)
    BY <1>2
  <1>4. Tokens(pr, s) \in Seq(Nat)
    BY <1>1, <1>2, TokensType
  <1>5. TokenShows(pr, t) \in Seq(Nat)
    BY <1>1, <1>2 DEF TokensIn
  <1>6. Tokens(pr, Append(s, t)) = Tokens(pr, s) \o TokenShows(pr, t)
    BY <1>1, <1>2, TokensAppend
  <1>7. TokenShows(pr, t) = << >> => Tokens(pr, Append(s, t)) = Tokens(pr, s)
    BY <1>4, <1>6
  <1> QED BY <1>3, <1>4, <1>5, <1>6, <1>7 DEF S

LEMMA ConcatShows ==
    ASSUME NEW pr \in ProgramSet, NEW s \in Seq(TokenOf(pr)),
           NEW t \in Seq(TokenOf(pr))
    PROVE  /\ s \o t \in Seq(TokenOf(pr))
           /\ Tokens(pr, s) \in Seq(Nat)
           /\ Tokens(pr, t) \in Seq(Nat)
           /\ Tokens(pr, s \o t) = Tokens(pr, s) \o Tokens(pr, t)
  <1> DEFINE S == TokenOf(pr)
  <1>1. TokensIn(pr, S)
    BY TokenFacts
  <1>2. t \in Seq(S) /\ s \in Seq(S)
    OBVIOUS
  <1> HIDE DEF S
  <1>3. s \o t \in Seq(S)
    BY <1>2
  <1>4. Tokens(pr, s) \in Seq(Nat) /\ Tokens(pr, t) \in Seq(Nat)
    BY <1>1, <1>2, TokensType
  <1>5. Tokens(pr, s \o t) = Tokens(pr, s) \o Tokens(pr, t)
    BY <1>1, <1>2, TokensConcat
  <1> QED BY <1>3, <1>4, <1>5 DEF S

LEMMA GoodSame ==
    ASSUME NEW pr \in ProgramSet, NEW p, Good(pr, p), NEW q \in Parser(pr),
           SameControl(p, q), q.out["main"] = p.out["main"],
           p.using = "main" => q.out["pre"] = << >> /\ q.skip["pre"] = << >>
    PROVE  Good(pr, q)
  BY DEF Good, SameControl

LEMMA GoodAppend ==
    ASSUME NEW pr \in ProgramSet, NEW p, Good(pr, p), NEW q \in Parser(pr),
           SameControl(p, q), NEW t \in TokenOf(pr),
           q.out["main"] = Append(p.out["main"], t),
           p.using = "main" => q.out["pre"] = << >> /\ q.skip["pre"] = << >>
    PROVE  Good(pr, q)
  <1>1. /\ p.out["main"] \in Seq(TokenOf(pr)) /\ p.paused \in Nat
        /\ q.using = p.using /\ q.paused = p.paused
    BY DEF Good, Parser, SameControl, Buffers
  <1>2. /\ Len(p.out["main"]) <= Len(q.out["main"])
        /\ \A i \in 1..Len(p.out["main"]) : q.out["main"][i] = p.out["main"][i]
    BY <1>1
  <1>3. p.paused > 0 => p.paused \in 1..Len(p.out["main"])
    BY <1>1 DEF Good
  <1> QED BY <1>1, <1>2, <1>3 DEF Good

LEMMA PushToken ==
    ASSUME NEW pr \in ProgramSet, NEW p, Good(pr, p), NEW t \in TokenOf(pr),
           TokenShows(pr, t) = << >>
    PROVE  LET q == pushToken(p, t)
           IN  /\ Good(pr, q) /\ Waiting(pr, q) = Waiting(pr, p) /\ SameControl(p, q)
               /\ q.skip = p.skip
               /\ q.out = [p.out EXCEPT ![p.using] = Append(p.out[p.using], t)]
  <1> DEFINE q == pushToken(p, t)
  <1>1. /\ q.out = [p.out EXCEPT ![p.using] = Append(p.out[p.using], t)]
        /\ q = [p EXCEPT !.out = q.out]
        /\ q.skip = p.skip /\ SameControl(p, q)
    BY BufferTypes DEF pushToken, SameControl, Parser
  <1>2. q.out \in [Buffers -> Seq(TokenOf(pr))]
    BY <1>1, BufferTypes
  <1>3. q \in Parser(pr)
    BY <1>1, <1>2, BufferTypes DEF Parser
  <1> HIDE DEF q
  <1>4. \A s \in Seq(TokenOf(pr)) : Tokens(pr, Append(s, t)) = Tokens(pr, s)
    BY AppendShows
  <1>5. CASE p.using = "main"
    <2>1. /\ q.out["main"] = Append(p.out["main"], t) /\ q.out["pre"] = p.out["pre"]
      BY <1>1, <1>5, BufferTypes DEF Buffers
    <2>3. q.out["pre"] = << >> /\ q.skip["pre"] = << >>
      BY <1>1, <1>5, <2>1 DEF Good
    <2>4. Good(pr, q)
      BY <1>1, <1>3, <2>1, <2>3, GoodAppend
    <2>5. Tokens(pr, q.out["main"]) = Tokens(pr, p.out["main"])
      BY <1>4, <2>1, BufferTypes
    <2>6. Waiting(pr, q) = Waiting(pr, p)
      BY <1>1, <2>1, <2>5 DEF Waiting
    <2> QED BY <1>1, <2>4, <2>6 DEF q
  <1>6. CASE p.using = "pre"
    <2>1. /\ q.out["main"] = p.out["main"] /\ q.out["pre"] = Append(p.out["pre"], t)
      BY <1>1, <1>6, BufferTypes DEF Buffers
    <2>4. Good(pr, q)
      BY <1>1, <1>3, <1>6, <2>1, GoodSame
    <2>5. Tokens(pr, q.out["pre"]) = Tokens(pr, p.out["pre"])
      BY <1>4, <2>1, BufferTypes
    <2>6. Waiting(pr, q) = Waiting(pr, p)
      BY <1>1, <2>1, <2>5 DEF Waiting
    <2> QED BY <1>1, <2>4, <2>6 DEF q
  <1> QED BY <1>5, <1>6, BufferTypes DEF Buffers

LEMMA PushSkip ==
    ASSUME NEW pr \in ProgramSet, NEW p, Good(pr, p), NEW t \in TokenOf(pr)
    PROVE  LET q == pushSkipToken(p, t)
           IN  /\ Good(pr, q) /\ SameControl(p, q) /\ q.out = p.out
               /\ Waiting(pr, q) = Waiting(pr, p) \o TokenShows(pr, t)
  <1> DEFINE q == pushSkipToken(p, t)
             x == TokenShows(pr, t)
  <1>1. /\ q.skip = [p.skip EXCEPT ![p.using] = Append(p.skip[p.using], t)]
        /\ q = [p EXCEPT !.skip = q.skip]
        /\ q.out = p.out /\ SameControl(p, q)
    BY BufferTypes DEF pushSkipToken, SameControl, Parser
  <1>2. q.skip \in [Buffers -> Seq(TokenOf(pr))]
    BY <1>1, BufferTypes
  <1>3. q \in Parser(pr)
    BY <1>1, <1>2, BufferTypes DEF Parser
  <1>a. x \in Seq(Nat)
    BY TokenFacts DEF TokensIn
  <1>b. \A s \in Seq(TokenOf(pr)) : Tokens(pr, Append(s, t)) = Tokens(pr, s) \o x
    BY AppendShows
  <1> HIDE DEF q, x
  <1>5. CASE p.using = "main"
    <2>1. /\ q.skip["main"] = Append(p.skip["main"], t)
          /\ q.skip["pre"] = << >> /\ q.out["pre"] = << >>
      BY <1>1, <1>5, BufferTypes DEF Buffers, Good
    <2>2. Good(pr, q)
      BY <1>1, <1>3, <2>1, GoodSame
    <2>3. Tokens(pr, q.skip["main"]) = Tokens(pr, p.skip["main"]) \o x
      BY <1>b, <2>1, BufferTypes
    <2>4. /\ Tokens(pr, q.skip["pre"]) = << >> /\ Tokens(pr, q.out["pre"]) = << >>
          /\ Tokens(pr, p.skip["pre"]) = << >> /\ Tokens(pr, p.out["pre"]) = << >>
      BY <1>5, <2>1, TokensEmpty, WaitingTypes
    <2> DEFINE a == Tokens(pr, p.out["main"])
               b == Tokens(pr, p.skip["main"])
    <2>5. a \in Seq(Nat) /\ b \in Seq(Nat)
      BY WaitingTypes
    <2>6. /\ Waiting(pr, q) = a \o (b \o x) \o << >> \o << >>
          /\ Waiting(pr, p) = a \o b \o << >> \o << >>
      BY <1>1, <2>3, <2>4 DEF Waiting
    <2> HIDE DEF a, b
    <2>7. (a \o b) \o x = a \o (b \o x) /\ a \o b \in Seq(Nat) /\ b \o x \in Seq(Nat)
          /\ a \o (b \o x) \in Seq(Nat)
      BY <1>a, <2>5, Brackets
    <2>8. Waiting(pr, q) = a \o (b \o x) /\ Waiting(pr, p) = a \o b
      BY <2>6, <2>7
    <2>9. Waiting(pr, q) = Waiting(pr, p) \o x
      BY <2>7, <2>8
    <2> QED BY <1>1, <2>2, <2>9 DEF q, x
  <1>6. CASE p.using = "pre"
    <2>1. /\ q.skip["pre"] = Append(p.skip["pre"], t)
          /\ q.skip["main"] = p.skip["main"]
      BY <1>1, <1>6, BufferTypes DEF Buffers
    <2>2. Good(pr, q)
      BY <1>1, <1>3, <1>6, GoodSame
    <2>3. Tokens(pr, q.skip["pre"]) = Tokens(pr, p.skip["pre"]) \o x
      BY <1>b, <2>1, BufferTypes
    <2> DEFINE a == Tokens(pr, p.out["main"]) \o Tokens(pr, p.skip["main"])
                       \o Tokens(pr, p.out["pre"])
               b == Tokens(pr, p.skip["pre"])
    <2>4. a \in Seq(Nat)
      BY WaitingTypes
    <2>5. /\ Waiting(pr, q) = a \o (b \o x)
          /\ Waiting(pr, p) = a \o b
      BY <1>1, <2>1, <2>3 DEF Waiting
    <2>b. b \in Seq(Nat)
      BY WaitingTypes
    <2> HIDE DEF a, b
    <2>6. (a \o b) \o x = a \o (b \o x)
      BY <1>a, <2>4, <2>b, Brackets
    <2>9. Waiting(pr, q) = Waiting(pr, p) \o x
      BY <2>5, <2>6
    <2> QED BY <1>1, <2>2, <2>9 DEF q, x
  <1> QED BY <1>5, <1>6, BufferTypes DEF Buffers

\* pushing a token that stands for text, when nothing is skipped before it
LEMMA PushLast ==
    ASSUME NEW pr \in ProgramSet, NEW p, Good(pr, p), NEW t \in TokenOf(pr),
           p.skip[p.using] = << >>
    PROVE  LET q == pushToken(p, t)
           IN  /\ Good(pr, q) /\ SameControl(p, q)
               /\ Waiting(pr, q) = Waiting(pr, p) \o TokenShows(pr, t)
  <1> DEFINE q == pushToken(p, t)
             x == TokenShows(pr, t)
  <1>1. /\ q.out = [p.out EXCEPT ![p.using] = Append(p.out[p.using], t)]
        /\ q = [p EXCEPT !.out = q.out]
        /\ q.skip = p.skip /\ SameControl(p, q)
    BY BufferTypes DEF pushToken, SameControl, Parser
  <1>2. q.out \in [Buffers -> Seq(TokenOf(pr))]
    BY <1>1, BufferTypes
  <1>3. q \in Parser(pr)
    BY <1>1, <1>2, BufferTypes DEF Parser
  <1>a. x \in Seq(Nat)
    BY TokenFacts DEF TokensIn
  <1>b. \A s \in Seq(TokenOf(pr)) : Tokens(pr, Append(s, t)) = Tokens(pr, s) \o x
    BY AppendShows
  <1> HIDE DEF q, x
  <1>5. CASE p.using = "main"
    <2>1. /\ q.out["main"] = Append(p.out["main"], t) /\ q.out["pre"] = << >>
          /\ q.skip["pre"] = << >> /\ q.skip["main"] = << >> /\ p.skip["main"] = << >>
      BY <1>1, <1>5, BufferTypes DEF Buffers, Good
    <2>2. Good(pr, q)
      BY <1>1, <1>3, <2>1, GoodAppend
    <2>3. Tokens(pr, q.out["main"]) = Tokens(pr, p.out["main"]) \o x
      BY <1>b, <2>1, BufferTypes
    <2>4. /\ Tokens(pr, q.skip["pre"]) = << >> /\ Tokens(pr, q.out["pre"]) = << >>
          /\ Tokens(pr, p.skip["pre"]) = << >> /\ Tokens(pr, p.out["pre"]) = << >>
          /\ Tokens(pr, p.skip["main"]) = << >> /\ Tokens(pr, q.skip["main"]) = << >>
      BY <1>5, <2>1, TokensEmpty, WaitingTypes
    <2> DEFINE a == Tokens(pr, p.out["main"])
    <2>5. a \in Seq(Nat)
      BY WaitingTypes
    <2>6. /\ Waiting(pr, q) = (a \o x) \o << >> \o << >> \o << >>
          /\ Waiting(pr, p) = a \o << >> \o << >> \o << >>
      BY <2>3, <2>4 DEF Waiting
    <2> HIDE DEF a
    <2>7. a \o x \in Seq(Nat)
      BY <1>a, <2>5, Brackets
    <2>8. Waiting(pr, q) = a \o x /\ Waiting(pr, p) = a
      BY <2>5, <2>6, <2>7
    <2>9. Waiting(pr, q) = Waiting(pr, p) \o x
      BY <2>8
    <2> QED BY <1>1, <2>2, <2>9 DEF q, x
  <1>6. CASE p.using = "pre"
    <2>1. /\ q.out["main"] = p.out["main"] /\ q.out["pre"] = Append(p.out["pre"], t)
          /\ q.skip["pre"] = << >> /\ p.skip["pre"] = << >>
      BY <1>1, <1>6, BufferTypes DEF Buffers
    <2>2. Good(pr, q)
      BY <1>1, <1>3, <1>6, <2>1, GoodSame
    <2>3. Tokens(pr, q.out["pre"]) = Tokens(pr, p.out["pre"]) \o x
      BY <1>b, <2>1, BufferTypes
    <2>c. Tokens(pr, p.skip["pre"]) = << >> /\ Tokens(pr, q.skip["pre"]) = << >>
      BY <2>1, TokensEmpty
    <2> DEFINE a == Tokens(pr, p.out["main"]) \o Tokens(pr, p.skip["main"])
               b == Tokens(pr, p.out["pre"])
    <2>4. a \in Seq(Nat)
      BY WaitingTypes
    <2>b. b \in Seq(Nat)
      BY WaitingTypes
    <2>5. /\ Waiting(pr, q) = a \o (b \o x) \o << >>
          /\ Waiting(pr, p) = a \o b \o << >>
      BY <1>1, <2>1, <2>3, <2>c DEF Waiting
    <2> HIDE DEF a, b
    <2>6. /\ (a \o b) \o x = a \o (b \o x) /\ a \o b \in Seq(Nat)
          /\ b \o x \in Seq(Nat)
      <3>1. /\ Then(Then(a, b), x) = Then(a, Then(b, x))
            /\ Then(a, b) \in Seq(Nat) /\ Then(b, x) \in Seq(Nat)
        BY <1>a, <2>4, <2>b, ThenFacts
      <3> QED BY <3>1 DEF Then
    <2>d. a \o (b \o x) \in Seq(Nat)
      BY <2>4, <2>6, Brackets
    <2>e. /\ a \o (b \o x) \o << >> = a \o (b \o x)
          /\ a \o b \o << >> = a \o b
      <3> DEFINE c == a \o (b \o x)
                 d == a \o b
      <3>1. c \in Seq(Nat) /\ d \in Seq(Nat)
        BY <2>6, <2>d
      <3> HIDE DEF c, d
      <3>2. c \o << >> = c /\ d \o << >> = d
        BY <3>1
      <3> QED BY <3>2 DEF c, d
    <2>7. Waiting(pr, q) = a \o (b \o x) /\ Waiting(pr, p) = a \o b
      BY <2>5, <2>e
    <2>9. Waiting(pr, q) = Waiting(pr, p) \o x
      BY <2>6, <2>7
    <2> QED BY <1>1, <2>2, <2>9 DEF q, x
  <1> QED BY <1>5, <1>6, BufferTypes DEF Buffers

\* other buffers
LEMMA ParserBuffers ==
    ASSUME NEW pr \in ProgramSet, NEW p \in Parser(pr),
           NEW o \in [Buffers -> Seq(TokenOf(pr))],
           NEW s \in [Buffers -> Seq(TokenOf(pr))]
    PROVE  [p EXCEPT !.out = o, !.skip = s] \in Parser(pr)
  <1> DEFINE S == [Buffers -> Seq(TokenOf(pr))]
  <1>1. o \in S /\ s \in S
    OBVIOUS
  <1>2. p \in [st : Seq([flag : Flags, open : Seq(Name)]), out : S, skip : S,
               using : Buffers, inskip : BOOLEAN, inAttribute : BOOLEAN,
               paused : Nat, comments : Seq(Name), at : Nat \ {0}]
    BY DEF Parser
  <1> HIDE DEF S
  <1>3. [p EXCEPT !.out = o, !.skip = s] \in
              [st : Seq([flag : Flags, open : Seq(Name)]), out : S, skip : S,
               using : Buffers, inskip : BOOLEAN, inAttribute : BOOLEAN,
               paused : Nat, comments : Seq(Name), at : Nat \ {0}]
    BY <1>1, <1>2
  <1> QED BY <1>3 DEF Parser, S

LEMMA FlushSkip ==
    ASSUME NEW pr \in ProgramSet, NEW p, Good(pr, p)
    PROVE  LET q == flushSkip(p)
           IN  /\ Good(pr, q) /\ Waiting(pr, q) = Waiting(pr, p) /\ SameControl(p, q)
               /\ q.skip[q.using] = << >>
               /\ q.out = [p.out EXCEPT ![p.using] = @ \o p.skip[p.using]]
  <1> DEFINE q == flushSkip(p)
             u == p.skip[p.using]
  <1>1. /\ q.out = [p.out EXCEPT ![p.using] = @ \o p.skip[p.using]]
        /\ q.skip = [p.skip EXCEPT ![p.using] = << >>]
        /\ q = [p EXCEPT !.out = q.out, !.skip = q.skip]
        /\ SameControl(p, q)
    BY BufferTypes DEF flushSkip, SameControl, Parser
  <1>2. q.out \in [Buffers -> Seq(TokenOf(pr))]
    BY <1>1, BufferTypes
  <1>3. q.skip \in [Buffers -> Seq(TokenOf(pr))]
    BY <1>1, BufferTypes
  <1>4. q \in Parser(pr)
    <2> DEFINE o == q.out
               s == q.skip
    <2>1. /\ p \in Parser(pr) /\ q = [p EXCEPT !.out = o, !.skip = s]
          /\ o \in [Buffers -> Seq(TokenOf(pr))]
          /\ s \in [Buffers -> Seq(TokenOf(pr))]
      BY <1>1, <1>2, <1>3, BufferTypes
    <2> HIDE DEF q, o, s
    <2>2. [p EXCEPT !.out = o, !.skip = s] \in Parser(pr)
      BY <2>1, ParserBuffers
    <2> QED BY <2>1, <2>2
  <1> HIDE DEF q
  <1>7. q.skip[q.using] = << >>
    BY <1>1, BufferTypes DEF SameControl
  <1>5. CASE p.using = "main"
    <2>1. /\ q.out["main"] = p.out["main"] \o p.skip["main"] /\ q.skip["main"] = << >>
          /\ q.out["pre"] = << >> /\ q.skip["pre"] = << >>
      BY <1>1, <1>5, BufferTypes DEF Buffers, Good
    <2> DEFINE v == p.skip["main"]
    <2>c. v \in Seq(TokenOf(pr)) /\ q.out["main"] = p.out["main"] \o v
      BY <2>1, BufferTypes
    <2> HIDE DEF v
    <2>2. Good(pr, q)
      BY <1>1, <1>4, <2>1, <2>c, GoodBuffers
    <2> DEFINE a == Tokens(pr, p.out["main"])
               b == Tokens(pr, p.skip["main"])
    <2>a. /\ Tokens(pr, p.out["main"] \o p.skip["main"])
             = Tokens(pr, p.out["main"]) \o Tokens(pr, p.skip["main"])
      BY BufferTypes, ConcatShows
    <2>3. a \in Seq(Nat) /\ b \in Seq(Nat) /\ Tokens(pr, q.out["main"]) = a \o b
      BY <2>1, <2>a, WaitingTypes
    <2>4. /\ Tokens(pr, q.skip["pre"]) = << >> /\ Tokens(pr, q.out["pre"]) = << >>
          /\ Tokens(pr, p.skip["pre"]) = << >> /\ Tokens(pr, p.out["pre"]) = << >>
          /\ Tokens(pr, q.skip["main"]) = << >>
      BY <1>5, <2>1, TokensEmpty, WaitingTypes
    <2>5. /\ Waiting(pr, q) = (a \o b) \o << >> \o << >> \o << >>
          /\ Waiting(pr, p) = (a \o b) \o << >> \o << >>
      BY <2>3, <2>4 DEF Waiting
    <2> HIDE DEF a, b
    <2>6. a \o b \in Seq(Nat)
      BY <2>3, Brackets
    <2>7. Waiting(pr, q) = Waiting(pr, p)
      BY <2>5, <2>6
    <2> QED BY <1>1, <1>7, <2>2, <2>7 DEF q
  <1>6. CASE p.using = "pre"
    <2>1. /\ q.out["pre"] = p.out["pre"] \o p.skip["pre"] /\ q.skip["pre"] = << >>
          /\ q.out["main"] = p.out["main"] /\ q.skip["main"] = p.skip["main"]
      BY <1>1, <1>6, BufferTypes DEF Buffers
    <2>2. Good(pr, q)
      BY <1>1, <1>4, <1>6, <2>1, GoodSame
    <2> DEFINE a == Tokens(pr, p.out["main"]) \o Tokens(pr, p.skip["main"])
               b == Tokens(pr, p.out["pre"])
               c == Tokens(pr, p.skip["pre"])
    <2>a. /\ Tokens(pr, p.out["pre"] \o p.skip["pre"])
             = Tokens(pr, p.out["pre"]) \o Tokens(pr, p.skip["pre"])
      BY BufferTypes, ConcatShows
    <2>3. b \in Seq(Nat) /\ c \in Seq(Nat) /\ Tokens(pr, q.out["pre"]) = b \o c
      BY <2>1, <2>a, WaitingTypes
    <2>4. Tokens(pr, q.skip["pre"]) = << >> /\ a \in Seq(Nat)
      BY <2>1, TokensEmpty, WaitingTypes
    <2>b. Waiting(pr, q) = a \o (b \o c) \o << >>
      BY <2>1, <2>3, <2>4 DEF Waiting
    <2>5. Waiting(pr, q) = a \o (b \o c) \o << >> /\ Waiting(pr, p) = (a \o b) \o c
      BY <2>b DEF Waiting
    <2> HIDE DEF a, b, c
    <2>6. /\ (a \o b) \o c = a \o (b \o c) /\ b \o c \in Seq(Nat)
      <3>1. /\ Then(Then(a, b), c) = Then(a, Then(b, c))
            /\ Then(b, c) \in Seq(Nat)
        BY <2>3, <2>4, ThenFacts
      <3> QED BY <3>1 DEF Then
    <2>8. a \o (b \o c) \in Seq(Nat)
      BY <2>4, <2>6, Brackets
    <2>9. a \o (b \o c) \o << >> = a \o (b \o c)
      BY <2>8
    <2>7. Waiting(pr, q) = Waiting(pr, p)
      BY <2>5, <2>6, <2>9
    <2> QED BY <1>1, <1>7, <2>2, <2>7 DEF q
  <1> QED BY <1>5, <1>6, BufferTypes DEF Buffers

LEMMA PushFlush ==
    ASSUME NEW pr \in ProgramSet, NEW p, Good(pr, p), NEW t \in TokenOf(pr)
    PROVE  LET q == pushTokenFlush(p, t)
           IN  /\ Good(pr, q) /\ SameControl(p, q)
               /\ Waiting(pr, q) = Waiting(pr, p) \o TokenShows(pr, t)
               /\ TokenShows(pr, t) = << >> => Waiting(pr, q) = Waiting(pr, p)
  <1> DEFINE f == flushSkip(p)
             q == pushToken(f, t)
  <1>1. /\ Good(pr, f) /\ Waiting(pr, f) = Waiting(pr, p) /\ SameControl(p, f)
        /\ f.skip[f.using] = << >>
    BY FlushSkip
  <1> HIDE DEF f
  <1>2. /\ Good(pr, q) /\ SameControl(f, q)
        /\ Waiting(pr, q) = Waiting(pr, f) \o TokenShows(pr, t)
    BY <1>1, PushLast
  <1>3. Waiting(pr, p) \in Seq(Nat)
    BY WaitingTypes
  <1>4. SameControl(p, q)
    BY <1>1, <1>2 DEF SameControl
  <1>5. q = pushTokenFlush(p, t)
    BY DEF f, pushTokenFlush
  <1> HIDE DEF q
  <1>6. TokenShows(pr, t) = << >> => Waiting(pr, q) = Waiting(pr, p)
    BY <1>1, <1>2, <1>3
  <1> QED BY <1>1, <1>2, <1>4, <1>5, <1>6

-----------------------------------------------------------------------------
(* Modes and elements *)

Modes == [flag : Flags, open : Seq(Name)]

\* nothing is taken in and nothing that waits is touched
Quiet(pr, p, q) ==
    /\ Good(pr, q) /\ Waiting(pr, q) = Waiting(pr, p)
    /\ q.at = p.at /\ q.using = p.using
    /\ q.inskip = p.inskip /\ q.inAttribute = p.inAttribute

Still(pr, p, q) == Quiet(pr, p, q) /\ q.paused = p.paused

\* the modes are the same but for the elements in them
SameModes(p, q) ==
    /\ Len(q.st) = Len(p.st)
    /\ \A i \in 1..Len(p.st) : q.st[i].flag = p.st[i].flag

LEMMA SameIsStill ==
    ASSUME NEW pr, NEW p, NEW q, Good(pr, q), SameControl(p, q),
           Waiting(pr, q) = Waiting(pr, p)
    PROVE  Still(pr, p, q) /\ SameModes(p, q)
  BY DEF SameControl, Still, Quiet, SameModes

LEMMA StillTwice ==
    ASSUME NEW pr, NEW p, NEW q, NEW r, Still(pr, p, q), Still(pr, q, r)
    PROVE  Still(pr, p, r)
  BY DEF Still, Quiet

LEMMA ModesTwice ==
    ASSUME NEW p, NEW q, NEW r, SameModes(p, q), SameModes(q, r)
    PROVE  SameModes(p, r)
  BY DEF SameModes

LEMMA ModeTypes ==
    ASSUME NEW pr, NEW p, Good(pr, p)
    PROVE  /\ p.st \in Seq(Modes) /\ Len(p.st) \in Nat
           /\ \A i \in 1..Len(p.st) : /\ p.st[i] \in Modes
                                      /\ p.st[i].flag \in Flags
                                      /\ p.st[i].open \in Seq(Name)
           /\ p.paused \in Nat /\ p.comments \in Seq(Name) /\ p.at \in Nat \ {0}
  <1>1. p.st \in Seq(Modes)
    BY DEF Good, Parser, Modes
  <1>2. \A i \in 1..Len(p.st) : p.st[i] \in Modes
    BY <1>1
  <1>3. p.paused \in Nat /\ p.comments \in Seq(Name) /\ p.at \in Nat \ {0}
    BY DEF Good, Parser
  <1> QED BY <1>1, <1>2, <1>3 DEF Modes

LEMMA InMode ==
    ASSUME NEW pr \in ProgramSet, NEW p, Good(pr, p), Len(p.st) > 0
    PROVE  p.st # << >>
  <1>1. p.st \in Seq(Modes)
    BY ModeTypes
  <1> QED BY <1>1

LEMMA OtherModes ==
    ASSUME NEW pr \in ProgramSet, NEW p, Good(pr, p), NEW s \in Seq(Modes)
    PROVE  LET q == [p EXCEPT !.st = s]
           IN  Still(pr, p, q) /\ q.st = s
  <1> DEFINE q == [p EXCEPT !.st = s]
             M == Seq(Modes)
             S == [Buffers -> Seq(TokenOf(pr))]
             P == [st : M, out : S, skip : S,
                   using : Buffers, inskip : BOOLEAN, inAttribute : BOOLEAN,
                   paused : Nat, comments : Seq(Name), at : Nat \ {0}]
  <1>1. p \in P /\ s \in M
    BY DEF Good, Parser, Modes
  <1> HIDE DEF M, S
  <1>2. q \in P
    BY <1>1
  <1>3. /\ q.out = p.out /\ q.skip = p.skip /\ q.st = s /\ q.at = p.at
        /\ q.using = p.using /\ q.inskip = p.inskip
        /\ q.inAttribute = p.inAttribute /\ q.paused = p.paused
        /\ q.comments = p.comments
    BY <1>1
  <1>4. q \in Parser(pr)
    BY <1>2 DEF M, S, Parser, Modes
  <1> HIDE DEF q
  <1>5. Good(pr, q)
    BY <1>3, <1>4 DEF Good
  <1>6. Waiting(pr, q) = Waiting(pr, p)
    BY <1>3 DEF Waiting
  <1>7. Still(pr, p, q)
    BY <1>3, <1>5, <1>6 DEF Still, Quiet
  <1> QED BY <1>3, <1>7 DEF q

LEMMA StartNewMode ==
    ASSUME NEW pr \in ProgramSet, NEW p, Good(pr, p), NEW flag \in Flags
    PROVE  LET q == startNewMode(p, flag)
           IN  /\ Still(pr, p, q) /\ Len(q.st) = Len(p.st) + 1
               /\ q.st[Len(q.st)].flag = flag
               /\ q.st[Len(p.st) + 1].flag = flag
               /\ \A i \in 1..Len(p.st) : q.st[i].flag = p.st[i].flag
  <1> DEFINE m == Mode(flag, << >>)
             s == Append(p.st, m)
  <1>1. m \in Modes /\ m.flag = flag
    BY DEF Modes, Mode
  <1> HIDE DEF m
  <1>2. /\ s \in Seq(Modes) /\ Len(s) = Len(p.st) + 1 /\ s[Len(p.st) + 1] = m
        /\ \A i \in 1..Len(p.st) : s[i] = p.st[i]
    BY <1>1, ModeTypes
  <1>3. startNewMode(p, flag) = [p EXCEPT !.st = s]
    BY DEF startNewMode, m
  <1> HIDE DEF s
  <1> QED BY <1>1, <1>2, <1>3, OtherModes

\* the last mode with other elements
WithOpen(p, o) == [p EXCEPT !.st[Len(p.st)].open = o]

LEMMA OtherOpen ==
    ASSUME NEW pr \in ProgramSet, NEW p, Good(pr, p), p.st # << >>,
           NEW o \in Seq(Name)
    PROVE  LET q == WithOpen(p, o)
           IN  /\ Still(pr, p, q) /\ SameModes(p, q)
               /\ Last(q.st).open = o /\ Last(q.st).flag = Last(p.st).flag
  <1> DEFINE n == Len(p.st)
             s == [p.st EXCEPT ![n].open = o]
  <1>1. n \in 1..Len(p.st) /\ n \in Nat /\ p.st \in Seq(Modes)
    BY ModeTypes
  <1> DEFINE m == [p.st[n] EXCEPT !.open = o]
  <1>a. p.st[n] \in Modes
    BY <1>1
  <1>b. m \in Modes
    BY <1>a DEF Modes
  <1>c. s = [p.st EXCEPT ![n] = m]
    BY <1>1
  <1>2. s \in Seq(Modes)
    <2> HIDE DEF m, s
    <2> QED BY <1>1, <1>b, <1>c
  <1>3. /\ Len(s) = n /\ s[n].open = o
        /\ \A i \in 1..n : s[i].flag = p.st[i].flag
    <2>1. Len(s) = n /\ s[n] = [p.st[n] EXCEPT !.open = o]
      BY <1>1
    <2>2. p.st[n] \in Modes
      BY <1>1
    <2>3. s[n].open = o /\ s[n].flag = p.st[n].flag
      BY <2>1, <2>2 DEF Modes
    <2>4. \A i \in 1..n : i # n => s[i] = p.st[i]
      BY <1>1
    <2> QED BY <2>1, <2>3, <2>4
  <1>4. WithOpen(p, o) = [p EXCEPT !.st = s]
    BY DEF WithOpen
  <1> HIDE DEF s, n
  <1>6. /\ Still(pr, p, [p EXCEPT !.st = s]) /\ [p EXCEPT !.st = s].st = s
    BY <1>2, OtherModes
  <1>7. SameModes(p, [p EXCEPT !.st = s])
    BY <1>3, <1>6 DEF SameModes, n
  <1>8. Last(s).open = o /\ Last(s).flag = Last(p.st).flag
    BY <1>1, <1>3 DEF Last, n
  <1> QED BY <1>4, <1>6, <1>7, <1>8

LEMMA OpenedKeeps ==
    ASSUME NEW pr \in ProgramSet, NEW p, Good(pr, p), p.st # << >>, NEW e \in Name
    PROVE  Still(pr, p, Opened(p, e)) /\ SameModes(p, Opened(p, e))
  <1> DEFINE o == Append(p.st[Len(p.st)].open, e)
  <1>1. Len(p.st) \in 1..Len(p.st)
    BY ModeTypes
  <1>2. o \in Seq(Name)
    BY <1>1, ModeTypes
  <1>3. Opened(p, e) = WithOpen(p, o)
    BY <1>1, ModeTypes DEF Opened, WithOpen
  <1> HIDE DEF o
  <1> QED BY <1>2, <1>3, OtherOpen

LEMMA StartElementKeeps ==
    ASSUME NEW pr \in ProgramSet, NEW p, Good(pr, p), p.st # << >>, NEW e \in Name
    PROVE  LET q == startElement(p, e)
           IN  Still(pr, p, q) /\ SameModes(p, q)
  <1> DEFINE o == Opened(p, e)
             t == StartTag(e)
  <1>1. Still(pr, p, o) /\ SameModes(p, o) /\ Good(pr, o)
    BY OpenedKeeps DEF Still, Quiet
  <1>2. t \in TokenOf(pr) /\ TokenShows(pr, t) = << >>
    BY TokenFacts
  <1> HIDE DEF o, t
  <1>3. /\ Good(pr, pushTokenFlush(o, t)) /\ SameControl(o, pushTokenFlush(o, t))
        /\ Waiting(pr, pushTokenFlush(o, t)) = Waiting(pr, o)
    BY <1>1, <1>2, PushFlush
  <1>4. Still(pr, o, pushTokenFlush(o, t)) /\ SameModes(o, pushTokenFlush(o, t))
    BY <1>3, SameIsStill
  <1>5. startElement(p, e) = pushTokenFlush(o, t)
    BY DEF startElement, o, t
  <1> QED BY <1>1, <1>4, <1>5, StillTwice, ModesTwice

LEMMA StartNoSkipElementKeeps ==
    ASSUME NEW pr \in ProgramSet, NEW p, Good(pr, p), p.st # << >>, NEW e \in Name
    PROVE  LET q == startNoSkipElement(p, e)
           IN  Still(pr, p, q) /\ SameModes(p, q)
  <1> DEFINE o == Opened(p, e)
             t == StartTag(e)
  <1>1. Still(pr, p, o) /\ SameModes(p, o) /\ Good(pr, o)
    BY OpenedKeeps DEF Still, Quiet
  <1>2. t \in TokenOf(pr) /\ TokenShows(pr, t) = << >>
    BY TokenFacts
  <1> HIDE DEF o, t
  <1>3. /\ Good(pr, pushToken(o, t)) /\ SameControl(o, pushToken(o, t))
        /\ Waiting(pr, pushToken(o, t)) = Waiting(pr, o)
    BY <1>1, <1>2, PushToken
  <1>4. Still(pr, o, pushToken(o, t)) /\ SameModes(o, pushToken(o, t))
    BY <1>3, SameIsStill
  <1>5. startNoSkipElement(p, e) = pushToken(o, t)
    BY DEF startNoSkipElement, o, t
  <1> QED BY <1>1, <1>4, <1>5, StillTwice, ModesTwice

LEMMA EmptyElementKeeps ==
    ASSUME NEW pr \in ProgramSet, NEW p, Good(pr, p), NEW e \in Name
    PROVE  LET q == emptyElement(p, e)
           IN  Still(pr, p, q) /\ SameModes(p, q)
  <1> DEFINE t == EmptyTag(e, 0)
  <1>2. t \in TokenOf(pr) /\ TokenShows(pr, t) = << >>
    BY TokenFacts
  <1> HIDE DEF t
  <1>3. /\ Good(pr, pushTokenFlush(p, t)) /\ SameControl(p, pushTokenFlush(p, t))
        /\ Waiting(pr, pushTokenFlush(p, t)) = Waiting(pr, p)
    BY <1>2, PushFlush
  <1>5. emptyElement(p, e) = pushTokenFlush(p, t)
    BY DEF emptyElement, t
  <1> QED BY <1>3, <1>5, SameIsStill

LEMMA LastSelected ==
    ASSUME NEW S, NEW s \in Seq(S)
    PROVE  AttributesEnd(s) \in 0..Len(s)
  <1> DEFINE I == {i \in 1..Len(s) : s[i].type = "SATTRIBUTE"}
  <1>1. Len(s) \in Nat /\ I \in SUBSET (0..Len(s))
    OBVIOUS
  <1>2. CASE I = {}
    BY <1>1, <1>2 DEF AttributesEnd, SelectLastInSeq
  <1>3. CASE I # {}
    <2>1. AttributesEnd(s) = Max(I)
      BY <1>3 DEF AttributesEnd, SelectLastInSeq
    <2> HIDE DEF I
    <2>2. Max(I) \in I
      BY <1>1, <1>3, Greatest
    <2> QED BY <1>1, <2>1, <2>2
  <1> QED BY <1>2, <1>3

\* a sequence cut in two
LEMMA Cut ==
    ASSUME NEW S, NEW s \in Seq(S), NEW n \in 0..Len(s)
    PROVE  /\ SubSeq(s, 1, n) \in Seq(S) /\ SubSeq(s, n + 1, Len(s)) \in Seq(S)
           /\ s = SubSeq(s, 1, n) \o SubSeq(s, n + 1, Len(s))
  <1> DEFINE u == SubSeq(s, 1, n)
             v == SubSeq(s, n + 1, Len(s))
  <1>1. u \in Seq(S) /\ Len(u) = n /\ \A i \in 1..n : u[i] = s[i]
    OBVIOUS
  <1>2. v \in Seq(S) /\ Len(v) = Len(s) - n
        /\ \A i \in 1..(Len(s) - n) : v[i] = s[n + i]
    OBVIOUS
  <1> HIDE DEF u, v
  <1>3. s = u \o v
    <2>1. Len(s) = Len(u) + Len(v)
      BY <1>1, <1>2
    <2>2. \A i \in 1..Len(u) : s[i] = u[i]
      BY <1>1
    <2>3. \A i \in 1..Len(v) : s[Len(u) + i] = v[i]
      BY <1>1, <1>2
    <2> QED BY <1>1, <1>2, <2>1, <2>2, <2>3, ConcatOf
  <1> QED BY <1>1, <1>2, <1>3 DEF u, v

\* an element of the last mode can end: what is skipped is not passed over
CanEnd(p) ==
    /\ p.st # << >>
    /\ \/ p.using = "main"
       \/ p.inAttribute
       \/ Last(p.st).flag # "INCLUDE_ATTRIBUTE"

LEMMA GrabKeeps ==
    ASSUME NEW pr \in ProgramSet, NEW p, Good(pr, p), CanEnd(p)
    PROVE  LET q == GrabAttributes(p)
           IN  Still(pr, p, q) /\ q.st = p.st
  <1>1. CASE p.inAttribute \/ currentState(p).flag # "INCLUDE_ATTRIBUTE"
    BY <1>1 DEF GrabAttributes, Still, Quiet
  <1>2. CASE ~ p.inAttribute /\ currentState(p).flag = "INCLUDE_ATTRIBUTE"
    <2> DEFINE S == TokenOf(pr)
               k == p.skip["main"]
               n == AttributesEnd(k)
               u == SubSeq(k, 1, n)
               v == SubSeq(k, n + 1, Len(k))
               m == p.out["main"]
               o == [p.out EXCEPT !["main"] = m \o u]
               s == [p.skip EXCEPT !["main"] = v]
               q == GrabAttributes(p)
    <2>1. p.using = "main"
      BY <1>2 DEF CanEnd, currentState
    <2>2. q = [p EXCEPT !.out = o, !.skip = s]
      BY <1>2, <2>1 DEF GrabAttributes
    <2>3. k \in Seq(S) /\ m \in Seq(S)
      BY BufferTypes
    <2>4. u \in Seq(S) /\ v \in Seq(S) /\ k = u \o v
      <3> HIDE DEF k, S, n
      <3>1. n \in 0..Len(k)
        BY <2>3, LastSelected DEF n
      <3> QED BY <2>3, <3>1, Cut
    <2>5. m \o u \in Seq(S)
      <3> HIDE DEF m, u, S
      <3> QED BY <2>3, <2>4
    <2>6. /\ o \in [Buffers -> Seq(S)] /\ s \in [Buffers -> Seq(S)]
          /\ o["main"] = m \o u /\ o["pre"] = << >>
          /\ s["main"] = v /\ s["pre"] = << >>
      <3>1. /\ p.out \in [Buffers -> Seq(S)] /\ p.skip \in [Buffers -> Seq(S)]
            /\ p.out["pre"] = << >> /\ p.skip["pre"] = << >>
        BY <2>1, BufferTypes DEF Good
      <3> HIDE DEF m, u, v, S
      <3> QED BY <2>4, <2>5, <3>1 DEF Buffers
    <2>7. q \in Parser(pr)
      <3>1. p \in Parser(pr)
        BY BufferTypes
      <3> HIDE DEF o, s, q
      <3> QED BY <2>2, <2>6, <3>1, ParserBuffers DEF S
    <2>8. q.out = o /\ q.skip = s /\ SameControl(p, q)
      <3> HIDE DEF o, s, q
      <3> QED BY <2>2, BufferTypes DEF Parser, SameControl
    <2>9. Good(pr, q)
      <3> HIDE DEF o, s, q, u
      <3> QED BY <2>4, <2>6, <2>7, <2>8, GoodBuffers DEF m, S
    <2> DEFINE a == Tokens(pr, m)
               b == Tokens(pr, u)
               c == Tokens(pr, v)
    <2>10. /\ a \in Seq(Nat) /\ b \in Seq(Nat) /\ c \in Seq(Nat)
           /\ Tokens(pr, m \o u) = a \o b /\ Tokens(pr, k) = b \o c
      <3> HIDE DEF m, u, v, k
      <3> QED BY <2>3, <2>4, ConcatShows DEF S
    <2>11. /\ Waiting(pr, p) = a \o (b \o c) \o << >> \o << >>
           /\ Waiting(pr, q) = (a \o b) \o c \o << >> \o << >>
      <3>1. Waiting(pr, p) = a \o (b \o c) \o << >> \o << >>
        BY <2>1, <2>10, WaitingTypes DEF Waiting
      <3>2. Waiting(pr, q) = (a \o b) \o c \o << >> \o << >>
        <4> HIDE DEF m, u, v, k, o, s, q
        <4> QED BY <2>6, <2>8, <2>10, TokensEmpty DEF Waiting
      <3> QED BY <3>1, <3>2
    <2>12. (a \o b) \o c = a \o (b \o c)
      <3> HIDE DEF a, b, c
      <3>1. Then(Then(a, b), c) = Then(a, Then(b, c))
        BY <2>10, ThenFacts
      <3> QED BY <3>1 DEF Then
    <2>13. Waiting(pr, q) = Waiting(pr, p)
      BY <2>11, <2>12
    <2> HIDE DEF q
    <2>14. Still(pr, p, q) /\ q.st = p.st
      BY <2>8, <2>9, <2>13, SameIsStill DEF SameControl
    <2> QED BY <2>14 DEF q
  <1> QED BY <1>1, <1>2

LEMMA EndElementKeeps ==
    ASSUME NEW pr \in ProgramSet, NEW p, Good(pr, p), CanEnd(p),
           Last(p.st).open # << >>
    PROVE  LET q == endElement(p)
           IN  /\ Still(pr, p, q) /\ SameModes(p, q) /\ CanEnd(q)
               /\ Len(Last(q.st).open) = Len(Last(p.st).open) - 1
  <1> DEFINE g == GrabAttributes(p)
             n == Len(p.st)
             open == Last(p.st).open
             t == EndTag(Last(open))
             r == pushToken(g, t)
             o == Front(open)
             q == endElement(p)
  <1>1. Still(pr, p, g) /\ g.st = p.st
    BY GrabKeeps
  <1>2. n \in 1..Len(p.st) /\ open = p.st[n].open /\ open \in Seq(Name)
    BY ModeTypes DEF CanEnd, Last
  <1>3. Last(open) \in Name /\ o \in Seq(Name) /\ Len(o) = Len(open) - 1
    <2> HIDE DEF open
    <2> QED BY <1>2 DEF Last, Front
  <1>4. t \in TokenOf(pr) /\ TokenShows(pr, t) = << >>
    <2> HIDE DEF open
    <2> QED BY <1>3, TokenFacts
  <1>5. Still(pr, g, r) /\ r.st = p.st /\ Good(pr, r)
    <2> HIDE DEF g, t
    <2>1. Good(pr, g) /\ g.using = p.using
      BY <1>1 DEF Still, Quiet
    <2>2. Good(pr, r) /\ Waiting(pr, r) = Waiting(pr, g) /\ SameControl(g, r)
      BY <1>4, <2>1, PushToken
    <2> HIDE DEF r
    <2> QED BY <1>1, <2>2, SameIsStill DEF SameControl
  <1>6. q = WithOpen(r, o)
    <2>1. q = [r EXCEPT !.st[n].open = Front(@)]
      BY DEF endElement, currentState
    <2>2. r.st[n].open = open
      BY <1>2, <1>5
    <2> HIDE DEF r, open, q
    <2> QED BY <1>5, <2>1, <2>2 DEF WithOpen
  <1> HIDE DEF r, g, q
  <1>7. Still(pr, r, q) /\ SameModes(r, q) /\ Last(q.st).open = o
        /\ Last(q.st).flag = Last(p.st).flag
    <2>1. r.st # << >>
      BY <1>5 DEF CanEnd
    <2>2. o \in Seq(Name)
      BY <1>3
    <2> HIDE DEF o
    <2>3. /\ Still(pr, r, q) /\ SameModes(r, q) /\ Last(q.st).open = o
          /\ Last(q.st).flag = Last(r.st).flag
      BY <1>5, <1>6, <2>1, <2>2, OtherOpen
    <2> QED BY <1>5, <2>3
  <1>8. Still(pr, p, q)
    BY <1>1, <1>5, <1>7, StillTwice
  <1>9. SameModes(p, q)
    BY <1>5, <1>7 DEF SameModes
  <1>10. CanEnd(q)
    <2>1. q.st # << >>
      BY <1>2, <1>9 DEF SameModes
    <2> QED BY <1>7, <1>8, <2>1 DEF CanEnd, Still, Quiet
  <1>11. Len(Last(q.st).open) = Len(Last(p.st).open) - 1
    BY <1>3, <1>7
  <1> QED BY <1>8, <1>9, <1>10, <1>11 DEF q

-----------------------------------------------------------------------------
(* What is done again and again *)

\* the operators that are repeated
Step(pr, op, q) ==
    CASE op = "endElement" -> endElement(q)
      [] op = "popMode" -> popMode(q)
      [] op = "SkipToken" -> SkipToken(q, pr[q.at])
      [] op = "SkipLine" ->
            IF LA(q, pr) \in {"PREPROC", "EOF"} THEN q ELSE consume(q, pr)

Repeated(pr, op, p, n, f) ==
    f = [i \in 0..n |-> IF i = 0 THEN p ELSE Step(pr, op, f[i - 1])]

LEMMA RepeatedExists ==
    ASSUME NEW pr, NEW op, NEW p, NEW m \in Nat
    PROVE  \E f : Repeated(pr, op, p, m, f)
  <1> DEFINE T == {n \in Nat : \E f : Repeated(pr, op, p, n, f)}
  <1>1. 0 \in T
    <2> DEFINE g == [i \in 0..0 |-> p]
    <2>1. g = [i \in 0..0 |-> IF i = 0 THEN p ELSE Step(pr, op, g[i - 1])]
      OBVIOUS
    <2>2. Repeated(pr, op, p, 0, g)
      BY <2>1 DEF Repeated
    <2> QED BY <2>2
  <1>2. ASSUME NEW n \in T PROVE n + 1 \in T
    <2>1. PICK f : Repeated(pr, op, p, n, f)
      BY <1>2
    <2> DEFINE g == [i \in 0..(n + 1) |->
                       IF i <= n THEN f[i] ELSE Step(pr, op, f[n])]
    <2>2. \A i \in 0..n : f[i] = IF i = 0 THEN p ELSE Step(pr, op, f[i - 1])
      BY <2>1 DEF Repeated
    <2>3. \A i \in 0..n : g[i] = f[i]
      OBVIOUS
    <2>4. \A i \in 0..(n + 1) : g[i] = IF i = 0 THEN p ELSE Step(pr, op, g[i - 1])
      <3> TAKE i \in 0..(n + 1)
      <3>1. CASE i \in 0..n
        <4>1. i # 0 => i - 1 \in 0..n
          BY <3>1
        <4> HIDE DEF g
        <4> QED BY <2>2, <2>3, <3>1, <4>1
      <3>2. CASE i = n + 1
        <4>1. n \in 0..n /\ i - 1 = n /\ i # 0 /\ ~ (i <= n)
          BY <3>2
        <4>2. g[i] = Step(pr, op, f[n])
          BY <4>1
        <4> HIDE DEF g
        <4> QED BY <2>3, <4>1, <4>2
      <3> QED BY <3>1, <3>2
    <2>5. Repeated(pr, op, p, n + 1, g)
      <3>1. g = [i \in 0..(n + 1) |-> g[i]]
        OBVIOUS
      <3> HIDE DEF g
      <3> QED BY <2>4, <3>1 DEF Repeated
    <2> QED BY <2>5
  <1> HIDE DEF T
  <1>3. m \in T
    BY <1>1, <1>2, Induct DEF T
  <1> QED BY <1>3 DEF T

LEMMA RepeatedSteps ==
    ASSUME NEW pr, NEW op, NEW p, NEW n \in Nat, NEW f, Repeated(pr, op, p, n, f)
    PROVE  /\ f[0] = p
           /\ \A i \in Nat : i + 1 \in 0..n => f[i + 1] = Step(pr, op, f[i])
  <1>1. f = [i \in 0..n |-> IF i = 0 THEN p ELSE Step(pr, op, f[i - 1])]
    BY DEF Repeated
  <1>a. \A i \in 0..n : f[i] = IF i = 0 THEN p ELSE Step(pr, op, f[i - 1])
    BY <1>1
  <1>2. f[0] = p
    BY <1>a
  <1>3. ASSUME NEW i \in Nat, i + 1 \in 0..n
        PROVE  f[i + 1] = Step(pr, op, f[i])
    <2>1. i + 1 # 0 /\ (i + 1) - 1 = i
      OBVIOUS
    <2> QED BY <1>3, <1>a, <2>1
  <1> QED BY <1>2, <1>3

\* the states that operators repeated go through
EndElementTimes(p, n) == Repeat(endElement, p, n)
PopModeTimes(p, n) == Repeat(popMode, p, n)
SkipTokenTimes(pr, p, n) == Repeat(LAMBDA q : SkipToken(q, pr[q.at]), p, n)

\* the program is skipped up to the next line of the preprocessor
SkipLine(pr, q) ==
    IF LA(q, pr) \in {"PREPROC", "EOF"} THEN q ELSE consume(q, pr)

EndElementRun(p, n, f) ==
    /\ f[0] = p
    /\ \A i \in Nat : i + 1 \in 0..n => f[i + 1] = endElement(f[i])

LEMMA EndElementAgain ==
    ASSUME NEW p, NEW n \in Nat
    PROVE  \E f : /\ EndElementRun(p, n, f)
                 /\ EndElementTimes(p, n) = f[n]
  <1> DEFINE f == CHOOSE g : Repeated(0, "endElement", p, n, g)
  <1>1. Repeated(0, "endElement", p, n, f)
    BY RepeatedExists
  <1>2. EndElementTimes(p, n) = f[n]
    BY DEF EndElementTimes, Repeat, Repeated, Step
  <1> HIDE DEF f
  <1>a. /\ f[0] = p
        /\ \A i \in Nat : i + 1 \in 0..n => f[i + 1] = Step(0, "endElement", f[i])
    BY <1>1, RepeatedSteps
  <1>b. \A q : Step(0, "endElement", q) = endElement(q)
    BY DEF Step
  <1>3. \A i \in Nat : i + 1 \in 0..n => f[i + 1] = endElement(f[i])
    BY <1>a, <1>b
  <1>4. f[0] = p
    BY <1>a
  <1>5. EndElementRun(p, n, f)
    BY <1>3, <1>4 DEF EndElementRun
  <1> QED BY <1>2, <1>5

PopModeRun(p, n, f) ==
    /\ f[0] = p
    /\ \A i \in Nat : i + 1 \in 0..n => f[i + 1] = popMode(f[i])

LEMMA PopModeAgain ==
    ASSUME NEW p, NEW n \in Nat
    PROVE  \E f : /\ PopModeRun(p, n, f)
                 /\ PopModeTimes(p, n) = f[n]
  <1> DEFINE f == CHOOSE g : Repeated(0, "popMode", p, n, g)
  <1>1. Repeated(0, "popMode", p, n, f)
    BY RepeatedExists
  <1>2. PopModeTimes(p, n) = f[n]
    BY DEF PopModeTimes, Repeat, Repeated, Step
  <1> HIDE DEF f
  <1>a. /\ f[0] = p
        /\ \A i \in Nat : i + 1 \in 0..n => f[i + 1] = Step(0, "popMode", f[i])
    BY <1>1, RepeatedSteps
  <1>b. \A q : Step(0, "popMode", q) = popMode(q)
    BY DEF Step
  <1>3. \A i \in Nat : i + 1 \in 0..n => f[i + 1] = popMode(f[i])
    BY <1>a, <1>b
  <1>4. f[0] = p
    BY <1>a
  <1>5. PopModeRun(p, n, f)
    BY <1>3, <1>4 DEF PopModeRun
  <1> QED BY <1>2, <1>5

SkipTokenRun(pr, p, n, f) ==
    /\ f[0] = p
    /\ \A i \in Nat : i + 1 \in 0..n => f[i + 1] = SkipToken(f[i], pr[f[i].at])

LEMMA SkipTokenAgain ==
    ASSUME NEW pr, NEW p, NEW n \in Nat
    PROVE  \E f : /\ SkipTokenRun(pr, p, n, f)
                 /\ SkipTokenTimes(pr, p, n) = f[n]
  <1> DEFINE f == CHOOSE g : Repeated(pr, "SkipToken", p, n, g)
  <1>1. Repeated(pr, "SkipToken", p, n, f)
    BY RepeatedExists
  <1>2. SkipTokenTimes(pr, p, n) = f[n]
    BY DEF SkipTokenTimes, Repeat, Repeated, Step
  <1> HIDE DEF f
  <1>a. /\ f[0] = p
        /\ \A i \in Nat : i + 1 \in 0..n => f[i + 1] = Step(pr, "SkipToken", f[i])
    BY <1>1, RepeatedSteps
  <1>b. \A q : Step(pr, "SkipToken", q) = SkipToken(q, pr[q.at])
    BY DEF Step
  <1>3. \A i \in Nat : i + 1 \in 0..n => f[i + 1] = SkipToken(f[i], pr[f[i].at])
    BY <1>a, <1>b
  <1>4. f[0] = p
    BY <1>a
  <1>5. SkipTokenRun(pr, p, n, f)
    BY <1>3, <1>4 DEF SkipTokenRun
  <1> QED BY <1>2, <1>5

SkipLineRun(pr, p, n, f) ==
    /\ f[0] = p
    /\ \A i \in Nat : i + 1 \in 0..n => f[i + 1] = SkipLine(pr, f[i])

LEMMA SkipLineAgain ==
    ASSUME NEW pr, NEW p, NEW n \in Nat, n = Len(pr)
    PROVE  \E f : /\ SkipLineRun(pr, p, n, f)
                 /\ SkipBlock(p, pr) = f[n]
  <1> DEFINE f == CHOOSE g : Repeated(pr, "SkipLine", p, n, g)
  <1>1. Repeated(pr, "SkipLine", p, n, f)
    BY RepeatedExists
  <1>2. SkipBlock(p, pr) = f[n]
    BY DEF SkipBlock, Repeat, Repeated, Step
  <1> HIDE DEF f
  <1>a. /\ f[0] = p
        /\ \A i \in Nat : i + 1 \in 0..n => f[i + 1] = Step(pr, "SkipLine", f[i])
    BY <1>1, RepeatedSteps
  <1>b. \A q : Step(pr, "SkipLine", q) = SkipLine(pr, q)
    BY DEF Step, SkipLine
  <1>3. \A i \in Nat : i + 1 \in 0..n => f[i + 1] = SkipLine(pr, f[i])
    BY <1>a, <1>b
  <1>4. f[0] = p
    BY <1>a
  <1>5. SkipLineRun(pr, p, n, f)
    BY <1>3, <1>4 DEF SkipLineRun
  <1> QED BY <1>2, <1>5

\* the elements of the last mode end
LEMMA EndElements ==
    ASSUME NEW pr \in ProgramSet, NEW p, Good(pr, p), CanEnd(p)
    PROVE  LET q == EndElementTimes(p, Len(Last(p.st).open))
           IN  Still(pr, p, q) /\ SameModes(p, q)
  <1> DEFINE n == Len(Last(p.st).open)
  <1>1. n \in Nat
    <2>1. Last(p.st).open \in Seq(Name)
      BY ModeTypes DEF CanEnd, Last
    <2> QED BY <2>1
  <1> HIDE DEF n
  <1>2. PICK f : /\ EndElementRun(p, n, f)
                 /\ EndElementTimes(p, n) = f[n]
    BY <1>1, EndElementAgain
  <1> USE DEF n
  <1> DEFINE Kept(i) == /\ Still(pr, p, f[i]) /\ SameModes(p, f[i]) /\ CanEnd(f[i])
                        /\ Len(Last(f[i].st).open) = n - i
             T == {i \in Nat : i \in 0..n => Kept(i)}
  <1>4. 0 \in T
    BY <1>1, <1>2 DEF Still, Quiet, SameModes, EndElementRun
  <1>5. ASSUME NEW i \in T PROVE i + 1 \in T
    <2> SUFFICES ASSUME i + 1 \in 0..n PROVE Kept(i + 1)
      OBVIOUS
    <2>1. Kept(i) /\ i \in Nat /\ n - i > 0
      BY <1>1
    <2>2. Good(pr, f[i]) /\ Last(f[i].st).open # << >>
      BY <2>1 DEF Still, Quiet
    <2>3. f[i + 1] = endElement(f[i])
      BY <1>2, <2>1 DEF EndElementRun
    <2>4. /\ Still(pr, f[i], endElement(f[i])) /\ SameModes(f[i], endElement(f[i]))
          /\ CanEnd(endElement(f[i]))
          /\ Len(Last(endElement(f[i]).st).open) = Len(Last(f[i].st).open) - 1
      BY <2>1, <2>2, EndElementKeeps
    <2>5. Still(pr, p, f[i + 1]) /\ SameModes(p, f[i + 1]) /\ CanEnd(f[i + 1])
      BY <2>1, <2>3, <2>4, StillTwice, ModesTwice
    <2>6. Len(Last(f[i + 1].st).open) = n - (i + 1)
      BY <1>1, <2>1, <2>3, <2>4
    <2> QED BY <2>5, <2>6
  <1> HIDE DEF T
  <1>6. n \in T
    BY <1>1, <1>4, <1>5, Induct DEF T
  <1> QED BY <1>1, <1>2, <1>6 DEF T

\* n modes less
Popped(p, q, n) ==
    /\ Len(q.st) = Len(p.st) - n
    /\ \A i \in 1..(Len(p.st) - n) : q.st[i].flag = p.st[i].flag

LEMMA PopModeKeeps ==
    ASSUME NEW pr \in ProgramSet, NEW p, Good(pr, p), CanEnd(p)
    PROVE  Still(pr, p, popMode(p)) /\ Popped(p, popMode(p), 1)
  <1> DEFINE q == EndElementTimes(p, Len(Last(p.st).open))
             s == Front(q.st)
             r == [q EXCEPT !.st = s]
  <1>1. Still(pr, p, q) /\ SameModes(p, q)
    BY EndElements
  <1>2. popMode(p) = r
    BY DEF popMode, currentState, EndElementTimes
  <1> HIDE DEF q
  <1>3. Good(pr, q) /\ Len(p.st) \in Nat \ {0}
    BY <1>1, ModeTypes DEF Still, Quiet, CanEnd
  <1>4. /\ s \in Seq(Modes) /\ Len(s) = Len(q.st) - 1
        /\ \A i \in 1..(Len(q.st) - 1) : s[i] = q.st[i]
    <2>1. q.st \in Seq(Modes) /\ Len(q.st) \in Nat \ {0}
      BY <1>1, <1>3, ModeTypes DEF SameModes
    <2> QED BY <2>1 DEF Front
  <1> HIDE DEF s
  <1>5. Still(pr, q, r) /\ r.st = s
    BY <1>3, <1>4, OtherModes
  <1> HIDE DEF r
  <1>6. Popped(p, r, 1)
    BY <1>1, <1>3, <1>4, <1>5 DEF SameModes, Popped
  <1> QED BY <1>1, <1>2, <1>5, <1>6, StillTwice

LEMMA PopModes ==
    ASSUME NEW pr \in ProgramSet, NEW p, Good(pr, p), p.using = "main",
           NEW n \in 0..Len(p.st)
    PROVE  LET q == PopModeTimes(p, n)
           IN  Still(pr, p, q) /\ Popped(p, q, n)
  <1>1. n \in Nat /\ Len(p.st) \in Nat
    BY ModeTypes
  <1>2. PICK f : /\ PopModeRun(p, n, f)
                 /\ PopModeTimes(p, n) = f[n]
    BY <1>1, PopModeAgain
  <1> DEFINE Kept(i) == Still(pr, p, f[i]) /\ Popped(p, f[i], i)
             T == {i \in Nat : i \in 0..n => Kept(i)}
  <1>4. 0 \in T
    BY <1>1, <1>2 DEF Still, Quiet, Popped, PopModeRun
  <1>5. ASSUME NEW i \in T PROVE i + 1 \in T
    <2> SUFFICES ASSUME i + 1 \in 0..n PROVE Kept(i + 1)
      OBVIOUS
    <2>1. Kept(i) /\ i \in Nat /\ i < n
      BY <1>1
    <2> HIDE DEF T
    <2>2. Good(pr, f[i]) /\ CanEnd(f[i])
      BY <1>1, <2>1 DEF Still, Quiet, Popped, CanEnd
    <2>3. f[i + 1] = popMode(f[i])
      BY <1>2, <2>1 DEF PopModeRun
    <2>4. Still(pr, f[i], popMode(f[i])) /\ Popped(f[i], popMode(f[i]), 1)
      BY <2>2, PopModeKeeps
    <2>5. Still(pr, p, f[i + 1])
      BY <2>1, <2>3, <2>4, StillTwice
    <2>6. Popped(p, f[i + 1], i + 1)
      BY <1>1, <2>1, <2>3, <2>4 DEF Popped
    <2> QED BY <2>5, <2>6
  <1> HIDE DEF T
  <1>6. n \in T
    BY <1>1, <1>4, <1>5, Induct DEF T
  <1> QED BY <1>1, <1>2, <1>6 DEF T

LEMMA EndModeKeeps ==
    ASSUME NEW pr \in ProgramSet, NEW p, Good(pr, p), CanEnd(p)
    PROVE  LET q == endMode(p)
           IN  /\ Still(pr, p, q)
               /\ Len(p.st) > 1 => Popped(p, q, 1)
               /\ Len(q.st) > 0
  <1>1. CASE Len(p.st) > 1
    <2>1. endMode(p) = popMode(p)
      BY <1>1 DEF endMode
    <2>2. Still(pr, p, popMode(p)) /\ Popped(p, popMode(p), 1)
      BY PopModeKeeps
    <2>3. Len(popMode(p).st) > 0
      BY <1>1, <2>2, ModeTypes DEF Popped
    <2> QED BY <2>1, <2>2, <2>3
  <1>2. CASE ~ (Len(p.st) > 1)
    <2>1. endMode(p) = p
      BY <1>2 DEF endMode
    <2>2. Still(pr, p, p) /\ Len(p.st) > 0
      BY ModeTypes DEF Still, Quiet, CanEnd
    <2> QED BY <1>2, <2>1, <2>2
  <1> QED BY <1>1, <1>2

-----------------------------------------------------------------------------
(* Pausing, and the end of the program *)

LEMMA QuietTwice ==
    ASSUME NEW pr, NEW p, NEW q, NEW r, Quiet(pr, p, q), Quiet(pr, q, r)
    PROVE  Quiet(pr, p, r)
  BY DEF Quiet

WithNumbers(p, n, c, a) == [p EXCEPT !.paused = n, !.comments = c, !.at = a]

LEMMA OtherNumbers ==
    ASSUME NEW pr \in ProgramSet, NEW p, Good(pr, p), NEW n \in Nat,
           NEW c \in Seq(Name), NEW a \in Nat \ {0}
    PROVE  LET q == WithNumbers(p, n, c, a)
           IN  /\ q \in Parser(pr) /\ q.out = p.out /\ q.skip = p.skip
               /\ q.st = p.st /\ q.using = p.using /\ q.inskip = p.inskip
               /\ q.inAttribute = p.inAttribute
               /\ q.paused = n /\ q.comments = c /\ q.at = a
               /\ Waiting(pr, q) = Waiting(pr, p)
  <1> DEFINE q == [p EXCEPT !.paused = n, !.comments = c, !.at = a]
             M == Seq([flag : Flags, open : Seq(Name)])
             S == [Buffers -> Seq(TokenOf(pr))]
             N == Seq(Name)
             P == [st : M, out : S, skip : S,
                   using : Buffers, inskip : BOOLEAN, inAttribute : BOOLEAN,
                   paused : Nat, comments : N, at : Nat \ {0}]
  <1>1. p \in P /\ c \in N
    BY DEF Good, Parser
  <1> HIDE DEF M, S, N
  <1>2. q \in P
    BY <1>1
  <1>3. /\ q.out = p.out /\ q.skip = p.skip
        /\ q.st = p.st /\ q.using = p.using /\ q.inskip = p.inskip
        /\ q.inAttribute = p.inAttribute
        /\ q.paused = n /\ q.comments = c /\ q.at = a
    BY <1>1
  <1>4. q \in Parser(pr)
    BY <1>2 DEF M, S, N, Parser
  <1> HIDE DEF q
  <1>5. Waiting(pr, q) = Waiting(pr, p)
    BY <1>3 DEF Waiting
  <1> QED BY <1>3, <1>4, <1>5 DEF q, WithNumbers

LEMMA ResumeStream ==
    ASSUME NEW pr \in ProgramSet, NEW p, Good(pr, p)
    PROVE  LET q == resumeStream(p)
           IN  /\ Quiet(pr, p, q) /\ q.st = p.st /\ q.paused = 0
               /\ q.out = p.out
  <1> DEFINE c == p.comments
             a == p.at
             q == WithNumbers(p, 0, c, a)
  <1>1. c \in Seq(Name) /\ a \in Nat \ {0} /\ 0 \in Nat
    BY ModeTypes
  <1>2. resumeStream(p) = q
    BY DEF resumeStream, Good, Parser, WithNumbers
  <1> HIDE DEF c, a
  <1>3. /\ q \in Parser(pr) /\ q.out = p.out /\ q.skip = p.skip
        /\ q.st = p.st /\ q.using = p.using /\ q.inskip = p.inskip
        /\ q.inAttribute = p.inAttribute /\ q.paused = 0 /\ q.at = a
        /\ Waiting(pr, q) = Waiting(pr, p)
    BY <1>1, OtherNumbers
  <1> HIDE DEF q
  <1>4. Good(pr, q)
    BY <1>3 DEF Good
  <1> QED BY <1>2, <1>3, <1>4 DEF Quiet, a

LEMMA PauseStream ==
    ASSUME NEW pr \in ProgramSet, NEW p, Good(pr, p), p.out["main"] # << >>,
           Last(p.out["main"]) = StartTag(Statement)
    PROVE  LET q == pauseStream(p)
           IN  Quiet(pr, p, q) /\ q.st = p.st
  <1> DEFINE c == p.comments
             a == p.at
             n == Len(p.out["main"])
             q == WithNumbers(p, n, c, a)
  <1>0. p.out["main"] \in Seq(TokenOf(pr))
    BY BufferTypes
  <1>1. c \in Seq(Name) /\ a \in Nat \ {0} /\ n \in Nat
    BY <1>0, ModeTypes
  <1>2. pauseStream(p) = q
    BY DEF pauseStream, Good, Parser, WithNumbers
  <1> HIDE DEF c, a, n
  <1>3. /\ q \in Parser(pr) /\ q.out = p.out /\ q.skip = p.skip
        /\ q.st = p.st /\ q.using = p.using /\ q.inskip = p.inskip
        /\ q.inAttribute = p.inAttribute /\ q.paused = n /\ q.at = a
        /\ Waiting(pr, q) = Waiting(pr, p)
    BY <1>1, OtherNumbers
  <1> HIDE DEF q
  <1>4. Good(pr, q)
    BY <1>3 DEF Good, n, Last, StartTag
  <1> QED BY <1>2, <1>3, <1>4 DEF Quiet, a

LEMMA NopStreamStart ==
    ASSUME NEW pr \in ProgramSet, NEW p, Good(pr, p), p.using = "main"
    PROVE  LET q == nopStreamStart(p)
           IN  Quiet(pr, p, q) /\ q.st = p.st
  <1> DEFINE tb0 == p.out["main"]
             k == Len(tb0)
  <1>1. CASE p.paused = 0 \/ tb0[p.paused].type # Last(tb0).type
    BY <1>1 DEF nopStreamStart, Quiet
  <1>2. CASE ~ (p.paused = 0 \/ tb0[p.paused].type # Last(tb0).type)
    <2> DEFINE Nop(t) == [t EXCEPT !.type = "SNOP"]
               tb1 == [i \in DOMAIN tb0 |->
                         IF i \in {p.paused, k} THEN Nop(tb0[i]) ELSE tb0[i]]
               r == resumeStream(p)
               o == [r.out EXCEPT !["main"] = tb1]
               s == r.skip
               q == nopStreamStart(p)
    <2>1. /\ tb0 \in Seq(TokenOf(pr)) /\ p.paused \in 1..k /\ k \in Nat
          /\ tb0[p.paused].type = Statement /\ tb0[k].type = Statement
      BY <1>2, BufferTypes, ModeTypes DEF Good, Last
    <2>2. /\ Quiet(pr, p, r) /\ r.st = p.st /\ r.paused = 0 /\ r.out = p.out
      BY ResumeStream
    <2>3. q = [r EXCEPT !.out = o, !.skip = s]
      <3>1. q = [r EXCEPT !.out["main"] = tb1]
        BY <1>2 DEF nopStreamStart
      <3>2. r \in Parser(pr)
        BY <2>2 DEF Quiet, Good
      <3> HIDE DEF tb1, r, q
      <3> QED BY <3>1, <3>2 DEF Parser
    <2>4. \A i \in 1..k : /\ tb1[i] \in TokenOf(pr)
                          /\ TokenShows(pr, tb1[i]) = TokenShows(pr, tb0[i])
      <3> TAKE i \in 1..k
      <3>1. tb0[i] \in TokenOf(pr)
        BY <2>1
      <3>2. CASE i \in {p.paused, k}
        <4>1. tb0[i].type = Statement /\ tb1[i] = Nop(tb0[i])
          BY <2>1, <3>2
        <4>2. /\ tb0[i].tag # "text" /\ tb0[i].type # "CONTROL_CHAR"
              /\ TokenShows(pr, tb0[i]) = << >>
          BY <3>1, <4>1 DEF TokenOf, Statement, TokenShows
        <4>3. /\ tb1[i].tag = tb0[i].tag /\ tb1[i].type = "SNOP"
              /\ tb1[i] = [tag |-> tb0[i].tag, type |-> "SNOP", at |-> tb0[i].at]
          BY <3>1, <4>1 DEF TokenOf
        <4>4. TokenShows(pr, tb1[i]) = << >>
          BY <4>2, <4>3 DEF TokenShows
        <4>5. tb1[i] \in TokenOf(pr)
          <5> DEFINE u == tb1[i]
          <5>1. tb0[i].tag \in {"text", "start", "end", "empty"} /\ tb0[i].at \in Nat
            BY <3>1 DEF TokenOf
          <5>2. /\ u = [tag |-> tb0[i].tag, type |-> "SNOP", at |-> tb0[i].at]
                /\ "SNOP" \in Name /\ u.tag # "text" /\ u.type = "SNOP"
            BY <4>2, <4>3 DEF Name
          <5> HIDE DEF tb1, tb0, u
          <5> QED BY <5>1, <5>2 DEF TokenOf, u
        <4> QED BY <4>2, <4>4, <4>5
      <3>3. CASE i \notin {p.paused, k}
        <4>1. tb1[i] = tb0[i]
          BY <2>1, <3>3
        <4> QED BY <3>1, <4>1
      <3> QED BY <3>2, <3>3
    <2>5. tb1 \in Seq(TokenOf(pr)) /\ DOMAIN tb1 = DOMAIN tb0
      <3>1. DOMAIN tb1 = 1..k /\ DOMAIN tb0 = 1..k
        BY <2>1
      <3>2. tb1 = [i \in 1..k |-> tb1[i]]
        BY <2>1
      <3> HIDE DEF tb1, k
      <3> QED BY <2>1, <2>4, <3>1, <3>2, IsASeq
    <2>6. Tokens(pr, tb1) = Tokens(pr, tb0)
      <3>1. DOMAIN tb0 = 1..k
        BY <2>1
      <3> HIDE DEF tb1, tb0, k
      <3> QED BY <2>4, <2>5, <3>1, TokensSame
    <2> HIDE DEF tb1, r
    <2>7. Good(pr, r) /\ r \in Parser(pr) /\ r.using = "main"
      BY <2>2 DEF Quiet, Good
    <2>8. /\ o \in [Buffers -> Seq(TokenOf(pr))] /\ s \in [Buffers -> Seq(TokenOf(pr))]
          /\ o["main"] = tb1 /\ o["pre"] = << >> /\ s["pre"] = << >>
      BY <2>5, <2>7, BufferTypes DEF Good, Buffers
    <2>9. q \in Parser(pr)
      <3> HIDE DEF o, s, q
      <3> QED BY <2>3, <2>7, <2>8, ParserBuffers
    <2>10. q.out = o /\ q.skip = s /\ SameControl(r, q)
      <3> HIDE DEF o, s, q
      <3> QED BY <2>3, <2>7 DEF Parser, SameControl
    <2>11. Good(pr, q)
      <3> HIDE DEF o, s, q
      <3> QED BY <2>2, <2>8, <2>9, <2>10 DEF Good, SameControl
    <2>12. Waiting(pr, q) = Waiting(pr, r)
      <3>1. q.out["pre"] = r.out["pre"]
        BY <2>7, <2>8, <2>10 DEF Good
      <3>2. Tokens(pr, q.out["main"]) = Tokens(pr, r.out["main"])
        BY <2>2, <2>6, <2>8, <2>10
      <3> HIDE DEF o, q
      <3> QED BY <2>10, <3>1, <3>2 DEF Waiting
    <2>13. Quiet(pr, r, q) /\ q.st = r.st
      BY <2>10, <2>11, <2>12 DEF Quiet, SameControl
    <2> QED BY <2>2, <2>13, QuietTwice
  <1> QED BY <1>1, <1>2

LEMMA CompleteSkip ==
    ASSUME NEW pr \in ProgramSet, NEW p, Good(pr, p)
    PROVE  LET q == completeSkip(p)
           IN  Still(pr, p, q) /\ q.st = p.st
  <1>1. CASE p.comments = << >>
    BY <1>1 DEF completeSkip, Still, Quiet
  <1>2. CASE p.comments # << >>
    <2> DEFINE t == EndTag(Last(p.comments))
               r == pushSkipToken(p, t)
               n == r.paused
               c == Front(p.comments)
               a == r.at
               q == WithNumbers(r, n, c, a)
    <2>1. p.comments \in Seq(Name)
      BY ModeTypes
    <2>2. Last(p.comments) \in Name /\ c \in Seq(Name)
      BY <1>2, <2>1 DEF Last, Front
    <2>3. t \in TokenOf(pr) /\ TokenShows(pr, t) = << >>
      <3> DEFINE e == Last(p.comments)
      <3>1. e \in Name
        BY <2>2
      <3> HIDE DEF e
      <3>2. EndTag(e) \in TokenOf(pr) /\ TokenShows(pr, EndTag(e)) = << >>
        BY <3>1, TokenFacts
      <3> QED BY <3>2 DEF e
    <2> HIDE DEF t
    <2>4. /\ Good(pr, r) /\ SameControl(p, r)
          /\ Waiting(pr, r) = Waiting(pr, p) \o TokenShows(pr, t)
      BY <2>3, PushSkip
    <2>5. Waiting(pr, r) = Waiting(pr, p)
      BY <2>3, <2>4, WaitingTypes
    <2>6. completeSkip(p) = q
      <3>3. completeSkip(p) = [r EXCEPT !.comments = Front(r.comments)]
        BY <1>2 DEF completeSkip, t
      <3>4. r.comments = p.comments
        BY <2>4 DEF SameControl
      <3>1. completeSkip(p) = [r EXCEPT !.comments = c]
        BY <3>3, <3>4
      <3> HIDE DEF r, c
      <3>2. r \in Parser(pr)
        BY <2>4 DEF Good
      <3> QED BY <3>1, <3>2 DEF Parser, WithNumbers
    <2> HIDE DEF r
    <2>7. n \in Nat /\ a \in Nat \ {0}
      BY <2>4, ModeTypes
    <2> HIDE DEF n, a, c
    <2>8. /\ q \in Parser(pr) /\ q.out = r.out /\ q.skip = r.skip
          /\ q.st = r.st /\ q.using = r.using /\ q.inskip = r.inskip
          /\ q.inAttribute = r.inAttribute /\ q.paused = n /\ q.at = a
          /\ Waiting(pr, q) = Waiting(pr, r)
      BY <2>2, <2>4, <2>7, OtherNumbers
    <2> HIDE DEF q
    <2>9. Good(pr, q)
      BY <2>4, <2>8 DEF Good, n
    <2> QED BY <2>4, <2>5, <2>6, <2>8, <2>9 DEF Still, Quiet, SameControl, n, a
  <1> QED BY <1>1, <1>2

LEMMA EndInnerKeeps ==
    ASSUME NEW pr \in ProgramSet, NEW p, Good(pr, p), p.using = "main", p.st # << >>
    PROVE  LET q == EndInner(p)
           IN  Still(pr, p, q) /\ Len(q.st) = 1 /\ q.st # << >>
  <1> DEFINE n == Len(p.st) - 1
  <1>1. Len(p.st) \in Nat \ {0} /\ n \in 0..Len(p.st)
    BY ModeTypes
  <1>2. EndInner(p) = PopModeTimes(p, n)
    BY DEF EndInner, PopModeTimes
  <1> HIDE DEF n
  <1>3. Still(pr, p, PopModeTimes(p, n)) /\ Popped(p, PopModeTimes(p, n), n)
    BY <1>1, PopModes
  <1>4. Len(PopModeTimes(p, n).st) = 1
    BY <1>1, <1>3 DEF Popped, n
  <1>5. PopModeTimes(p, n).st # << >>
    BY <1>4
  <1> QED BY <1>2, <1>3, <1>4, <1>5

LEMMA EndAllModes ==
    ASSUME NEW pr \in ProgramSet, NEW p, Good(pr, p), p.using = "main", p.st # << >>
    PROVE  LET q == endAllModes(p)
           IN  Quiet(pr, p, q) /\ q.st = << >> /\ q.paused = 0
  <1> DEFINE q == IF p.paused > 0 THEN nopStreamStart(EndInner(p)) ELSE p
             r == resumeStream(q)
             i == EndInner(r)
             c == completeSkip(i)
             f == flushSkip(c)
             e == popMode(f)
  <1>1. Quiet(pr, p, q) /\ q.st # << >>
    <2>1. CASE p.paused > 0
      <3> DEFINE a == EndInner(p)
      <3>1. Still(pr, p, a) /\ a.st # << >>
        BY EndInnerKeeps
      <3> HIDE DEF a
      <3>2. Good(pr, a) /\ a.using = "main"
        BY <3>1 DEF Still, Quiet
      <3>3. Quiet(pr, a, nopStreamStart(a)) /\ nopStreamStart(a).st = a.st
        BY <3>2, NopStreamStart
      <3>4. q = nopStreamStart(a)
        BY <2>1 DEF a
      <3> QED BY <3>1, <3>3, <3>4, QuietTwice DEF Still
    <2>2. CASE ~ (p.paused > 0)
      BY <2>2 DEF Quiet
    <2> QED BY <2>1, <2>2
  <1>2. endAllModes(p) = e
    BY DEF endAllModes
  <1> HIDE DEF q
  <1>3. Quiet(pr, p, r) /\ r.st # << >> /\ r.paused = 0
    <2>1. Good(pr, q)
      BY <1>1 DEF Quiet
    <2>2. Quiet(pr, q, r) /\ r.st = q.st /\ r.paused = 0
      BY <2>1, ResumeStream
    <2> QED BY <1>1, <2>2, QuietTwice
  <1> HIDE DEF r
  <1>4. Quiet(pr, p, i) /\ i.paused = 0 /\ Len(i.st) = 1
    <2>1. Good(pr, r) /\ r.using = "main"
      BY <1>3 DEF Quiet
    <2>2. Still(pr, r, i) /\ Len(i.st) = 1
      BY <1>3, <2>1, EndInnerKeeps
    <2> QED BY <1>3, <2>2, QuietTwice DEF Still
  <1> HIDE DEF i
  <1>5. Quiet(pr, p, c) /\ c.paused = 0 /\ Len(c.st) = 1
    <2>1. Good(pr, i)
      BY <1>4 DEF Quiet
    <2>2. Still(pr, i, c) /\ c.st = i.st
      BY <2>1, CompleteSkip
    <2>3. Quiet(pr, i, c) /\ c.paused = i.paused
      BY <2>2 DEF Still
    <2> HIDE DEF i, c
    <2>4. Quiet(pr, p, c)
      BY <1>4, <2>3, QuietTwice
    <2> QED BY <1>4, <2>2, <2>3, <2>4
  <1> HIDE DEF c
  <1>6. Quiet(pr, p, f) /\ f.paused = 0 /\ Len(f.st) = 1
    <2>1. Good(pr, c)
      BY <1>5 DEF Quiet
    <2>2. Good(pr, f) /\ Waiting(pr, f) = Waiting(pr, c) /\ SameControl(c, f)
      BY <2>1, FlushSkip
    <2> HIDE DEF f
    <2>3. Quiet(pr, c, f) /\ f.paused = c.paused /\ f.st = c.st
      BY <2>2, SameIsStill DEF SameControl, Still
    <2>4. Quiet(pr, p, f)
      BY <1>5, <2>3, QuietTwice
    <2> QED BY <1>5, <2>3, <2>4
  <1> HIDE DEF f
  <1>7. Quiet(pr, p, e) /\ e.paused = 0 /\ Len(e.st) = 0
    <2>1. Good(pr, f) /\ CanEnd(f)
      <3>1. Good(pr, f) /\ f.using = "main"
        BY <1>6 DEF Quiet
      <3>2. Len(f.st) > 0
        BY <1>6
      <3>3. f.st # << >>
        BY <3>1, <3>2, InMode, Zenon
      <3> QED BY <3>1, <3>3 DEF CanEnd
    <2>2. Still(pr, f, e) /\ Popped(f, e, 1)
      BY <2>1, PopModeKeeps
    <2> HIDE DEF e
    <2>3. Quiet(pr, f, e) /\ e.paused = f.paused /\ Len(e.st) = Len(f.st) - 1
      BY <2>2 DEF Still, Popped
    <2>4. Quiet(pr, p, e)
      BY <1>6, <2>3, QuietTwice
    <2> QED BY <1>6, <2>3, <2>4
  <1>8. e.st = << >>
    <2>1. Good(pr, e)
      BY <1>7 DEF Quiet
    <2>2. e.st \in Seq(Modes)
      BY <2>1, ModeTypes
    <2> QED BY <1>7, <2>2
  <1> QED BY <1>2, <1>7, <1>8

-----------------------------------------------------------------------------
(* Taking in the program *)

\* as far as the rules can see, nothing happens
Idle(pr, p, q) == Still(pr, p, q) /\ q.st = p.st

\* one token is taken in
Reads(pr, p, q) ==
    /\ Good(pr, q) /\ q.st = p.st /\ q.using = p.using /\ q.paused = p.paused
    /\ q.inskip = p.inskip /\ q.inAttribute = p.inAttribute
    /\ q.at = p.at + 1
    /\ Waiting(pr, q) = Waiting(pr, p) \o ProgramShows(pr, p.at)

LEMMA IdleReads ==
    ASSUME NEW pr, NEW p, NEW q, NEW r, Idle(pr, p, q), Reads(pr, q, r)
    PROVE  Reads(pr, p, r)
  BY DEF Idle, Still, Quiet, Reads

LEMMA ReadsIdle ==
    ASSUME NEW pr, NEW p, NEW q, NEW r, Reads(pr, p, q), Idle(pr, q, r)
    PROVE  Reads(pr, p, r)
  BY DEF Idle, Still, Quiet, Reads

LEMMA SkipTag ==
    ASSUME NEW pr \in ProgramSet, NEW p, Good(pr, p), NEW t \in TokenOf(pr),
           TokenShows(pr, t) = << >>
    PROVE  Idle(pr, p, pushSkipToken(p, t)) /\ Good(pr, pushSkipToken(p, t))
  <1> DEFINE q == pushSkipToken(p, t)
  <1>1. /\ Good(pr, q) /\ SameControl(p, q)
        /\ Waiting(pr, q) = Waiting(pr, p) \o TokenShows(pr, t)
    BY PushSkip
  <1> HIDE DEF q
  <1>2. Waiting(pr, q) = Waiting(pr, p)
    BY <1>1, WaitingTypes
  <1>3. Idle(pr, p, q)
    BY <1>1, <1>2, SameIsStill DEF Idle, SameControl
  <1> QED BY <1>1, <1>3 DEF q

WithComments(p, c) == [p EXCEPT !.comments = c]

LEMMA OtherComments ==
    ASSUME NEW pr \in ProgramSet, NEW p, Good(pr, p), NEW c \in Seq(Name)
    PROVE  Idle(pr, p, WithComments(p, c)) /\ Good(pr, WithComments(p, c))
  <1> DEFINE n == p.paused
             a == p.at
             q == WithNumbers(p, n, c, a)
  <1>1. a \in Nat \ {0} /\ n \in Nat
    BY ModeTypes
  <1>2. WithComments(p, c) = q
    BY DEF WithComments, Good, Parser, WithNumbers
  <1> HIDE DEF a, n
  <1>3. /\ q \in Parser(pr) /\ q.out = p.out /\ q.skip = p.skip
        /\ q.st = p.st /\ q.using = p.using /\ q.inskip = p.inskip
        /\ q.inAttribute = p.inAttribute /\ q.paused = n /\ q.at = a
        /\ Waiting(pr, q) = Waiting(pr, p)
    BY <1>1, OtherNumbers
  <1> HIDE DEF q
  <1>4. Good(pr, q)
    BY <1>3 DEF Good, n
  <1>5. Idle(pr, p, q)
    BY <1>3, <1>4 DEF Idle, Still, Quiet, n, a
  <1> QED BY <1>2, <1>4, <1>5

LEMMA NextToken ==
    ASSUME NEW pr \in ProgramSet, NEW p, Good(pr, p)
    PROVE  LET q == Next1(p)
           IN  /\ Good(pr, q) /\ q.st = p.st /\ q.using = p.using
               /\ q.paused = p.paused /\ q.inskip = p.inskip
               /\ q.inAttribute = p.inAttribute /\ q.at = p.at + 1
               /\ Waiting(pr, q) = Waiting(pr, p) /\ q.out = p.out
  <1> DEFINE n == p.paused
             c == p.comments
             a == p.at + 1
             q == WithNumbers(p, n, c, a)
  <1>1. a \in Nat \ {0} /\ n \in Nat /\ c \in Seq(Name)
    BY ModeTypes
  <1>2. Next1(p) = q
    BY DEF Next1, Good, Parser, WithNumbers
  <1> HIDE DEF a, n, c
  <1>3. /\ q \in Parser(pr) /\ q.out = p.out /\ q.skip = p.skip
        /\ q.st = p.st /\ q.using = p.using /\ q.inskip = p.inskip
        /\ q.inAttribute = p.inAttribute /\ q.paused = n /\ q.at = a
        /\ Waiting(pr, q) = Waiting(pr, p)
    BY <1>1, OtherNumbers
  <1> HIDE DEF q
  <1>4. Good(pr, q)
    BY <1>3 DEF Good, n
  <1> QED BY <1>2, <1>3, <1>4 DEF n, a

\* pushing the next token, and going on to the one after it
LEMMA SkipOne ==
    ASSUME NEW pr \in ProgramSet, NEW p, Good(pr, p), NEW t \in TokenOf(pr),
           TokenShows(pr, t) = ProgramShows(pr, p.at)
    PROVE  Reads(pr, p, Next1(pushSkipToken(p, t)))
  <1> DEFINE q == pushSkipToken(p, t)
             r == Next1(q)
  <1>1. /\ Good(pr, q) /\ SameControl(p, q)
        /\ Waiting(pr, q) = Waiting(pr, p) \o TokenShows(pr, t)
    BY PushSkip
  <1> HIDE DEF q
  <1>2. /\ Good(pr, r) /\ r.st = q.st /\ r.using = q.using
        /\ r.paused = q.paused /\ r.inskip = q.inskip
        /\ r.inAttribute = q.inAttribute /\ r.at = q.at + 1
        /\ Waiting(pr, r) = Waiting(pr, q)
    BY <1>1, NextToken
  <1> HIDE DEF r
  <1>3. Reads(pr, p, r)
    BY <1>1, <1>2 DEF Reads, SameControl
  <1> QED BY <1>3 DEF r, q

LEMMA TextShows ==
    ASSUME NEW pr \in ProgramSet, NEW i \in 1..Len(pr), pr[i].type # "CONTROL_CHAR"
    PROVE  /\ Text(i) \in TokenOf(pr)
           /\ TokenShows(pr, Text(i)) = ProgramShows(pr, i)
  <1>1. Text(i) \in TokenOf(pr)
    <2>1. i \in 1..(Len(pr) + 1)
      BY DEF ProgramSet
    <2> QED BY <2>1, TokenFacts
  <1>2. TokenShows(pr, Text(i)) = ProgramShows(pr, i)
    BY DEF TokenShows, ProgramShows, Text
  <1> QED BY <1>1, <1>2

LEMMA SkipTextReads ==
    ASSUME NEW pr \in ProgramSet, NEW p, Good(pr, p), p.at \in 1..Len(pr),
           pr[p.at].type # "CONTROL_CHAR"
    PROVE  Reads(pr, p, SkipText(p))
  <1> DEFINE t == Text(p.at)
  <1>1. t \in TokenOf(pr) /\ TokenShows(pr, t) = ProgramShows(pr, p.at)
    BY TextShows
  <1> HIDE DEF t
  <1>2. Reads(pr, p, Next1(pushSkipToken(p, t)))
    BY <1>1, SkipOne
  <1> QED BY <1>2 DEF t, SkipText

LEMMA TagTokens ==
    ASSUME NEW pr \in ProgramSet, NEW e \in {"SCOMMENT", "SLINECOMMENT"}
    PROVE  /\ StartTag(e) \in TokenOf(pr) /\ TokenShows(pr, StartTag(e)) = << >>
           /\ EndTag(e) \in TokenOf(pr) /\ TokenShows(pr, EndTag(e)) = << >>
  <1>1. e \in Name
    BY DEF Name
  <1> QED BY <1>1, TokenFacts

LEMMA OpenCommentReads ==
    ASSUME NEW pr \in ProgramSet, NEW p, Good(pr, p), p.at \in 1..Len(pr),
           pr[p.at].type # "CONTROL_CHAR", NEW e \in {"SCOMMENT", "SLINECOMMENT"}
    PROVE  Reads(pr, p, OpenComment(p, e))
  <1> DEFINE t == StartTag(e)
             a == pushSkipToken(p, t)
             b == SkipText(a)
             c == Append(b.comments, e)
  <1>1. Idle(pr, p, a) /\ Good(pr, a)
    <2>1. t \in TokenOf(pr) /\ TokenShows(pr, t) = << >>
      BY TagTokens
    <2> HIDE DEF t
    <2> QED BY <2>1, SkipTag
  <1>2. OpenComment(p, e) = WithComments(b, c)
    BY DEF OpenComment, WithComments
  <1> HIDE DEF a
  <1>3. Reads(pr, a, b)
    <2>1. a.at = p.at
      BY <1>1 DEF Idle, Still, Quiet
    <2> QED BY <1>1, <2>1, SkipTextReads
  <1> HIDE DEF b
  <1>4. Good(pr, b)
    BY <1>3 DEF Reads
  <1>5. c \in Seq(Name)
    <2>1. b.comments \in Seq(Name) /\ e \in Name
      BY <1>4, ModeTypes DEF Name
    <2> QED BY <2>1
  <1> HIDE DEF c
  <1>6. Idle(pr, b, WithComments(b, c))
    BY <1>4, <1>5, OtherComments
  <1> QED BY <1>1, <1>2, <1>3, <1>6, IdleReads, ReadsIdle

LEMMA CloseCommentKeeps ==
    ASSUME NEW pr \in ProgramSet, NEW p, Good(pr, p)
    PROVE  Idle(pr, p, CloseComment(p)) /\ Good(pr, CloseComment(p))
  <1> DEFINE c == Front(p.comments)
  <1>1. c \in Seq(Name)
    <2>1. p.comments \in Seq(Name)
      BY ModeTypes
    <2>2. CASE p.comments = << >>
      <3>1. c = << >>
        BY <2>2 DEF Front
      <3> QED BY <3>1
    <2>3. CASE p.comments # << >>
      BY <2>1, <2>3 DEF Front
    <2> QED BY <2>2, <2>3
  <1>2. CloseComment(p) = WithComments(p, c)
    BY DEF CloseComment, WithComments
  <1> HIDE DEF c
  <1> QED BY <1>1, <1>2, OtherComments

\* text, and the end tag of a comment after it
LEMMA TextThenEnd ==
    ASSUME NEW pr \in ProgramSet, NEW p, Good(pr, p), p.at \in 1..Len(pr),
           pr[p.at].type # "CONTROL_CHAR", NEW e \in {"SCOMMENT", "SLINECOMMENT"}
    PROVE  Reads(pr, p, pushSkipToken(SkipText(p), EndTag(e)))
  <1> DEFINE t == EndTag(e)
             a == SkipText(p)
  <1>1. t \in TokenOf(pr) /\ TokenShows(pr, t) = << >>
    BY TagTokens
  <1>2. Reads(pr, p, a)
    BY SkipTextReads
  <1> HIDE DEF a, t
  <1>3. Good(pr, a)
    BY <1>2 DEF Reads
  <1>4. Idle(pr, a, pushSkipToken(a, t))
    BY <1>1, <1>3, SkipTag
  <1>5. Reads(pr, p, pushSkipToken(a, t))
    BY <1>2, <1>4, ReadsIdle
  <1> QED BY <1>5 DEF a, t

LEMMA EndThenText ==
    ASSUME NEW pr \in ProgramSet, NEW p, Good(pr, p), p.at \in 1..Len(pr),
           pr[p.at].type # "CONTROL_CHAR", NEW e \in {"SCOMMENT", "SLINECOMMENT"}
    PROVE  Reads(pr, p, SkipText(pushSkipToken(p, EndTag(e))))
  <1> DEFINE t == EndTag(e)
             a == pushSkipToken(p, t)
  <1>1. Idle(pr, p, a) /\ Good(pr, a)
    <2>1. t \in TokenOf(pr) /\ TokenShows(pr, t) = << >>
      BY TagTokens
    <2> HIDE DEF t
    <2> QED BY <2>1, SkipTag
  <1> HIDE DEF a
  <1>2. a.at = p.at
    BY <1>1 DEF Idle, Still, Quiet
  <1>3. Reads(pr, a, SkipText(a))
    BY <1>1, <1>2, SkipTextReads
  <1>4. Reads(pr, p, SkipText(a))
    BY <1>1, <1>3, IdleReads
  <1> QED BY <1>4 DEF a, t

LEMMA SkipTokenReads ==
    ASSUME NEW pr \in ProgramSet, NEW p, Good(pr, p), p.at \in 1..Len(pr)
    PROVE  Reads(pr, p, SkipToken(p, pr[p.at]))
  <1> DEFINE token == pr[p.at]
             c == CloseComment(p)
  <1>0. Idle(pr, p, c) /\ Good(pr, c) /\ c.at = p.at
    BY CloseCommentKeeps DEF Idle, Still, Quiet
  <1> HIDE DEF c
  <1>1. CASE token.type = "CONTROL_CHAR"
    <2> DEFINE t == EmptyTag("CONTROL_CHAR", p.at)
    <2>1. t \in TokenOf(pr) /\ TokenShows(pr, t) = <<0>>
      <3>1. p.at \in Nat
        BY ModeTypes
      <3> QED BY <3>1, TokenFacts
    <2>2. SkipToken(p, token) = Next1(pushSkipToken(p, t))
      BY <1>1 DEF SkipToken
    <2>3. ProgramShows(pr, p.at) = <<0>>
      BY <1>1 DEF ProgramShows
    <2> HIDE DEF t
    <2> QED BY <2>1, <2>2, <2>3, SkipOne
  <1>2. CASE token.type = "BLOCK_COMMENT_START"
    <2>1. SkipToken(p, token) = OpenComment(p, "SCOMMENT")
      BY <1>2 DEF SkipToken
    <2> QED BY <1>2, <2>1, OpenCommentReads
  <1>3. CASE token.type = "LINE_COMMENT_START"
    <2>1. SkipToken(p, token) = OpenComment(p, "SLINECOMMENT")
      BY <1>3 DEF SkipToken
    <2> QED BY <1>3, <2>1, OpenCommentReads
  <1>4. CASE token.type = "BLOCK_COMMENT_END"
    <2>1. SkipToken(p, token) = pushSkipToken(SkipText(c), EndTag("SCOMMENT"))
      BY <1>4 DEF SkipToken, c
    <2>2. Reads(pr, c, pushSkipToken(SkipText(c), EndTag("SCOMMENT")))
      BY <1>0, <1>4, TextThenEnd
    <2> QED BY <1>0, <2>1, <2>2, IdleReads
  <1>5. CASE token.type = "LINE_COMMENT_END"
    <2>1. \/ SkipToken(p, token) = pushSkipToken(SkipText(c), EndTag("SLINECOMMENT"))
          \/ SkipToken(p, token) = SkipText(pushSkipToken(c, EndTag("SLINECOMMENT")))
      BY <1>5 DEF SkipToken, EndLineComment, c
    <2>2. Reads(pr, c, pushSkipToken(SkipText(c), EndTag("SLINECOMMENT")))
      BY <1>0, <1>5, TextThenEnd
    <2>3. Reads(pr, c, SkipText(pushSkipToken(c, EndTag("SLINECOMMENT"))))
      BY <1>0, <1>5, EndThenText
    <2> QED BY <1>0, <2>1, <2>2, <2>3, IdleReads
  <1>6. CASE token.type \notin {"CONTROL_CHAR", "BLOCK_COMMENT_START",
                                "LINE_COMMENT_START", "BLOCK_COMMENT_END",
                                "LINE_COMMENT_END"}
    <2>1. SkipToken(p, token) = SkipText(p)
      BY <1>6 DEF SkipToken
    <2> QED BY <1>6, <2>1, SkipTextReads
  <1> QED BY <1>1, <1>2, <1>3, <1>4, <1>5, <1>6

\* what waits grows by the text that is taken in, at its end
Carried(pr, p, q) ==
    \E y \in Seq(Nat) : /\ Waiting(pr, q) = Waiting(pr, p) \o y
                        /\ Source(pr, q.at) = Source(pr, p.at) \o y

Takes(pr, p, q) ==
    /\ Good(pr, q) /\ q.st = p.st /\ q.using = p.using /\ q.paused = p.paused
    /\ q.inskip = p.inskip /\ q.inAttribute = p.inAttribute
    /\ q.at >= p.at /\ (p.at <= Len(pr) + 1 => q.at <= Len(pr) + 1)
    /\ Carried(pr, p, q)

LEMMA TakesNone ==
    ASSUME NEW pr \in ProgramSet, NEW p, Good(pr, p)
    PROVE  Takes(pr, p, p)
  <1>1. p.at \in Nat \ {0} /\ Waiting(pr, p) \in Seq(Nat)
        /\ Source(pr, p.at) \in Seq(Nat)
    BY ModeTypes, WaitingTypes, SourceType
  <1>2. << >> \in Seq(Nat) /\ Waiting(pr, p) = Waiting(pr, p) \o << >>
        /\ Source(pr, p.at) = Source(pr, p.at) \o << >>
    BY <1>1
  <1>3. Carried(pr, p, p)
    BY <1>2 DEF Carried
  <1> QED BY <1>1, <1>3 DEF Takes

LEMMA ReadsTakes ==
    ASSUME NEW pr \in ProgramSet, NEW p, Good(pr, p), p.at \in 1..Len(pr),
           NEW q, Reads(pr, p, q)
    PROVE  Takes(pr, p, q)
  <1>1. ProgramShows(pr, p.at) \in Seq(Nat)
    BY ProgramShowsType
  <1>2. Source(pr, q.at) = Source(pr, p.at) \o ProgramShows(pr, p.at)
    BY SourceNext DEF Reads
  <1>3. Len(pr) \in Nat
    BY DEF ProgramSet
  <1>4. Carried(pr, p, q)
    BY <1>1, <1>2 DEF Reads, Carried
  <1> QED BY <1>3, <1>4 DEF Takes, Reads

LEMMA TakesTwice ==
    ASSUME NEW pr \in ProgramSet, NEW p, NEW q, NEW r, Good(pr, p),
           Takes(pr, p, q), Takes(pr, q, r)
    PROVE  Takes(pr, p, r)
  <1>1. PICK y \in Seq(Nat) : /\ Waiting(pr, q) = Waiting(pr, p) \o y
                              /\ Source(pr, q.at) = Source(pr, p.at) \o y
    BY DEF Takes, Carried
  <1>2. PICK z \in Seq(Nat) : /\ Waiting(pr, r) = Waiting(pr, q) \o z
                              /\ Source(pr, r.at) = Source(pr, q.at) \o z
    BY DEF Takes, Carried
  <1>3. Waiting(pr, p) \in Seq(Nat) /\ p.at \in Nat \ {0}
    BY ModeTypes, WaitingTypes
  <1>4. Source(pr, p.at) \in Seq(Nat)
    BY <1>3, SourceType
  <1>c. \A x \in Seq(Nat) : (x \o y) \o z = x \o (y \o z)
    <2> TAKE x \in Seq(Nat)
    <2> QED BY Brackets
  <1>a. (Waiting(pr, p) \o y) \o z = Waiting(pr, p) \o (y \o z)
    BY <1>3, <1>c
  <1>b. (Source(pr, p.at) \o y) \o z = Source(pr, p.at) \o (y \o z)
    BY <1>4, <1>c
  <1>5. y \o z \in Seq(Nat)
    BY Brackets
  <1>6. Carried(pr, p, r)
    BY <1>1, <1>2, <1>5, <1>a, <1>b DEF Carried
  <1>7. q.at \in Nat /\ r.at \in Nat /\ p.at \in Nat /\ Len(pr) \in Nat
    <2>1. Good(pr, q) /\ Good(pr, r)
      BY DEF Takes
    <2> QED BY <2>1, ModeTypes DEF ProgramSet
  <1> QED BY <1>6, <1>7 DEF Takes

LEMMA SkipLengthIs ==
    ASSUME NEW pr \in ProgramSet, NEW p, Good(pr, p)
    PROVE  LET n == SkipLength(p, pr)
           IN  /\ n \in 0..Len(pr)
               /\ \A i \in p.at..(p.at + n - 1) : i <= Len(pr)
               /\ p.at + n <= Len(pr) => ~ isSkipToken(p, pr[p.at + n].type)
  <1> DEFINE Passed(i) == i <= Len(pr) /\ isSkipToken(p, pr[i].type)
             Fits(n) == /\ \A i \in p.at..(p.at + n - 1) : Passed(i)
                        /\ ~ Passed(p.at + n)
             S == {n \in Nat : ~ Passed(p.at + n)}
             m == SkipLength(p, pr)
  <1>1. Len(pr) \in Nat /\ p.at \in Nat \ {0}
    BY ModeTypes DEF ProgramSet
  <1>2. Len(pr) \in S
    BY <1>1
  <1>3. PICK n \in S : \A k \in S : n <= k
    <2> HIDE DEF S
    <2>1. S \in SUBSET Nat /\ S # {}
      BY <1>2 DEF S
    <2> QED BY <2>1, Least
  <1>4. n \in 0..Len(pr)
    BY <1>1, <1>2, <1>3
  <1>5. ASSUME NEW i \in p.at..(p.at + n - 1)
        PROVE  Passed(i)
    <2>1. i - p.at \in Nat /\ i - p.at < n /\ p.at + (i - p.at) = i
      BY <1>1, <1>4
    <2>2. i - p.at \notin S
      BY <1>3, <1>4, <2>1
    <2> HIDE DEF Passed
    <2> QED BY <2>1, <2>2
  <1>6. Fits(n)
    BY <1>3, <1>5
  <1>7. m = CHOOSE k \in 0..Len(pr) : Fits(k)
    BY DEF SkipLength
  <1> HIDE DEF m, Fits
  <1>8. m \in 0..Len(pr) /\ Fits(m)
    BY <1>4, <1>6, <1>7
  <1> USE DEF Fits
  <1>9. /\ \A i \in p.at..(p.at + m - 1) : i <= Len(pr)
        /\ p.at + m <= Len(pr) => ~ isSkipToken(p, pr[p.at + m].type)
    BY <1>8
  <1> QED BY <1>8, <1>9 DEF m

LEMMA SkipAllTakes ==
    ASSUME NEW pr \in ProgramSet, NEW p, Good(pr, p)
    PROVE  LET q == SkipAll(p, pr)
           IN  /\ Takes(pr, p, q) /\ LA(q, pr) # "CONTROL_CHAR"
               /\ p.at > Len(pr) => q = p
  <1> DEFINE n == SkipLength(p, pr)
             q == SkipAll(p, pr)
  <1>1. /\ n \in 0..Len(pr) /\ n \in Nat
        /\ \A i \in p.at..(p.at + n - 1) : i <= Len(pr)
        /\ p.at + n <= Len(pr) => ~ isSkipToken(p, pr[p.at + n].type)
    BY SkipLengthIs
  <1>2. q = SkipTokenTimes(pr, p, n)
    BY DEF SkipAll, SkipTokenTimes
  <1> HIDE DEF q, n
  <1>3. PICK f : SkipTokenRun(pr, p, n, f) /\ SkipTokenTimes(pr, p, n) = f[n]
    BY <1>1, SkipTokenAgain
  <1>4. /\ f[0] = p
        /\ \A i \in Nat : i + 1 \in 0..n => f[i + 1] = SkipToken(f[i], pr[f[i].at])
    BY <1>3 DEF SkipTokenRun
  <1>5. p.at \in Nat \ {0} /\ Len(pr) \in Nat
    BY ModeTypes DEF ProgramSet
  <1> DEFINE Kept(i) == Takes(pr, p, f[i]) /\ f[i].at = p.at + i
             T == {i \in Nat : i \in 0..n => Kept(i)}
  <1>6. 0 \in T
    BY <1>4, <1>5, TakesNone
  <1>7. ASSUME NEW i \in T PROVE i + 1 \in T
    <2> SUFFICES ASSUME i + 1 \in 0..n PROVE Kept(i + 1)
      OBVIOUS
    <2>1. Kept(i) /\ i \in Nat /\ i < n
      BY <1>1
    <2> HIDE DEF T
    <2>2. f[i].at \in 1..Len(pr)
      <3>1. p.at + i \in p.at..(p.at + n - 1)
        BY <1>1, <1>5, <2>1
      <3> QED BY <1>1, <1>5, <2>1, <3>1
    <2>3. Good(pr, f[i])
      BY <2>1 DEF Takes
    <2> DEFINE r == SkipToken(f[i], pr[f[i].at])
    <2>4. Reads(pr, f[i], r)
      BY <2>2, <2>3, SkipTokenReads
    <2>5. f[i + 1] = r
      BY <1>4, <2>1
    <2> HIDE DEF r
    <2>6. Takes(pr, f[i], r)
      BY <2>2, <2>3, <2>4, ReadsTakes
    <2>7. Takes(pr, p, r)
      BY <2>1, <2>6, TakesTwice
    <2>8. r.at = p.at + (i + 1)
      BY <1>5, <2>1, <2>4 DEF Reads
    <2> QED BY <2>5, <2>7, <2>8
  <1> HIDE DEF T
  <1>8. n \in T
    BY <1>1, <1>6, <1>7, Induct DEF T
  <1>9. Takes(pr, p, q) /\ q.at = p.at + n
    BY <1>1, <1>2, <1>3, <1>8 DEF T
  <1>10. LA(q, pr) # "CONTROL_CHAR"
    <2>1. CASE q.at > Len(pr)
      BY <2>1 DEF LA
    <2>2. CASE ~ (q.at > Len(pr))
      <3>1. p.at + n <= Len(pr)
        BY <1>1, <1>5, <1>9, <2>2
      <3>2. ~ isSkipToken(p, pr[q.at].type)
        BY <1>1, <1>9, <3>1
      <3>3. pr[q.at].type # "CONTROL_CHAR"
        BY <3>2 DEF isSkipToken, whitespace_token_set
      <3> QED BY <2>2, <3>3 DEF LA
    <2> QED BY <2>1, <2>2
  <1>11. ASSUME p.at > Len(pr) PROVE q = p
    <2>1. n = 0
      <3>1. n > 0 => p.at \in p.at..(p.at + n - 1)
        BY <1>1, <1>5
      <3> QED BY <1>1, <1>5, <1>11, <3>1
    <2> QED BY <1>2, <1>3, <1>4, <2>1
  <1> QED BY <1>9, <1>10, <1>11 DEF q

\* consume, before the tokens it skips
First(pr, p) == Next1(pushCorrectToken(p, pr))

LEMMA FirstReads ==
    ASSUME NEW pr \in ProgramSet, NEW p, Good(pr, p), p.at \in 1..Len(pr),
           LA(p, pr) # "CONTROL_CHAR"
    PROVE  Reads(pr, p, First(pr, p))
  <1> DEFINE t == Text(p.at)
             q == pushTokenFlush(p, t)
             r == Next1(q)
  <1>1. pr[p.at].type # "CONTROL_CHAR"
    BY DEF LA, ProgramSet
  <1>2. t \in TokenOf(pr) /\ TokenShows(pr, t) = ProgramShows(pr, p.at)
    BY <1>1, TextShows
  <1>3. CASE isSkipToken(p, LA(p, pr))
    <2>1. First(pr, p) = Next1(pushSkipToken(p, t))
      BY <1>3 DEF First, pushCorrectToken
    <2> HIDE DEF t
    <2> QED BY <1>2, <2>1, SkipOne
  <1>4. CASE ~ isSkipToken(p, LA(p, pr))
    <2>1. First(pr, p) = r
      BY <1>4 DEF First, pushCorrectToken
    <2> HIDE DEF t
    <2>2. /\ Good(pr, q) /\ SameControl(p, q)
          /\ Waiting(pr, q) = Waiting(pr, p) \o TokenShows(pr, t)
      BY <1>2, PushFlush
    <2> HIDE DEF q
    <2>3. /\ Good(pr, r) /\ r.st = q.st /\ r.using = q.using
          /\ r.paused = q.paused /\ r.inskip = q.inskip
          /\ r.inAttribute = q.inAttribute /\ r.at = q.at + 1
          /\ Waiting(pr, r) = Waiting(pr, q)
      BY <2>2, NextToken
    <2> HIDE DEF r
    <2>4. Reads(pr, p, r)
      BY <1>2, <2>2, <2>3 DEF Reads, SameControl
    <2> QED BY <2>1, <2>4
  <1> QED BY <1>3, <1>4

LEMMA ConsumeTakes ==
    ASSUME NEW pr \in ProgramSet, NEW p, Good(pr, p),
           LA(p, pr) \notin {"CONTROL_CHAR", "EOF"}
    PROVE  LET q == consume(p, pr)
           IN  Takes(pr, p, q) /\ LA(q, pr) # "CONTROL_CHAR"
  <1> DEFINE r == First(pr, p)
  <1>1. p.at \in 1..Len(pr)
    <2>1. p.at \in Nat \ {0} /\ Len(pr) \in Nat
      BY ModeTypes DEF ProgramSet
    <2>2. p.at <= Len(pr)
      BY <2>1 DEF LA
    <2> QED BY <2>1, <2>2
  <1>2. Reads(pr, p, r)
    BY <1>1, FirstReads
  <1>3. consume(p, pr) = SkipAll(r, pr)
    BY DEF consume, First
  <1> HIDE DEF r
  <1>4. Takes(pr, p, r) /\ Good(pr, r)
    BY <1>1, <1>2, ReadsTakes DEF Reads
  <1>5. Takes(pr, r, SkipAll(r, pr)) /\ LA(SkipAll(r, pr), pr) # "CONTROL_CHAR"
    BY <1>4, SkipAllTakes
  <1>6. Takes(pr, p, SkipAll(r, pr))
    BY <1>4, <1>5, TakesTwice
  <1> QED BY <1>3, <1>5, <1>6

\* at the end of the program
LEMMA ConsumeEnd ==
    ASSUME NEW pr \in ProgramSet, NEW p, Good(pr, p), p.using = "main",
           p.at = Len(pr) + 1
    PROVE  LET q == consume(p, pr)
           IN  /\ Good(pr, q) /\ q.st = p.st /\ q.using = "main"
               /\ q.paused = p.paused /\ q.inskip = p.inskip
               /\ q.inAttribute = p.inAttribute /\ Carried(pr, p, q)
               /\ q.out["main"] # << >> /\ Last(q.out["main"]) = Text(Len(pr) + 1)
  <1> DEFINE t == Text(Len(pr) + 1)
             f == flushSkip(p)
             q == pushToken(f, t)
             r == Next1(q)
  <1>0. Len(pr) \in Nat
    BY DEF ProgramSet
  <1>1. t \in TokenOf(pr) /\ TokenShows(pr, t) = << >>
    <2>1. Len(pr) + 1 \in 1..(Len(pr) + 1)
      BY <1>0
    <2>2. t \in TokenOf(pr)
      BY <2>1, TokenFacts
    <2>3. TokenShows(pr, t) = << >>
      BY <1>0 DEF TokenShows, Text
    <2> QED BY <2>2, <2>3
  <1>2. consume(p, pr) = SkipAll(r, pr)
    <2>1. LA(p, pr) = "EOF"
      BY <1>0 DEF LA
    <2>2. ~ isSkipToken(p, LA(p, pr))
      BY <2>1 DEF isSkipToken, whitespace_token_set
    <2> QED BY <2>2 DEF consume, pushCorrectToken, pushTokenFlush
  <1> HIDE DEF t
  <1>3. /\ Good(pr, f) /\ Waiting(pr, f) = Waiting(pr, p) /\ SameControl(p, f)
    BY FlushSkip
  <1> HIDE DEF f
  <1>4. /\ Good(pr, q) /\ Waiting(pr, q) = Waiting(pr, f) /\ SameControl(f, q)
        /\ q.out = [f.out EXCEPT ![f.using] = Append(f.out[f.using], t)]
    BY <1>1, <1>3, PushToken
  <1> HIDE DEF q
  <1>5. q.out["main"] # << >> /\ Last(q.out["main"]) = t
    <2>1. f.out \in [Buffers -> Seq(TokenOf(pr))] /\ f.using = "main"
      BY <1>3, BufferTypes DEF SameControl
    <2>2. q.out["main"] = Append(f.out["main"], t) /\ f.out["main"] \in Seq(TokenOf(pr))
      BY <1>4, <2>1 DEF Buffers
    <2> QED BY <1>1, <2>2 DEF Last
  <1>6. /\ Good(pr, r) /\ r.st = q.st /\ r.using = q.using
        /\ r.paused = q.paused /\ r.inskip = q.inskip
        /\ r.inAttribute = q.inAttribute /\ r.at = q.at + 1
        /\ Waiting(pr, r) = Waiting(pr, q) /\ r.out = q.out
    BY <1>4, NextToken
  <1> HIDE DEF r
  <1>7. r.at = p.at + 1
    BY <1>3, <1>4, <1>6 DEF SameControl
  <1>8. SkipAll(r, pr) = r
    BY <1>0, <1>6, <1>7, SkipAllTakes
  <1>9. Carried(pr, p, r)
    <2>1. Source(pr, r.at) = Source(pr, p.at)
      BY <1>0, <1>7, SourceEnd
    <2>2. Waiting(pr, r) = Waiting(pr, p)
      BY <1>3, <1>4, <1>6
    <2>3. Carried(pr, p, p)
      BY TakesNone DEF Takes
    <2> QED BY <2>1, <2>2, <2>3 DEF Carried
  <1>10. /\ r.st = p.st /\ r.using = "main" /\ r.paused = p.paused
         /\ r.inskip = p.inskip /\ r.inAttribute = p.inAttribute
    BY <1>3, <1>4, <1>6 DEF SameControl
  <1>11. r.out["main"] # << >> /\ Last(r.out["main"]) = Text(Len(pr) + 1)
    BY <1>5, <1>6 DEF t
  <1> QED BY <1>2, <1>6, <1>8, <1>9, <1>10, <1>11

-----------------------------------------------------------------------------
(* Preprocessor lines and attributes *)

\* what was taken in since p is waiting in q
Grows(pr, p, q) == Good(pr, q) /\ Carried(pr, p, q)

LEMMA GrowsTwice ==
    ASSUME NEW pr \in ProgramSet, NEW p, NEW q, NEW r, Good(pr, p),
           Grows(pr, p, q), Grows(pr, q, r)
    PROVE  Grows(pr, p, r)
  <1>1. PICK y \in Seq(Nat) : /\ Waiting(pr, q) = Waiting(pr, p) \o y
                              /\ Source(pr, q.at) = Source(pr, p.at) \o y
    BY DEF Grows, Carried
  <1>2. PICK z \in Seq(Nat) : /\ Waiting(pr, r) = Waiting(pr, q) \o z
                              /\ Source(pr, r.at) = Source(pr, q.at) \o z
    BY DEF Grows, Carried
  <1>3. Waiting(pr, p) \in Seq(Nat) /\ p.at \in Nat \ {0}
    BY ModeTypes, WaitingTypes
  <1>4. Source(pr, p.at) \in Seq(Nat)
    BY <1>3, SourceType
  <1>5. \A x \in Seq(Nat) : (x \o y) \o z = x \o (y \o z)
    <2> TAKE x \in Seq(Nat)
    <2> QED BY Brackets
  <1>6. (Waiting(pr, p) \o y) \o z = Waiting(pr, p) \o (y \o z)
    BY <1>3, <1>5
  <1>7. (Source(pr, p.at) \o y) \o z = Source(pr, p.at) \o (y \o z)
    BY <1>4, <1>5
  <1>8. y \o z \in Seq(Nat)
    BY Brackets
  <1>9. Carried(pr, p, r)
    BY <1>1, <1>2, <1>6, <1>7, <1>8 DEF Carried
  <1> QED BY <1>9 DEF Grows

LEMMA QuietGrows ==
    ASSUME NEW pr \in ProgramSet, NEW p, NEW q, Good(pr, p), Quiet(pr, p, q)
    PROVE  Grows(pr, p, q)
  <1>1. Carried(pr, p, p)
    BY TakesNone DEF Takes
  <1>2. Carried(pr, p, q)
    BY <1>1 DEF Carried, Quiet
  <1> QED BY <1>2 DEF Grows, Quiet

LEMMA TakesGrows ==
    ASSUME NEW pr, NEW p, NEW q, Takes(pr, p, q)
    PROVE  Grows(pr, p, q)
  BY DEF Takes, Grows

WithUse(p, u, i, a) == [p EXCEPT !.using = u, !.inskip = i, !.inAttribute = a]

LEMMA OtherUse ==
    ASSUME NEW pr \in ProgramSet, NEW p \in Parser(pr), NEW u \in Buffers,
           NEW i \in BOOLEAN, NEW a \in BOOLEAN
    PROVE  LET q == WithUse(p, u, i, a)
           IN  /\ q \in Parser(pr) /\ q.out = p.out /\ q.skip = p.skip
               /\ q.st = p.st /\ q.using = u /\ q.inskip = i
               /\ q.inAttribute = a /\ q.paused = p.paused /\ q.at = p.at
               /\ Waiting(pr, q) = Waiting(pr, p)
  <1> DEFINE q == WithUse(p, u, i, a)
             M == Seq([flag : Flags, open : Seq(Name)])
             S == [Buffers -> Seq(TokenOf(pr))]
             N == Seq(Name)
             P == [st : M, out : S, skip : S,
                   using : Buffers, inskip : BOOLEAN, inAttribute : BOOLEAN,
                   paused : Nat, comments : N, at : Nat \ {0}]
  <1>1. p \in P
    BY DEF Parser
  <1> HIDE DEF M, S, N
  <1>2. q \in P
    BY <1>1 DEF WithUse
  <1>3. /\ q.out = p.out /\ q.skip = p.skip
        /\ q.st = p.st /\ q.using = u /\ q.inskip = i
        /\ q.inAttribute = a /\ q.paused = p.paused /\ q.at = p.at
    BY <1>1 DEF WithUse
  <1>4. q \in Parser(pr)
    BY <1>2 DEF M, S, N, Parser
  <1> HIDE DEF q
  <1>5. Waiting(pr, q) = Waiting(pr, p)
    BY <1>3 DEF Waiting
  <1> QED BY <1>3, <1>4, <1>5 DEF q

\* in the directive of a preprocessor line, and after it
InDirective(p) ==
    /\ p.using = "pre" /\ p.inskip /\ ~ p.inAttribute /\ Len(p.st) >= 4
    /\ p.st[Len(p.st)].flag = "none"
    /\ p.st[Len(p.st) - 1].flag = "PREPROC"
    /\ p.st[Len(p.st) - 2].flag = "PARSE_EOL"

InLine(p) ==
    /\ p.using = "pre" /\ p.inskip /\ ~ p.inAttribute /\ Len(p.st) >= 3
    /\ p.st[Len(p.st)].flag = "PREPROC"
    /\ p.st[Len(p.st) - 1].flag = "PARSE_EOL"

\* in an attribute
InAttribute(p) ==
    /\ p.using = "pre" /\ p.inAttribute /\ ~ p.inskip /\ Len(p.st) >= 2

\* in rules and between them
InRules(p) ==
    /\ p.using = "main" /\ ~ p.inskip /\ ~ p.inAttribute /\ p.st # << >>

\* what every rule finds: there is a token to look at, and it is not skipped
Ready(pr, p) == LA(p, pr) # "CONTROL_CHAR" /\ p.at <= Len(pr) + 1

LEMMA StartDirectiveGrows ==
    ASSUME NEW pr \in ProgramSet, NEW p, Good(pr, p), InRules(p),
           LA(p, pr) = "PREPROC"
    PROVE  LET q == StartDirective(p, pr)
           IN  Grows(pr, p, q) /\ InDirective(q) /\ Ready(pr, q)
  <1> DEFINE u == WithUse(p, "pre", TRUE, FALSE)
             v == startNewMode(u, "PARSE_EOL")
             r == startNewMode(v, "PREPROC")
             a == startElement(r, "cpp")
             b == consume(a, pr)
             c == startNewMode(b, "none")
             d == startElement(c, "directive")
             n == Len(p.st)
  <1>0. n \in Nat \ {0} /\ Len(pr) \in Nat /\ p.at \in Nat
    BY ModeTypes DEF ProgramSet, InRules
  <1>1. StartDirective(p, pr) = d
    <2>1. [p EXCEPT !.inskip = TRUE, !.using = "pre"] = u
      BY DEF WithUse, InRules, Good, Parser
    <2> QED BY <2>1 DEF StartDirective
  <1>3. /\ Good(pr, u) /\ Waiting(pr, u) = Waiting(pr, p) /\ u.st = p.st
        /\ u.at = p.at /\ u.using = "pre" /\ u.inskip /\ ~ u.inAttribute
    <2>1. p \in Parser(pr) /\ "pre" \in Buffers /\ TRUE \in BOOLEAN /\ FALSE \in BOOLEAN
      BY DEF Good, Buffers
    <2>2. /\ u \in Parser(pr) /\ u.out = p.out /\ u.skip = p.skip
          /\ u.st = p.st /\ u.using = "pre" /\ u.inskip = TRUE
          /\ u.inAttribute = FALSE /\ u.paused = p.paused /\ u.at = p.at
          /\ Waiting(pr, u) = Waiting(pr, p)
      BY <2>1, OtherUse
    <2> HIDE DEF u
    <2>3. Good(pr, u)
      BY <2>2 DEF Good
    <2> QED BY <2>2, <2>3
  <1> HIDE DEF u
  <1>4. /\ Still(pr, u, v) /\ Len(v.st) = n + 1 /\ v.st[n + 1].flag = "PARSE_EOL"
    <2>1. "PARSE_EOL" \in Flags
      BY DEF Flags
    <2> QED BY <1>3, <2>1, StartNewMode
  <1> HIDE DEF v
  <1>5. /\ Still(pr, v, r) /\ Len(r.st) = n + 2 /\ r.st[n + 2].flag = "PREPROC"
        /\ r.st[n + 1].flag = "PARSE_EOL"
    <2>1. "PREPROC" \in Flags /\ Good(pr, v)
      BY <1>4 DEF Flags, Still, Quiet
    <2>2. /\ Still(pr, v, r) /\ Len(r.st) = Len(v.st) + 1
          /\ r.st[Len(v.st) + 1].flag = "PREPROC"
          /\ \A i \in 1..Len(v.st) : r.st[i].flag = v.st[i].flag
      BY <2>1, StartNewMode
    <2> HIDE DEF r
    <2>3. n + 1 \in 1..Len(v.st) /\ Len(v.st) + 1 = n + 2
      BY <1>0, <1>4
    <2> QED BY <1>4, <2>2, <2>3
  <1> HIDE DEF r
  <1>6. /\ Still(pr, r, a) /\ SameModes(r, a)
    <2>1. "cpp" \in Name /\ Good(pr, r)
      BY <1>5 DEF Name, Still, Quiet
    <2>2. r.st # << >>
      <3>1. r.st \in Seq(Modes)
        BY <2>1, ModeTypes
      <3> QED BY <1>0, <1>5, <3>1
    <2> QED BY <2>1, <2>2, StartElementKeeps
  <1> HIDE DEF a
  <1>7. /\ Good(pr, a) /\ Waiting(pr, a) = Waiting(pr, p) /\ a.at = p.at
        /\ a.using = "pre" /\ a.inskip /\ ~ a.inAttribute
    BY <1>3, <1>4, <1>5, <1>6 DEF Still, Quiet
  <1>8. LA(a, pr) = "PREPROC" /\ a.at <= Len(pr)
    <2>1. LA(a, pr) = LA(p, pr)
      BY <1>7 DEF LA
    <2> QED BY <1>0, <1>7, <2>1 DEF LA
  <1>9. Takes(pr, a, b) /\ LA(b, pr) # "CONTROL_CHAR"
    BY <1>7, <1>8, ConsumeTakes
  <1> HIDE DEF b
  <1>10. /\ Still(pr, b, c) /\ Len(c.st) = n + 3 /\ c.st[n + 3].flag = "none"
         /\ c.st[n + 2].flag = "PREPROC" /\ c.st[n + 1].flag = "PARSE_EOL"
    <2>1. "none" \in Flags /\ Good(pr, b)
      BY <1>9 DEF Flags, Takes
    <2>2. /\ Still(pr, b, c) /\ Len(c.st) = Len(b.st) + 1
          /\ c.st[Len(b.st) + 1].flag = "none"
          /\ \A i \in 1..Len(b.st) : c.st[i].flag = b.st[i].flag
      BY <2>1, StartNewMode
    <2> HIDE DEF c
    <2>3. b.st = a.st
      BY <1>9 DEF Takes
    <2>4. Len(b.st) = n + 2 /\ n + 1 \in 1..Len(r.st) /\ n + 2 \in 1..Len(r.st)
      BY <1>0, <1>5, <1>6, <2>3 DEF SameModes
    <2>5. b.st[n + 1].flag = "PARSE_EOL" /\ b.st[n + 2].flag = "PREPROC"
      BY <1>5, <1>6, <2>3, <2>4 DEF SameModes
    <2>6. n + 1 \in 1..Len(b.st) /\ n + 2 \in 1..Len(b.st) /\ Len(b.st) + 1 = n + 3
      BY <1>0, <2>4
    <2> QED BY <2>2, <2>5, <2>6
  <1> HIDE DEF c
  <1>11. Still(pr, c, d) /\ SameModes(c, d)
    <2>1. "directive" \in Name /\ Good(pr, c)
      BY <1>10 DEF Name, Still, Quiet
    <2>2. c.st # << >>
      <3>1. c.st \in Seq(Modes)
        BY <2>1, ModeTypes
      <3> QED BY <1>0, <1>10, <3>1
    <2> QED BY <2>1, <2>2, StartElementKeeps
  <1> HIDE DEF d
  <1>12. Grows(pr, p, d)
    <2>1. Grows(pr, p, a)
      <3>1. Carried(pr, p, p)
        BY TakesNone DEF Takes
      <3>2. Carried(pr, p, a)
        BY <1>7, <3>1 DEF Carried
      <3> QED BY <1>7, <3>2 DEF Grows
    <2>2. Grows(pr, a, b) /\ Good(pr, b)
      BY <1>9, TakesGrows DEF Takes
    <2>3. Grows(pr, b, c) /\ Good(pr, c)
      BY <1>10, <2>2, QuietGrows DEF Still, Quiet
    <2>4. Grows(pr, c, d)
      BY <1>11, <2>3, QuietGrows DEF Still
    <2>5. Grows(pr, p, b)
      BY <1>7, <2>1, <2>2, GrowsTwice
    <2>6. Grows(pr, p, c)
      BY <2>3, <2>5, GrowsTwice
    <2> QED BY <2>4, <2>6, GrowsTwice
  <1>13. InDirective(d)
    <2>1. Len(d.st) = n + 3 /\ n + 1 \in 1..Len(c.st) /\ n + 2 \in 1..Len(c.st)
          /\ n + 3 \in 1..Len(c.st)
      BY <1>0, <1>10, <1>11 DEF SameModes
    <2>2. /\ d.st[n + 3].flag = "none" /\ d.st[n + 2].flag = "PREPROC"
          /\ d.st[n + 1].flag = "PARSE_EOL"
      BY <1>10, <1>11, <2>1 DEF SameModes
    <2>3. d.using = "pre" /\ d.inskip /\ ~ d.inAttribute
      BY <1>7, <1>9, <1>10, <1>11 DEF Takes, Still, Quiet
    <2>4. Len(d.st) >= 4 /\ Len(d.st) - 1 = n + 2 /\ Len(d.st) - 2 = n + 1
      BY <1>0, <2>1
    <2> QED BY <2>1, <2>2, <2>3, <2>4 DEF InDirective
  <1>14. Ready(pr, d)
    <2>1. d.at = b.at
      BY <1>10, <1>11 DEF Still, Quiet
    <2>2. b.at <= Len(pr) + 1
      BY <1>0, <1>7, <1>8, <1>9 DEF Takes
    <2>3. LA(d, pr) = LA(b, pr)
      BY <2>1 DEF LA
    <2> QED BY <1>9, <2>1, <2>2, <2>3 DEF Ready
  <1> QED BY <1>1, <1>12, <1>13, <1>14

LEMMA StartAttributeGrows ==
    ASSUME NEW pr \in ProgramSet, NEW p, Good(pr, p), InRules(p),
           LA(p, pr) = "C_ATTRIBUTE"
    PROVE  LET q == StartAttribute(p, pr)
           IN  Grows(pr, p, q) /\ InAttribute(q) /\ Ready(pr, q)
  <1> DEFINE u == WithUse(p, "pre", FALSE, TRUE)
             r == startNewMode(u, "none")
             a == startElement(r, "SATTRIBUTE")
             b == consume(a, pr)
             n == Len(p.st)
  <1>0. n \in Nat \ {0} /\ Len(pr) \in Nat /\ p.at \in Nat
    BY ModeTypes DEF ProgramSet, InRules
  <1>1. StartAttribute(p, pr) = b
    <2>1. [p EXCEPT !.inAttribute = TRUE, !.using = "pre"] = u
      <3> DEFINE M == Seq([flag : Flags, open : Seq(Name)])
                 S == [Buffers -> Seq(TokenOf(pr))]
                 N == Seq(Name)
      <3>1. /\ p \in [st : M, out : S, skip : S, using : Buffers,
                      inskip : BOOLEAN, inAttribute : BOOLEAN,
                      paused : Nat, comments : N, at : Nat \ {0}]
            /\ p.inskip = FALSE
        BY DEF Good, Parser, InRules
      <3> HIDE DEF M, S, N
      <3> QED BY <3>1 DEF WithUse
    <2> QED BY <2>1 DEF StartAttribute
  <1>3. /\ Good(pr, u) /\ Waiting(pr, u) = Waiting(pr, p) /\ u.st = p.st
        /\ u.at = p.at /\ u.using = "pre" /\ ~ u.inskip /\ u.inAttribute
    <2>1. p \in Parser(pr) /\ "pre" \in Buffers /\ TRUE \in BOOLEAN /\ FALSE \in BOOLEAN
      BY DEF Good, Buffers
    <2>2. /\ u \in Parser(pr) /\ u.out = p.out /\ u.skip = p.skip
          /\ u.st = p.st /\ u.using = "pre" /\ u.inskip = FALSE
          /\ u.inAttribute = TRUE /\ u.paused = p.paused /\ u.at = p.at
          /\ Waiting(pr, u) = Waiting(pr, p)
      BY <2>1, OtherUse, ZenonT(30)
    <2> HIDE DEF u
    <2>3. Good(pr, u)
      BY <2>2 DEF Good
    <2> QED BY <2>2, <2>3
  <1> HIDE DEF u
  <1>4. /\ Still(pr, u, r) /\ Len(r.st) = n + 1
    <2>1. "none" \in Flags
      BY DEF Flags
    <2> QED BY <1>3, <2>1, StartNewMode
  <1> HIDE DEF r
  <1>6. /\ Still(pr, r, a) /\ SameModes(r, a)
    <2>1. "SATTRIBUTE" \in Name /\ Good(pr, r)
      BY <1>4 DEF Name, Still, Quiet
    <2>2. r.st # << >>
      <3>1. r.st \in Seq(Modes)
        BY <2>1, ModeTypes
      <3> QED BY <1>0, <1>4, <3>1
    <2> QED BY <2>1, <2>2, StartElementKeeps
  <1> HIDE DEF a
  <1>7. /\ Good(pr, a) /\ Waiting(pr, a) = Waiting(pr, p) /\ a.at = p.at
        /\ a.using = "pre" /\ ~ a.inskip /\ a.inAttribute
    BY <1>3, <1>4, <1>6 DEF Still, Quiet
  <1>8. LA(a, pr) = "C_ATTRIBUTE" /\ a.at <= Len(pr)
    <2>1. LA(a, pr) = LA(p, pr)
      BY <1>7 DEF LA
    <2> QED BY <1>0, <1>7, <2>1 DEF LA
  <1>9. Takes(pr, a, b) /\ LA(b, pr) # "CONTROL_CHAR"
    BY <1>7, <1>8, ConsumeTakes
  <1> HIDE DEF b
  <1>12. Grows(pr, p, b)
    <2>1. Grows(pr, p, a)
      <3>1. Carried(pr, p, p)
        BY TakesNone DEF Takes
      <3>2. Carried(pr, p, a)
        BY <1>7, <3>1 DEF Carried
      <3> QED BY <1>7, <3>2 DEF Grows
    <2>2. Grows(pr, a, b)
      BY <1>9, TakesGrows
    <2> QED BY <2>1, <2>2, GrowsTwice
  <1>13. InAttribute(b)
    <2>1. Len(b.st) = n + 1
      BY <1>4, <1>6, <1>9 DEF SameModes, Takes
    <2>2. b.using = "pre" /\ ~ b.inskip /\ b.inAttribute
      BY <1>7, <1>9 DEF Takes
    <2> QED BY <1>0, <2>1, <2>2 DEF InAttribute
  <1>14. Ready(pr, b)
    BY <1>0, <1>7, <1>8, <1>9 DEF Takes, Ready
  <1> QED BY <1>1, <1>12, <1>13, <1>14

\* q has the modes of p, and what the grammar looks at
Framed(p, q) ==
    /\ SameModes(p, q) /\ q.using = p.using
    /\ q.inskip = p.inskip /\ q.inAttribute = p.inAttribute

LEMMA FramedTwice ==
    ASSUME NEW p, NEW q, NEW r, Framed(p, q), Framed(q, r)
    PROVE  Framed(p, r)
  BY ModesTwice DEF Framed

LEMMA StillFramed ==
    ASSUME NEW pr, NEW p, NEW q, Still(pr, p, q), SameModes(p, q)
    PROVE  Framed(p, q)
  BY DEF Framed, Still, Quiet

LEMMA TakesFramed ==
    ASSUME NEW pr, NEW p, NEW q, Takes(pr, p, q)
    PROVE  Framed(p, q)
  BY DEF Framed, Takes, SameModes

LEMMA ReadyStill ==
    ASSUME NEW pr, NEW p, NEW q, Ready(pr, p), q.at = p.at
    PROVE  Ready(pr, q) /\ LA(q, pr) = LA(p, pr)
  BY DEF Ready, LA

LEMMA ConsumeReady ==
    ASSUME NEW pr \in ProgramSet, NEW p, Good(pr, p), Ready(pr, p),
           LA(p, pr) # "EOF"
    PROVE  LET q == consume(p, pr)
           IN  Grows(pr, p, q) /\ Framed(p, q) /\ Ready(pr, q) /\ q.st = p.st
  <1> DEFINE q == consume(p, pr)
  <1>1. Takes(pr, p, q) /\ LA(q, pr) # "CONTROL_CHAR"
    BY ConsumeTakes DEF Ready
  <1> HIDE DEF q
  <1>2. Ready(pr, q)
    BY <1>1 DEF Ready, Takes
  <1>3. q.st = p.st
    BY <1>1 DEF Takes
  <1> QED BY <1>1, <1>2, <1>3, TakesGrows, TakesFramed DEF q

LEMMA TakeTokenGrows ==
    ASSUME NEW p, program \in ProgramSet, Good(program, p), Ready(program, p),
           LA(p, program) # "EOF", p.st # << >>, NEW e \in Elements \cup {"none"}
    PROVE  LET q == TakeToken(p, e)
           IN  Grows(program, p, q) /\ Framed(p, q) /\ Ready(program, q)
  <1> DEFINE a == startNewMode(p, "none")
             b == startElement(a, e)
             c == consume(b, program)
             d == endMode(c)
             n == Len(p.st)
  <1>0. n \in Nat \ {0}
    BY ModeTypes
  <1>1. CASE e = "none"
    <2>1. TakeToken(p, e) = consume(p, program)
      BY <1>1 DEF TakeToken
    <2> QED BY <2>1, ConsumeReady
  <1>2. CASE e # "none"
    <2>0. TakeToken(p, e) = d
      BY <1>2 DEF TakeToken
    <2>1. /\ Still(program, p, a) /\ Len(a.st) = n + 1 /\ a.st[n + 1].flag = "none"
          /\ \A i \in 1..n : a.st[i].flag = p.st[i].flag
      <3>1. "none" \in Flags
        BY DEF Flags
      <3> QED BY <3>1, StartNewMode
    <2> HIDE DEF a
    <2>2. Good(program, a) /\ a.st # << >>
      <3>1. Good(program, a)
        BY <2>1 DEF Still, Quiet
      <3>2. a.st \in Seq(Modes)
        BY <3>1, ModeTypes
      <3> QED BY <1>0, <2>1, <3>1, <3>2
    <2>3. Still(program, a, b) /\ SameModes(a, b)
      <3>1. e \in Name
        BY <1>2 DEF Name
      <3> QED BY <2>2, <3>1, StartElementKeeps
    <2> HIDE DEF b
    <2>4. Good(program, b) /\ Ready(program, b) /\ LA(b, program) # "EOF"
      <3>1. b.at = p.at /\ Good(program, b)
        BY <2>1, <2>3 DEF Still, Quiet
      <3> QED BY <3>1, ReadyStill
    <2>5. Grows(program, b, c) /\ Framed(b, c) /\ Ready(program, c)
      BY <2>4, ConsumeReady
    <2> HIDE DEF c
    <2>6. Len(c.st) = n + 1 /\ c.st[n + 1].flag = "none"
          /\ \A i \in 1..n : c.st[i].flag = p.st[i].flag
      <3>1. Framed(a, b)
        BY <2>3, StillFramed
      <3>2. SameModes(a, c)
        BY <2>5, <3>1, FramedTwice DEF Framed
      <3>3. n + 1 \in 1..Len(a.st) /\ 1..n \subseteq 1..Len(a.st)
        BY <1>0, <2>1
      <3> QED BY <2>1, <3>2, <3>3 DEF SameModes
    <2>7. Good(program, c) /\ CanEnd(c)
      <3>1. Good(program, c)
        BY <2>5 DEF Grows
      <3>2. c.st \in Seq(Modes)
        BY <3>1, ModeTypes
      <3>3. c.st # << >> /\ Last(c.st).flag = "none"
        BY <1>0, <2>6, <3>2 DEF Last
      <3> QED BY <3>1, <3>3 DEF CanEnd
    <2>8. Still(program, c, d) /\ Popped(c, d, 1)
      BY <1>0, <2>6, <2>7, EndModeKeeps
    <2> HIDE DEF d
    <2>9. SameModes(p, d)
      <3>1. Len(c.st) - 1 = n
        BY <1>0, <2>6
      <3> QED BY <2>6, <2>8, <3>1 DEF Popped, SameModes
    <2>10. Framed(p, d)
      BY <2>1, <2>3, <2>5, <2>8, <2>9 DEF Framed, Still, Quiet
    <2>11. Grows(program, p, d)
      <3>1. Grows(program, p, a)
        BY <2>1, QuietGrows DEF Still
      <3>2. Grows(program, a, b)
        BY <2>2, <2>3, QuietGrows DEF Still
      <3>3. Grows(program, c, d)
        BY <2>7, <2>8, QuietGrows DEF Still
      <3>4. Grows(program, p, b)
        BY <3>1, <3>2, GrowsTwice
      <3>5. Grows(program, p, c)
        BY <2>5, <3>4, GrowsTwice
      <3> QED BY <3>3, <3>5, GrowsTwice
    <2>12. Ready(program, d)
      BY <2>5, <2>8, ReadyStill DEF Still, Quiet
    <2> QED BY <2>0, <2>10, <2>11, <2>12
  <1> QED BY <1>1, <1>2

\* one mode on top has the flag
LEMMA AboveOne ==
    ASSUME NEW pr \in ProgramSet, NEW p, Good(pr, p), InLine(p)
    PROVE  Above(p, "PREPROC") = 1
  <1> DEFINE n == Len(p.st)
             S == {i \in 2..n : \A j \in i..n : p.st[j].flag = "PREPROC"}
  <1>1. n \in Nat /\ n >= 3
    BY ModeTypes DEF InLine
  <1>2. S = {n}
    <2>1. n \in S
      BY <1>1 DEF InLine
    <2>2. ASSUME NEW i \in S PROVE i = n
      <3>1. i \in 2..n /\ \A j \in i..n : p.st[j].flag = "PREPROC"
        OBVIOUS
      <3>2. i # n => n - 1 \in i..n
        BY <1>1, <3>1
      <3>3. p.st[n - 1].flag # "PREPROC"
        BY DEF InLine
      <3> QED BY <3>1, <3>2, <3>3
    <2> QED BY <2>1, <2>2
  <1>3. Above(p, "PREPROC") = Cardinality(S)
    BY DEF Above
  <1> HIDE DEF S
  <1> QED BY <1>2, <1>3, FS_Singleton

LEMMA EndDirectiveGrows ==
    ASSUME NEW pr \in ProgramSet, NEW p, Good(pr, p), InLine(p), Ready(pr, p)
    PROVE  LET q == EndDirective(p, pr)
           IN  /\ Grows(pr, p, q) /\ Ready(pr, q) /\ q.st # << >>
               /\ q.using = "pre"
  <1> DEFINE a == endWhileMode(p, "PREPROC")
             b == endMode(a)
             n == Len(p.st)
  <1>0. n \in Nat /\ n >= 3
    BY ModeTypes DEF InLine
  <1>1. a = popMode(p)
    <2>1. a = PopModeTimes(p, 1)
      BY AboveOne DEF endWhileMode, PopModeTimes
    <2> HIDE DEF a
    <2>2. PICK f : PopModeRun(p, 1, f) /\ PopModeTimes(p, 1) = f[1]
      BY PopModeAgain
    <2>3. f[0 + 1] = popMode(f[0]) /\ f[0] = p
      BY <2>2 DEF PopModeRun
    <2> QED BY <2>1, <2>2, <2>3
  <1> HIDE DEF a
  <1>2. Still(pr, p, a) /\ Popped(p, a, 1)
    <2>1. p.st \in Seq(Modes)
      BY ModeTypes
    <2>2. p.st # << >> /\ Last(p.st).flag = "PREPROC"
      BY <1>0, <2>1 DEF InLine, Last
    <2>3. CanEnd(p)
      BY <2>2 DEF CanEnd
    <2> QED BY <1>1, <2>3, PopModeKeeps
  <1>3. Good(pr, a) /\ CanEnd(a) /\ Len(a.st) = n - 1
    <2>1. Good(pr, a)
      BY <1>2 DEF Still, Quiet
    <2>2. a.st \in Seq(Modes) /\ Len(a.st) = n - 1
      BY <1>2, <2>1, ModeTypes DEF Popped
    <2>3. a.st[n - 1].flag = "PARSE_EOL"
      <3>1. n - 1 \in 1..(n - 1)
        BY <1>0
      <3> QED BY <1>2, <3>1 DEF Popped, InLine
    <2>4. a.st # << >> /\ Last(a.st).flag = "PARSE_EOL"
      BY <1>0, <2>2, <2>3 DEF Last
    <2> QED BY <2>1, <2>2, <2>4 DEF CanEnd
  <1>4. Still(pr, a, b) /\ Len(b.st) > 0
    BY <1>3, EndModeKeeps
  <1>5. EndDirective(p, pr) = IF LA(b, pr) = "EOF" THEN b ELSE consume(b, pr)
    BY DEF EndDirective, a
  <1> HIDE DEF b
  <1>6. Still(pr, p, b) /\ Good(pr, b) /\ b.st # << >> /\ b.using = "pre"
    <2>1. Still(pr, p, b) /\ Good(pr, b)
      BY <1>2, <1>4, StillTwice DEF Still, Quiet
    <2>2. b.st \in Seq(Modes)
      BY <2>1, ModeTypes
    <2> QED BY <1>4, <2>1, <2>2 DEF Still, Quiet, InLine
  <1>7. Grows(pr, p, b) /\ Ready(pr, b)
    <2>1. b.at = p.at
      BY <1>6 DEF Still, Quiet
    <2> QED BY <1>6, <2>1, QuietGrows, ReadyStill DEF Still
  <1>8. CASE LA(b, pr) = "EOF"
    BY <1>5, <1>6, <1>7, <1>8
  <1>9. CASE LA(b, pr) # "EOF"
    <2> DEFINE c == consume(b, pr)
    <2>1. Grows(pr, b, c) /\ Framed(b, c) /\ Ready(pr, c) /\ c.st = b.st
      BY <1>6, <1>7, <1>9, ConsumeReady
    <2> HIDE DEF c
    <2>2. Grows(pr, p, c)
      BY <1>7, <2>1, GrowsTwice
    <2>3. EndDirective(p, pr) = c
      BY <1>5, <1>9 DEF c
    <2> QED BY <1>6, <2>1, <2>2, <2>3 DEF Framed
  <1> QED BY <1>8, <1>9

LEMMA SkipLineGrows ==
    ASSUME NEW pr \in ProgramSet, NEW p, Good(pr, p), Ready(pr, p)
    PROVE  LET q == SkipLine(pr, p)
           IN  /\ Grows(pr, p, q) /\ Framed(p, q) /\ Ready(pr, q)
               /\ q.st = p.st
  <1>1. CASE LA(p, pr) \in {"PREPROC", "EOF"}
    <2>1. SkipLine(pr, p) = p
      BY <1>1 DEF SkipLine
    <2>2. Takes(pr, p, p)
      BY TakesNone
    <2> QED BY <2>1, <2>2, TakesGrows, TakesFramed
  <1>2. CASE LA(p, pr) \notin {"PREPROC", "EOF"}
    <2>1. SkipLine(pr, p) = consume(p, pr)
      BY <1>2 DEF SkipLine
    <2> QED BY <1>2, <2>1, ConsumeReady
  <1> QED BY <1>1, <1>2

LEMMA SkipBlockGrows ==
    ASSUME NEW pr \in ProgramSet, NEW p, Good(pr, p), Ready(pr, p)
    PROVE  LET q == SkipBlock(p, pr)
           IN  /\ Grows(pr, p, q) /\ Framed(p, q) /\ Ready(pr, q)
               /\ q.st = p.st
  <1> DEFINE n == Len(pr)
  <1>1. n \in Nat /\ n = Len(pr)
    BY DEF ProgramSet
  <1> HIDE DEF n
  <1>2. PICK f : SkipLineRun(pr, p, n, f) /\ SkipBlock(p, pr) = f[n]
    BY <1>1, SkipLineAgain
  <1>3. /\ f[0] = p
        /\ \A i \in Nat : i + 1 \in 0..n => f[i + 1] = SkipLine(pr, f[i])
    BY <1>2 DEF SkipLineRun
  <1> DEFINE Kept(i) == /\ Grows(pr, p, f[i]) /\ Framed(p, f[i])
                        /\ Ready(pr, f[i]) /\ f[i].st = p.st
             T == {i \in Nat : i \in 0..n => Kept(i)}
  <1>4. 0 \in T
    <2>1. Takes(pr, p, p)
      BY TakesNone
    <2>2. Grows(pr, p, p) /\ Framed(p, p)
      BY <2>1, TakesGrows, TakesFramed
    <2> QED BY <1>3, <2>2
  <1>5. ASSUME NEW i \in T PROVE i + 1 \in T
    <2> SUFFICES ASSUME i + 1 \in 0..n PROVE Kept(i + 1)
      OBVIOUS
    <2>1. Kept(i) /\ i \in Nat /\ i < n
      BY <1>1
    <2> HIDE DEF T
    <2> DEFINE q == f[i]
               r == SkipLine(pr, q)
    <2>2. Good(pr, q) /\ Ready(pr, q)
      BY <2>1 DEF Grows
    <2>3. f[i + 1] = r
      BY <1>3, <2>1
    <2>a. Kept(i) = (/\ Grows(pr, p, q) /\ Framed(p, q) /\ Ready(pr, q)
                     /\ q.st = p.st)
      OBVIOUS
    <2> HIDE DEF q
    <2>4. Grows(pr, q, r) /\ Framed(q, r) /\ Ready(pr, r) /\ r.st = q.st
      BY <2>2, SkipLineGrows
    <2> HIDE DEF r
    <2>5. Grows(pr, p, r) /\ Framed(p, r) /\ r.st = p.st
      BY <2>1, <2>a, <2>4, GrowsTwice, FramedTwice
    <2> QED BY <2>3, <2>4, <2>5
  <1> HIDE DEF T
  <1>6. n \in T
    BY <1>1, <1>4, <1>5, Induct DEF T
  <1> QED BY <1>1, <1>2, <1>6 DEF T

LEMMA BracketsOfFour ==
    ASSUME NEW a \in Seq(Nat), NEW b \in Seq(Nat), NEW c \in Seq(Nat),
           NEW d \in Seq(Nat)
    PROVE  /\ Then(a, Then(Then(b, c), d)) = Then(Then(Then(a, b), c), d)
           /\ Then(a, Then(Then(b, c), d)) \in Seq(Nat)
  BY ThenFacts

\* the first pair of buffers is in use again
MainUse(p) ==
    [p EXCEPT !.using = "main", !.inskip = FALSE, !.inAttribute = FALSE]

LEMMA UseMain ==
    ASSUME NEW pr \in ProgramSet, NEW p \in Parser(pr)
    PROVE  LET q == MainUse(p)
           IN  /\ q \in Parser(pr) /\ q.out = p.out /\ q.skip = p.skip
               /\ q.st = p.st /\ q.using = "main" /\ q.inskip = FALSE
               /\ q.inAttribute = FALSE /\ q.paused = p.paused /\ q.at = p.at
  <1> DEFINE q == MainUse(p)
             M == Seq([flag : Flags, open : Seq(Name)])
             S == [Buffers -> Seq(TokenOf(pr))]
             N == Seq(Name)
             P == [st : M, out : S, skip : S,
                   using : Buffers, inskip : BOOLEAN, inAttribute : BOOLEAN,
                   paused : Nat, comments : N, at : Nat \ {0}]
  <1>1. p \in P
    BY DEF Parser
  <1> HIDE DEF M, S, N
  <1>2. q \in P
    BY <1>1 DEF MainUse, Buffers
  <1>3. /\ q.out = p.out /\ q.skip = p.skip
        /\ q.st = p.st /\ q.using = "main" /\ q.inskip = FALSE
        /\ q.inAttribute = FALSE /\ q.paused = p.paused /\ q.at = p.at
    BY <1>1 DEF MainUse
  <1>4. q \in Parser(pr)
    BY <1>2 DEF M, S, N, Parser
  <1> HIDE DEF q
  <1> QED BY <1>3, <1>4 DEF q

LEMMA RejoinKeeps ==
    ASSUME NEW pr \in ProgramSet, NEW p, Good(pr, p), p.st # << >>,
           Ready(pr, p)
    PROVE  LET q == Rejoin(p)
           IN  Grows(pr, p, q) /\ InRules(q) /\ q.at = p.at /\ Ready(pr, q)
  <1> DEFINE om == p.out["main"]
             sm == p.skip["main"]
             op == p.out["pre"]
             sp == p.skip["pre"]
             o == [p.out EXCEPT !["pre"] = << >>]
             k == sm \o op \o sp
             s == [p.skip EXCEPT !["main"] = k, !["pre"] = << >>]
             v == [p EXCEPT !.out = o, !.skip = s]
             q == Rejoin(p)
  <1>1. /\ om \in Seq(TokenOf(pr)) /\ sm \in Seq(TokenOf(pr))
        /\ op \in Seq(TokenOf(pr)) /\ sp \in Seq(TokenOf(pr))
        /\ p \in Parser(pr) /\ p.out \in [Buffers -> Seq(TokenOf(pr))]
        /\ p.skip \in [Buffers -> Seq(TokenOf(pr))]
    BY BufferTypes
  <1>2. sm \o op \in Seq(TokenOf(pr)) /\ k \in Seq(TokenOf(pr))
    <2> HIDE DEF sm, op, sp
    <2>1. sm \o op \in Seq(TokenOf(pr))
      BY <1>1, ConcatShows
    <2> QED BY <1>1, <2>1, ConcatShows
  <1> DEFINE a == Tokens(pr, om)
             b == Tokens(pr, sm)
             c == Tokens(pr, op)
             d == Tokens(pr, sp)
  <1>3. /\ a \in Seq(Nat) /\ b \in Seq(Nat) /\ c \in Seq(Nat) /\ d \in Seq(Nat)
        /\ Tokens(pr, k) = (b \o c) \o d
    <2> HIDE DEF om, sm, op, sp
    <2>1. Tokens(pr, sm \o op) = b \o c
      BY <1>1, ConcatShows
    <2>2. Tokens(pr, k) = Tokens(pr, sm \o op) \o d
      BY <1>1, <1>2, ConcatShows
    <2>3. /\ a \in Seq(Nat) /\ b \in Seq(Nat) /\ c \in Seq(Nat) /\ d \in Seq(Nat)
      BY <1>1, ConcatShows
    <2> QED BY <2>1, <2>2, <2>3
  <1>4. Waiting(pr, p) = ((a \o b) \o c) \o d
    BY DEF Waiting
  <1>5. /\ o \in [Buffers -> Seq(TokenOf(pr))] /\ s \in [Buffers -> Seq(TokenOf(pr))]
        /\ o["main"] = om /\ o["pre"] = << >> /\ s["main"] = k /\ s["pre"] = << >>
    <2>1. /\ o \in [Buffers -> Seq(TokenOf(pr))]
          /\ o["main"] = om /\ o["pre"] = << >>
      BY <1>1 DEF Buffers
    <2> HIDE DEF k
    <2>2. s \in [Buffers -> Seq(TokenOf(pr))] /\ s["main"] = k /\ s["pre"] = << >>
      BY <1>1, <1>2 DEF Buffers
    <2> QED BY <2>1, <2>2
  <1>6. v \in Parser(pr) /\ v.out = o /\ v.skip = s /\ SameControl(p, v)
    <2> HIDE DEF o, s
    <2>1. v \in Parser(pr)
      BY <1>1, <1>5, ParserBuffers
    <2> QED BY <1>1, <2>1 DEF Parser, SameControl
  <1>7. q = MainUse(v)
    <2>1. q = [p EXCEPT !.skip = s, !.out = o, !.using = "main", !.inskip = FALSE,
                        !.inAttribute = FALSE]
      BY <1>1 DEF Rejoin, Parser
    <2> HIDE DEF o, s, q
    <2> QED BY <1>1, <2>1 DEF MainUse, Parser
  <1> HIDE DEF v, o, s, q
  <1>8. /\ q \in Parser(pr) /\ q.out = v.out /\ q.skip = v.skip
        /\ q.st = v.st /\ q.using = "main" /\ q.inskip = FALSE
        /\ q.inAttribute = FALSE /\ q.paused = v.paused /\ q.at = v.at
    BY <1>6, <1>7, UseMain
  <1>9. Good(pr, q)
    <2>1. q.out["main"] = p.out["main"] /\ q.out["pre"] = << >> /\ q.skip["pre"] = << >>
      BY <1>5, <1>6, <1>8
    <2>2. q.paused = p.paused
      BY <1>6, <1>8 DEF SameControl
    <2> QED BY <1>8, <2>1, <2>2 DEF Good
  <1>10. Waiting(pr, q) = (a \o ((b \o c) \o d)) \o << >> \o << >>
    <2>1. /\ q.out["main"] = om /\ q.out["pre"] = << >>
          /\ q.skip["main"] = k /\ q.skip["pre"] = << >>
      BY <1>5, <1>6, <1>8
    <2> HIDE DEF om, k
    <2> QED BY <1>3, <2>1, TokensEmpty DEF Waiting
  <1> HIDE DEF a, b, c, d
  <1>11. a \o ((b \o c) \o d) = ((a \o b) \o c) \o d
    <2>1. /\ a \in Seq(Nat) /\ b \in Seq(Nat)
          /\ c \in Seq(Nat) /\ d \in Seq(Nat)
      BY <1>3
    <2>2. Then(a, Then(Then(b, c), d)) = Then(Then(Then(a, b), c), d)
      BY <2>1, BracketsOfFour
    <2> QED BY <2>2 DEF Then
  <1>12. Waiting(pr, q) = Waiting(pr, p)
    <2>1. a \o ((b \o c) \o d) \in Seq(Nat)
      BY <1>4, <1>11, WaitingTypes
    <2> QED BY <1>4, <1>10, <1>11, <2>1
  <1>13. q.at = p.at /\ q.st = p.st
    BY <1>6, <1>8 DEF SameControl
  <1>14. Grows(pr, p, q)
    <2>1. Carried(pr, p, p)
      BY TakesNone DEF Takes
    <2>2. Carried(pr, p, q)
      BY <1>12, <1>13, <2>1 DEF Carried
    <2> QED BY <1>9, <2>2 DEF Grows
  <1>15. InRules(q)
    BY <1>8, <1>13 DEF InRules
  <1> QED BY <1>13, <1>14, <1>15, ReadyStill DEF q

-----------------------------------------------------------------------------
(* The output *)

\* pieces that show text of the program, and tokens that will
Written(s) ==
    \E S : s \in Seq(S) /\ \A x \in S : PieceShows(x) \in Seq(Nat)

TokenLike(pr, t) ==
    /\ t.tag \in {"text", "start", "end", "empty"}
    /\ t.type \in Name \cup {"text", "CONTROL_CHAR"}
    /\ t.tag = "text" => t.type = "text" /\ t.at \in 1..Len(pr)
    /\ t.type = "CONTROL_CHAR" => t.tag = "empty"

Queued(pr, s) ==
    \E S : s \in Seq(S) /\ \A t \in S : TokenLike(pr, t)

Shaped(o) ==
    "xml" \in DOMAIN o /\ "tokenQueue" \in DOMAIN o /\ Written(o.xml)

\* q is o with pieces written that show w
Adds(o, q, w) ==
    /\ Shaped(q) /\ q.tokenQueue = o.tokenQueue
    /\ Pieces(q.xml) = Then(Pieces(o.xml), w)

LEMMA WrittenType ==
    ASSUME NEW s, Written(s)
    PROVE  Pieces(s) \in Seq(Nat)
  <1>1. PICK S : s \in Seq(S) /\ \A x \in S : PieceShows(x) \in Seq(Nat)
    BY DEF Written
  <1>2. CASE S = {}
    <2>1. s = << >>
      BY <1>1, <1>2
    <2>2. [i \in DOMAIN << >> |-> PieceShows(<< >>[i])] = << >>
      OBVIOUS
    <2>3. Pieces(s) = << >>
      BY <2>1, <2>2, FlattenEmpty DEF Pieces
    <2> QED BY <2>3
  <1>3. CASE S # {}
    <2>1. PICK x \in S : TRUE
      BY <1>3
    <2> QED BY <1>1, <2>1, PiecesAppend
  <1> QED BY <1>2, <1>3

LEMMA WrittenAppend ==
    ASSUME NEW s, Written(s), NEW x, PieceShows(x) \in Seq(Nat)
    PROVE  /\ Written(Append(s, x))
           /\ Pieces(Append(s, x)) = Then(Pieces(s), PieceShows(x))
  <1>1. PICK S : s \in Seq(S) /\ \A y \in S : PieceShows(y) \in Seq(Nat)
    BY DEF Written
  <1> DEFINE R == S \cup {x}
  <1>2. \A y \in R : PieceShows(y) \in Seq(Nat)
    BY <1>1
  <1>3. s \in Seq(R) /\ x \in R
    BY <1>1
  <1> HIDE DEF R
  <1>4. Append(s, x) \in Seq(R)
    BY <1>3
  <1>5. Pieces(Append(s, x)) = Pieces(s) \o PieceShows(x)
    BY <1>2, <1>3, PiecesAppend
  <1> QED BY <1>2, <1>4, <1>5 DEF Written, Then

LEMMA WriteAdds ==
    ASSUME NEW o, Shaped(o), NEW x, PieceShows(x) \in Seq(Nat)
    PROVE  Adds(o, Write(o, x), PieceShows(x))
  <1> DEFINE q == Write(o, x)
  <1>1. /\ q.xml = Append(o.xml, x) /\ q.tokenQueue = o.tokenQueue
        /\ "xml" \in DOMAIN q /\ "tokenQueue" \in DOMAIN q
    BY DEF Write, Shaped
  <1> HIDE DEF q
  <1>2. Written(q.xml) /\ Pieces(q.xml) = Then(Pieces(o.xml), PieceShows(x))
    BY <1>1, WrittenAppend DEF Shaped
  <1> QED BY <1>1, <1>2 DEF Adds, Shaped, q

\* what is neither written nor queued makes no difference
Apart(o, q) ==
    /\ q.xml = o.xml /\ q.tokenQueue = o.tokenQueue
    /\ "xml" \in DOMAIN q /\ "tokenQueue" \in DOMAIN q

LEMMA ApartAdds ==
    ASSUME NEW o, NEW q, NEW r, NEW w, Adds(o, q, w), Apart(q, r)
    PROVE  Adds(o, r, w)
  BY DEF Adds, Apart, Shaped

LEMMA AddsNothing ==
    ASSUME NEW o, Shaped(o)
    PROVE  Adds(o, o, << >>)
  <1>1. Then(Pieces(o.xml), << >>) = Pieces(o.xml)
    BY WrittenType, ThenFacts DEF Shaped
  <1> QED BY <1>1 DEF Adds

LEMMA AddsTwice ==
    ASSUME NEW o, NEW q, NEW r, NEW v \in Seq(Nat), NEW w \in Seq(Nat),
           Shaped(o), Adds(o, q, v), Adds(q, r, w)
    PROVE  Adds(o, r, Then(v, w))
  <1>1. Pieces(o.xml) \in Seq(Nat)
    BY WrittenType DEF Shaped
  <1>2. Then(Then(Pieces(o.xml), v), w) = Then(Pieces(o.xml), Then(v, w))
    BY <1>1, ThenFacts
  <1> QED BY <1>2 DEF Adds

\* a piece that shows nothing
LEMMA AddsQuietly ==
    ASSUME NEW o, NEW q, NEW w \in Seq(Nat), Shaped(o), Adds(o, q, w),
           NEW x, PieceShows(x) = << >>
    PROVE  Adds(o, Write(q, x), w)
  <1> DEFINE e == << >>
  <1>1. e \in Seq(Nat) /\ Then(w, e) = w
    BY ThenNothing
  <1>2. Adds(q, Write(q, x), e)
    <2>1. PieceShows(x) = e
      OBVIOUS
    <2>2. Shaped(q)
      BY DEF Adds
    <2> HIDE DEF e
    <2> QED BY <1>1, <2>1, <2>2, WriteAdds
  <1> HIDE DEF e
  <1> QED BY <1>1, <1>2, AddsTwice

LEMMA CloseStartTagAdds ==
    ASSUME NEW o, Shaped(o)
    PROVE  Adds(o, closeStartTag(o), << >>)
  <1> DEFINE x == Piece(">", "", "")
             q == Write(o, x)
  <1>1. PieceShows(x) = << >>
    BY DEF PieceShows, Piece
  <1>2. Adds(o, q, << >>)
    <2> HIDE DEF x
    <2>1. << >> \in Seq(Nat) /\ Adds(o, o, << >>)
      BY AddsNothing
    <2> QED BY <1>1, <2>1, AddsQuietly
  <1> HIDE DEF q
  <1>3. "xml" \in DOMAIN q /\ "tokenQueue" \in DOMAIN q
    BY <1>2 DEF Adds, Shaped
  <1>4. CASE o.startTagOpen
    <2> DEFINE r == [q EXCEPT !.startTagOpen = FALSE]
    <2>1. Apart(q, r)
      BY <1>3 DEF Apart
    <2>2. closeStartTag(o) = r
      BY <1>4 DEF closeStartTag, q
    <2> HIDE DEF r
    <2> QED BY <1>2, <2>1, <2>2, ApartAdds
  <1>5. CASE ~ o.startTagOpen /\ o.writerPending
    <2> DEFINE r == [q EXCEPT !.writerPending = FALSE]
    <2>1. Apart(q, r)
      BY <1>3 DEF Apart
    <2>2. closeStartTag(o) = r
      BY <1>5 DEF closeStartTag, q
    <2> HIDE DEF r
    <2> QED BY <1>2, <2>1, <2>2, ApartAdds
  <1>6. CASE ~ o.startTagOpen /\ ~ o.writerPending
    <2>1. closeStartTag(o) = o
      BY <1>6 DEF closeStartTag
    <2> QED BY <2>1, AddsNothing
  <1> QED BY <1>4, <1>5, <1>6

LEMMA ProcessTextAdds ==
    ASSUME NEW o, Shaped(o), NEW i \in Nat, NEW text
    PROVE  Adds(o, processText(o, i, text), IF text = << >> THEN << >> ELSE <<i>>)
  <1>1. CASE text = << >>
    <2>1. processText(o, i, text) = o
      BY <1>1 DEF processText
    <2> QED BY <1>1, <2>1, AddsNothing
  <1>2. CASE text # << >>
    <2> DEFINE a == closeStartTag(o)
               x == TextPiece(i)
               b == Write(a, x)
               r == [b EXCEPT !.src = FoldLeft(CountChar, @, text)]
               w == <<i>>
    <2>1. processText(o, i, text) = r
      BY <1>2 DEF processText
    <2>2. Adds(o, a, << >>)
      BY CloseStartTagAdds
    <2>3. w \in Seq(Nat) /\ PieceShows(x) = w
      BY DEF PieceShows, TextPiece
    <2> HIDE DEF a, x, w
    <2>4. Adds(a, b, w)
      <3>1. Shaped(a)
        BY <2>2 DEF Adds
      <3> QED BY <2>3, <3>1, WriteAdds
    <2> HIDE DEF b
    <2>5. Apart(b, r)
      BY <2>4 DEF Apart, Adds, Shaped
    <2> HIDE DEF r
    <2>6. Adds(o, b, w)
      <3> DEFINE e == << >>
      <3>1. e \in Seq(Nat) /\ Then(e, w) = w
        BY <2>3, ThenFacts
      <3>2. Adds(o, a, e)
        BY <2>2
      <3> HIDE DEF e
      <3> QED BY <2>3, <2>4, <3>1, <3>2, AddsTwice
    <2>7. Adds(o, r, w)
      BY <2>5, <2>6, ApartAdds
    <2> QED BY <1>2, <2>1, <2>7 DEF w
  <1> QED BY <1>1, <1>2

LEMMA AddPositionAdds ==
    ASSUME NEW o, NEW q, NEW w \in Seq(Nat), Shaped(o), Adds(o, q, w), NEW t
    PROVE  Adds(o, addPosition(q, t), w)
  <1> DEFINE x == PositionPiece(t.start, t.end)
  <1>1. PieceShows(x) = << >>
    BY DEF PieceShows, PositionPiece
  <1> HIDE DEF x
  <1>2. Adds(o, Write(q, x), w)
    BY <1>1, AddsQuietly
  <1>3. addPosition(q, t) = q \/ addPosition(q, t) = Write(q, x)
    BY DEF addPosition, x
  <1> QED BY <1>2, <1>3

StartShows(t) == IF t.type = "CONTROL_CHAR" THEN <<0>> ELSE << >>

LEMMA StartOfAdds ==
    ASSUME NEW o, Shaped(o), NEW t, NEW ps
    PROVE  Adds(o, StartOf(o, t, ps), StartShows(t))
  <1> DEFINE a == closeStartTag(o)
             x == Piece("<", t.type, t.type)
             b == Write(a, x)
             q == [b EXCEPT !.openElements = Append(@, t.type),
                            !.startTagOpen = TRUE,
                            !.src.partialLine = @ \/ t.type = "CONTROL_CHAR"]
             w == StartShows(t)
  <1>1. w \in Seq(Nat) /\ PieceShows(x) = w
    BY DEF PieceShows, Piece, StartShows
  <1>2. Adds(o, a, << >>)
    BY CloseStartTagAdds
  <1> HIDE DEF a, x, w
  <1>3. Adds(a, b, w)
    <2>1. Shaped(a)
      BY <1>2 DEF Adds
    <2> QED BY <1>1, <2>1, WriteAdds
  <1> HIDE DEF b
  <1>4. Apart(b, q)
    BY <1>3 DEF Apart, Adds, Shaped
  <1>5. StartOf(o, t, ps) = q \/ StartOf(o, t, ps) = addPosition(q, t)
    BY DEF StartOf, q, b, a, x
  <1> HIDE DEF q
  <1>6. Adds(o, b, w)
    <2> DEFINE e == << >>
    <2>1. e \in Seq(Nat) /\ Then(e, w) = w
      BY <1>1, ThenFacts
    <2>2. Adds(o, a, e)
      BY <1>2
    <2> HIDE DEF e
    <2> QED BY <1>1, <1>3, <2>1, <2>2, AddsTwice
  <1>7. Adds(o, q, w)
    BY <1>4, <1>6, ApartAdds
  <1>8. Adds(o, addPosition(q, t), w)
    BY <1>1, <1>7, AddPositionAdds
  <1> QED BY <1>5, <1>7, <1>8 DEF w

LEMMA EndOfAdds ==
    ASSUME NEW o, NEW q, NEW w \in Seq(Nat), Shaped(o), Adds(o, q, w), NEW t
    PROVE  Adds(o, EndOf(q, t), w)
  <1>1. CASE q.openElements = << >>
    <2> DEFINE x == Piece("</", "unit", t.type)
               a == Write(q, x)
               r == [a EXCEPT !.writerPending = FALSE]
    <2>1. EndOf(q, t) = r
      BY <1>1 DEF EndOf
    <2>2. PieceShows(x) = << >>
      BY DEF PieceShows, Piece
    <2> HIDE DEF x
    <2>3. Adds(o, a, w)
      BY <2>2, AddsQuietly
    <2> HIDE DEF a
    <2>4. Apart(a, r)
      BY <2>3 DEF Apart, Adds, Shaped
    <2> HIDE DEF r
    <2> QED BY <2>1, <2>3, <2>4, ApartAdds
  <1>2. CASE q.openElements # << >>
    <2> DEFINE x == Piece(IF q.startTagOpen THEN "/>" ELSE "</",
                          Last(q.openElements), t.type)
               a == Write(q, x)
               r == [a EXCEPT !.startTagOpen = FALSE, !.openElements = Front(@)]
    <2>1. EndOf(q, t) = r
      BY <1>2 DEF EndOf
    <2>2. PieceShows(x) = << >>
      BY DEF PieceShows, Piece
    <2> HIDE DEF x
    <2>3. Adds(o, a, w)
      BY <2>2, AddsQuietly
    <2> HIDE DEF a
    <2>4. Apart(a, r)
      BY <2>3 DEF Apart, Adds, Shaped
    <2> HIDE DEF r
    <2> QED BY <2>1, <2>3, <2>4, ApartAdds
  <1> QED BY <1>1, <1>2

\* what is written for a token shows what the token shows
LEMMA OutputTokenAdds ==
    ASSUME NEW pr, NEW o, Shaped(o), NEW t, TokenLike(pr, t), NEW ps
    PROVE  Adds(o, outputToken(o, t, pr, ps), TokenShows(pr, t))
  <1>1. CASE t.tag = "text"
    <2>1. t.type = "text" /\ t.at \in 1..Len(pr)
      BY <1>1 DEF TokenLike
    <2>2. outputToken(o, t, pr, ps) = processText(o, t.at, pr[t.at].text)
      BY <1>1, <2>1 DEF outputToken, NotInProcess, TokenText
    <2>3. TokenShows(pr, t) = IF pr[t.at].text = << >> THEN << >> ELSE <<t.at>>
      BY <1>1, <2>1 DEF TokenShows
    <2>4. t.at \in Nat
      BY <2>1
    <2> QED BY <2>2, <2>3, <2>4, ProcessTextAdds
  <1>2. CASE t.tag # "text"
    <2>1. TokenShows(pr, t) = StartShows(t)
      BY <1>2 DEF TokenShows, StartShows
    <2>2. CASE t.type \in {"text", "SUNIT", "SNOP", "SONAME"}
      <3>1. StartShows(t) = << >>
        BY <2>2 DEF StartShows
      <3>2. outputToken(o, t, pr, ps) = o
        BY <1>2, <2>2
        DEF outputToken, NotInProcess, TokenText, processText, processToken, NoName
      <3> QED BY <2>1, <3>1, <3>2, AddsNothing
    <2>3. CASE t.type \notin {"text", "SUNIT", "SNOP", "SONAME"}
      <3> DEFINE q == IF t.tag = "end" THEN o ELSE StartOf(o, t, ps)
      <3>1. outputToken(o, t, pr, ps) = IF t.tag = "start" THEN q ELSE EndOf(q, t)
        BY <2>3 DEF outputToken, NotInProcess, processToken, NoName
      <3>2. StartShows(t) \in Seq(Nat)
        BY DEF StartShows
      <3>3. Adds(o, q, StartShows(t))
        <4>1. CASE t.tag = "end"
          <5>1. StartShows(t) = << >>
            BY <4>1 DEF StartShows, TokenLike
          <5> QED BY <4>1, <5>1, AddsNothing
        <4>2. CASE t.tag # "end"
          BY <4>2, StartOfAdds
        <4> QED BY <4>1, <4>2
      <3> HIDE DEF q
      <3>4. Adds(o, EndOf(q, t), StartShows(t))
        BY <3>2, <3>3, EndOfAdds
      <3> QED BY <2>1, <3>1, <3>3, <3>4
    <2> QED BY <2>2, <2>3
  <1> QED BY <1>1, <1>2

-----------------------------------------------------------------------------
(* The queue of the output *)

Keeps(pr, o) == Shaped(o) /\ Queued(pr, o.tokenQueue)

\* what is written, and what waits in the queue
OutShows(pr, o) == Then(Pieces(o.xml), Tokens(pr, o.tokenQueue))

LEMMA LikeShows ==
    ASSUME NEW pr, NEW t, TokenLike(pr, t)
    PROVE  TokenShows(pr, t) \in Seq(Nat)
  BY DEF TokenShows, TokenLike

LEMMA QueuedType ==
    ASSUME NEW pr, NEW s, Queued(pr, s)
    PROVE  Tokens(pr, s) \in Seq(Nat)
  <1>1. PICK S : s \in Seq(S) /\ \A t \in S : TokenLike(pr, t)
    BY DEF Queued
  <1>2. TokensIn(pr, S)
    BY <1>1, LikeShows DEF TokensIn
  <1> QED BY <1>1, <1>2, TokensType

LEMMA QueuedAppend ==
    ASSUME NEW pr, NEW s, Queued(pr, s), NEW t, TokenLike(pr, t)
    PROVE  /\ Queued(pr, Append(s, t))
           /\ Tokens(pr, Append(s, t)) = Then(Tokens(pr, s), TokenShows(pr, t))
  <1>1. PICK S : s \in Seq(S) /\ \A x \in S : TokenLike(pr, x)
    BY DEF Queued
  <1> DEFINE R == S \cup {t}
  <1>2. \A x \in R : TokenLike(pr, x)
    BY <1>1
  <1>3. s \in Seq(R) /\ t \in R
    BY <1>1
  <1> HIDE DEF R
  <1>4. TokensIn(pr, R)
    BY <1>2, LikeShows DEF TokensIn
  <1>5. Append(s, t) \in Seq(R)
    BY <1>3
  <1>6. Tokens(pr, Append(s, t)) = Tokens(pr, s) \o TokenShows(pr, t)
    BY <1>3, <1>4, TokensAppend
  <1> QED BY <1>2, <1>5, <1>6 DEF Queued, Then

\* a token of the queue is given another position
Moved(t, u) == u.tag = t.tag /\ u.type = t.type /\ u.at = t.at

Changed(s, n, u) == [s EXCEPT ![n] = u]

LEMMA QueuedChanged ==
    ASSUME NEW pr, NEW s, Queued(pr, s), NEW n, NEW u,
           n \in DOMAIN s => Moved(s[n], u)
    PROVE  /\ Queued(pr, Changed(s, n, u))
           /\ Tokens(pr, Changed(s, n, u)) = Tokens(pr, s)
  <1> DEFINE r == Changed(s, n, u)
  <1>1. PICK S : s \in Seq(S) /\ \A x \in S : TokenLike(pr, x)
    BY DEF Queued
  <1>2. CASE n \notin DOMAIN s
    <2>1. r = s
      BY <1>1, <1>2 DEF Changed
    <2> QED BY <2>1
  <1>3. CASE n \in DOMAIN s
    <2> DEFINE R == S \cup {u}
    <2>1. TokenLike(pr, u) /\ TokenShows(pr, u) = TokenShows(pr, s[n])
      <3>1. TokenLike(pr, s[n])
        BY <1>1, <1>3
      <3> QED BY <1>3, <3>1 DEF Moved, TokenLike, TokenShows
    <2>2. \A x \in R : TokenLike(pr, x)
      BY <1>1, <2>1
    <2>3. r \in Seq(R)
      BY <1>1, <1>3 DEF Changed
    <2>4. DOMAIN r = DOMAIN s /\ \A i \in DOMAIN s : r[i] = IF i = n THEN u ELSE s[i]
      BY <1>1, <1>3 DEF Changed
    <2> HIDE DEF r, R
    <2>5. \A i \in DOMAIN r : TokenShows(pr, r[i]) = TokenShows(pr, s[i])
      BY <2>1, <2>4
    <2>6. Tokens(pr, r) = Tokens(pr, s)
      BY <2>4, <2>5, TokensSame
    <2> QED BY <2>2, <2>3, <2>6 DEF Queued, r
  <1> QED BY <1>2, <1>3

\* o with one token queued, at any position
LEMMA PlacedLike ==
    ASSUME NEW pr, NEW t, TokenLike(pr, t), NEW pos
    PROVE  /\ TokenLike(pr, Placed(t, pos))
           /\ TokenShows(pr, Placed(t, pos)) = TokenShows(pr, t)
  BY DEF TokenLike, TokenShows, Placed

\* q shows what o shows, and w
Puts(pr, o, q, w) ==
    Keeps(pr, q) /\ OutShows(pr, q) = Then(OutShows(pr, o), w)

LEMMA OutShowsType ==
    ASSUME NEW pr, NEW o, Keeps(pr, o)
    PROVE  /\ OutShows(pr, o) \in Seq(Nat) /\ Pieces(o.xml) \in Seq(Nat)
           /\ Tokens(pr, o.tokenQueue) \in Seq(Nat)
  <1>1. Pieces(o.xml) \in Seq(Nat) /\ Tokens(pr, o.tokenQueue) \in Seq(Nat)
    BY WrittenType, QueuedType DEF Keeps, Shaped
  <1> QED BY <1>1, ThenFacts DEF OutShows

LEMMA QueuePuts ==
    ASSUME NEW pr, NEW o, Keeps(pr, o), NEW t, TokenLike(pr, t)
    PROVE  Puts(pr, o, Queue(o, t), TokenShows(pr, t))
  <1> DEFINE u == Placed(t, o.currentPosition)
             q == Queue(o, t)
             a == Pieces(o.xml)
             b == Tokens(pr, o.tokenQueue)
             c == TokenShows(pr, t)
  <1>1. /\ q.xml = o.xml /\ q.tokenQueue = Append(o.tokenQueue, u)
        /\ "xml" \in DOMAIN q /\ "tokenQueue" \in DOMAIN q
    BY DEF Queue, Keeps, Shaped
  <1>2. TokenLike(pr, u) /\ TokenShows(pr, u) = c
    BY PlacedLike
  <1>3. c \in Seq(Nat) /\ a \in Seq(Nat) /\ b \in Seq(Nat)
    BY OutShowsType, LikeShows
  <1> HIDE DEF u, q
  <1>4. Queued(pr, q.tokenQueue) /\ Tokens(pr, q.tokenQueue) = Then(b, c)
    BY <1>1, <1>2, QueuedAppend DEF Keeps
  <1>5. Keeps(pr, q)
    BY <1>1, <1>4 DEF Keeps, Shaped
  <1>6. OutShows(pr, q) = Then(a, Then(b, c)) /\ OutShows(pr, o) = Then(a, b)
    BY <1>1, <1>4 DEF OutShows
  <1> HIDE DEF a, b, c
  <1>7. Then(Then(a, b), c) = Then(a, Then(b, c))
    BY <1>3, ThenFacts
  <1> QED BY <1>5, <1>6, <1>7 DEF Puts, q, c

\* what changes neither text nor queue
LEMMA ApartKeeps ==
    ASSUME NEW pr, NEW o, NEW q, Keeps(pr, o), Apart(o, q)
    PROVE  Keeps(pr, q) /\ OutShows(pr, q) = OutShows(pr, o)
  BY DEF Keeps, Shaped, Apart, OutShows

LEMMA QueueTextPuts ==
    ASSUME NEW pr, NEW o, Keeps(pr, o), NEW t, TokenLike(pr, t)
    PROVE  Puts(pr, o, QueueText(o, t, pr), TokenShows(pr, t))
  <1> DEFINE q == [o EXCEPT !.currentPosition = append(@, TokenText(t, pr))]
  <1>1. Apart(o, q)
    BY DEF Apart, Keeps, Shaped
  <1>2. QueueText(o, t, pr) = Queue(q, t)
    BY DEF QueueText
  <1> HIDE DEF q
  <1>3. Keeps(pr, q) /\ OutShows(pr, q) = OutShows(pr, o)
    BY <1>1, ApartKeeps
  <1>4. Puts(pr, q, Queue(q, t), TokenShows(pr, t))
    BY <1>3, QueuePuts
  <1> QED BY <1>2, <1>3, <1>4 DEF Puts

\* one token of the queue is moved
LEMMA ChangedKeeps ==
    ASSUME NEW pr, NEW o, NEW q, Keeps(pr, o), NEW n, NEW u,
           n \in DOMAIN o.tokenQueue => Moved(o.tokenQueue[n], u),
           q.xml = o.xml, q.tokenQueue = Changed(o.tokenQueue, n, u),
           "xml" \in DOMAIN q, "tokenQueue" \in DOMAIN q
    PROVE  Keeps(pr, q) /\ OutShows(pr, q) = OutShows(pr, o)
  <1>1. Queued(pr, q.tokenQueue) /\ Tokens(pr, q.tokenQueue) = Tokens(pr, o.tokenQueue)
    BY QueuedChanged DEF Keeps
  <1> QED BY <1>1 DEF Keeps, Shaped, OutShows

LEMMA QueueStartPuts ==
    ASSUME NEW pr, NEW o, Keeps(pr, o), NEW t, TokenLike(pr, t)
    PROVE  Puts(pr, o, QueueStart(o, t), TokenShows(pr, t))
  <1> DEFINE q == Queue(o, t)
             n == Len(q.tokenQueue)
             u == [q.tokenQueue[n] EXCEPT !.start.column = @ + 1]
             r == [q EXCEPT !.tokenQueue[n].start.column = @ + 1,
                            !.startElementStack = Append(@, n)]
  <1>1. Puts(pr, o, q, TokenShows(pr, t))
    BY QueuePuts
  <1>2. QueueStart(o, t) = r
    BY DEF QueueStart
  <1> HIDE DEF q
  <1>3. /\ r.xml = q.xml /\ r.tokenQueue = Changed(q.tokenQueue, n, u)
        /\ "xml" \in DOMAIN r /\ "tokenQueue" \in DOMAIN r
    BY <1>1 DEF Puts, Keeps, Shaped, Changed
  <1>4. Moved(q.tokenQueue[n], u)
    BY DEF Moved
  <1> HIDE DEF n, u, r
  <1>5. Keeps(pr, r) /\ OutShows(pr, r) = OutShows(pr, q)
    BY <1>1, <1>3, <1>4, ChangedKeeps DEF Puts
  <1> QED BY <1>1, <1>2, <1>5 DEF Puts

\* one token of a queue is written
WriteOne(pr, o, t) == outputToken(o, t, pr, TRUE)

RunOf(pr, s, p, n, f) ==
    f = [i \in 0..n |-> IF i = 0 THEN p ELSE WriteOne(pr, f[i - 1], s[i])]

LEMMA RunExists ==
    ASSUME NEW pr, NEW s, NEW p, NEW m \in Nat
    PROVE  \E f : RunOf(pr, s, p, m, f)
  <1> DEFINE T == {n \in Nat : \E f : RunOf(pr, s, p, n, f)}
  <1>1. 0 \in T
    <2> DEFINE g == [i \in 0..0 |-> p]
    <2>1. g = [i \in 0..0 |-> IF i = 0 THEN p ELSE WriteOne(pr, g[i - 1], s[i])]
      OBVIOUS
    <2>2. RunOf(pr, s, p, 0, g)
      BY <2>1 DEF RunOf
    <2> QED BY <2>2
  <1>2. ASSUME NEW n \in T PROVE n + 1 \in T
    <2>1. PICK f : RunOf(pr, s, p, n, f)
      BY <1>2
    <2> DEFINE g == [i \in 0..(n + 1) |->
                       IF i <= n THEN f[i] ELSE WriteOne(pr, f[n], s[n + 1])]
    <2>2. \A i \in 0..n : f[i] = IF i = 0 THEN p ELSE WriteOne(pr, f[i - 1], s[i])
      BY <2>1 DEF RunOf
    <2>3. \A i \in 0..n : g[i] = f[i]
      OBVIOUS
    <2>4. \A i \in 0..(n + 1) :
             g[i] = IF i = 0 THEN p ELSE WriteOne(pr, g[i - 1], s[i])
      <3> TAKE i \in 0..(n + 1)
      <3>1. CASE i \in 0..n
        <4>1. i # 0 => i - 1 \in 0..n
          BY <3>1
        <4> HIDE DEF g
        <4> QED BY <2>2, <2>3, <3>1, <4>1
      <3>2. CASE i = n + 1
        <4>1. n \in 0..n /\ i - 1 = n /\ i # 0 /\ ~ (i <= n)
          BY <3>2
        <4>2. g[i] = WriteOne(pr, f[n], s[n + 1])
          BY <4>1
        <4> HIDE DEF g
        <4> QED BY <2>3, <3>2, <4>1, <4>2
      <3> QED BY <3>1, <3>2
    <2>5. RunOf(pr, s, p, n + 1, g)
      <3>1. g = [i \in 0..(n + 1) |-> g[i]]
        OBVIOUS
      <3> HIDE DEF g
      <3> QED BY <2>4, <3>1 DEF RunOf
    <2> QED BY <2>5
  <1> HIDE DEF T
  <1>3. m \in T
    BY <1>1, <1>2, Induct DEF T
  <1> QED BY <1>3 DEF T

LEMMA RunSteps ==
    ASSUME NEW pr, NEW s, NEW p, NEW n \in Nat, NEW f, RunOf(pr, s, p, n, f)
    PROVE  /\ f[0] = p
           /\ \A i \in Nat : i + 1 \in 0..n => f[i + 1] = WriteOne(pr, f[i], s[i + 1])
  <1>1. \A i \in 0..n : f[i] = IF i = 0 THEN p ELSE WriteOne(pr, f[i - 1], s[i])
    BY DEF RunOf
  <1>2. f[0] = p
    BY <1>1
  <1>3. ASSUME NEW i \in Nat, i + 1 \in 0..n
        PROVE  f[i + 1] = WriteOne(pr, f[i], s[i + 1])
    <2>1. i + 1 # 0 /\ (i + 1) - 1 = i
      OBVIOUS
    <2> QED BY <1>1, <1>3, <2>1
  <1> QED BY <1>2, <1>3

LEMMA WriteOneAdds ==
    ASSUME NEW pr, NEW o, Shaped(o), NEW t, TokenLike(pr, t)
    PROVE  Adds(o, WriteOne(pr, o, t), TokenShows(pr, t))
  BY OutputTokenAdds DEF WriteOne

\* a queue written shows what it showed before
LEMMA OutputQueuePuts ==
    ASSUME NEW pr, NEW o, Keeps(pr, o)
    PROVE  /\ Keeps(pr, OutputQueue(o, pr))
           /\ OutShows(pr, OutputQueue(o, pr)) = OutShows(pr, o)
  <1> DEFINE s == o.tokenQueue
             n == Len(s)
             p == [o EXCEPT !.tokenQueue = << >>]
             f == CHOOSE g : RunOf(pr, s, p, n, g)
  <1>1. PICK S : s \in Seq(S) /\ \A t \in S : TokenLike(pr, t)
    BY DEF Keeps, Queued
  <1>2. n \in Nat /\ \A i \in 1..n : TokenLike(pr, s[i])
    BY <1>1
  <1>3. OutputQueue(o, pr) = f[n]
    BY DEF OutputQueue, RunOf, WriteOne
  <1>4. RunOf(pr, s, p, n, f)
    <2> HIDE DEF n, s, p
    <2> QED BY <1>2, RunExists
  <1>5. /\ p.xml = o.xml /\ p.tokenQueue = << >>
        /\ "xml" \in DOMAIN p /\ "tokenQueue" \in DOMAIN p
    BY DEF Keeps, Shaped
  <1> HIDE DEF f, p, n
  <1>6. /\ f[0] = p
        /\ \A i \in Nat : i + 1 \in 0..n => f[i + 1] = WriteOne(pr, f[i], s[i + 1])
    <2> HIDE DEF s
    <2> QED BY <1>2, <1>4, RunSteps
  <1> DEFINE x == Pieces(o.xml)
             Part(i) == Tokens(pr, SubSeq(s, 1, i))
             Wrote(i) == /\ Shaped(f[i]) /\ f[i].tokenQueue = << >>
                         /\ Pieces(f[i].xml) = Then(x, Part(i))
                         /\ Part(i) \in Seq(Nat)
             T == {i \in Nat : i \in 0..n => Wrote(i)}
  <1>7. x \in Seq(Nat)
    BY OutShowsType
  <1> HIDE DEF x
  <1>8. 0 \in T
    <2>1. SubSeq(s, 1, 0) = << >>
      BY <1>1
    <2>2. Part(0) = << >>
      BY <2>1, TokensEmpty
    <2>3. Then(x, << >>) = x /\ << >> \in Seq(Nat)
      BY <1>7, ThenNothing
    <2>4. Shaped(f[0]) /\ f[0].tokenQueue = << >> /\ Pieces(f[0].xml) = x
      BY <1>5, <1>6 DEF Shaped, Keeps, x
    <2> QED BY <2>2, <2>3, <2>4
  <1>9. ASSUME NEW i \in T PROVE i + 1 \in T
    <2> SUFFICES ASSUME i + 1 \in 0..n PROVE Wrote(i + 1)
      OBVIOUS
    <2>1. Wrote(i) /\ i \in Nat /\ i + 1 \in 1..n /\ i <= n
      BY <1>2
    <2> HIDE DEF T
    <2> DEFINE t == s[i + 1]
               q == f[i]
               r == f[i + 1]
               w == TokenShows(pr, t)
    <2>2. TokenLike(pr, t) /\ w \in Seq(Nat)
      BY <1>2, <2>1, LikeShows
    <2>3. r = WriteOne(pr, q, t)
      BY <1>6, <2>1
    <2>4. Part(i + 1) = Then(Part(i), w) /\ Part(i + 1) \in Seq(Nat)
      <3> DEFINE u == SubSeq(s, 1, i)
      <3>1. SubSeq(s, 1, i + 1) = Append(u, t) /\ u \in Seq(S) /\ t \in S
        <4>1. u \in Seq(S) /\ Len(u) = i /\ \A j \in 1..i : u[j] = s[j]
          BY <1>1, <1>2, <2>1 DEF n
        <4>2. t \in S
          BY <1>1, <1>2, <2>1 DEF n
        <4> DEFINE v == SubSeq(s, 1, i + 1)
        <4>3. v \in Seq(S) /\ Len(v) = i + 1 /\ \A j \in 1..(i + 1) : v[j] = s[j]
          BY <1>1, <1>2, <2>1 DEF n
        <4> HIDE DEF u, v
        <4>4. Append(u, t) \in Seq(S) /\ Len(Append(u, t)) = i + 1
          BY <4>1, <4>2
        <4>5. \A j \in 1..(i + 1) : v[j] = Append(u, t)[j]
          BY <2>1, <4>1, <4>2, <4>3
        <4>6. v = Append(u, t)
          BY <4>3, <4>4, <4>5, SeqEqual
        <4> QED BY <4>1, <4>2, <4>6 DEF v
      <3> HIDE DEF u, t, w
      <3>2. Queued(pr, u)
        BY <1>1, <3>1 DEF Queued
      <3>3. Tokens(pr, Append(u, t)) = Then(Tokens(pr, u), w)
        BY <2>2, <3>2, QueuedAppend DEF w
      <3>4. Tokens(pr, u) \in Seq(Nat)
        BY <3>2, QueuedType
      <3>5. Then(Tokens(pr, u), w) \in Seq(Nat)
        BY <2>2, <3>4, ThenFacts
      <3> QED BY <3>1, <3>3, <3>5 DEF u
    <2>a. Wrote(i) = (/\ Shaped(q) /\ q.tokenQueue = << >>
                      /\ Pieces(q.xml) = Then(x, Part(i)) /\ Part(i) \in Seq(Nat))
      OBVIOUS
    <2>b. Wrote(i + 1) = (/\ Shaped(r) /\ r.tokenQueue = << >>
                          /\ Pieces(r.xml) = Then(x, Part(i + 1))
                          /\ Part(i + 1) \in Seq(Nat))
      OBVIOUS
    <2> HIDE DEF q, r, t, w, Part, Wrote
    <2>5. Adds(q, r, w)
      BY <2>1, <2>2, <2>3, <2>a, WriteOneAdds DEF w
    <2>6. Then(Then(x, Part(i)), w) = Then(x, Then(Part(i), w))
      <3>1. Part(i) \in Seq(Nat) /\ x \in Seq(Nat) /\ w \in Seq(Nat)
        BY <1>7, <2>1, <2>2, <2>a
      <3> QED BY <3>1, ThenFacts
    <2> QED BY <2>1, <2>4, <2>5, <2>6, <2>a, <2>b DEF Adds
  <1> HIDE DEF T
  <1>10. n \in T
    BY <1>2, <1>8, <1>9, Induct DEF T
  <1>11. SubSeq(s, 1, n) = s
    BY <1>1 DEF n
  <1>12. Wrote(n)
    BY <1>2, <1>10 DEF T
  <1> DEFINE z == f[n]
  <1>13. /\ Shaped(z) /\ z.tokenQueue = << >>
         /\ Pieces(z.xml) = Then(x, Tokens(pr, s))
    BY <1>11, <1>12
  <1> HIDE DEF z, Wrote
  <1>14. Queued(pr, << >>)
    <2> DEFINE R == {}
               e == << >>
    <2>1. e \in Seq(R) /\ \A t \in R : TokenLike(pr, t)
      OBVIOUS
    <2> HIDE DEF R, e
    <2>2. Queued(pr, e)
      BY <2>1 DEF Queued
    <2> QED BY <2>2 DEF e
  <1>15. Keeps(pr, z)
    BY <1>13, <1>14 DEF Keeps
  <1>16. OutShows(pr, z) = Then(Then(x, Tokens(pr, s)), << >>)
    BY <1>13, TokensEmpty DEF OutShows
  <1>17. Then(x, Tokens(pr, s)) = OutShows(pr, o) /\ OutShows(pr, o) \in Seq(Nat)
    BY OutShowsType DEF OutShows, x
  <1>18. OutShows(pr, z) = OutShows(pr, o)
    BY <1>16, <1>17, ThenNothing
  <1> QED BY <1>3, <1>15, <1>18 DEF z

LEMMA QueueEndPuts ==
    ASSUME NEW pr, NEW o, Keeps(pr, o), NEW t, TokenLike(pr, t)
    PROVE  Puts(pr, o, QueueEnd(o, t, pr), TokenShows(pr, t))
  <1> DEFINE i == Last(o.startElementStack)
             u == [o.tokenQueue[i] EXCEPT !.end = EndAt(o)]
             a == [o EXCEPT !.tokenQueue[i].end = EndAt(o),
                            !.startElementStack = Front(@)]
             q == Queue(a, t)
  <1>1. /\ a.xml = o.xml /\ a.tokenQueue = Changed(o.tokenQueue, i, u)
        /\ "xml" \in DOMAIN a /\ "tokenQueue" \in DOMAIN a
    BY DEF Keeps, Shaped, Changed
  <1>2. Moved(o.tokenQueue[i], u)
    BY DEF Moved
  <1>3. QueueEnd(o, t, pr) \in {q, OutputQueue(q, pr)}
    BY DEF QueueEnd
  <1> HIDE DEF i, u, a
  <1>4. Keeps(pr, a) /\ OutShows(pr, a) = OutShows(pr, o)
    BY <1>1, <1>2, ChangedKeeps
  <1>5. Puts(pr, a, q, TokenShows(pr, t))
    BY <1>4, QueuePuts
  <1> HIDE DEF q
  <1>6. /\ Keeps(pr, OutputQueue(q, pr))
        /\ OutShows(pr, OutputQueue(q, pr)) = OutShows(pr, q)
    BY <1>5, OutputQueuePuts DEF Puts
  <1> QED BY <1>3, <1>4, <1>5, <1>6 DEF Puts

\* without positions nothing is queued
LEMMA UnqueuedPuts ==
    ASSUME NEW pr, NEW o, Keeps(pr, o), o.tokenQueue = << >>,
           NEW t, TokenLike(pr, t)
    PROVE  LET q == outputToken(o, t, pr, FALSE)
           IN  Puts(pr, o, q, TokenShows(pr, t)) /\ q.tokenQueue = << >>
  <1> DEFINE q == outputToken(o, t, pr, FALSE)
             x == Pieces(o.xml)
             w == TokenShows(pr, t)
  <1>1. Adds(o, q, w)
    BY OutputTokenAdds DEF Keeps
  <1>2. x \in Seq(Nat) /\ w \in Seq(Nat)
    BY OutShowsType, LikeShows
  <1> HIDE DEF q, x, w
  <1>3. Keeps(pr, q) /\ q.tokenQueue = << >>
    BY <1>1 DEF Keeps, Adds
  <1>4. OutShows(pr, q) = Then(Then(x, w), << >>) /\ OutShows(pr, o) = Then(x, << >>)
    BY <1>1, <1>3, TokensEmpty DEF OutShows, Adds, x
  <1>5. Then(x, w) \in Seq(Nat)
    BY <1>2, ThenFacts
  <1>6. OutShows(pr, q) = Then(x, w) /\ OutShows(pr, o) = x
    BY <1>2, <1>4, <1>5, ThenNothing
  <1> QED BY <1>3, <1>6 DEF Puts, q, w

\* a token taken is written or queued, and so is the end of the program
LEMMA TakePuts ==
    ASSUME position \in BOOLEAN, NEW o, Keeps(program, o),
           ~ position => o.tokenQueue = << >>,
           NEW t, TokenLike(program, t)
    PROVE  LET q == Take(o, t, program, position)
           IN  /\ Puts(program, o, q, TokenShows(program, t))
               /\ ~ position => q.tokenQueue = << >>
  <1> DEFINE q == Take(o, t, program, position)
  <1>1. CASE ~ position
    <2>1. q = outputToken(o, t, program, FALSE)
      BY <1>1 DEF Take
    <2> HIDE DEF q
    <2> QED BY <1>1, <2>1, UnqueuedPuts DEF q
  <1>2. CASE position
    <2>1. t.tag = "text" => t.type \in NotInProcess
      BY DEF TokenLike, NotInProcess
    <2>2. q \in {QueueText(o, t, program), QueueStart(o, t), Queue(o, t),
                 QueueEnd(o, t, program)}
      <3>1. CASE t.type \in NotInProcess
        BY <1>2, <3>1 DEF Take
      <3>2. CASE t.type \notin NotInProcess /\ t.tag = "start"
        BY <1>2, <3>2 DEF Take
      <3>3. CASE t.type \notin NotInProcess /\ t.tag = "empty"
        BY <1>2, <3>3 DEF Take
      <3>4. CASE t.type \notin NotInProcess /\ t.tag = "end"
        BY <1>2, <3>4 DEF Take
      <3> QED BY <2>1, <3>1, <3>2, <3>3, <3>4 DEF TokenLike
    <2> HIDE DEF q
    <2>3. Puts(program, o, QueueText(o, t, program), TokenShows(program, t))
      BY QueueTextPuts
    <2>4. Puts(program, o, QueueStart(o, t), TokenShows(program, t))
      BY QueueStartPuts
    <2>5. Puts(program, o, Queue(o, t), TokenShows(program, t))
      BY QueuePuts
    <2>6. Puts(program, o, QueueEnd(o, t, program), TokenShows(program, t))
      BY QueueEndPuts
    <2> QED BY <1>2, <2>2, <2>3, <2>4, <2>5, <2>6 DEF q
  <1> QED BY <1>1, <1>2

LEMMA TakeEOFPuts ==
    ASSUME position \in BOOLEAN, NEW o, Keeps(program, o),
           ~ position => o.tokenQueue = << >>
    PROVE  LET q == TakeEOF(o, program, position)
           IN  /\ Keeps(program, q) /\ OutShows(program, q) = OutShows(program, o)
               /\ ~ position => q.tokenQueue = << >>
  <1>1. CASE position
    <2>1. TakeEOF(o, program, position) = OutputQueue(o, program)
      BY <1>1 DEF TakeEOF
    <2> QED BY <1>1, <2>1, OutputQueuePuts
  <1>2. CASE ~ position
    <2>1. TakeEOF(o, program, position) = o
      BY <1>2 DEF TakeEOF
    <2> QED BY <2>1
  <1> QED BY <1>1, <1>2

LEMMA NewOutputKeeps ==
    ASSUME NEW pr
    PROVE  /\ Keeps(pr, NewOutput) /\ OutShows(pr, NewOutput) = << >>
           /\ NewOutput.tokenQueue = << >>
  <1> DEFINE x == Piece("<", "unit", "unit")
             o == NewOutput
             e == << >>
  <1>1. /\ o.xml = << x >> /\ o.tokenQueue = e
        /\ "xml" \in DOMAIN o /\ "tokenQueue" \in DOMAIN o
    BY DEF NewOutput
  <1>2. PieceShows(x) = e
    BY DEF PieceShows, Piece
  <1>3. e \in Seq({}) /\ << x >> = Append(e, x) /\ e \in Seq(Nat)
    OBVIOUS
  <1> HIDE DEF x, o
  <1>4. Written(e) /\ Queued(pr, e)
    <2> DEFINE R == {}
    <2>1. /\ e \in Seq(R) /\ \A t \in R : TokenLike(pr, t)
          /\ \A y \in R : PieceShows(y) \in Seq(Nat)
      OBVIOUS
    <2> HIDE DEF R, e
    <2> QED BY <2>1 DEF Queued, Written
  <1>5. Pieces(e) = e
    <2>1. [i \in DOMAIN e |-> PieceShows(e[i])] = e
      OBVIOUS
    <2> QED BY <2>1, FlattenEmpty DEF Pieces
  <1>6. Tokens(pr, e) = e
    BY TokensEmpty
  <1> HIDE DEF e
  <1>7. Written(Append(e, x)) /\ Pieces(Append(e, x)) = Then(e, e)
    BY <1>2, <1>3, <1>4, <1>5, WrittenAppend
  <1>8. Then(e, e) = e
    BY <1>3, ThenNothing DEF e
  <1>9. Keeps(pr, o)
    BY <1>1, <1>3, <1>4, <1>7 DEF Keeps, Shaped
  <1>10. OutShows(pr, o) = e
    BY <1>1, <1>3, <1>6, <1>7, <1>8 DEF OutShows
  <1> QED BY <1>1, <1>9, <1>10 DEF o, e

-----------------------------------------------------------------------------
(* Where the parser is *)

Backs == {"front", "rule", "fill"}

\* what holds of the parser where control is
At(pr, p, c) ==
    /\ c \in {"front", "rule", "directive", "line", "attribute", "done"}
    /\ c \in {"front", "rule", "done"} =>
            p.using = "main" /\ ~ p.inskip /\ ~ p.inAttribute
    /\ c = "front" =>
            IF p.st = << >>
            THEN /\ p.paused = 0 /\ p.out["main"] # << >>
                 /\ Last(p.out["main"]) = Text(Len(pr) + 1)
            ELSE p.at <= Len(pr) + 1
    /\ c = "rule" => p.st # << >>
    /\ c = "directive" => InDirective(p)
    /\ c = "line" => InLine(p)
    /\ c = "attribute" => InAttribute(p)
    /\ c \in {"rule", "directive", "line", "attribute"} => Ready(pr, p)

Sound ==
    /\ program \in ProgramSet /\ Good(program, parser)
    /\ At(program, parser, pc) /\ back \in Backs

\* a step that leaves the output alone
Moves ==
    /\ Grows(program, parser, parser') /\ At(program, parser', pc')
    /\ back' \in Backs

LEMMA GrowsNone ==
    ASSUME NEW pr \in ProgramSet, NEW p, Good(pr, p)
    PROVE  Grows(pr, p, p)
  BY TakesNone, TakesGrows

\* the preprocessor lines and attributes that follow are parsed first
LEMMA GoOnMoves ==
    ASSUME Sound, NEW p, Grows(program, parser, p), InRules(p),
           Ready(program, p), NEW b \in Backs,
           b = "fill" => StartsDirective(p, program) \/ StartsAttribute(p, program),
           GoOn(p, b)
    PROVE  Moves
  <1>0. Good(program, p) /\ program \in ProgramSet /\ Good(program, parser)
    BY DEF Sound, Grows
  <1>1. CASE StartsDirective(p, program)
    <2> DEFINE q == StartDirective(p, program)
    <2>1. parser' = q /\ pc' = "directive" /\ back' = b
      BY <1>1 DEF GoOn, StartsAttribute, StartsDirective
    <2>2. Grows(program, p, q) /\ InDirective(q) /\ Ready(program, q)
      BY <1>0, <1>1, StartDirectiveGrows DEF StartsDirective
    <2> HIDE DEF q
    <2>3. Grows(program, parser, q)
      BY <1>0, <2>2, GrowsTwice
    <2> QED BY <2>1, <2>2, <2>3 DEF Moves, At
  <1>2. CASE ~ StartsDirective(p, program) /\ StartsAttribute(p, program)
    <2> DEFINE q == StartAttribute(p, program)
    <2>1. parser' = q /\ pc' = "attribute" /\ back' = b
      BY <1>2 DEF GoOn, StartsAttribute, StartsDirective
    <2>2. Grows(program, p, q) /\ InAttribute(q) /\ Ready(program, q)
      BY <1>0, <1>2, StartAttributeGrows DEF StartsAttribute
    <2> HIDE DEF q
    <2>3. Grows(program, parser, q)
      BY <1>0, <2>2, GrowsTwice
    <2> QED BY <2>1, <2>2, <2>3 DEF Moves, At
  <1>3. CASE ~ StartsDirective(p, program) /\ ~ StartsAttribute(p, program)
    <2>1. parser' = p /\ pc' = b /\ back' = "front" /\ b \in {"front", "rule"}
      BY <1>3 DEF GoOn, Backs
    <2> QED BY <2>1 DEF Moves, At, Backs, InRules, Ready
  <1> QED BY <1>1, <1>2, <1>3

LEMMA FillMoves ==
    ASSUME Sound, Fill
    PROVE  Moves
  <1> DEFINE l == LA(parser, program)
  <1>0. /\ pc = "front" /\ program \in ProgramSet /\ Good(program, parser)
        /\ parser.using = "main" /\ ~ parser.inskip /\ ~ parser.inAttribute
    BY DEF Fill, Sound, At
  <1>1. parser.st # << >> /\ parser.at <= Len(program) + 1
    BY <1>0 DEF Fill, Sound, At, tb
  <1>2. parser.at \in Nat \ {0} /\ Len(program) \in Nat
    BY <1>0, ModeTypes DEF ProgramSet
  <1>3. CASE isSkipToken(parser, l)
    <2> DEFINE a == SkipToken(parser, program[parser.at])
               q == flushSkip(a)
    <2>1. parser' = q /\ pc' = pc /\ back' = back
      BY <1>3 DEF Fill, Next2
    <2>2. l # "EOF"
      BY <1>3 DEF isSkipToken, whitespace_token_set
    <2>3. parser.at \in 1..Len(program)
      BY <1>1, <1>2, <2>2 DEF LA
    <2>4. Reads(program, parser, a)
      BY <1>0, <2>3, SkipTokenReads
    <2> HIDE DEF a
    <2>5. Takes(program, parser, a) /\ Good(program, a)
      BY <1>0, <2>3, <2>4, ReadsTakes DEF Takes
    <2>6. Good(program, q) /\ Waiting(program, q) = Waiting(program, a) /\ SameControl(a, q)
      BY <1>0, <2>5, FlushSkip
    <2> HIDE DEF q
    <2>7. Still(program, a, q)
      BY <2>6, SameIsStill
    <2>8. Grows(program, parser, q)
      <3>1. Grows(program, parser, a)
        BY <2>5, TakesGrows
      <3>2. Grows(program, a, q)
        BY <1>0, <2>5, <2>7, QuietGrows DEF Still
      <3> QED BY <1>0, <3>1, <3>2, GrowsTwice
    <2>9. At(program, q, "front")
      <3>1. /\ q.using = "main" /\ ~ q.inskip /\ ~ q.inAttribute
            /\ q.st # << >> /\ q.at = a.at
        BY <1>0, <1>1, <2>5, <2>6 DEF Takes, SameControl
      <3>2. q.at <= Len(program) + 1
        BY <1>1, <2>5, <3>1 DEF Takes
      <3> QED BY <3>1, <3>2 DEF At
    <2> QED BY <1>0, <2>1, <2>8, <2>9 DEF Moves, Sound
  <1>4. CASE ~ isSkipToken(parser, l)
    <2>1. Ready(program, parser)
      BY <1>1, <1>4 DEF Ready, isSkipToken, whitespace_token_set
    <2>2. CASE StartsDirective(parser, program) \/ StartsAttribute(parser, program)
      <3>1. GoOn(parser, "fill")
        BY <1>4, <2>2 DEF Fill, Next2
      <3>2. InRules(parser) /\ Grows(program, parser, parser)
        BY <1>0, <1>1, GrowsNone DEF InRules
      <3>3. "fill" \in Backs
        BY DEF Backs
      <3> QED BY <2>1, <2>2, <3>1, <3>2, <3>3, GoOnMoves
    <2>3. CASE ~ (StartsDirective(parser, program) \/ StartsAttribute(parser, program))
      <3>1. pc' = "rule" /\ parser' = parser /\ back' = back
        BY <1>4, <2>3 DEF Fill, Next2
      <3>2. Grows(program, parser, parser)
        BY <1>0, GrowsNone
      <3> QED BY <1>0, <1>1, <2>1, <3>1, <3>2 DEF Moves, At, Sound
    <2> QED BY <2>2, <2>3
  <1> QED BY <1>3, <1>4

-----------------------------------------------------------------------------
(* The calls of a rule *)

LEMMA RuleFacts ==
    ASSUME Sound, pc = "rule"
    PROVE  /\ program \in ProgramSet /\ Good(program, parser)
           /\ parser.using = "main" /\ ~ parser.inskip /\ ~ parser.inAttribute
           /\ parser.st # << >> /\ Ready(program, parser) /\ CanEnd(parser)
           /\ back \in Backs /\ Len(parser.st) \in Nat \ {0}
           /\ parser.at \in Nat \ {0} /\ Len(program) \in Nat
  <1>1. /\ program \in ProgramSet /\ Good(program, parser)
        /\ parser.using = "main" /\ ~ parser.inskip /\ ~ parser.inAttribute
        /\ parser.st # << >> /\ Ready(program, parser) /\ back \in Backs
    BY DEF Sound, At
  <1>2. parser.st \in Seq(Modes) /\ parser.at \in Nat \ {0}
    BY <1>1, ModeTypes
  <1>3. Len(parser.st) \in Nat \ {0}
    BY <1>1, <1>2
  <1> QED BY <1>1, <1>2, <1>3 DEF CanEnd, ProgramSet

\* a call of a rule that takes nothing in
LEMMA CallMoves ==
    ASSUME Sound, NEW p, Quiet(program, parser, p), p.st # << >>, InRule(p)
    PROVE  Moves
  <1>1. pc = "rule" /\ parser' = p /\ pc' = pc /\ back' = back
    BY DEF InRule
  <1>2. Grows(program, parser, p)
    BY <1>1, RuleFacts, QuietGrows
  <1>3. p.at = parser.at /\ p.using = "main" /\ ~ p.inskip /\ ~ p.inAttribute
    BY <1>1, RuleFacts DEF Quiet
  <1>4. Ready(program, p)
    BY <1>1, <1>3, RuleFacts, ReadyStill
  <1> QED BY <1>1, <1>2, <1>3, <1>4, RuleFacts DEF Moves, At

LEMMA StartModeMoves ==
    ASSUME Sound, NEW flag \in {"none", "INCLUDE_ATTRIBUTE", "TOP", "TOP_SECTION"},
           StartMode(flag)
    PROVE  Moves
  <1> DEFINE p == startNewMode(parser, flag)
  <1>1. InRule(p) /\ pc = "rule"
    BY DEF StartMode, InRule
  <1>2. flag \in Flags
    BY DEF Flags
  <1>3. Still(program, parser, p) /\ Len(p.st) = Len(parser.st) + 1
    BY <1>1, <1>2, RuleFacts, StartNewMode
  <1> HIDE DEF p
  <1>4. p.st # << >>
    BY <1>1, <1>3, RuleFacts, InMode DEF Still, Quiet
  <1> QED BY <1>1, <1>3, <1>4, CallMoves DEF Still

\* the modes are the same
LEMMA ElementMoves ==
    ASSUME Sound, NEW p, Still(program, parser, p), SameModes(parser, p), InRule(p)
    PROVE  Moves
  <1>1. pc = "rule"
    BY DEF InRule
  <1>2. Len(p.st) > 0
    BY <1>1, RuleFacts DEF SameModes
  <1>3. p.st # << >>
    BY <1>1, <1>2, RuleFacts, InMode DEF Still, Quiet
  <1> QED BY <1>3, CallMoves DEF Still

LEMMA StartElementMoves ==
    ASSUME Sound, NEW e \in Elements, StartElement(e)
    PROVE  Moves
  <1> DEFINE p == startElement(parser, e)
  <1>1. InRule(p) /\ pc = "rule" /\ e \in Name
    BY DEF StartElement, InRule, Name
  <1>2. Still(program, parser, p) /\ SameModes(parser, p)
    BY <1>1, RuleFacts, StartElementKeeps
  <1> HIDE DEF p
  <1> QED BY <1>1, <1>2, ElementMoves

LEMMA StartNoSkipElementMoves ==
    ASSUME Sound, NEW e \in Elements, StartNoSkipElement(e)
    PROVE  Moves
  <1> DEFINE p == startNoSkipElement(parser, e)
  <1>1. InRule(p) /\ pc = "rule" /\ e \in Name
    BY DEF StartNoSkipElement, InRule, Name
  <1>2. Still(program, parser, p) /\ SameModes(parser, p)
    BY <1>1, RuleFacts, StartNoSkipElementKeeps
  <1> HIDE DEF p
  <1> QED BY <1>1, <1>2, ElementMoves

LEMMA EmptyElementMoves ==
    ASSUME Sound, NEW e \in Elements, EmptyElement(e)
    PROVE  Moves
  <1> DEFINE p == emptyElement(parser, e)
  <1>1. InRule(p) /\ pc = "rule" /\ e \in Name
    BY DEF EmptyElement, InRule, Name
  <1>2. Still(program, parser, p) /\ SameModes(parser, p)
    BY <1>1, RuleFacts, EmptyElementKeeps
  <1> HIDE DEF p
  <1> QED BY <1>1, <1>2, ElementMoves

LEMMA EndElementMoves ==
    ASSUME Sound, EndElement
    PROVE  Moves
  <1> DEFINE p == endElement(parser)
  <1>1. InRule(p) /\ pc = "rule" /\ Last(parser.st).open # << >>
    BY DEF EndElement, InRule, Own, currentState
  <1>2. Still(program, parser, p) /\ SameModes(parser, p)
    BY <1>1, RuleFacts, EndElementKeeps
  <1> HIDE DEF p
  <1> QED BY <1>1, <1>2, ElementMoves

LEMMA EndModeMoves ==
    ASSUME Sound, EndMode
    PROVE  Moves
  <1> DEFINE p == endMode(parser)
  <1>1. InRule(p) /\ pc = "rule"
    BY DEF EndMode, InRule
  <1>2. Still(program, parser, p) /\ Len(p.st) > 0
    BY <1>1, RuleFacts, EndModeKeeps
  <1> HIDE DEF p
  <1>3. p.st # << >>
    BY <1>1, <1>2, RuleFacts, InMode DEF Still, Quiet
  <1> QED BY <1>1, <1>2, <1>3, CallMoves DEF Still

LEMMA StartStatementMoves ==
    ASSUME Sound, StartStatement
    PROVE  Moves
  <1> DEFINE a == startNewMode(parser, "none")
             o == Opened(a, Statement)
             f == flushSkip(o)
             b == startElement(a, Statement)
             p == pauseStream(b)
  <1>1. InRule(p) /\ pc = "rule"
    BY DEF StartStatement, InRule
  <1>2. Still(program, parser, a) /\ Len(a.st) = Len(parser.st) + 1
    <2>1. "none" \in Flags
      BY DEF Flags
    <2> QED BY <1>1, <2>1, RuleFacts, StartNewMode
  <1> HIDE DEF a
  <1>3. Good(program, a) /\ a.st # << >> /\ a.using = "main"
    BY <1>1, <1>2, RuleFacts, InMode DEF Still, Quiet
  <1>4. Statement \in Name
    BY DEF Name
  <1>5. Still(program, a, b) /\ SameModes(a, b)
    BY <1>1, <1>3, <1>4, RuleFacts, StartElementKeeps
  <1>6. Good(program, o) /\ o.using = "main"
    <2>1. Still(program, a, o)
      BY <1>1, <1>3, <1>4, RuleFacts, OpenedKeeps
    <2> QED BY <1>3, <2>1 DEF Still, Quiet
  <1> HIDE DEF o
  <1>7. Good(program, f) /\ f.using = "main"
    BY <1>1, <1>6, RuleFacts, FlushSkip DEF SameControl
  <1>8. b = pushToken(f, StartTag(Statement))
    BY DEF startElement, pushTokenFlush, f, o
  <1> HIDE DEF f
  <1>9. b.out["main"] # << >> /\ Last(b.out["main"]) = StartTag(Statement)
    <2>1. /\ f.out["main"] \in Seq(TokenOf(program))
          /\ f.out \in [Buffers -> Seq(TokenOf(program))]
      BY <1>1, <1>7, RuleFacts, BufferTypes
    <2>2. b.out["main"] = Append(f.out["main"], StartTag(Statement))
      <3>1. "out" \in DOMAIN f
        BY <1>7 DEF Good, Parser
      <3>2. "main" \in DOMAIN f.out
        BY <2>1 DEF Buffers
      <3> DEFINE t == StartTag(Statement)
      <3> HIDE DEF t
      <3> QED BY <1>7, <1>8, <3>1, <3>2 DEF pushToken, t
    <2> DEFINE s == f.out["main"]
               t == StartTag(Statement)
    <2>3. s \in Seq(TokenOf(program)) /\ t \in TokenOf(program)
      BY <1>1, <1>4, <2>1, RuleFacts, TokenFacts
    <2> HIDE DEF s, t
    <2>4. Append(s, t) # << >> /\ Last(Append(s, t)) = t
      BY <2>3 DEF Last
    <2> QED BY <2>2, <2>4 DEF s, t
  <1> HIDE DEF b
  <1>10. Quiet(program, b, p) /\ p.st = b.st
    <2>1. Good(program, b)
      BY <1>5 DEF Still, Quiet
    <2> QED BY <1>1, <1>9, <2>1, RuleFacts, PauseStream
  <1> HIDE DEF p
  <1>11. Quiet(program, parser, p)
    <2>1. Quiet(program, parser, a) /\ Quiet(program, a, b)
      BY <1>2, <1>5 DEF Still
    <2>2. Quiet(program, parser, b)
      BY <2>1, QuietTwice
    <2> QED BY <1>10, <2>2, QuietTwice
  <1>12. p.st # << >>
    <2>1. Len(p.st) > 0
      BY <1>1, <1>2, <1>5, <1>10, RuleFacts DEF SameModes
    <2> QED BY <1>1, <1>11, <2>1, RuleFacts, InMode DEF Quiet
  <1> QED BY <1>1, <1>11, <1>12, CallMoves

LEMMA ConsumeMoves ==
    ASSUME Sound, NEW p, pc = "rule", Quiet(program, parser, p), p.st = parser.st,
           Next2 # "EOF", NEW b \in {"front", "rule"},
           GoOn(consume(p, program), b)
    PROVE  Moves
  <1> DEFINE q == consume(p, program)
  <1>1. /\ Good(program, p) /\ p.at = parser.at /\ p.using = "main"
        /\ ~ p.inskip /\ ~ p.inAttribute /\ p.st # << >>
    BY RuleFacts DEF Quiet
  <1>2. Ready(program, p) /\ LA(p, program) = LA(parser, program)
    BY <1>1, RuleFacts, ReadyStill
  <1>3. LA(p, program) # "EOF"
    BY <1>2 DEF Next2
  <1>4. Grows(program, p, q) /\ Framed(p, q) /\ Ready(program, q) /\ q.st = p.st
    BY <1>1, <1>2, <1>3, RuleFacts, ConsumeReady
  <1> HIDE DEF q
  <1>5. Grows(program, parser, q)
    <2>1. Grows(program, parser, p)
      BY RuleFacts, QuietGrows
    <2> QED BY <1>4, <2>1, RuleFacts, GrowsTwice
  <1>6. InRules(q)
    BY <1>1, <1>4 DEF InRules, Framed
  <1>7. b \in Backs /\ b # "fill" /\ GoOn(q, b)
    BY DEF Backs, q
  <1> QED BY <1>4, <1>5, <1>6, <1>7, GoOnMoves

LEMMA TerminateMoves ==
    ASSUME Sound, Terminate
    PROVE  Moves
  <1> DEFINE p == resumeStream(parser)
  <1>1. pc = "rule" /\ GoOn(consume(p, program), "rule") /\ Next2 # "EOF"
    BY DEF Terminate
  <1>2. Quiet(program, parser, p) /\ p.st = parser.st
    BY <1>1, RuleFacts, ResumeStream
  <1> HIDE DEF p
  <1> QED BY <1>1, <1>2, ConsumeMoves

LEMMA QuietNone ==
    ASSUME NEW pr, NEW p, Good(pr, p)
    PROVE  Quiet(pr, p, p)
  BY DEF Quiet

LEMMA ConsumeActionMoves ==
    ASSUME Sound, Consume
    PROVE  Moves
  <1>1. pc = "rule" /\ GoOn(consume(parser, program), "rule") /\ Next2 # "EOF"
    BY DEF Consume
  <1>2. Quiet(program, parser, parser)
    BY <1>1, RuleFacts, QuietNone
  <1> QED BY <1>1, <1>2, ConsumeMoves

LEMMA ReturnMoves ==
    ASSUME Sound, Return
    PROVE  Moves
  <1>1. pc = "rule" /\ Next2 # "EOF"
    BY DEF Return
  <1>2. CASE tb = << >>
    <2>1. GoOn(consume(parser, program), "front")
      BY <1>2 DEF Return
    <2>2. Quiet(program, parser, parser)
      BY <1>1, RuleFacts, QuietNone
    <2> QED BY <1>1, <2>1, <2>2, ConsumeMoves
  <1>3. CASE tb # << >>
    <2>1. pc' = "front" /\ parser' = parser /\ back' = back
      BY <1>3 DEF Return
    <2>2. Grows(program, parser, parser)
      BY <1>1, RuleFacts, GrowsNone
    <2> QED BY <1>1, <2>1, <2>2, RuleFacts DEF Moves, At, Ready
  <1> QED BY <1>2, <1>3

LEMMA EndOfFileMoves ==
    ASSUME Sound, EndOfFile
    PROVE  Moves
  <1> DEFINE p == endAllModes(parser)
             q == consume(p, program)
  <1>1. /\ pc = "rule" /\ Next2 = "EOF" /\ parser' = q
        /\ pc' = "front" /\ back' = back
    BY DEF EndOfFile
  <1>2. Quiet(program, parser, p) /\ p.st = << >> /\ p.paused = 0
    BY <1>1, RuleFacts, EndAllModes
  <1> HIDE DEF p
  <1>3. parser.at = Len(program) + 1
    <2>1. parser.at > Len(program)
      <3>1. parser.at \in 1..Len(program) => program[parser.at].type # "EOF"
        <4>1. program \in ProgramSet
          BY <1>1, RuleFacts
        <4>2. \A i \in 1..Len(program) : program[i].type \in Types \ {"EOF"}
          <5> DEFINE R == [type : Types \ {"EOF"}, text : Seq(STRING)]
          <5>1. program \in Seq(R)
            BY <4>1 DEF ProgramSet
          <5> HIDE DEF R
          <5>2. \A i \in 1..Len(program) : program[i] \in R
            BY <5>1
          <5> QED BY <5>2 DEF R
        <4> QED BY <4>2
      <3> QED BY <1>1, <3>1, RuleFacts DEF Next2, LA
    <2>2. parser.at <= Len(program) + 1
      BY <1>1, RuleFacts DEF Ready
    <2> QED BY <1>1, <2>1, <2>2, RuleFacts
  <1>4. /\ Good(program, p) /\ p.at = Len(program) + 1 /\ p.using = "main"
        /\ ~ p.inskip /\ ~ p.inAttribute
    BY <1>1, <1>2, <1>3, RuleFacts DEF Quiet
  <1>5. /\ Good(program, q) /\ q.st = p.st /\ q.using = "main"
        /\ q.paused = p.paused /\ q.inskip = p.inskip
        /\ q.inAttribute = p.inAttribute /\ Carried(program, p, q)
        /\ q.out["main"] # << >> /\ Last(q.out["main"]) = Text(Len(program) + 1)
    BY <1>1, <1>4, RuleFacts, ConsumeEnd
  <1> HIDE DEF q
  <1>6. Grows(program, parser, q)
    <2>1. Grows(program, parser, p)
      BY <1>1, <1>2, RuleFacts, QuietGrows
    <2>2. Grows(program, p, q)
      BY <1>5 DEF Grows
    <2> QED BY <1>1, <2>1, <2>2, RuleFacts, GrowsTwice
  <1>7. At(program, q, "front")
    BY <1>2, <1>4, <1>5 DEF At
  <1> QED BY <1>1, <1>6, <1>7, RuleFacts DEF Moves

\* a block is not the whole stack
LEMMA InBlockLength ==
    ASSUME NEW pr \in ProgramSet, NEW p, Good(pr, p), Len(p.st) \in Nat \ {0}
    PROVE  Len(InBlock(p)) \in 0..(Len(p.st) - 1)
  <1> DEFINE s == p.st
             l == Len(s)
             I == {i \in 1..l : s[i].flag \in {"TOP", "TOP_SECTION"}}
             n == IF I # {} THEN Max(I) ELSE 0
             k == Max({n, 1})
  <1>1. InBlock(p) = SubSeq(s, k + 1, l)
    BY DEF InBlock, SelectLastInSeq
  <1>2. s \in Seq(Modes) /\ l \in Nat \ {0}
    BY ModeTypes
  <1>3. n \in 0..l
    <2>1. CASE I = {}
      BY <1>2, <2>1
    <2>2. CASE I # {}
      <3>1. I \in SUBSET (0..l) /\ \A i \in I : i \in 0..l
        BY <1>2
      <3>2. n = Max(I)
        BY <2>2
      <3> HIDE DEF I, n, l
      <3>3. Max(I) \in I
        BY <1>2, <2>2, <3>1, Greatest
      <3> QED BY <3>1, <3>2, <3>3
    <2> QED BY <2>1, <2>2
  <1> HIDE DEF n
  <1>4. k \in 1..l
    <2> DEFINE S == {n, 1}
    <2>1. S \in SUBSET (0..l) /\ S # {} /\ 1 \in S /\ \A i \in S : i \in 0..l
      BY <1>2, <1>3
    <2> HIDE DEF S, l
    <2>2. Max(S) \in S /\ \A m \in S : m <= Max(S)
      BY <1>2, <2>1, Greatest
    <2>3. Max(S) >= 1 /\ Max(S) \in 0..l
      BY <2>1, <2>2
    <2> QED BY <1>2, <2>3 DEF S
  <1> HIDE DEF k
  <1>5. Len(SubSeq(s, k + 1, l)) = l - k
    BY <1>2, <1>4
  <1> QED BY <1>1, <1>2, <1>4, <1>5

LEMMA AboveLength ==
    ASSUME NEW pr \in ProgramSet, NEW p, Good(pr, p), NEW flag,
           Len(p.st) \in Nat \ {0}
    PROVE  Above(p, flag) \in 0..(Len(p.st) - 1)
  <1> DEFINE l == Len(p.st)
             S == {i \in 2..l : \A j \in i..l : p.st[j].flag = flag}
  <1>1. l \in Nat \ {0} /\ S \in SUBSET (2..l)
    OBVIOUS
  <1>2. Above(p, flag) = Cardinality(S)
    BY DEF Above
  <1> HIDE DEF l, S
  <1>3. IsFiniteSet(2..l) /\ Cardinality(2..l) = l - 1
    <2>1. 2 \in Int /\ l \in Int
      BY <1>1
    <2>2. IsFiniteSet(2..l) /\ Cardinality(2..l) = IF 2 > l THEN 0 ELSE l - 2 + 1
      BY <2>1, FS_Interval, Zenon
    <2> QED BY <1>1, <2>2
  <1>4. IsFiniteSet(S) /\ Cardinality(S) <= l - 1
    <2> DEFINE U == 2..l
    <2>1. S \in SUBSET U /\ IsFiniteSet(U) /\ Cardinality(U) = l - 1
      BY <1>1, <1>3
    <2> HIDE DEF U
    <2>2. IsFiniteSet(S) /\ Cardinality(S) <= Cardinality(U)
      BY <2>1, FS_Subset
    <2> QED BY <2>1, <2>2
  <1>5. Cardinality(S) \in Nat
    BY <1>4, FS_CardinalityType
  <1> QED BY <1>1, <1>2, <1>4, <1>5 DEF l

LEMMA EndBlockMoves ==
    ASSUME Sound, EndBlock
    PROVE  Moves
  <1> DEFINE n == Len(InBlock(parser))
             a == PopModeTimes(parser, n)
             b == flushSkip(a)
             c == nopStreamStart(b)
             k == Above(c, "TOP_SECTION")
             p == PopModeTimes(c, k)
             l == Len(parser.st)
  <1>1. pc = "rule" /\ InRule(p)
    <2>1. pc = "rule" /\ InRule(endWhileMode(c, "TOP_SECTION"))
      BY DEF EndBlock, PopModeTimes
    <2>2. endWhileMode(c, "TOP_SECTION") = p
      BY DEF endWhileMode, PopModeTimes
    <2> QED BY <2>1, <2>2
  <1>2. n \in 0..(l - 1) /\ l \in Nat \ {0}
    BY <1>1, RuleFacts, InBlockLength
  <1> HIDE DEF n
  <1>3. Still(program, parser, a) /\ Popped(parser, a, n)
    <2>1. n \in 0..l
      BY <1>2
    <2> QED BY <1>1, <2>1, RuleFacts, PopModes
  <1> HIDE DEF a
  <1>4. Still(program, a, b) /\ b.st = a.st
    <2>1. Good(program, a)
      BY <1>3 DEF Still, Quiet
    <2>2. Good(program, b) /\ Waiting(program, b) = Waiting(program, a) /\ SameControl(a, b)
      BY <1>1, <2>1, RuleFacts, FlushSkip
    <2> QED BY <2>2, SameIsStill DEF SameControl
  <1> HIDE DEF b
  <1>5. Quiet(program, b, c) /\ c.st = b.st
    <2>1. Good(program, b) /\ b.using = "main"
      BY <1>1, <1>3, <1>4, RuleFacts DEF Still, Quiet
    <2> QED BY <1>1, <2>1, RuleFacts, NopStreamStart
  <1> HIDE DEF c
  <1>6. Quiet(program, parser, c)
    <2>1. Quiet(program, parser, a) /\ Quiet(program, a, b)
      BY <1>3, <1>4 DEF Still
    <2>2. Quiet(program, parser, b)
      BY <2>1, QuietTwice
    <2> QED BY <1>5, <2>2, QuietTwice
  <1>7. Good(program, c) /\ c.using = "main" /\ Len(c.st) \in Nat \ {0}
    <2>1. Len(c.st) = l - n
      BY <1>3, <1>4, <1>5 DEF Popped
    <2> QED BY <1>1, <1>2, <1>6, <2>1, RuleFacts DEF Quiet
  <1>8. k \in 0..(Len(c.st) - 1)
    BY <1>1, <1>7, RuleFacts, AboveLength
  <1> HIDE DEF k, l
  <1>9. Still(program, c, p) /\ Popped(c, p, k)
    <2>1. k \in 0..Len(c.st)
      BY <1>7, <1>8
    <2> QED BY <1>1, <1>7, <2>1, RuleFacts, PopModes
  <1> HIDE DEF p
  <1>10. Quiet(program, parser, p)
    BY <1>6, <1>9, QuietTwice DEF Still
  <1>11. p.st # << >>
    <2>1. Len(p.st) > 0
      BY <1>7, <1>8, <1>9 DEF Popped
    <2> QED BY <1>1, <1>10, <2>1, RuleFacts, InMode DEF Quiet
  <1> QED BY <1>1, <1>10, <1>11, CallMoves

-----------------------------------------------------------------------------
(* Preprocessor lines and attributes *)

LEMMA InnerFacts ==
    ASSUME Sound, pc \in {"directive", "line", "attribute"}
    PROVE  /\ program \in ProgramSet /\ Good(program, parser)
           /\ Ready(program, parser) /\ parser.using = "pre"
           /\ back \in Backs /\ Len(parser.st) \in Nat /\ Len(parser.st) >= 2
           /\ parser.st # << >>
  <1>1. /\ program \in ProgramSet /\ Good(program, parser)
        /\ Ready(program, parser) /\ back \in Backs
    BY DEF Sound, At
  <1>2. Len(parser.st) \in Nat
    BY <1>1, ModeTypes
  <1>3. parser.using = "pre" /\ Len(parser.st) >= 2
    BY <1>2 DEF Sound, At, InDirective, InLine, InAttribute
  <1>4. parser.st # << >>
    BY <1>1, <1>2, <1>3, InMode
  <1> QED BY <1>1, <1>2, <1>3, <1>4

LEMMA KeywordMoves ==
    ASSUME Sound, Keyword
    PROVE  Moves
  <1> DEFINE a == IF LineEnds THEN parser ELSE consume(parser, program)
             q == endMode(a)
             n == Len(parser.st)
  <1>1. /\ pc = "directive" /\ pc' = "line" /\ parser' = q /\ back' = back
    BY DEF Keyword, Inner
  <1>2. InDirective(parser)
    BY <1>1 DEF Sound, At
  <1>3. Grows(program, parser, a) /\ Framed(parser, a) /\ Ready(program, a)
    <2>1. CASE LineEnds
      <3>1. a = parser /\ Takes(program, parser, parser)
        BY <1>1, <2>1, InnerFacts, TakesNone
      <3> QED BY <1>1, <3>1, InnerFacts, TakesGrows, TakesFramed
    <2>2. CASE ~ LineEnds
      <3>1. LA(parser, program) # "EOF"
        BY <2>2 DEF LineEnds, Next2
      <3> QED BY <1>1, <2>2, <3>1, InnerFacts, ConsumeReady
    <2> QED BY <2>1, <2>2
  <1> HIDE DEF a
  <1>4. /\ Len(a.st) = n /\ n \in Nat /\ n >= 4 /\ a.st[n].flag = "none"
        /\ a.st[n - 1].flag = "PREPROC" /\ a.st[n - 2].flag = "PARSE_EOL"
    <2>1. n \in Nat /\ n >= 4
      BY <1>1, <1>2, InnerFacts DEF InDirective
    <2>2. n \in 1..n /\ n - 1 \in 1..n /\ n - 2 \in 1..n
      BY <2>1
    <2> QED BY <1>2, <1>3, <2>1, <2>2 DEF Framed, SameModes, InDirective
  <1>5. Good(program, a) /\ CanEnd(a)
    <2>1. Good(program, a)
      BY <1>3 DEF Grows
    <2>2. a.st # << >>
      BY <1>1, <1>4, <2>1, InnerFacts, InMode
    <2>3. Last(a.st).flag = "none"
      BY <1>4 DEF Last
    <2> QED BY <2>1, <2>2, <2>3 DEF CanEnd
  <1>6. Still(program, a, q) /\ Popped(a, q, 1)
    BY <1>1, <1>4, <1>5, InnerFacts, EndModeKeeps
  <1> HIDE DEF q
  <1>7. Grows(program, parser, q)
    <2>1. Grows(program, a, q)
      BY <1>1, <1>5, <1>6, InnerFacts, QuietGrows DEF Still
    <2> QED BY <1>1, <1>3, <2>1, InnerFacts, GrowsTwice
  <1>8. InLine(q)
    <2>1. Len(q.st) = n - 1 /\ n - 1 \in 1..(n - 1) /\ n - 2 \in 1..(n - 1)
          /\ (n - 1) - 1 = n - 2 /\ n - 1 >= 3
      BY <1>4, <1>6 DEF Popped
    <2>2. q.st[n - 1].flag = "PREPROC" /\ q.st[n - 2].flag = "PARSE_EOL"
      BY <1>4, <1>6, <2>1 DEF Popped
    <2>3. q.using = "pre" /\ q.inskip /\ ~ q.inAttribute
      BY <1>2, <1>3, <1>6 DEF Framed, Still, Quiet, InDirective
    <2> QED BY <2>1, <2>2, <2>3 DEF InLine
  <1>9. Ready(program, q)
    BY <1>3, <1>6, ReadyStill DEF Still, Quiet
  <1> QED BY <1>1, <1>7, <1>8, <1>9, InnerFacts DEF Moves, At

LEMMA LineTokenMoves ==
    ASSUME Sound, NEW e \in Elements \cup {"none"}, LineToken(e)
    PROVE  Moves
  <1> DEFINE q == TakeToken(parser, e)
             n == Len(parser.st)
  <1>1. /\ pc = "line" /\ pc' = "line" /\ parser' = q /\ back' = back
        /\ LA(parser, program) # "EOF"
    BY DEF LineToken, Inner, LineEnds, Next2
  <1>2. InLine(parser)
    BY <1>1 DEF Sound, At
  <1>3. Grows(program, parser, q) /\ Framed(parser, q) /\ Ready(program, q)
    BY <1>1, InnerFacts, TakeTokenGrows
  <1> HIDE DEF q
  <1>4. InLine(q)
    <2>1. n \in Nat /\ n >= 3
      BY <1>1, <1>2, InnerFacts DEF InLine
    <2>2. n \in 1..n /\ n - 1 \in 1..n
      BY <2>1
    <2> QED BY <1>2, <1>3, <2>1, <2>2 DEF Framed, SameModes, InLine
  <1> QED BY <1>1, <1>3, <1>4, InnerFacts DEF Moves, At

LEMMA AttributeTokenMoves ==
    ASSUME Sound, NEW e \in Elements \cup {"none"}, AttributeToken(e)
    PROVE  Moves
  <1> DEFINE q == TakeToken(parser, e)
  <1>1. /\ pc = "attribute" /\ pc' = "attribute" /\ parser' = q /\ back' = back
        /\ LA(parser, program) # "EOF"
    BY DEF AttributeToken, Inner, Next2
  <1>2. InAttribute(parser)
    BY <1>1 DEF Sound, At
  <1>3. Grows(program, parser, q) /\ Framed(parser, q) /\ Ready(program, q)
    BY <1>1, InnerFacts, TakeTokenGrows
  <1> HIDE DEF q
  <1>4. InAttribute(q)
    BY <1>2, <1>3 DEF Framed, SameModes, InAttribute
  <1> QED BY <1>1, <1>3, <1>4, InnerFacts DEF Moves, At


\* back in the rules, or between them
LEMMA SkippedMoves ==
    ASSUME Sound, NEW p, Grows(program, parser, p), Ready(program, p),
           p.st # << >>, Skipped(p)
    PROVE  Moves
  <1> DEFINE q == Rejoin(p)
  <1>1. Good(program, p) /\ program \in ProgramSet /\ Good(program, parser)
        /\ back \in Backs
    BY DEF Sound, Grows
  <1>2. Grows(program, p, q) /\ InRules(q) /\ q.at = p.at /\ Ready(program, q)
    BY <1>1, RejoinKeeps
  <1>3. Grows(program, parser, q) /\ Good(program, q)
    BY <1>1, <1>2, GrowsTwice DEF Grows
  <1>4. CASE back = "fill"
    <2> DEFINE r == flushSkip(q)
    <2>1. parser' = r /\ pc' = "front" /\ back' = "front"
      BY <1>4 DEF Skipped
    <2> HIDE DEF q
    <2>2. Good(program, r) /\ Waiting(program, r) = Waiting(program, q) /\ SameControl(q, r)
      BY <1>1, <1>3, FlushSkip
    <2> HIDE DEF r
    <2>3. Quiet(program, q, r)
      BY <2>2, SameIsStill DEF Still
    <2>4. Grows(program, parser, r)
      <3>1. Grows(program, q, r)
        BY <1>1, <1>3, <2>3, QuietGrows
      <3> QED BY <1>1, <1>3, <3>1, GrowsTwice
    <2>5. At(program, r, "front")
      BY <1>2, <2>2 DEF At, InRules, Ready, SameControl
    <2> QED BY <2>1, <2>4, <2>5 DEF Moves, Backs
  <1>5. CASE back # "fill"
    <2> DEFINE r == SkipAll(q, program)
    <2>1. GoOn(r, back)
      BY <1>5 DEF Skipped
    <2> HIDE DEF q
    <2>2. Takes(program, q, r) /\ LA(r, program) # "CONTROL_CHAR"
      BY <1>1, <1>3, SkipAllTakes
    <2> HIDE DEF r
    <2>3. Grows(program, parser, r)
      <3>1. Grows(program, q, r)
        BY <2>2, TakesGrows
      <3> QED BY <1>1, <1>3, <3>1, GrowsTwice
    <2>4. InRules(r) /\ Ready(program, r)
      BY <1>2, <2>2 DEF InRules, Ready, Takes
    <2> QED BY <1>1, <1>5, <2>1, <2>3, <2>4, GoOnMoves
  <1> QED BY <1>4, <1>5

LEMMA EndLineMoves ==
    ASSUME Sound, EndLine
    PROVE  Moves
  <1> DEFINE p == EndDirective(parser, program)
             q == SkipBlock(p, program)
  <1>1. pc = "line" /\ (Skipped(p) \/ Skipped(q))
    BY DEF EndLine
  <1>2. InLine(parser)
    BY <1>1 DEF Sound, At
  <1>3. Grows(program, parser, p) /\ Ready(program, p) /\ p.st # << >>
    BY <1>1, <1>2, InnerFacts, EndDirectiveGrows
  <1> HIDE DEF p
  <1>4. Good(program, p)
    BY <1>3 DEF Grows
  <1>5. Grows(program, p, q) /\ Ready(program, q) /\ q.st = p.st
    BY <1>1, <1>3, <1>4, InnerFacts, SkipBlockGrows
  <1> HIDE DEF q
  <1>6. Grows(program, parser, q) /\ q.st # << >>
    BY <1>1, <1>3, <1>5, InnerFacts, GrowsTwice
  <1> QED BY <1>1, <1>3, <1>5, <1>6, SkippedMoves

LEMMA EndAttributeMoves ==
    ASSUME Sound, EndAttribute
    PROVE  Moves
  <1> DEFINE p == endMode(parser)
  <1>1. pc = "attribute" /\ Skipped(p)
    BY DEF EndAttribute
  <1>2. CanEnd(parser)
    BY <1>1, InnerFacts DEF Sound, At, InAttribute, CanEnd
  <1>3. Still(program, parser, p) /\ Len(p.st) > 0
    BY <1>1, <1>2, InnerFacts, EndModeKeeps
  <1> HIDE DEF p
  <1>4. Good(program, p) /\ p.st # << >> /\ Ready(program, p)
    <2>1. Good(program, p)
      BY <1>3 DEF Still, Quiet
    <2>2. p.st # << >>
      BY <1>1, <1>3, <2>1, InnerFacts, InMode
    <2> QED BY <1>1, <1>3, <2>1, <2>2, InnerFacts, ReadyStill DEF Still, Quiet
  <1>5. Grows(program, parser, p)
    BY <1>1, <1>3, InnerFacts, QuietGrows DEF Still
  <1> QED BY <1>1, <1>4, <1>5, SkippedMoves

-----------------------------------------------------------------------------
(* Delivering a token *)

\* what still waits when the first token of tb has been taken from it
LEMMA TailWaits ==
    ASSUME NEW pr \in ProgramSet, NEW p, Good(pr, p), p.out["main"] # << >>,
           p.paused = 0
    PROVE  LET q == [p EXCEPT !.out["main"] = Tail(@)]
               t == Head(p.out["main"])
           IN  /\ Good(pr, q) /\ t \in TokenOf(pr)
               /\ TokenShows(pr, t) \in Seq(Nat)
               /\ Waiting(pr, p) = Then(TokenShows(pr, t), Waiting(pr, q))
               /\ q.out["main"] = Tail(p.out["main"])
               /\ q.st = p.st /\ q.using = p.using /\ q.paused = p.paused
               /\ q.inskip = p.inskip /\ q.inAttribute = p.inAttribute
               /\ q.at = p.at
  <1> DEFINE s == p.out["main"]
             t == Head(s)
             m == Tail(s)
             o == [p.out EXCEPT !["main"] = m]
             q == [p EXCEPT !.out["main"] = Tail(@)]
             T == TokenOf(pr)
             S == [Buffers -> Seq(T)]
             M == Seq([flag : Flags, open : Seq(Name)])
             N == Seq(Name)
             P == [st : M, out : S, skip : S,
                   using : Buffers, inskip : BOOLEAN, inAttribute : BOOLEAN,
                   paused : Nat, comments : N, at : Nat \ {0}]
             w == Tokens(pr, s)
             x == TokenShows(pr, t)
             y == Tokens(pr, m)
             a == Tokens(pr, p.skip["main"])
             b == Tokens(pr, p.out["pre"])
             c == Tokens(pr, p.skip["pre"])
  <1>1. p \in P /\ s \in Seq(T) /\ p.out \in S
    BY BufferTypes DEF Parser
  <1>2. t \in T /\ m \in Seq(T)
    BY <1>1
  <1>3. o \in S /\ o["main"] = m /\ o["pre"] = p.out["pre"]
    <2>1. "main" \in Buffers /\ "pre" \in Buffers
      BY DEF Buffers
    <2> HIDE DEF m, T
    <2> QED BY <1>1, <1>2, <2>1
  <1>4. q = [p EXCEPT !.out = o]
    <2> HIDE DEF T, M, N, S
    <2> QED BY <1>1
  <1>5. q \in P
    <2> HIDE DEF o, M, N, S, q
    <2> QED BY <1>1, <1>3, <1>4
  <1>6. /\ q.out = o /\ q.skip = p.skip /\ q.st = p.st /\ q.using = p.using
        /\ q.paused = p.paused /\ q.inskip = p.inskip
        /\ q.inAttribute = p.inAttribute /\ q.at = p.at
    <2> HIDE DEF o, M, N, S, q
    <2> QED BY <1>1, <1>4
  <1>7. Good(pr, q)
    <2>1. q \in Parser(pr)
      BY <1>5 DEF Parser
    <2> HIDE DEF o, q, P
    <2> QED BY <1>3, <1>6, <2>1 DEF Good
  <1> HIDE DEF q, o, P, M, N, S
  <1>8. x \in Seq(Nat) /\ w = Then(x, y) /\ y \in Seq(Nat)
    <2>1. TokensIn(pr, T)
      BY TokenFacts
    <2>2. x \in Seq(Nat)
      BY <1>2, <2>1 DEF TokensIn
    <2>3. y \in Seq(Nat)
      BY <1>2, <2>1, TokensType
    <2>4. w = x \o y
      BY <1>1, <2>1, TokensTail
    <2> QED BY <2>2, <2>3, <2>4 DEF Then
  <1>9. a \in Seq(Nat) /\ b \in Seq(Nat) /\ c \in Seq(Nat)
    BY WaitingTypes
  <1>10. Waiting(pr, p) = Then(Then(Then(w, a), b), c)
    BY DEF Waiting, Then
  <1>11. Waiting(pr, q) = Then(Then(Then(y, a), b), c)
    BY <1>3, <1>6 DEF Waiting, Then
  <1> HIDE DEF x, y, w, a, b, c
  <1>12. Waiting(pr, p) = Then(x, Waiting(pr, q))
    <2>1. Then(w, a) = Then(x, Then(y, a)) /\ Then(y, a) \in Seq(Nat)
      BY <1>8, <1>9, ThenFacts
    <2>2. Then(Then(w, a), b) = Then(x, Then(Then(y, a), b))
          /\ Then(Then(y, a), b) \in Seq(Nat)
      BY <1>8, <1>9, <2>1, ThenFacts
    <2>3. Then(Then(Then(w, a), b), c) = Then(x, Then(Then(Then(y, a), b), c))
      BY <1>8, <1>9, <2>2, ThenFacts
    <2> QED BY <1>10, <1>11, <2>3
  <1> QED BY <1>2, <1>3, <1>6, <1>7, <1>8, <1>12 DEF x, q


\* The inductive invariant.  The text of the output and of what waits in the
\* parser is that of the program up to the next token; the rest says that the
\* second pair of buffers is only in use in preprocessor lines and attributes,
\* that a pause is at the start tag of a statement, that without positions
\* nothing is queued, and that after the last mode only the end is to come.
IInv ==
    /\ Sound
    /\ position \in BOOLEAN
    /\ Keeps(program, output)
    /\ ~ position => output.tokenQueue = << >>
    /\ Then(OutShows(program, output), Waiting(program, parser))
         = Source(program, parser.at)

LEMMA MovesKeep ==
    ASSUME IInv, Moves, UNCHANGED <<program, position, output>>
    PROVE  IInv'
  <1> DEFINE o == OutShows(program, output)
             w == Waiting(program, parser)
             s == Source(program, parser.at)
             v == Waiting(program, parser')
             r == Source(program, parser'.at)
  <1>1. /\ program \in ProgramSet /\ Good(program, parser) /\ Good(program, parser')
        /\ Keeps(program, output)
    BY DEF IInv, Sound, Moves, Grows
  <1>2. o \in Seq(Nat) /\ w \in Seq(Nat)
    BY <1>1, OutShowsType, WaitingTypes
  <1>3. PICK y \in Seq(Nat) : v = Then(w, y) /\ r = Then(s, y)
    BY DEF Moves, Grows, Carried, Then
  <1>4. Then(o, w) = s
    BY DEF IInv
  <1> HIDE DEF o, w, s, v, r
  <1>5. Then(o, v) = r
    BY <1>2, <1>3, <1>4, ThenFacts
  <1>6. program' = program /\ position' = position /\ output' = output
    OBVIOUS
  <1>7. Sound'
    <2>1. At(program, parser', pc') /\ back' \in Backs
      BY DEF Moves
    <2> QED BY <1>1, <1>6, <2>1 DEF Sound
  <1>8. /\ (position \in BOOLEAN)' /\ Keeps(program, output)'
        /\ (~ position => output.tokenQueue = << >>)'
    BY <1>6 DEF IInv
  <1>9. (Then(OutShows(program, output), Waiting(program, parser))
           = Source(program, parser.at))'
    BY <1>5, <1>6 DEF o, v, r
  <1> QED BY <1>7, <1>8, <1>9 DEF IInv

\* the end of the program shows nothing; all else is like a token of the output
LEMMA HeadLike ==
    ASSUME NEW pr \in ProgramSet, NEW t \in TokenOf(pr)
    PROVE  IF t = Text(Len(pr) + 1) THEN TokenShows(pr, t) = << >>
           ELSE TokenLike(pr, t)
  <1>1. Len(pr) \in Nat
    BY DEF ProgramSet
  <1>2. CASE t = Text(Len(pr) + 1)
    BY <1>1, <1>2 DEF TokenShows, Text
  <1>3. CASE t # Text(Len(pr) + 1)
    <2>1. /\ t \in [tag : {"text", "start", "end", "empty"},
                    type : Name \cup {"text", "CONTROL_CHAR"}, at : Nat]
          /\ t.tag = "text" => t.type = "text" /\ t.at \in 1..(Len(pr) + 1)
          /\ t.type = "CONTROL_CHAR" => t.tag = "empty"
      BY DEF TokenOf
    <2>2. t = [tag |-> t.tag, type |-> t.type, at |-> t.at]
      BY <2>1
    <2>3. t.tag = "text" => t.at # Len(pr) + 1
      BY <1>3, <2>1, <2>2 DEF Text
    <2>4. t.tag = "text" => t.at \in 1..Len(pr)
      BY <1>1, <2>1, <2>3
    <2> QED BY <1>3, <2>1, <2>4 DEF TokenLike
  <1> QED BY <1>2, <1>3

LEMMA DeliverKeeps ==
    ASSUME IInv, Deliver
    PROVE  IInv'
  <1> DEFINE s == parser.out["main"]
             t == Head(s)
             q == [parser EXCEPT !.out["main"] = Tail(@)]
             e == Text(Len(program) + 1)
             x == TokenShows(program, t)
             o == OutShows(program, output)
             u == OutShows(program, output')
             w == Waiting(program, parser)
             v == Waiting(program, q)
  <1>1. /\ pc = "front" /\ s # << >> /\ parser.paused = 0 /\ parser' = q
        /\ back' = back /\ program' = program /\ position' = position
    BY DEF Deliver, tb, Fixed
  <1>2. /\ t = e => output' = TakeEOF(output, program, position) /\ pc' = "done"
        /\ t # e => output' = Take(output, t, program, position) /\ pc' = "front"
    BY DEF Deliver, tb
  <1>3. /\ program \in ProgramSet /\ Good(program, parser)
        /\ At(program, parser, "front") /\ back \in Backs
        /\ position \in BOOLEAN /\ Keeps(program, output)
        /\ ~ position => output.tokenQueue = << >>
        /\ Then(o, w) = Source(program, parser.at)
    BY <1>1 DEF IInv, Sound
  <1>4. /\ Good(program, q) /\ t \in TokenOf(program) /\ x \in Seq(Nat)
        /\ w = Then(x, v) /\ q.out["main"] = Tail(s)
        /\ q.st = parser.st /\ q.using = parser.using /\ q.paused = parser.paused
        /\ q.inskip = parser.inskip /\ q.inAttribute = parser.inAttribute
        /\ q.at = parser.at
    BY <1>1, <1>3, TailWaits
  <1>5. v \in Seq(Nat) /\ o \in Seq(Nat)
    BY <1>3, <1>4, WaitingTypes, OutShowsType
  <1>6. s \in Seq(TokenOf(program))
    BY <1>3, BufferTypes
  <1> HIDE DEF q, e
  <1>7. /\ Keeps(program, output') /\ u = Then(o, x)
        /\ ~ position => output'.tokenQueue = << >>
    <2>1. CASE t = e
      <3>1. x = << >>
        BY <1>3, <1>4, <2>1, HeadLike DEF e
      <3> DEFINE r == TakeEOF(output, program, position)
      <3>2. /\ Keeps(program, r) /\ OutShows(program, r) = OutShows(program, output)
            /\ ~ position => r.tokenQueue = << >>
        BY <1>3, TakeEOFPuts
      <3>3. output' = r
        BY <1>2, <2>1
      <3> HIDE DEF r
      <3>4. Then(o, << >>) = o
        BY <1>5, ThenNothing
      <3> QED BY <3>1, <3>2, <3>3, <3>4
    <2>2. CASE t # e
      <3>1. TokenLike(program, t)
        BY <1>3, <1>4, <2>2, HeadLike DEF e
      <3> DEFINE r == Take(output, t, program, position)
      <3>2. /\ Puts(program, output, r, x)
            /\ ~ position => r.tokenQueue = << >>
        <4> HIDE DEF t
        <4> QED BY <1>3, <3>1, TakePuts
      <3>3. output' = r
        BY <1>2, <2>2
      <3> HIDE DEF r
      <3> QED BY <3>2, <3>3 DEF Puts
    <2> QED BY <2>1, <2>2
  <1>8. Then(u, v) = Source(program, q.at)
    <2> HIDE DEF o, x, u, v, w
    <2> QED BY <1>3, <1>4, <1>5, <1>7, ThenFacts
  <1>9. At(program, q, pc')
    <2>1. q.using = "main" /\ ~ q.inskip /\ ~ q.inAttribute
      BY <1>3, <1>4 DEF At
    <2>2. CASE t = e
      BY <1>2, <2>1, <2>2 DEF At
    <2>3. CASE t # e
      <3>1. CASE q.st # << >>
        BY <1>2, <1>3, <1>4, <2>1, <2>3, <3>1 DEF At
      <3>2. CASE q.st = << >>
        <4>1. Last(s) = e
          BY <1>3, <1>4, <3>2 DEF At, e
        <4> HIDE DEF s
        <4>2. Len(s) \in Nat /\ Len(s) > 1
          BY <1>1, <1>6, <2>3, <4>1 DEF Last
        <4>3. Tail(s) # << >> /\ Last(Tail(s)) = Last(s)
          <5> DEFINE m == Tail(s)
                     n == Len(s)
          <5>1. /\ m \in Seq(TokenOf(program)) /\ Len(m) = n - 1
                /\ \A i \in 1..(n - 1) : m[i] = s[i + 1]
            BY <1>1, <1>6
          <5>2. n \in Nat /\ n > 1 /\ Len(s) = n
            BY <4>2
          <5> HIDE DEF m, n
          <5>3. m # << >> /\ Len(m) \in 1..(n - 1) /\ (n - 1) + 1 = n
            BY <5>1, <5>2
          <5>4. m[n - 1] = s[n]
            BY <5>1, <5>2, <5>3
          <5> QED BY <5>1, <5>2, <5>3, <5>4 DEF Last, m
        <4> QED BY <1>1, <1>2, <1>4, <2>1, <2>3, <3>2, <4>1, <4>3 DEF At, e
      <3> QED BY <3>1, <3>2
    <2> QED BY <2>2, <2>3
  <1>10. Sound'
    BY <1>1, <1>3, <1>4, <1>9 DEF Sound
  <1>11. /\ (position \in BOOLEAN)' /\ Keeps(program, output)'
         /\ (~ position => output.tokenQueue = << >>)'
    BY <1>1, <1>3, <1>7
  <1>12. (Then(OutShows(program, output), Waiting(program, parser))
            = Source(program, parser.at))'
    BY <1>1, <1>8
  <1> QED BY <1>10, <1>11, <1>12 DEF IInv


LEMMA InitKeeps ==
    ASSUME Init
    PROVE  IInv
  <1> DEFINE t == EmptyTag("SUNIT", 0)
             p == NewParser
             e == << >>
             T == TokenOf(program)
             b == << t >>
  <1>1. program \in ProgramSet
    BY ProgramsAssumption DEF Init, ProgramSet
  <1>2. /\ "SUNIT" \in Name /\ t \in T /\ TokenShows(program, t) = << >>
    BY <1>1, TokenFacts DEF Name
  <1>3. /\ parser = p /\ output = NewOutput /\ pc = "front" /\ back = "front"
        /\ position \in BOOLEAN
    BY DEF Init
  <1>4. /\ p.st = << Mode("none", <<"SUNIT">>) >> /\ p.using = "main"
        /\ p.inskip = FALSE /\ p.inAttribute = FALSE /\ p.paused = 0
        /\ p.comments = e /\ p.at = 1
        /\ p.out["main"] = b /\ p.out["pre"] = e
        /\ p.skip["main"] = e /\ p.skip["pre"] = e
    BY DEF NewParser, Buffers
  <1>5. p \in Parser(program)
    <2> DEFINE M == Seq([flag : Flags, open : Seq(Name)])
               S == [Buffers -> Seq(T)]
               N == Seq(Name)
               st == << Mode("none", <<"SUNIT">>) >>
               o == [c \in Buffers |-> IF c = "main" THEN b ELSE e]
               k == [c \in Buffers |-> e]
    <2>1. st \in M
      <3>1. <<"SUNIT">> \in Seq(Name)
        BY <1>2
      <3>2. Mode("none", <<"SUNIT">>) \in [flag : Flags, open : Seq(Name)]
        BY <3>1 DEF Mode, Flags
      <3> QED BY <3>2
    <2>2. b \in Seq(T) /\ e \in Seq(T) /\ e \in N
      <3> HIDE DEF T, t
      <3> QED BY <1>2
    <2>3. o \in S /\ k \in S
      <3> HIDE DEF T, b, e
      <3> QED BY <2>2
    <2>4. p = [st |-> st, out |-> o, skip |-> k, using |-> "main",
               inskip |-> FALSE, inAttribute |-> FALSE, paused |-> 0,
               comments |-> e, at |-> 1]
      BY DEF NewParser
    <2> HIDE DEF st, o, k, p, S, M, N, e
    <2>5. p \in [st : M, out : S, skip : S, using : Buffers, inskip : BOOLEAN,
                 inAttribute : BOOLEAN, paused : Nat, comments : N, at : Nat \ {0}]
      BY <2>1, <2>2, <2>3, <2>4 DEF Buffers
    <2> QED BY <2>5 DEF Parser, S, M, N
  <1>6. Good(program, p)
    BY <1>4, <1>5 DEF Good
  <1>7. At(program, p, "front")
    <2>1. p.st # << >>
      BY <1>4
    <2>2. Len(program) \in Nat
      BY <1>1 DEF ProgramSet
    <2> QED BY <1>4, <2>1, <2>2 DEF At
  <1>8. Waiting(program, p) = e
    <2>1. Tokens(program, e) = e
      BY TokensEmpty
    <2>2. Tokens(program, b) = e
      <3> HIDE DEF T, t
      <3>1. e \in Seq(T) /\ b = Append(e, t)
        OBVIOUS
      <3>2. TokensIn(program, T)
        BY <1>1, TokenFacts DEF T
      <3> HIDE DEF e, b
      <3>3. Tokens(program, b) = Tokens(program, e) \o TokenShows(program, t)
        BY <1>2, <3>1, <3>2, TokensAppend
      <3>4. TokenShows(program, t) = e
        BY <1>2 DEF e
      <3>5. e \o e = e
        BY DEF e
      <3> QED BY <2>1, <3>3, <3>4, <3>5
    <2>3. e \o e = e
      OBVIOUS
    <2> HIDE DEF e, b, p
    <2> QED BY <1>4, <2>1, <2>2, <2>3 DEF Waiting
  <1>9. Source(program, 1) = e
    <2>1. Len(program) \in Nat
      BY <1>1 DEF ProgramSet
    <2>2. (IF 1 - 1 <= Len(program) THEN 1 - 1 ELSE Len(program)) = 0
      BY <2>1
    <2>3. [i \in 1..0 |-> ProgramShows(program, i)] = << >>
      OBVIOUS
    <2> QED BY <2>2, <2>3, FlattenEmpty DEF Source
  <1> HIDE DEF p
  <1>10. /\ Keeps(program, output) /\ OutShows(program, output) = e
         /\ output.tokenQueue = << >>
    BY <1>3, NewOutputKeeps
  <1>11. Then(e, e) = e
    BY DEF Then
  <1>12. Sound
    BY <1>1, <1>3, <1>6, <1>7 DEF Sound, Backs
  <1> HIDE DEF e
  <1> QED BY <1>3, <1>4, <1>8, <1>9, <1>10, <1>11, <1>12 DEF IInv

\* the invariant is the property of the runs, with its brackets in place
LEMMA IInvSourceKept ==
    ASSUME IInv
    PROVE  SourceKept
  <1> DEFINE a == Pieces(output.xml)
             b == Tokens(program, output.tokenQueue)
             c == Tokens(program, parser.out["main"])
             d == Tokens(program, parser.skip["main"])
             e == Tokens(program, parser.out["pre"])
             f == Tokens(program, parser.skip["pre"])
             n == Len(program)
             k == parser.at - 1
             m == IF k <= n THEN k ELSE n
             s == Source(program, parser.at)
  <1>1. /\ program \in ProgramSet /\ Good(program, parser) /\ Keeps(program, output)
        /\ Then(Then(a, b), Waiting(program, parser)) = s
    BY DEF IInv, Sound, OutShows
  <1>2. /\ a \in Seq(Nat) /\ b \in Seq(Nat) /\ c \in Seq(Nat) /\ d \in Seq(Nat)
        /\ e \in Seq(Nat) /\ f \in Seq(Nat)
    BY <1>1, OutShowsType, WaitingTypes
  <1>3. Waiting(program, parser) = Then(Then(Then(c, d), e), f)
    BY DEF Waiting, Then
  <1>4. /\ Shown(OfPiece, output.xml) = a
        /\ Shown(OfToken, output.tokenQueue) = b
        /\ Shown(OfToken, tb) = c /\ Shown(OfToken, parser.skip["main"]) = d
        /\ Shown(OfToken, parser.out["pre"]) = e
        /\ Shown(OfToken, parser.skip["pre"]) = f
    BY DEF Shown, OfPiece, OfToken, HasText, Pieces, PieceShows, Tokens,
           TokenShows, tb
  <1>5. Shown(OfProgram, [i \in 1..Min({k, n}) |-> i]) = s
    <2>1. n \in Nat /\ k \in Nat
      <3>1. parser.at \in Nat \ {0}
        BY <1>1, ModeTypes
      <3> QED BY <1>1, <3>1 DEF ProgramSet
    <2>2. Min({k, n}) = m
      <3>1. m \in {k, n} /\ \A y \in {k, n} : m <= y
        BY <2>1
      <3>2. \A x \in {k, n} : (\A y \in {k, n} : x <= y) => x = m
        BY <2>1
      <3> HIDE DEF m
      <3> QED BY <3>1, <3>2 DEF Min
    <2>3. m \in Nat
      BY <2>1
    <2>4. Source(program, parser.at) = FlattenSeq([i \in 1..m |-> ProgramShows(program, i)])
      BY DEF Source
    <2> HIDE DEF m
    <2>5. \A i \in 1..m : OfProgram(i) = ProgramShows(program, i)
      BY DEF OfProgram, ProgramShows, HasText
    <2> DEFINE v == [i \in 1..m |-> i]
    <2>6. [i \in DOMAIN v |-> OfProgram(v[i])] = [i \in 1..m |-> ProgramShows(program, i)]
      BY <2>5
    <2> QED BY <2>2, <2>4, <2>6 DEF Shown
  <1> HIDE DEF a, b, c, d, e, f, s
  <1>6. Then(Then(Then(Then(Then(a, b), c), d), e), f) = s
    <2> DEFINE u == Then(a, b)
    <2>1. u \in Seq(Nat)
      BY <1>2, ThenFacts
    <2>2. Then(u, Then(Then(Then(c, d), e), f)) = s
      BY <1>1, <1>3
    <2> HIDE DEF u
    <2>3. /\ Then(c, d) \in Seq(Nat) /\ Then(Then(c, d), e) \in Seq(Nat)
      BY <1>2, ThenFacts
    <2>4. Then(u, Then(Then(Then(c, d), e), f)) = Then(Then(u, Then(Then(c, d), e)), f)
      BY <1>2, <2>1, <2>3, ThenFacts
    <2>5. Then(u, Then(Then(c, d), e)) = Then(Then(u, Then(c, d)), e)
      BY <1>2, <2>1, <2>3, ThenFacts
    <2>6. Then(u, Then(c, d)) = Then(Then(u, c), d)
      BY <1>2, <2>1, ThenFacts
    <2> QED BY <2>2, <2>4, <2>5, <2>6 DEF u
  <1>7. a \o b \o c \o d \o e \o f = s
    BY <1>6 DEF Then
  <1> QED BY <1>4, <1>5, <1>7 DEF SourceKept, k, n

LEMMA NextKeeps ==
    ASSUME IInv, [Next]_vars
    PROVE  IInv'
  <1>0. Sound
    BY DEF IInv
  <1>1. CASE Deliver
    BY <1>1, DeliverKeeps
  <1>2. CASE UNCHANGED vars
    <2>1. /\ program' = program /\ position' = position /\ parser' = parser
          /\ output' = output /\ pc' = pc /\ back' = back
      BY <1>2 DEF vars
    <2> QED BY <2>1 DEF IInv, Sound
  <1>3. CASE Fill
    <2>1. UNCHANGED <<program, position, output>>
      BY <1>3 DEF Fill, Fixed
    <2> QED BY <1>0, <1>3, <2>1, FillMoves, MovesKeep
  <1>4. ASSUME NEW flag \in {"none", "INCLUDE_ATTRIBUTE", "TOP", "TOP_SECTION"},
               StartMode(flag)
        PROVE  IInv'
    <2>1. UNCHANGED <<program, position, output>>
      BY <1>4 DEF StartMode, InRule, Fixed
    <2> QED BY <1>0, <1>4, <2>1, StartModeMoves, MovesKeep
  <1>5. ASSUME NEW e \in Elements, StartElement(e)
        PROVE  IInv'
    <2>1. UNCHANGED <<program, position, output>>
      BY <1>5 DEF StartElement, InRule, Fixed
    <2> QED BY <1>0, <1>5, <2>1, StartElementMoves, MovesKeep
  <1>6. ASSUME NEW e \in Elements, StartNoSkipElement(e)
        PROVE  IInv'
    <2>1. UNCHANGED <<program, position, output>>
      BY <1>6 DEF StartNoSkipElement, InRule, Fixed
    <2> QED BY <1>0, <1>6, <2>1, StartNoSkipElementMoves, MovesKeep
  <1>7. ASSUME NEW e \in Elements, EmptyElement(e)
        PROVE  IInv'
    <2>1. UNCHANGED <<program, position, output>>
      BY <1>7 DEF EmptyElement, InRule, Fixed
    <2> QED BY <1>0, <1>7, <2>1, EmptyElementMoves, MovesKeep
  <1>8. CASE EndElement
    <2>1. UNCHANGED <<program, position, output>>
      BY <1>8 DEF EndElement, InRule, Fixed
    <2> QED BY <1>0, <1>8, <2>1, EndElementMoves, MovesKeep
  <1>9. CASE EndMode
    <2>1. UNCHANGED <<program, position, output>>
      BY <1>9 DEF EndMode, InRule, Fixed
    <2> QED BY <1>0, <1>9, <2>1, EndModeMoves, MovesKeep
  <1>10. CASE StartStatement
    <2>1. UNCHANGED <<program, position, output>>
      BY <1>10 DEF StartStatement, InRule, Fixed
    <2> QED BY <1>0, <1>10, <2>1, StartStatementMoves, MovesKeep
  <1>11. CASE Terminate
    <2>1. UNCHANGED <<program, position, output>>
      BY <1>11 DEF Terminate, Fixed
    <2> QED BY <1>0, <1>11, <2>1, TerminateMoves, MovesKeep
  <1>12. CASE EndBlock
    <2>1. UNCHANGED <<program, position, output>>
      BY <1>12 DEF EndBlock, InRule, Fixed
    <2> QED BY <1>0, <1>12, <2>1, EndBlockMoves, MovesKeep
  <1>13. CASE Consume
    <2>1. UNCHANGED <<program, position, output>>
      BY <1>13 DEF Consume, Fixed
    <2> QED BY <1>0, <1>13, <2>1, ConsumeActionMoves, MovesKeep
  <1>14. CASE EndOfFile
    <2>1. UNCHANGED <<program, position, output>>
      BY <1>14 DEF EndOfFile, Fixed
    <2> QED BY <1>0, <1>14, <2>1, EndOfFileMoves, MovesKeep
  <1>15. CASE Return
    <2>1. UNCHANGED <<program, position, output>>
      BY <1>15 DEF Return, Fixed
    <2> QED BY <1>0, <1>15, <2>1, ReturnMoves, MovesKeep
  <1>16. CASE Keyword
    <2>1. UNCHANGED <<program, position, output>>
      BY <1>16 DEF Keyword, Inner, Fixed
    <2> QED BY <1>0, <1>16, <2>1, KeywordMoves, MovesKeep
  <1>17. ASSUME NEW e \in Elements \cup {"none"}, LineToken(e)
         PROVE  IInv'
    <2>1. UNCHANGED <<program, position, output>>
      BY <1>17 DEF LineToken, Inner, Fixed
    <2> QED BY <1>0, <1>17, <2>1, LineTokenMoves, MovesKeep
  <1>18. ASSUME NEW e \in Elements \cup {"none"}, AttributeToken(e)
         PROVE  IInv'
    <2>1. UNCHANGED <<program, position, output>>
      BY <1>18 DEF AttributeToken, Inner, Fixed
    <2> QED BY <1>0, <1>18, <2>1, AttributeTokenMoves, MovesKeep
  <1>19. CASE EndLine
    <2>1. UNCHANGED <<program, position, output>>
      BY <1>19 DEF EndLine, Skipped, Fixed
    <2> QED BY <1>0, <1>19, <2>1, EndLineMoves, MovesKeep
  <1>20. CASE EndAttribute
    <2>1. UNCHANGED <<program, position, output>>
      BY <1>20 DEF EndAttribute, Skipped, Fixed
    <2> QED BY <1>0, <1>20, <2>1, EndAttributeMoves, MovesKeep
  <1>21. CASE Done
    BY <1>2, <1>21 DEF Done
  <1> QED
    BY <1>1, <1>2, <1>3, <1>4, <1>5, <1>6, <1>7, <1>8, <1>9, <1>10, <1>11,
       <1>12, <1>13, <1>14, <1>15, <1>16, <1>17, <1>18, <1>19, <1>20, <1>21
    DEF Next

\* The text of every unit is the text of its program: whatever calls the rules
\* of the grammar make, in whatever order, for programs and stacks of any size
\* and with positions or without, what is written, what waits in the queue of
\* the output and what waits in the four buffers of the parser is, in this
\* order, the text of the tokens taken from the lexer so far.
THEOREM TextKept == Spec => []SourceKept
  <1>1. Init => IInv
    BY InitKeeps
  <1>2. IInv /\ [Next]_vars => IInv'
    BY NextKeeps
  <1>3. IInv => SourceKept
    BY IInvSourceKept
  <1> QED BY <1>1, <1>2, <1>3, PTL DEF Spec
=============================================================================

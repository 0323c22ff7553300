------------------------- MODULE OffSideRule_proofs -------------------------
(***************************************************************************)
(* What OffSideRule returns, for every program: each token once and in     *)
(* order, and INDENT and DEDENT tokens that are balanced.  Tokens wait in  *)
(* two buffers, in opposite orders, so that the invariant is about what is *)
(* returned and held together.                                             *)
(***************************************************************************)
EXTENDS OffSideRule, SequenceFacts, TLAPS

-----------------------------------------------------------------------------
(* Those of a sequence that are in a set *)

Shown(ps) == [x \in Nat |-> IF x \in ps THEN <<x>> ELSE << >>]

LEMMA ShownSpreads ==
    ASSUME NEW ps
    PROVE  Spreads(Shown(ps), Nat, Nat \cap ps)
  <1>1. SUFFICES ASSUME NEW x \in Nat
                 PROVE  Shown(ps)[x] \in Seq(Nat \cap ps)
    BY DEF Spreads
  <1>2. Shown(ps)[x] = IF x \in ps THEN <<x>> ELSE << >>
    BY DEF Shown
  <1>3. << >> \in Seq(Nat \cap ps) /\ (x \in ps => <<x>> \in Seq(Nat \cap ps))
    OBVIOUS
  <1> QED BY <1>2, <1>3

LEMMA ThoseSpread ==
    ASSUME NEW ps, NEW s \in Seq(Nat)
    PROVE  Those(s, ps) = Spread(Shown(ps), s)
  <1>1. \A i \in DOMAIN s : s[i] \in Nat
    OBVIOUS
  <1>2. \A i \in DOMAIN s : Shown(ps)[s[i]] = IF s[i] \in ps THEN <<s[i]>> ELSE << >>
    BY <1>1 DEF Shown
  <1>3. [i \in DOMAIN s |-> Shown(ps)[s[i]]]
        = [i \in DOMAIN s |-> IF s[i] \in ps THEN <<s[i]>> ELSE << >>]
    BY <1>2, Zenon
  <1> QED BY <1>3, Zenon DEF Those, Spread

LEMMA ThoseType ==
    ASSUME NEW ps, NEW s \in Seq(Nat)
    PROVE  /\ Those(s, ps) \in Seq(Nat \cap ps)
           /\ Those(s, ps) \in Seq(Nat)
           /\ Len(Those(s, ps)) \in Nat
  <1>1. Those(s, ps) \in Seq(Nat \cap ps)
    <2> DEFINE F == Shown(ps)
               X == Nat \cap ps
    <2>1. Spreads(F, Nat, X) /\ Those(s, ps) = Spread(F, s)
      BY ThoseSpread, ShownSpreads
    <2> HIDE DEF F, X
    <2>2. Spread(F, s) \in Seq(X)
      BY <2>1, SpreadType
    <2>3. Those(s, ps) \in Seq(X)
      BY <2>1, <2>2
    <2> QED BY <2>3 DEF X
  <1>2. Those(s, ps) \in Seq(Nat)
    <2> DEFINE t == Those(s, ps)
    <2>1. t \in Seq(Nat \cap ps)
      BY <1>1
    <2> HIDE DEF t
    <2>2. t \in Seq(Nat)
      BY <2>1
    <2> QED BY <2>2 DEF t
  <1>3. Len(Those(s, ps)) \in Nat
    BY <1>2, LenProperties
  <1> QED BY <1>1, <1>2, <1>3

LEMMA ThoseConcat ==
    ASSUME NEW ps, NEW s \in Seq(Nat), NEW t \in Seq(Nat)
    PROVE  /\ Those(s \o t, ps) = Those(s, ps) \o Those(t, ps)
           /\ Len(Those(s \o t, ps)) = Len(Those(s, ps)) + Len(Those(t, ps))
  <1>1. s \o t \in Seq(Nat)
    OBVIOUS
  <1>2. Spread(Shown(ps), s \o t) = Spread(Shown(ps), s) \o Spread(Shown(ps), t)
    <2> DEFINE F == Shown(ps)
               X == Nat \cap ps
    <2>1. Spreads(F, Nat, X)
      BY ShownSpreads
    <2> HIDE DEF F, X
    <2>2. Spread(F, s \o t) = Spread(F, s) \o Spread(F, t)
      BY <2>1, SpreadConcat
    <2> QED BY <2>2 DEF F
  <1>3. Those(s \o t, ps) = Those(s, ps) \o Those(t, ps)
    BY <1>1, <1>2, ThoseSpread, Zenon
  <1>4. Those(s, ps) \in Seq(Nat) /\ Those(t, ps) \in Seq(Nat)
    BY ThoseType
  <1>5. Len(Those(s, ps) \o Those(t, ps)) = Len(Those(s, ps)) + Len(Those(t, ps))
    BY <1>4, ConcatProperties
  <1> QED BY <1>3, <1>5

LEMMA ThoseOne ==
    ASSUME NEW ps, NEW x \in Nat
    PROVE  Those(<<x>>, ps) = IF x \in ps THEN <<x>> ELSE << >>
  <1>1. <<x>> \in Seq(Nat)
    OBVIOUS
  <1>2. Those(<<x>>, ps) = Spread(Shown(ps), <<x>>)
    BY <1>1, ThoseSpread
  <1>3. Spread(Shown(ps), <<x>>) = Shown(ps)[x]
    BY SpreadOne
  <1>4. Shown(ps)[x] = IF x \in ps THEN <<x>> ELSE << >>
    BY DEF Shown
  <1> QED BY <1>2, <1>3, <1>4

LEMMA ThoseNone ==
    ASSUME NEW ps
    PROVE  Those(<< >>, ps) = << >>
  <1>1. [i \in DOMAIN << >> |-> IF << >>[i] \in ps THEN <<<< >>[i]>> ELSE << >>] = << >>
    OBVIOUS
  <1> QED BY <1>1, FlattenEmpty DEF Those

LEMMA ThoseSame ==
    ASSUME NEW ps, NEW qs, NEW s \in Seq(Nat),
           \A i \in 1..Len(s) : s[i] \in ps <=> s[i] \in qs
    PROVE  Those(s, ps) = Those(s, qs)
  <1>1. DOMAIN s = 1..Len(s)
    OBVIOUS
  <1>2. [i \in DOMAIN s |-> IF s[i] \in ps THEN <<s[i]>> ELSE << >>]
        = [i \in DOMAIN s |-> IF s[i] \in qs THEN <<s[i]>> ELSE << >>]
    BY <1>1, Zenon
  <1> QED BY <1>2, Zenon DEF Those

LEMMA ThoseOfNone ==
    ASSUME NEW s \in Seq(Nat)
    PROVE  Those(s, {}) = << >>
  <1> DEFINE T == {n \in Nat : \A t \in Seq(Nat) : Len(t) = n => Those(t, {}) = << >>}
  <1>1. 0 \in T
    <2>1. \A t \in Seq(Nat) : Len(t) = 0 => t = << >>
      OBVIOUS
    <2> QED BY <2>1, ThoseNone
  <1>2. ASSUME NEW n \in T PROVE n + 1 \in T
    <2>0. n \in Nat /\ \A t \in Seq(Nat) : Len(t) = n => Those(t, {}) = << >>
      OBVIOUS
    <2> HIDE DEF T
    <2> SUFFICES ASSUME NEW t \in Seq(Nat), Len(t) = n + 1
                 PROVE  Those(t, {}) = << >>
      BY <2>0 DEF T
    <2> DEFINE u == Front(t)
               x == Last(t)
    <2>2. u \in Seq(Nat) /\ x \in Nat /\ Len(u) = n /\ t = u \o <<x>> /\ <<x>> \in Seq(Nat)
      BY <2>0 DEF Front, Last
    <2> HIDE DEF u, x
    <2>3. Those(u, {}) = << >>
      BY <2>0, <2>2
    <2>4. Those(<<x>>, {}) = << >>
      BY <2>2, ThoseOne
    <2>5. Those(u \o <<x>>, {}) = Those(u, {}) \o Those(<<x>>, {})
      BY <2>2, ThoseConcat
    <2> QED BY <2>2, <2>3, <2>4, <2>5
  <1> HIDE DEF T
  <1>3. \A n \in Nat : n \in T
    <2>1. T \in SUBSET Nat
      BY DEF T
    <2> QED BY <1>1, <1>2, <2>1, Induct
  <1>4. Len(s) \in T
    BY <1>3, LenProperties
  <1> QED BY <1>4 DEF T

LEMMA ThoseAway ==
    ASSUME NEW ps, NEW s \in Seq(Nat), \A i \in 1..Len(s) : s[i] \notin ps
    PROVE  Those(s, ps) = << >>
  <1>1. \A i \in 1..Len(s) : s[i] \in ps <=> s[i] \in {}
    OBVIOUS
  <1>2. Those(s, ps) = Those(s, {})
    BY <1>1, ThoseSame
  <1> QED BY <1>2, ThoseOfNone

-----------------------------------------------------------------------------
(* DEDENT tokens *)

Dedents(n) == [i \in 1..n |-> DEDENT]

LEMMA DedentsFacts ==
    ASSUME NEW n \in Nat
    PROVE  /\ Dedents(n) \in Seq(Nat) /\ Len(Dedents(n)) = n
           /\ \A i \in 1..n : Dedents(n)[i] = DEDENT
  BY DEF Dedents, DEDENT

LEMMA DedentsAll ==
    ASSUME NEW n \in Nat
    PROVE  Len(Those(Dedents(n), {DEDENT})) = n
  <1> DEFINE T == {m \in Nat : Len(Those(Dedents(m), {DEDENT})) = m}
  <1>1. 0 \in T
    <2>1. Dedents(0) = << >>
      BY DEF Dedents
    <2> QED BY <2>1, ThoseNone
  <1>2. ASSUME NEW m \in T PROVE m + 1 \in T
    <2>1. m \in Nat /\ Len(Those(Dedents(m), {DEDENT})) = m
      OBVIOUS
    <2> HIDE DEF T
    <2>2. Dedents(m + 1) = Dedents(m) \o <<DEDENT>>
      BY <2>1 DEF Dedents
    <2>3. Dedents(m) \in Seq(Nat) /\ <<DEDENT>> \in Seq(Nat)
      BY <2>1, DedentsFacts DEF DEDENT
    <2>4. Len(Those(Dedents(m) \o <<DEDENT>>, {DEDENT}))
          = Len(Those(Dedents(m), {DEDENT})) + Len(Those(<<DEDENT>>, {DEDENT}))
      BY <2>3, ThoseConcat
    <2>5. Those(<<DEDENT>>, {DEDENT}) = <<DEDENT>>
      BY ThoseOne DEF DEDENT
    <2>6. Len(<<DEDENT>>) = 1
      OBVIOUS
    <2>7. Len(Those(Dedents(m + 1), {DEDENT})) = m + 1
      BY <2>1, <2>2, <2>4, <2>5, <2>6
    <2> QED BY <2>1, <2>7 DEF T
  <1> HIDE DEF T
  <1>3. \A m \in Nat : m \in T
    <2>1. T \in SUBSET Nat
      BY DEF T
    <2> QED BY <1>1, <1>2, <2>1, Induct
  <1> QED BY <1>3 DEF T

LEMMA DedentsAway ==
    ASSUME NEW n \in Nat, NEW ps, DEDENT \notin ps
    PROVE  Those(Dedents(n), ps) = << >>
  <1>1. Dedents(n) \in Seq(Nat) /\ \A i \in 1..Len(Dedents(n)) : Dedents(n)[i] \notin ps
    BY DedentsFacts
  <1> QED BY <1>1, ThoseAway

LEMMA DedentsReverse ==
    ASSUME NEW n \in Nat
    PROVE  Reverse(Dedents(n)) = Dedents(n)
  <1>1. Len(Dedents(n)) = n /\ \A i \in 1..n : Dedents(n)[i] = DEDENT
    BY DedentsFacts
  <1>2. \A i \in 1..n : (n - i) + 1 \in 1..n
    OBVIOUS
  <1>3. Reverse(Dedents(n)) = [i \in 1..n |-> Dedents(n)[(n - i) + 1]]
    BY <1>1 DEF Reverse
  <1>4. \A i \in 1..n : Dedents(n)[(n - i) + 1] = DEDENT
    BY <1>1, <1>2
  <1> QED BY <1>3, <1>4 DEF Dedents

-----------------------------------------------------------------------------
(* Reversed sequences *)

LEMMA ReverseType ==
    ASSUME NEW S, NEW s \in Seq(S)
    PROVE  /\ Reverse(s) \in Seq(S) /\ Len(Reverse(s)) = Len(s)
           /\ \A i \in 1..Len(s) : Reverse(s)[i] = s[(Len(s) - i) + 1]
  <1>1. \A i \in 1..Len(s) : (Len(s) - i) + 1 \in 1..Len(s)
    OBVIOUS
  <1> QED BY <1>1 DEF Reverse

LEMMA ReverseConcat ==
    ASSUME NEW S, NEW s \in Seq(S), NEW t \in Seq(S)
    PROVE  Reverse(s \o t) = Reverse(t) \o Reverse(s)
  <1> DEFINE u == s \o t
             a == Reverse(t)
             b == Reverse(s)
             c == Reverse(u)
  <1>1. /\ u \in Seq(S) /\ Len(u) = Len(s) + Len(t)
        /\ \A i \in 1..Len(s) : u[i] = s[i]
        /\ \A i \in 1..Len(t) : u[Len(s) + i] = t[i]
        /\ Len(s) \in Nat /\ Len(t) \in Nat
    OBVIOUS
  <1>2. /\ a \in Seq(S) /\ Len(a) = Len(t)
        /\ \A i \in 1..Len(t) : a[i] = t[(Len(t) - i) + 1]
    BY ReverseType
  <1>3. /\ b \in Seq(S) /\ Len(b) = Len(s)
        /\ \A i \in 1..Len(s) : b[i] = s[(Len(s) - i) + 1]
    BY ReverseType
  <1>4. /\ c \in Seq(S) /\ Len(c) = Len(u)
        /\ \A i \in 1..Len(u) : c[i] = u[(Len(u) - i) + 1]
    BY <1>1, ReverseType
  <1> HIDE DEF u, a, b, c
  <1>5. \A i \in 1..Len(a) : c[i] = a[i]
    <2>1. SUFFICES ASSUME NEW i \in 1..Len(a) PROVE c[i] = a[i]
      OBVIOUS
    <2>2. i \in 1..Len(t) /\ i \in 1..Len(u) /\ (Len(t) - i) + 1 \in 1..Len(t)
      BY <1>1, <1>2
    <2>3. (Len(u) - i) + 1 = Len(s) + ((Len(t) - i) + 1)
      BY <1>1, <2>2
    <2> QED BY <1>1, <1>2, <1>4, <2>2, <2>3
  <1>6. \A i \in 1..Len(b) : c[Len(a) + i] = b[i]
    <2>1. SUFFICES ASSUME NEW i \in 1..Len(b) PROVE c[Len(a) + i] = b[i]
      OBVIOUS
    <2>2. /\ i \in 1..Len(s) /\ Len(a) + i \in 1..Len(u)
          /\ (Len(s) - i) + 1 \in 1..Len(s)
      BY <1>1, <1>2, <1>3
    <2>3. (Len(u) - (Len(a) + i)) + 1 = (Len(s) - i) + 1
      BY <1>1, <1>2, <2>2
    <2> QED BY <1>1, <1>3, <1>4, <2>2, <2>3
  <1>7. Len(c) = Len(a) + Len(b)
    BY <1>1, <1>2, <1>3, <1>4
  <1>8. c = a \o b
    BY <1>2, <1>3, <1>4, <1>5, <1>6, <1>7, ConcatOf
  <1> QED BY <1>8 DEF a, b, c, u

LEMMA ReverseOne ==
    ASSUME NEW x
    PROVE  Reverse(<<x>>) = <<x>>
  BY DEF Reverse

LEMMA ReverseNone == Reverse(<< >>) = << >>
  BY DEF Reverse

LEMMA ReverseTwice ==
    ASSUME NEW S, NEW s \in Seq(S)
    PROVE  Reverse(Reverse(s)) = s
  <1> DEFINE r == Reverse(s)
  <1>1. /\ r \in Seq(S) /\ Len(r) = Len(s) /\ Len(s) \in Nat
        /\ \A i \in 1..Len(s) : r[i] = s[(Len(s) - i) + 1]
    BY ReverseType
  <1> HIDE DEF r
  <1>2. /\ Reverse(r) \in Seq(S) /\ Len(Reverse(r)) = Len(s)
        /\ \A i \in 1..Len(s) : Reverse(r)[i] = r[(Len(s) - i) + 1]
    BY <1>1, ReverseType
  <1>3. \A i \in 1..Len(s) : /\ (Len(s) - i) + 1 \in 1..Len(s)
                             /\ (Len(s) - ((Len(s) - i) + 1)) + 1 = i
    BY <1>1
  <1>4. \A i \in 1..Len(s) : Reverse(r)[i] = s[i]
    BY <1>1, <1>2, <1>3
  <1>5. Reverse(r) = s
    BY <1>1, <1>2, <1>4, SeqEqual
  <1> QED BY <1>5 DEF r

-----------------------------------------------------------------------------
(* How many blocks are open after a sequence, where ps are the indents *)

Height(s, ps) == Len(Those(s, ps)) - Len(Those(s, {DEDENT}))

\* at no point of s have more blocks ended than have begun, d before it
Nests(s, ps, d) ==
    \A n \in 0..Len(s) : d + Height(SubSeq(s, 1, n), ps) >= 0

LEMMA HeightType ==
    ASSUME NEW ps, NEW s \in Seq(Nat)
    PROVE  Height(s, ps) \in Int
  <1>1. Len(Those(s, ps)) \in Nat /\ Len(Those(s, {DEDENT})) \in Nat
    BY ThoseType
  <1> QED BY <1>1 DEF Height

LEMMA HeightConcat ==
    ASSUME NEW ps, NEW s \in Seq(Nat), NEW t \in Seq(Nat)
    PROVE  Height(s \o t, ps) = Height(s, ps) + Height(t, ps)
  <1>1. /\ Len(Those(s, ps)) \in Nat /\ Len(Those(s, {DEDENT})) \in Nat
        /\ Len(Those(t, ps)) \in Nat /\ Len(Those(t, {DEDENT})) \in Nat
    BY ThoseType
  <1> DEFINE u == s \o t
             a == Len(Those(s, ps))
             b == Len(Those(s, {DEDENT}))
             c == Len(Those(t, ps))
             d == Len(Those(t, {DEDENT}))
  <1>2. /\ Len(Those(u, ps)) = Len(Those(s, ps)) + Len(Those(t, ps))
        /\ Len(Those(u, {DEDENT})) = Len(Those(s, {DEDENT})) + Len(Those(t, {DEDENT}))
    BY ThoseConcat
  <1>3. /\ Height(u, ps) = (a + c) - (b + d)
        /\ Height(s, ps) = a - b /\ Height(t, ps) = c - d
    BY <1>2, Zenon DEF Height
  <1>4. a \in Nat /\ b \in Nat /\ c \in Nat /\ d \in Nat
    BY <1>1
  <1> HIDE DEF u, a, b, c, d
  <1>5. Height(u, ps) = Height(s, ps) + Height(t, ps)
    BY <1>3, <1>4
  <1> QED BY <1>5 DEF u

LEMMA HeightNone ==
    ASSUME NEW ps
    PROVE  Height(<< >>, ps) = 0
  <1>1. Len(<< >>) = 0
    OBVIOUS
  <1> QED BY <1>1, ThoseNone DEF Height

LEMMA HeightOne ==
    ASSUME NEW ps, NEW x \in Nat, x # DEDENT
    PROVE  Height(<<x>>, ps) = IF x \in ps THEN 1 ELSE 0
  <1> DEFINE w == <<x>>
  <1>1. Those(w, {DEDENT}) = << >>
    BY ThoseOne
  <1>2. Those(w, ps) = IF x \in ps THEN w ELSE << >>
    BY ThoseOne
  <1>3. Len(<< >>) = 0 /\ Len(w) = 1
    OBVIOUS
  <1> HIDE DEF w
  <1>4. Len(Those(w, ps)) = IF x \in ps THEN 1 ELSE 0
    BY <1>2, <1>3
  <1>5. Len(Those(w, {DEDENT})) = 0
    BY <1>1, <1>3
  <1>6. Height(w, ps) = IF x \in ps THEN 1 ELSE 0
    BY <1>4, <1>5 DEF Height
  <1> QED BY <1>6 DEF w

LEMMA HeightDedents ==
    ASSUME NEW ps, DEDENT \notin ps, NEW n \in Nat
    PROVE  Height(Dedents(n), ps) = - n
  <1>1. Len(<< >>) = 0
    OBVIOUS
  <1> QED BY <1>1, DedentsAway, DedentsAll DEF Height

\* no block begins or ends in s
Level(s, ps) == \A i \in 1..Len(s) : s[i] # DEDENT /\ s[i] \notin ps

LEMMA HeightLevel ==
    ASSUME NEW ps, NEW s \in Seq(Nat), Level(s, ps)
    PROVE  Height(s, ps) = 0
  <1>1. Those(s, ps) = << >> /\ Those(s, {DEDENT}) = << >>
    BY ThoseAway DEF Level
  <1>2. Len(<< >>) = 0
    OBVIOUS
  <1> QED BY <1>1, <1>2 DEF Height

LEMMA PrefixFacts ==
    ASSUME NEW s \in Seq(Nat), NEW n \in 0..Len(s)
    PROVE  /\ SubSeq(s, 1, n) \in Seq(Nat) /\ Len(SubSeq(s, 1, n)) = n
           /\ \A i \in 1..n : SubSeq(s, 1, n)[i] = s[i]
  OBVIOUS

LEMMA PrefixWhole ==
    ASSUME NEW s \in Seq(Nat)
    PROVE  SubSeq(s, 1, Len(s)) = s
  OBVIOUS

LEMMA PrefixNone ==
    ASSUME NEW s \in Seq(Nat)
    PROVE  SubSeq(s, 1, 0) = << >>
  OBVIOUS

LEMMA PrefixFirst ==
    ASSUME NEW s \in Seq(Nat), NEW t \in Seq(Nat), NEW n \in 0..Len(s)
    PROVE  SubSeq(s \o t, 1, n) = SubSeq(s, 1, n)
  OBVIOUS

LEMMA PrefixSecond ==
    ASSUME NEW s \in Seq(Nat), NEW t \in Seq(Nat), NEW n \in 0..Len(t)
    PROVE  SubSeq(s \o t, 1, Len(s) + n) = s \o SubSeq(t, 1, n)
  <1> DEFINE u == SubSeq(s \o t, 1, Len(s) + n)
             v == SubSeq(t, 1, n)
  <1>1. v \in Seq(Nat) /\ Len(v) = n /\ \A i \in 1..n : v[i] = t[i]
    BY PrefixFacts
  <1>2. u \in Seq(Nat) /\ Len(u) = Len(s) + n
    OBVIOUS
  <1>3. \A i \in 1..Len(s) : u[i] = s[i]
    OBVIOUS
  <1>4. \A i \in 1..n : u[Len(s) + i] = t[i]
    OBVIOUS
  <1> HIDE DEF u, v
  <1>5. \A i \in 1..Len(v) : u[Len(s) + i] = v[i]
    BY <1>1, <1>4
  <1>6. Len(u) = Len(s) + Len(v)
    BY <1>1, <1>2
  <1>7. u = s \o v
    BY <1>1, <1>2, <1>3, <1>5, <1>6, ConcatOf
  <1> QED BY <1>7 DEF u, v

LEMMA NestsConcat ==
    ASSUME NEW ps, NEW s \in Seq(Nat), NEW t \in Seq(Nat), NEW d \in Int
    PROVE  Nests(s \o t, ps, d) <=> Nests(s, ps, d) /\ Nests(t, ps, d + Height(s, ps))
  <1>1. /\ Len(s) \in Nat /\ Len(t) \in Nat /\ Len(s \o t) = Len(s) + Len(t)
        /\ Height(s, ps) \in Int
    BY HeightType, LenProperties, ConcatProperties
  <1>2. \A n \in 0..Len(t) :
           Height(SubSeq(s \o t, 1, Len(s) + n), ps)
           = Height(s, ps) + Height(SubSeq(t, 1, n), ps)
    <2>1. SUFFICES ASSUME NEW n \in 0..Len(t)
                   PROVE  Height(SubSeq(s \o t, 1, Len(s) + n), ps)
                          = Height(s, ps) + Height(SubSeq(t, 1, n), ps)
      OBVIOUS
    <2> DEFINE u == SubSeq(t, 1, n)
    <2>2. u \in Seq(Nat) /\ SubSeq(s \o t, 1, Len(s) + n) = s \o u
      BY PrefixFacts, PrefixSecond
    <2> HIDE DEF u
    <2>3. Height(s \o u, ps) = Height(s, ps) + Height(u, ps)
      BY <2>2, HeightConcat
    <2> QED BY <2>2, <2>3 DEF u
  <1>3. \A n \in 0..Len(s) : SubSeq(s \o t, 1, n) = SubSeq(s, 1, n)
    BY PrefixFirst
  <1>4. /\ \A n \in 0..Len(t) : Height(SubSeq(t, 1, n), ps) \in Int
        /\ \A n \in 0..Len(s) : Height(SubSeq(s, 1, n), ps) \in Int
    BY PrefixFacts, HeightType
  <1>5. ASSUME Nests(s \o t, ps, d)
        PROVE  Nests(s, ps, d) /\ Nests(t, ps, d + Height(s, ps))
    <2>1. \A n \in 0..Len(s) : d + Height(SubSeq(s, 1, n), ps) >= 0
      <3>1. \A n \in 0..Len(s) : n \in 0..Len(s \o t)
        BY <1>1
      <3> QED BY <1>3, <1>5, <3>1 DEF Nests
    <2>2. \A n \in 0..Len(t) : (d + Height(s, ps)) + Height(SubSeq(t, 1, n), ps) >= 0
      <3>1. SUFFICES ASSUME NEW n \in 0..Len(t)
                     PROVE  (d + Height(s, ps)) + Height(SubSeq(t, 1, n), ps) >= 0
        OBVIOUS
      <3>2. Len(s) + n \in 0..Len(s \o t)
        BY <1>1
      <3>3. d + Height(SubSeq(s \o t, 1, Len(s) + n), ps) >= 0
        BY <1>5, <3>2 DEF Nests
      <3> QED BY <1>1, <1>2, <1>4, <3>3
    <2> QED BY <2>1, <2>2 DEF Nests
  <1>6. ASSUME Nests(s, ps, d), Nests(t, ps, d + Height(s, ps))
        PROVE  Nests(s \o t, ps, d)
    <2>1. SUFFICES ASSUME NEW n \in 0..Len(s \o t)
                   PROVE  d + Height(SubSeq(s \o t, 1, n), ps) >= 0
      BY DEF Nests
    <2>2. CASE n <= Len(s)
      <3>1. n \in 0..Len(s)
        BY <1>1, <2>2
      <3> QED BY <1>3, <1>6, <3>1 DEF Nests
    <2>3. CASE n > Len(s)
      <3> DEFINE m == n - Len(s)
      <3>1. m \in 0..Len(t) /\ n = Len(s) + m
        BY <1>1, <2>3
      <3> HIDE DEF m
      <3>2. (d + Height(s, ps)) + Height(SubSeq(t, 1, m), ps) >= 0
        BY <1>6, <3>1 DEF Nests
      <3> QED BY <1>1, <1>2, <1>4, <3>1, <3>2
    <2> QED BY <1>1, <2>2, <2>3
  <1> QED BY <1>5, <1>6

LEMMA NestsNone ==
    ASSUME NEW ps, NEW d \in Nat
    PROVE  Nests(<< >>, ps, d)
  <1> DEFINE e == << >>
  <1>1. Len(e) = 0 /\ SubSeq(e, 1, 0) = e
    OBVIOUS
  <1>2. Height(e, ps) = 0
    BY HeightNone
  <1> HIDE DEF e
  <1>3. SUFFICES ASSUME NEW n \in 0..Len(e)
                 PROVE  d + Height(SubSeq(e, 1, n), ps) >= 0
    BY DEF Nests, e
  <1>4. n = 0
    BY <1>1
  <1>5. Height(SubSeq(e, 1, n), ps) = 0
    BY <1>1, <1>2, <1>4, Zenon
  <1> QED BY <1>5

LEMMA NestsOne ==
    ASSUME NEW ps, NEW x \in Nat, x # DEDENT, NEW d \in Nat
    PROVE  Nests(<<x>>, ps, d)
  <1> DEFINE w == <<x>>
             e == << >>
  <1>1. Height(w, ps) \in Nat /\ Height(e, ps) = 0
    BY HeightOne, HeightNone
  <1>2. w \in Seq(Nat) /\ Len(w) = 1
    OBVIOUS
  <1>3. SubSeq(w, 1, 0) = e /\ SubSeq(w, 1, 1) = w
    BY <1>2, PrefixNone, PrefixWhole
  <1> HIDE DEF e, w
  <1>4. SUFFICES ASSUME NEW n \in 0..Len(w)
                 PROVE  d + Height(SubSeq(w, 1, n), ps) >= 0
    BY DEF Nests, w
  <1>5. n = 0 \/ n = 1
    BY <1>2
  <1>6. Height(SubSeq(w, 1, n), ps) \in Nat
    <2>1. SubSeq(w, 1, n) = e \/ SubSeq(w, 1, n) = w
      BY <1>3, <1>5, Zenon
    <2>2. Height(SubSeq(w, 1, n), ps) = 0 \/ Height(SubSeq(w, 1, n), ps) \in Nat
      BY <1>1, <2>1, Zenon
    <2> QED BY <2>2
  <1> QED BY <1>6

LEMMA NestsDedents ==
    ASSUME NEW ps, DEDENT \notin ps, NEW n \in Nat, NEW d \in Int, d >= n
    PROVE  Nests(Dedents(n), ps, d)
  <1>1. Len(Dedents(n)) = n
    BY DedentsFacts
  <1>2. \A m \in 0..n : SubSeq(Dedents(n), 1, m) = Dedents(m)
    BY DEF Dedents
  <1>3. \A m \in 0..n : Height(Dedents(m), ps) = - m
    BY HeightDedents
  <1>4. \A m \in 0..n : Height(SubSeq(Dedents(n), 1, m), ps) = - m
    BY <1>2, <1>3, Zenon
  <1> DEFINE u == Dedents(n)
  <1> HIDE DEF u
  <1>5. Nests(u, ps, d)
    <2>1. Len(u) = n /\ \A m \in 0..n : Height(SubSeq(u, 1, m), ps) = - m
      BY <1>1, <1>4 DEF u
    <2> QED BY <2>1 DEF Nests
  <1> QED BY <1>5 DEF u

LEMMA NestsLevel ==
    ASSUME NEW ps, NEW s \in Seq(Nat), Level(s, ps), NEW d \in Nat
    PROVE  Nests(s, ps, d)
  <1>1. SUFFICES ASSUME NEW n \in 0..Len(s)
                 PROVE  d + Height(SubSeq(s, 1, n), ps) >= 0
    BY DEF Nests
  <1> DEFINE u == SubSeq(s, 1, n)
  <1>2. u \in Seq(Nat) /\ Len(u) = n /\ \A i \in 1..n : u[i] = s[i]
    BY PrefixFacts
  <1> HIDE DEF u
  <1>3. Level(u, ps)
    <2>1. \A i \in 1..n : i \in 1..Len(s)
      BY LenProperties
    <2> QED BY <1>2, <2>1 DEF Level
  <1>4. Height(u, ps) = 0
    BY <1>2, <1>3, HeightLevel
  <1> QED BY <1>4 DEF u

LEMMA NestsEnd ==
    ASSUME NEW ps, NEW s \in Seq(Nat), NEW d \in Int, Nests(s, ps, d)
    PROVE  d + Height(s, ps) >= 0
  <1>1. Len(s) \in 0..Len(s)
    BY LenProperties
  <1> QED BY <1>1, PrefixWhole DEF Nests

\* DEDENT tokens may come earlier where no block begins in between
LEMMA NestsMoved ==
    ASSUME NEW ps, DEDENT \notin ps, NEW s \in Seq(Nat), Level(s, ps),
           NEW n \in Nat, NEW d \in Int, Nests(s \o Dedents(n), ps, d)
    PROVE  /\ Nests(Dedents(n) \o s, ps, d)
           /\ Height(Dedents(n) \o s, ps) = Height(s \o Dedents(n), ps)
  <1>1. Dedents(n) \in Seq(Nat) /\ Height(s, ps) = 0 /\ Height(Dedents(n), ps) = - n
    BY DedentsFacts, HeightLevel, HeightDedents
  <1>2. Nests(s, ps, d) /\ Nests(Dedents(n), ps, d + Height(s, ps))
    BY <1>1, NestsConcat
  <1>3. Nests(Dedents(n), ps, d)
    BY <1>1, <1>2
  <1>4. d - n >= 0
    BY <1>1, <1>3, NestsEnd
  <1>5. Nests(s, ps, d + Height(Dedents(n), ps))
    BY <1>1, <1>4, NestsLevel
  <1>6. Nests(Dedents(n) \o s, ps, d)
    BY <1>1, <1>3, <1>5, NestsConcat
  <1>7. /\ Height(Dedents(n) \o s, ps) = Height(Dedents(n), ps) + Height(s, ps)
        /\ Height(s \o Dedents(n), ps) = Height(s, ps) + Height(Dedents(n), ps)
    BY <1>1, HeightConcat
  <1> QED BY <1>1, <1>6, <1>7

-----------------------------------------------------------------------------
(* The inductive invariant *)

FilterType ==
    [read : Nat, type : [1..Len(source) -> Types],
     buffer : Seq(Nat), indentBuffer : Seq(Nat), numIndents : Nat,
     numBrackets : Nat, numSpacesPerIndent : {-1} \cup (Nat \ {0}),
     isOneLineStatement : BOOLEAN, expectBlock : BOOLEAN,
     delayExpectBlockCheck : BOOLEAN, checkOneLineStatement : BOOLEAN,
     statementContinues : BOOLEAN, recordToken : BOOLEAN,
     tokenAfterIndent : Nat, block : Nat,
     numTokensAfterIndent : Nat, stopCounting : BOOLEAN]

TypeOK ==
    /\ source \in Sources
    /\ filter \in FilterType
    /\ pc \in {"next", "blocks", "arrange", "done", "undefined"}
    /\ output \in Seq(Nat)

\* the types that are not those of the source
Retyped(f) ==
    \A p \in 1..Len(source) :
        \/ f.type[p] = source[p].type
        \/ p <= f.read /\ source[p].type = "COLON" /\ f.type[p] = "INDENT"
        \/ p <= f.read /\ source[p].type = "WS" /\ f.type[p] = "WS_EOL"

InBlock == pc \in {"blocks", "arrange", "undefined"}

Control(f) ==
    /\ f.read <= Len(source)
    /\ f.statementContinues => Continued
    /\ pc = "blocks" => f.numIndents > 0 /\ f.read < Len(source) /\ f.buffer = << >>
    /\ pc # "blocks" => f.numIndents = 0
    /\ IF InBlock THEN f.block # DEDENT ELSE f.indentBuffer = << >>
    /\ f.indentBuffer # << >> => f.indentBuffer[1] # DEDENT
    /\ f.buffer # << >> => f.buffer[1] # DEDENT

\* the parser asks for tokens until it has EOF
Ended ==
    /\ pc = "done" => filter.read = Len(source) /\ filter.buffer = << >>
    /\ pc # "done" => \A i \in 1..Len(output) : output[i] # Len(source)

\* The tokens returned and held, in the order in which they are returned
\* unless DEDENT tokens are moved: first is the first token of a block, while
\* it waits for the others.
Together(returned, first, indentBuffer, buffer) ==
    returned \o (first \o (indentBuffer \o Reverse(buffer)))

Held == IF InBlock THEN <<filter.block>> ELSE << >>
All == Together(output, Held, filter.indentBuffer, filter.buffer)

Within(s, n) == \A i \in 1..Len(s) : s[i] <= n

\* each token once and in order, from the first to n
Stepwise(s) ==
    \A i \in 1..(Len(s) - 1) :
        \/ s[i + 1] = s[i] + 1
        \/ s[i + 1] = s[i] /\ Continued /\ s[i] < Len(source)

Ordered(s, n) ==
    IF s = << >> THEN n = 0 ELSE s[1] = 1 /\ s[Len(s)] = n /\ Stepwise(s)

IndentsOf(type) == {p \in 1..Len(source) : type[p] = "INDENT"}

\* s are the tokens read, with the blocks that are open after them
Sound(f, s) ==
    /\ s \in Seq(Nat)
    /\ Within(s, f.read)
    /\ Ordered(OfSource(s), f.read)
    /\ Height(s, IndentsOf(f.type)) = f.numIndents
    /\ ~ ColonFirst => Nests(s, IndentsOf(f.type), 0)

\* no block ends right after it begins
Spaced(f) ==
    LET s == f.indentBuffer
    IN  \A i \in 1..(Len(s) - 1) :
           s[i + 1] = DEDENT => s[i] \notin IndentsOf(f.type)

Inv ==
    /\ TypeOK
    /\ Retyped(filter)
    /\ Control(filter)
    /\ Ended
    /\ Sound(filter, All)
    /\ ~ ColonFirst => Spaced(filter)

-----------------------------------------------------------------------------
(* Parts of the filter *)

SourceOK ==
    /\ source \in Seq(Token) /\ source # << >>
    /\ \A p \in 1..Len(source) : /\ source[p].type # "INDENT"
                                 /\ source[p].type = "EOF" <=> p = Len(source)

LEMMA SourceFacts ==
    ASSUME SourceOK
    PROVE  /\ Len(source) \in Nat \ {0}
           /\ \A p \in 1..Len(source) :
                 /\ source[p].type \in Types /\ source[p].column \in Nat \ {0}
                 /\ source[p].length \in Nat \ {0} /\ source[p].line \in Nat
                 /\ p \in Nat /\ p # DEDENT
  <1>1. source \in Seq(Token)
    BY DEF SourceOK
  <1>2. \A p \in 1..Len(source) : source[p] \in Token
    BY <1>1, ElementOfSeq
  <1>3. Len(source) \in Nat /\ Len(source) # 0
    BY <1>1, EmptySeq, LenProperties DEF SourceOK
  <1> QED BY <1>2, <1>3 DEF Token, DEDENT

\* what the properties are about is the same in f and g
Same(f, g) ==
    /\ g.read = f.read /\ g.type = f.type /\ g.buffer = f.buffer
    /\ g.indentBuffer = f.indentBuffer /\ g.numIndents = f.numIndents
    /\ g.block = f.block /\ g.statementContinues = f.statementContinues

LEMMA checkBracketTokenFacts ==
    ASSUME NEW f \in FilterType, NEW p
    PROVE  checkBracketToken(f, p) \in FilterType /\ Same(f, checkBracketToken(f, p))
  <1> DEFINE n == f.numBrackets
             g == checkBracketToken(f, p)
  <1>1. n \in Nat
    BY DEF FilterType
  <1>2. ASSUME NEW m \in Nat
        PROVE  LET h == [f EXCEPT !.numBrackets = m]
               IN  h \in FilterType /\ Same(f, h)
    BY DEF FilterType, Same
  <1>3. Same(f, f)
    BY DEF Same
  <1>4. \/ g = [f EXCEPT !.numBrackets = n + 1]
        \/ g = [f EXCEPT !.numBrackets = n - 1] /\ n > 0
        \/ g = f
    BY Zenon DEF checkBracketToken
  <1> HIDE DEF n, g
  <1>5. n + 1 \in Nat /\ (n > 0 => n - 1 \in Nat)
    BY <1>1
  <1>6. g \in FilterType /\ Same(f, g)
    BY <1>2, <1>3, <1>4, <1>5
  <1> QED BY <1>6 DEF g

LEMMA expectBlockCheckFacts ==
    ASSUME NEW f \in FilterType, NEW p
    PROVE  expectBlockCheck(f, p) \in FilterType /\ Same(f, expectBlockCheck(f, p))
  <1>1. ASSUME NEW e \in BOOLEAN, NEW d \in BOOLEAN
        PROVE  LET g == [f EXCEPT !.expectBlock = @ \/ e, !.delayExpectBlockCheck = d]
               IN  g \in FilterType /\ Same(f, g)
    BY DEF FilterType, Same
  <1>2. Same(f, f)
    BY DEF Same
  <1>3. /\ (f.type[p] \in expect_blocks_py_token_set) \in BOOLEAN
        /\ (f.type[p] = "WS") \in BOOLEAN
    OBVIOUS
  <1> QED BY <1>1, <1>2, <1>3 DEF expectBlockCheck

LEMMA CheckedFacts ==
    ASSUME NEW f \in FilterType, NEW p
    PROVE  Checked(f, p) \in FilterType /\ Same(f, Checked(f, p))
  <1> DEFINE g == checkBracketToken(f, p)
             h == expectBlockCheck(g, p)
  <1>1. g \in FilterType /\ Same(f, g)
    BY checkBracketTokenFacts
  <1> HIDE DEF g
  <1>2. h \in FilterType /\ Same(g, h)
    BY <1>1, expectBlockCheckFacts
  <1> HIDE DEF h
  <1>3. Same(f, h)
    BY <1>1, <1>2 DEF Same
  <1> QED BY <1>2, <1>3 DEF Checked, g, h

LEMMA CheckOneLineFacts ==
    ASSUME NEW f \in FilterType, NEW p
    PROVE  CheckOneLine(f, p) \in FilterType /\ Same(f, CheckOneLine(f, p))
  <1>1. OneLine(f, p) \in BOOLEAN
    BY DEF OneLine, IsA
  <1>2. ASSUME NEW e \in BOOLEAN
        PROVE  LET g == [f EXCEPT !.isOneLineStatement = e,
                                  !.checkOneLineStatement = FALSE]
               IN  g \in FilterType /\ Same(f, g)
    BY DEF FilterType, Same
  <1>3. Same(f, f)
    BY DEF Same
  <1> QED BY <1>1, <1>2, <1>3 DEF CheckOneLine

LEMMA RecordFacts ==
    ASSUME NEW f \in FilterType, NEW p \in Nat
    PROVE  Record(f, p) \in FilterType /\ Same(f, Record(f, p))
  <1>1. LET g == [f EXCEPT !.tokenAfterIndent = p, !.checkOneLineStatement = TRUE,
                           !.recordToken = FALSE]
        IN  g \in FilterType /\ Same(f, g)
    BY DEF FilterType, Same
  <1>2. Same(f, f)
    BY DEF Same
  <1> QED BY <1>1, <1>2 DEF Record

\* the same but for the type of p and the number of indents
Begins(f, g, p) ==
    /\ f.type[p] = "COLON"
    /\ g.type = [f.type EXCEPT ![p] = "INDENT"] /\ g.numIndents = f.numIndents + 1
    /\ g.read = f.read /\ g.buffer = f.buffer /\ g.indentBuffer = f.indentBuffer
    /\ g.block = f.block /\ g.statementContinues = f.statementContinues

LEMMA StartBlockFacts ==
    ASSUME NEW f \in FilterType, NEW p \in 1..Len(source)
    PROVE  LET g == StartBlock(f, p)
           IN  g \in FilterType /\ (Same(f, g) \/ Begins(f, g, p))
  <1> DEFINE g == [f EXCEPT !.type[p] = "INDENT", !.numIndents = @ + 1,
                            !.expectBlock = FALSE, !.recordToken = TRUE]
  <1>1. [f.type EXCEPT ![p] = "INDENT"] \in [1..Len(source) -> Types]
    BY DEF FilterType, Types
  <1>2. g \in FilterType
    <2> DEFINE t == [f.type EXCEPT ![p] = "INDENT"]
               n == f.numIndents + 1
    <2>1. g = [f EXCEPT !.type = t, !.numIndents = n,
                        !.expectBlock = FALSE, !.recordToken = TRUE]
      OBVIOUS
    <2>2. t \in [1..Len(source) -> Types] /\ n \in Nat
      BY <1>1, SMTT(30) DEF FilterType
    <2> HIDE DEF t, n, g
    <2>3. [f EXCEPT !.type = t, !.numIndents = n,
                    !.expectBlock = FALSE, !.recordToken = TRUE] \in FilterType
      BY <2>2, ZenonT(60) DEF FilterType
    <2> QED BY <2>1, <2>3
  <1>3. /\ g.type = [f.type EXCEPT ![p] = "INDENT"] /\ g.numIndents = f.numIndents + 1
        /\ g.read = f.read /\ g.buffer = f.buffer /\ g.indentBuffer = f.indentBuffer
        /\ g.block = f.block /\ g.statementContinues = f.statementContinues
    BY DEF FilterType
  <1>4. Same(f, f)
    BY DEF Same
  <1> HIDE DEF g
  <1>5. CASE f.type[p] = "COLON" /\ f.expectBlock /\ f.numBrackets = 0
    <2>1. StartBlock(f, p) = g
      BY <1>5, Zenon DEF StartBlock, g
    <2> QED BY <1>2, <1>3, <1>5, <2>1 DEF Begins
  <1>6. CASE ~ (f.type[p] = "COLON" /\ f.expectBlock /\ f.numBrackets = 0)
    <2>1. StartBlock(f, p) = f
      BY <1>6, Zenon DEF StartBlock
    <2> QED BY <1>4, <2>1
  <1> QED BY <1>5, <1>6

\* the same, and the statement may go on after a backslash p
Goes(f, g, p) ==
    /\ g.read = f.read /\ g.type = f.type /\ g.buffer = f.buffer
    /\ g.indentBuffer = f.indentBuffer /\ g.numIndents = f.numIndents
    /\ g.block = f.block
    /\ g.statementContinues => f.statementContinues \/ f.type[p] = "EOL_BACKSLASH"

LEMMA ContinuationFacts ==
    ASSUME NEW f \in FilterType, NEW p
    PROVE  Continuation(f, p) \in FilterType /\ Goes(f, Continuation(f, p), p)
  <1>1. LET g == [f EXCEPT !.statementContinues = TRUE]
        IN  /\ g \in FilterType
            /\ f.type[p] = "EOL_BACKSLASH" => Goes(f, g, p)
    BY DEF FilterType, Goes
  <1>2. Goes(f, f, p)
    BY DEF Goes
  <1> QED BY <1>1, <1>2 DEF Continuation

LEMMA CeilingFacts ==
    ASSUME NEW n \in Nat \ {0}, NEW d \in Nat \ {0}
    PROVE  Ceiling(n, d) \in Nat \ {0}
  <1> DEFINE m == n + d - 1
             q == m \div d
  <1>1. m \in Nat /\ m >= d
    OBVIOUS
  <1>2. q \in Int /\ q >= 1
    BY <1>1
  <1> QED BY <1>2 DEF Ceiling

LEMMA MeasuredFacts ==
    ASSUME NEW f \in FilterType, f.numIndents > 0, NEW n \in Nat \ {0}
    PROVE  LET g == Measured(f, n)
           IN  g \in FilterType /\ Same(f, g) /\ g.numSpacesPerIndent \in Nat \ {0}
  <1>1. f.numIndents \in Nat \ {0} /\ f.numSpacesPerIndent \in {-1} \cup (Nat \ {0})
    BY DEF FilterType
  <1>2. Ceiling(n, f.numIndents) \in Nat \ {0}
    BY <1>1, CeilingFacts
  <1>3. ASSUME NEW m \in Nat \ {0}
        PROVE  LET g == [f EXCEPT !.numSpacesPerIndent = m]
               IN  g \in FilterType /\ Same(f, g) /\ g.numSpacesPerIndent = m
    BY DEF FilterType, Same
  <1>4. Same(f, f)
    BY DEF Same
  <1> QED BY <1>1, <1>2, <1>3, <1>4 DEF Measured

\* the same but for the indent buffer, to which s is added
Adds(f, g, s) ==
    /\ g.indentBuffer = f.indentBuffer \o s
    /\ g.read = f.read /\ g.type = f.type /\ g.buffer = f.buffer
    /\ g.block = f.block

LEMMA PushFacts ==
    ASSUME NEW f \in FilterType, NEW p \in Nat
    PROVE  LET g == Push(f, p)
           IN  /\ g \in FilterType /\ Adds(f, g, <<p>>)
               /\ g.numIndents = f.numIndents
               /\ g.statementContinues = f.statementContinues
  <1> DEFINE s == Append(f.indentBuffer, p)
  <1>1. s \in Seq(Nat) /\ s = f.indentBuffer \o <<p>>
    <2>1. f.indentBuffer \in Seq(Nat)
      BY DEF FilterType
    <2> QED BY <2>1, AppendIsConcat
  <1> HIDE DEF s
  <1>2. LET g == [f EXCEPT !.indentBuffer = s]
        IN  /\ g \in FilterType /\ g.indentBuffer = s
            /\ g.read = f.read /\ g.type = f.type /\ g.buffer = f.buffer
            /\ g.block = f.block /\ g.numIndents = f.numIndents
            /\ g.statementContinues = f.statementContinues
    BY <1>1, ZenonT(60) DEF FilterType
  <1>3. Push(f, p) = [f EXCEPT !.indentBuffer = s]
    BY DEF Push, s
  <1> QED BY <1>1, <1>2, <1>3 DEF Adds

LEMMA DedentFacts ==
    ASSUME NEW f \in FilterType, NEW n \in Nat, n <= f.numIndents
    PROVE  LET g == Dedent(f, n)
           IN  /\ g \in FilterType /\ Adds(f, g, Dedents(f.numIndents - n))
               /\ g.numIndents = n
               /\ g.statementContinues = f.statementContinues
  <1> DEFINE k == f.numIndents - n
             s == f.indentBuffer \o Dedents(k)
  <1>1. k \in Nat /\ f.indentBuffer \in Seq(Nat)
    BY DEF FilterType
  <1>2. s \in Seq(Nat)
    <2>1. Dedents(k) \in Seq(Nat)
      BY <1>1, DedentsFacts
    <2> QED BY <1>1, <2>1, ConcatProperties
  <1>3. Dedent(f, n) = [f EXCEPT !.indentBuffer = s, !.numIndents = n]
    BY Zenon DEF Dedent, Dedents, s, k
  <1>4. s = f.indentBuffer \o Dedents(f.numIndents - n)
    BY DEF s, k
  <1> HIDE DEF s, k
  <1>5. LET g == [f EXCEPT !.indentBuffer = s, !.numIndents = n]
        IN  /\ g \in FilterType /\ g.indentBuffer = s
            /\ g.read = f.read /\ g.type = f.type /\ g.buffer = f.buffer
            /\ g.block = f.block /\ g.numIndents = n
            /\ g.statementContinues = f.statementContinues
    BY <1>2 DEF FilterType
  <1> DEFINE g == [f EXCEPT !.indentBuffer = s, !.numIndents = n]
  <1> HIDE DEF g
  <1>6. Adds(f, g, Dedents(f.numIndents - n))
    BY <1>4, <1>5, Zenon DEF Adds, g
  <1> QED BY <1>3, <1>5, <1>6, Zenon DEF g

-----------------------------------------------------------------------------
(* What one iteration of handleBlocks reads *)

\* s followed by p, DEDENT tokens, y and more DEDENT tokens
Shape(s, p, a, y, b) == s \o (<<p>> \o (Dedents(a) \o (y \o Dedents(b))))

Just(p) == <<p>>

LEMMA ShapeConcat ==
    ASSUME NEW s \in Seq(Nat), NEW p \in Nat, NEW a \in Nat, NEW y \in Seq(Nat),
           NEW b \in Nat
    PROVE  /\ Shape(s, p, a, y, b)
              = Chain(Chain(Chain(Chain(s, Just(p)), Dedents(a)), y), Dedents(b))
           /\ Shape(s, p, a, y, b) \in Seq(Nat)
  <1> DEFINE w == <<p>>
             d == Dedents(a)
             e == Dedents(b)
  <1>1. w \in Seq(Nat) /\ d \in Seq(Nat) /\ e \in Seq(Nat)
    BY DedentsFacts
  <1>2. Shape(s, p, a, y, b) = Chain(s, Chain(w, Chain(d, Chain(y, e))))
    BY Zenon DEF Shape, Chain, w, d, e
  <1> HIDE DEF w, d, e
  <1>3. /\ Chain(y, e) \in Seq(Nat) /\ Chain(d, Chain(y, e)) \in Seq(Nat)
        /\ Chain(s, w) \in Seq(Nat) /\ Chain(Chain(s, w), d) \in Seq(Nat)
        /\ Chain(Chain(Chain(s, w), d), y) \in Seq(Nat)
        /\ Chain(Chain(Chain(Chain(s, w), d), y), e) \in Seq(Nat)
    BY <1>1, ConcatProperties DEF Chain
  <1>4. Chain(s, Chain(w, Chain(d, Chain(y, e))))
        = Chain(Chain(s, w), Chain(d, Chain(y, e)))
    BY <1>1, <1>3, ChainAssociates
  <1>5. Chain(Chain(s, w), Chain(d, Chain(y, e)))
        = Chain(Chain(Chain(s, w), d), Chain(y, e))
    BY <1>1, <1>3, ChainAssociates
  <1>6. Chain(Chain(Chain(s, w), d), Chain(y, e))
        = Chain(Chain(Chain(Chain(s, w), d), y), e)
    BY <1>1, <1>3, ChainAssociates
  <1>7. /\ Shape(s, p, a, y, b) = Chain(Chain(Chain(Chain(s, w), d), y), e)
        /\ Shape(s, p, a, y, b) \in Seq(Nat)
    BY <1>2, <1>3, <1>4, <1>5, <1>6, Zenon
  <1> QED BY <1>7, Zenon DEF Just, w, d, e

LEMMA NoDedents == Dedents(0) = << >>
  BY DEF Dedents

LEMMA ConcatNone ==
    ASSUME NEW s \in Seq(Nat)
    PROVE  s \o << >> = s /\ << >> \o s = s
  OBVIOUS

\* the forms that occur
LEMMA Shapes ==
    ASSUME NEW s \in Seq(Nat), NEW p \in Nat, NEW q \in Nat, NEW n \in Nat
    PROVE  /\ Chain(s, Just(p)) = Shape(s, p, 0, << >>, 0)
           /\ Chain(Chain(s, Just(p)), Dedents(n)) = Shape(s, p, n, << >>, 0)
           /\ Chain(Chain(Chain(Chain(s, Just(p)), Dedents(1)), Just(q)), Dedents(n))
              = Shape(s, p, 1, Just(q), n)
           /\ Chain(Chain(Chain(s, Just(p)), Dedents(n)), Just(q))
              = Shape(s, p, n, Just(q), 0)
           /\ Chain(Chain(Chain(s, Just(p)), Just(q)), Dedents(n))
              = Shape(s, p, 0, Just(q), n)
  <1> DEFINE t == s \o <<p>>
             u == t \o Dedents(n)
             v == t \o Dedents(1)
             w == u \o <<q>>
             x == t \o <<q>>
  <1>1. <<p>> \in Seq(Nat) /\ <<q>> \in Seq(Nat) /\ << >> \in Seq(Nat)
    OBVIOUS
  <1>2. Dedents(n) \in Seq(Nat) /\ Dedents(1) \in Seq(Nat)
    BY DedentsFacts
  <1>3. t \in Seq(Nat)
    BY <1>1, ConcatProperties
  <1>4. u \in Seq(Nat) /\ v \in Seq(Nat) /\ x \in Seq(Nat)
    BY <1>1, <1>2, <1>3, ConcatProperties
  <1>5. w \in Seq(Nat)
    BY <1>1, <1>4, ConcatProperties
  <1>6. /\ Shape(s, p, 0, << >>, 0) = ((t \o Dedents(0)) \o << >>) \o Dedents(0)
        /\ Shape(s, p, n, << >>, 0) = (u \o << >>) \o Dedents(0)
        /\ Shape(s, p, 1, <<q>>, n) = (v \o <<q>>) \o Dedents(n)
        /\ Shape(s, p, n, <<q>>, 0) = w \o Dedents(0)
        /\ Shape(s, p, 0, <<q>>, 0) = ((t \o Dedents(0)) \o <<q>>) \o Dedents(0)
        /\ Shape(s, p, 0, <<q>>, n) = ((t \o Dedents(0)) \o <<q>>) \o Dedents(n)
    <2>1. \A a \in Nat, b \in Nat, y \in Seq(Nat) :
             Shape(s, p, a, y, b) = ((t \o Dedents(a)) \o y) \o Dedents(b)
      <3> TAKE a \in Nat, b \in Nat, y \in Seq(Nat)
      <3>1. Shape(s, p, a, y, b)
            = Chain(Chain(Chain(Chain(s, Just(p)), Dedents(a)), y), Dedents(b))
        BY ShapeConcat
      <3> QED BY <3>1, Zenon DEF Chain, Just
    <2>2. 0 \in Nat /\ 1 \in Nat
      OBVIOUS
    <2> QED BY <1>1, <2>1, <2>2, Zenon
  <1>7. /\ t \o Dedents(0) = t /\ u \o Dedents(0) = u /\ u \o << >> = u
        /\ t \o << >> = t /\ w \o Dedents(0) = w /\ x \o Dedents(0) = x
    BY <1>3, <1>4, <1>5, NoDedents, ConcatNone
  <1> QED BY <1>6, <1>7, Zenon DEF Chain, Just

LEMMA ShapeToken ==
    ASSUME NEW s \in Seq(Nat), NEW p \in Nat
    PROVE  Chain(s, Just(p)) = Shape(s, p, 0, << >>, 0)
  <1>1. 0 \in Nat
    OBVIOUS
  <1> QED BY <1>1, Shapes

LEMMA ShapeEnds ==
    ASSUME NEW s \in Seq(Nat), NEW p \in Nat, NEW n \in Nat
    PROVE  Chain(Chain(s, Just(p)), Dedents(n)) = Shape(s, p, n, << >>, 0)
  BY Shapes

LEMMA ShapeLine ==
    ASSUME NEW s \in Seq(Nat), NEW p \in Nat, NEW q \in Nat, NEW n \in Nat
    PROVE  Chain(Chain(Chain(Chain(s, Just(p)), Dedents(1)), Just(q)), Dedents(n))
           = Shape(s, p, 1, Just(q), n)
  BY Shapes

LEMMA ShapeEndsFirst ==
    ASSUME NEW s \in Seq(Nat), NEW p \in Nat, NEW q \in Nat, NEW n \in Nat
    PROVE  Chain(Chain(Chain(s, Just(p)), Dedents(n)), Just(q))
           = Shape(s, p, n, Just(q), 0)
  BY Shapes

LEMMA ShapeEndsLast ==
    ASSUME NEW s \in Seq(Nat), NEW p \in Nat, NEW q \in Nat, NEW n \in Nat
    PROVE  Chain(Chain(Chain(s, Just(p)), Just(q)), Dedents(n))
           = Shape(s, p, 0, Just(q), n)
  BY Shapes

\* only p has another type
Changed(f, g, p) ==
    /\ \A r \in 1..Len(source) : r # p => g.type[r] = f.type[r]
    /\ \/ g.type[p] = f.type[p]
       \/ f.type[p] = "COLON" /\ g.type[p] = "INDENT"
       \/ f.type[p] = "WS" /\ g.type[p] = "WS_EOL"

\* A token p is read, or p and the next, or p is kept twice, with DEDENT
\* tokens after them for the blocks that end.
Reading(f, g, p, a, y, b) ==
    /\ \/ y = << >> /\ b = 0 /\ g.read = p
       \/ /\ y = <<p>> /\ g.read = p /\ Continued /\ p < Len(source)
          /\ g.type[p] # "INDENT"
       \/ /\ y = <<p + 1>> /\ g.read = p + 1 /\ p + 1 \in 1..Len(source)
          /\ g.type[p + 1] # "INDENT"
    /\ g.numIndents = ((IF g.type[p] = "INDENT" THEN 1 ELSE 0) + f.numIndents) - (a + b)
    /\ a > 0 /\ g.type[p] = "INDENT" => f.type[p] = "COLON" /\ source[p].column = 1
    /\ Changed(f, g, p)
    /\ g.statementContinues => Continued

ReadsAs(f, g, p, a, y, b) ==
    /\ g.indentBuffer = Shape(f.indentBuffer, p, a, y, b)
    /\ g.buffer = f.buffer /\ g.block = f.block
    /\ Reading(f, g, p, a, y, b)
    /\ g.numIndents > 0 => g.read < Len(source)

Reads(f, g, p) ==
    /\ g \in FilterType
    /\ \E a \in Nat, b \in Nat, y \in Seq(Nat) : ReadsAs(f, g, p, a, y, b)

LEMMA PushDedentFacts ==
    ASSUME NEW f \in FilterType, NEW p \in Nat
    PROVE  LET g == Dedent(Push(f, p), 0)
           IN  /\ g \in FilterType
               /\ g.indentBuffer = (f.indentBuffer \o <<p>>) \o Dedents(f.numIndents)
               /\ g.read = f.read /\ g.type = f.type /\ g.buffer = f.buffer
               /\ g.block = f.block /\ g.numIndents = 0
               /\ g.statementContinues = f.statementContinues
  <1> DEFINE h == Push(f, p)
             g == Dedent(h, 0)
  <1>1. /\ h \in FilterType /\ Adds(f, h, <<p>>) /\ h.numIndents = f.numIndents
        /\ h.statementContinues = f.statementContinues
    BY PushFacts
  <1> HIDE DEF h
  <1>2. h.numIndents \in Nat /\ 0 <= h.numIndents /\ h.numIndents - 0 = h.numIndents
    BY <1>1, SMTT(30) DEF FilterType
  <1>3. /\ g \in FilterType /\ Adds(h, g, Dedents(h.numIndents - 0))
        /\ g.numIndents = 0 /\ g.statementContinues = h.statementContinues
    BY <1>1, <1>2, DedentFacts
  <1> HIDE DEF g
  <1>4. /\ g.indentBuffer = (f.indentBuffer \o <<p>>) \o Dedents(f.numIndents)
        /\ g.read = f.read /\ g.type = f.type /\ g.buffer = f.buffer
        /\ g.block = f.block
    BY <1>1, <1>2, <1>3, Zenon DEF Adds
  <1> QED BY <1>1, <1>3, <1>4 DEF g, h

LEMMA DedentReads ==
    ASSUME SourceOK, NEW f \in FilterType, NEW p \in 1..Len(source), f.read = p,
           f.statementContinues => Continued, NEW c,
           c \in FilterType, c.indentBuffer = f.indentBuffer, c.buffer = f.buffer,
           c.block = f.block, Changed(c, f, p),
           f.numIndents = c.numIndents + (IF f.type[p] = "INDENT" THEN 1 ELSE 0),
           f.type[p] = "INDENT" => c.type[p] = "COLON" /\ source[p].column = 1
    PROVE  /\ Reads(c, Dedent(Push(f, p), 0), p)
           /\ Reads(c, [Dedent(Push(f, p), 0) EXCEPT !.statementContinues = FALSE], p)
  <1> DEFINE g == Dedent(Push(f, p), 0)
             n == f.numIndents
             h == [g EXCEPT !.statementContinues = FALSE]
  <1>0. p \in Nat
    BY SourceFacts
  <1>1. /\ g \in FilterType
        /\ g.indentBuffer = (f.indentBuffer \o <<p>>) \o Dedents(f.numIndents)
        /\ g.read = f.read /\ g.type = f.type /\ g.buffer = f.buffer
        /\ g.block = f.block /\ g.numIndents = 0
        /\ g.statementContinues = f.statementContinues
    BY <1>0, PushDedentFacts
  <1>2. f.indentBuffer \in Seq(Nat) /\ n \in Nat /\ c.numIndents \in Nat
    BY DEF FilterType
  <1>3. (f.indentBuffer \o <<p>>) \o Dedents(n) = Shape(f.indentBuffer, p, n, << >>, 0)
    <2>1. Chain(Chain(f.indentBuffer, Just(p)), Dedents(n))
          = Shape(f.indentBuffer, p, n, << >>, 0)
      BY <1>0, <1>2, ShapeEnds
    <2> QED BY <2>1, Zenon DEF Chain, Just
  <1> HIDE DEF g
  <1>4. /\ h \in FilterType /\ h.statementContinues = FALSE
        /\ h.indentBuffer = g.indentBuffer /\ h.read = g.read /\ h.type = g.type
        /\ h.buffer = g.buffer /\ h.block = g.block /\ h.numIndents = g.numIndents
    BY <1>1, ZenonT(60) DEF FilterType
  <1> HIDE DEF h
  <1>5. ASSUME NEW e, e \in {g, h}
        PROVE  ReadsAs(c, e, p, n, << >>, 0)
    <2>1. /\ e.indentBuffer = Shape(c.indentBuffer, p, n, << >>, 0)
          /\ e.buffer = c.buffer /\ e.block = c.block /\ e.read = p /\ e.type = f.type
          /\ e.numIndents = 0 /\ (e.statementContinues => Continued)
      BY <1>1, <1>3, <1>4, <1>5
    <2>2. e.numIndents
          = ((IF e.type[p] = "INDENT" THEN 1 ELSE 0) + c.numIndents) - (n + 0)
      BY <1>2, <2>1
    <2>3. Changed(c, e, p)
      BY <2>1 DEF Changed
    <2> QED BY <2>1, <2>2, <2>3 DEF ReadsAs, Reading
  <1>6. 0 \in Nat /\ << >> \in Seq(Nat)
    OBVIOUS
  <1>7. ASSUME NEW e, e \in {g, h}, e \in FilterType
        PROVE  Reads(c, e, p)
    BY <1>2, <1>5, <1>6, <1>7, Zenon DEF Reads
  <1>8. Reads(c, g, p) /\ Reads(c, h, p)
    BY <1>1, <1>4, <1>7
  <1> QED BY <1>8 DEF g, h

LEMMA EndReads ==
    ASSUME SourceOK, NEW f \in FilterType, NEW p, p \in 1..Len(source),
           NEW q, q = p + 1, q \in 1..Len(source), f.type[p] = "WS",
           f.type[q] = "EOF", f.statementContinues => Continued
    PROVE  Reads(f, Push(Dedent(Push([f EXCEPT !.read = q, !.type[p] = "WS_EOL"], p),
                                0), q), p)
  <1> DEFINE t == [f.type EXCEPT ![p] = "WS_EOL"]
             e == [f EXCEPT !.read = q, !.type = t]
             g == Dedent(Push(e, p), 0)
             h == Push(g, q)
             n == f.numIndents
  <1>0. p \in Nat /\ q \in Nat
    BY SourceFacts
  <1>1. /\ f.type \in [1..Len(source) -> Types] /\ t \in [1..Len(source) -> Types]
        /\ n \in Nat /\ f.indentBuffer \in Seq(Nat)
    BY DEF FilterType, Types
  <1>2. [f EXCEPT !.read = q, !.type[p] = "WS_EOL"] = e
    OBVIOUS
  <1>3. /\ t[p] = "WS_EOL" /\ t[q] = "EOF" /\ \A r \in 1..Len(source) : r # p => t[r] = f.type[r]
    BY <1>0, <1>1
  <1> HIDE DEF t
  <1>4. /\ e \in FilterType /\ e.read = q /\ e.type = t
        /\ e.indentBuffer = f.indentBuffer /\ e.buffer = f.buffer /\ e.block = f.block
        /\ e.numIndents = n /\ e.statementContinues = f.statementContinues
    BY <1>0, <1>1 DEF FilterType
  <1> HIDE DEF e
  <1>5. /\ g \in FilterType /\ g.indentBuffer = (e.indentBuffer \o <<p>>) \o Dedents(e.numIndents)
        /\ g.read = e.read /\ g.type = e.type /\ g.buffer = e.buffer
        /\ g.block = e.block /\ g.numIndents = 0
        /\ g.statementContinues = e.statementContinues
    BY <1>0, <1>4, PushDedentFacts
  <1> HIDE DEF g
  <1>6. /\ h \in FilterType /\ Adds(g, h, <<q>>) /\ h.numIndents = g.numIndents
        /\ h.statementContinues = g.statementContinues
    BY <1>0, <1>5, PushFacts
  <1> HIDE DEF h
  <1>7. ((f.indentBuffer \o <<p>>) \o Dedents(n)) \o <<q>>
        = Shape(f.indentBuffer, p, n, <<q>>, 0)
    <2>1. Chain(Chain(Chain(f.indentBuffer, Just(p)), Dedents(n)), Just(q))
          = Shape(f.indentBuffer, p, n, Just(q), 0)
      BY <1>0, <1>1, ShapeEndsFirst
    <2> QED BY <2>1, Zenon DEF Chain, Just
  <1>8. h.indentBuffer = Shape(f.indentBuffer, p, n, <<q>>, 0)
    BY <1>4, <1>5, <1>6, <1>7, Zenon DEF Adds
  <1>9. /\ h.read = q /\ h.type = t /\ h.buffer = f.buffer /\ h.block = f.block
        /\ h.numIndents = 0 /\ (h.statementContinues => Continued)
    BY <1>4, <1>5, <1>6 DEF Adds
  <1>10. Changed(f, h, p)
    BY <1>3, <1>9 DEF Changed
  <1> DEFINE y == <<q>>
  <1>11. y = <<p + 1>> /\ y \in Seq(Nat) /\ 0 \in Nat
    BY <1>0
  <1> HIDE DEF y
  <1>12. h.numIndents = ((IF h.type[p] = "INDENT" THEN 1 ELSE 0) + n) - (n + 0)
    BY <1>1, <1>3, <1>9
  <1>13. ReadsAs(f, h, p, n, y, 0)
    <2>1. h.indentBuffer = Shape(f.indentBuffer, p, n, y, 0)
      BY <1>8 DEF y
    <2>2. h.type[p + 1] # "INDENT" /\ h.type[p] # "INDENT" /\ ~ (h.numIndents > 0)
      BY <1>3, <1>9
    <2> QED BY <2>1, <2>2, <1>9, <1>10, <1>11, <1>12 DEF ReadsAs, Reading
  <1>14. Reads(f, h, p)
    BY <1>1, <1>6, <1>11, <1>13, Zenon DEF Reads
  <1> QED BY <1>2, <1>14, Zenon DEF h, g

\* a line of a block: whitespace and the next token
LEMMA LineReads ==
    ASSUME SourceOK, NEW f \in FilterType, NEW p, p \in 1..Len(source),
           NEW q, q = p + 1, q \in 1..Len(source), q < Len(source),
           f.type[p] = "WS", f.type[q] # "INDENT", f.statementContinues => Continued,
           NEW g \in FilterType, g.read = q, g.type = f.type, g.buffer = f.buffer,
           g.block = f.block, g.statementContinues => f.statementContinues,
           NEW n \in Nat, n <= f.numIndents, g.numIndents = n,
           g.indentBuffer = ((f.indentBuffer \o <<p>>) \o <<q>>)
                                \o Dedents(f.numIndents - n)
    PROVE  Reads(f, g, p)
  <1> DEFINE y == <<q>>
             k == f.numIndents - n
  <1>0. p \in Nat /\ q \in Nat
    BY SourceFacts
  <1>1. f.indentBuffer \in Seq(Nat) /\ f.numIndents \in Nat /\ k \in Nat
    <2>1. f.indentBuffer \in Seq(Nat) /\ f.numIndents \in Nat
      BY DEF FilterType
    <2> QED BY <2>1
  <1>2. ((f.indentBuffer \o <<p>>) \o <<q>>) \o Dedents(k)
        = Shape(f.indentBuffer, p, 0, <<q>>, k)
    <2> HIDE DEF k
    <2>1. Chain(Chain(Chain(f.indentBuffer, Just(p)), Just(q)), Dedents(k))
          = Shape(f.indentBuffer, p, 0, Just(q), k)
      BY <1>0, <1>1, ShapeEndsLast
    <2> QED BY <2>1, Zenon DEF Chain, Just
  <1>3. y = <<p + 1>> /\ y \in Seq(Nat) /\ 0 \in Nat
    BY <1>0
  <1>4. g.indentBuffer = Shape(f.indentBuffer, p, 0, y, k)
    BY <1>2, Zenon
  <1>5. g.numIndents = ((IF g.type[p] = "INDENT" THEN 1 ELSE 0) + f.numIndents) - (0 + k)
    BY <1>1
  <1>6. Changed(f, g, p)
    BY DEF Changed
  <1> HIDE DEF y, k
  <1>7. ReadsAs(f, g, p, 0, y, k)
    BY <1>3, <1>4, <1>5, <1>6 DEF ReadsAs, Reading
  <1> QED BY <1>1, <1>3, <1>7, Zenon DEF Reads

LEMMA IndentedReads ==
    ASSUME SourceOK, NEW f \in FilterType, NEW p, p \in 1..Len(source),
           NEW q, q = p + 1, q \in 1..Len(source), f.numIndents > 0,
           f.type[p] = "WS", f.type[q] # "INDENT", f.type[q] = "EOF" <=> q = Len(source),
           f.statementContinues => Continued
    PROVE  Reads(f, Indented(f, p, q), p)
  <1>0. p \in Nat /\ q \in Nat /\ Len(source) \in Nat /\ source[p].length \in Nat \ {0}
    BY SourceFacts
  <1>1. CASE f.type[q] = "EOF"
    <2>1. Indented(f, p, q)
          = Push(Dedent(Push([f EXCEPT !.read = q, !.type[p] = "WS_EOL"], p), 0), q)
      BY <1>1, Zenon DEF Indented
    <2>2. Reads(f, Push(Dedent(Push([f EXCEPT !.read = q, !.type[p] = "WS_EOL"], p),
                               0), q), p)
      BY <1>1, EndReads
    <2> QED BY <2>1, <2>2, Zenon
  <1>2. CASE f.type[q] # "EOF"
    <2> DEFINE e == [f EXCEPT !.read = q]
               b == Push(e, p)
               c == Push(b, q)
               g == Checked(c, q)
               h == Measured(g, source[p].length)
               expected == Ceiling(source[p].length, h.numSpacesPerIndent)
               i == [g EXCEPT !.statementContinues = FALSE]
               n == f.numIndents
    <2>0. q < Len(source)
      BY <1>0, <1>2
    <2>1. Indented(f, p, q)
          = IF f.type[q] = "COMMENT" \/ f.statementContinues THEN i
            ELSE IF expected < n THEN Dedent(h, expected) ELSE h
      BY <1>2, Zenon DEF Indented
    <2>2. /\ e \in FilterType /\ e.read = q /\ e.type = f.type
          /\ e.indentBuffer = f.indentBuffer /\ e.buffer = f.buffer /\ e.block = f.block
          /\ e.numIndents = n /\ e.statementContinues = f.statementContinues
          /\ n \in Nat /\ f.indentBuffer \in Seq(Nat)
      BY <1>0 DEF FilterType
    <2> HIDE DEF e, n
    <2>3. /\ b \in FilterType /\ Adds(e, b, <<p>>) /\ b.numIndents = n
          /\ b.statementContinues = f.statementContinues
      BY <1>0, <2>2, PushFacts
    <2> HIDE DEF b
    <2>4. /\ c \in FilterType /\ Adds(b, c, <<q>>) /\ c.numIndents = n
          /\ c.statementContinues = f.statementContinues
      BY <1>0, <2>3, PushFacts
    <2> HIDE DEF c
    <2>5. /\ c.indentBuffer = (f.indentBuffer \o <<p>>) \o <<q>>
          /\ c.read = q /\ c.type = f.type /\ c.buffer = f.buffer /\ c.block = f.block
      BY <2>2, <2>3, <2>4, Zenon DEF Adds
    <2>6. g \in FilterType /\ Same(c, g)
      BY <2>4, CheckedFacts
    <2> HIDE DEF g
    <2>7. g.numIndents > 0
      BY <2>4, <2>6 DEF Same, n
    <2>8. h \in FilterType /\ Same(g, h) /\ h.numSpacesPerIndent \in Nat \ {0}
      BY <1>0, <2>6, <2>7, MeasuredFacts
    <2> HIDE DEF h
    <2>9. expected \in Nat \ {0}
      BY <1>0, <2>8, CeilingFacts
    <2> HIDE DEF expected
    <2>10. /\ i \in FilterType /\ i.statementContinues = FALSE
           /\ i.indentBuffer = g.indentBuffer /\ i.read = g.read /\ i.type = g.type
           /\ i.buffer = g.buffer /\ i.block = g.block /\ i.numIndents = g.numIndents
      BY <2>6 DEF FilterType
    <2> HIDE DEF i
    <2>11. ASSUME NEW k \in FilterType,
                  k.read = g.read, k.type = g.type, k.buffer = g.buffer,
                  k.block = g.block, k.numIndents = g.numIndents,
                  k.statementContinues => g.statementContinues,
                  k.indentBuffer = g.indentBuffer
           PROVE  Reads(f, k, p)
      <3>1. /\ k.read = q /\ k.type = f.type /\ k.buffer = f.buffer
            /\ k.block = f.block /\ (k.statementContinues => f.statementContinues)
            /\ k.numIndents = n /\ n <= n
        BY <2>2, <2>4, <2>5, <2>6, <2>11 DEF Same
      <3>2. k.indentBuffer = (f.indentBuffer \o <<p>>) \o <<q>>
        BY <2>5, <2>6, <2>11, Zenon DEF Same
      <3>3. ((f.indentBuffer \o <<p>>) \o <<q>>) \o Dedents(n - n)
            = (f.indentBuffer \o <<p>>) \o <<q>>
        <4> DEFINE s == (f.indentBuffer \o <<p>>) \o <<q>>
        <4>1. s \in Seq(Nat)
          BY <1>0, <2>2
        <4> HIDE DEF s
        <4>2. n - n = 0 /\ s \o << >> = s
          BY <2>2, <4>1
        <4>3. s \o Dedents(n - n) = s
          BY <4>2, NoDedents
        <4> QED BY <4>3 DEF s
      <3> DEFINE s == k.indentBuffer
      <3>4. s = ((f.indentBuffer \o <<p>>) \o <<q>>) \o Dedents(f.numIndents - n)
        BY <3>2, <3>3, Zenon DEF n
      <3> HIDE DEF s
      <3> QED BY <2>0, <2>2, <3>1, <3>4, LineReads DEF s, n
    <2>12. Reads(f, i, p) /\ Reads(f, h, p)
      BY <2>6, <2>8, <2>10, <2>11 DEF Same
    <2>13. ASSUME expected < n PROVE Reads(f, Dedent(h, expected), p)
      <3> DEFINE k == Dedent(h, expected)
      <3>1. /\ h.numIndents = n /\ expected \in Nat /\ expected <= n
        BY <2>2, <2>4, <2>6, <2>8, <2>9, <2>13 DEF Same
      <3>2. /\ k \in FilterType /\ Adds(h, k, Dedents(n - expected))
            /\ k.numIndents = expected /\ k.statementContinues = h.statementContinues
        BY <2>8, <3>1, DedentFacts
      <3> HIDE DEF k
      <3>3. k.indentBuffer
            = ((f.indentBuffer \o <<p>>) \o <<q>>) \o Dedents(f.numIndents - expected)
        BY <2>5, <2>6, <2>8, <3>2, Zenon DEF Same, Adds, n
      <3>4. /\ k.read = q /\ k.type = f.type /\ k.buffer = f.buffer
            /\ k.block = f.block /\ (k.statementContinues => f.statementContinues)
        BY <2>4, <2>5, <2>6, <2>8, <3>2 DEF Same, Adds
      <3>5. Reads(f, k, p)
        BY <2>0, <3>1, <3>2, <3>3, <3>4, LineReads DEF n
      <3> QED BY <3>5 DEF k
    <2> QED BY <2>1, <2>12, <2>13
  <1> QED BY <1>1, <1>2

\* the types where p is an INDENT
Marked(type, p) == [type EXCEPT ![p] = "INDENT"]

\* the state after a token p is looked at
Seen(f, p) == Continuation(StartBlock(Record(CheckOneLine(f, p), p), p), p)

LEMMA SeenFacts ==
    ASSUME NEW f \in FilterType, NEW p, p \in Nat, p \in 1..Len(source)
    PROVE  LET h == Seen(f, p)
           IN  /\ h \in FilterType
               /\ h.read = f.read /\ h.buffer = f.buffer /\ h.block = f.block
               /\ h.indentBuffer = f.indentBuffer
               /\ \/ h.type = f.type /\ h.numIndents = f.numIndents
                  \/ /\ f.type[p] = "COLON" /\ h.type = Marked(f.type, p)
                     /\ h.numIndents = f.numIndents + 1
               /\ h.statementContinues =>
                     f.statementContinues \/ f.type[p] = "EOL_BACKSLASH"
  <1> DEFINE a == CheckOneLine(f, p)
             b == Record(a, p)
             c == StartBlock(b, p)
             h == Continuation(c, p)
  <1>1. a \in FilterType /\ Same(f, a)
    BY CheckOneLineFacts
  <1> HIDE DEF a
  <1>2. b \in FilterType /\ Same(a, b)
    BY <1>1, RecordFacts
  <1> HIDE DEF b
  <1>3. c \in FilterType /\ (Same(b, c) \/ Begins(b, c, p))
    BY <1>2, StartBlockFacts
  <1> HIDE DEF c
  <1>4. h \in FilterType /\ Goes(c, h, p)
    BY <1>3, ContinuationFacts
  <1> HIDE DEF h
  <1>5. Same(f, b)
    BY <1>1, <1>2 DEF Same
  <1>6. CASE Same(b, c)
    <2>1. Same(f, c)
      BY <1>5, <1>6 DEF Same
    <2>2. /\ h.read = f.read /\ h.buffer = f.buffer /\ h.block = f.block
          /\ h.indentBuffer = f.indentBuffer
          /\ h.type = f.type /\ h.numIndents = f.numIndents
          /\ h.statementContinues =>
                f.statementContinues \/ f.type[p] = "EOL_BACKSLASH"
      BY <1>4, <2>1 DEF Goes, Same
    <2> QED BY <1>4, <2>2 DEF Seen, h, c, b, a
  <1>7. CASE Begins(b, c, p)
    <2>1. c.type[p] = "INDENT"
      <3>1. b.type \in [1..Len(source) -> Types]
        BY <1>2 DEF FilterType
      <3> QED BY <1>7, <3>1 DEF Begins
    <2>2. /\ f.type[p] = "COLON" /\ c.type = Marked(f.type, p)
          /\ c.numIndents = f.numIndents + 1 /\ c.read = f.read
          /\ c.buffer = f.buffer /\ c.indentBuffer = f.indentBuffer
          /\ c.block = f.block /\ c.statementContinues = f.statementContinues
      BY <1>5, <1>7, Zenon DEF Begins, Same, Marked
    <2>3. /\ h.read = f.read /\ h.buffer = f.buffer /\ h.block = f.block
          /\ h.indentBuffer = f.indentBuffer
          /\ h.type = Marked(f.type, p) /\ h.numIndents = f.numIndents + 1
          /\ h.statementContinues => f.statementContinues
      BY <1>4, <2>1, <2>2 DEF Goes
    <2> QED BY <1>4, <2>2, <2>3 DEF Seen, h, c, b, a
  <1> QED BY <1>3, <1>6, <1>7

LEMMA EndOneLineFacts ==
    ASSUME NEW f \in FilterType, NEW p \in Nat, f.numIndents > 0
    PROVE  LET g == EndOneLine(f, p)
           IN  /\ g \in FilterType
               /\ g.indentBuffer = (f.indentBuffer \o <<p>>) \o Dedents(1)
               /\ g.read = f.read /\ g.type = f.type /\ g.buffer = f.buffer
               /\ g.block = f.block /\ g.numIndents = f.numIndents - 1
               /\ g.statementContinues = f.statementContinues
  <1> DEFINE n == f.numIndents
             b == Push(f, p)
             c == Dedent(b, n - 1)
             g == [c EXCEPT !.isOneLineStatement = FALSE]
  <1>1. n \in Nat /\ n - 1 \in Nat /\ n - (n - 1) = 1 /\ n - 1 <= n
    <2>1. n \in Nat
      BY DEF FilterType
    <2> QED BY <2>1
  <1>2. /\ b \in FilterType /\ Adds(f, b, <<p>>) /\ b.numIndents = n
        /\ b.statementContinues = f.statementContinues
    BY PushFacts
  <1> HIDE DEF b
  <1>3. /\ c \in FilterType /\ Adds(b, c, Dedents(b.numIndents - (n - 1)))
        /\ c.numIndents = n - 1 /\ c.statementContinues = b.statementContinues
    BY <1>1, <1>2, DedentFacts
  <1> HIDE DEF c
  <1>4. /\ g \in FilterType
        /\ g.indentBuffer = c.indentBuffer /\ g.read = c.read /\ g.type = c.type
        /\ g.buffer = c.buffer /\ g.block = c.block /\ g.numIndents = c.numIndents
        /\ g.statementContinues = c.statementContinues
    BY <1>3 DEF FilterType
  <1> HIDE DEF g
  <1>5. g.indentBuffer = (f.indentBuffer \o <<p>>) \o Dedents(1)
    BY <1>1, <1>2, <1>3, <1>4, Zenon DEF Adds
  <1>6. /\ g.read = f.read /\ g.type = f.type /\ g.buffer = f.buffer
        /\ g.block = f.block /\ g.numIndents = n - 1
        /\ g.statementContinues = f.statementContinues
    BY <1>2, <1>3, <1>4 DEF Adds
  <1> QED BY <1>4, <1>5, <1>6, Zenon DEF EndOneLine, g, c, b, n

LEMMA ReadsSame ==
    ASSUME NEW f, NEW h, NEW p, NEW g, Reads(h, g, p),
           f.indentBuffer = h.indentBuffer, f.buffer = h.buffer, f.block = h.block,
           f.type = h.type, f.numIndents = h.numIndents
    PROVE  Reads(f, g, p)
  <1>1. PICK a \in Nat, b \in Nat, y \in Seq(Nat) : ReadsAs(h, g, p, a, y, b)
    BY DEF Reads
  <1>2. ReadsAs(f, g, p, a, y, b)
    BY <1>1 DEF ReadsAs, Reading, Changed
  <1>3. g \in FilterType
    BY DEF Reads
  <1> QED BY <1>2, <1>3 DEF Reads

LEMMA OneLineReads ==
    ASSUME SourceOK, NEW f \in FilterType, NEW p, p \in 1..Len(source), p < Len(source),
           f.read = p, f.numIndents > 0, f.type[p] = "EOL", f.statementContinues => Continued,
           NEW h \in FilterType, h.read = p, h.buffer = f.buffer, h.block = f.block,
           h.type = f.type, h.numIndents = f.numIndents - 1,
           h.indentBuffer = (f.indentBuffer \o <<p>>) \o Dedents(1),
           h.statementContinues => Continued
    PROVE  /\ Reads(f, h, p)
           /\ h.statementContinues =>
                 Reads(f, [Dedent(Push(h, p), 0) EXCEPT !.statementContinues = FALSE], p)
  <1> DEFINE g == Dedent(Push(h, p), 0)
             k == [g EXCEPT !.statementContinues = FALSE]
             n == f.numIndents - 1
  <1>0. p \in Nat /\ f.indentBuffer \in Seq(Nat) /\ f.numIndents \in Nat
    BY SourceFacts DEF FilterType
  <1>1. n \in Nat /\ f.numIndents = n + 1
    BY <1>0
  <1>2. h.indentBuffer = Shape(f.indentBuffer, p, 1, << >>, 0)
    <2>1. Chain(Chain(f.indentBuffer, Just(p)), Dedents(1))
          = Shape(f.indentBuffer, p, 1, << >>, 0)
      BY <1>0, ShapeEnds
    <2> QED BY <2>1, Zenon DEF Chain, Just
  <1>3. Changed(f, h, p)
    BY DEF Changed
  <1> HIDE DEF n
  <1>4. ReadsAs(f, h, p, 1, << >>, 0)
    <2>1. h.numIndents = ((IF h.type[p] = "INDENT" THEN 1 ELSE 0) + f.numIndents) - (1 + 0)
      BY <1>0
    <2> QED BY <1>2, <1>3, <2>1 DEF ReadsAs, Reading
  <1>5. Reads(f, h, p)
    <2>1. 1 \in Nat /\ 0 \in Nat /\ << >> \in Seq(Nat)
      OBVIOUS
    <2> QED BY <1>4, <2>1, Zenon DEF Reads
  <1>6. /\ g \in FilterType
        /\ g.indentBuffer = (h.indentBuffer \o <<p>>) \o Dedents(h.numIndents)
        /\ g.read = h.read /\ g.type = h.type /\ g.buffer = h.buffer
        /\ g.block = h.block /\ g.numIndents = 0
    BY <1>0, PushDedentFacts
  <1> HIDE DEF g
  <1>7. /\ k \in FilterType /\ k.statementContinues = FALSE
        /\ k.indentBuffer = g.indentBuffer /\ k.read = g.read /\ k.type = g.type
        /\ k.buffer = g.buffer /\ k.block = g.block /\ k.numIndents = g.numIndents
    BY <1>6, ZenonT(60) DEF FilterType
  <1> HIDE DEF k
  <1> DEFINE y == Just(p)
  <1>8. y = <<p>> /\ y \in Seq(Nat) /\ 1 \in Nat
    BY <1>0 DEF Just
  <1>9. k.indentBuffer = Shape(f.indentBuffer, p, 1, y, n)
    <2>1. Chain(Chain(Chain(Chain(f.indentBuffer, Just(p)), Dedents(1)), Just(p)), Dedents(n))
          = Shape(f.indentBuffer, p, 1, Just(p), n)
      BY <1>0, <1>1, ShapeLine
    <2> QED BY <1>6, <1>7, <2>1, Zenon DEF Chain, Just, n
  <1> HIDE DEF y
  <1>10. ASSUME h.statementContinues PROVE Reads(f, k, p)
    <2>1. k.numIndents = ((IF k.type[p] = "INDENT" THEN 1 ELSE 0) + f.numIndents) - (1 + n)
      BY <1>1, <1>6, <1>7
    <2>2. Changed(f, k, p)
      BY <1>6, <1>7 DEF Changed
    <2>3. ReadsAs(f, k, p, 1, y, n)
      BY <1>6, <1>7, <1>8, <1>9, <1>10, <2>1, <2>2 DEF ReadsAs, Reading
    <2> QED BY <1>1, <1>7, <1>8, <2>3, Zenon DEF Reads
  <1> QED BY <1>5, <1>10 DEF k, g

LEMMA HandledReads ==
    ASSUME SourceOK, NEW f \in FilterType, NEW p, p \in 1..Len(source),
           f.read = p, f.numIndents > 0, f.statementContinues => Continued,
           f.type[p] = source[p].type,
           p + 1 \in 1..Len(source) => f.type[p + 1] = source[p + 1].type
    PROVE  Reads(f, Handled(f, p), p)
  <1> DEFINE one == EndsOneLine(f, p)
             g == IF one THEN EndOneLine(f, p) ELSE f
             h == Seen(g, p)
             k == Handled(f, p)
             d == Dedent(Push(h, p), 0)
             e == [d EXCEPT !.statementContinues = FALSE]
  <1>0. /\ p \in Nat /\ Len(source) \in Nat \ {0}
        /\ f.type[p] # "INDENT" /\ (f.type[p] = "EOF" <=> p = Len(source))
        /\ f.type[p] = "EOL_BACKSLASH" => Continued
        /\ f.numIndents \in Nat /\ f.type \in [1..Len(source) -> Types]
        /\ f.indentBuffer \in Seq(Nat)
    <2>1. p \in Nat /\ Len(source) \in Nat \ {0}
      BY SourceFacts
    <2>2. f.type[p] # "INDENT" /\ (f.type[p] = "EOF" <=> p = Len(source))
      BY DEF SourceOK
    <2>3. f.type[p] = "EOL_BACKSLASH" => Continued
      BY DEF Continued
    <2>4. /\ f.numIndents \in Nat /\ f.type \in [1..Len(source) -> Types]
          /\ f.indentBuffer \in Seq(Nat)
      BY DEF FilterType
    <2> QED BY <2>1, <2>2, <2>3, <2>4
  <1>1. k = IF h.statementContinues /\ h.type[p] \in LineEnds THEN e
            ELSE IF Indents(h, p) THEN Indented(h, p, p + 1)
            ELSE IF ClosesAll(h, p) THEN d
            ELSE IF one THEN h ELSE Push(h, p)
    BY Zenon DEF Handled, Seen
  <1>2. CASE one
    <2>1. g = EndOneLine(f, p) /\ f.type[p] = "EOL"
      BY <1>2 DEF EndsOneLine
    <2> HIDE DEF g
    <2>2. /\ g \in FilterType
          /\ g.indentBuffer = (f.indentBuffer \o <<p>>) \o Dedents(1)
          /\ g.read = f.read /\ g.type = f.type /\ g.buffer = f.buffer
          /\ g.block = f.block /\ g.numIndents = f.numIndents - 1
          /\ g.statementContinues = f.statementContinues
      BY <1>0, <2>1, EndOneLineFacts
    <2>3. /\ h \in FilterType
          /\ h.read = g.read /\ h.buffer = g.buffer /\ h.block = g.block
          /\ h.indentBuffer = g.indentBuffer
          /\ \/ h.type = g.type /\ h.numIndents = g.numIndents
             \/ /\ g.type[p] = "COLON" /\ h.type = Marked(g.type, p)
                /\ h.numIndents = g.numIndents + 1
          /\ h.statementContinues =>
                g.statementContinues \/ g.type[p] = "EOL_BACKSLASH"
      BY <1>0, <2>2, SeenFacts, ZenonT(60)
    <2> HIDE DEF h
    <2>4. h.type = f.type /\ h.numIndents = f.numIndents - 1
      BY <2>1, <2>2, <2>3
    <2>5. /\ h.read = p /\ h.buffer = f.buffer /\ h.block = f.block
          /\ h.statementContinues => Continued
      BY <1>0, <2>2, <2>3
    <2>6. h.indentBuffer = (f.indentBuffer \o <<p>>) \o Dedents(1)
      BY <2>2, <2>3, Zenon
    <2>7. p < Len(source)
      BY <1>0, <2>1
    <2>8. Reads(f, h, p) /\ (h.statementContinues => Reads(f, e, p))
      BY <2>1, <2>3, <2>4, <2>5, <2>6, <2>7, OneLineReads
    <2>9. ~ Indents(h, p) /\ ~ ClosesAll(h, p) /\ h.type[p] \in LineEnds
      BY <2>1, <2>4 DEF Indents, ClosesAll, Blank, LineEnds
    <2> HIDE DEF k, e, d
    <2>10. Reads(f, k, p)
      BY <1>1, <1>2, <2>8, <2>9
    <2> QED BY <2>10 DEF k
  <1>3. CASE ~ one
    <2>1. g = f
      BY <1>3
    <2> HIDE DEF g
    <2>2. /\ h \in FilterType
          /\ h.read = f.read /\ h.buffer = f.buffer /\ h.block = f.block
          /\ h.indentBuffer = f.indentBuffer
          /\ \/ h.type = f.type /\ h.numIndents = f.numIndents
             \/ /\ f.type[p] = "COLON" /\ h.type = Marked(f.type, p)
                /\ h.numIndents = f.numIndents + 1
          /\ h.statementContinues =>
                f.statementContinues \/ f.type[p] = "EOL_BACKSLASH"
      <3> DEFINE j == Seen(f, p)
      <3>1. /\ j \in FilterType
            /\ j.read = f.read /\ j.buffer = f.buffer /\ j.block = f.block
            /\ j.indentBuffer = f.indentBuffer
            /\ \/ j.type = f.type /\ j.numIndents = f.numIndents
               \/ /\ f.type[p] = "COLON" /\ j.type = Marked(f.type, p)
                  /\ j.numIndents = f.numIndents + 1
            /\ j.statementContinues =>
                  f.statementContinues \/ f.type[p] = "EOL_BACKSLASH"
        <4>1. p \in Nat /\ p \in 1..Len(source)
          BY <1>0
        <4> QED BY <4>1, SeenFacts
      <3>2. h = j
        BY <2>1, Zenon
      <3> HIDE DEF h, j
      <3> QED BY <3>1, <3>2, Zenon
    <2> HIDE DEF h
    <2>3. /\ \/ h.type = f.type
             \/ f.type[p] = "COLON" /\ h.type = Marked(f.type, p)
          /\ h.type[p] = "INDENT" => f.type[p] = "COLON"
          /\ h.type[p] # "INDENT" => h.type = f.type
          /\ h.numIndents = f.numIndents + (IF h.type[p] = "INDENT" THEN 1 ELSE 0)
      BY <1>0, <2>2 DEF Marked
    <2>4. Changed(f, h, p)
      BY <1>0, <2>3 DEF Changed, Marked
    <2>5. h.statementContinues => Continued
      BY <1>0, <2>2
    <2>6. ASSUME h.type[p] = "INDENT" => f.type[p] = "COLON" /\ source[p].column = 1
          PROVE  Reads(f, d, p) /\ Reads(f, e, p)
      BY <2>2, <2>3, <2>4, <2>5, <2>6, DedentReads
    <2>7. ASSUME h.statementContinues, h.type[p] \in LineEnds
          PROVE  Reads(f, k, p)
      <3>1. h.type[p] # "INDENT"
        BY <2>7 DEF LineEnds
      <3>2. k = e
        BY <1>1, <2>7
      <3> HIDE DEF k, e, d
      <3> QED BY <2>6, <3>1, <3>2
    <2>8. ASSUME ~ (h.statementContinues /\ h.type[p] \in LineEnds), Indents(h, p)
          PROVE  Reads(f, k, p)
      <3>1. k = Indented(h, p, p + 1)
        BY <1>1, <2>8
      <3>2. h.type[p] = "WS" /\ h.type = f.type /\ h.numIndents = f.numIndents
        BY <2>3, <2>8, <1>0 DEF Indents
      <3>3. p + 1 \in 1..Len(source)
        <4>1. f.type[p] # "EOF"
          BY <3>2
        <4> QED BY <1>0, <4>1
      <3>4. h.type[p + 1] # "INDENT" /\ (h.type[p + 1] = "EOF" <=> p + 1 = Len(source))
        BY <3>2, <3>3 DEF SourceOK
      <3>5. Reads(h, Indented(h, p, p + 1), p)
        BY <2>2, <2>5, <3>2, <3>3, <3>4, IndentedReads
      <3>6. Reads(f, Indented(h, p, p + 1), p)
        BY <2>2, <3>2, <3>5, ReadsSame
      <3> QED BY <3>1, <3>6, Zenon
    <2>9. ASSUME ~ (h.statementContinues /\ h.type[p] \in LineEnds), ~ Indents(h, p),
                 ClosesAll(h, p)
          PROVE  Reads(f, k, p)
      <3>1. k = d
        BY <1>1, <2>9
      <3>2. h.type[p] = "INDENT" => f.type[p] = "COLON" /\ source[p].column = 1
        BY <2>3, <2>9 DEF ClosesAll
      <3> HIDE DEF k, e, d
      <3> QED BY <2>6, <3>1, <3>2
    <2>10. ASSUME ~ (h.statementContinues /\ h.type[p] \in LineEnds), ~ Indents(h, p),
                  ~ ClosesAll(h, p)
           PROVE  Reads(f, k, p)
      <3> DEFINE q == Push(h, p)
      <3>1. k = q
        BY <1>1, <1>3, <2>10
      <3> HIDE DEF k
      <3>2. /\ q \in FilterType /\ Adds(h, q, <<p>>) /\ q.numIndents = h.numIndents
            /\ q.statementContinues = h.statementContinues
        BY <1>0, <2>2, PushFacts
      <3> HIDE DEF q
      <3>3. q.indentBuffer = Shape(f.indentBuffer, p, 0, << >>, 0)
        <4>1. Chain(f.indentBuffer, Just(p)) = Shape(f.indentBuffer, p, 0, << >>, 0)
          BY <1>0, ShapeToken
        <4> QED BY <2>2, <3>2, <4>1, Zenon DEF Chain, Just, Adds
      <3>4. /\ q.read = p /\ q.type = h.type /\ q.buffer = f.buffer /\ q.block = f.block
            /\ q.statementContinues => Continued
        BY <2>2, <2>5, <3>2 DEF Adds
      <3>5. q.numIndents
            = ((IF q.type[p] = "INDENT" THEN 1 ELSE 0) + f.numIndents) - (0 + 0)
        BY <1>0, <2>3, <3>2, <3>4
      <3>6. p < Len(source)
        <4>1. h.numIndents > 0
          BY <1>0, <2>3
        <4>2. h.type[p] # "EOF"
          BY <2>10, <4>1 DEF ClosesAll
        <4>3. f.type[p] # "EOF"
          BY <2>3, <4>2
        <4> QED BY <1>0, <4>3
      <3>7. Changed(f, q, p)
        BY <2>4, <3>4 DEF Changed
      <3>8. ReadsAs(f, q, p, 0, << >>, 0)
        BY <3>3, <3>4, <3>5, <3>6, <3>7 DEF ReadsAs, Reading
      <3>9. 0 \in Nat /\ << >> \in Seq(Nat)
        OBVIOUS
      <3>10. Reads(f, q, p)
        BY <3>2, <3>8, <3>9, Zenon DEF Reads
      <3> QED BY <3>1, <3>10
    <2> QED BY <2>7, <2>8, <2>9, <2>10
  <1> QED BY <1>2, <1>3

LEMMA IterationReads ==
    ASSUME SourceOK, NEW f \in FilterType, NEW p, p = f.read + 1,
           f.numIndents > 0, f.read < Len(source), f.statementContinues => Continued,
           Retyped(f)
    PROVE  Reads(f, Iteration(f, p), p) /\ p \in 1..Len(source)
  <1> DEFINE g == Read(f, p)
             c == [g EXCEPT !.stopCounting = @ \/ g.numTokensAfterIndent > 2]
             h == Checked(c, p)
             b == Push(g, p)
             d == [b EXCEPT !.isOneLineStatement = FALSE, !.checkOneLineStatement = FALSE,
                            !.stopCounting = TRUE]
  <1>0. /\ f.read \in Nat /\ Len(source) \in Nat \ {0} /\ p \in Nat /\ p \in 1..Len(source)
        /\ f.numIndents \in Nat /\ f.indentBuffer \in Seq(Nat)
    <2>1. f.read \in Nat /\ f.numIndents \in Nat /\ f.indentBuffer \in Seq(Nat)
      BY DEF FilterType
    <2>2. Len(source) \in Nat \ {0}
      BY SourceFacts
    <2> QED BY <2>1, <2>2
  <1>1. /\ f.type[p] = source[p].type
        /\ p + 1 \in 1..Len(source) => f.type[p + 1] = source[p + 1].type
    <2>1. ~ (p <= f.read) /\ ~ (p + 1 <= f.read)
      BY <1>0
    <2>2. \A r \in 1..Len(source) : f.type[r] = source[r].type \/ r <= f.read
      BY DEF Retyped
    <2> QED BY <1>0, <2>1, <2>2
  <1>2. /\ g \in FilterType /\ g.read = p /\ g.type = f.type /\ g.buffer = f.buffer
        /\ g.indentBuffer = f.indentBuffer /\ g.numIndents = f.numIndents
        /\ g.block = f.block /\ g.statementContinues = f.statementContinues
    <2> DEFINE n == IF f.stopCounting THEN f.numTokensAfterIndent
                    ELSE f.numTokensAfterIndent + 1
    <2>1. n \in Nat
      BY DEF FilterType
    <2>2. g = [f EXCEPT !.read = p, !.numTokensAfterIndent = n]
      BY Zenon DEF Read
    <2> HIDE DEF n, g
    <2> QED BY <1>0, <2>1, <2>2 DEF FilterType
  <1>3. Iteration(f, p) = IF BackslashAfterIndent(g, p) THEN d ELSE Handled(h, p)
    BY Zenon DEF Iteration
  <1> HIDE DEF g
  <1>4. CASE BackslashAfterIndent(g, p)
    <2>1. f.type[p] = "EOL_BACKSLASH"
      BY <1>2, <1>4 DEF BackslashAfterIndent
    <2>2. /\ b \in FilterType /\ Adds(g, b, <<p>>) /\ b.numIndents = g.numIndents
          /\ b.statementContinues = g.statementContinues
      BY <1>0, <1>2, PushFacts
    <2> HIDE DEF b
    <2>3. /\ d \in FilterType /\ d.read = b.read /\ d.type = b.type /\ d.buffer = b.buffer
          /\ d.indentBuffer = b.indentBuffer /\ d.numIndents = b.numIndents
          /\ d.block = b.block /\ d.statementContinues = b.statementContinues
      BY <2>2, ZenonT(60) DEF FilterType
    <2> HIDE DEF d
    <2>4. d.indentBuffer = Shape(f.indentBuffer, p, 0, << >>, 0)
      <3>1. Chain(f.indentBuffer, Just(p)) = Shape(f.indentBuffer, p, 0, << >>, 0)
        BY <1>0, ShapeToken
      <3> QED BY <1>2, <2>2, <2>3, <3>1, Zenon DEF Chain, Just, Adds
    <2>5. /\ d.read = p /\ d.type = f.type /\ d.buffer = f.buffer /\ d.block = f.block
          /\ d.numIndents = f.numIndents /\ (d.statementContinues => Continued)
      BY <1>2, <2>2, <2>3 DEF Adds
    <2>6. p < Len(source)
      <3>1. source[p].type # "EOF"
        BY <1>1, <2>1
      <3> QED BY <1>0, <3>1 DEF SourceOK
    <2>7. d.numIndents
          = ((IF d.type[p] = "INDENT" THEN 1 ELSE 0) + f.numIndents) - (0 + 0)
      BY <1>0, <2>1, <2>5
    <2>8. Changed(f, d, p)
      BY <2>5 DEF Changed
    <2>9. ReadsAs(f, d, p, 0, << >>, 0)
      BY <2>4, <2>5, <2>6, <2>7, <2>8 DEF ReadsAs, Reading
    <2>10. 0 \in Nat /\ << >> \in Seq(Nat)
      OBVIOUS
    <2>11. Reads(f, d, p)
      BY <2>3, <2>9, <2>10, Zenon DEF Reads
    <2> QED BY <1>0, <1>3, <1>4, <2>11
  <1>5. CASE ~ BackslashAfterIndent(g, p)
    <2>1. c \in FilterType /\ Same(g, c)
      <3> DEFINE t == g.stopCounting \/ g.numTokensAfterIndent > 2
      <3>1. t \in BOOLEAN
        BY <1>2 DEF FilterType
      <3>2. c = [g EXCEPT !.stopCounting = t]
        OBVIOUS
      <3> HIDE DEF t, c
      <3> QED BY <1>2, <3>1, <3>2 DEF FilterType, Same
    <2> HIDE DEF c
    <2>2. h \in FilterType /\ Same(c, h)
      BY <2>1, CheckedFacts
    <2> HIDE DEF h
    <2>3. Same(g, h)
      BY <2>1, <2>2 DEF Same
    <2>4. /\ h.read = p /\ h.numIndents > 0 /\ (h.statementContinues => Continued)
          /\ h.type[p] = source[p].type
          /\ p + 1 \in 1..Len(source) => h.type[p + 1] = source[p + 1].type
          /\ f.indentBuffer = h.indentBuffer /\ f.buffer = h.buffer /\ f.block = h.block
          /\ f.type = h.type /\ f.numIndents = h.numIndents
      BY <1>1, <1>2, <2>3 DEF Same
    <2>5. Reads(h, Handled(h, p), p)
      BY <1>0, <2>2, <2>4, HandledReads
    <2>6. Reads(f, Handled(h, p), p)
      BY <2>4, <2>5, ReadsSame
    <2> QED BY <1>0, <1>3, <1>5, <2>6, Zenon
  <1> QED BY <1>4, <1>5

-----------------------------------------------------------------------------
(* Tokens read *)

LEMMA OrderedOne ==
    ASSUME NEW s \in Seq(Nat), NEW n \in Nat, Ordered(s, n), NEW x \in Nat,
           \/ x = n + 1
           \/ x = n /\ n # 0 /\ Continued /\ n < Len(source)
    PROVE  Ordered(s \o <<x>>, x)
  <1> DEFINE t == s \o <<x>>
             k == Len(s)
  <1>1. /\ k \in Nat /\ t \in Seq(Nat) /\ Len(t) = k + 1 /\ t[k + 1] = x
        /\ \A i \in 1..k : t[i] = s[i]
    OBVIOUS
  <1>2. s = << >> <=> k = 0
    OBVIOUS
  <1> HIDE DEF t, k
  <1>3. CASE k = 0
    <2>1. n = 0 /\ x = 1
      BY <1>2, <1>3 DEF Ordered
    <2>2. t # << >>
      BY <1>1
    <2>3. Stepwise(t)
      BY <1>1, <1>3 DEF Stepwise
    <2>4. Ordered(t, x)
      BY <1>1, <1>3, <2>1, <2>2, <2>3 DEF Ordered
    <2> QED BY <2>4 DEF t
  <1>4. CASE k # 0
    <2>1. s[1] = 1 /\ s[k] = n /\ Stepwise(s)
      BY <1>2, <1>4, Zenon DEF Ordered, k
    <2>2. t # << >> /\ t[1] = 1 /\ t[k] = n
      BY <1>1, <1>4, <2>1
    <2>3. SUFFICES Stepwise(t)
      <3>1. ASSUME Stepwise(t) PROVE Ordered(t, x)
        BY <1>1, <2>2, <3>1 DEF Ordered
      <3> QED BY <3>1 DEF t
    <2>4. SUFFICES ASSUME NEW i \in 1..(Len(t) - 1)
                   PROVE  \/ t[i + 1] = t[i] + 1
                          \/ t[i + 1] = t[i] /\ Continued /\ t[i] < Len(source)
      BY DEF Stepwise
    <2>5. CASE i = k
      BY <1>1, <2>2, <2>5
    <2>6. CASE i # k
      <3>1. i \in 1..(k - 1) /\ i \in 1..k /\ i + 1 \in 1..k
        BY <1>1, <2>6
      <3>2. \/ s[i + 1] = s[i] + 1
            \/ s[i + 1] = s[i] /\ Continued /\ s[i] < Len(source)
        BY <2>1, <3>1 DEF Stepwise, k
      <3> QED BY <1>1, <3>1, <3>2
    <2> QED BY <2>5, <2>6
  <1> QED BY <1>3, <1>4

LEMMA WithinConcat ==
    ASSUME NEW s \in Seq(Nat), NEW t \in Seq(Nat), NEW n \in Nat,
           Within(s, n), Within(t, n)
    PROVE  Within(s \o t, n)
  <1> DEFINE u == s \o t
  <1>1. /\ Len(u) = Len(s) + Len(t) /\ Len(s) \in Nat /\ Len(t) \in Nat
        /\ \A i \in 1..Len(s) : u[i] = s[i]
        /\ \A i \in 1..Len(t) : u[Len(s) + i] = t[i]
    OBVIOUS
  <1> HIDE DEF u
  <1>2. SUFFICES ASSUME NEW i \in 1..Len(u) PROVE u[i] <= n
    BY DEF Within, u
  <1>3. CASE i <= Len(s)
    BY <1>1, <1>3, SMTT(30) DEF Within
  <1>4. CASE i > Len(s)
    <2>1. i - Len(s) \in 1..Len(t) /\ i = Len(s) + (i - Len(s))
      BY <1>1, <1>4
    <2>2. u[i] = t[i - Len(s)]
      BY <1>1, <2>1
    <2> QED BY <2>1, <2>2 DEF Within
  <1> QED BY <1>1, <1>3, <1>4

LEMMA IndentsFacts ==
    ASSUME SourceOK, NEW t
    PROVE  DEDENT \notin IndentsOf(t) /\ DEDENT \notin 1..Len(source)
  BY SourceFacts DEF IndentsOf

\* the tokens that an iteration adds
New(p, a, y, b) == <<p>> \o (Dedents(a) \o (y \o Dedents(b)))

LEMMA NewFacts ==
    ASSUME NEW p \in Nat, NEW w, w = <<p>>, NEW a \in Nat, NEW y \in Seq(Nat), NEW b \in Nat
    PROVE  /\ New(p, a, y, b) \in Seq(Nat)
           /\ \A ps : Those(New(p, a, y, b), ps)
                      = Chain(Those(w, ps), Chain(Those(Dedents(a), ps),
                              Chain(Those(y, ps), Those(Dedents(b), ps))))
           /\ \A ps : Height(New(p, a, y, b), ps)
                      = Height(w, ps) + (Height(Dedents(a), ps)
                           + (Height(y, ps) + Height(Dedents(b), ps)))
  <1> DEFINE e == y \o Dedents(b)
             d == Dedents(a) \o e
  <1>1. w \in Seq(Nat) /\ Dedents(a) \in Seq(Nat) /\ Dedents(b) \in Seq(Nat)
    BY DedentsFacts
  <1>2. e \in Seq(Nat)
    BY <1>1, ConcatProperties
  <1>3. \A ps : /\ Those(e, ps) = Those(y, ps) \o Those(Dedents(b), ps)
                /\ Height(e, ps) = Height(y, ps) + Height(Dedents(b), ps)
    BY <1>1, ThoseConcat, HeightConcat
  <1> HIDE DEF e
  <1>4. d \in Seq(Nat)
    BY <1>1, <1>2, ConcatProperties
  <1>5. \A ps : /\ Those(d, ps) = Those(Dedents(a), ps) \o Those(e, ps)
                /\ Height(d, ps) = Height(Dedents(a), ps) + Height(e, ps)
    BY <1>1, <1>2, ThoseConcat, HeightConcat
  <1> HIDE DEF d
  <1>6. w \o d \in Seq(Nat)
    BY <1>1, <1>4, ConcatProperties
  <1>7. \A ps : /\ Those(w \o d, ps) = Those(w, ps) \o Those(d, ps)
                /\ Height(w \o d, ps) = Height(w, ps) + Height(d, ps)
    BY <1>1, <1>4, ThoseConcat, HeightConcat
  <1>8. New(p, a, y, b) = w \o d
    BY Zenon DEF New, d, e
  <1> QED BY <1>3, <1>5, <1>6, <1>7, <1>8, Zenon DEF Chain

\* what Reading says of y
Kept(g, p, y, q) ==
    \/ y = << >> /\ q = p
    \/ y = <<q>> /\ q = p /\ Continued /\ p < Len(source) /\ g.type[p] # "INDENT"
    \/ y = <<q>> /\ q = p + 1 /\ q \in 1..Len(source) /\ g.type[q] # "INDENT"

LEMMA KeptFacts ==
    ASSUME SourceOK, NEW p, p \in 1..Len(source), NEW q, NEW y, NEW g, Kept(g, p, y, q)
    PROVE  /\ y \in Seq(Nat) /\ q \in Nat
           /\ Within(y, q) /\ OfSource(y) = y
           /\ Level(y, IndentsOf(g.type))
           /\ \A s \in Seq(Nat) : Ordered(s, p) => Ordered(s \o y, q)
  <1>0. p \in Nat /\ p # 0 /\ Len(source) \in Nat
    BY SourceFacts DEF DEDENT
  <1>1. CASE y = << >> /\ q = p
    <2>1. y \in Seq(Nat) /\ Len(y) = 0 /\ q \in Nat
      BY <1>0, <1>1
    <2>2. Within(y, q) /\ Level(y, IndentsOf(g.type))
      BY <2>1 DEF Within, Level
    <2>3. OfSource(y) = y
      BY <1>1, ThoseNone DEF OfSource
    <2>4. \A s \in Seq(Nat) : Ordered(s, p) => Ordered(s \o y, q)
      BY <1>1, ConcatNone
    <2> QED BY <2>1, <2>2, <2>3, <2>4
  <1>2. CASE y # << >> \/ q # p
    <2>1. /\ y = <<q>> /\ q \in Nat /\ q \in 1..Len(source) /\ g.type[q] # "INDENT"
          /\ \/ q = p /\ Continued /\ p < Len(source)
             \/ q = p + 1
      BY <1>0, <1>2 DEF Kept
    <2>2. y \in Seq(Nat) /\ Len(y) = 1 /\ y[1] = q
      BY <2>1
    <2>3. Within(y, q)
      BY <2>1, <2>2 DEF Within
    <2>4. Level(y, IndentsOf(g.type))
      <3>1. q # DEDENT /\ q \notin IndentsOf(g.type)
        BY <2>1 DEF IndentsOf, DEDENT
      <3> QED BY <2>2, <3>1 DEF Level
    <2>5. OfSource(y) = y
      BY <2>1, ThoseOne DEF OfSource
    <2>6. \A s \in Seq(Nat) : Ordered(s, p) => Ordered(s \o y, q)
      BY <1>0, <2>1, OrderedOne
    <2> QED BY <2>1, <2>2, <2>3, <2>4, <2>5, <2>6
  <1> QED BY <1>1, <1>2

LEMMA IndentsSame ==
    ASSUME NEW s \in Seq(Nat), NEW t, NEW u,
           \A r \in 1..Len(source) : (\E i \in 1..Len(s) : s[i] = r) =>
               (t[r] = "INDENT" <=> u[r] = "INDENT")
    PROVE  /\ Height(s, IndentsOf(t)) = Height(s, IndentsOf(u))
           /\ \A d : Nests(s, IndentsOf(t), d) <=> Nests(s, IndentsOf(u), d)
  <1> DEFINE ps == IndentsOf(t)
             qs == IndentsOf(u)
  <1>1. \A i \in 1..Len(s) : s[i] \in ps <=> s[i] \in qs
    BY DEF IndentsOf
  <1> HIDE DEF ps, qs
  <1>2. \A n \in 0..Len(s) : Height(SubSeq(s, 1, n), ps) = Height(SubSeq(s, 1, n), qs)
    <2>1. SUFFICES ASSUME NEW n \in 0..Len(s)
                   PROVE  Height(SubSeq(s, 1, n), ps) = Height(SubSeq(s, 1, n), qs)
      OBVIOUS
    <2> DEFINE v == SubSeq(s, 1, n)
    <2>2. v \in Seq(Nat) /\ Len(v) = n /\ \A i \in 1..n : v[i] = s[i]
      BY PrefixFacts
    <2> HIDE DEF v
    <2>3. \A i \in 1..Len(v) : v[i] \in ps <=> v[i] \in qs
      <3>1. n \in Nat /\ Len(s) \in Nat /\ n <= Len(s)
        BY LenProperties
      <3> QED BY <1>1, <2>2, <3>1, SMTT(30)
    <2>4. Those(v, ps) = Those(v, qs)
      BY <2>2, <2>3, ThoseSame
    <2>5. Height(v, ps) = Height(v, qs)
      BY <2>4, Zenon DEF Height
    <2> QED BY <2>5 DEF v
  <1>3. Those(s, ps) = Those(s, qs)
    BY <1>1, ThoseSame
  <1>4. Height(s, ps) = Height(s, qs)
    BY <1>3, Zenon DEF Height
  <1>5. \A d : Nests(s, ps, d) <=> Nests(s, qs, d)
    BY <1>2, Zenon DEF Nests
  <1> QED BY <1>4, <1>5 DEF ps, qs

LEMMA Appended ==
    ASSUME SourceOK, NEW f \in FilterType, NEW g \in FilterType,
           NEW p, p = f.read + 1, p \in 1..Len(source),
           NEW a \in Nat, NEW b \in Nat, NEW y \in Seq(Nat), Reading(f, g, p, a, y, b),
           NEW s, Sound(f, s)
    PROVE  Sound(g, s \o New(p, a, y, b))
  <1> DEFINE q == g.read
             w == <<p>>
             x == New(p, a, y, b)
             u == s \o x
             n == f.numIndents
             ps == IndentsOf(g.type)
             Src == 1..Len(source)
             one == IF g.type[p] = "INDENT" THEN 1 ELSE 0
             o == OfSource(s)
             da == Dedents(a)
             db == Dedents(b)
  <1>1. /\ p \in Nat /\ p # DEDENT /\ Len(source) \in Nat /\ f.read \in Nat /\ n \in Nat
        /\ s \in Seq(Nat) /\ w \in Seq(Nat) /\ g.numIndents \in Nat
    BY SourceFacts DEF FilterType, Sound
  <1>2. Kept(g, p, y, q) /\ g.numIndents = (one + n) - (a + b)
    BY DEF Reading, Kept
  <1>3. /\ q \in Nat /\ Within(y, q) /\ OfSource(y) = y /\ Level(y, ps)
        /\ \A t \in Seq(Nat) : Ordered(t, p) => Ordered(t \o y, q)
    BY <1>2, KeptFacts
  <1>4. p <= q
    BY <1>1, <1>2, SMTT(30) DEF Kept
  <1>5. /\ x \in Seq(Nat)
        /\ \A rs : Those(x, rs) = Chain(Those(w, rs), Chain(Those(da, rs),
                                        Chain(Those(y, rs), Those(db, rs))))
        /\ \A rs : Height(x, rs) = Height(w, rs) + (Height(da, rs) + (Height(y, rs) + Height(db, rs)))
    <2>1. w = <<p>>
      OBVIOUS
    <2> HIDE DEF w
    <2>2. w \in Seq(Nat) /\ p \in Nat
      BY <1>1
    <2>3. x \in Seq(Nat)
      BY <2>1, <2>2, NewFacts
    <2>4. ASSUME NEW rs
          PROVE  Height(x, rs) = Height(w, rs) + (Height(da, rs) + (Height(y, rs) + Height(db, rs)))
      BY <2>1, <2>2, NewFacts
    <2>5. ASSUME NEW rs
          PROVE  Those(x, rs) = Chain(Those(w, rs), Chain(Those(da, rs),
                                        Chain(Those(y, rs), Those(db, rs))))
      BY <2>1, <2>2, NewFacts
    <2> QED BY <2>3, <2>4, <2>5
  <1>6. u \in Seq(Nat)
    BY <1>1, <1>5, ConcatProperties
  <1>7. /\ da \in Seq(Nat) /\ db \in Seq(Nat) /\ Len(da) = a /\ Len(db) = b
        /\ \A i \in 1..a : da[i] = DEDENT
        /\ \A i \in 1..b : db[i] = DEDENT
    BY DedentsFacts
  <1>8. DEDENT \notin ps /\ DEDENT \notin Src
    BY IndentsFacts
  <1>9. x = w \o (da \o (y \o db))
    BY Zenon DEF New
  <1>10. Within(u, q)
    <2>1. Within(s, q) /\ Within(w, q)
      <3>1. f.read <= q
        BY <1>1, <1>3, <1>4
      <3>2. \A i \in 1..Len(s) : s[i] \in Nat /\ s[i] <= f.read
        BY <1>1, SMTT(30) DEF Sound, Within
      <3>3. Len(w) = 1 /\ w[1] = p
        OBVIOUS
      <3> HIDE DEF w
      <3> QED BY <1>1, <1>3, <1>4, <3>1, <3>2, <3>3, SMTT(30) DEF Within
    <2>2. Within(da, q) /\ Within(db, q)
      BY <1>3, <1>7 DEF Within, DEDENT
    <2> HIDE DEF q, w, x, da, db
    <2>3. Within(y \o db, q) /\ y \o db \in Seq(Nat)
      BY <1>3, <1>7, <2>2, WithinConcat, ConcatProperties
    <2>4. Within(da \o (y \o db), q) /\ da \o (y \o db) \in Seq(Nat)
      BY <1>3, <1>7, <2>2, <2>3, WithinConcat, ConcatProperties
    <2>5. Within(w \o (da \o (y \o db)), q)
      BY <1>1, <1>3, <2>1, <2>4, WithinConcat
    <2>6. Within(x, q)
      BY <1>9, <2>5, Zenon
    <2> QED BY <1>1, <1>3, <1>5, <2>1, <2>6, WithinConcat
  <1>11. Ordered(OfSource(u), q)
    <2>1. o \in Seq(Nat) /\ Ordered(o, f.read)
      BY <1>1, ThoseType DEF OfSource, Sound
    <2>2. Ordered(o \o w, p) /\ o \o w \in Seq(Nat)
      BY <1>1, <2>1, OrderedOne, ConcatProperties
    <2> DEFINE v == o \o w
    <2> HIDE DEF v
    <2>3. Ordered(v \o y, q)
      BY <1>3, <2>2 DEF v
    <2>4. Those(w, Src) = w
      BY <1>1, ThoseOne
    <2>5. Those(da, Src) = << >> /\ Those(db, Src) = << >>
      BY <1>8, DedentsAway
    <2>6. Those(x, Src) = w \o (<< >> \o (y \o << >>))
      BY <1>3, <1>5, <2>4, <2>5, Zenon DEF OfSource, Chain
    <2>7. << >> \o (y \o << >>) = y
      BY ConcatNone
    <2>8. Those(x, Src) = w \o y
      BY <2>6, <2>7, Zenon
    <2>9. Those(u, Src) = Those(s, Src) \o Those(x, Src)
      <3> HIDE DEF x
      <3> QED BY <1>1, <1>5, ThoseConcat
    <2>10. v \o y = o \o (w \o y)
      <3> HIDE DEF o, w
      <3>1. Chain(Chain(o, w), y) = Chain(o, Chain(w, y))
        BY <1>1, <2>1, ChainAssociates
      <3> QED BY <3>1, Zenon DEF v, Chain
    <2>11. OfSource(u) = v \o y
      BY <2>8, <2>9, <2>10, Zenon DEF OfSource
    <2> QED BY <2>3, <2>11, Zenon
  <1>12. /\ Height(s, ps) = n
         /\ ~ ColonFirst => Nests(s, ps, 0)
    <2>1. \A r \in 1..Len(source) : (\E i \in 1..Len(s) : s[i] = r) =>
             (f.type[r] = "INDENT" <=> g.type[r] = "INDENT")
      <3>1. SUFFICES ASSUME NEW r \in 1..Len(source), NEW i \in 1..Len(s), s[i] = r
                     PROVE  f.type[r] = "INDENT" <=> g.type[r] = "INDENT"
        OBVIOUS
      <3>2. r <= f.read
        BY <3>1 DEF Sound, Within
      <3>3. r # p
        BY <1>1, <3>2
      <3> QED BY <3>3 DEF Reading, Changed
    <2>2. /\ Height(s, IndentsOf(f.type)) = Height(s, ps)
          /\ \A d : Nests(s, IndentsOf(f.type), d) <=> Nests(s, ps, d)
      BY <1>1, <2>1, IndentsSame
    <2> QED BY <2>2 DEF Sound
  <1>13. Height(w, ps) = one
    <2>1. Height(w, ps) = IF p \in ps THEN 1 ELSE 0
      BY <1>1, HeightOne
    <2>2. p \in ps <=> g.type[p] = "INDENT"
      BY DEF IndentsOf
    <2> QED BY <2>1, <2>2
  <1>14. Height(da, ps) = - a /\ Height(y, ps) = 0 /\ Height(db, ps) = - b
    BY <1>3, <1>8, HeightDedents, HeightLevel
  <1>15. Height(u, ps) = g.numIndents
    <2>1. Height(x, ps) = one - (a + b)
      <3>1. Height(x, ps) = Height(w, ps) + (Height(da, ps) + (Height(y, ps) + Height(db, ps)))
        BY <1>5
      <3> HIDE DEF x, w, da, db, ps
      <3> QED BY <1>13, <1>14, <3>1
    <2>2. Height(u, ps) = Height(s, ps) + Height(x, ps)
      <3> HIDE DEF x
      <3> QED BY <1>1, <1>5, HeightConcat
    <2> QED BY <1>1, <1>2, <1>12, <2>1, <2>2
  <1>16. ASSUME ~ ColonFirst PROVE Nests(u, ps, 0)
    <2> HIDE DEF w, da, db, ps
    <2>1. Nests(w, ps, n)
      BY <1>1, NestsOne DEF w
    <2>0. one \in {0, 1}
      OBVIOUS
    <2> HIDE DEF one
    <2>2. one + n >= a + b /\ n + one \in Nat /\ one \in {0, 1}
      BY <1>1, <1>2, <2>0, SMTT(30)
    <2>3. Nests(da, ps, n + one)
      <3>1. n + one >= a
        BY <1>1, <2>2
      <3> QED BY <1>8, <2>2, <3>1, NestsDedents DEF da, ps
    <2>4. Nests(y, ps, (n + one) - a)
      <3>1. (n + one) - a \in Nat
        BY <1>1, <2>2, SMTT(30)
      <3> QED BY <1>3, <3>1, NestsLevel
    <2>5. Nests(db, ps, (n + one) - a)
      <3>1. (n + one) - a >= b /\ (n + one) - a \in Int
        BY <1>1, <2>2, SMTT(30)
      <3> QED BY <1>8, <3>1, NestsDedents DEF db, ps
    <2>6. Nests(y \o db, ps, (n + one) - a) /\ y \o db \in Seq(Nat)
      <3>1. (n + one) - a \in Int /\ ((n + one) - a) + Height(y, ps) = (n + one) - a
        BY <1>1, <1>14, <2>2, SMTT(30)
      <3> QED BY <1>7, <2>4, <2>5, <3>1, NestsConcat, ConcatProperties
    <2>7. Nests(da \o (y \o db), ps, n + one) /\ da \o (y \o db) \in Seq(Nat)
      <3>1. n + one \in Int /\ (n + one) + Height(da, ps) = (n + one) - a
        BY <1>1, <1>14, <2>2
      <3> QED BY <1>7, <2>3, <2>6, <3>1, NestsConcat, ConcatProperties
    <2>8. Nests(w \o (da \o (y \o db)), ps, n)
      <3>1. n \in Int /\ n + Height(w, ps) = n + one
        BY <1>1, <1>13
      <3> QED BY <1>1, <2>1, <2>7, <3>1, NestsConcat
    <2>9. Nests(x, ps, n)
      BY <1>9, <2>8, Zenon
    <2>10. 0 \in Int /\ 0 + Height(s, ps) = n
      BY <1>1, <1>12
    <2> HIDE DEF x
    <2> QED BY <1>1, <1>5, <1>12, <1>16, <2>9, <2>10, NestsConcat
  <1> QED BY <1>6, <1>10, <1>11, <1>15, <1>16 DEF Sound

-----------------------------------------------------------------------------
(* Tokens moved from one buffer to another *)

LEMMA WithinParts ==
    ASSUME NEW s \in Seq(Nat), NEW t \in Seq(Nat), NEW n \in Nat, Within(s \o t, n)
    PROVE  Within(s, n) /\ Within(t, n)
  <1> DEFINE u == s \o t
  <1>1. /\ Len(u) = Len(s) + Len(t) /\ Len(s) \in Nat /\ Len(t) \in Nat
        /\ \A i \in 1..Len(s) : u[i] = s[i]
        /\ \A i \in 1..Len(t) : u[Len(s) + i] = t[i]
    OBVIOUS
  <1>2. Within(u, n)
    OBVIOUS
  <1> HIDE DEF u
  <1>3. \A i \in 1..Len(s) : i \in 1..Len(u)
    BY <1>1
  <1>4. \A i \in 1..Len(t) : Len(s) + i \in 1..Len(u)
    BY <1>1
  <1> QED BY <1>1, <1>2, <1>3, <1>4 DEF Within

\* DEDENT tokens moved back over tokens with which no block begins
LEMMA MovedSound ==
    ASSUME SourceOK, NEW f \in FilterType, NEW s \in Seq(Nat), NEW m \in Seq(Nat),
           NEW t \in Seq(Nat), NEW n \in Nat,
           Sound(f, s \o ((m \o Dedents(n)) \o t)),
           ~ ColonFirst => Level(m, IndentsOf(f.type))
    PROVE  Sound(f, s \o ((Dedents(n) \o m) \o t))
  <1> DEFINE d == Dedents(n)
             ps == IndentsOf(f.type)
             Src == 1..Len(source)
             before == m \o d
             after == d \o m
             u == before \o t
             v == after \o t
             w == s \o u
             x == s \o v
  <1>1. /\ d \in Seq(Nat) /\ before \in Seq(Nat) /\ after \in Seq(Nat)
        /\ f.read \in Nat /\ f.numIndents \in Nat
    <2>1. d \in Seq(Nat)
      BY DedentsFacts
    <2> HIDE DEF d
    <2>2. before \in Seq(Nat) /\ after \in Seq(Nat)
      BY <2>1, ConcatProperties
    <2> QED BY <2>1, <2>2 DEF FilterType
  <1>2. DEDENT \notin ps /\ DEDENT \notin Src
    BY IndentsFacts
  <1>3. Those(d, Src) = << >>
    BY <1>2, DedentsAway
  <1>4. \A d0 \in Int : ~ ColonFirst /\ Nests(before, ps, d0) => Nests(after, ps, d0)
    BY <1>2, NestsMoved
  <1> HIDE DEF d
  <1>5. Those(before, Src) = Those(after, Src)
    <2>1. /\ Those(before, Src) = Those(m, Src) \o Those(d, Src)
          /\ Those(after, Src) = Those(d, Src) \o Those(m, Src)
      BY <1>1, ThoseConcat
    <2>2. Those(m, Src) \in Seq(Nat)
      BY ThoseType
    <2>3. Those(m, Src) \o << >> = Those(m, Src) /\ << >> \o Those(m, Src) = Those(m, Src)
      BY <2>2, ConcatNone
    <2> QED BY <1>3, <2>1, <2>3, Zenon
  <1>6. Height(before, ps) = Height(after, ps)
    <2>1. Height(m, ps) \in Int /\ Height(d, ps) \in Int
      BY <1>1, HeightType
    <2>2. /\ Height(before, ps) = Height(m, ps) + Height(d, ps)
          /\ Height(after, ps) = Height(d, ps) + Height(m, ps)
      BY <1>1, HeightConcat
    <2> QED BY <2>1, <2>2
  <1>7. ASSUME Within(before, f.read) PROVE Within(after, f.read)
    BY <1>1, <1>7, WithinParts, WithinConcat
  <1> HIDE DEF before, after, ps, Src
  <1>8. u \in Seq(Nat) /\ v \in Seq(Nat)
    BY <1>1, ConcatProperties
  <1>9. /\ Height(s, ps) \in Int /\ Height(before, ps) \in Int /\ Height(t, ps) \in Int
        /\ Height(u, ps) = Height(before, ps) + Height(t, ps)
        /\ Height(v, ps) = Height(after, ps) + Height(t, ps)
        /\ Those(u, Src) = Those(before, Src) \o Those(t, Src)
        /\ Those(v, Src) = Those(after, Src) \o Those(t, Src)
    BY <1>1, HeightType, HeightConcat, ThoseConcat
  <1>10. Those(u, Src) = Those(v, Src) /\ Height(u, ps) = Height(v, ps)
    BY <1>5, <1>6, <1>9, Zenon
  <1>11. ASSUME Within(u, f.read) PROVE Within(v, f.read)
    BY <1>1, <1>7, <1>11, WithinParts, WithinConcat
  <1>12. ASSUME NEW d0 \in Int, ~ ColonFirst, Nests(u, ps, d0) PROVE Nests(v, ps, d0)
    <2>1. Nests(before, ps, d0) /\ Nests(t, ps, d0 + Height(before, ps))
      BY <1>1, <1>12, NestsConcat
    <2>2. Nests(after, ps, d0) /\ Nests(t, ps, d0 + Height(after, ps))
      BY <1>4, <1>6, <1>12, <2>1
    <2> QED BY <1>1, <2>2, NestsConcat
  <1> HIDE DEF u, v
  <1>13. /\ w \in Seq(Nat) /\ x \in Seq(Nat)
         /\ Height(w, ps) = Height(s, ps) + Height(u, ps)
         /\ Height(x, ps) = Height(s, ps) + Height(v, ps)
         /\ Those(w, Src) = Those(s, Src) \o Those(u, Src)
         /\ Those(x, Src) = Those(s, Src) \o Those(v, Src)
    BY <1>8, ConcatProperties, HeightConcat, ThoseConcat
  <1>14. Those(w, Src) = Those(x, Src) /\ Height(w, ps) = Height(x, ps)
    BY <1>10, <1>13, Zenon
  <1>15. Sound(f, w)
    BY Zenon DEF w, u, before, d
  <1>16. Within(w, f.read)
    BY <1>15 DEF Sound
  <1>17. Within(s, f.read) /\ Within(u, f.read)
    BY <1>1, <1>8, <1>16, WithinParts
  <1>18. Within(x, f.read)
    BY <1>1, <1>8, <1>11, <1>17, WithinConcat
  <1>19. ASSUME ~ ColonFirst PROVE Nests(x, ps, 0)
    <2>1. Nests(w, ps, 0)
      BY <1>15, <1>19 DEF Sound, ps
    <2>2. Nests(s, ps, 0) /\ Nests(u, ps, 0 + Height(s, ps))
      BY <1>8, <2>1, NestsConcat
    <2>3. 0 + Height(s, ps) \in Int
      BY <1>9
    <2>4. Nests(v, ps, 0 + Height(s, ps))
      BY <1>12, <1>19, <2>2, <2>3
    <2> QED BY <1>8, <2>2, <2>4, NestsConcat
  <1> HIDE DEF w, x
  <1>20. Sound(f, x)
    BY <1>13, <1>14, <1>15, <1>18, <1>19 DEF Sound, OfSource, ps, Src
  <1> QED BY <1>20, Zenon DEF x, v, after, d

LEMMA ReverseAppend ==
    ASSUME NEW s \in Seq(Nat), NEW x \in Nat
    PROVE  Reverse(Append(s, x)) = Chain(Just(x), Reverse(s))
  <1> DEFINE w == Just(x)
  <1>1. w \in Seq(Nat) /\ Append(s, x) = Chain(s, w) /\ Reverse(w) = w
    BY AppendIsConcat, ReverseOne DEF Just, Chain
  <1> HIDE DEF w
  <1>2. Reverse(s \o w) = Reverse(w) \o Reverse(s)
    BY <1>1, ReverseConcat
  <1> QED BY <1>1, <1>2, Zenon DEF Chain, w

LEMMA TogetherChain ==
    ASSUME NEW o, NEW h, NEW i, NEW b
    PROVE  Together(o, h, i, b) = Chain(o, Chain(h, Chain(i, Reverse(b))))
  BY Zenon DEF Together, Chain

LEMMA ChainType ==
    ASSUME NEW s \in Seq(Nat), NEW t \in Seq(Nat)
    PROVE  Chain(s, t) \in Seq(Nat)
  BY ConcatProperties DEF Chain

LEMMA ChainNone ==
    ASSUME NEW s \in Seq(Nat)
    PROVE  Chain(s, << >>) = s /\ Chain(<< >>, s) = s
  BY ConcatNone DEF Chain

LEMMA LastFront ==
    ASSUME NEW s \in Seq(Nat), s # << >>
    PROVE  /\ Last(s) \in Nat /\ Front(s) \in Seq(Nat) /\ Just(Last(s)) \in Seq(Nat)
           /\ s = Append(Front(s), Last(s))
           /\ s = Chain(Front(s), Just(Last(s)))
           /\ Len(s) \in Nat \ {0} /\ Len(Front(s)) = Len(s) - 1
           /\ \A i \in 1..(Len(s) - 1) : Front(s)[i] = s[i]
  <1>1. Len(s) \in Nat \ {0}
    BY LenProperties, EmptySeq
  <1>2. Last(s) \in Nat
    BY <1>1 DEF Last
  <1>3. /\ Front(s) \in Seq(Nat) /\ Len(Front(s)) = Len(s) - 1
        /\ \A i \in 1..(Len(s) - 1) : Front(s)[i] = s[i]
    <2> DEFINE n == Len(s) - 1
    <2>1. n \in 0..Len(s)
      BY <1>1
    <2> HIDE DEF n
    <2>2. /\ SubSeq(s, 1, n) \in Seq(Nat) /\ Len(SubSeq(s, 1, n)) = n
          /\ \A i \in 1..n : SubSeq(s, 1, n)[i] = s[i]
      BY <2>1, PrefixFacts
    <2> QED BY <2>2, Zenon DEF Front, n
  <1>4. s = Append(Front(s), Last(s))
    BY <1>1 DEF Front, Last
  <1>5. Append(Front(s), Last(s)) = Front(s) \o <<Last(s)>>
    BY <1>2, <1>3, AppendIsConcat
  <1>6. s = Chain(Front(s), Just(Last(s)))
    BY <1>4, <1>5, Zenon DEF Chain, Just
  <1> QED BY <1>1, <1>2, <1>3, <1>4, <1>6 DEF Just

\* ArrangeToken
LEMMA LastMoved ==
    ASSUME NEW o, NEW h, NEW i \in Seq(Nat), i # << >>, NEW b \in Seq(Nat)
    PROVE  Together(o, h, Front(i), Append(b, Last(i))) = Together(o, h, i, b)
  <1> DEFINE w == Just(Last(i))
             r == Reverse(b)
             j == Front(i)
  <1>1. w \in Seq(Nat) /\ j \in Seq(Nat) /\ i = Chain(j, w) /\ Last(i) \in Nat
    BY LastFront
  <1>2. r \in Seq(Nat) /\ Reverse(Append(b, Last(i))) = Chain(w, r)
    BY <1>1, ReverseType, ReverseAppend
  <1> HIDE DEF w, r, j
  <1>3. Chain(j, Chain(w, r)) = Chain(Chain(j, w), r)
    BY <1>1, <1>2, ChainAssociates
  <1> QED BY <1>1, <1>2, <1>3, TogetherChain, Zenon DEF j, r

\* Arranged
LEMMA FirstMoved ==
    ASSUME NEW o, NEW x \in Nat, NEW b \in Seq(Nat)
    PROVE  Together(o, << >>, << >>, Append(b, x)) = Together(o, <<x>>, << >>, b)
  <1> DEFINE w == Just(x)
             r == Reverse(b)
  <1>1. w \in Seq(Nat) /\ r \in Seq(Nat) /\ Reverse(Append(b, x)) = Chain(w, r)
    BY ReverseType, ReverseAppend DEF Just
  <1> HIDE DEF w, r
  <1>2. Chain(w, r) \in Seq(Nat)
    BY <1>1, ChainType
  <1>3. Chain(<< >>, Chain(<< >>, Chain(w, r))) = Chain(w, r) /\ Chain(<< >>, r) = r
    BY <1>1, <1>2, ChainNone
  <1>4. /\ Together(o, << >>, << >>, Append(b, x))
           = Chain(o, Chain(<< >>, Chain(<< >>, Chain(w, r))))
        /\ Together(o, <<x>>, << >>, b) = Chain(o, Chain(w, Chain(<< >>, r)))
    BY <1>1, TogetherChain, Zenon DEF w, r, Just
  <1> QED BY <1>3, <1>4, Zenon

\* ReturnToken
LEMMA LastReturned ==
    ASSUME NEW o \in Seq(Nat), NEW b \in Seq(Nat), b # << >>
    PROVE  /\ Together(Append(o, Last(b)), << >>, << >>, Front(b))
              = Together(o, << >>, << >>, b)
           /\ Together(o, << >>, << >>, b)
              = Append(o, Last(b)) \o Reverse(Front(b))
  <1> DEFINE w == Just(Last(b))
             c == Front(b)
             r == Reverse(c)
             p == Append(o, Last(b))
  <1>1. /\ w \in Seq(Nat) /\ c \in Seq(Nat) /\ Last(b) \in Nat
        /\ b = Append(c, Last(b))
    BY LastFront
  <1>2. r \in Seq(Nat) /\ Reverse(b) = Chain(w, r)
    BY <1>1, ReverseType, ReverseAppend
  <1>3. p = Chain(o, w)
    BY <1>1, AppendIsConcat DEF Chain, Just
  <1> HIDE DEF w, r, p, c
  <1>4. Chain(w, r) \in Seq(Nat)
    BY <1>1, <1>2, ChainType
  <1>5. /\ Chain(<< >>, Chain(<< >>, Chain(w, r))) = Chain(w, r)
        /\ Chain(<< >>, Chain(<< >>, r)) = r
    BY <1>2, <1>4, ChainNone
  <1>6. Chain(o, Chain(w, r)) = Chain(Chain(o, w), r)
    BY <1>1, <1>2, ChainAssociates
  <1>7. /\ Together(p, << >>, << >>, c) = Chain(p, Chain(<< >>, Chain(<< >>, r)))
        /\ Together(o, << >>, << >>, b) = Chain(o, Chain(<< >>, Chain(<< >>, Chain(w, r))))
    BY <1>2, TogetherChain, Zenon DEF r
  <1>8. Together(o, << >>, << >>, b) = Chain(p, r) /\ Together(p, << >>, << >>, c) = Chain(p, r)
    BY <1>3, <1>5, <1>6, <1>7, Zenon
  <1> QED BY <1>8, Zenon DEF Chain, p, c, r

\* HandleBlocks
LEMMA ShapeAdded ==
    ASSUME NEW o \in Seq(Nat), NEW h \in Seq(Nat), NEW i \in Seq(Nat), NEW p \in Nat,
           NEW a \in Nat, NEW y \in Seq(Nat), NEW b \in Nat
    PROVE  Together(o, h, Shape(i, p, a, y, b), << >>)
           = Chain(Together(o, h, i, << >>), New(p, a, y, b))
  <1> DEFINE x == New(p, a, y, b)
             e == << >>
             w == Just(p)
  <1>1. x \in Seq(Nat) /\ e \in Seq(Nat) /\ Reverse(e) = e
    <2>1. w = <<p>>
      BY DEF Just
    <2>2. x \in Seq(Nat)
      BY <2>1, NewFacts
    <2> QED BY <2>2, ReverseNone
  <1>2. Shape(i, p, a, y, b) = Chain(i, x)
    BY Zenon DEF Shape, New, Chain
  <1> HIDE DEF x, e
  <1>3. Chain(i, x) \in Seq(Nat) /\ Chain(h, i) \in Seq(Nat)
    BY <1>1, ChainType
  <1>4. Chain(Chain(i, x), e) = Chain(i, x) /\ Chain(i, e) = i
    BY <1>1, <1>3, ChainNone DEF e
  <1>5. /\ Chain(Chain(h, i), x) = Chain(h, Chain(i, x))
        /\ Chain(Chain(o, Chain(h, i)), x) = Chain(o, Chain(Chain(h, i), x))
    BY <1>1, <1>3, ChainAssociates
  <1>6. /\ Together(o, h, Chain(i, x), e) = Chain(o, Chain(h, Chain(Chain(i, x), e)))
        /\ Together(o, h, i, e) = Chain(o, Chain(h, Chain(i, e)))
    BY <1>1, TogetherChain, Zenon
  <1>7. Together(o, h, Chain(i, x), e) = Chain(Together(o, h, i, e), x)
    BY <1>4, <1>5, <1>6, Zenon
  <1> QED BY <1>2, <1>7, Zenon DEF x, e

\* ReadToken
LEMMA FirstAdded ==
    ASSUME NEW o \in Seq(Nat), NEW p \in Nat
    PROVE  /\ Together(o, << >>, << >>, << >>) = o
           /\ Together(o, <<p>>, << >>, << >>) = o \o New(p, 0, << >>, 0)
           /\ Together(o, << >>, << >>, <<p>>) = o \o New(p, 0, << >>, 0)
  <1> DEFINE e == << >>
             w == Just(p)
  <1>1. /\ e \in Seq(Nat) /\ w \in Seq(Nat) /\ Reverse(e) = e /\ Reverse(w) = w
        /\ Dedents(0) = e
    BY ReverseNone, ReverseOne, NoDedents DEF Just
  <1>2. New(p, 0, e, 0) = Chain(w, Chain(Dedents(0), Chain(e, Dedents(0))))
    BY Zenon DEF New, Chain, Just
  <1> HIDE DEF w
  <1>3. Chain(e, e) = e /\ Chain(w, e) = w /\ Chain(o, e) = o /\ Chain(e, w) = w
    BY <1>1, ChainNone
  <1> HIDE DEF e
  <1>4. New(p, 0, e, 0) = w
    BY <1>1, <1>2, <1>3, Zenon
  <1>5. /\ Together(o, e, e, e) = Chain(o, Chain(e, Chain(e, e)))
        /\ Together(o, w, e, e) = Chain(o, Chain(w, Chain(e, e)))
        /\ Together(o, e, e, w) = Chain(o, Chain(e, Chain(e, w)))
    BY <1>1, TogetherChain, Zenon
  <1>6. /\ Together(o, e, e, e) = o
        /\ Together(o, w, e, e) = Chain(o, New(p, 0, e, 0))
        /\ Together(o, e, e, w) = Chain(o, New(p, 0, e, 0))
    BY <1>3, <1>4, <1>5, Zenon
  <1> QED BY <1>6, Zenon DEF Chain, Just, w, e

\* the tokens that ArrangeDedents moves, and the buffer b after that
Behind(first, second, t, n) == (first \o second) \o (Just(t) \o Dedents(n))
Ahead(b, first, second, t, n) ==
    b \o Just(t) \o Reverse(second) \o Dedents(n) \o Reverse(first)

DedentsLast(s, m, n, r) == s \o ((m \o Dedents(n)) \o r)
DedentsFirst(s, m, n, r) == s \o ((Dedents(n) \o m) \o r)

\* ArrangeDedents: kept stays
LEMMA DedentsMoved ==
    ASSUME NEW o \in Seq(Nat), NEW h \in Seq(Nat), NEW kept \in Seq(Nat),
           NEW first \in Seq(Nat), NEW second \in Seq(Nat), NEW t \in Nat, NEW n \in Nat,
           NEW b \in Seq(Nat)
    PROVE  LET s == Chain(o, Chain(h, Chain(kept, first)))
               m == Chain(second, Just(t))
               r == Reverse(b)
           IN  /\ s \in Seq(Nat) /\ m \in Seq(Nat) /\ r \in Seq(Nat)
               /\ Together(o, h, Chain(kept, Behind(first, second, t, n)), b)
                  = DedentsLast(s, m, n, r)
               /\ Together(o, h, kept, Ahead(b, first, second, t, n))
                  = DedentsFirst(s, m, n, r)
  <1> DEFINE w == Just(t)
             d == Dedents(n)
             r == Reverse(b)
             s == Chain(o, Chain(h, Chain(kept, first)))
             m == Chain(second, w)
  <1>1. w \in Seq(Nat) /\ d \in Seq(Nat) /\ r \in Seq(Nat)
    BY DedentsFacts, ReverseType DEF Just
  <1>2. Reverse(w) = w /\ Reverse(d) = d
    BY ReverseOne, DedentsReverse DEF Just
  <1> HIDE DEF w, d, r
  <1>3. s \in Seq(Nat) /\ m \in Seq(Nat)
    BY <1>1, ChainType
  <1>4. ASSUME NEW z \in Seq(Nat)
        PROVE  Chain(s, z) = Chain(o, Chain(h, Chain(kept, Chain(first, z))))
    <2>1. Chain(kept, first) \in Seq(Nat)
      BY ChainType
    <2>2. Chain(h, Chain(kept, first)) \in Seq(Nat)
      BY <2>1, ChainType
    <2>3. /\ Chain(s, z) = Chain(o, Chain(Chain(h, Chain(kept, first)), z))
          /\ Chain(Chain(h, Chain(kept, first)), z) = Chain(h, Chain(Chain(kept, first), z))
          /\ Chain(Chain(kept, first), z) = Chain(kept, Chain(first, z))
      BY <2>1, <2>2, ChainAssociates
    <2> QED BY <2>3, Zenon
  <1>5. ASSUME NEW z \in Seq(Nat)
        PROVE  Chain(m, z) = Chain(second, Chain(w, z))
    BY <1>1, ChainAssociates
  <1> HIDE DEF s, m
  <1>6. Together(o, h, Chain(kept, Chain(Chain(first, second), Chain(w, d))), b)
        = Chain(s, Chain(Chain(m, d), r))
    <2> DEFINE x == Chain(w, d)
               y == Chain(first, second)
               dr == Chain(d, r)
               wdr == Chain(w, dr)
    <2>1. x \in Seq(Nat) /\ y \in Seq(Nat) /\ dr \in Seq(Nat)
      BY <1>1, ChainType
    <2>2. Chain(y, x) \in Seq(Nat) /\ Chain(x, r) = wdr
      BY <1>1, <2>1, ChainType, ChainAssociates
    <2>3. wdr \in Seq(Nat)
      BY <1>1, <2>1, ChainType
    <2> HIDE DEF x, y, wdr
    <2>4. Chain(second, wdr) \in Seq(Nat)
      BY <2>3, ChainType
    <2>5. Chain(Chain(kept, Chain(y, x)), r) = Chain(kept, Chain(Chain(y, x), r))
      BY <1>1, <2>2, ChainAssociates
    <2>6. Chain(Chain(y, x), r) = Chain(y, Chain(x, r))
      BY <1>1, <2>1, ChainAssociates
    <2>7. Chain(y, wdr) = Chain(first, Chain(second, wdr))
      BY <2>3, ChainAssociates DEF y
    <2>8. Chain(Chain(m, d), r) = Chain(m, dr) /\ Chain(m, dr) = Chain(second, wdr)
      <3>1. Chain(Chain(m, d), r) = Chain(m, Chain(d, r))
        BY <1>1, <1>3, ChainAssociates
      <3>2. Chain(m, dr) = Chain(second, Chain(w, dr))
        BY <1>5, <2>1
      <3> QED BY <3>1, <3>2, Zenon DEF wdr
    <2>9. Chain(s, Chain(second, wdr))
          = Chain(o, Chain(h, Chain(kept, Chain(first, Chain(second, wdr)))))
      BY <1>4, <2>4
    <2>10. Together(o, h, Chain(kept, Chain(y, x)), b)
           = Chain(o, Chain(h, Chain(Chain(kept, Chain(y, x)), r)))
      BY TogetherChain, Zenon DEF r
    <2>11. Together(o, h, Chain(kept, Chain(y, x)), b) = Chain(s, Chain(Chain(m, d), r))
      BY <2>2, <2>5, <2>6, <2>7, <2>8, <2>9, <2>10, Zenon
    <2> QED BY <2>11, Zenon DEF x, y
  <1>7. Together(o, h, kept, Chain(Chain(Chain(Chain(b, w), Reverse(second)), d),
                                   Reverse(first)))
        = Chain(s, Chain(Chain(d, m), r))
    <2> DEFINE rs == Reverse(second)
               rf == Reverse(first)
               b1 == Chain(b, w)
               b2 == Chain(b1, rs)
               b3 == Chain(b2, d)
               b4 == Chain(b3, rf)
    <2>1. /\ rs \in Seq(Nat) /\ rf \in Seq(Nat)
          /\ Reverse(rs) = second /\ Reverse(rf) = first
      BY ReverseType, ReverseTwice
    <2> HIDE DEF rs, rf
    <2>2. b1 \in Seq(Nat) /\ Reverse(b1) = Chain(w, r)
      BY <1>1, <1>2, ReverseConcat, ChainType DEF Chain, r
    <2> HIDE DEF b1
    <2>3. b2 \in Seq(Nat) /\ Reverse(b2) = Chain(second, Chain(w, r))
      <3>1. Reverse(b1 \o rs) = Reverse(rs) \o Reverse(b1)
        BY <2>1, <2>2, ReverseConcat
      <3> QED BY <2>1, <2>2, <3>1, ChainType, Zenon DEF Chain
    <2> HIDE DEF b2
    <2>4. b3 \in Seq(Nat) /\ Reverse(b3) = Chain(d, Chain(second, Chain(w, r)))
      <3>1. Reverse(b2 \o d) = Reverse(d) \o Reverse(b2)
        BY <1>1, <2>3, ReverseConcat
      <3> QED BY <1>1, <1>2, <2>3, <3>1, ChainType, Zenon DEF Chain
    <2> HIDE DEF b3
    <2>5. Reverse(b4) = Chain(first, Chain(d, Chain(second, Chain(w, r))))
      <3>1. Reverse(b3 \o rf) = Reverse(rf) \o Reverse(b3)
        BY <2>1, <2>4, ReverseConcat
      <3> QED BY <2>1, <2>4, <3>1, Zenon DEF Chain
    <2> HIDE DEF b4
    <2>6. Chain(m, r) = Chain(second, Chain(w, r))
      BY <1>1, <1>5
    <2>7. Chain(Chain(d, m), r) = Chain(d, Chain(m, r))
      BY <1>1, <1>3, ChainAssociates
    <2>8. Chain(m, r) \in Seq(Nat)
      BY <1>1, <1>3, ChainType
    <2>9. Chain(d, Chain(m, r)) \in Seq(Nat)
      BY <1>1, <2>8, ChainType
    <2>10. Chain(s, Chain(d, Chain(m, r)))
           = Chain(o, Chain(h, Chain(kept, Chain(first, Chain(d, Chain(m, r))))))
      BY <1>4, <2>9
    <2>11. Together(o, h, kept, b4) = Chain(o, Chain(h, Chain(kept, Reverse(b4))))
      BY TogetherChain, Zenon
    <2>12. Together(o, h, kept, b4) = Chain(s, Chain(Chain(d, m), r))
      BY <2>5, <2>6, <2>7, <2>10, <2>11, Zenon
    <2> QED BY <2>12, Zenon DEF b4, b3, b2, b1, rs, rf
  <1> QED BY <1>1, <1>3, <1>6, <1>7, Zenon DEF Chain, w, d, r, s, m,
        Behind, Ahead, DedentsLast, DedentsFirst


-----------------------------------------------------------------------------
(* Where ArrangeDedents cuts the indent buffer *)

LEMMA LastPlace ==
    ASSUME NEW n \in Nat, NEW I \in SUBSET (1..n), NEW m,
           m = IF I # {} THEN Max(I) ELSE 0
    PROVE  /\ m \in 0..n /\ m \in Nat /\ (m = 0 \/ m \in I)
           /\ \A i \in I : i <= m
  <1>1. CASE I = {}
    <2>1. m = 0
      BY <1>1
    <2> QED BY <1>1, <2>1
  <1>2. CASE I # {}
    <2>1. I \in SUBSET (0..n)
      OBVIOUS
    <2>2. Max(I) \in I /\ \A i \in I : i <= Max(I)
      BY <1>2, <2>1, Greatest
    <2>3. m = Max(I)
      BY <1>2
    <2>4. m \in I /\ \A i \in I : i <= m
      BY <2>2, <2>3, Zenon
    <2>5. m \in 1..n
      BY <2>4
    <2> QED BY <2>4, <2>5
  <1> QED BY <1>1, <1>2

Top(all) == SelectLastInSeq(all, LAMBDA p : p # DEDENT)

LEMMA TopFacts ==
    ASSUME NEW all \in Seq(Nat), all # << >>, all[1] # DEDENT, Last(all) = DEDENT
    PROVE  /\ Top(all) \in 1..(Len(all) - 1) /\ all[Top(all)] # DEDENT
           /\ \A i \in (Top(all) + 1)..Len(all) : all[i] = DEDENT
  <1> DEFINE I == {i \in 1..Len(all) : all[i] # DEDENT}
             m == IF I # {} THEN Max(I) ELSE 0
  <1>1. Top(all) = m
    BY Zenon DEF Top, SelectLastInSeq
  <1>2. Len(all) \in Nat \ {0} /\ I \in SUBSET (1..Len(all))
    BY LenProperties, EmptySeq
  <1>3. m = IF I # {} THEN Max(I) ELSE 0
    OBVIOUS
  <1>4. 1 \in I /\ Len(all) \notin I
    BY <1>2 DEF Last
  <1>5. \A i \in 1..Len(all) : i \in I <=> all[i] # DEDENT
    OBVIOUS
  <1> HIDE DEF I, m
  <1>6. m \in Nat /\ (m = 0 \/ m \in I) /\ \A i \in I : i <= m
    BY <1>2, <1>3, LastPlace
  <1>7. m \in I /\ m \in 1..(Len(all) - 1)
    <2>1. m >= 1 /\ m \in I
      BY <1>4, <1>6
    <2>2. m \in 1..Len(all) /\ m # Len(all)
      BY <1>2, <1>4, <2>1
    <2> QED BY <1>2, <2>1, <2>2
  <1>8. all[m] # DEDENT
    BY <1>2, <1>5, <1>7
  <1>9. ASSUME NEW i \in (m + 1)..Len(all) PROVE all[i] = DEDENT
    <2>1. i \in 1..Len(all) /\ ~ (i <= m)
      BY <1>2, <1>6
    <2> QED BY <1>5, <1>6, <2>1
  <1> QED BY <1>1, <1>7, <1>8, <1>9

KeptPlace(f, all, n) ==
    SelectLastInSubSeq(all, 1, n, LAMBDA p : ~ IsA(f, p, Blank))

LEMMA KeptPlaceFacts ==
    ASSUME NEW all \in Seq(Nat), NEW f, NEW n \in Nat
    PROVE  /\ KeptPlace(f, all, n) \in 0..n
           /\ \A i \in (KeptPlace(f, all, n) + 1)..n : IsA(f, all[i], Blank)
  <1> DEFINE I == {i \in 1..n : ~ IsA(f, all[i], Blank)}
             m == IF I # {} THEN Max(I) ELSE 0
  <1>1. KeptPlace(f, all, n) = m
    BY Zenon DEF KeptPlace, SelectLastInSubSeq
  <1>2. I \in SUBSET (1..n)
    OBVIOUS
  <1>3. m = IF I # {} THEN Max(I) ELSE 0
    OBVIOUS
  <1>4. \A i \in 1..n : i \in I <=> ~ IsA(f, all[i], Blank)
    OBVIOUS
  <1> HIDE DEF I, m
  <1>5. m \in 0..n /\ m \in Nat /\ \A i \in I : i <= m
    BY <1>2, <1>3, LastPlace
  <1>6. ASSUME NEW i \in (m + 1)..n PROVE IsA(f, all[i], Blank)
    <2>1. i \in 1..n /\ ~ (i <= m)
      BY <1>5
    <2> QED BY <1>4, <1>5, <2>1
  <1> QED BY <1>1, <1>5, <1>6

LEMMA OnLinePlace ==
    ASSUME NEW f, NEW temp \in Seq(Nat), NEW end
    PROVE  OnLine(f, temp, end) \in 0..Len(temp)
  <1> DEFINE I == {i \in 1..Len(temp) : source[temp[i]].line = source[end].line}
             m == IF I # {} THEN Max(I) ELSE 0
  <1>1. OnLine(f, temp, end) = m
    BY Zenon DEF OnLine, SelectLastInSeq
  <1>2. I \in SUBSET (1..Len(temp)) /\ Len(temp) \in Nat
    BY LenProperties
  <1>3. m = IF I # {} THEN Max(I) ELSE 0
    OBVIOUS
  <1> HIDE DEF I, m
  <1>4. m \in 0..Len(temp)
    BY <1>2, <1>3, LastPlace
  <1> QED BY <1>1, <1>4

LEMMA Part ==
    ASSUME NEW s \in Seq(Nat), NEW m \in Nat \ {0}, NEW n \in 0..Len(s), m <= n + 1
    PROVE  LET t == SubSeq(s, m, n)
           IN  /\ t \in Seq(Nat) /\ Len(t) = (n - m) + 1
               /\ \A i \in 1..((n - m) + 1) : t[i] = s[(m + i) - 1]
  OBVIOUS

LEMMA Parts ==
    ASSUME NEW s \in Seq(Nat), NEW m \in Nat \ {0}, NEW n \in 0..Len(s), NEW k \in Nat,
           m <= k + 1, k <= n
    PROVE  SubSeq(s, m, n) = SubSeq(s, m, k) \o SubSeq(s, k + 1, n)
  <1> DEFINE t == SubSeq(s, m, n)
             u == SubSeq(s, m, k)
             v == SubSeq(s, k + 1, n)
  <1>0. k \in 0..Len(s) /\ m <= n + 1 /\ k + 1 \in Nat \ {0} /\ k + 1 <= n + 1
    OBVIOUS
  <1>1. /\ t \in Seq(Nat) /\ Len(t) = (n - m) + 1
        /\ \A i \in 1..((n - m) + 1) : t[i] = s[(m + i) - 1]
    BY <1>0, Part
  <1>2. /\ u \in Seq(Nat) /\ Len(u) = (k - m) + 1
        /\ \A i \in 1..((k - m) + 1) : u[i] = s[(m + i) - 1]
    BY <1>0, Part
  <1>3. /\ v \in Seq(Nat) /\ Len(v) = (n - (k + 1)) + 1
        /\ \A i \in 1..((n - (k + 1)) + 1) : v[i] = s[((k + 1) + i) - 1]
    BY <1>0, Part
  <1> HIDE DEF t, u, v
  <1>4. Len(t) = Len(u) + Len(v)
    BY <1>1, <1>2, <1>3
  <1>5. \A i \in 1..Len(u) : t[i] = u[i]
    <2>1. \A i \in 1..Len(u) : i \in 1..((k - m) + 1) /\ i \in 1..((n - m) + 1)
      BY <1>2
    <2> QED BY <1>1, <1>2, <2>1
  <1>6. \A i \in 1..Len(v) : t[Len(u) + i] = v[i]
    <2>1. SUFFICES ASSUME NEW i \in 1..Len(v) PROVE t[Len(u) + i] = v[i]
      OBVIOUS
    <2>2. Len(u) + i \in 1..((n - m) + 1) /\ (m + (Len(u) + i)) - 1 = ((k + 1) + i) - 1
      BY <1>2, <1>3
    <2> QED BY <1>1, <1>3, <2>1, <2>2
  <1>7. t = u \o v
    BY <1>1, <1>2, <1>3, <1>4, <1>5, <1>6, ConcatOf
  <1> QED BY <1>7 DEF t, u, v


LEMMA Cut ==
    ASSUME NEW all \in Seq(Nat), NEW top \in 1..(Len(all) - 1),
           \A i \in (top + 1)..Len(all) : all[i] = DEDENT,
           NEW kept \in 0..(top - 1), NEW after \in 0..((top - 1) - kept)
    PROVE  LET temp == SubSeq(all, kept + 1, top - 1)
               first == SubSeq(temp, 1, after)
               second == SubSeq(temp, after + 1, Len(temp))
               before == SubSeq(all, 1, kept)
           IN  /\ first \in Seq(Nat) /\ second \in Seq(Nat) /\ before \in Seq(Nat)
               /\ all[top] \in Nat /\ Len(all) - top \in Nat
               /\ all = before \o ((first \o second)
                                   \o (<<all[top]>> \o Dedents(Len(all) - top)))
               /\ SubSeq(all, top + 1, Len(all)) = Dedents(Len(all) - top)
               /\ \A i \in 1..Len(second) : \E j \in (kept + 1)..(top - 1) :
                     second[i] = all[j]
               /\ Len(before) = kept /\ \A i \in 1..kept : before[i] = all[i]
  <1> DEFINE temp == SubSeq(all, kept + 1, top - 1)
             first == SubSeq(temp, 1, after)
             second == SubSeq(temp, after + 1, Len(temp))
             before == SubSeq(all, 1, kept)
             w == SubSeq(all, top, top)
             n == Len(all)
             d == SubSeq(all, top + 1, n)
             rest == SubSeq(all, kept + 1, n)
             end == SubSeq(all, top, n)
  <1>1. /\ n \in Nat /\ top \in Nat /\ kept \in Nat /\ after \in Nat
        /\ top >= 1 /\ top < n /\ kept < top /\ top \in 0..n /\ n \in 0..n
        /\ top - 1 \in Nat /\ top - 1 \in 0..n /\ kept \in 0..n
        /\ all[top] \in Nat /\ n - top \in Nat
        /\ kept + 1 \in Nat \ {0} /\ top + 1 \in Nat \ {0} /\ top \in Nat \ {0}
        /\ (top - 1) + 1 = top
    BY LenProperties
  <1>2. /\ temp \in Seq(Nat) /\ Len(temp) = (top - 1) - kept
        /\ \A i \in 1..((top - 1) - kept) : temp[i] = all[kept + i]
    <2>1. /\ kept + 1 <= (top - 1) + 1
          /\ ((top - 1) - (kept + 1)) + 1 = (top - 1) - kept
          /\ \A i \in Nat : ((kept + 1) + i) - 1 = kept + i
      BY <1>1
    <2>2. LET t == SubSeq(all, kept + 1, top - 1)
          IN  /\ t \in Seq(Nat) /\ Len(t) = ((top - 1) - (kept + 1)) + 1
              /\ \A i \in 1..(((top - 1) - (kept + 1)) + 1) : t[i] = all[((kept + 1) + i) - 1]
      BY <1>1, <2>1, Part
    <2> HIDE DEF n
    <2> QED BY <1>1, <2>1, <2>2
  <1>3. /\ before \in Seq(Nat) /\ Len(before) = kept
        /\ \A i \in 1..kept : before[i] = all[i]
    BY <1>1, PrefixFacts
  <1>4. w = <<all[top]>>
    <2> DEFINE x == all[top]
               v == <<x>>
    <2>1. /\ top <= top + 1 /\ (top - top) + 1 = 1 /\ (top + 1) - 1 = top
          /\ 1 \in 1..1
      BY <1>1
    <2>2. /\ w \in Seq(Nat) /\ Len(w) = (top - top) + 1
          /\ \A i \in 1..((top - top) + 1) : w[i] = all[(top + i) - 1]
      BY <1>1, <2>1, Part
    <2>3. w \in Seq(Nat) /\ Len(w) = 1 /\ w[1] = x
      BY <2>1, <2>2
    <2>4. v \in Seq(Nat) /\ Len(v) = 1 /\ v[1] = x
      BY <1>1
    <2> HIDE DEF w, x, v
    <2>5. \A i \in 1..Len(w) : w[i] = v[i]
      BY <2>3, <2>4
    <2>6. w = v
      BY <2>3, <2>4, <2>5, SeqEqual
    <2> QED BY <2>6 DEF v, x
  <1>5. d = Dedents(n - top)
    <2>1. /\ d \in Seq(Nat) /\ Len(d) = n - top
          /\ \A i \in 1..(n - top) : d[i] = all[top + i]
      <3>1. /\ top + 1 <= n + 1 /\ (n - (top + 1)) + 1 = n - top
            /\ \A i \in Nat : ((top + 1) + i) - 1 = top + i
        <4> HIDE DEF n
        <4> QED BY <1>1
      <3>2. /\ d \in Seq(Nat) /\ Len(d) = (n - (top + 1)) + 1
            /\ \A i \in 1..((n - (top + 1)) + 1) : d[i] = all[((top + 1) + i) - 1]
        BY <1>1, <3>1, Part
      <3> HIDE DEF n, d
      <3> QED BY <1>1, <3>1, <3>2
    <2>2. /\ Dedents(n - top) \in Seq(Nat) /\ Len(Dedents(n - top)) = n - top
          /\ \A i \in 1..(n - top) : Dedents(n - top)[i] = DEDENT
      BY <1>1, DedentsFacts
    <2>3. \A i \in 1..(n - top) : top + i \in (top + 1)..n
      BY <1>1
    <2>4. \A i \in 1..(n - top) : d[i] = Dedents(n - top)[i]
      BY <2>1, <2>2, <2>3
    <2> HIDE DEF d, n
    <2> QED BY <2>1, <2>2, <2>4, SeqEqual
  <1>6. /\ first \in Seq(Nat) /\ temp = first \o second
    <2> HIDE DEF temp
    <2>1. /\ Len(temp) \in Nat /\ Len(temp) \in 0..Len(temp) /\ after \in 0..Len(temp)
          /\ 1 \in Nat \ {0} /\ 1 <= after + 1 /\ after <= Len(temp)
      BY <1>1, <1>2
    <2>2. SubSeq(temp, 1, Len(temp)) = first \o second
      <3> DEFINE k == Len(temp)
      <3>1. temp \in Seq(Nat) /\ k \in 0..Len(temp) /\ after \in Nat /\ after <= k
        BY <1>1, <1>2, <2>1
      <3> HIDE DEF k
      <3>2. SubSeq(temp, 1, k) = SubSeq(temp, 1, after) \o SubSeq(temp, after + 1, k)
        BY <2>1, <3>1, Parts
      <3> QED BY <3>2, Zenon DEF k
    <2>3. SubSeq(temp, 1, Len(temp)) = temp
      BY <1>2, PrefixWhole
    <2>4. first \in Seq(Nat)
      BY <1>2, <2>1, PrefixFacts
    <2> HIDE DEF first, second
    <2> QED BY <2>2, <2>3, <2>4, Zenon
  <1>7. /\ second \in Seq(Nat)
        /\ \A i \in 1..Len(second) : \E j \in (kept + 1)..(top - 1) : second[i] = all[j]
    <2> HIDE DEF temp
    <2>1. /\ after + 1 \in Nat \ {0} /\ Len(temp) \in 0..Len(temp)
          /\ after + 1 <= Len(temp) + 1 /\ Len(temp) \in Nat
      BY <1>1, <1>2
    <2>2. /\ second \in Seq(Nat) /\ Len(second) = (Len(temp) - (after + 1)) + 1
          /\ \A i \in 1..((Len(temp) - (after + 1)) + 1) :
                second[i] = temp[((after + 1) + i) - 1]
      BY <1>2, <2>1, Part
    <2> HIDE DEF second
    <2>3. ASSUME NEW i \in 1..Len(second)
          PROVE  \E j \in (kept + 1)..(top - 1) : second[i] = all[j]
      <3> DEFINE k == ((after + 1) + i) - 1
      <3>1. /\ i \in 1..((Len(temp) - (after + 1)) + 1) /\ k \in 1..((top - 1) - kept)
            /\ kept + k \in (kept + 1)..(top - 1)
        BY <1>1, <1>2, <2>1, <2>2
      <3>2. second[i] = temp[k]
        BY <2>2, <3>1
      <3>3. temp[k] = all[kept + k]
        BY <1>2, <3>1
      <3> HIDE DEF k
      <3> QED BY <3>1, <3>2, <3>3
    <2> QED BY <2>2, <2>3
  <1>8. all = before \o (temp \o (w \o d))
    <2>0. /\ 1 \in Nat \ {0} /\ 1 <= kept + 1 /\ kept <= n /\ kept + 1 <= (top - 1) + 1
          /\ top - 1 <= n /\ top <= top + 1 /\ top <= n
      BY <1>1
    <2>1. SubSeq(all, 1, n) = before \o rest
      BY <1>1, <2>0, Parts, ZenonT(60)
    <2>2. rest = temp \o SubSeq(all, (top - 1) + 1, n)
      BY <1>1, <2>0, Parts, ZenonT(60)
    <2>3. SubSeq(all, top, n) = w \o d
      BY <1>1, <2>0, Parts
    <2>4. SubSeq(all, 1, n) = all
      BY PrefixWhole
    <2> HIDE DEF before, rest, temp, w, d
    <2>5. rest = temp \o (w \o d)
      BY <1>1, <2>2, <2>3, Zenon
    <2> QED BY <2>1, <2>4, <2>5, Zenon
  <1>9. all = before \o ((first \o second) \o (<<all[top]>> \o Dedents(n - top)))
    <2> HIDE DEF before, temp, first, second, w, d
    <2> QED BY <1>4, <1>5, <1>6, <1>8, Zenon
  <1> QED BY <1>1, <1>3, <1>5, <1>6, <1>7, <1>9, Zenon


-----------------------------------------------------------------------------
(* The invariant in the next state *)

LEMMA Later ==
    ASSUME source' = source
    PROVE  /\ Continued' <=> Continued
           /\ ColonFirst' <=> ColonFirst
           /\ FilterType' = FilterType
           /\ Retyped(filter') => Retyped(filter)'
           /\ Spaced(filter') => Spaced(filter)'
           /\ Sound(filter', All') => Sound(filter, All)'
  <1>1. Continued' <=> Continued
    BY DEF Continued
  <1>2. ColonFirst' <=> ColonFirst
    BY DEF ColonFirst
  <1>3. FilterType' = FilterType
    BY DEF FilterType
  <1>4. Retyped(filter') => Retyped(filter)'
    BY DEF Retyped
  <1>5. IndentsOf(filter.type)' = IndentsOf(filter'.type)
    BY DEF IndentsOf
  <1>6. Spaced(filter') => Spaced(filter)'
    BY <1>5 DEF Spaced
  <1>7. Sound(filter', All') => Sound(filter, All)'
    <2>1. OfSource(All)' = OfSource(All')
      BY DEF OfSource
    <2>2. Ordered(OfSource(All'), filter'.read) <=> Ordered(OfSource(All), filter.read)'
      BY <1>1, <2>1 DEF Ordered, Stepwise
    <2> QED BY <1>2, <1>5, <2>2 DEF Sound
  <1> QED BY <1>1, <1>2, <1>3, <1>4, <1>6, <1>7

LEMMA SoundSame ==
    ASSUME NEW f, NEW g, g.read = f.read, g.type = f.type, g.numIndents = f.numIndents,
           NEW s, Sound(f, s)
    PROVE  Sound(g, s)
  BY DEF Sound


\* what the steps before the invariant in the next state have in common
LEMMA AllType ==
    ASSUME SourceOK, Inv
    PROVE  /\ filter \in FilterType /\ output \in Seq(Nat) /\ Held \in Seq(Nat)
           /\ filter.read \in Nat /\ filter.numIndents \in Nat
           /\ filter.buffer \in Seq(Nat) /\ filter.indentBuffer \in Seq(Nat)
           /\ filter.block \in Nat /\ filter.type \in [1..Len(source) -> Types]
  <1>1. filter \in FilterType /\ output \in Seq(Nat)
    BY DEF Inv, TypeOK
  <1>2. filter.block \in Nat
    BY <1>1, ZenonT(60) DEF FilterType
  <1>3. Held \in Seq(Nat)
    BY <1>2 DEF Held
  <1> QED BY <1>1, <1>2, <1>3 DEF FilterType

\* the buffers after ArrangeDedents
LEMMA ArrangedDedents ==
    ASSUME SourceOK, Inv, ArrangeDedents
    PROVE  \E kept \in Seq(Nat), first \in Seq(Nat), second \in Seq(Nat), t \in Nat, n \in Nat :
              /\ filter.indentBuffer = Chain(kept, Behind(first, second, t, n))
              /\ filter' = [filter EXCEPT
                               !.indentBuffer = kept,
                               !.buffer = Ahead(filter.buffer, first, second, t, n)]
              /\ t # DEDENT
              /\ kept # << >> => kept[1] = filter.indentBuffer[1]
              /\ Spaced(filter) =>
                    /\ Level(Chain(second, Just(t)), IndentsOf(filter.type))
                    /\ \A i \in 1..(Len(kept) - 1) :
                          kept[i + 1] = DEDENT => kept[i] \notin IndentsOf(filter.type)
  <1> DEFINE all == filter.indentBuffer
             top == Top(all)
             k == KeptPlace(filter, all, top - 1)
             temp == SubSeq(all, k + 1, top - 1)
             after == IF k = 0 \/ all[k] = DEDENT THEN 0 ELSE OnLine(filter, temp, all[k])
             first == SubSeq(temp, 1, after)
             second == SubSeq(temp, after + 1, Len(temp))
             kept == SubSeq(all, 1, k)
             t == all[top]
             n == Len(all) - top
  <1>1. /\ all \in Seq(Nat) /\ all # << >> /\ Last(all) = DEDENT /\ all[1] # DEDENT
        /\ filter \in FilterType
    BY AllType DEF ArrangeDedents, Inv, Control
  <1>2. filter' = [filter EXCEPT
                     !.indentBuffer = kept,
                     !.buffer = filter.buffer \o Just(t) \o Reverse(second)
                                  \o SubSeq(all, top + 1, Len(all)) \o Reverse(first)]
    BY Zenon DEF ArrangeDedents, Top, KeptPlace, Just
  <1> HIDE DEF all, top, k
  <1>3. /\ top \in 1..(Len(all) - 1) /\ all[top] # DEDENT
        /\ \A i \in (top + 1)..Len(all) : all[i] = DEDENT
    BY <1>1, TopFacts DEF top
  <1>4. /\ top - 1 \in Nat /\ top \in Nat /\ Len(all) \in Nat
        /\ top + 1 \in (top + 1)..Len(all) /\ top \in 1..Len(all)
    BY <1>1, <1>3, LenProperties
  <1>5. k \in 0..(top - 1) /\ \A i \in (k + 1)..(top - 1) : IsA(filter, all[i], Blank)
    BY <1>1, <1>4, KeptPlaceFacts DEF k
  <1>6. temp \in Seq(Nat) /\ Len(temp) = (top - 1) - k
    <2>1. /\ k + 1 \in Nat \ {0} /\ top - 1 \in 0..Len(all) /\ k + 1 <= (top - 1) + 1
          /\ ((top - 1) - (k + 1)) + 1 = (top - 1) - k
      BY <1>4, <1>5
    <2>2. temp \in Seq(Nat) /\ Len(temp) = ((top - 1) - (k + 1)) + 1
      BY <1>1, <2>1, Part
    <2> QED BY <2>1, <2>2
  <1>7. after \in 0..((top - 1) - k)
    <2>1. \A end : OnLine(filter, temp, end) \in 0..Len(temp)
      BY <1>6, OnLinePlace
    <2> HIDE DEF temp
    <2>2. 0 \in 0..((top - 1) - k)
      BY <1>4, <1>5
    <2> QED BY <1>6, <2>1, <2>2
  <1> HIDE DEF after
  <1>8. /\ first \in Seq(Nat) /\ second \in Seq(Nat) /\ kept \in Seq(Nat)
        /\ t \in Nat /\ n \in Nat
        /\ all = kept \o ((first \o second) \o (Just(t) \o Dedents(n)))
        /\ SubSeq(all, top + 1, Len(all)) = Dedents(n)
        /\ \A i \in 1..Len(second) : \E j \in (k + 1)..(top - 1) : second[i] = all[j]
        /\ Len(kept) = k /\ \A i \in 1..k : kept[i] = all[i]
    BY <1>1, <1>3, <1>5, <1>7, Cut DEF Just
  <1> HIDE DEF first, second, kept, temp, n
  <1>9. filter' = [filter EXCEPT
                     !.indentBuffer = kept,
                     !.buffer = filter.buffer \o Just(t) \o Reverse(second)
                                    \o Dedents(n) \o Reverse(first)]
    BY <1>2, <1>8, Zenon
  <1>10. kept # << >> => kept[1] = all[1]
    <2>1. kept # << >> => k # 0
      BY <1>8, EmptySeq
    <2>2. k # 0 => 1 \in 1..k
      BY <1>5
    <2> QED BY <1>8, <2>1, <2>2
  <1>11. ASSUME Spaced(filter)
         PROVE  /\ Level(Chain(second, Just(t)), IndentsOf(filter.type))
                /\ \A i \in 1..(Len(kept) - 1) :
                      kept[i + 1] = DEDENT => kept[i] \notin IndentsOf(filter.type)
    <2> DEFINE ps == IndentsOf(filter.type)
    <2>1. \A i \in 1..(Len(all) - 1) : all[i + 1] = DEDENT => all[i] \notin ps
      BY <1>11 DEF Spaced, all
    <2>2. \A p : IsA(filter, p, Blank) => p # DEDENT /\ p \notin ps
      BY DEF IsA, Blank, LineEnds, IndentsOf
    <2> HIDE DEF ps
    <2>3. t # DEDENT /\ t \notin ps
      <3>1. all[top + 1] = DEDENT
        BY <1>3, <1>4
      <3> QED BY <1>3, <2>1, <3>1
    <2>4. Level(second \o Just(t), ps)
      <3>1. \A i \in 1..Len(second) : second[i] # DEDENT /\ second[i] \notin ps
        BY <1>5, <1>8, <2>2
      <3> HIDE DEF t
      <3>2. \A i \in 1..Len(second \o Just(t)) :
               (second \o Just(t))[i] # DEDENT /\ (second \o Just(t))[i] \notin ps
        BY <1>8, <2>3, <3>1 DEF Just
      <3> QED BY <3>2 DEF Level
    <2>5. \A i \in 1..(Len(kept) - 1) : kept[i + 1] = DEDENT => kept[i] \notin ps
      <3>1. \A i \in 1..(k - 1) : i \in 1..k /\ i + 1 \in 1..k /\ i \in 1..(Len(all) - 1)
        BY <1>3, <1>4, <1>5
      <3> QED BY <1>8, <2>1, <3>1
    <2> QED BY <2>4, <2>5, Zenon DEF ps, Chain
  <1>12. t # DEDENT
    BY <1>3
  <1> QED BY <1>8, <1>9, <1>10, <1>11, <1>12, ZenonT(60) DEF all, Chain, Behind, Ahead


LEMMA AheadType ==
    ASSUME NEW b \in Seq(Nat), NEW t \in Nat, NEW second \in Seq(Nat), NEW n \in Nat,
           NEW first \in Seq(Nat)
    PROVE  LET c == Ahead(b, first, second, t, n)
           IN  c \in Seq(Nat) /\ c[1] = IF b = << >> THEN t ELSE b[1]
  <1> DEFINE d == Dedents(n)
             rs == Reverse(second)
             rf == Reverse(first)
             w == Just(t)
  <1>1. /\ d \in Seq(Nat) /\ rs \in Seq(Nat) /\ rf \in Seq(Nat) /\ w \in Seq(Nat)
        /\ Len(w) = 1 /\ w[1] = t
    BY DedentsFacts, ReverseType DEF Just
  <1> HIDE DEF d, rs, rf, w
  <1>2. ASSUME NEW u \in Seq(Nat), NEW v \in Seq(Nat), u # << >>
        PROVE  u \o v \in Seq(Nat) /\ u \o v # << >> /\ (u \o v)[1] = u[1]
    <2>1. Len(u) \in Nat \ {0} /\ Len(v) \in Nat
      BY <1>2, LenProperties, EmptySeq
    <2>2. /\ u \o v \in Seq(Nat) /\ Len(u \o v) = Len(u) + Len(v)
          /\ \A i \in 1..Len(u) : (u \o v)[i] = u[i]
      OBVIOUS
    <2>3. Len(u \o v) # 0 /\ 1 \in 1..Len(u)
      BY <2>1, <2>2
    <2>4. Len(<< >>) = 0
      OBVIOUS
    <2> QED BY <2>2, <2>3, <2>4
  <1>3. b \o w \in Seq(Nat) /\ b \o w # << >> /\ (b \o w)[1] = IF b = << >> THEN t ELSE b[1]
    <2>1. w # << >>
      <3>1. Len(<< >>) = 0
        OBVIOUS
      <3>2. Len(w) # 0
        BY <1>1
      <3> QED BY <3>1, <3>2, Zenon
    <2>2. b = << >> => b \o w = w
      BY <1>1, ConcatNone
    <2>3. b # << >> => b \o w \in Seq(Nat) /\ b \o w # << >> /\ (b \o w)[1] = b[1]
      BY <1>1, <1>2
    <2> QED BY <1>1, <2>1, <2>2, <2>3
  <1> DEFINE b1 == b \o w
             b2 == b1 \o rs
             b3 == b2 \o d
             b4 == b3 \o rf
  <1> HIDE DEF b1
  <1>4. b2 \in Seq(Nat) /\ b2 # << >> /\ b2[1] = b1[1]
    BY <1>1, <1>2, <1>3 DEF b1
  <1> HIDE DEF b2
  <1>5. b3 \in Seq(Nat) /\ b3 # << >> /\ b3[1] = b2[1]
    BY <1>1, <1>2, <1>4
  <1> HIDE DEF b3
  <1>6. b4 \in Seq(Nat) /\ b4[1] = b3[1]
    BY <1>1, <1>2, <1>5
  <1> HIDE DEF b4
  <1>7. b4 \in Seq(Nat) /\ b4[1] = IF b = << >> THEN t ELSE b[1]
    BY <1>3, <1>4, <1>5, <1>6 DEF b1
  <1> QED BY <1>7, Zenon DEF b4, b3, b2, b1, d, rs, rf, w, Ahead

\* tokens are moved from indentBuffer, of which i is left, to buffer, then b
LEMMA Moves ==
    ASSUME SourceOK, Inv, NEW i \in Seq(Nat), NEW b \in Seq(Nat),
           filter' = [filter EXCEPT !.indentBuffer = i, !.buffer = b],
           pc = "arrange", pc' \in {"arrange", "undefined"},
           source' = source, output' = output,
           i # << >> => i[1] # DEDENT, b # << >> => b[1] # DEDENT,
           Sound(filter, Together(output, Held, i, b)),
           Spaced(filter) => \A j \in 1..(Len(i) - 1) :
                                i[j + 1] = DEDENT => i[j] \notin IndentsOf(filter.type)
    PROVE  Inv'
  <1> DEFINE f == filter
  <1>1. /\ f \in FilterType /\ output \in Seq(Nat) /\ source \in Sources
    BY AllType DEF Inv, TypeOK
  <1> HIDE DEF f
  <1>2. /\ filter' \in FilterType /\ filter'.indentBuffer = i /\ filter'.buffer = b
        /\ filter'.read = f.read /\ filter'.type = f.type
        /\ filter'.numIndents = f.numIndents /\ filter'.block = f.block
        /\ filter'.statementContinues = f.statementContinues
    <2>1. filter' = [f EXCEPT !.indentBuffer = i, !.buffer = b]
      BY DEF f
    <2> QED BY <1>1, <2>1, ZenonT(60) DEF FilterType
  <1>3. Held' = Held
    <2>1. InBlock /\ InBlock'
      BY DEF InBlock
    <2> QED BY <1>2, <2>1 DEF Held, f
  <1>4. All' = Together(output, Held, i, b)
    <2>1. All' = Together(output', Held', filter'.indentBuffer, filter'.buffer)
      BY DEF All
    <2> QED BY <1>2, <1>3, <2>1, Zenon
  <1>5. Sound(filter', All')
    <2>1. Sound(f, All')
      BY <1>4, Zenon DEF f
    <2> QED BY <1>2, <2>1, SoundSame
  <1>6. TypeOK'
    BY <1>1, <1>2, Later DEF TypeOK
  <1>7. Retyped(filter')
    BY <1>2 DEF Inv, Retyped, f
  <1>8. Control(filter)'
    <2>1. Control(f)
      BY DEF Inv, f
    <2> QED BY <1>2, <2>1, Later DEF Control, InBlock
  <1>9. Ended'
    <2>1. \A n \in 1..Len(output) : output[n] # Len(source)
      BY DEF Inv, Ended
    <2>2. pc' # "done"
      OBVIOUS
    <2> QED BY <2>1, <2>2 DEF Ended
  <1>10. ~ ColonFirst => Spaced(filter')
    BY <1>2 DEF Inv, Spaced, f
  <1> QED BY <1>5, <1>6, <1>7, <1>8, <1>9, <1>10, Later DEF Inv

LEMMA StepArrangeDedents ==
    ASSUME SourceOK, Inv, ArrangeDedents
    PROVE  Inv'
  <1> DEFINE f == filter
  <1>1. PICK kept \in Seq(Nat), first \in Seq(Nat), second \in Seq(Nat), t \in Nat, n \in Nat :
              /\ f.indentBuffer = Chain(kept, Behind(first, second, t, n))
              /\ filter' = [f EXCEPT
                               !.indentBuffer = kept,
                               !.buffer = Ahead(f.buffer, first, second, t, n)]
              /\ t # DEDENT
              /\ kept # << >> => kept[1] = f.indentBuffer[1]
              /\ Spaced(f) =>
                    /\ Level(Chain(second, Just(t)), IndentsOf(f.type))
                    /\ \A i \in 1..(Len(kept) - 1) :
                          kept[i + 1] = DEDENT => kept[i] \notin IndentsOf(f.type)
    BY ArrangedDedents, Zenon
  <1> DEFINE m == Chain(second, Just(t))
             b == Ahead(f.buffer, first, second, t, n)
  <1>2. /\ f \in FilterType /\ output \in Seq(Nat) /\ Held \in Seq(Nat)
        /\ f.buffer \in Seq(Nat) /\ source \in Sources
    BY AllType DEF Inv, TypeOK
  <1>3. b \in Seq(Nat) /\ b[1] = IF f.buffer = << >> THEN t ELSE f.buffer[1]
    BY <1>2, AheadType, SMTT(30)
  <1>4. Spaced(f) => Level(m, IndentsOf(f.type))
    BY <1>1
  <1>5. filter' = [f EXCEPT !.indentBuffer = kept, !.buffer = b]
    BY <1>1
  <1>6. /\ pc = "arrange" /\ pc' \in {"arrange", "undefined"}
        /\ source' = source /\ output' = output
    BY DEF ArrangeDedents
  <1>7. Together(output, Held, f.indentBuffer, f.buffer) = All
    BY DEF All
  <1> DEFINE s == Chain(output, Chain(Held, Chain(kept, first)))
             r == Reverse(f.buffer)
  <1>8. /\ s \in Seq(Nat) /\ m \in Seq(Nat) /\ r \in Seq(Nat)
        /\ Together(output, Held, Chain(kept, Behind(first, second, t, n)), f.buffer)
           = DedentsLast(s, m, n, r)
        /\ Together(output, Held, kept, b) = DedentsFirst(s, m, n, r)
    BY <1>2, DedentsMoved, SMTT(30)
  <1> HIDE DEF b, m, s, r, f
  <1>9. All = DedentsLast(s, m, n, r)
    BY <1>1, <1>7, <1>8, Zenon
  <1>10. Sound(f, DedentsFirst(s, m, n, r))
    <2>1. Sound(f, All) /\ (~ ColonFirst => Spaced(f))
      BY Zenon DEF Inv, f
    <2>2. Sound(f, s \o ((m \o Dedents(n)) \o r))
      BY <1>9, <2>1, Zenon DEF DedentsLast
    <2>3. ~ ColonFirst => Level(m, IndentsOf(f.type))
      BY <1>4, <2>1
    <2>4. Sound(f, s \o ((Dedents(n) \o m) \o r))
      BY <1>2, <1>8, <2>2, <2>3, MovedSound
    <2> QED BY <2>4, Zenon DEF DedentsFirst
  <1>11. kept # << >> => kept[1] # DEDENT
    <2>1. f.indentBuffer # << >>
      BY Zenon DEF ArrangeDedents, f
    <2>2. Control(f)
      BY DEF Inv, f
    <2> QED BY <1>1, <2>1, <2>2 DEF Control
  <1>12. b # << >> => b[1] # DEDENT
    <2>1. Control(f)
      BY DEF Inv, f
    <2> QED BY <1>1, <1>3, <2>1 DEF Control
  <1>13. Sound(f, Together(output, Held, kept, b))
    BY <1>8, <1>10, Zenon
  <1> QED BY <1>1, <1>3, <1>5, <1>6, <1>11, <1>12, <1>13, Moves DEF f

LEMMA StepArrangeToken ==
    ASSUME SourceOK, Inv, ArrangeToken
    PROVE  Inv'
  <1> DEFINE i == filter.indentBuffer
             j == Front(i)
             b == filter.buffer
             x == Last(i)
             c == Append(b, x)
  <1>1. /\ pc = "arrange" /\ i # << >> /\ x # DEDENT
        /\ filter' = [filter EXCEPT !.indentBuffer = j, !.buffer = c]
        /\ source' = source /\ pc' \in {"arrange", "undefined"} /\ output' = output
    BY Zenon DEF ArrangeToken
  <1>2. i \in Seq(Nat) /\ b \in Seq(Nat)
    BY AllType
  <1>3. (i # << >> => i[1] # DEDENT) /\ (b # << >> => b[1] # DEDENT)
    BY DEF Inv, Control
  <1>4. Sound(filter, Together(output, Held, i, b))
    BY Zenon DEF Inv, All
  <1>5. Spaced(filter) => \A k \in 1..(Len(i) - 1) :
                             i[k + 1] = DEDENT => i[k] \notin IndentsOf(filter.type)
    BY DEF Spaced
  <1> HIDE DEF i, b
  <1>6. /\ x \in Nat /\ j \in Seq(Nat) /\ Len(i) \in Nat \ {0} /\ Len(j) = Len(i) - 1
        /\ \A k \in 1..(Len(i) - 1) : j[k] = i[k]
    BY <1>1, <1>2, LastFront
  <1>7. Together(output, Held, j, c) = Together(output, Held, i, b)
    BY <1>1, <1>2, LastMoved
  <1> HIDE DEF j, x
  <1>8. c \in Seq(Nat) /\ c[1] # DEDENT
    <2>1. c \in Seq(Nat)
      BY <1>2, <1>6
    <2>2. b = << >> => c[1] = x
      BY <1>2, <1>6
    <2>3. b # << >> => c[1] = b[1]
      <3>1. b # << >> => Len(b) \in Nat \ {0}
        BY <1>2, LenProperties, EmptySeq
      <3> QED BY <1>2, <1>6, <3>1
    <2> QED BY <1>1, <1>3, <2>1, <2>2, <2>3
  <1>9. j # << >> => j[1] # DEDENT
    <2>1. j # << >> => 1 \in 1..(Len(i) - 1)
      <3>1. j # << >> => Len(j) # 0
        BY <1>6, EmptySeq
      <3> QED BY <1>6, <3>1
    <2> QED BY <1>1, <1>3, <1>6, <2>1
  <1>10. Spaced(filter) => \A k \in 1..(Len(j) - 1) :
                             j[k + 1] = DEDENT => j[k] \notin IndentsOf(filter.type)
    <2>1. \A k \in 1..(Len(j) - 1) : /\ k \in 1..(Len(i) - 1)
                                      /\ k + 1 \in 1..(Len(i) - 1)
      BY <1>6
    <2> QED BY <1>5, <1>6, <2>1
  <1> HIDE DEF c
  <1>11. Sound(filter, Together(output, Held, j, c))
    BY <1>4, <1>7, Zenon
  <1> QED BY <1>1, <1>6, <1>8, <1>9, <1>10, <1>11, Moves


LEMMA AppendFirst ==
    ASSUME NEW b \in Seq(Nat), b # << >> => b[1] # DEDENT, NEW x \in Nat, x # DEDENT
    PROVE  Append(b, x) \in Seq(Nat) /\ Append(b, x)[1] # DEDENT
  <1>1. Append(b, x) \in Seq(Nat)
    OBVIOUS
  <1>2. b = << >> => Append(b, x)[1] = x
    OBVIOUS
  <1>3. b # << >> => Append(b, x)[1] = b[1]
    <2>1. b # << >> => Len(b) \in Nat \ {0}
      BY LenProperties, EmptySeq
    <2> QED BY <2>1
  <1> QED BY <1>1, <1>2, <1>3

LEMMA StepArranged ==
    ASSUME SourceOK, Inv, Arranged
    PROVE  Inv'
  <1> DEFINE f == filter
             x == f.block
             b == f.buffer
             c == Append(b, x)
  <1>1. /\ pc = "arrange" /\ f.indentBuffer = << >>
        /\ filter' = [f EXCEPT !.buffer = c]
        /\ source' = source /\ pc' = "next" /\ output' = output
    BY Zenon DEF Arranged
  <1>2. /\ f \in FilterType /\ output \in Seq(Nat) /\ source \in Sources
        /\ b \in Seq(Nat) /\ x \in Nat /\ Control(f)
    BY AllType DEF Inv, TypeOK
  <1>3. x # DEDENT /\ (b # << >> => b[1] # DEDENT)
    BY <1>1, <1>2 DEF Control, InBlock
  <1>4. All = Together(output, <<x>>, << >>, b) /\ Sound(f, All)
    <2>1. Held = <<x>>
      BY <1>1 DEF Held, InBlock
    <2>2. All = Together(output, Held, f.indentBuffer, f.buffer)
      BY Zenon DEF All
    <2>3. Sound(f, All)
      BY Zenon DEF Inv
    <2> QED BY <1>1, <2>1, <2>2, <2>3, Zenon
  <1> HIDE DEF b, x, f
  <1>5. c \in Seq(Nat) /\ c[1] # DEDENT
    BY <1>2, <1>3, AppendFirst
  <1>6. Together(output, << >>, << >>, c) = Together(output, <<x>>, << >>, b)
    BY <1>2, FirstMoved
  <1> HIDE DEF c
  <1>7. /\ filter' \in FilterType /\ filter'.indentBuffer = << >> /\ filter'.buffer = c
        /\ filter'.read = f.read /\ filter'.type = f.type
        /\ filter'.numIndents = f.numIndents /\ filter'.block = f.block
        /\ filter'.statementContinues = f.statementContinues
    BY <1>1, <1>2, <1>5 DEF FilterType
  <1>8. All' = Together(output, << >>, << >>, c)
    <2>1. Held' = << >>
      BY <1>1 DEF Held, InBlock
    <2>2. All' = Together(output', Held', filter'.indentBuffer, filter'.buffer)
      BY DEF All
    <2> QED BY <1>1, <1>7, <2>1, <2>2, Zenon
  <1>9. Sound(filter', All')
    <2>1. Sound(f, All')
      BY <1>4, <1>6, <1>8, Zenon
    <2> QED BY <1>7, <2>1, SoundSame
  <1>10. TypeOK'
    BY <1>1, <1>2, <1>7, Later DEF TypeOK
  <1>11. Retyped(filter')
    BY <1>7 DEF Inv, Retyped, f
  <1>12. Control(filter)'
    BY <1>1, <1>2, <1>3, <1>5, <1>7, Later DEF Control, InBlock
  <1>13. Ended'
    BY <1>1 DEF Inv, Ended
  <1>14. Spaced(filter')
    <2>1. Len(<< >>) = 0
      OBVIOUS
    <2> QED BY <1>7, <2>1 DEF Spaced
  <1> QED BY <1>1, <1>9, <1>10, <1>11, <1>12, <1>13, <1>14, Later DEF Inv

\* nothing of the program comes after its last token
LEMMA NothingAfter ==
    ASSUME SourceOK, NEW s \in Seq(Nat), NEW t \in Seq(Nat), NEW x, x = Len(source),
           Stepwise(OfSource(Append(s, x) \o t))
    PROVE  OfSource(t) = << >>
  <1> DEFINE Src == 1..Len(source)
             w == Just(x)
             u == Append(s, x)
             a == Those(s, Src)
             b == Those(u, Src)
             v == Those(t, Src)
             z == Those(u \o t, Src)
  <1>1. x \in Nat /\ x \in Src /\ Len(source) \in Nat
    BY SourceFacts
  <1>2. w \in Seq(Nat) /\ w = <<x>> /\ u = s \o w /\ u \in Seq(Nat)
    BY <1>1, AppendIsConcat DEF Just
  <1>3. Those(w, Src) = w /\ Len(w) = 1 /\ w[1] = x
    <2>1. Those(w, Src) = w
      BY <1>1, <1>2, ThoseOne
    <2> QED BY <1>2, <2>1
  <1> HIDE DEF w, u, Src
  <1>4. /\ a \in Seq(Nat) /\ v \in Seq(Nat) /\ v \in Seq(Nat \cap Src)
        /\ z = b \o v /\ b \in Seq(Nat)
    BY <1>2, ThoseType, ThoseConcat
  <1>5. b = a \o w
    <2>1. Those(s \o w, Src) = Those(s, Src) \o Those(w, Src)
      BY <1>2, ThoseConcat, ZenonT(60)
    <2> QED BY <1>2, <1>3, <2>1, Zenon
  <1>6. Stepwise(z)
    BY Zenon DEF OfSource, Src, u
  <1> HIDE DEF a, b, v, z
  <1> SUFFICES ASSUME v # << >> PROVE FALSE
    BY Zenon DEF OfSource, v, Src
  <1> DEFINE k == Len(a)
  <1>7. k \in Nat /\ Len(v) \in Nat \ {0} /\ v[1] \in Src
    <2>1. k \in Nat /\ Len(v) \in Nat \ {0}
      BY <1>4, LenProperties, EmptySeq
    <2> QED BY <1>4, <2>1
  <1>8. Len(b) = k + 1 /\ b[k + 1] = x
    BY <1>2, <1>3, <1>4, <1>5
  <1>9. Len(z) = (k + 1) + Len(v) /\ z[k + 1] = x /\ z[(k + 1) + 1] = v[1]
    <2>1. /\ Len(z) = Len(b) + Len(v)
          /\ \A i \in 1..Len(b) : z[i] = b[i]
          /\ \A i \in 1..Len(v) : z[Len(b) + i] = v[i]
      BY <1>4
    <2>2. k + 1 \in 1..Len(b) /\ 1 \in 1..Len(v)
      BY <1>7, <1>8
    <2> QED BY <1>8, <2>1, <2>2
  <1> HIDE DEF k
  <1>10. k + 1 \in 1..(Len(z) - 1)
    BY <1>7, <1>9
  <1>11. v[1] = x + 1 \/ x < Len(source)
    BY <1>6, <1>9, <1>10 DEF Stepwise
  <1> QED BY <1>1, <1>7, <1>11 DEF Src

LEMMA FirstToken ==
    ASSUME NEW c \in Seq(Nat), c # << >>, NEW ps, c[1] \in ps
    PROVE  Those(Reverse(c), ps) # << >>
  <1> DEFINE x == Head(c)
             w == Just(x)
             t == Tail(c)
  <1>1. /\ x \in Nat /\ x \in ps /\ t \in Seq(Nat) /\ w \in Seq(Nat) /\ w = <<x>>
        /\ c = w \o t
    <2>1. Len(c) \in Nat \ {0}
      BY LenProperties, EmptySeq
    <2> QED BY <2>1 DEF Just
  <1>2. Reverse(w) = w /\ Those(w, ps) = w /\ Len(w) = 1
    <2>1. Those(<<x>>, ps) = <<x>>
      BY <1>1, ThoseOne
    <2> QED BY <1>1, <2>1, ReverseOne
  <1> HIDE DEF x, w, t
  <1>3. Reverse(w \o t) = Reverse(t) \o Reverse(w)
    BY <1>1, ReverseConcat
  <1> DEFINE r == Reverse(t)
  <1>4. r \in Seq(Nat) /\ Reverse(c) = r \o w
    BY <1>1, <1>2, <1>3, ReverseType
  <1> HIDE DEF r
  <1>5. Len(Those(r \o w, ps)) = Len(Those(r, ps)) + Len(Those(w, ps))
    BY <1>1, <1>4, ThoseConcat
  <1>6. Len(Those(r, ps)) \in Nat
    BY <1>4, ThoseType
  <1>7. Len(Those(Reverse(c), ps)) # 0
    <2>1. Len(Those(Reverse(c), ps)) = Len(Those(r, ps)) + Len(Those(w, ps))
      BY <1>4, <1>5, Zenon
    <2>2. Len(Those(w, ps)) = 1
      BY <1>2, Zenon
    <2> QED BY <1>6, <2>1, <2>2
  <1>8. Len(<< >>) = 0
    OBVIOUS
  <1> QED BY <1>7, <1>8, Zenon

LEMMA StepReturnToken ==
    ASSUME SourceOK, Inv, ReturnToken
    PROVE  Inv'
  <1> DEFINE f == filter
             b == f.buffer
             x == Last(b)
             c == Front(b)
             o == Append(output, x)
  <1>1. /\ pc = "next" /\ b # << >>
        /\ filter' = [f EXCEPT !.buffer = c]
        /\ source' = source /\ output' = o
        /\ pc' = IF IsA(f, x, {"EOF"}) THEN "done" ELSE pc
    BY Zenon DEF ReturnToken
  <1>2. /\ f \in FilterType /\ output \in Seq(Nat) /\ source \in Sources
        /\ b \in Seq(Nat) /\ Control(f) /\ Retyped(f) /\ Ended /\ f.read \in Nat
    BY AllType DEF Inv, TypeOK
  <1>3. f.indentBuffer = << >> /\ b[1] # DEDENT /\ f.numIndents = 0 /\ f.read <= Len(source)
    BY <1>1, <1>2 DEF Control, InBlock
  <1>4. All = Together(output, << >>, << >>, b) /\ Sound(f, All)
    <2>1. Held = << >>
      BY <1>1 DEF Held, InBlock
    <2>2. All = Together(output, Held, f.indentBuffer, f.buffer)
      BY Zenon DEF All
    <2>3. Sound(f, All)
      BY Zenon DEF Inv
    <2> QED BY <1>3, <2>1, <2>2, <2>3, Zenon
  <1> HIDE DEF b, f
  <1>5. /\ x \in Nat /\ c \in Seq(Nat) /\ Len(b) \in Nat \ {0} /\ Len(c) = Len(b) - 1
        /\ \A k \in 1..(Len(b) - 1) : c[k] = b[k]
    BY <1>1, <1>2, LastFront
  <1>6. c # << >> => c[1] # DEDENT
    <2>1. c # << >> => 1 \in 1..(Len(b) - 1)
      <3>1. c # << >> => Len(c) # 0
        BY <1>5, EmptySeq
      <3> QED BY <1>5, <3>1
    <2> QED BY <1>3, <1>5, <2>1
  <1>7. /\ Together(o, << >>, << >>, c) = Together(output, << >>, << >>, b)
        /\ Together(output, << >>, << >>, b) = o \o Reverse(c)
    BY <1>1, <1>2, LastReturned
  <1>8. o \in Seq(Nat)
    BY <1>2, <1>5
  <1> HIDE DEF c, x, o
  <1>9. pc' \in {"next", "done"}
    BY <1>1
  <1>10. /\ filter' \in FilterType /\ filter'.indentBuffer = << >> /\ filter'.buffer = c
        /\ filter'.read = f.read /\ filter'.type = f.type
        /\ filter'.numIndents = f.numIndents /\ filter'.block = f.block
        /\ filter'.statementContinues = f.statementContinues
    BY <1>1, <1>2, <1>3, <1>5 DEF FilterType
  <1>11. All' = All
    <2>1. Held' = << >>
      BY <1>9 DEF Held, InBlock
    <2>2. All' = Together(output', Held', filter'.indentBuffer, filter'.buffer)
      BY DEF All
    <2> QED BY <1>1, <1>4, <1>7, <1>10, <2>1, <2>2, Zenon
  <1>12. Sound(filter', All')
    <2>1. Sound(f, All')
      BY <1>4, <1>11, Zenon
    <2> QED BY <1>10, <2>1, SoundSame
  <1>13. TypeOK'
    BY <1>1, <1>2, <1>8, <1>9, <1>10, Later DEF TypeOK
  <1>14. Retyped(filter')
    BY <1>2, <1>10 DEF Retyped
  <1>15. Control(filter)'
    BY <1>1, <1>2, <1>3, <1>6, <1>9, <1>10, Later DEF Control, InBlock
  <1>16. Spaced(filter')
    <2>1. Len(<< >>) = 0
      OBVIOUS
    <2> QED BY <1>10, <2>1 DEF Spaced
  <1>17. ASSUME pc' # "done"
         PROVE  \A i \in 1..Len(o) : o[i] # Len(source)
    <2>1. ~ IsA(f, x, {"EOF"})
      BY <1>1, <1>17
    <2>2. x # Len(source)
      <3>1. SUFFICES ASSUME x = Len(source) PROVE FALSE
        OBVIOUS
      <3>2. Len(source) \in 1..Len(source) /\ Len(source) # DEDENT
        BY SourceFacts
      <3>3. source[Len(source)].type = "EOF"
        BY <3>2 DEF SourceOK
      <3>4. f.type[Len(source)] = "EOF"
        BY <1>2, <3>2, <3>3 DEF Retyped
      <3> QED BY <2>1, <3>1, <3>2, <3>4 DEF IsA
    <2>3. \A i \in 1..Len(output) : output[i] # Len(source)
      BY <1>1, <1>2 DEF Ended
    <2> QED BY <1>2, <1>5, <2>2, <2>3 DEF o
  <1>18. ASSUME pc' = "done"
         PROVE  f.read = Len(source) /\ c = << >>
    <2> DEFINE r == Reverse(c)
    <2>1. x # DEDENT /\ f.type[x] = "EOF"
      BY <1>1, <1>18 DEF IsA
    <2>2. r \in Seq(Nat) /\ Sound(f, o \o r)
      BY <1>4, <1>5, <1>7, ReverseType
    <2> HIDE DEF r
    <2>3. Within(o, f.read) /\ Within(r, f.read)
      <3>1. Within(o \o r, f.read)
        BY <2>2 DEF Sound
      <3> QED BY <1>2, <1>8, <2>2, <3>1, WithinParts
    <2>4. x <= f.read
      <3>1. Len(o) = Len(output) + 1 /\ o[Len(output) + 1] = x /\ Len(output) \in Nat
        BY <1>2, <1>5 DEF o
      <3> QED BY <2>3, <3>1 DEF Within
    <2>5. x \in 1..Len(source) /\ Len(source) \in Nat
      BY <1>2, <1>3, <1>5, <2>1, <2>4, SourceFacts DEF DEDENT
    <2>6. x = Len(source)
      <3>1. source[x].type = "EOF"
        BY <1>2, <2>1, <2>5 DEF Retyped
      <3> QED BY <2>5, <3>1 DEF SourceOK
    <2>7. f.read = Len(source)
      BY <1>2, <1>3, <2>4, <2>5, <2>6
    <2>8. OfSource(r) = << >>
      <3>1. Ordered(OfSource(Append(output, x) \o r), f.read)
        BY <2>2, Zenon DEF Sound, o
      <3> DEFINE z == OfSource(Append(output, x) \o r)
      <3>2. z # << >> => Stepwise(z)
        BY <3>1 DEF Ordered
      <3>3. z = << >> => Stepwise(z)
        <4>1. Len(<< >>) = 0
          OBVIOUS
        <4> QED BY <4>1 DEF Stepwise
      <3>4. Stepwise(z)
        BY <3>2, <3>3
      <3> QED BY <1>2, <2>2, <2>6, <3>4, NothingAfter
    <2>9. c = << >>
      <3>1. SUFFICES ASSUME c # << >> PROVE FALSE
        OBVIOUS
      <3>2. c[1] \in Nat /\ c[1] # DEDENT /\ Len(c) \in Nat \ {0}
        <4>1. Len(c) \in Nat \ {0}
          BY <1>5, <3>1, LenProperties, EmptySeq
        <4> QED BY <1>5, <1>6, <3>1, <4>1
      <3>3. c[1] <= f.read
        <4>1. Len(r) = Len(c) /\ \A i \in 1..Len(c) : r[i] = c[(Len(c) - i) + 1]
          BY <1>5, ReverseType DEF r
        <4>2. Len(c) \in 1..Len(c) /\ (Len(c) - Len(c)) + 1 = 1
          BY <3>2
        <4>3. r[Len(c)] = c[1]
          BY <4>1, <4>2
        <4> QED BY <2>3, <4>1, <4>2, <4>3 DEF Within
      <3>4. c[1] \in 1..Len(source)
        BY <1>2, <2>5, <2>7, <3>2, <3>3 DEF DEDENT
      <3>5. Those(r, 1..Len(source)) # << >>
        BY <1>5, <3>1, <3>4, FirstToken DEF r
      <3> QED BY <2>8, <3>5 DEF OfSource
    <2> QED BY <2>7, <2>9
  <1>19. Ended'
    BY <1>1, <1>10, <1>17, <1>18 DEF Ended
  <1> QED BY <1>1, <1>12, <1>13, <1>14, <1>15, <1>16, <1>19, Later DEF Inv


\* what the end is not among is not among the tokens of the program in it
LEMMA NoEnd ==
    ASSUME NEW s \in Seq(Nat), NEW x, \A i \in 1..Len(s) : s[i] # x,
           NEW n, Ordered(OfSource(s), n), n # 0
    PROVE  n # x
  <1> DEFINE Src == 1..Len(source)
             ps == Src \ {x}
             t == Those(s, Src)
  <1>1. t = Those(s, ps)
    <2>1. \A i \in 1..Len(s) : s[i] \in Src <=> s[i] \in ps
      OBVIOUS
    <2> HIDE DEF ps, Src
    <2> QED BY <2>1, ThoseSame
  <1>2. Those(s, ps) \in Seq(Nat \cap ps)
    BY ThoseType
  <1>3. Ordered(t, n)
    BY Zenon DEF OfSource
  <1> HIDE DEF t
  <1>4. t # << >> /\ t[Len(t)] = n
    BY <1>3 DEF Ordered
  <1>5. t \in Seq(Nat \cap ps)
    BY <1>1, <1>2, Zenon
  <1>6. Len(t) \in 1..Len(t)
    BY <1>4, <1>5, LenProperties, EmptySeq
  <1>7. t[Len(t)] \in Nat \cap ps
    BY <1>5, <1>6, ElementOfSeq
  <1> QED BY <1>4, <1>7

LEMMA StepReadToken ==
    ASSUME SourceOK, Inv, ReadToken
    PROVE  Inv'
  <1> DEFINE p == filter.read + 1
             c == [filter EXCEPT !.read = p]
             h == Checked(c, p)
             f == StartBlock(h, p)
             N == Len(source)
  <1>1. /\ pc = "next" /\ filter.buffer = << >> /\ source' = source /\ output' = output
        /\ IF f.type[p] = "INDENT"
           THEN /\ filter' = [f EXCEPT !.block = p, !.numTokensAfterIndent = 0,
                                       !.stopCounting = FALSE]
                /\ pc' = "blocks"
           ELSE filter' = [f EXCEPT !.buffer = <<p>>] /\ pc' = pc
    BY Zenon DEF ReadToken
  <1>2. /\ filter \in FilterType /\ output \in Seq(Nat) /\ source \in Sources
        /\ Control(filter) /\ Retyped(filter) /\ Ended
        /\ filter.read \in Nat /\ p \in Nat /\ N \in Nat \ {0}
    BY AllType, SourceFacts DEF Inv, TypeOK
  <1>3. filter.indentBuffer = << >> /\ filter.numIndents = 0 /\ filter.read <= N
    BY <1>1, <1>2 DEF Control, InBlock
  <1>4. All = output /\ Sound(filter, output)
    <2>1. Held = << >>
      BY <1>1 DEF Held, InBlock
    <2>2. All = Together(output, Held, filter.indentBuffer, filter.buffer)
      BY Zenon DEF All
    <2>3. Together(output, << >>, << >>, << >>) = output
      BY <1>2, FirstAdded, Zenon
    <2>4. Sound(filter, All)
      BY Zenon DEF Inv
    <2> QED BY <1>1, <1>3, <2>1, <2>2, <2>3, <2>4, Zenon
  <1>5. p \in 1..N
    <2>1. \A i \in 1..Len(output) : output[i] # N
      BY <1>1, <1>2 DEF Ended
    <2>2. Ordered(OfSource(output), filter.read)
      BY <1>4 DEF Sound
    <2>3. filter.read # 0 => filter.read # N
      BY <1>2, <2>1, <2>2, NoEnd
    <2> QED BY <1>2, <1>3, <2>3
  <1>6. filter.type[p] = source[p].type /\ filter.type[p] # "INDENT"
    <2>1. ~ (p <= filter.read)
      BY <1>2
    <2> QED BY <1>2, <1>5, <2>1 DEF Retyped, SourceOK
  <1>7. /\ c \in FilterType /\ c.read = p /\ c.type = filter.type
        /\ c.buffer = filter.buffer /\ c.indentBuffer = filter.indentBuffer
        /\ c.numIndents = filter.numIndents
        /\ c.statementContinues = filter.statementContinues
    BY <1>2 DEF FilterType
  <1> HIDE DEF c, p
  <1>8. h \in FilterType /\ Same(c, h)
    BY <1>7, CheckedFacts
  <1> HIDE DEF h
  <1>9. f \in FilterType /\ (Same(h, f) \/ Begins(h, f, p))
    BY <1>5, <1>8, StartBlockFacts
  <1> HIDE DEF f
  <1>10. /\ f.read = p /\ f.buffer = << >> /\ f.indentBuffer = << >>
         /\ f.statementContinues = filter.statementContinues
         /\ \/ f.type = filter.type /\ f.numIndents = 0
            \/ /\ filter.type[p] = "COLON" /\ f.type = [filter.type EXCEPT ![p] = "INDENT"]
               /\ f.numIndents = 1
    BY <1>1, <1>3, <1>7, <1>8, <1>9 DEF Same, Begins
  <1>11. f.numIndents = IF f.type[p] = "INDENT" THEN 1 ELSE 0
    <2>1. filter.type \in [1..N -> Types]
      BY <1>2 DEF FilterType
    <2> QED BY <1>5, <1>6, <1>10, <2>1
  <1>12. Changed(filter, f, p)
    <2>1. filter.type \in [1..N -> Types]
      BY <1>2 DEF FilterType
    <2> QED BY <1>5, <1>10, <2>1 DEF Changed
  <1>13. Reading(filter, f, p, 0, << >>, 0)
    <2>1. f.statementContinues => Continued
      BY <1>2, <1>10 DEF Control
    <2>2. f.numIndents = ((IF f.type[p] = "INDENT" THEN 1 ELSE 0) + filter.numIndents) - (0 + 0)
      BY <1>3, <1>11
    <2> QED BY <1>10, <1>12, <2>1, <2>2 DEF Reading
  <1>14. Sound(f, output \o New(p, 0, << >>, 0))
    <2>1. 0 \in Nat /\ << >> \in Seq(Nat) /\ p = filter.read + 1
      BY DEF p
    <2> QED BY <1>2, <1>4, <1>5, <1>9, <1>13, <2>1, Appended
  <1>15. /\ filter' \in FilterType /\ filter'.indentBuffer = << >>
         /\ filter'.read = p /\ filter'.type = f.type /\ filter'.numIndents = f.numIndents
         /\ filter'.statementContinues = f.statementContinues
         /\ \/ filter'.buffer = << >> /\ filter'.block = p /\ pc' = "blocks"
               /\ f.type[p] = "INDENT"
            \/ filter'.buffer = <<p>> /\ pc' = "next" /\ f.type[p] # "INDENT"
    <2>1. CASE f.type[p] = "INDENT"
      <3>1. filter' = [f EXCEPT !.block = p, !.numTokensAfterIndent = 0,
                                !.stopCounting = FALSE]
        BY <1>1, <2>1
      <3> QED BY <1>1, <1>2, <1>9, <1>10, <2>1, <3>1, ZenonT(60) DEF FilterType
    <2>2. CASE f.type[p] # "INDENT"
      <3> DEFINE b == <<p>>
      <3>1. filter' = [f EXCEPT !.buffer = b]
        BY <1>1, <2>2
      <3>2. b \in Seq(Nat)
        BY <1>2
      <3> HIDE DEF b
      <3>3. /\ filter' \in FilterType /\ filter'.indentBuffer = << >>
            /\ filter'.read = p /\ filter'.type = f.type /\ filter'.numIndents = f.numIndents
            /\ filter'.statementContinues = f.statementContinues
            /\ filter'.buffer = b
        BY <1>9, <1>10, <3>1, <3>2 DEF FilterType
      <3> QED BY <1>1, <2>2, <3>3 DEF b
    <2> QED BY <2>1, <2>2
  <1>16. All' = output \o New(p, 0, << >>, 0)
    <2>1. /\ Together(output, <<p>>, << >>, << >>) = output \o New(p, 0, << >>, 0)
          /\ Together(output, << >>, << >>, <<p>>) = output \o New(p, 0, << >>, 0)
      BY <1>2, FirstAdded, Zenon
    <2>2. All' = Together(output', Held', filter'.indentBuffer, filter'.buffer)
      BY DEF All
    <2>3. CASE filter'.buffer = << >> /\ filter'.block = p /\ pc' = "blocks"
      <3>1. Held' = <<p>>
        BY <2>3 DEF Held, InBlock
      <3> QED BY <1>1, <1>15, <2>1, <2>2, <2>3, <3>1, Zenon
    <2>4. CASE filter'.buffer = <<p>> /\ pc' = "next"
      <3>1. Held' = << >>
        BY <2>4 DEF Held, InBlock
      <3> QED BY <1>1, <1>15, <2>1, <2>2, <2>4, <3>1, Zenon
    <2> QED BY <1>15, <2>3, <2>4
  <1>17. Sound(filter', All')
    <2>1. Sound(f, All')
      BY <1>14, <1>16, Zenon
    <2> QED BY <1>10, <1>15, <2>1, SoundSame
  <1>18. TypeOK'
    BY <1>1, <1>2, <1>15, Later DEF TypeOK
  <1>19. Retyped(filter')
    <2>1. \A r \in 1..N : r \in Nat /\ (r <= filter.read => r <= p) /\ p <= p
      BY <1>2 DEF p
    <2>2. \A r \in 1..N : r # p => f.type[r] = filter.type[r]
      BY <1>12 DEF Changed
    <2>3. f.type[p] = filter.type[p] \/ (filter.type[p] = "COLON" /\ f.type[p] = "INDENT")
      <3>1. filter.type \in [1..N -> Types]
        BY <1>2 DEF FilterType
      <3> QED BY <1>5, <1>10, <3>1
    <2>4. \A r \in 1..N :
             \/ filter.type[r] = source[r].type
             \/ r <= filter.read /\ source[r].type = "COLON" /\ filter.type[r] = "INDENT"
             \/ r <= filter.read /\ source[r].type = "WS" /\ filter.type[r] = "WS_EOL"
      BY <1>2 DEF Retyped
    <2> QED BY <1>5, <1>6, <1>15, <2>1, <2>2, <2>3, <2>4 DEF Retyped
  <1>20. Control(filter)'
    <2>1. filter'.read <= N /\ filter'.numIndents = (IF f.type[p] = "INDENT" THEN 1 ELSE 0)
      BY <1>2, <1>5, <1>11, <1>15
    <2>2. f.type[p] = "INDENT" => filter'.read < N
      <3>1. f.type[p] = "INDENT" => source[p].type = "COLON"
        BY <1>6, <1>10
      <3>2. source[p].type = "COLON" => p # N
        BY <1>2, <1>5 DEF SourceOK
      <3> QED BY <1>2, <1>5, <1>15, <3>1, <3>2
    <2>3. p # DEDENT
      BY <1>5, SourceFacts
    <2>4. filter'.statementContinues => Continued'
      BY <1>1, <1>2, <1>10, <1>15, Later DEF Control
    <2>5. filter'.buffer # << >> => filter'.buffer[1] # DEDENT
      BY <1>15, <2>3
    <2> QED BY <1>1, <1>15, <2>1, <2>2, <2>3, <2>4, <2>5 DEF Control, InBlock
  <1>21. Ended'
    <2>1. pc' # "done"
      BY <1>15
    <2>2. \A i \in 1..Len(output) : output[i] # N
      BY <1>1, <1>2 DEF Ended
    <2> QED BY <1>1, <2>1, <2>2 DEF Ended
  <1>22. Spaced(filter')
    <2>1. Len(<< >>) = 0
      OBVIOUS
    <2> QED BY <1>15, <2>1 DEF Spaced
  <1> QED BY <1>1, <1>17, <1>18, <1>19, <1>20, <1>21, <1>22, Later DEF Inv


\* no DEDENT comes right after one of ps
Apart(s, ps) == \A j \in 1..(Len(s) - 1) : s[j + 1] = DEDENT => s[j] \notin ps

LEMMA ApartConcat ==
    ASSUME NEW ps, NEW s \in Seq(Nat), NEW t \in Seq(Nat), Apart(s, ps), Apart(t, ps),
           s # << >> /\ t # << >> => t[1] # DEDENT \/ s[Len(s)] \notin ps
    PROVE  Apart(s \o t, ps)
  <1> DEFINE u == s \o t
             n == Len(s)
  <1>1. /\ Len(u) = n + Len(t) /\ n \in Nat /\ Len(t) \in Nat
        /\ \A i \in 1..n : u[i] = s[i]
        /\ \A i \in 1..Len(t) : u[n + i] = t[i]
    OBVIOUS
  <1>2. (n # 0 => s # << >>) /\ (Len(t) # 0 => t # << >>)
    BY EmptySeq
  <1> HIDE DEF u
  <1>3. SUFFICES ASSUME NEW j \in 1..(Len(u) - 1), u[j + 1] = DEDENT
                 PROVE  u[j] \notin ps
    BY DEF Apart, u
  <1>4. CASE j < n
    <2>1. j \in 1..(n - 1) /\ j \in 1..n /\ j + 1 \in 1..n
      BY <1>1, <1>4
    <2>2. u[j] = s[j] /\ s[j + 1] = DEDENT
      BY <1>1, <1>3, <2>1
    <2> QED BY <2>1, <2>2 DEF Apart
  <1>5. CASE j = n
    <2>1. 1 \in 1..Len(t) /\ n \in 1..n /\ n # 0 /\ Len(t) # 0
      BY <1>1, <1>5
    <2>2. u[j] = s[n] /\ t[1] = DEDENT
      BY <1>1, <1>3, <1>5, <2>1
    <2> QED BY <1>2, <2>1, <2>2
  <1>6. CASE j > n
    <2> DEFINE k == j - n
    <2>1. k \in 1..(Len(t) - 1) /\ k \in 1..Len(t) /\ k + 1 \in 1..Len(t)
          /\ j = n + k /\ j + 1 = n + (k + 1)
      BY <1>1, <1>6
    <2> HIDE DEF k
    <2>2. u[j] = t[k] /\ t[k + 1] = DEDENT
      BY <1>1, <1>3, <2>1
    <2> QED BY <2>1, <2>2 DEF Apart
  <1> QED BY <1>1, <1>4, <1>5, <1>6

Free(s, ps) == \A j \in 1..Len(s) : s[j] \notin ps

LEMMA FreeConcat ==
    ASSUME NEW ps, NEW s \in Seq(Nat), NEW t \in Seq(Nat), Free(s, ps), Free(t, ps)
    PROVE  Free(s \o t, ps)
  <1> DEFINE u == s \o t
             n == Len(s)
  <1>1. /\ Len(u) = n + Len(t) /\ n \in Nat /\ Len(t) \in Nat
        /\ \A i \in 1..n : u[i] = s[i]
        /\ \A i \in 1..Len(t) : u[n + i] = t[i]
    OBVIOUS
  <1> HIDE DEF u
  <1>2. SUFFICES ASSUME NEW j \in 1..Len(u) PROVE u[j] \notin ps
    BY DEF Free, u
  <1>3. CASE j <= n
    BY <1>1, <1>3 DEF Free
  <1>4. CASE j > n
    <2> DEFINE k == j - n
    <2>1. k \in 1..Len(t) /\ j = n + k
      BY <1>1, <1>4
    <2> HIDE DEF k
    <2> QED BY <1>1, <2>1 DEF Free
  <1> QED BY <1>1, <1>3, <1>4

LEMMA ConcatFirst ==
    ASSUME NEW s \in Seq(Nat), s # << >>, NEW t \in Seq(Nat)
    PROVE  (s \o t)[1] = s[1] /\ s \o t # << >> /\ s \o t \in Seq(Nat)
  <1>1. Len(s) \in Nat \ {0} /\ Len(t) \in Nat
    BY LenProperties, EmptySeq
  <1>2. /\ s \o t \in Seq(Nat) /\ Len(s \o t) = Len(s) + Len(t)
        /\ \A i \in 1..Len(s) : (s \o t)[i] = s[i]
    OBVIOUS
  <1>3. Len(s \o t) # 0 /\ 1 \in 1..Len(s)
    BY <1>1, <1>2
  <1>4. Len(<< >>) = 0
    OBVIOUS
  <1>5. s \o t # << >>
    BY <1>3, <1>4, Zenon
  <1>6. (s \o t)[1] = s[1]
    BY <1>2, <1>3
  <1> QED BY <1>2, <1>5, <1>6

LEMMA ShapeApart ==
    ASSUME NEW ps, DEDENT \notin ps, NEW i \in Seq(Nat), Apart(i, ps),
           NEW p \in Nat, p # DEDENT, NEW a \in Nat, NEW b \in Nat, NEW y \in Seq(Nat),
           y # << >> => y[1] # DEDENT, y = << >> => b = 0, Free(y, ps),
           a > 0 => p \notin ps
    PROVE  Apart(Shape(i, p, a, y, b), ps)
  <1> DEFINE w == <<p>>
             da == Dedents(a)
             db == Dedents(b)
             e == y \o db
             d == da \o e
             x == w \o d
  <1>1. /\ w \in Seq(Nat) /\ Len(w) = 1 /\ w[1] = p
        /\ da \in Seq(Nat) /\ db \in Seq(Nat) /\ Len(da) = a /\ Len(db) = b
        /\ Free(da, ps) /\ Free(db, ps)
    <2>1. w \in Seq(Nat) /\ Len(w) = 1 /\ w[1] = p
      OBVIOUS
    <2>2. /\ da \in Seq(Nat) /\ Len(da) = a /\ \A j \in 1..a : da[j] = DEDENT
          /\ db \in Seq(Nat) /\ Len(db) = b /\ \A j \in 1..b : db[j] = DEDENT
      BY DedentsFacts
    <2> HIDE DEF w, da, db
    <2> QED BY <2>1, <2>2 DEF Free
  <1>2. a = 0 => da = << >>
    BY NoDedents
  <1>3. b = 0 => db = << >>
    BY NoDedents
  <1>4. Shape(i, p, a, y, b) = i \o x
    BY Zenon DEF Shape
  <1> HIDE DEF w, da, db
  <1>5. e \in Seq(Nat) /\ Free(e, ps)
    BY <1>1, FreeConcat, ConcatProperties
  <1>6. e # << >> => y # << >> /\ e[1] = y[1]
    <2>1. y = << >> => e = << >>
      BY <1>3, ConcatNone
    <2>2. y # << >> => e[1] = y[1]
      <3>1. y # << >> => Len(y) \in Nat \ {0}
        BY LenProperties, EmptySeq
      <3> QED BY <1>1, <3>1
    <2> QED BY <2>1, <2>2
  <1> HIDE DEF e
  <1>7. d \in Seq(Nat) /\ Free(d, ps)
    BY <1>1, <1>5, FreeConcat, ConcatProperties
  <1>8. d # << >> => d[1] # DEDENT \/ p \notin ps
    <2>1. a = 0 => d = e
      BY <1>2, <1>5, ConcatNone
    <2>2. a # 0 => a > 0
      OBVIOUS
    <2>3. a = 0 /\ d # << >> => d[1] # DEDENT
      BY <1>6, <2>1
    <2> QED BY <2>2, <2>3
  <1> HIDE DEF d
  <1>9. Apart(w, ps) /\ Apart(d, ps)
    <2>1. Apart(w, ps)
      BY <1>1 DEF Apart
    <2>2. Apart(d, ps)
      <3>1. \A j \in 1..(Len(d) - 1) : j \in 1..Len(d)
        BY <1>7, LenProperties
      <3> QED BY <1>7, <3>1 DEF Apart, Free
    <2> QED BY <2>1, <2>2
  <1>10. x \in Seq(Nat) /\ Apart(x, ps) /\ x[1] = p
    <2>1. x \in Seq(Nat)
      BY <1>1, <1>7, ConcatProperties
    <2>2. w[Len(w)] = p
      BY <1>1
    <2>3. Apart(x, ps)
      BY <1>1, <1>7, <1>8, <1>9, <2>2, ApartConcat
    <2>4. x[1] = p
      <3>1. Len(w) # 0 /\ Len(<< >>) = 0
        BY <1>1
      <3>2. w # << >>
        BY <3>1, Zenon
      <3> QED BY <1>1, <1>7, <3>2, ConcatFirst
    <2> QED BY <2>1, <2>3, <2>4
  <1> HIDE DEF x
  <1>11. Apart(i \o x, ps)
    BY <1>10, ApartConcat
  <1> QED BY <1>4, <1>11, Zenon

LEMMA ShapeFirst ==
    ASSUME NEW i \in Seq(Nat), NEW p \in Nat, NEW a \in Nat, NEW y \in Seq(Nat), NEW b \in Nat
    PROVE  Shape(i, p, a, y, b)[1] = IF i = << >> THEN p ELSE i[1]
  <1> DEFINE d == Dedents(a) \o (y \o Dedents(b))
             w == Just(p)
  <1>1. Dedents(a) \in Seq(Nat) /\ Dedents(b) \in Seq(Nat)
    BY DedentsFacts
  <1>2. y \o Dedents(b) \in Seq(Nat)
    BY <1>1, ConcatProperties
  <1>3. d \in Seq(Nat)
    BY <1>1, <1>2, ConcatProperties
  <1>4. w \in Seq(Nat) /\ Len(w) = 1 /\ w[1] = p
    BY DEF Just
  <1>5. Shape(i, p, a, y, b) = i \o (w \o d)
    BY Zenon DEF Shape, Just
  <1> HIDE DEF w, d
  <1> DEFINE x == w \o d
  <1>6. x \in Seq(Nat) /\ x[1] = p /\ Len(x) \in Nat \ {0}
    <2>1. Len(w) # 0 /\ Len(<< >>) = 0
      BY <1>4
    <2>2. w # << >>
      BY <2>1, Zenon
    <2>3. x[1] = w[1] /\ x # << >> /\ x \in Seq(Nat)
      BY <1>3, <1>4, <2>2, ConcatFirst
    <2>4. Len(x) \in Nat \ {0}
      BY <2>3, LenProperties, EmptySeq
    <2> QED BY <1>4, <2>3, <2>4
  <1> HIDE DEF x
  <1>7. i = << >> => i \o x = x
    BY <1>6, ConcatNone
  <1>8. i # << >> => (i \o x)[1] = i[1]
    <2>1. i # << >> => Len(i) \in Nat \ {0}
      BY LenProperties, EmptySeq
    <2> QED BY <1>6, <2>1
  <1>9. (i \o x)[1] = IF i = << >> THEN p ELSE i[1]
    BY <1>6, <1>7, <1>8
  <1> QED BY <1>5, <1>9, Zenon DEF x


LEMMA StepHandleBlocks ==
    ASSUME SourceOK, Inv, HandleBlocks
    PROVE  Inv'
  <1> DEFINE f == filter
             p == f.read + 1
             g == Iteration(f, p)
             N == Len(source)
             i == f.indentBuffer
  <1>1. /\ pc = "blocks" /\ filter' = g /\ source' = source /\ output' = output
        /\ pc' = IF filter'.numIndents = 0 THEN "arrange" ELSE "blocks"
    BY Zenon DEF HandleBlocks
  <1>2. /\ f \in FilterType /\ output \in Seq(Nat) /\ Held \in Seq(Nat)
        /\ source \in Sources /\ Control(f) /\ Retyped(f) /\ Ended
        /\ f.read \in Nat /\ N \in Nat \ {0} /\ i \in Seq(Nat)
        /\ ~ ColonFirst => Spaced(f)
    BY AllType, SourceFacts DEF Inv, TypeOK
  <1>3. /\ f.numIndents > 0 /\ f.read < N /\ f.buffer = << >> /\ f.block # DEDENT
        /\ (f.statementContinues => Continued) /\ (i # << >> => i[1] # DEDENT)
    BY <1>1, <1>2 DEF Control, InBlock
  <1>4. Held = <<f.block>>
    BY <1>1 DEF Held, InBlock
  <1>5. All = Together(output, Held, i, << >>) /\ Sound(f, All)
    <2>1. All = Together(output, Held, f.indentBuffer, f.buffer)
      BY Zenon DEF All
    <2>2. Sound(f, All)
      BY Zenon DEF Inv
    <2> QED BY <1>3, <2>1, <2>2, Zenon
  <1> HIDE DEF f
  <1>6. Reads(f, g, p) /\ p \in 1..N
    BY <1>2, <1>3, IterationReads
  <1>7. p = f.read + 1 /\ p \in Nat /\ p # DEDENT
    BY <1>2 DEF DEDENT
  <1> HIDE DEF g, p, i
  <1>8. g \in FilterType
    BY <1>6 DEF Reads
  <1>9. PICK a \in Nat, b \in Nat, y \in Seq(Nat) : ReadsAs(f, g, p, a, y, b)
    BY <1>6, Zenon DEF Reads
  <1>10. /\ g.indentBuffer = Shape(i, p, a, y, b) /\ g.buffer = << >>
         /\ g.block = f.block /\ Reading(f, g, p, a, y, b)
         /\ g.numIndents > 0 => g.read < N
    BY <1>3, <1>9, Zenon DEF ReadsAs, i
  <1>11. /\ g.read \in Nat /\ p <= g.read /\ g.read <= N
         /\ g.statementContinues => Continued
         /\ Changed(f, g, p) /\ g.numIndents \in Nat
    <2>1. g.read \in Nat /\ g.numIndents \in Nat
      BY <1>8 DEF FilterType
    <2>2. g.read = p \/ (g.read = p + 1 /\ p + 1 \in 1..N)
      BY <1>10 DEF Reading
    <2>3. g.statementContinues => Continued
      BY <1>10 DEF Reading
    <2>4. Changed(f, g, p)
      BY <1>10 DEF Reading
    <2>5. p <= g.read /\ g.read <= N
      BY <1>2, <1>6, <1>7, <2>2
    <2> QED BY <2>1, <2>3, <2>4, <2>5
  <1>12. f.type[p] = source[p].type /\ f.type[p] # "INDENT"
    <2>1. ~ (p <= f.read)
      BY <1>2, <1>7
    <2> QED BY <1>2, <1>6, <2>1 DEF Retyped, SourceOK
  <1>13. pc' \in {"blocks", "arrange"} /\ pc' # "done"
    BY <1>1
  <1>14. All' = All \o New(p, a, y, b)
    <2>1. Held' = Held
      <3>1. Held' = <<filter'.block>>
        BY <1>13 DEF Held, InBlock
      <3> QED BY <1>1, <1>4, <1>10, <3>1
    <2>2. All' = Together(output', Held', filter'.indentBuffer, filter'.buffer)
      BY DEF All
    <2>3. Together(output, Held, Shape(i, p, a, y, b), << >>)
          = Chain(Together(output, Held, i, << >>), New(p, a, y, b))
      <3>1. /\ output \in Seq(Nat) /\ Held \in Seq(Nat) /\ i \in Seq(Nat) /\ p \in Nat
            /\ a \in Nat /\ b \in Nat /\ y \in Seq(Nat)
        BY <1>2, <1>7
      <3> QED BY <3>1, ShapeAdded, SMTT(30)
    <2> QED BY <1>1, <1>5, <1>10, <2>1, <2>2, <2>3, Zenon DEF Chain
  <1>15. Sound(filter', All')
    <2>1. Sound(g, All \o New(p, a, y, b))
      BY <1>2, <1>5, <1>6, <1>7, <1>8, <1>10, Appended
    <2> QED BY <1>1, <1>14, <2>1, Zenon
  <1>16. TypeOK'
    BY <1>1, <1>2, <1>8, <1>13, Later DEF TypeOK
  <1>17. Retyped(filter')
    <2>1. \A r \in 1..N : r \in Nat /\ (r <= f.read => r <= g.read)
      BY <1>2, <1>7, <1>11
    <2>2. /\ \A r \in 1..N : r # p => g.type[r] = f.type[r]
          /\ \/ g.type[p] = f.type[p]
             \/ f.type[p] = "COLON" /\ g.type[p] = "INDENT"
             \/ f.type[p] = "WS" /\ g.type[p] = "WS_EOL"
      BY <1>11 DEF Changed
    <2>3. \A r \in 1..N :
             \/ f.type[r] = source[r].type
             \/ r <= f.read /\ source[r].type = "COLON" /\ f.type[r] = "INDENT"
             \/ r <= f.read /\ source[r].type = "WS" /\ f.type[r] = "WS_EOL"
      BY <1>2 DEF Retyped
    <2> QED BY <1>1, <1>11, <1>12, <2>1, <2>2, <2>3 DEF Retyped
  <1>18. Control(filter)'
    <2>1. g.indentBuffer[1] # DEDENT
      <3>0. i \in Seq(Nat) /\ p \in Nat /\ a \in Nat /\ b \in Nat /\ y \in Seq(Nat)
        BY <1>2, <1>7
      <3>1. Shape(i, p, a, y, b)[1] = IF i = << >> THEN p ELSE i[1]
        BY <3>0, ShapeFirst, Zenon
      <3> QED BY <1>3, <1>7, <1>10, <3>1
    <2>2. g.numIndents # 0 => g.numIndents > 0
      BY <1>11
    <2> QED BY <1>1, <1>3, <1>10, <1>11, <2>1, <2>2, Later DEF Control, InBlock
  <1>19. Ended'
    <2>1. \A j \in 1..Len(output) : output[j] # N
      BY <1>1, <1>2 DEF Ended
    <2> QED BY <1>1, <1>13, <2>1 DEF Ended
  <1>20. ASSUME ~ ColonFirst PROVE Spaced(filter')
    <2> DEFINE ps == IndentsOf(g.type)
    <2>1. DEDENT \notin ps
      BY IndentsFacts
    <2>2. Apart(i, ps)
      <3>1. \A j \in 1..(Len(i) - 1) : i[j + 1] = DEDENT => i[j] \notin IndentsOf(f.type)
        BY <1>2, <1>20 DEF Spaced, i
      <3>2. Within(i, f.read)
        <4>1. All = Chain(output, Chain(Held, Chain(i, << >>)))
          BY <1>5, ReverseNone, TogetherChain, Zenon
        <4>2. Chain(i, << >>) = i /\ Chain(Held, i) \in Seq(Nat)
          BY <1>2, ChainNone, ChainType
        <4>3. Within(output \o Chain(Held, i), f.read)
          <5>1. Within(All, f.read)
            BY <1>5 DEF Sound
          <5> QED BY <4>1, <4>2, <5>1, Zenon DEF Chain
        <4>4. Within(Chain(Held, i), f.read)
          BY <1>2, <4>2, <4>3, WithinParts
        <4>5. Within(Held \o i, f.read)
          BY <4>4, Zenon DEF Chain
        <4> QED BY <1>2, <4>5, WithinParts
      <3>3. \A j \in 1..(Len(i) - 1) : i[j] # p
        <4>1. Len(i) \in Nat
          BY <1>2, LenProperties
        <4>2. \A j \in 1..(Len(i) - 1) : j \in 1..Len(i)
          BY <4>1
        <4> QED BY <1>2, <1>7, <3>2, <4>2 DEF Within
      <3>4. \A r \in 1..N : r # p => g.type[r] = f.type[r]
        BY <1>11 DEF Changed
      <3> QED BY <3>1, <3>3, <3>4 DEF Apart, IndentsOf
    <2>3. a > 0 => p \notin ps
      <3>1. a > 0 /\ g.type[p] = "INDENT" => f.type[p] = "COLON" /\ source[p].column = 1
        BY <1>10 DEF Reading
      <3>2. ~ (source[p].type = "COLON" /\ source[p].column = 1)
        BY <1>6, <1>20 DEF ColonFirst
      <3> QED BY <1>12, <3>1, <3>2 DEF IndentsOf
    <2>4. /\ y # << >> => y[1] # DEDENT
          /\ y = << >> => b = 0
          /\ Free(y, ps)
      <3>1. CASE y = << >> /\ b = 0
        <4>1. Len(y) = 0
          BY <3>1
        <4> QED BY <3>1, <4>1 DEF Free
      <3>2. CASE ~ (y = << >> /\ b = 0)
        <4>1. \/ y = <<p>> /\ g.type[p] # "INDENT"
              \/ y = <<p + 1>> /\ g.type[p + 1] # "INDENT"
          BY <1>10, <3>2 DEF Reading
        <4>2. \E q \in Nat : y = <<q>> /\ q # DEDENT /\ q \notin ps
          <5>1. p + 1 \in Nat /\ p + 1 # DEDENT
            BY <1>7 DEF DEDENT
          <5> QED BY <1>7, <4>1, <5>1 DEF IndentsOf
        <4>3. PICK q \in Nat : y = <<q>> /\ q # DEDENT /\ q \notin ps
          BY <4>2
        <4> HIDE DEF ps
        <4>4. Len(y) = 1 /\ y[1] = q /\ y # << >>
          BY <4>3
        <4> QED BY <4>3, <4>4 DEF Free
      <3> QED BY <3>1, <3>2
    <2> HIDE DEF ps
    <2>5. Apart(Shape(i, p, a, y, b), ps)
      BY <1>2, <1>7, <2>1, <2>2, <2>3, <2>4, ShapeApart
    <2>6. Apart(g.indentBuffer, ps)
      BY <1>10, <2>5, Zenon
    <2> QED BY <1>1, <2>6, Zenon DEF Apart, Spaced, ps
  <1> QED BY <1>1, <1>15, <1>16, <1>17, <1>18, <1>19, <1>20, Later DEF Inv


LEMMA SourcesOK ==
    ASSUME source \in Sources
    PROVE  SourceOK
  BY SourcesAssumption DEF SourceOK

LEMMA InitInv ==
    ASSUME Init
    PROVE  Inv
  <1> DEFINE type == [p \in 1..Len(source) |-> source[p].type]
  <1>1. SourceOK
    BY SourcesOK DEF Init
  <1>2. type \in [1..Len(source) -> Types]
    BY <1>1, SourceFacts
  <1>3. pc = "next" /\ output = << >> /\ source \in Sources
    BY DEF Init
  <1>4. /\ filter \in FilterType /\ filter.type = type /\ filter.read = 0
        /\ filter.buffer = << >> /\ filter.indentBuffer = << >>
        /\ filter.numIndents = 0 /\ filter.statementContinues = FALSE
    <2>1. filter = Initially
      BY DEF Init
    <2> DEFINE e == << >>
    <2>2. e \in Seq(Nat)
      OBVIOUS
    <2> HIDE DEF e, type
    <2>3. DEDENT \in Nat
      BY DEF DEDENT
    <2>4. Initially =
            [read |-> 0, type |-> type, buffer |-> e, indentBuffer |-> e,
             numIndents |-> 0, numBrackets |-> 0, numSpacesPerIndent |-> -1,
             isOneLineStatement |-> FALSE, expectBlock |-> FALSE,
             delayExpectBlockCheck |-> FALSE, checkOneLineStatement |-> FALSE,
             statementContinues |-> FALSE, recordToken |-> FALSE,
             tokenAfterIndent |-> DEDENT, block |-> DEDENT,
             numTokensAfterIndent |-> 0, stopCounting |-> FALSE]
      BY Zenon DEF Initially, e, type
    <2>5. /\ filter \in FilterType /\ filter.type = type /\ filter.read = 0
          /\ filter.buffer = e /\ filter.indentBuffer = e
          /\ filter.numIndents = 0 /\ filter.statementContinues = FALSE
      BY <1>2, <2>1, <2>2, <2>3, <2>4 DEF FilterType
    <2> QED BY <2>5 DEF e
  <1>5. All = << >>
    <2>1. Held = << >>
      BY <1>3 DEF Held, InBlock
    <2>2. << >> \in Seq(Nat) /\ 0 \in Nat
      OBVIOUS
    <2>3. Together(<< >>, << >>, << >>, << >>) = << >>
      BY <2>2, FirstAdded, Zenon
    <2> QED BY <1>3, <1>4, <2>1, <2>3, Zenon DEF All
  <1>6. Len(<< >>) = 0 /\ << >> \in Seq(Nat)
    OBVIOUS
  <1>7. Sound(filter, << >>)
    <2> DEFINE e == << >>
               ps == IndentsOf(filter.type)
    <2>1. Within(e, filter.read)
      BY <1>6 DEF Within
    <2>2. OfSource(e) = << >>
      BY ThoseNone DEF OfSource
    <2>3. Ordered(OfSource(e), filter.read)
      BY <1>4, <2>2 DEF Ordered
    <2>4. Height(e, ps) = 0 /\ Nests(e, ps, 0)
      BY HeightNone, NestsNone
    <2>5. e \in Seq(Nat)
      OBVIOUS
    <2> HIDE DEF e
    <2>6. Sound(filter, e)
      BY <1>4, <2>1, <2>3, <2>4, <2>5 DEF Sound
    <2> QED BY <2>6 DEF e
  <1>8. Sound(filter, All)
    BY <1>5, <1>7, Zenon
  <1>9. TypeOK
    BY <1>3, <1>4, <1>6 DEF TypeOK
  <1>10. Retyped(filter)
    BY <1>4 DEF Retyped
  <1>11. Control(filter)
    BY <1>1, <1>3, <1>4, SourceFacts DEF Control, InBlock
  <1>12. Ended
    BY <1>3, <1>6 DEF Ended
  <1>13. Spaced(filter)
    BY <1>4, <1>6 DEF Spaced
  <1> QED BY <1>8, <1>9, <1>10, <1>11, <1>12, <1>13 DEF Inv

LEMMA Stutter ==
    ASSUME Inv, UNCHANGED vars
    PROVE  Inv'
  <1>1. source' = source /\ filter' = filter /\ pc' = pc /\ output' = output
    BY DEF vars
  <1>2. InBlock' <=> InBlock
    BY <1>1 DEF InBlock
  <1>3. Held' = Held
    BY <1>1, <1>2 DEF Held
  <1>4. All' = All
    BY <1>1, <1>3 DEF All
  <1>5. Sound(filter', All')
    BY <1>1, <1>4 DEF Inv
  <1>6. Retyped(filter') /\ (~ ColonFirst => Spaced(filter'))
    BY <1>1 DEF Inv
  <1>7. TypeOK'
    BY <1>1, Later DEF Inv, TypeOK
  <1>8. Control(filter)'
    BY <1>1, <1>2, Later DEF Inv, Control
  <1>9. Ended'
    BY <1>1 DEF Inv, Ended
  <1> QED BY <1>1, <1>5, <1>6, <1>7, <1>8, <1>9, Later DEF Inv

LEMMA NextInv ==
    ASSUME Inv, [Next]_vars
    PROVE  Inv'
  <1>1. SourceOK
    BY SourcesOK DEF Inv, TypeOK
  <1>2. CASE HandleBlocks
    BY <1>1, <1>2, StepHandleBlocks
  <1>3. CASE ArrangeToken
    BY <1>1, <1>3, StepArrangeToken
  <1>4. CASE ArrangeDedents
    BY <1>1, <1>4, StepArrangeDedents
  <1>5. CASE Arranged
    BY <1>1, <1>5, StepArranged
  <1>6. CASE ReadToken
    BY <1>1, <1>6, StepReadToken
  <1>7. CASE ReturnToken
    BY <1>1, <1>7, StepReturnToken
  <1>8. CASE Finished
    BY <1>8, Stutter DEF Finished
  <1>9. CASE UNCHANGED vars
    BY <1>9, Stutter
  <1> QED BY <1>2, <1>3, <1>4, <1>5, <1>6, <1>7, <1>8, <1>9 DEF Next

LEMMA InvReturns ==
    ASSUME Inv
    PROVE  ReturnsProgram
  <1> DEFINE ps == IndentsOf(filter.type)
             Src == 1..Len(source)
             rest == Chain(Held, Chain(filter.indentBuffer, Reverse(filter.buffer)))
             s == OfSource(output)
             t == OfSource(rest)
             n == filter.read
  <1>1. SourceOK
    BY SourcesOK DEF Inv, TypeOK
  <1>2. /\ output \in Seq(Nat) /\ Held \in Seq(Nat) /\ filter.buffer \in Seq(Nat)
        /\ filter.indentBuffer \in Seq(Nat) /\ n \in Nat
    BY <1>1, AllType
  <1>3. rest \in Seq(Nat)
    <2> DEFINE r == Reverse(filter.buffer)
    <2>1. r \in Seq(Nat)
      BY <1>2, ReverseType
    <2> HIDE DEF r
    <2> QED BY <1>2, <2>1, ChainType DEF r
  <1>4. All = output \o rest
    BY TogetherChain, Zenon DEF All, Chain
  <1>5. Sound(filter, All)
    BY Zenon DEF Inv
  <1> HIDE DEF rest
  <1>6. pc = "done" => /\ All = output /\ filter.numIndents = 0 /\ n = Len(source)
    <2>1. SUFFICES ASSUME pc = "done"
                   PROVE  All = output /\ filter.numIndents = 0 /\ n = Len(source)
      OBVIOUS
    <2>2. /\ Held = << >> /\ filter.indentBuffer = << >> /\ filter.buffer = << >>
          /\ filter.numIndents = 0 /\ n = Len(source)
      BY <2>1 DEF Inv, Held, InBlock, Control, Ended
    <2>3. 0 \in Nat
      OBVIOUS
    <2>4. Together(output, << >>, << >>, << >>) = output
      BY <1>2, <2>3, FirstAdded, Zenon
    <2> QED BY <2>2, <2>4, Zenon DEF All
  <1>7. Ordered(OfSource(All), n)
    BY <1>5 DEF Sound
  <1>8. s \in Seq(Nat) /\ t \in Seq(Nat) /\ OfSource(All) = s \o t
    <2>1. Those(output \o rest, Src) = Those(output, Src) \o Those(rest, Src)
      BY <1>2, <1>3, ThoseConcat
    <2> QED BY <1>2, <1>3, <1>4, <2>1, ThoseType, Zenon DEF OfSource
  <1> HIDE DEF s, t
  <1>9. InOrder
    <2> DEFINE u == s \o t
    <2>1. /\ Len(u) = Len(s) + Len(t) /\ Len(s) \in Nat /\ Len(t) \in Nat
          /\ \A i \in 1..Len(s) : u[i] = s[i]
      BY <1>8
    <2>2. Ordered(u, n)
      BY <1>7, <1>8, Zenon
    <2> HIDE DEF u
    <2>3. s # << >> => Len(s) # 0
      BY <1>8, EmptySeq
    <2>4. Len(s) # 0 => u # << >>
      <3>1. Len(<< >>) = 0
        OBVIOUS
      <3>2. Len(s) # 0 => Len(u) # 0
        BY <2>1
      <3> QED BY <3>1, <3>2
    <2>5. s # << >> => s[1] = 1
      <3>1. s # << >> => u[1] = 1
        BY <2>2, <2>3, <2>4 DEF Ordered
      <3>2. s # << >> => 1 \in 1..Len(s)
        BY <2>1, <2>3
      <3> QED BY <2>1, <3>1, <3>2
    <2>6. ASSUME NEW i \in 1..(Len(s) - 1)
          PROVE  s[i + 1] = s[i] + 1 \/ (s[i + 1] = s[i] /\ Continued)
      <3>1. i \in 1..(Len(u) - 1) /\ i \in 1..Len(s) /\ i + 1 \in 1..Len(s) /\ Len(s) # 0
        BY <2>1
      <3>2. Stepwise(u)
        BY <2>2, <2>4, <3>1 DEF Ordered
      <3> QED BY <2>1, <3>1, <3>2 DEF Stepwise
    <2>7. ASSUME pc = "done" PROVE Last(s) = Len(source)
      <3>1. OfSource(All) = s
        BY <1>6, <2>7, Zenon DEF s
      <3>2. Ordered(s, Len(source)) /\ Len(source) # 0
        BY <1>1, <1>6, <1>7, <2>7, <3>1, SourceFacts
      <3> QED BY <3>2 DEF Ordered, Last
    <2> QED BY <2>5, <2>6, <2>7 DEF InOrder, s
  <1>10. IndentTokens = ps
    BY DEF IndentTokens, IndentsOf
  <1>11. Depth(output) = Height(output, ps)
    BY <1>10, Zenon DEF Depth, Height
  <1>12. Height(output, ps) \in Int
    BY <1>2, HeightType
  <1>13. ~ ColonFirst => Depth(output) >= 0
    <2>1. SUFFICES ASSUME ~ ColonFirst PROVE Depth(output) >= 0
      OBVIOUS
    <2>2. Nests(output \o rest, ps, 0)
      BY <1>4, <1>5, <2>1, Zenon DEF Sound
    <2> HIDE DEF ps
    <2>3. Nests(output, ps, 0)
      <3>1. 0 \in Int
        OBVIOUS
      <3> QED BY <1>2, <1>3, <2>2, <3>1, NestsConcat, Zenon
    <2>4. 0 + Height(output, ps) >= 0
      BY <1>2, <2>3, NestsEnd
    <2> QED BY <1>11, <1>12, <2>4
  <1>14. pc = "done" => Depth(output) = 0
    <2>1. Height(All, ps) = filter.numIndents
      BY <1>5 DEF Sound
    <2> QED BY <1>6, <1>11, <2>1
  <1> QED BY <1>9, <1>13, <1>14 DEF ReturnsProgram, Balanced

-----------------------------------------------------------------------------
(* The theorems *)

\* The state of the filter is well formed: a token keeps a type that the parser
\* knows, and an indentation that has been measured is never zero.
THEOREM TypeCorrect == Spec => []TypeOK
  <1>1. Init => Inv
    BY InitInv
  <1>2. Inv /\ [Next]_vars => Inv'
    BY NextInv
  <1>3. Inv => TypeOK
    BY DEF Inv
  <1> QED BY <1>1, <1>2, <1>3, PTL DEF Spec

\* Whatever program the filter reads, nextToken() returns each of its tokens
\* in order, and blocks are nested: a DEDENT is returned for every INDENT and
\* none before its INDENT.
THEOREM ProgramReturned == Spec => []ReturnsProgram
  <1>1. Init => Inv
    BY InitInv
  <1>2. Inv /\ [Next]_vars => Inv'
    BY NextInv
  <1>3. Inv => ReturnsProgram
    BY InvReturns
  <1> QED BY <1>1, <1>2, <1>3, PTL DEF Spec
=============================================================================

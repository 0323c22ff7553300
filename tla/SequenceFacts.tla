--------------------------- MODULE SequenceFacts ---------------------------
(***************************************************************************)
(* Facts about natural numbers, sequences and FlattenSeq that the proofs   *)
(* about the text of a unit rest on: a sequence in which each element is   *)
(* replaced by a sequence, and the results are put one after the other.    *)
(***************************************************************************)
EXTENDS Integers, SequencesExt, SequenceTheorems, WellFoundedInduction, TLAPS

-----------------------------------------------------------------------------
(* Natural numbers *)

\* A set that holds 0 and each successor holds every natural number.
LEMMA Induct ==
    ASSUME NEW T \in SUBSET Nat, 0 \in T, \A n \in T : n + 1 \in T
    PROVE  \A n \in Nat : n \in T
  <1> DEFINE R == {ss \in Nat \X Nat : ss[1] < ss[2]}
             U == Nat \ T
  <1>1. IsWellFoundedOn(R, Nat)
    BY NatLessThanWellFounded DEF OpToRel
  <1>2. SUFFICES ASSUME U # {} PROVE FALSE
    OBVIOUS
  <1>3. U \subseteq Nat
    OBVIOUS
  <1> HIDE DEF R, U
  <1>4. PICK x \in U : \A y \in U : ~ (<<y, x>> \in R)
    BY <1>1, <1>2, <1>3, WFMin
  <1> USE DEF U, R
  <1>5. x \in Nat /\ x # 0
    OBVIOUS
  <1>6. x - 1 \in Nat /\ x - 1 < x
    BY <1>5
  <1>7. x - 1 \notin U
    BY <1>4, <1>5, <1>6
  <1>8. (x - 1) + 1 = x
    BY <1>5
  <1> QED BY <1>5, <1>6, <1>7, <1>8

\* A set of natural numbers has a least element.
LEMMA Least ==
    ASSUME NEW S \in SUBSET Nat, S # {}
    PROVE  \E n \in S : \A m \in S : n <= m
  <1> DEFINE T == {n \in Nat : \A m \in S : n <= m}
  <1>1. CASE \A n \in T : n + 1 \in T
    <2>1. 0 \in T
      OBVIOUS
    <2> HIDE DEF T
    <2>2. \A n \in Nat : n \in T
      BY <1>1, <2>1, Induct DEF T
    <2>3. PICK n \in S : TRUE
      OBVIOUS
    <2>4. n + 1 \in T
      BY <2>2
    <2> QED BY <2>4 DEF T
  <1>2. CASE \E n \in T : n + 1 \notin T
    <2>1. PICK n \in T : n + 1 \notin T
      BY <1>2
    <2>2. PICK m \in S : ~ (n + 1 <= m)
      BY <2>1
    <2>3. n = m
      BY <2>1, <2>2
    <2> QED BY <2>1, <2>3
  <1> QED BY <1>1, <1>2

\* A set of numbers up to some number has a greatest element.
LEMMA Greatest ==
    ASSUME NEW N \in Nat, NEW S \in SUBSET (0..N), S # {}
    PROVE  Max(S) \in S /\ \A m \in S : m <= Max(S)
  <1> DEFINE D == {N - m : m \in S}
  <1>1. D \in SUBSET Nat /\ D # {}
    <2>1. \A m \in S : N - m \in Nat
      OBVIOUS
    <2> QED BY <2>1
  <1>2. PICK k \in D : \A n \in D : k <= n
    <2> HIDE DEF D
    <2> QED BY <1>1, Least
  <1>3. PICK x \in S : k = N - x
    BY <1>2
  <1>a. \A m \in S : x >= m
    <2> TAKE m \in S
    <2>1. k <= N - m
      BY <1>2
    <2> QED BY <1>3, <2>1
  <1>4. Max(S) \in S /\ \A m \in S : Max(S) >= m
    BY <1>a DEF Max
  <1> QED BY <1>4

LEMMA ConcatOf ==
    ASSUME NEW S, NEW s \in Seq(S), NEW t \in Seq(S), NEW u \in Seq(S),
           Len(u) = Len(s) + Len(t),
           \A i \in 1..Len(s) : u[i] = s[i],
           \A i \in 1..Len(t) : u[Len(s) + i] = t[i]
    PROVE  u = s \o t
  <1>1. s \o t \in Seq(S) /\ Len(s \o t) = Len(u) /\ Len(s) \in Nat /\ Len(t) \in Nat
    OBVIOUS
  <1>2. \A i \in 1..Len(u) : u[i] = (s \o t)[i]
    <2> TAKE i \in 1..Len(u)
    <2>1. CASE i \in 1..Len(s)
      BY <1>1, <2>1
    <2>2. CASE i \notin 1..Len(s)
      <3>1. i - Len(s) \in 1..Len(t) /\ Len(s) + (i - Len(s)) = i
        BY <1>1, <2>2
      <3>2. u[i] = t[i - Len(s)]
        BY <3>1
      <3>3. (s \o t)[i] = t[i - Len(s)]
        BY <1>1, <2>2
      <3> QED BY <3>2, <3>3
    <2> QED BY <2>1, <2>2
  <1> QED BY <1>1, <1>2, SeqEqual

-----------------------------------------------------------------------------
(* FlattenSeq *)

Flattening(s, n, f) ==
    f = [i \in 1..n |-> IF i = 1 THEN s[i] ELSE f[i - 1] \o s[i]]

LEMMA FlattenExists ==
    ASSUME NEW s, NEW m \in Nat
    PROVE  \E f : Flattening(s, m, f)
  <1> DEFINE T == {n \in Nat : \E f : Flattening(s, n, f)}
  <1>1. 0 \in T
    <2>1. Flattening(s, 0, [i \in 1..0 |-> s[i]])
      BY DEF Flattening
    <2> QED BY <2>1
  <1>2. ASSUME NEW n \in T PROVE n + 1 \in T
    <2>1. PICK f : Flattening(s, n, f)
      BY <1>2
    <2> DEFINE g == [i \in 1..(n + 1) |->
                       IF i = 1 THEN s[i]
                       ELSE IF i <= n THEN f[i] ELSE f[n] \o s[i]]
    <2>a. \A i \in 1..n : f[i] = IF i = 1 THEN s[i] ELSE f[i - 1] \o s[i]
      BY <2>1 DEF Flattening
    <2>b. \A i \in 1..n : g[i] = f[i]
      <3> TAKE i \in 1..n
      <3>1. CASE i = 1
        BY <2>a, <3>1
      <3>2. CASE i # 1
        BY <3>2
      <3> QED BY <3>1, <3>2
    <2>2. \A i \in 1..(n + 1) : g[i] = IF i = 1 THEN s[i] ELSE g[i - 1] \o s[i]
      <3> TAKE i \in 1..(n + 1)
      <3>1. CASE i = 1
        BY <3>1
      <3>2. CASE i # 1 /\ i <= n
        <4>1. i \in 1..n /\ i - 1 \in 1..n
          BY <3>2
        <4> HIDE DEF g
        <4> QED BY <2>a, <2>b, <3>2, <4>1
      <3>3. CASE i # 1 /\ i = n + 1
        <4>1. n \in 1..n /\ i - 1 = n
          BY <3>3
        <4>2. g[n] = f[n]
          BY <2>b, <4>1
        <4>3. i # 1 /\ ~ (i <= n) /\ i \in 1..(n + 1)
          BY <3>3, <4>1
        <4>4. g[i] = f[n] \o s[i]
          BY <4>3, Zenon
        <4> QED BY <3>3, <4>1, <4>2, <4>4
      <3> QED BY <3>1, <3>2, <3>3
    <2>3. Flattening(s, n + 1, g)
      BY <2>2 DEF Flattening
    <2> QED BY <2>3
  <1> HIDE DEF T
  <1>3. m \in T
    BY <1>1, <1>2, Induct DEF T
  <1> QED BY <1>3 DEF T

LEMMA FlattenIs ==
    ASSUME NEW s, Len(s) \in Nat \ {0}
    PROVE  \E f : Flattening(s, Len(s), f) /\ FlattenSeq(s) = f[Len(s)]
  <1> DEFINE f == CHOOSE g : Flattening(s, Len(s), g)
  <1>1. Flattening(s, Len(s), f)
    BY FlattenExists
  <1>2. FlattenSeq(s) = f[Len(s)]
    BY DEF FlattenSeq, Flattening
  <1> QED BY <1>1, <1>2

LEMMA FlattenEmpty == FlattenSeq(<< >>) = << >>
  BY DEF FlattenSeq

LEMMA FlattenOne ==
    ASSUME NEW x
    PROVE  FlattenSeq(<<x>>) = x
  <1>1. Len(<<x>>) = 1 /\ <<x>>[1] = x
    OBVIOUS
  <1>2. PICK f : Flattening(<<x>>, 1, f) /\ FlattenSeq(<<x>>) = f[1]
    <2>1. Len(<<x>>) \in Nat \ {0}
      BY <1>1
    <2>2. \E f : Flattening(<<x>>, Len(<<x>>), f)
                 /\ FlattenSeq(<<x>>) = f[Len(<<x>>)]
      BY <2>1, FlattenIs
    <2> QED BY <1>1, <2>2, Zenon
  <1>3. f[1] = x
    BY <1>1, <1>2 DEF Flattening
  <1> QED BY <1>2, <1>3

\* all beginnings of a flattened sequence are sequences
LEMMA FlatteningType ==
    ASSUME NEW S, NEW n \in Nat, NEW s, \A i \in 1..n : s[i] \in Seq(S),
           NEW f, Flattening(s, n, f)
    PROVE  \A i \in 1..n : f[i] \in Seq(S)
  <1>1. \A i \in 1..n : f[i] = IF i = 1 THEN s[i] ELSE f[i - 1] \o s[i]
    BY DEF Flattening
  <1> DEFINE T == {k \in Nat : k \in 1..n => f[k] \in Seq(S)}
  <1>2. 0 \in T
    OBVIOUS
  <1>3. ASSUME NEW k \in T PROVE k + 1 \in T
    <2>1. CASE k = 0
      BY <1>1, <2>1
    <2>2. CASE k # 0 /\ k + 1 \in 1..n
      <3>1. k \in 1..n /\ f[k] \in Seq(S) /\ s[k + 1] \in Seq(S)
        BY <1>3, <2>2
      <3>a. k + 1 \in 1..n /\ k + 1 # 1 /\ (k + 1) - 1 = k
        BY <2>2, <3>1
      <3>2. f[k + 1] = f[k] \o s[k + 1]
        BY <1>1, <3>a, Zenon
      <3>3. f[k + 1] \in Seq(S)
        BY <3>1, <3>2, ConcatProperties
      <3> QED BY <3>3
    <2> QED BY <2>1, <2>2
  <1> HIDE DEF T
  <1>4. \A k \in Nat : k \in T
    BY <1>2, <1>3, Induct DEF T
  <1> QED BY <1>4 DEF T

LEMMA FlattenType ==
    ASSUME NEW S, NEW s \in Seq(Seq(S))
    PROVE  FlattenSeq(s) \in Seq(S)
  <1>1. CASE s = << >>
    <2>1. FlattenSeq(s) = << >>
      BY <1>1, FlattenEmpty
    <2> QED BY <2>1
  <1>2. CASE s # << >>
    <2>1. /\ Len(s) \in Nat \ {0} /\ Len(s) \in 1..Len(s)
          /\ \A i \in 1..Len(s) : s[i] \in Seq(S)
      BY <1>2
    <2>2. PICK f : Flattening(s, Len(s), f) /\ FlattenSeq(s) = f[Len(s)]
      BY <2>1, FlattenIs
    <2> QED BY <2>1, <2>2, FlatteningType
  <1> QED BY <1>1, <1>2

LEMMA FlattenAppend ==
    ASSUME NEW S, NEW s \in Seq(Seq(S)), NEW x \in Seq(S)
    PROVE  FlattenSeq(Append(s, x)) = FlattenSeq(s) \o x
  <1> DEFINE t == Append(s, x)
             n == Len(s)
  <1>1. /\ t \in Seq(Seq(S)) /\ Len(t) = n + 1 /\ n \in Nat
        /\ \A i \in 1..n : t[i] = s[i]
        /\ t[n + 1] = x
    <2> DEFINE A == Seq(S)
    <2>1. s \in Seq(A) /\ x \in A
      OBVIOUS
    <2> HIDE DEF A
    <2>2. t \in Seq(A) /\ Len(t) = n + 1 /\ n \in Nat
      BY <2>1
    <2>3. /\ \A i \in 1..n : t[i] = s[i]
          /\ t[n + 1] = x
      BY <2>1
    <2>4. t \in Seq(Seq(S))
      BY <2>2 DEF A
    <2> HIDE DEF t
    <2> QED BY <2>2, <2>3, <2>4
  <1> HIDE DEF t
  <1>2. PICK g : Flattening(t, n + 1, g) /\ FlattenSeq(t) = g[n + 1]
    <2>1. Len(t) \in Nat \ {0}
      BY <1>1
    <2>2. \E g : Flattening(t, Len(t), g) /\ FlattenSeq(t) = g[Len(t)]
      BY <2>1, FlattenIs
    <2> QED BY <1>1, <2>2
  <1>3. \A i \in 1..(n + 1) : g[i] = IF i = 1 THEN t[i] ELSE g[i - 1] \o t[i]
    BY <1>2 DEF Flattening
  <1>4. CASE n = 0
    <2>1. s = << >> /\ g[1] = x
      BY <1>1, <1>3, <1>4
    <2>2. FlattenSeq(s) \o x = x
      BY <2>1, FlattenEmpty
    <2> QED BY <1>2, <1>4, <2>1, <2>2 DEF t
  <1>5. CASE n # 0
    <2>1. PICK f : Flattening(s, n, f) /\ FlattenSeq(s) = f[n]
      BY <1>1, <1>5, FlattenIs
    <2>2. \A i \in 1..n : f[i] = IF i = 1 THEN s[i] ELSE f[i - 1] \o s[i]
      BY <2>1 DEF Flattening
    <2> DEFINE T == {k \in Nat : k \in 1..n => f[k] = g[k]}
    <2>3. 0 \in T
      OBVIOUS
    <2>4. ASSUME NEW k \in T PROVE k + 1 \in T
      <3>1. CASE k = 0
        BY <1>1, <1>3, <2>2, <3>1
      <3>2. CASE k # 0 /\ k + 1 \in 1..n
        <4>1. k \in 1..n /\ f[k] = g[k] /\ k + 1 \in 1..(n + 1)
              /\ (k + 1) - 1 = k /\ k + 1 # 1
          BY <1>1, <2>4, <3>2
        <4>2. f[k + 1] = f[k] \o s[k + 1]
          BY <2>2, <3>2, <4>1
        <4>3. g[k + 1] = g[k] \o t[k + 1]
          BY <1>3, <4>1
        <4>4. f[k + 1] = g[k + 1]
          BY <1>1, <3>2, <4>1, <4>2, <4>3
        <4> QED BY <4>4
      <3> QED BY <3>1, <3>2
    <2> HIDE DEF T
    <2>5. \A k \in Nat : k \in T
      BY <2>3, <2>4, Induct DEF T
    <2>6. n \in 1..n /\ n + 1 \in 1..(n + 1) /\ n + 1 # 1 /\ (n + 1) - 1 = n
      BY <1>1, <1>5
    <2>7. f[n] = g[n]
      BY <1>1, <2>5, <2>6 DEF T
    <2>8. g[n + 1] = g[n] \o x
      BY <1>1, <1>3, <2>6
    <2> QED BY <1>2, <2>1, <2>7, <2>8 DEF t
  <1> QED BY <1>4, <1>5

Chain(s, t) == s \o t

LEMMA ChainAssociates ==
    ASSUME NEW A, NEW a \in Seq(A), NEW b \in Seq(A), NEW c \in Seq(A)
    PROVE  Chain(Chain(a, b), c) = Chain(a, Chain(b, c))
  BY ConcatAssociative DEF Chain

LEMMA FlattenConcat ==
    ASSUME NEW S, NEW s \in Seq(Seq(S)), NEW t \in Seq(Seq(S))
    PROVE  FlattenSeq(s \o t) = FlattenSeq(s) \o FlattenSeq(t)
  <1> DEFINE T == {n \in Nat : \A u \in Seq(Seq(S)) : Len(u) = n =>
                      FlattenSeq(s \o u) = FlattenSeq(s) \o FlattenSeq(u)}
  <1>0. FlattenSeq(s) \in Seq(S)
    BY FlattenType
  <1>1. 0 \in T
    <2>1. ASSUME NEW u \in Seq(Seq(S)), Len(u) = 0
          PROVE  FlattenSeq(s \o u) = FlattenSeq(s) \o FlattenSeq(u)
      <3>1. u = << >> /\ s \o u = s
        BY <2>1
      <3>2. FlattenSeq(s) \o << >> = FlattenSeq(s)
        BY <1>0
      <3> QED BY <3>1, <3>2, FlattenEmpty
    <2> QED BY <2>1
  <1>2. ASSUME NEW n \in T PROVE n + 1 \in T
    <2>1. ASSUME NEW u \in Seq(Seq(S)), Len(u) = n + 1
          PROVE  FlattenSeq(s \o u) = FlattenSeq(s) \o FlattenSeq(u)
      <3>1. n \in Nat
        OBVIOUS
      <3>2. PICK v \in Seq(Seq(S)) : \E x \in Seq(S) : u = Append(v, x)
        <4>1. u # << >>
          BY <2>1, <3>1
        <4> QED BY <4>1, SequenceEmptyOrAppend
      <3>3. PICK x \in Seq(S) : u = Append(v, x)
        BY <3>2
      <3> DEFINE w == s \o v
      <3>4. Len(v) = n /\ w \in Seq(Seq(S)) /\ s \o u = Append(w, x)
        <4> DEFINE A == Seq(S)
        <4>1. s \in Seq(A) /\ v \in Seq(A) /\ x \in A
          OBVIOUS
        <4> HIDE DEF A
        <4>2. w \in Seq(A) /\ Len(Append(v, x)) = Len(v) + 1 /\ Len(v) \in Nat
          BY <4>1
        <4>3. s \o Append(v, x) = Append(w, x)
          <5> DEFINE e == <<x>>
          <5>1. e \in Seq(A)
            BY <4>1
          <5>2. Append(v, x) = v \o e /\ Append(w, x) = w \o e
            BY <4>1, <4>2, AppendIsConcat
          <5> HIDE DEF e
          <5>3. Chain(s, Chain(v, e)) = Chain(Chain(s, v), e)
            BY <4>1, <5>1, ChainAssociates
          <5> DEFINE p == Append(v, x)
                     q == Append(w, x)
                     l == v \o e
          <5>4. p = l /\ q = w \o e /\ s \o l = w \o e
            BY <5>2, <5>3, Zenon DEF Chain
          <5> HIDE DEF p, q, l
          <5>5. s \o p = q
            BY <5>4, Zenon
          <5> QED BY <5>5 DEF p, q
        <4>4. Len(v) = n
          BY <2>1, <3>1, <3>3, <4>2
        <4> QED BY <3>3, <4>2, <4>3, <4>4 DEF A
      <3>6. FlattenSeq(w) = FlattenSeq(s) \o FlattenSeq(v)
        BY <1>2, <3>4
      <3>7. FlattenSeq(v) \in Seq(S)
        BY FlattenType
      <3> HIDE DEF w
      <3>5. FlattenSeq(Append(w, x)) = FlattenSeq(w) \o x
        BY <3>4, FlattenAppend
      <3>8. FlattenSeq(s \o u) = (FlattenSeq(s) \o FlattenSeq(v)) \o x
        BY <3>4, <3>5, <3>6, Zenon
      <3>9. FlattenSeq(u) = FlattenSeq(v) \o x
        BY <3>3, FlattenAppend
      <3>10. (FlattenSeq(s) \o FlattenSeq(v)) \o x = FlattenSeq(s) \o (FlattenSeq(v) \o x)
        <4> DEFINE a == FlattenSeq(s)
                   b == FlattenSeq(v)
        <4>1. a \in Seq(S) /\ b \in Seq(S)
          BY <1>0, <3>7
        <4> HIDE DEF a, b
        <4>2. Chain(Chain(a, b), x) = Chain(a, Chain(b, x))
          BY <4>1, ChainAssociates
        <4> QED BY <4>2, Zenon DEF Chain, a, b
      <3> QED BY <3>8, <3>9, <3>10, Zenon
    <2> QED BY <2>1
  <1> HIDE DEF T
  <1>3. Len(t) \in Nat /\ Len(t) \in T
    <2>1. \A n \in Nat : n \in T
      BY <1>1, <1>2, Induct DEF T
    <2> QED BY <2>1
  <1> QED BY <1>3 DEF T

-----------------------------------------------------------------------------
(* What the elements of a sequence stand for, one after the other *)

Spread(F, s) == FlattenSeq([i \in DOMAIN s |-> F[s[i]]])

\* each element of S stands for a sequence over X
Spreads(F, S, X) == \A x \in S : F[x] \in Seq(X)

LEMMA SpreadType ==
    ASSUME NEW S, NEW X, NEW F, Spreads(F, S, X), NEW s \in Seq(S)
    PROVE  /\ [i \in DOMAIN s |-> F[s[i]]] \in Seq(Seq(X))
           /\ Spread(F, s) \in Seq(X)
  <1>1. [i \in DOMAIN s |-> F[s[i]]] \in Seq(Seq(X))
    <2>1. DOMAIN s = 1..Len(s) /\ Len(s) \in Nat /\ \A i \in 1..Len(s) : s[i] \in S
      BY ElementOfSeq
    <2>2. \A i \in 1..Len(s) : F[s[i]] \in Seq(X)
      BY <2>1 DEF Spreads
    <2> QED BY <2>1, <2>2, IsASeq
  <1> QED BY <1>1, FlattenType DEF Spread

LEMMA SpreadConcat ==
    ASSUME NEW S, NEW X, NEW F, Spreads(F, S, X), NEW s \in Seq(S), NEW t \in Seq(S)
    PROVE  Spread(F, s \o t) = Spread(F, s) \o Spread(F, t)
  <1> DEFINE a == [i \in DOMAIN s |-> F[s[i]]]
             b == [i \in DOMAIN t |-> F[t[i]]]
             c == [i \in DOMAIN (s \o t) |-> F[(s \o t)[i]]]
  <1>1. /\ DOMAIN s = 1..Len(s) /\ Len(s) \in Nat
        /\ DOMAIN t = 1..Len(t) /\ Len(t) \in Nat
    OBVIOUS
  <1>2. /\ s \o t \in Seq(S) /\ Len(s \o t) = Len(s) + Len(t)
        /\ DOMAIN (s \o t) = 1..(Len(s) + Len(t))
    OBVIOUS
  <1>3. a \in Seq(Seq(X)) /\ b \in Seq(Seq(X)) /\ c \in Seq(Seq(X))
    <2> DEFINE u == s \o t
    <2>1. u \in Seq(S)
      BY <1>2
    <2> HIDE DEF u
    <2>2. [i \in DOMAIN u |-> F[u[i]]] \in Seq(Seq(X))
      BY <2>1, SpreadType
    <2>3. a \in Seq(Seq(X)) /\ b \in Seq(Seq(X))
      BY SpreadType
    <2> QED BY <2>2, <2>3 DEF u
  <1>4. /\ DOMAIN a = 1..Len(s) /\ DOMAIN b = 1..Len(t)
        /\ DOMAIN c = 1..(Len(s) + Len(t))
    BY <1>1, <1>2
  <1>5. \A i \in 1..Len(s) : c[i] = a[i]
    <2> TAKE i \in 1..Len(s)
    <2>1. (s \o t)[i] = s[i]
      BY <1>1
    <2>2. i \in DOMAIN s /\ i \in DOMAIN (s \o t)
      BY <1>1, <1>2
    <2> QED BY <2>1, <2>2
  <1>6. \A i \in 1..Len(t) : c[Len(s) + i] = b[i]
    <2> TAKE i \in 1..Len(t)
    <2>1. (s \o t)[Len(s) + i] = t[i]
      BY <1>1
    <2>2. i \in DOMAIN t /\ Len(s) + i \in DOMAIN (s \o t)
      BY <1>1, <1>2
    <2> QED BY <2>1, <2>2
  <1> HIDE DEF a, b, c
  <1>7. Len(a) = Len(s) /\ Len(b) = Len(t) /\ Len(c) = Len(s) + Len(t)
    BY <1>1, <1>3, <1>4
  <1>8. c = a \o b
    <2>1. Len(c) = Len(a) + Len(b)
      BY <1>7
    <2>2. \A i \in 1..Len(a) : c[i] = a[i]
      BY <1>5, <1>7
    <2>3. \A i \in 1..Len(b) : c[Len(a) + i] = b[i]
      BY <1>6, <1>7
    <2> QED BY <1>3, <2>1, <2>2, <2>3, ConcatOf
  <1>9. FlattenSeq(c) = FlattenSeq(a) \o FlattenSeq(b)
    BY <1>3, <1>8, FlattenConcat
  <1> QED BY <1>9 DEF a, b, c, Spread

LEMMA SpreadOne ==
    ASSUME NEW F, NEW x
    PROVE  Spread(F, <<x>>) = F[x]
  <1>1. [i \in DOMAIN <<x>> |-> F[<<x>>[i]]] = <<F[x]>>
    OBVIOUS
  <1> QED BY <1>1, FlattenOne DEF Spread

LEMMA SpreadAppend ==
    ASSUME NEW S, NEW X, NEW F, Spreads(F, S, X), NEW s \in Seq(S), NEW x \in S
    PROVE  Spread(F, Append(s, x)) = Spread(F, s) \o F[x]
  <1> DEFINE t == <<x>>
  <1>1. Append(s, x) = s \o t /\ t \in Seq(S)
    BY AppendIsConcat
  <1>2. Spread(F, t) = F[x]
    BY SpreadOne
  <1> HIDE DEF t
  <1>3. Spread(F, s \o t) = Spread(F, s) \o Spread(F, t)
    BY <1>1, SpreadConcat
  <1> QED BY <1>1, <1>2, <1>3

LEMMA SpreadTail ==
    ASSUME NEW S, NEW X, NEW F, Spreads(F, S, X), NEW s \in Seq(S), s # << >>
    PROVE  Spread(F, s) = F[Head(s)] \o Spread(F, Tail(s))
  <1> DEFINE t == <<Head(s)>>
             u == Tail(s)
  <1>1. t \in Seq(S) /\ u \in Seq(S)
    OBVIOUS
  <1>2. s = t \o u
    BY HeadTailProperties
  <1>3. Spread(F, t) = F[Head(s)]
    BY SpreadOne
  <1> HIDE DEF t, u
  <1>4. Spread(F, t \o u) = Spread(F, t) \o Spread(F, u)
    BY <1>1, SpreadConcat
  <1>5. Spread(F, s) = F[Head(s)] \o Spread(F, u)
    BY <1>2, <1>3, <1>4
  <1> QED BY <1>5 DEF u

=============================================================================

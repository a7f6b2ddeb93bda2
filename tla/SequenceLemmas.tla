---------------------------- MODULE SequenceLemmas -----------------------------
(***************************************************************************)
(* Sequences cut, joined and flattened.  The induction over the length of  *)
(* a sequence goes by way of a least counterexample: the sets of lengths   *)
(* for which a fact holds take the place of the induction rules.           *)
(***************************************************************************)
EXTENDS Naturals, Sequences, SequencesExt, WellFoundedInduction, NaturalsInduction,
        SequenceTheorems, TLAPS

\* A set of naturals with 0 and the successor of each of its members is Nat.
LEMMA NatSet ==
    ASSUME NEW T \in SUBSET Nat, 0 \in T, \A n \in T : n + 1 \in T
    PROVE  T = Nat
<1> SUFFICES ASSUME Nat \ T # {}
             PROVE  FALSE
  OBVIOUS
<1>1. PICK x \in Nat \ T : \A y \in Nat \ T : ~ (<<y, x>> \in OpToRel(<, Nat))
  BY NatLessThanWellFounded, WFMin, Zenon
<1>2. x - 1 \in Nat /\ x - 1 < x /\ (x - 1) + 1 = x
  <2>1. x \in Nat /\ x # 0
    OBVIOUS
  <2> QED
    BY <2>1
<1>3. x - 1 \in T
  <2>1. <<x - 1, x>> \in OpToRel(<, Nat)
    BY <1>2 DEF OpToRel
  <2> QED
    BY <1>1, <1>2, <2>1
<1>4. (x - 1) + 1 \in T
  BY <1>3
<1> QED
  BY <1>2, <1>4

(***************************************************************************)
(* FlattenSeq is a recursive function over the positions of its argument.  *)
(***************************************************************************)
Partial(f, s, n) ==
    f = [i \in 1 .. n |-> IF i = 1 THEN s[i] ELSE f[i - 1] \o s[i]]

\* The function that flattens the first n sequences exists.
LEMMA PartialExists ==
    ASSUME NEW S, NEW s \in Seq(Seq(S)), NEW n \in 0 .. Len(s)
    PROVE  \E f \in [1 .. n -> Seq(S)] : Partial(f, s, n)
<1> DEFINE T == {k \in Nat : k <= Len(s) => \E f \in [1 .. k -> Seq(S)] : Partial(f, s, k)}
<1>1. 0 \in T
  <2> DEFINE f0 == [i \in 1 .. 0 |-> <<>>]
  <2>1. f0 \in [1 .. 0 -> Seq(S)] /\ Partial(f0, s, 0)
    BY DEF Partial
  <2> QED
    BY <2>1
<1>2. ASSUME NEW k \in T
      PROVE  k + 1 \in T
  <2> SUFFICES ASSUME k + 1 <= Len(s)
               PROVE  \E f \in [1 .. k + 1 -> Seq(S)] : Partial(f, s, k + 1)
    OBVIOUS
  <2>1. PICK f \in [1 .. k -> Seq(S)] : Partial(f, s, k)
    OBVIOUS
  <2> DEFINE g == [i \in 1 .. k + 1 |->
                      IF i = k + 1 THEN IF i = 1 THEN s[i] ELSE f[i - 1] \o s[i]
                      ELSE f[i]]
  <2>2. s[k + 1] \in Seq(S)
    OBVIOUS
  <2>3. k # 0 => f[k] \in Seq(S)
    OBVIOUS
  <2>4. g \in [1 .. k + 1 -> Seq(S)]
    BY <2>2, <2>3
  <2>5. \A i \in 1 .. k : f[i] = IF i = 1 THEN s[i] ELSE f[i - 1] \o s[i]
    BY <2>1 DEF Partial
  <2>6. ASSUME NEW i \in 1 .. k + 1
        PROVE  g[i] = IF i = 1 THEN s[i] ELSE g[i - 1] \o s[i]
    <3>1. CASE i = k + 1
      <4>1. i # 1 => i - 1 \in 1 .. k /\ i - 1 # k + 1
        BY <3>1
      <4>2. i # 1 => g[i - 1] = f[i - 1]
        BY <4>1
      <4> QED
        BY <3>1, <4>2
    <3>2. CASE i # k + 1
      <4>1. i \in 1 .. k /\ (i # 1 => i - 1 \in 1 .. k /\ i - 1 # k + 1)
        BY <3>2
      <4>2. g[i] = f[i] /\ (i # 1 => g[i - 1] = f[i - 1])
        BY <3>2, <4>1
      <4> QED
        BY <2>5, <4>1, <4>2
    <3> QED
      BY <3>1, <3>2
  <2>7. Partial(g, s, k + 1)
    <3> HIDE DEF g
    <3> QED
      BY <2>4, <2>6 DEF Partial
  <2> QED
    BY <2>4, <2>7
<1>3. T = Nat
  <2> HIDE DEF T
  <2>1. T \in SUBSET Nat
    BY DEF T
  <2> QED
    BY <1>1, <1>2, <2>1, NatSet
<1>4. n \in Nat /\ n <= Len(s)
  OBVIOUS
<1>5. n \in T
  <2> HIDE DEF T
  <2> QED
    BY <1>3, <1>4
<1> QED
  BY <1>4, <1>5

Agree(s, t, n) == \A i \in 1 .. n : s[i] = t[i]

\* Two of them agree on a common prefix.
LEMMA PartialUnique ==
    ASSUME NEW s, NEW t, NEW f, NEW g, NEW n \in Nat, NEW m \in Nat, n <= m,
           Agree(s, t, n), Partial(f, s, n), Partial(g, t, m)
    PROVE  Agree(f, g, n)
<1> DEFINE T == {k \in Nat : k \in 1 .. n => f[k] = g[k]}
<1>1. \A i \in 1 .. n : f[i] = IF i = 1 THEN s[i] ELSE f[i - 1] \o s[i]
  BY DEF Partial
<1>2. \A i \in 1 .. n : g[i] = IF i = 1 THEN t[i] ELSE g[i - 1] \o t[i]
  <2>1. \A i \in 1 .. m : g[i] = IF i = 1 THEN t[i] ELSE g[i - 1] \o t[i]
    BY DEF Partial
  <2> QED
    BY <2>1
<1>3. 0 \in T
  OBVIOUS
<1>4. ASSUME NEW k \in T
      PROVE  k + 1 \in T
  BY <1>1, <1>2 DEF Agree
<1>5. T = Nat
  <2> HIDE DEF T
  <2>1. T \in SUBSET Nat
    BY DEF T
  <2> QED
    BY <1>3, <1>4, <2>1, NatSet
<1> QED
  BY <1>5 DEF Agree

\* FlattenSeq is the last value of such a function.
LEMMA FlattenPartial ==
    ASSUME NEW S, NEW s \in Seq(Seq(S)), s # <<>>
    PROVE  \E f \in [1 .. Len(s) -> Seq(S)] :
              Partial(f, s, Len(s)) /\ FlattenSeq(s) = f[Len(s)]
<1> DEFINE f == CHOOSE g : Partial(g, s, Len(s))
<1>1. Len(s) \in Nat \ {0}
  OBVIOUS
<1>a. Len(s) \in 0 .. Len(s)
  BY <1>1
<1>2. PICK g \in [1 .. Len(s) -> Seq(S)] : Partial(g, s, Len(s))
  BY <1>a, PartialExists, Zenon
<1>3. Partial(f, s, Len(s))
  BY <1>2, Zenon
<1>4. FlattenSeq(s) = f[Len(s)]
  BY <1>1 DEF FlattenSeq, Partial
<1>5. \A i \in 1 .. Len(s) : f[i] = g[i]
  <2> HIDE DEF f
  <2> QED
    BY <1>1, <1>2, <1>3, PartialUnique DEF Agree
<1>6. f \in [1 .. Len(s) -> Seq(S)]
  <2>1. f = [i \in 1 .. Len(s) |-> f[i]]
    <3> HIDE DEF f
    <3> QED
      BY <1>3 DEF Partial
  <2> HIDE DEF f
  <2> QED
    BY <1>5, <2>1
<1> QED
  BY <1>3, <1>4, <1>6

\* One more sequence is put behind the others.
LEMMA FlattenAppend ==
    ASSUME NEW S, NEW s \in Seq(Seq(S)), NEW x \in Seq(S)
    PROVE  /\ FlattenSeq(s) \in Seq(S)
           /\ FlattenSeq(Append(s, x)) = FlattenSeq(s) \o x
<1> DEFINE all == Append(s, x)
           len == Len(s)
<1>1. all \in Seq(Seq(S)) /\ Len(all) = len + 1 /\ len \in Nat /\ all[len + 1] = x
  OBVIOUS
<1>2. \A i \in 1 .. len : s[i] = all[i]
  OBVIOUS
<1>3. Len(<<>>) = 0 /\ (len = 0 => s = <<>>)
  OBVIOUS
<1> HIDE DEF all, len
<1>4. all # <<>>
  BY <1>1, <1>3
<1>5. PICK g : Partial(g, all, len + 1) /\ FlattenSeq(all) = g[len + 1]
  BY <1>1, <1>4, FlattenPartial
<1>6. g[len + 1] = IF len + 1 = 1 THEN x ELSE g[len] \o x
  <2>1. \A i \in 1 .. len + 1 : g[i] = IF i = 1 THEN all[i] ELSE g[i - 1] \o all[i]
    BY <1>5 DEF Partial
  <2>2. len + 1 \in 1 .. len + 1 /\ (len + 1) - 1 = len
    BY <1>1
  <2> QED
    BY <1>1, <2>1, <2>2
<1>7. CASE s = <<>>
  <2>1. FlattenSeq(s) = <<>>
    BY <1>7 DEF FlattenSeq
  <2>2. <<>> \o x = x
    OBVIOUS
  <2>3. len + 1 = 1
    BY <1>3, <1>7 DEF len
  <2> QED
    BY <1>5, <1>6, <2>1, <2>2, <2>3 DEF all
<1>8. CASE s # <<>>
  <2>1. PICK f : /\ f \in [1 .. len -> Seq(S)]
                /\ Partial(f, s, len) /\ FlattenSeq(s) = f[len]
    BY <1>8, FlattenPartial DEF len
  <2>2. len \in 1 .. len /\ len + 1 # 1 /\ len + 1 \in Nat /\ len <= len + 1
    BY <1>1, <1>3, <1>8
  <2> DEFINE more == len + 1
  <2>3. Agree(s, all, len) /\ len \in Nat /\ len # 0 /\ Partial(f, s, len)
        /\ Partial(g, all, more) /\ more \in Nat /\ len <= more
    BY <1>1, <1>2, <1>5, <2>1, <2>2 DEF Agree
  <2>4. Agree(f, g, len)
    <3> HIDE DEF more
    <3> QED
      BY <2>3, PartialUnique, Zenon
  <2>5. f[len] = g[len]
    BY <2>2, <2>4 DEF Agree
  <2> QED
    BY <1>5, <1>6, <2>1, <2>2, <2>5 DEF all
<1> QED
  BY <1>7, <1>8

\* FlattenSeq distributes over concatenation.
LEMMA FlattenConcat ==
    ASSUME NEW S, NEW s \in Seq(Seq(S)), NEW t \in Seq(Seq(S))
    PROVE  FlattenSeq(s \o t) = FlattenSeq(s) \o FlattenSeq(t)
<1> DEFINE P(u) == FlattenSeq(s \o u) = FlattenSeq(s) \o FlattenSeq(u)
           T == {n \in Nat : \A u \in Seq(Seq(S)) : Len(u) = n => P(u)}
<1>1. 0 \in T
  <2>1. ASSUME NEW u \in Seq(Seq(S)), Len(u) = 0
        PROVE  P(u)
    <3>1. u = <<>> /\ s \o u = s
      BY <2>1
    <3>2. FlattenSeq(u) = <<>>
      BY <3>1 DEF FlattenSeq
    <3>3. FlattenSeq(s) \in Seq(S)
      BY FlattenAppend
    <3>4. FlattenSeq(s) \o <<>> = FlattenSeq(s)
      BY <3>3
    <3> QED
      BY <3>1, <3>2, <3>4
  <2> QED
    BY <2>1
<1>2. ASSUME NEW n \in T
      PROVE  n + 1 \in T
  <2>1. ASSUME NEW u \in Seq(Seq(S)), Len(u) = n + 1
        PROVE  P(u)
    <3> DEFINE v == SubSeq(u, 1, n)
               x == u[n + 1]
    <3>1. v \in Seq(Seq(S)) /\ Len(v) = n /\ x \in Seq(S)
      BY <2>1
    <3>2. u = Append(v, x)
      BY <2>1
    <3>3. P(v)
      BY <3>1
    <3> HIDE DEF v, x
    <3>4. s \o u = Append(s \o v, x) /\ s \o v \in Seq(Seq(S))
      BY <3>1, <3>2
    <3>5. FlattenSeq(s \o u) = FlattenSeq(s \o v) \o x
      BY <3>1, <3>4, FlattenAppend
    <3>6. FlattenSeq(u) = FlattenSeq(v) \o x
      BY <3>1, <3>2, FlattenAppend
    <3>7. FlattenSeq(s) \in Seq(S) /\ FlattenSeq(v) \in Seq(S)
      BY <3>1, FlattenAppend
    <3>8. (FlattenSeq(s) \o FlattenSeq(v)) \o x = FlattenSeq(s) \o (FlattenSeq(v) \o x)
      <4> DEFINE a == FlattenSeq(s)
                 b == FlattenSeq(v)
      <4>1. a \in Seq(S) /\ b \in Seq(S) /\ x \in Seq(S)
        BY <3>1, <3>7
      <4> HIDE DEF a, b
      <4>2. (a \o b) \o x = a \o (b \o x)
        BY ONLY <4>1
      <4> QED
        BY <4>2 DEF a, b
    <3> QED
      BY <3>3, <3>5, <3>6, <3>8
  <2> QED
    BY <2>1
<1>3. T = Nat
  <2> HIDE DEF T
  <2>1. T \in SUBSET Nat
    BY DEF T
  <2> QED
    BY <1>1, <1>2, <2>1, NatSet
<1>4. Len(t) \in Nat
  OBVIOUS
<1> QED
  BY <1>3, <1>4

--------------------------------------------------------------------------------
(***************************************************************************)
(* Cutting and joining                                                     *)
(***************************************************************************)
\* A concatenation is cut into its parts where they meet.
LEMMA CutFacts ==
    ASSUME NEW S, NEW a \in Seq(S), NEW b \in Seq(S)
    PROVE  /\ SubSeq(a \o b, 1, Len(a)) = a
           /\ SubSeq(a \o b, Len(a) + 1, Len(a \o b)) = b
<1> DEFINE s == a \o b
<1>1. s \in Seq(S) /\ Len(s) = Len(a) + Len(b) /\ Len(a) \in Nat /\ Len(b) \in Nat
  BY ConcatProperties, LenProperties
<1>2. \A i \in 1 .. Len(s) : s[i] = IF i <= Len(a) THEN a[i] ELSE b[i - Len(a)]
  BY ConcatProperties
<1> HIDE DEF s
<1>3. SubSeq(s, 1, Len(a)) = a
  <2> DEFINE l == SubSeq(s, 1, Len(a))
  <2>1. l \in Seq(S) /\ Len(l) = Len(a) /\ \A i \in 1 .. Len(a) : l[i] = s[i]
    BY <1>1
  <2>2. \A i \in 1 .. Len(a) : l[i] = a[i]
    BY <1>1, <1>2, <2>1
  <2> HIDE DEF l
  <2>3. l = a
    BY <2>1, <2>2, SeqEqual
  <2> QED
    BY <2>3 DEF l
<1>4. SubSeq(s, Len(a) + 1, Len(s)) = b
  <2> DEFINE r == SubSeq(s, Len(a) + 1, Len(s))
  <2>1. r \in Seq(S) /\ Len(r) = Len(b) /\ \A i \in 1 .. Len(b) : r[i] = s[Len(a) + i]
    BY <1>1
  <2>2. \A i \in 1 .. Len(b) : r[i] = b[i]
    BY <1>1, <1>2, <2>1
  <2> HIDE DEF r
  <2>3. r = b
    BY <2>1, <2>2, SeqEqual
  <2> QED
    BY <2>3 DEF r
<1> QED
  BY <1>3, <1>4 DEF s

\* What is inserted behind a comes between a and b.
LEMMA InsertBetween ==
    ASSUME NEW S, NEW a \in Seq(S), NEW b \in Seq(S), NEW e \in S
    PROVE  InsertAt(a \o b, Len(a) + 1, e) = (a \o <<e>>) \o b
<1> DEFINE s == a \o b
<1>1. SubSeq(s, 1, Len(a)) = a /\ SubSeq(s, Len(a) + 1, Len(s)) = b
  BY CutFacts
<1>2. Len(a) + 1 - 1 = Len(a)
  BY LenProperties
<1> HIDE DEF s
<1> DEFINE k == Len(a) + 1
<1>4. k - 1 = Len(a) /\ SubSeq(s, k, Len(s)) = b
  BY <1>1, <1>2
<1> HIDE DEF k
<1>5. InsertAt(s, k, e) = SubSeq(s, 1, k - 1) \o <<e>> \o SubSeq(s, k, Len(s))
  BY Zenon DEF InsertAt
<1>7. InsertAt(s, k, e) = (a \o <<e>>) \o b
  BY <1>1, <1>4, <1>5
<1> QED
  BY <1>7 DEF s, k

\* The element e between a and b.
LEMMA MiddleFacts ==
    ASSUME NEW S, NEW a \in Seq(S), NEW b \in Seq(S), NEW e \in S
    PROVE  /\ (a \o <<e>>) \o b = a \o (<<e>> \o b)
           /\ a \o <<e>> \in Seq(S) /\ <<e>> \in Seq(S) /\ <<e>> \o b \in Seq(S)
           /\ (a \o <<e>>) \o b \in Seq(S)
           /\ Len(a \o <<e>>) = Len(a) + 1
           /\ Len((a \o <<e>>) \o b) = Len(a) + 1 + Len(b)
           /\ ((a \o <<e>>) \o b)[Len(a) + 1] = e
<1>1. <<e>> \in Seq(S) /\ Len(<<e>>) = 1 /\ <<e>>[1] = e /\ Len(a) \in Nat /\ Len(b) \in Nat
  BY LenProperties
<1> DEFINE m == <<e>>
<1> HIDE DEF m
<1>2. m \in Seq(S) /\ Len(m) = 1 /\ m[1] = e
  BY <1>1 DEF m
<1>3. (a \o m) \o b = a \o (m \o b)
  BY <1>2, ConcatAssociative
<1> DEFINE f == a \o m
<1>a. f \in Seq(S) /\ Len(f) = Len(a) + Len(m)
  BY <1>2, ConcatProperties
<1>b. m \o b \in Seq(S)
  BY <1>2, ConcatProperties
<1>4. f \in Seq(S) /\ Len(f) = Len(a) + 1 /\ m \o b \in Seq(S)
  BY <1>2, <1>a, <1>b
<1>5. f[Len(a) + 1] = e
  <2>1. Len(a) + 1 \in 1 .. Len(a) + Len(m) /\ ~ (Len(a) + 1 <= Len(a))
        /\ Len(a) + 1 - Len(a) = 1
    BY <1>1, <1>2
  <2>2. f[Len(a) + 1] = m[Len(a) + 1 - Len(a)]
    BY <1>2, <2>1, ConcatProperties
  <2> QED
    BY <1>2, <2>1, <2>2
<1> HIDE DEF f
<1>6. f \o b \in Seq(S) /\ Len(f \o b) = Len(f) + Len(b)
  BY <1>4, ConcatProperties
<1>7. (f \o b)[Len(a) + 1] = f[Len(a) + 1]
  <2>1. Len(a) + 1 \in 1 .. Len(f) + Len(b) /\ Len(a) + 1 <= Len(f)
    BY <1>1, <1>4
  <2> QED
    BY <1>4, <2>1, ConcatProperties
<1> QED
  BY <1>1, <1>3, <1>4, <1>5, <1>6, <1>7 DEF f, m

\* What is removed behind a leaves a and b.
LEMMA RemoveMiddle ==
    ASSUME NEW S, NEW a \in Seq(S), NEW b \in Seq(S), NEW e \in S
    PROVE  RemoveAt((a \o <<e>>) \o b, Len(a) + 1) = a \o b
<1> DEFINE s == (a \o <<e>>) \o b
           f == a \o <<e>>
           g == <<e>> \o b
<1>1. s = a \o g /\ s = f \o b /\ f \in Seq(S) /\ g \in Seq(S) /\ Len(f) = Len(a) + 1
  BY MiddleFacts
<1>2. Len(a) + 1 - 1 = Len(a)
  BY LenProperties
<1> HIDE DEF s, f, g
<1>3. SubSeq(s, 1, Len(a)) = a
  BY <1>1, CutFacts
<1>4. SubSeq(s, Len(f) + 1, Len(s)) = b
  BY <1>1, CutFacts
<1> DEFINE k == Len(a) + 1
           n == k - 1
           h == k + 1
<1>5. RemoveAt(s, k) = SubSeq(s, 1, n) \o SubSeq(s, h, Len(s))
  BY DEF RemoveAt
<1>6. n = Len(a) /\ h = Len(f) + 1
  BY <1>1, <1>2
<1> HIDE DEF k, n, h
<1>7. RemoveAt(s, k) = a \o b
  BY <1>3, <1>4, <1>5, <1>6
<1> QED
  BY <1>7 DEF s, k

\* The prover cannot match an equation between sequences that hold <<d>>.
Replaced(s, i, d, t) == ReplaceAt(s, i, d) = t

LEMMA ReplaceMiddle ==
    ASSUME NEW S, NEW a \in Seq(S), NEW b \in Seq(S), NEW e \in S, NEW d \in S
    PROVE  Replaced((a \o <<e>>) \o b, Len(a) + 1, d, (a \o <<d>>) \o b)
<1> DEFINE s == (a \o <<e>>) \o b
           t == (a \o <<d>>) \o b
           n == Len(a) + 1
<1>0. Len(a) \in Nat /\ Len(b) \in Nat
  BY LenProperties
<1>1. s \in Seq(S) /\ Len(s) = n + Len(b) /\ t \in Seq(S) /\ Len(t) = n + Len(b)
  BY MiddleFacts
<1>2. n \in 1 .. Len(s)
  BY <1>0, <1>1
<1>3. t[n] = d
  BY MiddleFacts
<1>4. \A i \in 1 .. Len(s) : i # n => s[i] = t[i]
  <2> SUFFICES ASSUME NEW i \in 1 .. Len(s), i # n
               PROVE  s[i] = t[i]
    OBVIOUS
  <2>a. Len(s) = n + Len(b) /\ i \in Nat
    BY <1>1
  <2>1. CASE i < n
    <3>1. \A x \in S : ((a \o <<x>>) \o b)[i] = a[i]
      <4> TAKE x \in S
      <4>1. (a \o <<x>>) \o b = a \o (<<x>> \o b) /\ <<x>> \o b \in Seq(S)
            /\ Len(<<x>> \o b) \in Nat
        BY MiddleFacts, LenProperties
      <4> DEFINE g == <<x>> \o b
      <4> HIDE DEF g
      <4>2. g \in Seq(S) /\ Len(g) \in Nat /\ i <= Len(a) /\ i \in 1 .. Len(a) + Len(g)
        BY <4>1, <2>1, <1>0 DEF g
      <4>3. (a \o g)[i] = a[i]
        BY <4>2, ConcatProperties
      <4> QED
        BY <4>1, <4>3 DEF g
    <3> QED
      BY <3>1
  <2>2. CASE i > n
    <3>1. \A x \in S : ((a \o <<x>>) \o b)[i] = b[i - n]
      <4> TAKE x \in S
      <4> DEFINE g == a \o <<x>>
      <4>1. g \in Seq(S) /\ Len(g) = n
        BY MiddleFacts
      <4> HIDE DEF g
      <4>2. ~ (i <= Len(g)) /\ i \in 1 .. Len(g) + Len(b)
        BY <4>1, <2>2, <1>0, <2>a
      <4>3. (g \o b)[i] = b[i - Len(g)]
        BY <4>1, <4>2, ConcatProperties
      <4> QED
        BY <4>1, <4>3 DEF g
    <3> QED
      BY <3>1
  <2> QED
    BY <1>0, <2>a, <2>1, <2>2
<1> HIDE DEF s, t, n
<1> DEFINE u == [s EXCEPT ![n] = d]
<1>5. u \in Seq(S) /\ Len(u) = Len(s)
      /\ \A i \in 1 .. Len(s) : u[i] = IF i = n THEN d ELSE s[i]
  BY <1>1, <1>2, ExceptSeq
<1> HIDE DEF u
<1>6. \A i \in 1 .. Len(u) : u[i] = t[i]
  BY <1>3, <1>4, <1>5
<1>7. u = t
  BY <1>1, <1>5, <1>6, SeqEqual
<1> QED
  BY <1>7 DEF Replaced, ReplaceAt, s, t, n, u

\* The text without its last line break.
LEMMA FrontFacts ==
    ASSUME NEW S, NEW a \in Seq(S), NEW b \in Seq(S), b # <<>>
    PROVE  Front(b) \in Seq(S) /\ Front(a \o b) = a \o Front(b)
<1>1. PICK v \in Seq(S), e \in S : b = Append(v, e)
  BY SequenceEmptyOrAppend
<1>2. b = v \o <<e>> /\ <<e>> \in Seq(S)
  BY <1>1, AppendIsConcat
<1>3. \A w \in Seq(S) : Front(w \o <<e>>) = w
  <2> TAKE w \in Seq(S)
  <2>1. w \o <<e>> \in Seq(S) /\ Len(w \o <<e>>) - 1 = Len(w)
    BY <1>2, LenProperties, MiddleFacts
  <2>2. SubSeq(w \o <<e>>, 1, Len(w)) = w
    BY <1>2, CutFacts
  <2> QED
    BY <2>1, <2>2 DEF Front
<1>4. a \o (v \o <<e>>) = (a \o v) \o <<e>> /\ a \o v \in Seq(S)
  BY <1>2, ConcatAssociative, ConcatProperties
<1> QED
  BY <1>2, <1>3, <1>4

\* A sequence around its i-th element.
LEMMA CutAt ==
    ASSUME NEW S, NEW s \in Seq(S), NEW i \in 0 .. Len(s)
    PROVE  /\ SubSeq(s, 1, i) \in Seq(S) /\ Len(SubSeq(s, 1, i)) = i
           /\ SubSeq(s, i + 1, Len(s)) \in Seq(S)
           /\ Len(SubSeq(s, i + 1, Len(s))) = Len(s) - i
           /\ s = SubSeq(s, 1, i) \o SubSeq(s, i + 1, Len(s))
<1>1. 1 \in 1 .. Len(s) + 1 /\ i \in 1 - 1 .. Len(s) /\ Len(s) \in i .. Len(s)
  BY LenProperties
<1>2. SubSeq(s, 1, i) \o SubSeq(s, i + 1, Len(s)) = SubSeq(s, 1, Len(s))
  BY <1>1, ConcatAdjacentSubSeq
<1>3. SubSeq(s, 1, Len(s)) = s
  BY SubSeqFull
<1>4. /\ SubSeq(s, 1, i) \in Seq(S) /\ Len(SubSeq(s, 1, i)) = i
      /\ SubSeq(s, i + 1, Len(s)) \in Seq(S)
      /\ Len(SubSeq(s, i + 1, Len(s))) = Len(s) - i
  OBVIOUS
<1> QED
  BY <1>2, <1>3, <1>4

\* A sequence that is not empty has a first element.
LEMMA SplitHead ==
    ASSUME NEW S, NEW s \in Seq(S), s # <<>>
    PROVE  \E e \in S, t \in Seq(S) : s = <<e>> \o t
<1>1. Head(s) \in S /\ Tail(s) \in Seq(S)
  BY HeadTailProperties
<1>2. s = <<Head(s)>> \o Tail(s)
  OBVIOUS
<1> QED
  BY <1>1, <1>2

(***************************************************************************)
(* Sets of positions, functions on positions                               *)
(***************************************************************************)
LEMMA MinFacts ==
    ASSUME NEW S \in SUBSET Nat, S # {}
    PROVE  Min(S) \in S /\ \A y \in S : Min(S) <= y
<1>1. PICK x \in S : \A y \in S : ~ (<<y, x>> \in OpToRel(<, Nat))
  BY NatLessThanWellFounded, WFMin, Zenon
<1>2. \A y \in S : x <= y
  <2>1. ASSUME NEW y \in S, ~(x <= y)
        PROVE  FALSE
    <3>1. x \in Nat /\ y \in Nat /\ y < x
      BY <2>1
    <3>2. <<y, x>> \in OpToRel(<, Nat)
      BY <3>1 DEF OpToRel
    <3> QED
      BY <1>1, <3>2
  <2> QED
    BY <2>1
<1>3. \E z \in S : \A y \in S : z <= y
  BY <1>2
<1> QED
  BY <1>3 DEF Min

\* The greatest member of a nonempty set of positions.
LEMMA MaxExists ==
    ASSUME NEW n \in Nat, NEW S \in SUBSET (1 .. n), S # {}
    PROVE  \E x \in S : \A y \in S : y <= x
<1> DEFINE B == {k \in Nat : \A y \in S : y <= k}
<1>1. n \in B
  OBVIOUS
<1>2. Min(B) \in B /\ \A y \in B : Min(B) <= y
  <2> HIDE DEF B
  <2>1. B \in SUBSET Nat /\ B # {}
    BY <1>1 DEF B
  <2> QED
    BY <2>1, MinFacts
<1> DEFINE m == Min(B)
<1> HIDE DEF m
<1>3. m \in B /\ \A y \in B : m <= y
  BY <1>2 DEF m
<1>4. m \in Nat /\ \A y \in S : y <= m
  BY <1>3
<1>5. CASE m \in S
  BY <1>4, <1>5
<1>6. CASE m \notin S
  <2>1. PICK y \in S : TRUE
    OBVIOUS
  <2>2. y \in 1 .. n /\ y <= m
    BY <1>4
  <2>3. m - 1 \in Nat
    BY <1>4, <2>2
  <2>4. \A z \in S : z <= m - 1
    <3>1. ASSUME NEW z \in S
          PROVE  z <= m - 1
      <4>1. z \in Nat /\ z <= m /\ z # m
        BY <1>4, <1>6
      <4> QED
        BY <1>4, <4>1
    <3> QED
      BY <3>1
  <2>5. m - 1 \in B
    BY <2>3, <2>4
  <2> QED
    BY <1>3, <1>4, <2>5
<1> QED
  BY <1>5, <1>6

LEMMA FunctionIsSeq ==
    ASSUME NEW T, NEW n \in Nat, NEW f \in [1 .. n -> T]
    PROVE  f \in Seq(T) /\ Len(f) = n /\ DOMAIN f = 1 .. n
OBVIOUS

(***************************************************************************)
(* What is flattened, from its parts                                       *)
(***************************************************************************)
LEMMA FlattenIn ==
    ASSUME NEW S, NEW s \in Seq(Seq(S))
    PROVE  FlattenSeq(s) \in Seq(S)
<1>1. <<>> \in Seq(S)
  OBVIOUS
<1> QED
  BY <1>1, FlattenAppend

LEMMA FlattenOne ==
    ASSUME NEW S, NEW x \in Seq(S)
    PROVE  FlattenSeq(<<x>>) = x
<1>1. <<>> \in Seq(Seq(S)) /\ Append(<<>>, x) = <<x>> /\ <<>> \o x = x
  OBVIOUS
<1>2. FlattenSeq(<<>>) = <<>>
  BY DEF FlattenSeq
<1>3. FlattenSeq(Append(<<>>, x)) = FlattenSeq(<<>>) \o x
  BY <1>1, FlattenAppend
<1> QED
  BY <1>1, <1>2, <1>3

\* Parts that are the members one by one make up the sequence.
LEMMA FlattenSingles ==
    ASSUME NEW S, NEW t \in Seq(S), NEW p \in Seq(Seq(S)),
           Len(p) = Len(t), \A i \in 1 .. Len(t) : p[i] = <<t[i]>>
    PROVE  FlattenSeq(p) = t
<1> DEFINE Singles(u, q) == \A i \in 1 .. Len(u) : q[i] = <<u[i]>>
           T == {n \in Nat : \A u \in Seq(S), q \in Seq(Seq(S)) :
                    Len(u) = n /\ Len(q) = n /\ Singles(u, q) => FlattenSeq(q) = u}
<1>1. 0 \in T
  <2>1. \A u \in Seq(S), q \in Seq(Seq(S)) : Len(u) = 0 /\ Len(q) = 0 => u = <<>> /\ q = <<>>
    OBVIOUS
  <2>2. FlattenSeq(<<>>) = <<>>
    BY DEF FlattenSeq
  <2> QED
    BY <2>1, <2>2
<1>2. ASSUME NEW n \in T
      PROVE  n + 1 \in T
  <2>1. ASSUME NEW u \in Seq(S), NEW q \in Seq(Seq(S)),
               Len(u) = n + 1, Len(q) = n + 1, Singles(u, q)
        PROVE  FlattenSeq(q) = u
    <3>1. u # <<>> /\ q # <<>> /\ n \in Nat
      BY <2>1
    <3>2. PICK v \in Seq(S), x \in S : u = Append(v, x)
      BY <3>1, SequenceEmptyOrAppend
    <3>3. PICK w \in Seq(Seq(S)), y \in Seq(S) : q = Append(w, y)
      BY <3>1, SequenceEmptyOrAppend
    <3>4. Len(v) = n /\ Len(w) = n
      BY <2>1, <3>1, <3>2, <3>3, AppendProperties, LenProperties
    <3>5. u[n + 1] = x /\ q[n + 1] = y /\ \A i \in 1 .. n : u[i] = v[i] /\ q[i] = w[i]
      <4>1. u[n + 1] = x /\ \A i \in 1 .. n : u[i] = v[i]
        BY <3>2, <3>4, AppendProperties
      <4>2. q[n + 1] = y /\ \A i \in 1 .. n : q[i] = w[i]
        BY <3>3, <3>4, AppendProperties
      <4> QED
        BY <4>1, <4>2
    <3>6. y = <<x>> /\ Singles(v, w)
      <4>1. n + 1 \in 1 .. n + 1 /\ \A i \in 1 .. n : i \in 1 .. n + 1
        BY <3>1
      <4> QED
        BY <2>1, <3>4, <3>5, <4>1
    <3>7. FlattenSeq(w) = v
      <4> HIDE DEF Singles
      <4> QED
        BY <3>4, <3>6
    <3>8. FlattenSeq(q) = v \o <<x>>
      BY <3>3, <3>6, <3>7, FlattenAppend
    <3> QED
      BY <3>2, <3>8
  <2> HIDE DEF Singles
  <2> QED
    BY <2>1
<1>3. T = Nat
  <2> HIDE DEF T
  <2>1. T \in SUBSET Nat
    BY DEF T
  <2> QED
    BY <1>1, <1>2, <2>1, NatSet
<1>4. Len(t) \in Nat /\ Singles(t, p)
  OBVIOUS
<1> HIDE DEF Singles
<1> QED
  BY <1>3, <1>4

\* Nothing comes of parts only if all of them are empty.
LEMMA FlattenNothing ==
    ASSUME NEW S, NEW p \in Seq(Seq(S)), FlattenSeq(p) = <<>>, NEW i \in 1 .. Len(p)
    PROVE  p[i] = <<>>
<1> DEFINE a == SubSeq(p, 1, i)
           b == SubSeq(p, i + 1, Len(p))
<1>1. /\ a \in Seq(Seq(S)) /\ b \in Seq(Seq(S)) /\ p = a \o b /\ Len(a) = i
  BY CutAt
<1> HIDE DEF a, b
<1>2. FlattenSeq(a) \in Seq(S) /\ FlattenSeq(b) \in Seq(S)
      /\ FlattenSeq(p) = FlattenSeq(a) \o FlattenSeq(b)
  BY <1>1, FlattenConcat, FlattenIn
<1>3. FlattenSeq(a) = <<>>
  <2> DEFINE f == FlattenSeq(a)
             g == FlattenSeq(b)
  <2>1. f \in Seq(S) /\ g \in Seq(S) /\ f \o g = <<>>
    BY <1>2
  <2> HIDE DEF f, g
  <2>2. f = <<>>
    BY <2>1
  <2> QED
    BY <2>2 DEF f
<1>4. a # <<>>
  BY <1>1
<1>5. PICK c \in Seq(Seq(S)), x \in Seq(S) : a = Append(c, x)
  BY <1>1, <1>4, SequenceEmptyOrAppend
<1>6. x = p[i]
  BY <1>1, <1>5
<1>7. FlattenSeq(c) \in Seq(S) /\ FlattenSeq(a) = FlattenSeq(c) \o x
  BY <1>5, FlattenAppend
<1>8. x = <<>>
  <2> DEFINE f == FlattenSeq(c)
  <2>1. f \in Seq(S) /\ f \o x = <<>>
    BY <1>3, <1>7
  <2> HIDE DEF f
  <2> QED
    BY <2>1
<1> QED
  BY <1>6, <1>8

LEMMA FlattenEmpties ==
    ASSUME NEW S, NEW p \in Seq(Seq(S)), \A i \in 1 .. Len(p) : p[i] = <<>>
    PROVE  FlattenSeq(p) = <<>>
<1> DEFINE T == {n \in Nat : \A q \in Seq(Seq(S)) :
                    Len(q) = n /\ (\A i \in 1 .. n : q[i] = <<>>) => FlattenSeq(q) = <<>>}
<1>1. 0 \in T
  <2>1. \A q \in Seq(Seq(S)) : Len(q) = 0 => q = <<>>
    OBVIOUS
  <2>2. FlattenSeq(<<>>) = <<>>
    BY DEF FlattenSeq
  <2> QED
    BY <2>1, <2>2
<1>2. ASSUME NEW n \in T
      PROVE  n + 1 \in T
  <2>1. ASSUME NEW q \in Seq(Seq(S)), Len(q) = n + 1, \A i \in 1 .. n + 1 : q[i] = <<>>
        PROVE  FlattenSeq(q) = <<>>
    <3>1. q # <<>> /\ n \in Nat
      BY <2>1
    <3>2. PICK w \in Seq(Seq(S)), y \in Seq(S) : q = Append(w, y)
      BY <3>1, SequenceEmptyOrAppend
    <3>3. Len(w) = n
      BY <2>1, <3>1, <3>2, AppendProperties, LenProperties
    <3>4. q[n + 1] = y /\ \A i \in 1 .. n : q[i] = w[i]
      BY <3>2, <3>3, AppendProperties
    <3>5. y = <<>> /\ \A i \in 1 .. n : w[i] = <<>>
      <4>1. n + 1 \in 1 .. n + 1 /\ \A i \in 1 .. n : i \in 1 .. n + 1
        BY <3>1
      <4> QED
        BY <2>1, <3>4, <4>1
    <3>6. FlattenSeq(w) = <<>>
      BY <3>3, <3>5
    <3>7. FlattenSeq(q) = <<>> \o y
      BY <3>2, <3>6, FlattenAppend
    <3> QED
      BY <3>5, <3>7
  <2> QED
    BY <2>1
<1>3. T = Nat
  <2> HIDE DEF T
  <2>1. T \in SUBSET Nat
    BY DEF T
  <2> QED
    BY <1>1, <1>2, <2>1, NatSet
<1>4. Len(p) \in Nat
  OBVIOUS
<1> QED
  BY <1>3, <1>4

================================================================================

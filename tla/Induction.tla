------------------------------ MODULE Induction ------------------------------
(***************************************************************************)
(* Induction over data, for the modules that reason about what a fold or a *)
(* recursive function returns.  The provers cannot instantiate a predicate *)
(* or an operator, so the principles are stated of sets and functions      *)
(* (NatSetInduction, Recursion), and a fold is that of the module's        *)
(* parameter Op: a proof about the fold of an operator of its own takes an *)
(* INSTANCE of this module for it.                                         *)
(***************************************************************************)
EXTENDS Integers, Sequences, SequencesExt, FiniteSetTheorems, WellFoundedInduction, TLAPS

CONSTANTS
    Values,     \* what is folded up
    Items,      \* what the sequences consist of
    Op(_, _)    \* what an item does to a value

-----------------------------------------------------------------------------
\* A nonempty set of natural numbers has a least one.
LEMMA LeastOfSet ==
    ASSUME NEW T \in SUBSET Nat, T # {}
    PROVE  \E m \in T : \A n \in T : m <= n
<1> DEFINE R == OpToRel(<, Nat)
<1>1. IsWellFoundedOn(R, Nat)
  BY NatLessThanWellFounded
<1> HIDE DEF R
<1>2. PICK m \in T : \A n \in T : ~ (<<n, m>> \in R)
  BY <1>1, WFMin
<1>3. \A a, b \in Nat : <<a, b>> \in R <=> a < b
  BY DEF R, OpToRel
<1>4. ASSUME NEW n \in T
      PROVE  m <= n
  <2>1. m \in Nat /\ n \in Nat /\ ~(n < m)
    BY <1>2, <1>3
  <2> QED BY <2>1
<1> QED BY <1>4

\* Induction on the natural numbers.
LEMMA NatSetInduction ==
    ASSUME NEW S, 0 \in S, \A n \in Nat : n \in S => n + 1 \in S
    PROVE  Nat \subseteq S
<1> SUFFICES ASSUME Nat \ S # {} PROVE FALSE
  OBVIOUS
<1>1. PICK m \in Nat \ S : \A n \in Nat \ S : m <= n
  BY LeastOfSet
<1>2. m - 1 \in Nat /\ m - 1 \in S
  BY <1>1
<1> QED BY <1>1, <1>2

\* Induction up to a bound.
LEMMA IntervalInduction ==
    ASSUME NEW N \in Nat, NEW S, 0 \in S, \A n \in 0 .. N - 1 : n \in S => n + 1 \in S
    PROVE  0 .. N \subseteq S
<1> DEFINE T == {n \in Nat : n <= N => n \in S}
<1>1. 0 \in T /\ \A n \in Nat : n \in T => n + 1 \in T
  OBVIOUS
<1>2. Nat \subseteq T
  <2> HIDE DEF T
  <2> QED BY <1>1, NatSetInduction
<1> QED BY <1>2

-----------------------------------------------------------------------------
\* Each value of g is what Step makes of the values of g.
Solves(g, D, Step) == \A x \in D : g[x] = Step[<<x, g>>]

\* Step looks only at values of a smaller measure.
LooksBelow(D, V, measure, Step) ==
    \A x \in D : \A g, h \in [D -> V] :
        (\A y \in D : measure[y] < measure[x] => g[y] = h[y]) => Step[<<x, g>>] = Step[<<x, h>>]

\* A function is well defined by a recursion that descends in a measure.
LEMMA Recursion ==
    ASSUME NEW D, NEW V, NEW v0 \in V, NEW N \in Nat, NEW measure \in [D -> 0 .. N],
           NEW Step \in [D \X [D -> V] -> V], LooksBelow(D, V, measure, Step)
    PROVE  \E g \in [D -> V] : Solves(g, D, Step)
<1> DEFINE Below(n, g) == \A x \in D : measure[x] < n => g[x] = Step[<<x, g>>]
           Has(n) == \E g \in [D -> V] : Below(n, g)
           T == {n \in Nat : Has(n)}
<1>1. 0 \in T
  <2> DEFINE g == [x \in D |-> v0]
  <2>1. g \in [D -> V] /\ Below(0, g)
    OBVIOUS
  <2> HIDE DEF g, Below
  <2>2. Has(0)
    BY <2>1
  <2> HIDE DEF Has
  <2> QED BY <2>2
<1>2. ASSUME NEW n \in Nat, n \in T
      PROVE  n + 1 \in T
  <2>1. PICK g \in [D -> V] : Below(n, g)
    BY <1>2
  <2> DEFINE h == [x \in D |-> IF measure[x] < n THEN g[x] ELSE Step[<<x, g>>]]
  <2>2. h \in [D -> V]
    OBVIOUS
  <2>3. ASSUME NEW x \in D, measure[x] < n + 1
        PROVE  h[x] = Step[<<x, h>>]
    <3>1. \A y \in D : measure[y] < measure[x] => g[y] = h[y]
      BY <2>3
    <3>2. Step[<<x, g>>] = Step[<<x, h>>]
      <4> HIDE DEF h
      <4> QED BY <2>2, <3>1 DEF LooksBelow
    <3>3. h[x] = Step[<<x, g>>]
      BY <2>1
    <3> QED BY <3>2, <3>3
  <2>4. Below(n + 1, h)
    <3> HIDE DEF h
    <3> QED BY <2>3
  <2> HIDE DEF h, Below
  <2>5. Has(n + 1)
    BY <2>2, <2>4
  <2> HIDE DEF Has
  <2> QED BY <2>5
<1>3. Nat \subseteq T
  <2> HIDE DEF T
  <2> QED BY <1>1, <1>2, NatSetInduction
<1>4. PICK g \in [D -> V] : Below(N + 1, g)
  <2>1. Has(N + 1)
    <3> HIDE DEF Has
    <3> QED BY <1>3
  <2> QED BY <2>1
<1>5. Solves(g, D, Step)
  <2>1. \A x \in D : measure[x] < N + 1
    OBVIOUS
  <2> QED BY <1>4, <2>1 DEF Solves
<1> QED BY <1>5

-----------------------------------------------------------------------------
\* Putting sequences one behind another.
LEMMA ConcatIs ==
    ASSUME NEW X, NEW s \in Seq(X), NEW t \in Seq(X)
    PROVE  /\ s \o t \in Seq(X)
           /\ Len(s \o t) = Len(s) + Len(t)
           /\ \A i \in 1 .. Len(s) : (s \o t)[i] = s[i]
           /\ \A i \in 1 .. Len(t) : (s \o t)[Len(s) + i] = t[i]
OBVIOUS

LEMMA SameSequence ==
    ASSUME NEW X, NEW s \in Seq(X), NEW t \in Seq(X), Len(s) = Len(t),
           \A i \in 1 .. Len(s) : s[i] = t[i]
    PROVE  s = t
OBVIOUS

LEMMA ConcatAssociates ==
    ASSUME NEW X, NEW s \in Seq(X), NEW t \in Seq(X), NEW u \in Seq(X)
    PROVE  (s \o t) \o u = s \o (t \o u)
OBVIOUS

\* What stands before a position, at it and after it.
LEMMA CutAt ==
    ASSUME NEW X, NEW s \in Seq(X), NEW n \in 1 .. Len(s)
    PROVE  /\ SubSeq(s, 1, n - 1) \in Seq(X) /\ Len(SubSeq(s, 1, n - 1)) = n - 1
           /\ \A i \in 1 .. n - 1 : SubSeq(s, 1, n - 1)[i] = s[i]
           /\ SubSeq(s, n + 1, Len(s)) \in Seq(X) /\ Len(SubSeq(s, n + 1, Len(s))) = Len(s) - n
           /\ s = Append(SubSeq(s, 1, n - 1), s[n]) \o SubSeq(s, n + 1, Len(s))
<1> DEFINE a == SubSeq(s, 1, n - 1)
           b == SubSeq(s, n + 1, Len(s))
           N == Len(s)
<1>1. /\ N \in Nat /\ n \in Nat /\ 1 <= n /\ n <= N /\ s[n] \in X
      /\ a \in Seq(X) /\ Len(a) = n - 1 /\ \A i \in 1 .. n - 1 : a[i] = s[i]
      /\ b \in Seq(X) /\ Len(b) = N - n /\ \A i \in 1 .. N - n : b[i] = s[n + i]
  OBVIOUS
<1> HIDE DEF a, b, N
<1> DEFINE c == Append(a, s[n])
<1>2. /\ c \in Seq(X) /\ Len(c) = n /\ c[n] = s[n]
      /\ \A i \in 1 .. n - 1 : c[i] = s[i]
  BY <1>1
<1> HIDE DEF c
<1>3. c \o b \in Seq(X) /\ Len(c \o b) = N
  <2>1. c \o b \in Seq(X) /\ Len(c \o b) = Len(c) + Len(b)
    BY <1>1, <1>2, ConcatIs
  <2> QED BY <1>1, <1>2, <2>1
<1>4. ASSUME NEW i \in 1 .. N PROVE (c \o b)[i] = s[i]
  <2>1. CASE i <= n
    <3>1. i \in 1 .. Len(c)
      BY <1>1, <1>2, <2>1
    <3>2. (c \o b)[i] = c[i]
      BY <1>1, <1>2, <3>1, ConcatIs
    <3> QED BY <1>1, <1>2, <2>1, <3>2
  <2>2. CASE i > n
    <3>1. i - n \in 1 .. N - n /\ n + (i - n) = i
      BY <1>1, <2>2, SMTT(30)
    <3>2. (c \o b)[Len(c) + (i - n)] = b[i - n]
      BY <1>1, <1>2, <3>1, ConcatIs
    <3> QED BY <1>1, <1>2, <3>1, <3>2
  <2>3. i <= n \/ i > n
    BY <1>1
  <2> QED BY <2>1, <2>2, <2>3
<1>5. s = c \o b
  <2>1. Len(s) = Len(c \o b)
    BY <1>3 DEF N
  <2>2. \A i \in 1 .. Len(s) : s[i] = (c \o b)[i]
    BY <1>4 DEF N
  <2> QED BY <1>3, <2>1, <2>2, SameSequence
<1> QED BY <1>1, <1>5 DEF a, b, c, N

-----------------------------------------------------------------------------
\* The greatest of a set of positions.
LEMMA GreatestOfSet ==
    ASSUME NEW N \in Nat, NEW S \in SUBSET (1 .. N), S # {}
    PROVE  Max(S) \in S /\ \A x \in S : x <= Max(S)
<1> DEFINE T == {N - x : x \in S}
<1>1. T \in SUBSET Nat /\ T # {}
  <2>1. \A x \in S : N - x \in Nat /\ N - x \in T
    OBVIOUS
  <2>2. PICK x \in S : TRUE
    OBVIOUS
  <2>3. T \subseteq Nat /\ N - x \in T
    BY <2>1
  <2> HIDE DEF T
  <2> QED BY <2>3
<1>2. PICK m \in T : \A n \in T : m <= n
  <2> HIDE DEF T
  <2> QED BY <1>1, LeastOfSet
<1>3. PICK z \in S : m = N - z
  OBVIOUS
<1>4. \A x \in S : N - x \in T /\ x \in Int /\ N - z <= N - x
  BY <1>2, <1>3
<1>5. \A x \in S : z >= x
  BY <1>4
<1> QED BY <1>5 DEF Max

\* What is left of the first n positions without the greatest.
LEMMA GreatestOfInterval ==
    ASSUME NEW N \in Nat, NEW n \in 1 .. N
    PROVE  /\ 1 .. n \in SUBSET (1 .. N) /\ 1 .. n # {}
           /\ Max(1 .. n) = n
           /\ (1 .. n) \ {n} = 1 .. n - 1
<1>1. 1 .. n \in SUBSET (1 .. N) /\ n \in 1 .. n
  OBVIOUS
<1>2. Max(1 .. n) \in 1 .. n /\ \A x \in 1 .. n : x <= Max(1 .. n)
  BY <1>1, GreatestOfSet
<1>3. Max(1 .. n) = n
  BY <1>1, <1>2
<1> QED BY <1>1, <1>3

-----------------------------------------------------------------------------
\* Op takes values to values.
Closed == \A v \in Values, x \in Items : Op(v, x) \in Values

Fold(base, s) == FoldLeft(Op, base, s)

\* h[n] is what the first n items of s make of base.
Unfolds(h, base, s) ==
    /\ h \in [0 .. Len(s) -> Values]
    /\ h[0] = base
    /\ \A n \in 1 .. Len(s) : h[n] = Op(h[n - 1], s[n])

\* A fold goes from the first item to the last.
LEMMA FoldUnfolds ==
    ASSUME Closed, NEW base \in Values, NEW s \in Seq(Items)
    PROVE  \E h : Unfolds(h, base, s) /\ Fold(base, s) = h[Len(s)]
<1> DEFINE N == Len(s)
           D == SUBSET (1 .. N)
           measure == [S \in D |-> IF S = {} THEN 0 ELSE Max(S)]
           Value(S, f) == IF S = {} THEN base ELSE Op(f[S \ {Max(S)}], s[Max(S)])
           Step == [p \in D \X [D -> Values] |-> Value(p[1], p[2])]
           Eq(f) == f = [S \in D |-> Value(S, f)]
           g == CHOOSE f : Eq(f)
<1>1. DOMAIN s = 1 .. N /\ N \in Nat
  OBVIOUS
<1>2. Fold(base, s) = g[1 .. N]
  BY <1>1 DEF Fold, FoldLeft, MapThenFoldSet
<1>3. ASSUME NEW S \in D, S # {}
      PROVE  Max(S) \in 1 .. N /\ S \ {Max(S)} \in D /\ s[Max(S)] \in Items
  <2>1. Max(S) \in S
    <3> HIDE DEF N
    <3> QED BY <1>1, <1>3, GreatestOfSet
  <2>2. S \subseteq 1 .. N /\ \A i \in 1 .. N : s[i] \in Items
    OBVIOUS
  <2>3. S \ {Max(S)} \subseteq 1 .. N
    BY <2>2
  <2> QED BY <2>1, <2>2, <2>3
<1>4. ASSUME NEW S \in D, NEW f \in [D -> Values]
      PROVE  Value(S, f) \in Values
  <2>1. CASE S # {}
    BY <1>3, <2>1 DEF Closed
  <2> QED BY <2>1
<1>5. measure \in [D -> 0 .. N]
  BY <1>1, <1>3
<1>6. /\ Step \in [D \X [D -> Values] -> Values]
      /\ \A S \in D : \A f \in [D -> Values] : Step[<<S, f>>] = Value(S, f)
  <2> HIDE DEF Value, D
  <2> QED BY <1>4
<1>7. LooksBelow(D, Values, measure, Step)
  <2> SUFFICES ASSUME NEW S \in D, NEW f \in [D -> Values], NEW h \in [D -> Values],
                      \A R \in D : measure[R] < measure[S] => f[R] = h[R]
               PROVE  Value(S, f) = Value(S, h)
    <3> HIDE DEF D, Value, measure, Step
    <3> QED BY <1>6 DEF LooksBelow
  <2>1. CASE S # {}
    <3> DEFINE R == S \ {Max(S)}
    <3>1. R \in D /\ Max(S) \in 1 .. N
      BY <1>3, <2>1
    <3>2. measure[R] < measure[S]
      <4>1. CASE R # {}
        <5>1. Max(R) \in R /\ \A x \in S : x <= Max(S)
          BY <1>1, <2>1, <3>1, <4>1, GreatestOfSet
        <5>2. Max(R) \in Int /\ Max(R) # Max(S) /\ Max(R) <= Max(S)
          BY <3>1, <5>1
        <5> QED BY <2>1, <3>1, <4>1, <5>2
      <4>2. CASE R = {}
        BY <2>1, <3>1, <4>2
      <4> QED BY <4>1, <4>2
    <3> QED BY <2>1, <3>1, <3>2
  <2> QED BY <2>1
<1>8. PICK f \in [D -> Values] : Solves(f, D, Step)
  <2> HIDE DEF D, measure, Step
  <2> QED BY <1>1, <1>5, <1>6, <1>7, Recursion
<1>9. Eq(g)
  <2>1. f = [S \in D |-> Value(S, f)]
    <3> HIDE DEF D, Value, Step
    <3> QED BY <1>6, <1>8 DEF Solves
  <2>2. Eq(f)
    BY <2>1
  <2> HIDE DEF Eq
  <2> QED BY <2>2
<1> DEFINE h == [n \in 0 .. N |-> g[1 .. n]]
<1> HIDE DEF g, N
<1>10. h[0] = base
  <2>1. 1 .. 0 = {} /\ {} \in D /\ 0 \in 0 .. N
    BY <1>1
  <2>2. g[{}] = base
    BY <1>9, <2>1
  <2> QED BY <2>1, <2>2
<1>11. ASSUME NEW n \in 1 .. N PROVE h[n] = Op(h[n - 1], s[n])
  <2>1. /\ 1 .. n \in D /\ 1 .. n # {} /\ Max(1 .. n) = n /\ (1 .. n) \ {n} = 1 .. n - 1
        /\ n - 1 \in 0 .. N /\ n \in 0 .. N
    BY <1>1, GreatestOfInterval
  <2>2. g[1 .. n] = Value(1 .. n, g)
    <3> HIDE DEF Value, D
    <3> QED BY <1>9, <2>1
  <2> QED BY <2>1, <2>2
<1>12. ASSUME NEW n \in 0 .. N PROVE h[n] \in Values
  <2> DEFINE T == {i \in 0 .. N : h[i] \in Values}
  <2> HIDE DEF h
  <2>1. 0 \in T
    BY <1>1, <1>10
  <2>2. ASSUME NEW i \in 0 .. N - 1, i \in T PROVE i + 1 \in T
    <3>1. i + 1 \in 1 .. N /\ (i + 1) - 1 = i /\ s[i + 1] \in Items
      BY <1>1 DEF N
    <3>2. h[i + 1] = Op(h[i], s[i + 1])
      BY <1>11, <3>1
    <3> QED BY <2>2, <3>1, <3>2 DEF Closed
  <2>3. 0 .. N \subseteq T
    <3> HIDE DEF T
    <3> QED BY <1>1, <2>1, <2>2, IntervalInduction
  <2> QED BY <2>3
<1>13. h = [n \in 0 .. N |-> h[n]] /\ Fold(base, s) = h[N]
  BY <1>1, <1>2
<1> HIDE DEF h
<1>14. h \in [0 .. N -> Values]
  BY <1>12, <1>13
<1>15. Unfolds(h, base, s)
  BY <1>10, <1>11, <1>14 DEF Unfolds, N
<1> QED BY <1>13, <1>15 DEF N

\* How a fold goes on: it is a value, nothing is made of nothing, and after s
\* comes t.
LEMMA FoldIsValue ==
    ASSUME Closed, NEW base \in Values, NEW s \in Seq(Items)
    PROVE  Fold(base, s) \in Values
<1>1. PICK h : Unfolds(h, base, s) /\ Fold(base, s) = h[Len(s)]
  BY FoldUnfolds
<1> QED BY <1>1 DEF Unfolds

LEMMA FoldOfNothing ==
    ASSUME Closed, NEW base \in Values
    PROVE  Fold(base, <<>>) = base
<1>1. <<>> \in Seq(Items) /\ Len(<<>>) = 0
  OBVIOUS
<1>2. PICK h : Unfolds(h, base, <<>>) /\ Fold(base, <<>>) = h[0]
  BY <1>1, FoldUnfolds
<1> QED BY <1>2 DEF Unfolds

LEMMA FoldOfOne ==
    ASSUME Closed, NEW base \in Values, NEW x \in Items
    PROVE  Fold(base, <<x>>) = Op(base, x)
<1>1. <<x>> \in Seq(Items) /\ Len(<<x>>) = 1 /\ <<x>>[1] = x /\ 1 \in 1 .. 1 /\ 1 - 1 = 0
  OBVIOUS
<1>2. PICK h : Unfolds(h, base, <<x>>) /\ Fold(base, <<x>>) = h[1]
  BY <1>1, FoldUnfolds
<1> QED BY <1>1, <1>2 DEF Unfolds

LEMMA FoldOfConcat ==
    ASSUME Closed, NEW base \in Values, NEW s \in Seq(Items), NEW t \in Seq(Items)
    PROVE  Fold(base, s \o t) = Fold(Fold(base, s), t)
<1> DEFINE u == s \o t
           M == Len(s)
           N == Len(t)
<1>1. /\ u \in Seq(Items) /\ Len(u) = M + N /\ M \in Nat /\ N \in Nat
      /\ \A n \in 1 .. M : u[n] = s[n]
      /\ \A n \in 1 .. N : u[M + n] = t[n]
  OBVIOUS
<1> HIDE DEF u
<1>2. PICK hs : Unfolds(hs, base, s) /\ Fold(base, s) = hs[M]
  BY FoldUnfolds
<1>3. PICK ht : Unfolds(ht, hs[M], t) /\ Fold(hs[M], t) = ht[N]
  BY <1>2, FoldIsValue, FoldUnfolds
<1>4. PICK hu : Unfolds(hu, base, u) /\ Fold(base, u) = hu[M + N]
  BY <1>1, FoldUnfolds
<1>5. hu[M] = hs[M]
  <2> DEFINE T == {n \in 0 .. M : hu[n] = hs[n]}
  <2>1. 0 \in T
    BY <1>1, <1>2, <1>4 DEF Unfolds
  <2>2. ASSUME NEW n \in 0 .. M - 1, n \in T PROVE n + 1 \in T
    <3>1. n + 1 \in 1 .. M /\ n + 1 \in 1 .. M + N /\ (n + 1) - 1 = n
      BY <1>1
    <3>2. hs[n + 1] = Op(hs[n], s[n + 1]) /\ hu[n + 1] = Op(hu[n], u[n + 1])
      BY <1>1, <1>2, <1>4, <3>1 DEF Unfolds
    <3> QED BY <1>1, <2>2, <3>1, <3>2
  <2>3. 0 .. M \subseteq T
    <3> HIDE DEF T, M
    <3> QED BY <1>1, <2>1, <2>2, IntervalInduction
  <2>4. M \in 0 .. M
    BY <1>1
  <2> QED BY <2>3, <2>4
<1>6. hu[M + N] = ht[N]
  <2> DEFINE T == {n \in 0 .. N : hu[M + n] = ht[n]}
  <2>1. 0 \in T
    BY <1>1, <1>3, <1>5 DEF Unfolds
  <2>2. ASSUME NEW n \in 0 .. N - 1, n \in T PROVE n + 1 \in T
    <3>1. n + 1 \in 1 .. N /\ M + (n + 1) \in 1 .. M + N /\ (n + 1) - 1 = n /\ (M + (n + 1)) - 1 = M + n
      BY <1>1
    <3>2. ht[n + 1] = Op(ht[n], t[n + 1]) /\ hu[M + (n + 1)] = Op(hu[M + n], u[M + (n + 1)])
      BY <1>1, <1>3, <1>4, <3>1 DEF Unfolds
    <3> QED BY <1>1, <2>2, <3>1, <3>2
  <2>3. 0 .. N \subseteq T
    <3> HIDE DEF T, N
    <3> QED BY <1>1, <2>1, <2>2, IntervalInduction
  <2> QED BY <1>1, <2>3, SMTT(30)
<1> QED BY <1>2, <1>3, <1>4, <1>6 DEF u

\* One more item at the end, or at the front.
LEMMA FoldOfAppend ==
    ASSUME Closed, NEW base \in Values, NEW s \in Seq(Items), NEW x \in Items
    PROVE  Fold(base, Append(s, x)) = Op(Fold(base, s), x)
<1>1. Append(s, x) = s \o <<x>> /\ <<x>> \in Seq(Items)
  OBVIOUS
<1>2. Fold(base, s \o <<x>>) = Fold(Fold(base, s), <<x>>)
  BY <1>1, FoldOfConcat
<1> QED BY <1>1, <1>2, FoldIsValue, FoldOfOne

LEMMA FoldOfFirst ==
    ASSUME Closed, NEW base \in Values, NEW s \in Seq(Items), s # <<>>
    PROVE  Fold(base, s) = Fold(Op(base, Head(s)), Tail(s))
<1>1. /\ s = <<Head(s)>> \o Tail(s) /\ Head(s) \in Items
      /\ <<Head(s)>> \in Seq(Items) /\ Tail(s) \in Seq(Items)
  OBVIOUS
<1>2. Fold(base, <<Head(s)>> \o Tail(s)) = Fold(Fold(base, <<Head(s)>>), Tail(s))
  BY <1>1, FoldOfConcat
<1> QED BY <1>1, <1>2, FoldOfOne

-----------------------------------------------------------------------------
\* f[n] is what the first n sequences of ss come to when put one behind another.
Flattens(f, ss, X) ==
    /\ f \in [0 .. Len(ss) -> Seq(X)]
    /\ f[0] = <<>>
    /\ \A n \in 1 .. Len(ss) : f[n] = f[n - 1] \o ss[n]

LEMMA FlattenUnfolds ==
    ASSUME NEW X, NEW ss \in Seq(Seq(X))
    PROVE  \E f : Flattens(f, ss, X) /\ FlattenSeq(ss) = f[Len(ss)]
<1> DEFINE N == Len(ss)
           D == 1 .. N
           Value(i, f) == IF i = 1 THEN ss[i] ELSE f[i - 1] \o ss[i]
           measure == [i \in D |-> i]
           Step == [p \in D \X [D -> Seq(X)] |-> Value(p[1], p[2])]
           Eq(f) == f = [i \in D |-> Value(i, f)]
           g == CHOOSE f : Eq(f)
<1>1. N \in Nat /\ \A i \in D : ss[i] \in Seq(X)
  OBVIOUS
<1>2. FlattenSeq(ss) = IF N = 0 THEN ss ELSE g[N]
  BY DEF FlattenSeq
<1>3. ASSUME NEW i \in D, NEW f \in [D -> Seq(X)]
      PROVE  Value(i, f) \in Seq(X)
  <2>1. CASE i # 1
    <3>1. i - 1 \in D
      BY <1>1, <2>1
    <3>2. f[i - 1] \in Seq(X)
      BY <3>1
    <3> QED BY <1>1, <3>2
  <2> QED BY <1>1, <2>1
<1>4. /\ Step \in [D \X [D -> Seq(X)] -> Seq(X)]
      /\ \A i \in D : \A f \in [D -> Seq(X)] : Step[<<i, f>>] = Value(i, f)
  <2> HIDE DEF Value, D
  <2> QED BY <1>3
<1>5. LooksBelow(D, Seq(X), measure, Step)
  <2>1. ASSUME NEW i \in D, NEW f \in [D -> Seq(X)], NEW h \in [D -> Seq(X)],
               \A j \in D : measure[j] < measure[i] => f[j] = h[j]
        PROVE  Value(i, f) = Value(i, h)
    <3>1. i # 1 => i - 1 \in D /\ i - 1 < i
      BY <1>1
    <3> QED BY <2>1, <3>1
  <2>2. ASSUME NEW i \in D, NEW f \in [D -> Seq(X)], NEW h \in [D -> Seq(X)],
               \A j \in D : measure[j] < measure[i] => f[j] = h[j]
        PROVE  Step[<<i, f>>] = Step[<<i, h>>]
    <3>1. Value(i, f) = Value(i, h)
      <4> HIDE DEF D, Value, measure, Step
      <4> QED BY <2>1, <2>2
    <3> HIDE DEF D, Value, measure, Step
    <3> QED BY <1>4, <3>1
  <2> HIDE DEF D, Value, measure, Step
  <2> QED BY <2>2 DEF LooksBelow
<1>6. measure \in [D -> 0 .. N] /\ <<>> \in Seq(X)
  BY <1>1
<1>7. PICK f \in [D -> Seq(X)] : Solves(f, D, Step)
  <2> HIDE DEF D, measure, Step
  <2> QED BY <1>1, <1>4, <1>5, <1>6, Recursion
<1>8. Eq(g)
  <2>1. f = [i \in D |-> Value(i, f)]
    <3> HIDE DEF D, Value, Step
    <3> QED BY <1>4, <1>7 DEF Solves
  <2>2. Eq(f)
    BY <2>1
  <2> HIDE DEF Eq
  <2> QED BY <2>2
<1> HIDE DEF g
<1>9. \A i \in D : g[i] = Value(i, g)
  <2> HIDE DEF Value, D
  <2> QED BY <1>8
<1> DEFINE T == {n \in 0 .. N : n > 0 => g[n] \in Seq(X)}
<1>10. 0 .. N \subseteq T
  <2>1. ASSUME NEW n \in 0 .. N - 1, n \in T PROVE n + 1 \in T
    <3>1. n + 1 \in D /\ ss[n + 1] \in Seq(X) /\ (n + 1) - 1 = n
      BY <1>1
    <3>2. g[n + 1] = IF n = 0 THEN ss[n + 1] ELSE g[n] \o ss[n + 1]
      BY <1>9, <3>1
    <3>3. g[n + 1] \in Seq(X)
      BY <2>1, <3>1, <3>2
    <3> QED BY <3>1, <3>3
  <2>2. 0 \in T
    BY <1>1
  <2> HIDE DEF T, N
  <2> QED BY <1>1, <2>1, <2>2, IntervalInduction
<1> DEFINE f0 == [n \in 0 .. N |-> IF n = 0 THEN <<>> ELSE g[n]]
<1>11. \A n \in 1 .. N : g[n] \in Seq(X)
  <2> SUFFICES ASSUME NEW n \in 1 .. N PROVE g[n] \in Seq(X)
    OBVIOUS
  <2>1. n \in 0 .. N /\ n > 0
    BY <1>1
  <2>2. n \in T
    <3> HIDE DEF T
    <3> QED BY <1>10, <2>1
  <2> QED BY <2>1, <2>2
<1>12. f0 \in [0 .. N -> Seq(X)]
  <2> HIDE DEF N
  <2> QED BY <1>11
<1>13. ASSUME NEW n \in 1 .. N PROVE f0[n] = f0[n - 1] \o ss[n]
  <2>1. g[n] = IF n = 1 THEN ss[n] ELSE g[n - 1] \o ss[n]
    BY <1>9
  <2>2. n - 1 \in 0 .. N /\ n \in 0 .. N /\ n # 0 /\ f0[n] = g[n]
    BY <1>1
  <2>3. CASE n = 1
    <3>1. f0[0] = <<>> /\ ss[n] \in Seq(X) /\ <<>> \o ss[n] = ss[n]
      BY <1>1
    <3> QED BY <2>1, <2>2, <2>3, <3>1
  <2>4. CASE n # 1
    <3>1. n - 1 \in 0 .. N /\ n - 1 # 0
      BY <1>1, <2>4
    <3>2. f0[n - 1] = g[n - 1]
      BY <3>1
    <3> HIDE DEF f0
    <3> QED BY <2>1, <2>2, <2>4, <3>2
  <2> QED BY <2>3, <2>4
<1>14. f0[0] = <<>>
  BY <1>1
<1>15. FlattenSeq(ss) = f0[N]
  <2>1. CASE N = 0
    <3>1. ss = <<>>
      BY <2>1
    <3> QED BY <1>2, <1>14, <2>1, <3>1
  <2>2. CASE N # 0
    BY <1>1, <1>2, <2>2
  <2> QED BY <2>1, <2>2
<1>16. Flattens(f0, ss, X)
  <2> HIDE DEF f0
  <2> QED BY <1>12, <1>13, <1>14 DEF Flattens
<1> HIDE DEF f0
<1> QED BY <1>15, <1>16

LEMMA FlattenOfAppend ==
    ASSUME NEW X, NEW ss \in Seq(Seq(X)), NEW t \in Seq(X)
    PROVE  /\ FlattenSeq(ss) \in Seq(X)
           /\ FlattenSeq(Append(ss, t)) = FlattenSeq(ss) \o t
<1> DEFINE tt == Append(ss, t)
           N == Len(ss)
<1>1. /\ N \in Nat /\ tt \in Seq(Seq(X)) /\ Len(tt) = N + 1 /\ tt[N + 1] = t
      /\ \A n \in 1 .. N : tt[n] = ss[n]
  OBVIOUS
<1> HIDE DEF tt
<1>2. PICK f : Flattens(f, ss, X) /\ FlattenSeq(ss) = f[N]
  BY FlattenUnfolds
<1>3. PICK g : Flattens(g, tt, X) /\ FlattenSeq(tt) = g[N + 1]
  BY <1>1, FlattenUnfolds
<1>4. /\ f \in [0 .. N -> Seq(X)] /\ f[0] = <<>> /\ \A n \in 1 .. N : f[n] = f[n - 1] \o ss[n]
      /\ g[0] = <<>> /\ \A n \in 1 .. N + 1 : g[n] = g[n - 1] \o tt[n]
  BY <1>1, <1>2, <1>3 DEF Flattens
<1>5. N \in Nat
  OBVIOUS
<1> HIDE DEF N
<1> DEFINE T == {n \in 0 .. N : g[n] = f[n]}
<1>6. 0 \in T
  <2>1. 0 \in 0 .. N
    BY <1>5
  <2>2. g[0] = f[0]
    BY <1>4
  <2> QED BY <2>1, <2>2
<1>7. ASSUME NEW n \in 0 .. N - 1, n \in T PROVE n + 1 \in T
  <2>1. n + 1 \in 1 .. N /\ n + 1 \in 1 .. N + 1 /\ n + 1 \in 0 .. N /\ (n + 1) - 1 = n
    BY <1>5
  <2>2. f[n + 1] = f[n] \o ss[n + 1] /\ g[n + 1] = g[n] \o tt[n + 1] /\ tt[n + 1] = ss[n + 1]
    BY <1>1, <1>4, <2>1
  <2> QED BY <1>7, <2>1, <2>2
<1>8. 0 .. N \subseteq T
  <2> HIDE DEF T
  <2> QED BY <1>1, <1>6, <1>7, IntervalInduction
<1>9. N \in 0 .. N /\ N + 1 \in 1 .. N + 1 /\ (N + 1) - 1 = N
  BY <1>5
<1>10. g[N + 1] = f[N] \o t /\ f[N] \in Seq(X)
  BY <1>1, <1>4, <1>8, <1>9
<1> QED BY <1>2, <1>3, <1>10 DEF tt

=============================================================================

---------------------------- MODULE MessageProofs ----------------------------
(***************************************************************************)
(* Theorems about messages, for texts over any alphabet and of any length: *)
(* what serializeMsg writes, tokenizeMsg reads back; and what a user types *)
(* is what the users it is said to are shown.                              *)
(*                                                                         *)
(* Both rest on the same kind of fact: a text that was put together is     *)
(* taken apart where it was joined.  Joined items are split again, an      *)
(* escaped value is unescaped, a prefix, a tag and a parameter each end at *)
(* the symbol that no part of it may hold, and only a last parameter may   *)
(* hold anything, because nothing follows it.                              *)
(***************************************************************************)
EXTENDS TextProofs

-----------------------------------------------------------------------------
\* Texts that are put together and taken apart again.  Flattening and joining are
\* taken apart at any place; Find stops where a text was joined, so that Split finds
\* the items of Joined again, and each escaped symbol is read back as itself.

\* Three texts are joined in either order.
Associates(s, t, u) == (s \o t) \o u = s \o (t \o u)

LEMMA AllAssociate ==
    ASSUME NEW X, NEW s \in Seq(X), NEW t \in Seq(X), NEW u \in Seq(X)
    PROVE  Associates(s, t, u)
<1>1. (s \o t) \o u = s \o (t \o u)
  BY ONLY s \in Seq(X), t \in Seq(X), u \in Seq(X)
<1> QED BY <1>1, Zenon DEF Associates

\* A symbol between two texts belongs to either of them.
MovesOver(a, x, b) == (a \o <<x>>) \o b = a \o (<<x>> \o b)

LEMMA MovedOver ==
    ASSUME NEW X, NEW a \in Seq(X), NEW x \in X, NEW b \in Seq(X)
    PROVE  MovesOver(a, x, b)
<1>1. PICK one : one = <<x>>
  OBVIOUS
<1>a. one \in Seq(X)
  BY <1>1
<1>2. Associates(a, one, b)
  BY <1>a, AllAssociate, Zenon
<1> QED BY <1>1, <1>2, Zenon DEF MovesOver, Associates

\* Flattened texts are a text.
LEMMA FlattenIs ==
    ASSUME NEW X, NEW ss \in Seq(Seq(X))
    PROVE  FlattenSeq(ss) \in Seq(X)
<1>1. <<>> \in Seq(X)
  OBVIOUS
<1>2. Cuts!FlattenSeq(ss) \in Seq(X)
  BY <1>1, Cuts!FlattenOfAppend
<1>3. Cuts!FlattenSeq(ss) = FlattenSeq(ss)
  BY DEF FlattenSeq, Cuts!FlattenSeq
<1> QED BY <1>2, <1>3

LEMMA FlattenOfMore ==
    ASSUME NEW X, NEW ss \in Seq(Seq(X)), NEW t \in Seq(X)
    PROVE  FlattenSeq(Append(ss, t)) = FlattenSeq(ss) \o t
<1>1. Cuts!FlattenSeq(Append(ss, t)) = Cuts!FlattenSeq(ss) \o t
  BY Cuts!FlattenOfAppend
<1>2. \A s : Cuts!FlattenSeq(s) = FlattenSeq(s)
  BY DEF FlattenSeq, Cuts!FlattenSeq
<1> QED BY <1>1, <1>2

LEMMA FlattenOfNothing == FlattenSeq(<<>>) = <<>>
BY DEF FlattenSeq

LEMMA FlattenOfOne ==
    ASSUME NEW X, NEW t \in Seq(X)
    PROVE  FlattenSeq(<<t>>) = t
<1>1. <<>> \in Seq(Seq(X)) /\ Append(<<>>, t) = <<t>> /\ <<>> \o t = t
  OBVIOUS
<1>2. FlattenSeq(Append(<<>>, t)) = FlattenSeq(<<>>) \o t
  BY <1>1, FlattenOfMore
<1> QED BY <1>1, <1>2, FlattenOfNothing

FlattensBoth(L, R) == FlattenSeq(L \o R) = FlattenSeq(L) \o FlattenSeq(R)

\* Flattening (the joining of parts) is taken apart at any place.
LEMMA FlattenOfConcat ==
    ASSUME NEW X, NEW L \in Seq(Seq(X)), NEW R \in Seq(Seq(X))
    PROVE  FlattensBoth(L, R)
<1> DEFINE N == Len(R)
           Part(n) == SubSeq(R, 1, n)
           T == {n \in 0 .. N : FlattensBoth(L, Part(n))}
<1>1. N \in Nat
  OBVIOUS
<1>2. ASSUME NEW n \in 0 .. N PROVE Part(n) \in Seq(Seq(X))
  OBVIOUS
<1>3. 0 \in T
  <2>1. Part(0) = <<>> /\ L \o <<>> = L
    OBVIOUS
  <2>2. FlattenSeq(L) \in Seq(X)
    BY FlattenIs
  <2>3. FlattenSeq(L) \o <<>> = FlattenSeq(L)
    BY <2>2
  <2>4. FlattensBoth(L, <<>>)
    BY <2>1, <2>3, FlattenOfNothing DEF FlattensBoth
  <2> HIDE DEF Part
  <2> QED BY <1>1, <2>1, <2>4
<1>4. ASSUME NEW n \in 0 .. N - 1, n \in T PROVE n + 1 \in T
  <2>1. n + 1 \in 1 .. N /\ n + 1 \in 0 .. N /\ n \in 0 .. N
    BY <1>1
  <2>2. PICK P \in Seq(Seq(X)), t \in Seq(X) : P = Part(n) /\ t = R[n + 1]
    <3>1. R[n + 1] \in Seq(X)
      BY <2>1
    <3> HIDE DEF Part
    <3> QED BY <1>2, <2>1, <3>1
  <2>3. Part(n + 1) = Append(P, t)
    BY <2>1, <2>2
  <2>4. L \o P \in Seq(Seq(X)) /\ L \o Append(P, t) = Append(L \o P, t)
    <3>1. PICK S : S = Seq(X)
      OBVIOUS
    <3>2. L \in Seq(S) /\ P \in Seq(S) /\ t \in S
      BY <2>2, <3>1
    <3>3. PICK one : one = <<t>>
      OBVIOUS
    <3>4. one \in Seq(S) /\ L \o P \in Seq(S)
      BY ONLY <3>2, <3>3
    <3>5. ASSUME NEW s \in Seq(S) PROVE Append(s, t) = s \o one
      BY ONLY <3>2, <3>3, s \in Seq(S)
    <3>6. Append(P, t) = P \o one /\ Append(L \o P, t) = (L \o P) \o one
      BY <3>2, <3>4, <3>5, Zenon
    <3>7. Associates(L, P, one)
      BY <3>2, <3>4, AllAssociate, Zenon
    <3> QED BY <3>1, <3>4, <3>6, <3>7, Zenon DEF Associates
  <2>5. FlattenSeq(L \o Append(P, t)) = FlattenSeq(L \o P) \o t /\ FlattenSeq(Append(P, t)) = FlattenSeq(P) \o t
    BY <2>2, <2>4, FlattenOfMore, Zenon
  <2>6. FlattenSeq(L \o P) = FlattenSeq(L) \o FlattenSeq(P)
    BY <1>4, <2>2 DEF FlattensBoth
  <2>7. (FlattenSeq(L) \o FlattenSeq(P)) \o t = FlattenSeq(L) \o (FlattenSeq(P) \o t)
    <3>1. FlattenSeq(L) \in Seq(X) /\ FlattenSeq(P) \in Seq(X)
      BY FlattenIs
    <3>2. PICK l, p : l = FlattenSeq(L) /\ p = FlattenSeq(P)
      OBVIOUS
    <3>3. l \in Seq(X) /\ p \in Seq(X) /\ t \in Seq(X)
      BY <3>1, <3>2
    <3>4. Associates(l, p, t)
      BY <3>3, AllAssociate, Zenon
    <3> QED BY <3>2, <3>4, Zenon DEF Associates
  <2>8. FlattensBoth(L, Append(P, t))
    BY <2>5, <2>6, <2>7 DEF FlattensBoth
  <2> HIDE DEF Part
  <2> QED BY <2>1, <2>3, <2>8
<1>5. 0 .. N \subseteq T
  <2> HIDE DEF T, N
  <2> QED BY <1>1, <1>3, <1>4, Cuts!IntervalInduction
<1>6. N \in 0 .. N /\ Part(N) = R
  OBVIOUS
<1>7. FlattensBoth(L, Part(N))
  <2> HIDE DEF N, Part
  <2> QED BY <1>5, <1>6
<1> HIDE DEF Part
<1> QED BY <1>6, <1>7

\* The first x, and what stands before it and behind it.
FindsFirst(n, s, x) ==
    \/ n = 0 /\ \A i \in 1 .. Len(s) : s[i] # x
    \/ n \in 1 .. Len(s) /\ s[n] = x /\ \A i \in 1 .. n - 1 : s[i] # x

\* Find is that place, or 0.
LEMMA FindIs ==
    ASSUME NEW X, NEW s \in Seq(X), NEW x
    PROVE  FindsFirst(Find(s, x), s, x)
<1>1. DOMAIN s = 1 .. Len(s) /\ Len(s) \in Nat
  OBVIOUS
<1> DEFINE at == {i \in DOMAIN s : s[i] = x}
<1>2. CASE at = {}
  BY <1>1, <1>2 DEF Find, FindsFirst
<1>3. CASE at # {}
  <2>1. at \in SUBSET Nat
    BY <1>1
  <2>2. PICK m \in at : \A n \in at : m <= n
    <3> HIDE DEF at
    <3> QED BY <1>3, <2>1, Cuts!LeastOfSet
  <2>3. Min(at) = m
    <3> HIDE DEF at
    <3>1. \A n \in at : n \in Nat
      BY <2>1
    <3>2. \A n \in at : (\A y \in at : n =< y) => n = m
      BY <2>2, <3>1
    <3> QED BY <2>2, <3>2 DEF Min
  <2>4. Find(s, x) = m
    BY <1>3, <2>3 DEF Find
  <2>5. m \in 1 .. Len(s) /\ s[m] = x
    BY <1>1
  <2>6. \A i \in 1 .. m - 1 : s[i] # x
    BY <1>1, <2>2, <2>5
  <2> HIDE DEF at
  <2> QED BY <2>4, <2>5, <2>6 DEF FindsFirst
<1> QED BY <1>2, <1>3

\* s is a, the first x, and b.
IsCut(s, a, x, b) ==
    Len(s) = Len(a) + 1 + Len(b) /\ Find(s, x) = Len(a) + 1 /\ Before(s, x) = a /\ After(s, x) = b

\* A text joined by an x, with none in its first part, is cut at that x.
LEMMA FoundAt ==
    ASSUME NEW X, NEW x \in X, NEW a \in Seq(X \ {x}), NEW b \in Seq(X)
    PROVE  a \o (<<x>> \o b) \in Seq(X) /\ IsCut(a \o (<<x>> \o b), a, x, b)
<1>0. PICK s : s = a \o (<<x>> \o b)
  OBVIOUS
<1>1. /\ a \in Seq(X) /\ <<x>> \in Seq(X) /\ Len(<<x>>) = 1 /\ <<x>>[1] = x
      /\ \A i \in 1 .. Len(a) : a[i] # x
  OBVIOUS
<1>2. PICK c : c = <<x>> \o b
  OBVIOUS
<1>3. c \in Seq(X) /\ Len(c) = 1 + Len(b) /\ \A i \in 1 .. 1 : c[i] = <<x>>[i]
  BY <1>1, <1>2, Cuts!ConcatIs
<1>4. PICK p, n : p = Len(a) /\ n = Len(b)
  OBVIOUS
<1>5. p \in Nat /\ n \in Nat
  BY <1>1, <1>4
<1>6. c[1] = x /\ Len(c) = 1 + n
  BY <1>1, <1>3, <1>4
<1>7. /\ s \in Seq(X) /\ Len(s) = p + (1 + n) /\ SubSeq(s, 1, p) = a
      /\ \A i \in 1 .. p : s[i] = a[i]
      /\ \A i \in 1 .. 1 + n : s[p + i] = c[i]
  <2>1. s = a \o c
    BY <1>0, <1>2
  <2>2. a \in Seq(X) /\ c \in Seq(X)
    BY <1>1, <1>3
  <2>3. /\ a \o c \in Seq(X) /\ Len(a \o c) = Len(a) + Len(c)
        /\ SubSeq(a \o c, 1, Len(a)) = a
        /\ \A i \in 1 .. Len(a) : (a \o c)[i] = a[i]
        /\ \A i \in 1 .. Len(c) : (a \o c)[Len(a) + i] = c[i]
    BY <2>2, Parted
  <2> QED BY <1>4, <1>6, <2>1, <2>3
<1>8. s[p + 1] = x /\ p + 1 \in 1 .. Len(s)
  BY <1>5, <1>6, <1>7
<1>9. Find(s, x) = p + 1
  <2>1. PICK f : f = Find(s, x)
    OBVIOUS
  <2>2. \/ f = 0 /\ \A i \in 1 .. Len(s) : s[i] # x
        \/ f \in 1 .. Len(s) /\ s[f] = x /\ \A i \in 1 .. f - 1 : s[i] # x
    BY <1>7, <2>1, FindIs DEF FindsFirst
  <2>3. f \in 1 .. Len(s) /\ s[f] = x /\ \A i \in 1 .. f - 1 : s[i] # x
    BY <1>8, <2>2
  <2>4. ~ f \in 1 .. p
    BY <1>1, <1>4, <1>7, <2>3
  <2>5. ~ p + 1 \in 1 .. f - 1
    BY <1>8, <2>3
  <2>6. f = p + 1
    BY <1>5, <1>7, <2>3, <2>4, <2>5
  <2> QED BY <2>1, <2>6
<1>10. Before(s, x) = a
  <2>1. p + 1 # 0 /\ p + 1 - 1 = p
    BY <1>5
  <2>2. PICK f : f = Find(s, x)
    OBVIOUS
  <2>3. Before(s, x) = IF f = 0 THEN s ELSE SubSeq(s, 1, f - 1)
    BY <2>2 DEF Before
  <2>4. f # 0 /\ f - 1 = p
    BY <1>5, <1>9, <2>1, <2>2
  <2> QED BY <1>7, <2>3, <2>4
<1>11. After(s, x) = b
  <2>1. PICK d : d = a \o <<x>>
    OBVIOUS
  <2>2. d \in Seq(X) /\ Len(d) = p + 1
    BY <1>1, <1>4, <2>1, Cuts!ConcatIs
  <2>3. s = d \o b
    BY <1>0, <1>1, <1>2, <2>1, Cuts!ConcatAssociates
  <2>4. SubSeq(s, p + 1 + 1, Len(s)) = b
    BY <2>2, <2>3, Parted
  <2>5. p + 1 # 0
    BY <1>5
  <2> QED BY <1>9, <2>4, <2>5 DEF After
<1>12. Len(s) = Len(a) + 1 + Len(b)
  BY <1>4, <1>5, <1>7
<1> QED BY <1>0, <1>4, <1>7, <1>9, <1>10, <1>11, <1>12 DEF IsCut

\* Without an x the whole text stands before it.
LEMMA FoundNowhere ==
    ASSUME NEW X, NEW x, NEW s \in Seq(X \ {x})
    PROVE  Find(s, x) = 0 /\ Before(s, x) = s /\ After(s, x) = <<>>
<1>1. \A i \in 1 .. Len(s) : s[i] # x
  OBVIOUS
<1>2. Find(s, x) = 0
  BY <1>1, FindIs DEF FindsFirst
<1> QED BY <1>2 DEF Before, After

\* Nothing is trimmed from a text that begins with another symbol than x.
LEMMA NothingBefore ==
    ASSUME NEW X, NEW s \in Seq(X), s # <<>>, NEW x, s[1] # x
    PROVE  LET kept == {i \in DOMAIN s : s[i] # x}
           IN  kept # {} /\ SubSeq(s, Min(kept), Len(s)) = s
<1> DEFINE kept == {i \in DOMAIN s : s[i] # x}
<1>0. DOMAIN s = 1 .. Len(s) /\ Len(s) \in Nat /\ Len(s) > 0
  OBVIOUS
<1>1. 1 \in kept /\ \A i \in kept : i \in Nat /\ 1 <= i
  BY <1>0
<1>2. Min(kept) = 1
  <2> HIDE DEF kept
  <2>1. \A n \in kept : (\A y \in kept : n =< y) => n = 1
    BY <1>1
  <2> QED BY <1>1, <2>1 DEF Min
<1>3. SubSeq(s, 1, Len(s)) = s
  OBVIOUS
<1> HIDE DEF kept
<1>4. kept # {} /\ SubSeq(s, Min(kept), Len(s)) = s
  BY <1>1, <1>2, <1>3
<1> QED BY <1>4 DEF kept

LEMMA NothingToTrim ==
    ASSUME NEW X, NEW s \in Seq(X), s # <<>>, s[1] # " "
    PROVE  TrimFront(s) = s
<1>1. PICK x : x = " "
  OBVIOUS
<1>2. s[1] # x
  BY <1>1
<1> DEFINE kept == {i \in DOMAIN s : s[i] # x}
<1>3. kept # {} /\ SubSeq(s, Min(kept), Len(s)) = s
  BY <1>2, NothingBefore
<1>4. TrimFront(s) = IF kept = {} THEN <<>> ELSE SubSeq(s, Min(kept), Len(s))
  BY <1>1 DEF TrimFront
<1> HIDE DEF kept
<1> QED BY <1>3, <1>4

LEMMA NothingTrimmed == TrimFront(<<>>) = <<>>
BY DEF TrimFront

\* A word, a space, and what follows it.
LEMMA WordIsTaken ==
    ASSUME NEW X, " " \in X, NEW w \in Seq(X \ {" "}), NEW r \in Seq(X), r # <<>>, r[1] # " "
    PROVE  /\ Token(w \o (<<" ">> \o r)) = w /\ Rest(w \o (<<" ">> \o r)) = r
           /\ Token(w) = w /\ Rest(w) = <<>>
<1>1. PICK s, x : s = w \o (<<" ">> \o r) /\ x = " "
  OBVIOUS
<1>2. x \in X /\ w \in Seq(X \ {x}) /\ s = w \o (<<x>> \o r)
  BY <1>1
<1>3. Before(s, x) = w /\ After(s, x) = r
  <2>1. IsCut(w \o (<<x>> \o r), w, x, r)
    BY <1>2, FoundAt
  <2> QED BY <1>2, <2>1 DEF IsCut
<1>4. TrimFront(r) = r
  BY NothingToTrim
<1>5. Before(w, x) = w /\ After(w, x) = <<>>
  BY <1>2, FoundNowhere
<1> QED BY <1>1, <1>3, <1>4, <1>5, NothingTrimmed DEF Token, Rest

-----------------------------------------------------------------------------
\* What Joined writes.
Glued(items, sep) == [i \in DOMAIN items |-> IF i = 1 THEN items[i] ELSE <<sep>> \o items[i]]

\* The parts that Joined flattens: each item but the first behind a separator.
IsGlue(ps, items, sep) ==
    /\ Len(ps) = Len(items)
    /\ \A i \in 1 .. Len(items) : ps[i] = IF i = 1 THEN items[i] ELSE <<sep>> \o items[i]

LEMMA GluedAre ==
    ASSUME NEW X, NEW sep \in X, NEW items \in Seq(Seq(X))
    PROVE  Glued(items, sep) \in Seq(Seq(X)) /\ IsGlue(Glued(items, sep), items, sep)
<1>1. DOMAIN items = 1 .. Len(items) /\ Len(items) \in Nat
  OBVIOUS
<1>2. ASSUME NEW i \in 1 .. Len(items)
      PROVE  (IF i = 1 THEN items[i] ELSE <<sep>> \o items[i]) \in Seq(X)
  <2>1. items[i] \in Seq(X) /\ <<sep>> \in Seq(X)
    OBVIOUS
  <2>2. <<sep>> \o items[i] \in Seq(X)
    BY <2>1, Cuts!ConcatIs
  <2> QED BY <2>1, <2>2
<1>3. Glued(items, sep) = [i \in 1 .. Len(items) |-> IF i = 1 THEN items[i] ELSE <<sep>> \o items[i]]
  BY <1>1 DEF Glued
<1> QED BY <1>1, <1>2, <1>3 DEF IsGlue

\* Joined texts are a text.
LEMMA JoinedIs ==
    ASSUME NEW X, NEW sep \in X, NEW items \in Seq(Seq(X))
    PROVE  Joined(items, sep) \in Seq(X)
<1>1. Joined(items, sep) = FlattenSeq(Glued(items, sep))
  BY DEF Joined, Glued
<1> QED BY <1>1, GluedAre, FlattenIs

LEMMA JoinedOfNothing ==
    ASSUME NEW sep
    PROVE  Joined(<<>>, sep) = <<>>
<1>1. [i \in DOMAIN <<>> |-> IF i = 1 THEN <<>>[i] ELSE <<sep>> \o <<>>[i]] = <<>>
  OBVIOUS
<1> QED BY <1>1, FlattenOfNothing DEF Joined

LEMMA JoinedOfOne ==
    ASSUME NEW X, NEW sep \in X, NEW t \in Seq(X)
    PROVE  Joined(<<t>>, sep) = t
<1>1. PICK items : items = <<t>>
  OBVIOUS
<1>2. items \in Seq(Seq(X)) /\ Len(items) = 1 /\ items[1] = t
  BY <1>1
<1>3. PICK ps : ps = Glued(items, sep)
  OBVIOUS
<1>4. ps \in Seq(Seq(X)) /\ Len(ps) = 1 /\ ps[1] = t
  <2>1. /\ ps \in Seq(Seq(X)) /\ Len(ps) = Len(items)
        /\ \A i \in 1 .. Len(items) : ps[i] = IF i = 1 THEN items[i] ELSE <<sep>> \o items[i]
    <3>1. items \in Seq(Seq(X))
      BY <1>2
    <3>2. Glued(items, sep) \in Seq(Seq(X)) /\ IsGlue(Glued(items, sep), items, sep)
      BY <3>1, GluedAre
    <3>3. ps \in Seq(Seq(X)) /\ IsGlue(ps, items, sep)
      BY <1>3, <3>2
    <3> QED BY <3>3 DEF IsGlue
  <2>2. 1 \in 1 .. 1
    OBVIOUS
  <2> QED BY <1>2, <2>1, <2>2
<1>5. ps = <<t>>
  BY <1>4
<1>6. Joined(items, sep) = FlattenSeq(ps)
  BY <1>3 DEF Joined, Glued
<1> QED BY <1>1, <1>5, <1>6, FlattenOfOne

\* The first item, a separator, and the joined rest: what inductions on items use.
LEMMA JoinedOfFirst ==
    ASSUME NEW X, NEW sep \in X, NEW t \in Seq(X), NEW rest \in Seq(Seq(X)), rest # <<>>
    PROVE  Joined(<<t>> \o rest, sep) = t \o (<<sep>> \o Joined(rest, sep))
<1>1. PICK N, r1 : N = Len(rest) /\ r1 = rest[1]
  OBVIOUS
<1>2. N \in Nat /\ N > 0 /\ r1 \in Seq(X)
  BY <1>1
<1>3. PICK items, one : one = <<t>> /\ items = <<t>> \o rest
  OBVIOUS
<1>4. one \in Seq(Seq(X)) /\ Len(one) = 1 /\ one[1] = t
  BY <1>3
<1>5. /\ items \in Seq(Seq(X)) /\ Len(items) = 1 + N
      /\ items[1] = t /\ \A i \in 1 .. N : items[1 + i] = rest[i]
  <2>1. /\ items \in Seq(Seq(X)) /\ Len(items) = Len(one) + Len(rest)
        /\ \A i \in 1 .. Len(one) : items[i] = one[i]
        /\ \A i \in 1 .. Len(rest) : items[Len(one) + i] = rest[i]
    BY <1>3, <1>4, Cuts!ConcatIs
  <2> QED BY <1>1, <1>4, <2>1
<1>6. PICK ps, qs : ps = Glued(items, sep) /\ qs = Glued(rest, sep)
  OBVIOUS
<1>7. /\ ps \in Seq(Seq(X)) /\ Len(ps) = 1 + N
      /\ \A i \in 1 .. 1 + N : ps[i] = IF i = 1 THEN items[i] ELSE <<sep>> \o items[i]
  BY <1>5, <1>6, GluedAre DEF IsGlue
<1>8. /\ qs \in Seq(Seq(X)) /\ Len(qs) = N
      /\ \A i \in 1 .. N : qs[i] = IF i = 1 THEN rest[i] ELSE <<sep>> \o rest[i]
  BY <1>1, <1>6, GluedAre DEF IsGlue
<1>9. PICK M : M = [i \in 1 .. N - 1 |-> <<sep>> \o rest[i + 1]]
  OBVIOUS
<1>10. /\ M \in Seq(Seq(X)) /\ Len(M) = N - 1
       /\ \A i \in 1 .. N - 1 : M[i] = <<sep>> \o rest[i + 1]
  <2>1. ASSUME NEW i \in 1 .. N - 1 PROVE <<sep>> \o rest[i + 1] \in Seq(X)
    <3>1. i + 1 \in 1 .. Len(rest)
      BY <1>1, <1>2
    <3>2. rest[i + 1] \in Seq(X) /\ <<sep>> \in Seq(X)
      BY <3>1
    <3> QED BY <3>2, Cuts!ConcatIs
  <2>2. PICK k \in Nat : k = N - 1
    BY <1>2
  <2>3. M = [i \in 1 .. k |-> <<sep>> \o rest[i + 1]]
    BY <1>9, <2>2
  <2>4. \A i \in 1 .. k : <<sep>> \o rest[i + 1] \in Seq(X)
    BY <2>1, <2>2
  <2>5. M \in Seq(Seq(X)) /\ Len(M) = k
    BY <2>3, <2>4
  <2>6. \A i \in 1 .. k : M[i] = <<sep>> \o rest[i + 1]
    BY <2>3
  <2> QED BY <2>2, <2>5, <2>6
<1>11. PICK sr : sr = <<sep>> \o r1
  OBVIOUS
<1>12. sr \in Seq(X)
  <2>1. <<sep>> \in Seq(X)
    OBVIOUS
  <2> QED BY <1>2, <1>11, <2>1, Cuts!ConcatIs
<1>13. qs = <<r1>> \o M
  <2>1. PICK u, o : u = <<r1>> \o M /\ o = <<r1>>
    OBVIOUS
  <2>2. o \in Seq(Seq(X)) /\ Len(o) = 1 /\ o[1] = r1
    BY <1>2, <2>1
  <2>3. /\ u \in Seq(Seq(X)) /\ Len(u) = 1 + (N - 1)
        /\ u[1] = r1 /\ \A i \in 1 .. N - 1 : u[1 + i] = M[i]
    <3>1. /\ u \in Seq(Seq(X)) /\ Len(u) = Len(o) + Len(M)
          /\ \A i \in 1 .. Len(o) : u[i] = o[i]
          /\ \A i \in 1 .. Len(M) : u[Len(o) + i] = M[i]
      BY <1>10, <2>1, <2>2, Cuts!ConcatIs
    <3> QED BY <1>10, <2>2, <3>1
  <2>4. ASSUME NEW i \in 1 .. Len(qs) PROVE qs[i] = u[i]
    <3>1. CASE i = 1
      BY <1>1, <1>8, <2>3, <3>1
    <3>2. CASE i # 1
      <4>1. PICK j \in 1 .. N - 1 : i = 1 + j /\ i = j + 1
        <5>1. i - 1 \in 1 .. N - 1 /\ i = 1 + (i - 1)
          BY <1>2, <1>8, <3>2
        <5> QED BY <5>1
      <4>2. qs[i] = <<sep>> \o rest[i]
        BY <1>8, <3>2
      <4> QED BY <1>10, <2>3, <4>1, <4>2
    <3> QED BY <3>1, <3>2
  <2>5. Len(qs) = Len(u)
    BY <1>2, <1>8, <2>3
  <2>6. qs = u
    BY <1>8, <2>3, <2>4, <2>5, Cuts!SameSequence
  <2> QED BY <2>1, <2>6
<1>14. ps = <<t>> \o (<<sr>> \o M)
  <2>1. PICK o, u, v : o = <<sr>> /\ u = <<sr>> \o M /\ v = <<t>> \o (<<sr>> \o M)
    OBVIOUS
  <2>2. o \in Seq(Seq(X)) /\ Len(o) = 1 /\ o[1] = sr
    BY <1>12, <2>1
  <2>3. /\ u \in Seq(Seq(X)) /\ Len(u) = 1 + (N - 1)
        /\ u[1] = sr /\ \A i \in 1 .. N - 1 : u[1 + i] = M[i]
    <3>1. /\ u \in Seq(Seq(X)) /\ Len(u) = Len(o) + Len(M)
          /\ \A i \in 1 .. Len(o) : u[i] = o[i]
          /\ \A i \in 1 .. Len(M) : u[Len(o) + i] = M[i]
      BY <1>10, <2>1, <2>2, Cuts!ConcatIs
    <3> QED BY <1>10, <2>2, <3>1
  <2>4. /\ v \in Seq(Seq(X)) /\ Len(v) = 1 + (1 + (N - 1))
        /\ v[1] = t /\ \A i \in 1 .. 1 + (N - 1) : v[1 + i] = u[i]
    <3>1. /\ v \in Seq(Seq(X)) /\ Len(v) = Len(one) + Len(u)
          /\ \A i \in 1 .. Len(one) : v[i] = one[i]
          /\ \A i \in 1 .. Len(u) : v[Len(one) + i] = u[i]
      BY <1>3, <1>4, <2>1, <2>3, Cuts!ConcatIs
    <3> QED BY <1>4, <2>3, <3>1
  <2>5. ASSUME NEW i \in 1 .. Len(ps) PROVE ps[i] = v[i]
    <3>1. CASE i = 1
      BY <1>5, <1>7, <2>4, <3>1
    <3>2. CASE i # 1
      <4>1. PICK j \in 1 .. N : i = 1 + j
        <5>1. i - 1 \in 1 .. N /\ i = 1 + (i - 1)
          BY <1>2, <1>7, <3>2
        <5> QED BY <5>1
      <4>2. ps[i] = <<sep>> \o rest[j]
        BY <1>5, <1>7, <3>2, <4>1
      <4>3. j \in 1 .. 1 + (N - 1)
        BY <1>2
      <4>4. v[i] = u[j]
        BY <2>4, <4>1, <4>3
      <4>5. u[j] = <<sep>> \o rest[j]
        <5>1. CASE j = 1
          BY <1>1, <1>11, <2>3, <5>1
        <5>2. CASE j # 1
          <6>1. PICK k \in 1 .. N - 1 : j = 1 + k /\ j = k + 1
            <7>1. j - 1 \in 1 .. N - 1 /\ j = 1 + (j - 1)
              BY <1>2, <5>2
            <7> QED BY <7>1
          <6> QED BY <1>10, <2>3, <6>1
        <5> QED BY <5>1, <5>2
      <4> QED BY <4>2, <4>4, <4>5
    <3> QED BY <3>1, <3>2
  <2>6. Len(ps) = Len(v)
    BY <1>2, <1>7, <2>4
  <2>7. ps = v
    <3>1. PICK S : S = Seq(X)
      OBVIOUS
    <3>2. ps \in Seq(S) /\ v \in Seq(S)
      BY <1>7, <2>4, <3>1
    <3> QED BY <2>5, <2>6, <3>2, Cuts!SameSequence
  <2> QED BY <2>1, <2>7
<1>15. PICK f : f = FlattenSeq(M)
  OBVIOUS
<1>16. f \in Seq(X)
  BY <1>10, <1>15, FlattenIs
<1>17. Joined(rest, sep) = r1 \o f
  <2>1. Joined(rest, sep) = FlattenSeq(qs)
    BY <1>6 DEF Joined, Glued
  <2>2. <<r1>> \in Seq(Seq(X))
    BY <1>2
  <2>3. FlattensBoth(<<r1>>, M)
    BY <1>10, <2>2, FlattenOfConcat
  <2>4. FlattenSeq(<<r1>>) = r1
    BY <1>2, FlattenOfOne
  <2> QED BY <1>13, <1>15, <2>1, <2>3, <2>4 DEF FlattensBoth
<1>18. Joined(items, sep) = t \o (sr \o f)
  <2>1. Joined(items, sep) = FlattenSeq(ps)
    BY <1>6 DEF Joined, Glued
  <2>2. <<sr>> \in Seq(Seq(X))
    BY <1>12
  <2>3. <<sr>> \o M \in Seq(Seq(X))
    BY <1>10, <2>2, Cuts!ConcatIs
  <2>4. FlattensBoth(<<sr>>, M)
    BY <1>10, <2>2, FlattenOfConcat
  <2>5. FlattensBoth(<<t>>, <<sr>> \o M)
    BY <1>3, <1>4, <2>3, FlattenOfConcat
  <2>6. FlattenSeq(<<sr>>) = sr /\ FlattenSeq(<<t>>) = t
    BY <1>12, FlattenOfOne
  <2> QED BY <1>14, <1>15, <2>1, <2>4, <2>5, <2>6 DEF FlattensBoth
<1>19. sr \o f = <<sep>> \o (r1 \o f)
  <2>1. <<sep>> \in Seq(X)
    OBVIOUS
  <2> QED BY <1>2, <1>11, <1>16, <2>1, Cuts!ConcatAssociates
<1> QED BY <1>3, <1>17, <1>18, <1>19

-----------------------------------------------------------------------------
\* The parts of a text stay texts.
LEMMA BeforeIs ==
    ASSUME NEW X, NEW s \in Seq(X), NEW x
    PROVE  /\ Before(s, x) \in Seq(X) /\ Len(Before(s, x)) \in 0 .. Len(s)
           /\ After(s, x) \in Seq(X) /\ Len(After(s, x)) \in 0 .. Len(s)
           /\ s # <<>> => Len(After(s, x)) < Len(s)
<1>1. PICK f, N : f = Find(s, x) /\ N = Len(s)
  OBVIOUS
<1>2. N \in Nat /\ (f = 0 \/ f \in 1 .. N)
  BY <1>1, FindIs DEF FindsFirst
<1>3. s # <<>> => N > 0
  BY <1>1
<1>4. CASE f = 0
  <2>1. Before(s, x) = s /\ After(s, x) = <<>>
    BY <1>1, <1>4 DEF Before, After
  <2>2. <<>> \in Seq(X) /\ Len(<<>>) = 0
    OBVIOUS
  <2> QED BY <1>1, <1>2, <1>3, <2>1, <2>2
<1>5. CASE f \in 1 .. N
  <2>1. f # 0
    BY <1>2, <1>5
  <2>2. Before(s, x) = SubSeq(s, 1, f - 1) /\ After(s, x) = SubSeq(s, f + 1, N)
    BY <1>1, <2>1 DEF Before, After
  <2>3. /\ SubSeq(s, 1, f - 1) \in Seq(X) /\ Len(SubSeq(s, 1, f - 1)) = f - 1
        /\ SubSeq(s, f + 1, N) \in Seq(X) /\ Len(SubSeq(s, f + 1, N)) = N - f
    BY <1>1, <1>5, Cuts!CutAt
  <2>4. f - 1 \in 0 .. N /\ N - f \in 0 .. N /\ N - f < N
    BY <1>2, <1>5
  <2> QED BY <1>1, <2>2, <2>3, <2>4
<1> QED BY <1>2, <1>4, <1>5

\* A suffix, symbol by symbol.
LEMMA SuffixIs ==
    ASSUME NEW X, NEW s \in Seq(X), NEW i \in 1 .. Len(s) + 1
    PROVE  /\ SubSeq(s, i, Len(s)) \in Seq(X) /\ Len(SubSeq(s, i, Len(s))) = Len(s) - i + 1
           /\ \A k \in 1 .. Len(s) - i + 1 : SubSeq(s, i, Len(s))[k] = s[i + k - 1]
<1>1. Len(s) \in Nat
  OBVIOUS
<1>2. ASSUME NEW k \in 1 .. Len(s) - i + 1 PROVE i + k - 1 \in 1 .. Len(s)
  BY <1>1
<1>3. SubSeq(s, i, Len(s)) = [k \in 1 .. Len(s) - i + 1 |-> s[i + k - 1]]
  BY <1>1
<1>4. SubSeq(s, i, Len(s)) \in Seq(X) /\ Len(SubSeq(s, i, Len(s))) = Len(s) - i + 1
  BY <1>1
<1> QED BY <1>3, <1>4

\* What follows the first of several parts is where that part ends.
TailAt(s, i, t) == i \in 1 .. Len(s) + 1 /\ SubSeq(s, i, Len(s)) = t

LEMMA SuffixBehind ==
    ASSUME NEW X, NEW s \in Seq(X), NEW a \in Seq(X), NEW x \in X, NEW b \in Seq(X),
           NEW i, TailAt(s, i, a \o (<<x>> \o b))
    PROVE  /\ i <= Len(s) /\ i + Len(a) + 1 = Len(s) + 1 - Len(b)
           /\ TailAt(s, i + Len(a) + 1, b)
<1>0. i \in 1 .. Len(s) + 1 /\ SubSeq(s, i, Len(s)) = a \o (<<x>> \o b)
  BY DEF TailAt
<1>1. PICK N, p, n, r : N = Len(s) /\ p = Len(a) /\ n = Len(b) /\ r = SubSeq(s, i, Len(s))
  OBVIOUS
<1>2. N \in Nat /\ p \in Nat /\ n \in Nat /\ i \in 1 .. N + 1
  BY <1>0, <1>1
<1>3. /\ r \in Seq(X) /\ Len(r) = N - i + 1
      /\ \A k \in 1 .. Len(r) : r[k] = s[i + k - 1]
  BY <1>0, <1>1, SuffixIs
<1>4. PICK d : d = a \o <<x>>
  OBVIOUS
<1>5. d \in Seq(X) /\ Len(d) = p + 1
  BY <1>1, <1>4
<1>6. r = d \o b
  <2>1. a \in Seq(X) /\ <<x>> \in Seq(X) /\ b \in Seq(X)
    OBVIOUS
  <2>2. (a \o <<x>>) \o b = a \o (<<x>> \o b)
    BY <2>1
  <2> QED BY <1>0, <1>1, <1>4, <2>2
<1>7. Len(r) = p + 1 + n /\ \A k \in 1 .. n : r[p + 1 + k] = b[k]
  <2>1. d \in Seq(X) /\ b \in Seq(X)
    BY <1>5
  <2>2. Len(d \o b) = Len(d) + Len(b) /\ \A k \in 1 .. Len(b) : (d \o b)[Len(d) + k] = b[k]
    BY <2>1, Cuts!ConcatIs
  <2> QED BY <1>1, <1>5, <1>6, <2>2
<1>8. /\ i <= N /\ i + p + 1 \in 1 .. N + 1
      /\ i + p + 1 = N + 1 - n
  BY <1>2, <1>3, <1>7
<1>9. PICK j : j = i + p + 1
  OBVIOUS
<1>10. PICK u : u = SubSeq(s, j, N)
  OBVIOUS
<1>11. j \in 1 .. N + 1 /\ N - j + 1 = n
  BY <1>2, <1>8, <1>9
<1>12. /\ u \in Seq(X) /\ Len(u) = n
       /\ \A k \in 1 .. Len(u) : u[k] = s[j + k - 1]
  <2>1. j \in 1 .. Len(s) + 1 /\ u = SubSeq(s, j, Len(s))
    BY <1>1, <1>10, <1>11
  <2>2. /\ u \in Seq(X) /\ Len(u) = Len(s) - j + 1
        /\ \A k \in 1 .. Len(s) - j + 1 : u[k] = s[j + k - 1]
    BY <2>1, SuffixIs
  <2> QED BY <1>1, <1>11, <2>2
<1>13. ASSUME NEW k \in 1 .. Len(u) PROVE u[k] = b[k]
  <2>1. k \in 1 .. n /\ p + 1 + k \in 1 .. Len(r) /\ i + (p + 1 + k) - 1 = j + k - 1
    <3>1. k \in 1 .. n
      BY <1>12
    <3>2. i \in Nat
      BY <1>2
    <3> QED BY <1>2, <1>7, <1>9, <3>1, <3>2
  <2>2. r[p + 1 + k] = s[i + (p + 1 + k) - 1]
    BY <1>3, <2>1
  <2> QED BY <1>7, <1>12, <2>1, <2>2
<1>14. u = b
  BY <1>1, <1>12, <1>13, Cuts!SameSequence
<1> QED BY <1>1, <1>8, <1>9, <1>10, <1>14 DEF TailAt

HasFirst(s, X) == \E x \in X, rest \in Seq(X) : s = <<x>> \o rest /\ Len(s) = Len(rest) + 1

\* A text that is not empty has a first symbol.
LEMMA FirstOne ==
    ASSUME NEW X, NEW s \in Seq(X), s # <<>>
    PROVE  HasFirst(s, X)
<1>1. PICK x, rest : x = Head(s) /\ rest = Tail(s)
  OBVIOUS
<1>2. x \in X /\ rest \in Seq(X) /\ s = <<x>> \o rest /\ Len(s) = Len(rest) + 1
  BY <1>1
<1> QED BY <1>2 DEF HasFirst

-----------------------------------------------------------------------------
\* Split, from each start on.
ItemAt(s, start, d) == Before(SubSeq(s, start, Len(s)), d)
NextAt(s, start, d) == start + Len(ItemAt(s, start, d)) + 1

\* The items from each start on: an empty one is left out, as split does.
SplitSteps(from, s, d) ==
    \A start \in 1 .. Len(s) + 2 :
        from[start] = IF start > Len(s) THEN <<>>
                      ELSE IF ItemAt(s, start, d) = <<>> THEN from[NextAt(s, start, d)]
                      ELSE <<ItemAt(s, start, d)>> \o from[NextAt(s, start, d)]

\* Split computes them from the end to the beginning.
LEMMA SplitRuns ==
    ASSUME NEW X, NEW s \in Seq(X), NEW d
    PROVE  \E from : SplitSteps(from, s, d) /\ Split(s, d) = from[1]
<1> DEFINE N == Len(s)
           D == 1 .. N + 2
           V == Seq(Seq(X))
           Item(i) == Before(SubSeq(s, i, Len(s)), d)
           Next(i) == i + Len(Item(i)) + 1
           Value(i, f) == IF i > Len(s) THEN <<>>
                          ELSE IF Item(i) = <<>> THEN f[Next(i)] ELSE <<Item(i)>> \o f[Next(i)]
           measure == [i \in D |-> N + 2 - i]
           Step == [p \in D \X [D -> V] |-> Value(p[1], p[2])]
           Eq(f) == f = [i \in D |-> Value(i, f)]
           g == CHOOSE f : Eq(f)
<1>1. N \in Nat /\ <<>> \in V
  OBVIOUS
<1>2. N + 2 \in Nat /\ measure \in [D -> 0 .. N + 2]
  BY <1>1
<1>3. Split(s, d) = g[1]
  BY DEF Split
<1>4. ASSUME NEW i \in D, ~ i > Len(s)
      PROVE  Next(i) \in D /\ i < Next(i) /\ Item(i) \in Seq(X)
  <2>1. PICK r : r = SubSeq(s, i, Len(s))
    OBVIOUS
  <2>2. r \in Seq(X) /\ Len(r) = N - i + 1
    BY <1>1, <1>4, <2>1
  <2>3. PICK t : t = Item(i)
    OBVIOUS
  <2>4. t \in Seq(X) /\ Len(t) \in 0 .. Len(r)
    BY <2>1, <2>2, <2>3, BeforeIs
  <2>5. i \in 1 .. N + 2 /\ ~ i > N
    BY <1>4
  <2>6. i + Len(t) + 1 \in 1 .. N + 2 /\ i < i + Len(t) + 1
    BY <1>1, <2>2, <2>4, <2>5
  <2> HIDE DEF Item
  <2> QED BY <2>3, <2>4, <2>6
<1>5. ASSUME NEW i \in D, NEW f \in [D -> V] PROVE Value(i, f) \in V
  <2> HIDE DEF D, V, Next, Item
  <2>1. CASE ~ i > Len(s)
    <3>1. f[Next(i)] \in V /\ Item(i) \in Seq(X)
      BY <1>4, <2>1
    <3>2. PICK t \in Seq(X), ts \in Seq(Seq(X)) : t = Item(i) /\ ts = f[Next(i)]
      BY <3>1 DEF V
    <3>3. <<t>> \o ts \in Seq(Seq(X))
      OBVIOUS
    <3>4. Value(i, f) = IF t = <<>> THEN ts ELSE <<t>> \o ts
      BY <2>1, <3>2
    <3> HIDE DEF Value
    <3> QED BY <3>3, <3>4 DEF V
  <2> QED BY <1>1, <2>1
<1>6. /\ Step \in [D \X [D -> V] -> V]
      /\ \A i \in D : \A f \in [D -> V] : Step[<<i, f>>] = Value(i, f)
  <2> HIDE DEF Value, D, V
  <2> QED BY <1>5
<1>7. Cuts!LooksBelow(D, V, measure, Step)
  <2>1. ASSUME NEW i \in D, NEW f \in [D -> V], NEW h \in [D -> V],
               \A j \in D : measure[j] < measure[i] => f[j] = h[j]
        PROVE  Step[<<i, f>>] = Step[<<i, h>>]
    <3>1. ~ i > Len(s) => f[Next(i)] = h[Next(i)]
      <4>1. SUFFICES ASSUME ~ i > Len(s) PROVE f[Next(i)] = h[Next(i)]
        OBVIOUS
      <4>2. PICK j \in D : j = Next(i) /\ i < j
        BY <1>4, <4>1
      <4>3. measure[j] < measure[i]
        BY <1>1, <4>2
      <4> HIDE DEF D, V, measure, Step, Next
      <4> QED BY <2>1, <4>2, <4>3
    <3>2. Value(i, f) = Value(i, h)
      <4> HIDE DEF D, V, measure, Step, Next, Item
      <4> QED BY <3>1
    <3> HIDE DEF D, V, Value, measure, Step
    <3> QED BY <1>6, <3>2
  <2> HIDE DEF D, V, Value, measure, Step
  <2> QED BY <2>1 DEF Cuts!LooksBelow
<1>8. PICK f \in [D -> V] : Cuts!Solves(f, D, Step)
  <2> DEFINE M == N + 2
  <2>1. M \in Nat /\ measure \in [D -> 0 .. M]
    BY <1>2
  <2> HIDE DEF D, V, measure, Step, N, M
  <2> QED BY <1>1, <1>6, <1>7, <2>1, Cuts!Recursion
<1>9. Eq(g)
  <2>1. f = [i \in D |-> Value(i, f)]
    <3> HIDE DEF D, V, Value, Step
    <3> QED BY <1>6, <1>8 DEF Cuts!Solves
  <2>2. Eq(f)
    BY <2>1
  <2> HIDE DEF Eq
  <2> QED BY <2>2
<1> HIDE DEF g
<1>10. \A i \in D : g[i] = Value(i, g)
  <2> HIDE DEF Value, D
  <2> QED BY <1>9
<1>11. SplitSteps(g, s, d)
  BY <1>10 DEF SplitSteps, ItemAt, NextAt
<1> QED BY <1>3, <1>11

\* Where joined items stand at the end of a text, they are split from there.
SplitsFrom(from, s, i, items, d) ==
    i <= Len(s) + 1 /\ SubSeq(s, i, Len(s)) = Joined(items, d) => from[i] = items

\* Splitting undoes joining: split finds the items of joined again, of any number and
\* length, as long as none is empty or holds the delimiter.
THEOREM SplitOfJoined ==
    ASSUME NEW X, NEW d \in X, NEW items \in Seq(Seq(X \ {d}) \ {<<>>})
    PROVE  Split(Joined(items, d), d) = items
<1> DEFINE I == Seq(X \ {d}) \ {<<>>}
<1>1. I \subseteq Seq(X) /\ Seq(I) \subseteq Seq(Seq(X)) /\ items \in Seq(I)
  OBVIOUS
<1>2. PICK s : s = Joined(items, d)
  OBVIOUS
<1>3. s \in Seq(X)
  BY <1>1, <1>2, JoinedIs
<1>4. PICK from : SplitSteps(from, s, d) /\ Split(s, d) = from[1]
  BY <1>3, SplitRuns
<1>5. PICK N : N = Len(s)
  OBVIOUS
<1>6. N \in Nat
  BY <1>3, <1>5
<1> HIDE DEF I
<1> DEFINE T == {m \in 0 .. Len(items) : \A its \in Seq(I) : Len(its) = m =>
                    \A i \in 1 .. N + 2 : SplitsFrom(from, s, i, its, d)}
<1>7. 0 \in T
  <2>1. ASSUME NEW its \in Seq(I), Len(its) = 0, NEW i \in 1 .. N + 2, i <= N + 1,
               SubSeq(s, i, N) = Joined(its, d)
        PROVE  from[i] = its
    <3>1. its = <<>>
      BY <2>1
    <3>2. SubSeq(s, i, N) = <<>>
      BY <2>1, <3>1, JoinedOfNothing
    <3>3. i > N
      <4>1. i \in 1 .. Len(s) + 1
        BY <1>5, <1>6, <2>1
      <4>2. Len(SubSeq(s, i, Len(s))) = Len(s) - i + 1
        BY <1>3, <4>1, SuffixIs
      <4>3. N - i + 1 = 0
        BY <1>5, <3>2, <4>2
      <4> QED BY <1>6, <2>1, <4>3
    <3> QED BY <1>4, <1>5, <3>1, <3>3 DEF SplitSteps
  <2>2. 0 \in 0 .. Len(items)
    OBVIOUS
  <2> QED BY <1>5, <2>1, <2>2 DEF SplitsFrom
<1>8. ASSUME NEW m \in 0 .. Len(items) - 1, m \in T PROVE m + 1 \in T
  <2>1. ASSUME NEW its \in Seq(I), Len(its) = m + 1, NEW i \in 1 .. N + 2, i <= N + 1,
               SubSeq(s, i, N) = Joined(its, d)
        PROVE  from[i] = its
    <3>1. its # <<>>
      BY <2>1
    <3>2. PICK c \in I, rest \in Seq(I) : its = <<c>> \o rest /\ Len(its) = Len(rest) + 1
      <4>1. HasFirst(its, I)
        BY <3>1, FirstOne
      <4> QED BY <4>1 DEF HasFirst
    <3>3. Len(rest) = m
      <4>1. Len(rest) \in Nat
        OBVIOUS
      <4> QED BY <2>1, <3>2, <4>1
    <3>4. c \in Seq(X \ {d}) /\ c \in Seq(X) /\ c # <<>>
      BY DEF I
    <3>5. CASE rest = <<>>
      <4>1. its = <<c>>
        BY <3>2, <3>5
      <4>2. SubSeq(s, i, N) = c
        BY <2>1, <3>4, <4>1, JoinedOfOne
      <4>3. ItemAt(s, i, d) = c
        <5>1. Before(c, d) = c
          BY <3>4, FoundNowhere
        <5> QED BY <1>5, <4>2, <5>1, Zenon DEF ItemAt
      <4>4. Len(c) = N - i + 1 /\ i <= N /\ Len(c) \in Nat
        <5>1. Len(c) \in Nat /\ Len(c) > 0
          BY <3>4
        <5>2. Len(SubSeq(s, i, N)) = N - i + 1
          <6>1. i \in 1 .. Len(s) + 1
            BY <1>5, <1>6, <2>1
          <6> QED BY <1>3, <1>5, <6>1, SuffixIs
        <5> QED BY <1>6, <2>1, <4>2, <5>1, <5>2
      <4>5. NextAt(s, i, d) = N + 2
        BY <1>6, <2>1, <4>3, <4>4 DEF NextAt
      <4>6. N + 2 \in 1 .. N + 2 /\ N + 2 > N /\ ~ i > N
        BY <1>6, <2>1, <4>4
      <4>7. from[N + 2] = <<>>
        BY <1>4, <1>5, <4>6 DEF SplitSteps
      <4>8. from[i] = <<c>> \o <<>>
        BY <1>4, <1>5, <2>1, <3>4, <4>3, <4>5, <4>6, <4>7 DEF SplitSteps
      <4> QED BY <4>1, <4>8
    <3>6. CASE rest # <<>>
      <4>1. rest \in Seq(Seq(X))
        BY <1>1
      <4>2. PICK J \in Seq(X) : J = Joined(rest, d)
        BY <4>1, JoinedIs
      <4>3. SubSeq(s, i, N) = c \o (<<d>> \o J)
        BY <2>1, <3>2, <3>4, <3>6, <4>1, <4>2, JoinedOfFirst
      <4>4. ItemAt(s, i, d) = c
        <5>1. IsCut(c \o (<<d>> \o J), c, d, J)
          BY <3>4, FoundAt
        <5> QED BY <1>5, <4>3, <5>1 DEF ItemAt, IsCut
      <4>5. i \in 1 .. Len(s) + 1 /\ SubSeq(s, i, Len(s)) = c \o (<<d>> \o J)
        BY <1>5, <1>6, <2>1, <4>3
      <4>6. PICK j : j = i + Len(c) + 1
        OBVIOUS
      <4>7. i <= N /\ j \in 1 .. N + 1 /\ SubSeq(s, j, N) = J
        <5>1. s \in Seq(X) /\ c \in Seq(X)
          BY <1>3, <3>4
        <5>2. TailAt(s, i, c \o (<<d>> \o J))
          BY <4>5 DEF TailAt
        <5>3. i <= Len(s) /\ TailAt(s, i + Len(c) + 1, J)
          <6> HIDE DEF T
          <6> QED BY <5>1, <5>2, SuffixBehind
        <5> QED BY <1>5, <4>6, <5>3 DEF TailAt
      <4>8. NextAt(s, i, d) = j
        BY <4>4, <4>6 DEF NextAt
      <4>9. j \in 1 .. N + 2 /\ j <= N + 1 /\ ~ i > N
        BY <1>6, <2>1, <4>7
      <4>10. from[j] = rest
        <5>1. SplitsFrom(from, s, j, rest, d)
          BY <1>8, <3>3, <4>9
        <5> QED BY <1>5, <4>2, <4>7, <4>9, <5>1 DEF SplitsFrom
      <4>11. from[i] = <<c>> \o rest
        BY <1>4, <1>5, <2>1, <3>4, <4>4, <4>8, <4>9, <4>10 DEF SplitSteps
      <4> QED BY <3>2, <4>11
    <3> QED BY <3>5, <3>6
  <2>2. m + 1 \in 0 .. Len(items)
    OBVIOUS
  <2> QED BY <1>5, <2>1, <2>2 DEF SplitsFrom
<1>9. Len(items) \in T
  <2>1. Len(items) \in Nat
    OBVIOUS
  <2>2. 0 .. Len(items) \subseteq T
    <3> HIDE DEF T
    <3> QED BY <1>7, <1>8, <2>1, Cuts!IntervalInduction
  <2> HIDE DEF T
  <2> QED BY <2>1, <2>2
<1>10. SplitsFrom(from, s, 1, items, d)
  <2>1. 1 \in 1 .. N + 2
    BY <1>6
  <2> QED BY <1>1, <1>9, <2>1
<1>11. from[1] = items
  <2>1. SubSeq(s, 1, Len(s)) = s /\ 1 <= Len(s) + 1
    BY <1>3
  <2> QED BY <1>2, <1>10, <2>1 DEF SplitsFrom
<1> QED BY <1>2, <1>4, <1>11

-----------------------------------------------------------------------------
\* Tag values.  X is any alphabet with the symbols the format knows.
Specials == {"@", " ", ":", ";", "=", "!", "\\", "s", "r", "n", "CR", "LF"}

Breaks == {" ", ";", "CR", "LF"}    \* what no tag value may hold as it is

\* What escapeTagValue writes for a symbol and unescapeTagValue reads for the one
\* behind a backslash; EscapesTo says that the second undoes the first.
Escaped(x) ==
    CASE x = ";"  -> <<"\\", ":">>
      [] x = " "  -> <<"\\", "s">>
      [] x = "\\" -> <<"\\", "\\">>
      [] x = "CR" -> <<"\\", "r">>
      [] x = "LF" -> <<"\\", "n">>
      [] OTHER    -> <<x>>

Unescaped(x) == IF x \in DOMAIN UnescapeTable THEN UnescapeTable[x] ELSE x

EscapesTo(e, x) == \/ e = <<x>> /\ x # "\\"
                   \/ \E y : e = <<"\\", y>> /\ Unescaped(y) = x

\* No escape holds a symbol that would end the tag, and each is undone.
LEMMA EscapedIs ==
    ASSUME NEW X, Specials \subseteq X, NEW x \in X
    PROVE  Escaped(x) \in Seq(X \ Breaks) /\ EscapesTo(Escaped(x), x)
<1>1. {"\\", ":", "s", "r", "n"} \subseteq X \ Breaks
  BY DEF Specials, Breaks
<1>2. ASSUME NEW y \in X \ Breaks, NEW z \in X \ Breaks
      PROVE  <<y, z>> \in Seq(X \ Breaks) /\ <<y>> \in Seq(X \ Breaks)
  <2>1. PICK Y : Y = X \ Breaks
    OBVIOUS
  <2>2. y \in Y /\ z \in Y
    BY <2>1
  <2>3. <<y, z>> \in Seq(Y) /\ <<y>> \in Seq(Y)
    BY <2>2
  <2> QED BY <2>1, <2>3
<1>3. /\ Unescaped(":") = ";" /\ Unescaped("s") = " " /\ Unescaped("\\") = "\\"
      /\ Unescaped("r") = "CR" /\ Unescaped("n") = "LF"
  BY DEF Unescaped, UnescapeTable
<1>4. CASE x = ";"
  <2>1. Escaped(x) = <<"\\", ":">>
    BY <1>4 DEF Escaped
  <2> QED BY <1>1, <1>2, <1>3, <1>4, <2>1 DEF EscapesTo
<1>5. CASE x = " "
  <2>1. Escaped(x) = <<"\\", "s">>
    BY <1>5 DEF Escaped
  <2> QED BY <1>1, <1>2, <1>3, <1>5, <2>1 DEF EscapesTo
<1>6. CASE x = "\\"
  <2>1. Escaped(x) = <<"\\", "\\">>
    BY <1>6 DEF Escaped
  <2> QED BY <1>1, <1>2, <1>3, <1>6, <2>1 DEF EscapesTo
<1>7. CASE x = "CR"
  <2>1. Escaped(x) = <<"\\", "r">>
    BY <1>7 DEF Escaped
  <2> QED BY <1>1, <1>2, <1>3, <1>7, <2>1 DEF EscapesTo
<1>8. CASE x = "LF"
  <2>1. Escaped(x) = <<"\\", "n">>
    BY <1>8 DEF Escaped
  <2> QED BY <1>1, <1>2, <1>3, <1>8, <2>1 DEF EscapesTo
<1>9. CASE x \notin {";", " ", "\\", "CR", "LF"}
  <2>1. Escaped(x) = <<x>>
    BY <1>9 DEF Escaped
  <2>2. x \in X \ Breaks
    BY <1>9 DEF Breaks
  <2> QED BY <1>2, <1>9, <2>1, <2>2 DEF EscapesTo
<1> QED BY <1>4, <1>5, <1>6, <1>7, <1>8, <1>9

EscapedParts(v) == [i \in DOMAIN v |-> Escaped(v[i])]

LEMMA EscapedPartsAre ==
    ASSUME NEW X, Specials \subseteq X, NEW v \in Seq(X)
    PROVE  /\ EscapedParts(v) \in Seq(Seq(X \ Breaks)) /\ Len(EscapedParts(v)) = Len(v)
           /\ \A i \in 1 .. Len(v) : EscapedParts(v)[i] = Escaped(v[i])
<1>1. DOMAIN v = 1 .. Len(v) /\ Len(v) \in Nat
  OBVIOUS
<1>2. PICK Y, parts : Y = X \ Breaks /\ parts = EscapedParts(v)
  OBVIOUS
<1>3. ASSUME NEW i \in 1 .. Len(v) PROVE Escaped(v[i]) \in Seq(Y)
  <2>1. v[i] \in X
    OBVIOUS
  <2> QED BY <1>2, <2>1, EscapedIs
<1>4. parts = [i \in 1 .. Len(v) |-> Escaped(v[i])]
  BY <1>1, <1>2 DEF EscapedParts
<1>5. parts \in Seq(Seq(Y)) /\ Len(parts) = Len(v)
  BY <1>1, <1>3, <1>4
<1>6. \A i \in 1 .. Len(v) : parts[i] = Escaped(v[i])
  BY <1>4
<1> QED BY <1>2, <1>5, <1>6

\* Nor does an escaped value.
LEMMA EscapeIs ==
    ASSUME NEW X, Specials \subseteq X, NEW v \in Seq(X)
    PROVE  EscapeTagValue(v) \in Seq(X \ Breaks)
<1>1. EscapeTagValue(v) = FlattenSeq(EscapedParts(v))
  BY DEF EscapeTagValue, EscapedParts, Escaped
<1> QED BY <1>1, EscapedPartsAre, FlattenIs

EscapesBoth(L, R) == EscapeTagValue(L \o R) = EscapeTagValue(L) \o EscapeTagValue(R)

\* Two values are escaped one after the other.
LEMMA EscapeOfConcat ==
    ASSUME NEW X, Specials \subseteq X, NEW L \in Seq(X), NEW R \in Seq(X)
    PROVE  EscapesBoth(L, R)
<1>1. \A v : EscapeTagValue(v) = FlattenSeq(EscapedParts(v))
  BY DEF EscapeTagValue, EscapedParts, Escaped
<1>2. PICK Y, l, r, b, v : /\ Y = X \ Breaks /\ l = EscapedParts(L) /\ r = EscapedParts(R)
                          /\ v = L \o R /\ b = EscapedParts(v)
  OBVIOUS
<1>3. /\ v \in Seq(X) /\ Len(v) = Len(L) + Len(R)
      /\ \A i \in 1 .. Len(L) : v[i] = L[i]
      /\ \A i \in 1 .. Len(R) : v[Len(L) + i] = R[i]
  BY <1>2, Cuts!ConcatIs
<1>4. l \in Seq(Seq(Y)) /\ Len(l) = Len(L) /\ \A i \in 1 .. Len(L) : l[i] = Escaped(L[i])
  BY <1>2, EscapedPartsAre
<1>5. r \in Seq(Seq(Y)) /\ Len(r) = Len(R) /\ \A i \in 1 .. Len(R) : r[i] = Escaped(R[i])
  BY <1>2, EscapedPartsAre
<1>6. b \in Seq(Seq(Y)) /\ Len(b) = Len(v) /\ \A i \in 1 .. Len(v) : b[i] = Escaped(v[i])
  BY <1>2, <1>3, EscapedPartsAre
<1>7. PICK u : u = l \o r
  OBVIOUS
<1>8. /\ u \in Seq(Seq(Y)) /\ Len(u) = Len(L) + Len(R)
      /\ \A i \in 1 .. Len(L) : u[i] = l[i]
      /\ \A i \in 1 .. Len(R) : u[Len(L) + i] = r[i]
  <2>1. l \in Seq(Seq(Y)) /\ r \in Seq(Seq(Y))
    BY <1>4, <1>5
  <2>2. /\ u \in Seq(Seq(Y)) /\ Len(u) = Len(l) + Len(r)
        /\ \A i \in 1 .. Len(l) : u[i] = l[i]
        /\ \A i \in 1 .. Len(r) : u[Len(l) + i] = r[i]
    BY <1>7, <2>1, Cuts!ConcatIs
  <2> QED BY <1>4, <1>5, <2>2
<1>9. Len(L) \in Nat /\ Len(R) \in Nat
  OBVIOUS
<1>10. ASSUME NEW i \in 1 .. Len(b) PROVE b[i] = u[i]
  <2>1. b[i] = Escaped(v[i])
    BY <1>6
  <2>2. CASE i \in 1 .. Len(L)
    BY <1>3, <1>4, <1>8, <2>1, <2>2
  <2>3. CASE i \notin 1 .. Len(L)
    <3>1. PICK j \in 1 .. Len(R) : i = Len(L) + j
      <4>1. i - Len(L) \in 1 .. Len(R) /\ i = Len(L) + (i - Len(L))
        BY <1>3, <1>6, <1>9, <2>3
      <4> QED BY <4>1
    <3> QED BY <1>3, <1>5, <1>8, <2>1, <3>1
  <2> QED BY <2>2, <2>3
<1>11. b = u
  <2>1. Len(b) = Len(u)
    BY <1>3, <1>6, <1>8
  <2> QED BY <1>6, <1>8, <1>10, <2>1, Cuts!SameSequence
<1>12. FlattensBoth(l, r)
  BY <1>4, <1>5, FlattenOfConcat
<1>13. /\ EscapeTagValue(v) = FlattenSeq(b)
       /\ EscapeTagValue(L) = FlattenSeq(l) /\ EscapeTagValue(R) = FlattenSeq(r)
  BY <1>1, <1>2
<1>14. FlattenSeq(u) = FlattenSeq(l) \o FlattenSeq(r)
  BY <1>7, <1>12 DEF FlattensBoth
<1>15. EscapeTagValue(v) = EscapeTagValue(L) \o EscapeTagValue(R)
  BY <1>11, <1>13, <1>14
<1> QED BY <1>2, <1>15 DEF EscapesBoth

LEMMA EscapeOfOne ==
    ASSUME NEW X, Specials \subseteq X, NEW x \in X
    PROVE  EscapeTagValue(<<x>>) = Escaped(x)
<1>1. PICK v : v = <<x>>
  OBVIOUS
<1>2. v \in Seq(X) /\ Len(v) = 1 /\ v[1] = x
  BY <1>1
<1>3. PICK Y, parts : Y = X \ Breaks /\ parts = EscapedParts(v)
  OBVIOUS
<1>4. /\ parts \in Seq(Seq(Y)) /\ Len(parts) = Len(v)
      /\ \A i \in 1 .. Len(v) : parts[i] = Escaped(v[i])
  BY <1>2, <1>3, EscapedPartsAre
<1>5. PICK e \in Seq(Y) : e = Escaped(x)
  BY <1>3, EscapedIs
<1>6. parts[1] = e /\ Len(parts) = 1
  <2>1. 1 \in 1 .. Len(v)
    BY <1>2
  <2>2. parts[1] = Escaped(v[1])
    BY <1>4, <2>1
  <2> QED BY <1>2, <1>4, <1>5, <2>2
<1>7. parts = <<e>>
  BY <1>4, <1>6
<1>8. EscapeTagValue(v) = FlattenSeq(parts)
  BY <1>3 DEF EscapeTagValue, EscapedParts, Escaped
<1>9. FlattenSeq(<<e>>) = e
  BY FlattenOfOne
<1> QED BY <1>1, <1>5, <1>7, <1>8, <1>9

LEMMA EscapeOfNothing == EscapeTagValue(<<>>) = <<>>
<1>1. EscapeTagValue(<<>>) = FlattenSeq(EscapedParts(<<>>))
  BY DEF EscapeTagValue, EscapedParts, Escaped
<1>2. EscapedParts(<<>>) = <<>>
  BY DEF EscapedParts
<1> QED BY <1>1, <1>2, FlattenOfNothing

\* Unescaping, from each place on: a backslash takes the next symbol with it, and
\* one at the end is dropped.
UnescapeSteps(from, v) ==
    \A i \in 1 .. Len(v) + 1 :
        from[i] = IF i > Len(v) THEN <<>>
                  ELSE IF v[i] # "\\" THEN <<v[i]>> \o from[i + 1]
                  ELSE IF i = Len(v) THEN <<>>
                  ELSE <<Unescaped(v[i + 1])>> \o from[i + 2]

\* UnescapeTagValue computes this.
LEMMA UnescapeRuns ==
    ASSUME NEW X, Specials \subseteq X, NEW v \in Seq(X)
    PROVE  \E from : UnescapeSteps(from, v) /\ UnescapeTagValue(v) = from[1]
<1> DEFINE N == Len(v)
           D == 1 .. N + 1
           V == Seq(X)
           Value(i, f) == IF i > Len(v) THEN <<>>
                          ELSE IF v[i] # "\\" THEN <<v[i]>> \o f[i + 1]
                          ELSE IF i = Len(v) THEN <<>>
                          ELSE <<Unescaped(v[i + 1])>> \o f[i + 2]
           measure == [i \in D |-> N + 1 - i]
           Step == [p \in D \X [D -> V] |-> Value(p[1], p[2])]
           Eq(f) == f = [i \in D |-> Value(i, f)]
           g == CHOOSE f : Eq(f)
<1>1. N \in Nat /\ <<>> \in V
  OBVIOUS
<1>2. N + 1 \in Nat /\ measure \in [D -> 0 .. N + 1]
  BY <1>1
<1>3. UnescapeTagValue(v) = g[1]
  BY DEF UnescapeTagValue, Unescaped
<1>4. ASSUME NEW i \in D, ~ i > Len(v)
      PROVE  i \in 1 .. N /\ i + 1 \in D /\ (i # N => i + 1 \in 1 .. N /\ i + 2 \in D)
  BY <1>1, <1>4
<1>5. ASSUME NEW x \in X PROVE Unescaped(x) \in X
  BY DEF Unescaped, UnescapeTable, Specials
<1>6. ASSUME NEW i \in D, NEW f \in [D -> V] PROVE Value(i, f) \in V
  <2>1. ASSUME NEW x \in X, NEW t \in V PROVE <<x>> \o t \in V
    OBVIOUS
  <2>2. \A j \in 1 .. N : v[j] \in X
    OBVIOUS
  <2>3. \A j \in D : f[j] \in V
    OBVIOUS
  <2>4. CASE ~ i > Len(v)
    <3>1. <<v[i]>> \o f[i + 1] \in V
      <4> HIDE DEF V, D, N
      <4> QED BY <1>4, <2>1, <2>2, <2>3, <2>4
    <3>2. i # Len(v) => <<Unescaped(v[i + 1])>> \o f[i + 2] \in V
      <4> HIDE DEF V, D
      <4> QED BY <1>4, <1>5, <2>1, <2>2, <2>3, <2>4
    <3> HIDE DEF V, D, N
    <3> QED BY <1>1, <2>4, <3>1, <3>2
  <2> HIDE DEF V, D, N
  <2> QED BY <1>1, <2>4
<1>7. /\ Step \in [D \X [D -> V] -> V]
      /\ \A i \in D : \A f \in [D -> V] : Step[<<i, f>>] = Value(i, f)
  <2> HIDE DEF Value, D, V
  <2> QED BY <1>6
<1>8. Cuts!LooksBelow(D, V, measure, Step)
  <2>1. ASSUME NEW i \in D, NEW f \in [D -> V], NEW h \in [D -> V],
               \A j \in D : measure[j] < measure[i] => f[j] = h[j]
        PROVE  Step[<<i, f>>] = Step[<<i, h>>]
    <3>1. ~ i > Len(v) => f[i + 1] = h[i + 1] /\ (i # Len(v) => f[i + 2] = h[i + 2])
      <4>1. SUFFICES ASSUME ~ i > Len(v)
                     PROVE  f[i + 1] = h[i + 1] /\ (i # Len(v) => f[i + 2] = h[i + 2])
        OBVIOUS
      <4>2. ASSUME NEW j \in D, i < j PROVE measure[j] < measure[i]
        BY <1>1, <4>2
      <4>3. i < i + 1 /\ i < i + 2
        BY <1>1
      <4> HIDE DEF D, V, measure, Step
      <4> QED BY <1>4, <2>1, <4>1, <4>2, <4>3
    <3>2. Value(i, f) = Value(i, h)
      <4> HIDE DEF D, V, measure, Step
      <4> QED BY <3>1
    <3> HIDE DEF D, V, Value, measure, Step
    <3> QED BY <1>7, <3>2
  <2> HIDE DEF D, V, Value, measure, Step
  <2> QED BY <2>1 DEF Cuts!LooksBelow
<1>9. PICK f \in [D -> V] : Cuts!Solves(f, D, Step)
  <2> DEFINE M == N + 1
  <2>1. M \in Nat /\ measure \in [D -> 0 .. M]
    BY <1>2
  <2> HIDE DEF D, V, measure, Step, N, M
  <2> QED BY <1>1, <1>7, <1>8, <2>1, Cuts!Recursion
<1>10. Eq(g)
  <2>1. f = [i \in D |-> Value(i, f)]
    <3> HIDE DEF D, V, Value, Step
    <3> QED BY <1>7, <1>9 DEF Cuts!Solves
  <2>2. Eq(f)
    BY <2>1
  <2> HIDE DEF Eq
  <2> QED BY <2>2
<1> HIDE DEF g
<1>11. \A i \in D : g[i] = Value(i, g)
  <2> HIDE DEF Value, D
  <2> QED BY <1>10
<1>12. UnescapeSteps(g, v)
  BY <1>11 DEF UnescapeSteps
<1> QED BY <1>3, <1>12

\* From behind the escape of L on, the reader finds R.
ReadsOn(from, L, R) == from[Len(EscapeTagValue(L)) + 1] = R

\* Unescaping undoes escaping, for every tag value: also one that ends in a backslash
\* or holds what another escape looks like.
THEOREM EscapeIsUndone ==
    ASSUME NEW X, Specials \subseteq X, NEW v \in Seq(X)
    PROVE  UnescapeTagValue(EscapeTagValue(v)) = v
<1>1. PICK bytes : bytes = EscapeTagValue(v)
  OBVIOUS
<1>2. ASSUME NEW t \in Seq(X) PROVE EscapeTagValue(t) \in Seq(X)
  <2>1. EscapeTagValue(t) \in Seq(X \ Breaks)
    BY EscapeIs
  <2> QED BY <2>1
<1>3. bytes \in Seq(X)
  BY <1>1, <1>2
<1>4. PICK from : UnescapeSteps(from, bytes) /\ UnescapeTagValue(bytes) = from[1]
  BY <1>3, UnescapeRuns
<1>5. PICK N \in Nat : N = Len(bytes)
  BY <1>3
<1> DEFINE T == {m \in 0 .. Len(v) : \A L, R \in Seq(X) :
                    Len(R) = m /\ L \o R = v => ReadsOn(from, L, R)}
<1>6. 0 \in T
  <2>1. ASSUME NEW L \in Seq(X), NEW R \in Seq(X), Len(R) = 0, L \o R = v
        PROVE  ReadsOn(from, L, R)
    <3>1. R = <<>> /\ L = v
      BY <2>1
    <3>2. N + 1 \in 1 .. N + 1 /\ N + 1 > N
      OBVIOUS
    <3>3. from[N + 1] = <<>>
      BY <1>4, <1>5, <3>2 DEF UnescapeSteps
    <3> QED BY <1>1, <1>5, <3>1, <3>3 DEF ReadsOn
  <2>2. 0 \in 0 .. Len(v)
    OBVIOUS
  <2> QED BY <2>1, <2>2
<1>7. ASSUME NEW m \in 0 .. Len(v) - 1, m \in T PROVE m + 1 \in T
  <2>1. ASSUME NEW L \in Seq(X), NEW R \in Seq(X), Len(R) = m + 1, L \o R = v
        PROVE  ReadsOn(from, L, R)
    <3>1. R # <<>>
      BY <2>1
    <3>a. HasFirst(R, X)
      BY <3>1, FirstOne
    <3>2. PICK x \in X, rest \in Seq(X) : R = <<x>> \o rest /\ Len(R) = Len(rest) + 1
      BY <3>a DEF HasFirst
    <3>3. PICK one, M : one = <<x>> /\ M = L \o one
      OBVIOUS
    <3>4. one \in Seq(X) /\ M \in Seq(X)
      BY <3>3
    <3>5. PICK a \in Seq(X), b \in Seq(X), e \in Seq(X) :
              a = EscapeTagValue(L) /\ b = EscapeTagValue(rest) /\ e = EscapeTagValue(one)
      BY <1>2, <3>4
    <3>6. e = Escaped(x)
      BY <3>3, <3>5, EscapeOfOne
    <3>7. M \o rest = v
      <4>1. MovesOver(L, x, rest)
        BY MovedOver
      <4> QED BY <2>1, <3>2, <3>3, <4>1 DEF MovesOver
    <3>8. EscapeTagValue(M) = a \o e
      <4>1. EscapesBoth(L, one)
        BY <3>4, EscapeOfConcat
      <4> QED BY <3>3, <3>5, <4>1, Zenon DEF EscapesBoth
    <3>9. bytes = (a \o e) \o b
      <4>1. EscapesBoth(M, rest)
        BY <3>4, EscapeOfConcat
      <4> QED BY <1>1, <3>5, <3>7, <3>8, <4>1 DEF EscapesBoth
    <3>10. Len(rest) = m
      <4>1. Len(rest) \in Nat
        OBVIOUS
      <4> QED BY <2>1, <3>2, <4>1
    <3>11. from[Len(a \o e) + 1] = rest
      <4>1. ReadsOn(from, M, rest)
        BY <1>7, <3>4, <3>7, <3>10
      <4> QED BY <3>8, <4>1 DEF ReadsOn
    <3>12. PICK p, n : p = Len(a) /\ n = Len(e)
      OBVIOUS
    <3>13. PICK ae : ae = a \o e
      OBVIOUS
    <3>14. /\ ae \in Seq(X) /\ Len(ae) = p + n
           /\ \A k \in 1 .. n : ae[p + k] = e[k]
      BY <3>12, <3>13, Cuts!ConcatIs
    <3>15. Len(bytes) = Len(ae) + Len(b) /\ \A k \in 1 .. Len(ae) : bytes[k] = ae[k]
      BY <3>9, <3>13, <3>14, Cuts!ConcatIs
    <3>16. p \in Nat /\ n \in Nat /\ Len(b) \in Nat
      BY <3>12
    <3>17. p + n <= N /\ \A k \in 1 .. n : bytes[p + k] = e[k]
      <4>1. p + n <= N
        BY <1>5, <3>14, <3>15, <3>16
      <4>2. \A k \in 1 .. n : p + k \in 1 .. Len(ae)
        BY <3>14, <3>16
      <4> QED BY <3>14, <3>15, <4>1, <4>2
    <3>18. EscapesTo(e, x)
      BY <3>6, EscapedIs
    <3>19. from[p + 1] = R
      <4>1. CASE e = <<x>> /\ x # "\\"
        <5>1. n = 1 /\ e[1] = x
          BY <3>12, <4>1
        <5>2. bytes[p + 1] = x
          BY <3>17, <5>1
        <5>3. p + 1 \in 1 .. N + 1 /\ ~ p + 1 > N /\ p + 1 + 1 = p + n + 1
          BY <3>16, <3>17, <5>1
        <5>4. from[p + 1] = <<x>> \o from[p + n + 1]
          BY <1>4, <1>5, <4>1, <5>2, <5>3 DEF UnescapeSteps
        <5> QED BY <3>2, <3>11, <3>13, <3>14, <5>4
      <4>2. CASE \E y : e = <<"\\", y>> /\ Unescaped(y) = x
        <5>1. PICK y : e = <<"\\", y>> /\ Unescaped(y) = x
          BY <4>2
        <5>2. n = 2 /\ e[1] = "\\" /\ e[2] = y
          BY <3>12, <5>1
        <5>3. bytes[p + 1] = "\\" /\ bytes[p + 2] = y
          BY <3>17, <5>2
        <5>4. /\ p + 1 \in 1 .. N + 1 /\ ~ p + 1 > N /\ p + 1 # N
              /\ p + 1 + 1 = p + 2 /\ p + 1 + 2 = p + n + 1
          BY <3>16, <3>17, <5>2
        <5>5. from[p + 1] = <<x>> \o from[p + n + 1]
          BY <1>4, <1>5, <5>1, <5>3, <5>4 DEF UnescapeSteps
        <5> QED BY <3>2, <3>11, <3>13, <3>14, <5>5
      <4> QED BY <3>18, <4>1, <4>2 DEF EscapesTo
    <3> QED BY <3>5, <3>12, <3>19 DEF ReadsOn
  <2>2. m + 1 \in 0 .. Len(v)
    OBVIOUS
  <2> QED BY <2>1, <2>2
<1>8. Len(v) \in T
  <2>1. Len(v) \in Nat
    OBVIOUS
  <2>2. 0 .. Len(v) \subseteq T
    <3> HIDE DEF T
    <3> QED BY <1>6, <1>7, <2>1, Cuts!IntervalInduction
  <2> HIDE DEF T
  <2> QED BY <2>1, <2>2
<1>9. <<>> \in Seq(X) /\ <<>> \o v = v
  OBVIOUS
<1>10. ReadsOn(from, <<>>, v)
  BY <1>8, <1>9
<1>11. from[1] = v
  <2>1. Len(EscapeTagValue(<<>>)) + 1 = 1
    BY EscapeOfNothing
  <2> QED BY <1>10, <2>1 DEF ReadsOn
<1> QED BY <1>1, <1>4, <1>11

-----------------------------------------------------------------------------
\* The parameters of a message.  Tokenizing never lengthens a text: ParseParams ends,
\* and is what its steps say.  Read from any place of Joined(ws, " ") it gives the
\* parameters that ws writes, by induction on how many are left.

\* Tokenizing never lengthens a text.
LEMMA KeptIs ==
    ASSUME NEW X, NEW s \in Seq(X), NEW x,
           NEW kept, kept = {i \in DOMAIN s : s[i] # x}, kept # {}
    PROVE  /\ SubSeq(s, Min(kept), Len(s)) \in Seq(X)
           /\ Len(SubSeq(s, Min(kept), Len(s))) \in 0 .. Len(s)
<1>1. PICK N : N = Len(s)
  OBVIOUS
<1>2. N \in Nat /\ DOMAIN s = 1 .. N
  BY <1>1
<1>3. kept \in SUBSET Nat /\ kept \subseteq 1 .. N
  BY <1>2
<1>4. PICK m \in kept : \A n \in kept : m <= n
  BY <1>3, Cuts!LeastOfSet
<1>5. Min(kept) = m
  <2>1. \A n \in kept : n \in Nat
    BY <1>3
  <2>2. \A n \in kept : (\A y \in kept : n =< y) => n = m
    BY <1>4, <2>1
  <2> QED BY <1>4, <2>2 DEF Min
<1>6. m \in 1 .. N
  BY <1>3
<1>7. m \in 1 .. Len(s) + 1
  BY <1>1, <1>2, <1>6
<1>8. SubSeq(s, m, Len(s)) \in Seq(X) /\ Len(SubSeq(s, m, Len(s))) = Len(s) - m + 1
  BY <1>7, SuffixIs
<1>9. N - m + 1 \in 0 .. N
  BY <1>2, <1>6
<1> QED BY <1>1, <1>5, <1>8, <1>9

\* What is trimmed is a text, and no longer.
LEMMA TrimIs ==
    ASSUME NEW X, NEW s \in Seq(X)
    PROVE  TrimFront(s) \in Seq(X) /\ Len(TrimFront(s)) \in 0 .. Len(s)
<1>1. PICK x : x = " "
  OBVIOUS
<1>2. PICK kept : kept = {i \in DOMAIN s : s[i] # x}
  OBVIOUS
<1>3. TrimFront(s) = IF kept = {} THEN <<>> ELSE SubSeq(s, Min(kept), Len(s))
  BY <1>1, <1>2 DEF TrimFront
<1>4. Len(s) \in Nat /\ <<>> \in Seq(X) /\ Len(<<>>) = 0
  OBVIOUS
<1>5. CASE kept # {}
  BY <1>2, <1>3, <1>5, KeptIs
<1>6. CASE kept = {}
  BY <1>3, <1>4, <1>6
<1> QED BY <1>5, <1>6

\* Each token taken leaves a shorter text: why parsing ends.
LEMMA RestIs ==
    ASSUME NEW X, NEW s \in Seq(X), s # <<>>
    PROVE  Token(s) \in Seq(X) /\ Rest(s) \in Seq(X) /\ Len(Rest(s)) \in 0 .. Len(s) - 1
<1>1. PICK x, a, N : x = " " /\ a = After(s, x) /\ N = Len(s)
  OBVIOUS
<1>2. N \in Nat /\ Token(s) \in Seq(X) /\ a \in Seq(X) /\ Len(a) \in 0 .. N /\ Len(a) < N
  <2>1. /\ Before(s, x) \in Seq(X) /\ After(s, x) \in Seq(X)
        /\ Len(After(s, x)) \in 0 .. Len(s) /\ Len(After(s, x)) < Len(s)
    BY BeforeIs
  <2>2. Len(s) \in Nat
    OBVIOUS
  <2> QED BY <1>1, <2>1, <2>2 DEF Token
<1>3. PICK r : r = TrimFront(a)
  OBVIOUS
<1>4. r \in Seq(X) /\ Len(r) \in 0 .. Len(a)
  BY <1>2, <1>3, TrimIs
<1>5. Len(r) \in 0 .. N - 1
  BY <1>2, <1>4
<1> QED BY <1>1, <1>2, <1>3, <1>4, <1>5 DEF Rest

\* ParseParams, from each place on and after each number of parameters.
From(s, i) == SubSeq(s, i, Len(s))
NextParam(s, i) == Len(s) + 1 - Len(Rest(From(s, i)))

\* The parameters from place i on when n have been read: a colon, or the limit of
\* MaxMiddle, makes the rest the last one.
ParamSteps(from, s) ==
    \A i \in 1 .. Len(s) + 1 : \A n \in 0 .. MaxMiddle :
        from[<<i, n>>] = IF i > Len(s) THEN <<>>
                         ELSE IF s[i] = ":" \/ n = MaxMiddle THEN <<Trailing(From(s, i))>>
                         ELSE <<Token(From(s, i))>> \o from[<<NextParam(s, i), n + 1>>]

\* ParseParams computes this.
LEMMA ParamsRun ==
    ASSUME NEW X, NEW s \in Seq(X)
    PROVE  \E from : ParamSteps(from, s) /\ ParseParams(s) = from[<<1, 0>>]
<1> DEFINE N == Len(s)
           D == (1 .. N + 1) \X (0 .. MaxMiddle)
           V == Seq(Seq(X))
           Value(at, f) == IF at[1] > Len(s) THEN <<>>
                           ELSE IF s[at[1]] = ":" \/ at[2] = MaxMiddle THEN <<Trailing(From(s, at[1]))>>
                           ELSE <<Token(From(s, at[1]))>> \o f[<<NextParam(s, at[1]), at[2] + 1>>]
           measure == [at \in D |-> N + 1 - at[1]]
           Step == [p \in D \X [D -> V] |-> Value(p[1], p[2])]
           Eq(f) == f = [at \in D |-> Value(at, f)]
           g == CHOOSE f : Eq(f)
<1>1. N \in Nat /\ <<>> \in V /\ MaxMiddle \in Nat
  BY TextAssumption
<1>2. N + 1 \in Nat /\ measure \in [D -> 0 .. N + 1]
  <2>1. \A at \in D : at[1] \in 1 .. N + 1
    OBVIOUS
  <2>2. \A at \in D : N + 1 - at[1] \in 0 .. N + 1
    <3> HIDE DEF D, N
    <3> QED BY <1>1, <2>1
  <2> HIDE DEF D, N
  <2> QED BY <1>1, <2>2
<1>3. ParseParams(s) = g[<<1, 0>>]
  BY DEF ParseParams, From, NextParam
<1>4. ASSUME NEW at \in D, ~ at[1] > Len(s)
      PROVE  /\ From(s, at[1]) # <<>> /\ From(s, at[1]) \in Seq(X)
             /\ NextParam(s, at[1]) \in 1 .. N + 1 /\ at[1] < NextParam(s, at[1])
  <2>1. PICK i, r : i = at[1] /\ r = From(s, i)
    OBVIOUS
  <2>2. i \in 1 .. N + 1 /\ ~ i > N
    BY <1>4, <2>1
  <2>3. r \in Seq(X) /\ Len(r) = N - i + 1
    BY <1>1, <2>1, <2>2, SuffixIs DEF From
  <2>4. r # <<>>
    BY <1>1, <2>2, <2>3
  <2>5. PICK k : k = Len(Rest(r))
    OBVIOUS
  <2>6. k \in 0 .. Len(r) - 1
    BY <2>3, <2>4, <2>5, RestIs
  <2>7. N + 1 - k \in 1 .. N + 1 /\ i < N + 1 - k
    BY <1>1, <2>2, <2>3, <2>6
  <2> QED BY <2>1, <2>3, <2>4, <2>5, <2>7 DEF NextParam
<1>5. ASSUME NEW at \in D, ~ at[1] > Len(s), at[2] # MaxMiddle
      PROVE  <<NextParam(s, at[1]), at[2] + 1>> \in D
  <2>1. at[2] \in 0 .. MaxMiddle
    OBVIOUS
  <2>2. at[2] + 1 \in 0 .. MaxMiddle
    BY <1>1, <1>5, <2>1
  <2>3. NextParam(s, at[1]) \in 1 .. N + 1
    BY <1>4, <1>5
  <2> QED BY <2>2, <2>3
<1>6. ASSUME NEW at \in D, NEW f \in [D -> V] PROVE Value(at, f) \in V
  <2>1. CASE at[1] > Len(s)
    BY <1>1, <2>1
  <2>2. CASE ~ at[1] > Len(s) /\ (s[at[1]] = ":" \/ at[2] = MaxMiddle)
    <3>1. PICK r : r = From(s, at[1])
      OBVIOUS
    <3>2. r \in Seq(X) /\ r # <<>>
      BY <1>4, <2>2, <3>1
    <3>3. Tail(r) \in Seq(X)
      BY <3>2
    <3>4. Trailing(r) \in Seq(X)
      BY <3>2, <3>3 DEF Trailing
    <3>5. <<Trailing(r)>> \in V
      BY <3>4
    <3>6. Value(at, f) = <<Trailing(r)>>
      BY <2>2, <3>1
    <3> HIDE DEF V, Value
    <3> QED BY <3>5, <3>6
  <2>3. CASE ~ at[1] > Len(s) /\ ~(s[at[1]] = ":" \/ at[2] = MaxMiddle)
    <3>1. PICK t, ts : t = Token(From(s, at[1])) /\ ts = f[<<NextParam(s, at[1]), at[2] + 1>>]
      OBVIOUS
    <3>2. t \in Seq(X)
      BY <1>4, <2>3, <3>1, RestIs
    <3>3. ts \in V
      <4> HIDE DEF D, V
      <4> QED BY <1>5, <2>3, <3>1
    <3>4. <<t>> \o ts \in V
      BY <3>2, <3>3
    <3>5. Value(at, f) = <<t>> \o ts
      BY <2>3, <3>1
    <3> HIDE DEF V, Value
    <3> QED BY <3>4, <3>5
  <2> HIDE DEF Value, V, D
  <2> QED BY <2>1, <2>2, <2>3
<1>7. /\ Step \in [D \X [D -> V] -> V]
      /\ \A at \in D : \A f \in [D -> V] : Step[<<at, f>>] = Value(at, f)
  <2> HIDE DEF Value, D, V
  <2> QED BY <1>6
<1>8. Cuts!LooksBelow(D, V, measure, Step)
  <2>1. ASSUME NEW at \in D, NEW f \in [D -> V], NEW h \in [D -> V],
               \A j \in D : measure[j] < measure[at] => f[j] = h[j]
        PROVE  Step[<<at, f>>] = Step[<<at, h>>]
    <3>1. ASSUME ~ at[1] > Len(s), at[2] # MaxMiddle
          PROVE  f[<<NextParam(s, at[1]), at[2] + 1>>] = h[<<NextParam(s, at[1]), at[2] + 1>>]
      <4>1. PICK j \in D : j = <<NextParam(s, at[1]), at[2] + 1>>
        BY <1>5, <3>1
      <4>2. j[1] \in 1 .. N + 1 /\ at[1] \in 1 .. N + 1 /\ at[1] < j[1]
        BY <1>4, <3>1, <4>1
      <4>3. N + 1 - j[1] < N + 1 - at[1]
        BY <1>1, <4>2
      <4>4. measure[j] < measure[at]
        BY <4>3
      <4> HIDE DEF D, V, measure, Step
      <4> QED BY <2>1, <4>1, <4>4
    <3>2. Value(at, f) = Value(at, h)
      <4> HIDE DEF D, V, measure, Step
      <4> QED BY <3>1
    <3> HIDE DEF D, V, Value, measure, Step
    <3> QED BY <1>7, <3>2
  <2> HIDE DEF D, V, Value, measure, Step
  <2> QED BY <2>1 DEF Cuts!LooksBelow
<1>9. PICK f \in [D -> V] : Cuts!Solves(f, D, Step)
  <2> DEFINE M == N + 1
  <2>1. M \in Nat /\ measure \in [D -> 0 .. M]
    BY <1>2
  <2> HIDE DEF D, V, measure, Step, N, M
  <2> QED BY <1>1, <1>7, <1>8, <2>1, Cuts!Recursion
<1>10. Eq(g)
  <2>1. f = [at \in D |-> Value(at, f)]
    <3> HIDE DEF D, V, Value, Step
    <3> QED BY <1>7, <1>9 DEF Cuts!Solves
  <2>2. Eq(f)
    BY <2>1
  <2> HIDE DEF Eq
  <2> QED BY <2>2
<1> HIDE DEF g
<1>11. \A at \in D : g[at] = Value(at, g)
  <2> HIDE DEF Value, D
  <2> QED BY <1>10
<1>12. ParamSteps(g, s)
  <2>1. ASSUME NEW i \in 1 .. N + 1, NEW n \in 0 .. MaxMiddle
        PROVE  g[<<i, n>>] = Value(<<i, n>>, g)
    <3>1. <<i, n>> \in D
      OBVIOUS
    <3> HIDE DEF D, Value
    <3> QED BY <1>11, <3>1
  <2> QED BY <2>1 DEF ParamSteps
<1> QED BY <1>3, <1>12

\* The parameters of a message: all but the last are words that begin with no colon.
Middles(X) == {w \in Seq(X \ {" "}) : w # <<>> /\ w[1] # ":"}

\* Every parameter but the last can be told from what follows it.
AreParams(q, X) ==
    q \in Seq(Seq(X)) /\ \A k \in 1 .. Len(q) : k # Len(q) => q[k] \in Middles(X)

\* A parameter with a colon in front, or as it is; Writes says so of all of them.
IsWritten(w, p, X) ==
    \/ w = <<":">> \o p
    \/ w = p /\ p \in Middles(X)

Writes(ws, q, X) ==
    /\ Len(ws) = Len(q)
    /\ \A k \in 1 .. Len(q) : IF k = Len(q) THEN IsWritten(ws[k], q[k], X) ELSE ws[k] = q[k]

\* When the last parameter is written with a colon.
NeedsColon(p) == p = <<>> \/ p[1] = ":" \/ Contains(p, " ")

\* writeParam adds the colon to a last parameter that could not be read without.
LEMMA WrittenIs ==
    ASSUME NEW X, NEW p \in Seq(X)
    PROVE  IsWritten(WriteParam(p, TRUE), p, X) /\ WriteParam(p, FALSE) = p
<1>0. PICK w : w = WriteParam(p, TRUE)
  OBVIOUS
<1>1. w = IF NeedsColon(p) THEN <<":">> \o p ELSE p
  BY <1>0 DEF WriteParam, NeedsColon
<1>2. ASSUME NeedsColon(p) PROVE IsWritten(w, p, X)
  <2>1. w = <<":">> \o p
    BY <1>1, <1>2
  <2> QED BY <2>1 DEF IsWritten
<1>3. ASSUME ~NeedsColon(p) PROVE IsWritten(w, p, X)
  <2>1. PICK x : x = " "
    OBVIOUS
  <2>2. ~Contains(p, x)
    BY <1>3, <2>1 DEF NeedsColon
  <2>3. \A i \in 1 .. Len(p) : p[i] # x
    BY <2>2 DEF Contains
  <2>4. p \in Seq(X \ {x})
    BY <2>3
  <2>5. p # <<>> /\ p[1] # ":"
    BY <1>3 DEF NeedsColon
  <2>6. p \in Middles(X)
    BY <2>1, <2>4, <2>5 DEF Middles
  <2>7. w = p
    BY <1>1, <1>3
  <2> QED BY <2>6, <2>7 DEF IsWritten
<1>4. WriteParam(p, FALSE) = p
  BY DEF WriteParam
<1> QED BY <1>0, <1>2, <1>3, <1>4

\* What the reader goes by.
Opens(w) == w # <<>> /\ w[1] # " "

\* What is written of the last parameter is not empty and begins with no space.
LEMMA WrittenOpens ==
    ASSUME NEW X, Specials \subseteq X, NEW p \in Seq(X), NEW w, IsWritten(w, p, X)
    PROVE  w \in Seq(X) /\ Opens(w)
<1>1. PICK x : x = " "
  OBVIOUS
<1>2. CASE w = <<":">> \o p
  <2>1. PICK y, one : y = ":" /\ one = <<y>>
    OBVIOUS
  <2>c. y \in X
    BY <2>1 DEF Specials
  <2>2. one \in Seq(X) /\ Len(one) = 1 /\ one[1] = y /\ w = one \o p
    BY <1>2, <2>1, <2>c
  <2>a. /\ one \o p \in Seq(X) /\ Len(one \o p) = Len(one) + Len(p)
        /\ \A i \in 1 .. Len(one) : (one \o p)[i] = one[i]
    BY <2>2, Cuts!ConcatIs
  <2>b. 1 \in 1 .. Len(one)
    BY <2>2
  <2>3. w \in Seq(X) /\ Len(w) = 1 + Len(p) /\ w[1] = y /\ Len(p) \in Nat
    BY <2>2, <2>a, <2>b
  <2>4. w # <<>>
    BY <2>3
  <2>5. y # " "
    BY <2>1
  <2> QED BY <2>3, <2>4, <2>5 DEF Opens
<1>3. CASE w = p /\ p \in Middles(X)
  <2>1. p \in Seq(X \ {x}) /\ p # <<>>
    BY <1>1, <1>3 DEF Middles
  <2>2. 1 \in 1 .. Len(p)
    BY <2>1
  <2>3. p[1] # x
    BY <2>1, <2>2
  <2> QED BY <1>1, <1>3, <2>1, <2>3 DEF Opens
<1> QED BY <1>2, <1>3 DEF IsWritten

\* Joined items begin as the first of them does.
LEMMA JoinedBegins ==
    ASSUME NEW X, NEW sep \in X, NEW items \in Seq(Seq(X)), items # <<>>, items[1] # <<>>
    PROVE  Joined(items, sep) # <<>> /\ Joined(items, sep)[1] = items[1][1]
<1>1. HasFirst(items, Seq(X))
  BY FirstOne
<1>2. PICK c \in Seq(X), rest \in Seq(Seq(X)) : items = <<c>> \o rest
  BY <1>1 DEF HasFirst
<1>3. items[1] = c
  BY <1>2
<1>4. c # <<>> /\ Len(c) \in Nat /\ Len(c) > 0
  BY <1>3
<1>5. CASE rest = <<>>
  <2>1. items = <<c>>
    BY <1>2, <1>5
  <2> QED BY <1>3, <1>4, <2>1, JoinedOfOne
<1>6. CASE rest # <<>>
  <2>1. PICK J, t, one : J = Joined(rest, sep) /\ one = <<sep>> /\ t = one \o J
    OBVIOUS
  <2>2. J \in Seq(X) /\ one \in Seq(X)
    BY <2>1, JoinedIs
  <2>3. t \in Seq(X)
    BY <2>1, <2>2, Cuts!ConcatIs
  <2>4. Joined(items, sep) = c \o t
    BY <1>2, <1>6, <2>1, JoinedOfFirst
  <2>5. Len(c \o t) = Len(c) + Len(t) /\ (c \o t)[1] = c[1] /\ Len(t) \in Nat
    <3>1. 1 \in 1 .. Len(c)
      BY <1>4
    <3> QED BY <2>3, <3>1, Cuts!ConcatIs
  <2>6. c \o t # <<>>
    <3>1. Len(c \o t) > 0
      BY <1>4, <2>5
    <3>2. PICK u : u = c \o t
      OBVIOUS
    <3>3. u # <<>>
      BY <3>1, <3>2
    <3> QED BY <3>2, <3>3
  <2> QED BY <1>3, <2>4, <2>5, <2>6
<1> QED BY <1>5, <1>6

\* The rest of written parameters.
LEMMA ParamsBehind ==
    ASSUME NEW X, NEW q1 \in Seq(X), NEW qs \in Seq(Seq(X)), qs # <<>>,
           NEW w1 \in Seq(X), NEW wr \in Seq(Seq(X)),
           AreParams(<<q1>> \o qs, X), Writes(<<w1>> \o wr, <<q1>> \o qs, X)
    PROVE  /\ AreParams(qs, X) /\ Writes(wr, qs, X) /\ wr # <<>>
           /\ q1 \in Middles(X) /\ w1 = q1
<1>1. PICK S, q, ws, n : S = Seq(X) /\ q = <<q1>> \o qs /\ ws = <<w1>> \o wr /\ n = Len(qs)
  OBVIOUS
<1>2. n \in Nat /\ n > 0
  BY <1>1
<1>3. /\ q \in Seq(S) /\ Len(q) = n + 1 /\ q[1] = q1
      /\ \A k \in 1 .. n : q[k + 1] = qs[k]
  BY <1>1
<1>4. Len(wr) \in Nat /\ Len(ws) = Len(wr) + 1 /\ ws[1] = w1 /\ \A k \in 1 .. Len(wr) : ws[k + 1] = wr[k]
  BY <1>1
<1>5. Len(ws) = n + 1 /\ \A k \in 1 .. n + 1 :
         IF k = n + 1 THEN IsWritten(ws[k], q[k], X) ELSE ws[k] = q[k]
  BY <1>1, <1>3 DEF Writes
<1>6. \A k \in 1 .. n + 1 : k # n + 1 => q[k] \in Middles(X)
  BY <1>1, <1>3 DEF AreParams
<1>7. 1 \in 1 .. n + 1 /\ 1 # n + 1
  BY <1>2
<1>8. q1 \in Middles(X)
  BY <1>3, <1>6, <1>7
<1>9. w1 = q1
  BY <1>3, <1>4, <1>5, <1>7
<1>10. Len(wr) = n
  BY <1>2, <1>4, <1>5
<1>11. ASSUME NEW k \in 1 .. n
       PROVE  /\ k # n => qs[k] \in Middles(X)
              /\ IF k = n THEN IsWritten(wr[k], qs[k], X) ELSE wr[k] = qs[k]
  <2>1. k + 1 \in 1 .. n + 1 /\ (k + 1 = n + 1) = (k = n)
    BY <1>2
  <2>2. IF k + 1 = n + 1 THEN IsWritten(ws[k + 1], q[k + 1], X) ELSE ws[k + 1] = q[k + 1]
    BY <1>5, <2>1
  <2>3. ws[k + 1] = wr[k] /\ q[k + 1] = qs[k]
    BY <1>3, <1>4, <1>10
  <2>4. k # n => q[k + 1] \in Middles(X)
    BY <1>6, <2>1
  <2> QED BY <2>1, <2>2, <2>3, <2>4
<1>12. AreParams(qs, X) /\ Writes(wr, qs, X)
  BY <1>1, <1>10, <1>11 DEF AreParams, Writes
<1>13. wr # <<>>
  BY <1>2, <1>10
<1> QED BY <1>8, <1>9, <1>12, <1>13
\* The first of written parameters is not empty and begins with no space.
LEMMA ParamsOpen ==
    ASSUME NEW X, Specials \subseteq X, NEW q \in Seq(Seq(X)), AreParams(q, X), q # <<>>,
           NEW ws \in Seq(Seq(X)), Writes(ws, q, X)
    PROVE  ws # <<>> /\ Opens(ws[1])
<1>1. PICK n : n = Len(q)
  OBVIOUS
<1>2. n \in Nat /\ n > 0 /\ Len(ws) = n /\ 1 \in 1 .. n
  <2>1. Len(q) \in Nat /\ Len(q) > 0
    OBVIOUS
  <2> QED BY <1>1, <2>1 DEF Writes
<1>3. ws # <<>>
  BY <1>2
<1>4. q[1] \in Seq(X) /\ IF 1 = n THEN IsWritten(ws[1], q[1], X) ELSE ws[1] = q[1]
  <2>1. q[1] \in Seq(X)
    BY <1>1, <1>2
  <2> QED BY <1>1, <1>2, <2>1 DEF Writes
<1>5. IsWritten(ws[1], q[1], X)
  <2>1. CASE 1 = n
    BY <1>4, <2>1
  <2>2. CASE 1 # n
    <3>1. q[1] \in Middles(X) /\ ws[1] = q[1]
      BY <1>1, <1>2, <1>4, <2>2 DEF AreParams
    <3> QED BY <3>1 DEF IsWritten
  <2> QED BY <2>1, <2>2
<1> QED BY <1>3, <1>4, <1>5, WrittenOpens

\* A text is its own suffix from 1 on; the empty suffix starts behind the end.
LEMMA TailIs ==
    ASSUME NEW X, NEW s \in Seq(X), NEW i, NEW t, TailAt(s, i, t)
    PROVE  /\ i \in 1 .. Len(s) + 1 /\ From(s, i) = t /\ t \in Seq(X) /\ Len(t) = Len(s) - i + 1
           /\ t # <<>> => i <= Len(s) /\ s[i] = t[1]
           /\ t = <<>> => i = Len(s) + 1
<1>1. i \in 1 .. Len(s) + 1 /\ SubSeq(s, i, Len(s)) = t
  BY DEF TailAt
<1>2. /\ t \in Seq(X) /\ Len(t) = Len(s) - i + 1
      /\ \A k \in 1 .. Len(s) - i + 1 : t[k] = s[i + k - 1]
  BY <1>1, SuffixIs
<1>3. PICK N, n : N = Len(s) /\ n = Len(t)
  OBVIOUS
<1>4. N \in Nat /\ n \in Nat /\ (t # <<>> => n > 0) /\ (t = <<>> => n = 0)
  BY <1>2, <1>3
<1>5. i \in 1 .. N + 1 /\ n = N - i + 1
  BY <1>1, <1>2, <1>3
<1>6. ASSUME n > 0 PROVE i <= N /\ s[i] = t[1]
  <2>1. i <= N /\ 1 \in 1 .. N - i + 1 /\ i + 1 - 1 = i
    BY <1>4, <1>5, <1>6
  <2> QED BY <1>2, <1>3, <2>1
<1>7. n = 0 => i = N + 1
  BY <1>4, <1>5
<1> QED BY <1>1, <1>2, <1>3, <1>4, <1>6, <1>7 DEF From

\* The colon of a last parameter is not part of it.
LEMMA ColonIsTaken ==
    ASSUME NEW X, NEW p \in Seq(X), NEW w, w = <<":">> \o p
    PROVE  w[1] = ":" /\ Trailing(w) = p
<1>1. PICK y : y = ":"
  OBVIOUS
<1>2. w = <<y>> \o p
  BY <1>1
<1>3. w[1] = y /\ Tail(w) = p
  BY ONLY <1>2, p \in Seq(X)
<1> QED BY <1>1, <1>3 DEF Trailing

\* Behind the first of two parts, what remains is the second.
Continues(s, i, a, b) ==
    i + Len(a) + 1 = Len(s) + 1 - Len(b) /\ TailAt(s, i + Len(a) + 1, b)

LEMMA SuffixContinues ==
    ASSUME NEW X, NEW s \in Seq(X), NEW a \in Seq(X), NEW x \in X, NEW b \in Seq(X),
           NEW i, TailAt(s, i, a \o (<<x>> \o b))
    PROVE  Continues(s, i, a, b)
BY SuffixBehind DEF Continues

\* What is read from a place is what was written there.
IsSpace(x) == x = " "

\* Wherever written parameters stand at the end of a text, and as many as there is
\* room for are left, those parameters are read from there.
TakesFrom(from, s, i, n, q, ws, sp, X) ==
    /\ AreParams(q, X) /\ Writes(ws, q, X)
    /\ n + Len(q) <= MaxMiddle + 1
    /\ TailAt(s, i, Joined(ws, sp))
    => from[<<i, n>>] = q

\* Parameters joined by spaces are read back, by induction on how many there are.
LEMMA ParamsOfJoined ==
    ASSUME NEW X, Specials \subseteq X, NEW sp, IsSpace(sp),
           NEW q \in Seq(Seq(X)), NEW ws \in Seq(Seq(X)),
           AreParams(q, X), Writes(ws, q, X), Len(q) <= MaxMiddle + 1
    PROVE  ParseParams(Joined(ws, sp)) = q
<1> DEFINE S == Seq(X)
<1>0. sp \in X
  BY DEF IsSpace, Specials
<1>1. PICK s : s = Joined(ws, sp)
  OBVIOUS
<1>2. s \in Seq(X)
  BY <1>0, <1>1, JoinedIs
<1>3. PICK from : ParamSteps(from, s) /\ ParseParams(s) = from[<<1, 0>>]
  BY <1>2, ParamsRun
<1>4. PICK N \in Nat : N = Len(s)
  BY <1>2
<1>5. MaxMiddle \in Nat
  BY TextAssumption
<1>6. ASSUME NEW i \in 1 .. N + 1, NEW n \in 0 .. MaxMiddle
      PROVE  from[<<i, n>>] = IF i > N THEN <<>>
                              ELSE IF s[i] = ":" \/ n = MaxMiddle THEN <<Trailing(From(s, i))>>
                              ELSE <<Token(From(s, i))>> \o from[<<NextParam(s, i), n + 1>>]
  BY <1>3, <1>4 DEF ParamSteps
<1> DEFINE T == {m \in 0 .. Len(q) : \A p \in Seq(S), us \in Seq(S) :
                    Len(p) = m => \A i \in 1 .. N + 1, n \in 0 .. MaxMiddle : TakesFrom(from, s, i, n, p, us, sp, X)}
<1>7. 0 \in T
  <2>1. ASSUME NEW p \in Seq(S), NEW us \in Seq(S), Len(p) = 0,
               NEW i \in 1 .. N + 1, NEW n \in 0 .. MaxMiddle,
               Writes(us, p, X), TailAt(s, i, Joined(us, sp))
        PROVE  from[<<i, n>>] = p
    <3>1. Len(us) = 0
      BY <2>1 DEF Writes
    <3>2. p = <<>> /\ us = <<>>
      BY <2>1, <3>1
    <3>3. TailAt(s, i, <<>>)
      BY <2>1, <3>2, JoinedOfNothing
    <3>4. i = N + 1
      BY <1>2, <1>4, <3>3, TailIs
    <3>5. i > N
      BY <3>4
    <3> QED BY <1>6, <3>2, <3>5
  <2>2. 0 \in 0 .. Len(q)
    OBVIOUS
  <2> QED BY <2>1, <2>2 DEF TakesFrom
<1>8. ASSUME NEW m \in 0 .. Len(q) - 1, m \in T PROVE m + 1 \in T
  <2>1. ASSUME NEW p \in Seq(S), NEW us \in Seq(S), Len(p) = m + 1,
               NEW i \in 1 .. N + 1, NEW n \in 0 .. MaxMiddle,
               AreParams(p, X), Writes(us, p, X), n + Len(p) <= MaxMiddle + 1,
               TailAt(s, i, Joined(us, sp))
        PROVE  from[<<i, n>>] = p
    <3>1. Len(us) = Len(p) /\ Len(p) \in Nat
      BY <2>1 DEF Writes
    <3>2. p # <<>> /\ us # <<>>
      BY <2>1, <3>1
    <3>3. PICK p1 \in S, ps \in Seq(S) : p = <<p1>> \o ps /\ Len(p) = Len(ps) + 1
      <4>1. HasFirst(p, S)
        BY <3>2, FirstOne
      <4> QED BY <4>1 DEF HasFirst
    <3>4. PICK w \in S, wr \in Seq(S) : us = <<w>> \o wr /\ Len(us) = Len(wr) + 1
      <4>1. HasFirst(us, S)
        BY <3>2, FirstOne
      <4> QED BY <4>1 DEF HasFirst
    <3>5. Len(ps) = m /\ Len(wr) = m /\ Len(ps) \in Nat
      <4>1. Len(ps) \in Nat /\ Len(wr) \in Nat
        OBVIOUS
      <4> QED BY <2>1, <3>1, <3>3, <3>4, <4>1
    <3>6. CASE ps = <<>>
      <4>1. p = <<p1>> /\ us = <<w>>
        <5>1. wr = <<>>
          BY <3>5, <3>6
        <5> QED BY <3>3, <3>4, <3>6, <5>1
      <4>2. IsWritten(w, p1, X)
        <5>1. Len(p) = 1 /\ 1 \in 1 .. Len(p) /\ us[1] = w /\ p[1] = p1
          BY <4>1
        <5> QED BY <2>1, <5>1 DEF Writes
      <4>3. TailAt(s, i, w)
        <5>1. Joined(<<w>>, sp) = w
          BY <1>0, JoinedOfOne
        <5> QED BY <2>1, <4>1, <5>1
      <4>4. w # <<>>
        BY <4>2, WrittenOpens DEF Opens
      <4>5. i <= N /\ s[i] = w[1] /\ From(s, i) = w /\ ~ i > N
        <5>1. i <= Len(s) /\ s[i] = w[1] /\ From(s, i) = w
          <6> HIDE DEF T, S
          <6> QED BY <1>2, <4>3, <4>4, TailIs
        <5> QED BY <1>4, <5>1
      <4>6. from[<<i, n>>] = IF w[1] = ":" \/ n = MaxMiddle THEN <<Trailing(w)>>
                             ELSE <<Token(w)>> \o from[<<NextParam(s, i), n + 1>>]
        BY <1>6, <4>5
      <4>7. CASE w = <<":">> \o p1
        <5>1. w[1] = ":" /\ Trailing(w) = p1
          BY <4>7, ColonIsTaken
        <5> QED BY <4>1, <4>6, <5>1
      <4>8. CASE w = p1 /\ p1 \in Middles(X)
        <5>1. w[1] # ":" /\ w \in Seq(X \ {" "})
          BY <4>8 DEF Middles
        <5>2. Trailing(w) = p1
          BY <4>8, <5>1 DEF Trailing
        <5>3. CASE n = MaxMiddle
          BY <4>1, <4>6, <5>2, <5>3
        <5>4. CASE n # MaxMiddle
          <6>1. PICK x : x = " "
            OBVIOUS
          <6>2. Before(w, x) = w /\ After(w, x) = <<>>
            BY <5>1, <6>1, FoundNowhere
          <6>3. Token(w) = p1 /\ Rest(w) = <<>>
            BY <4>8, <6>1, <6>2, NothingTrimmed DEF Token, Rest
          <6>4. NextParam(s, i) = N + 1
            <7>1. Len(<<>>) = 0 /\ N + 1 - 0 = N + 1
              OBVIOUS
            <7> QED BY <1>4, <4>5, <6>3, <7>1 DEF NextParam
          <6>5. N + 1 \in 1 .. N + 1 /\ N + 1 > N /\ n + 1 \in 0 .. MaxMiddle
            BY <1>5, <5>4
          <6>6. from[<<N + 1, n + 1>>] = <<>>
            BY <1>6, <6>5
          <6>7. from[<<i, n>>] = <<p1>> \o <<>>
            BY <4>6, <5>1, <5>4, <6>3, <6>4, <6>6
          <6> QED BY <4>1, <6>7
        <5> QED BY <5>3, <5>4
      <4> QED BY <4>2, <4>7, <4>8 DEF IsWritten
    <3>7. CASE ps # <<>>
      <4>1. /\ AreParams(ps, X) /\ Writes(wr, ps, X) /\ wr # <<>>
            /\ p1 \in Middles(X) /\ w = p1
        <5>1. AreParams(<<p1>> \o ps, X) /\ Writes(<<w>> \o wr, <<p1>> \o ps, X)
          BY <2>1, <3>3, <3>4
        <5> QED BY <3>7, <5>1, ParamsBehind
      <4>2. PICK J \in Seq(X) : J = Joined(wr, sp)
        BY <1>0, JoinedIs
      <4>3. TailAt(s, i, w \o (<<sp>> \o J))
        <5>1. Joined(us, sp) = w \o (<<sp>> \o J)
          BY <3>4, <4>1, <4>2, <1>0, JoinedOfFirst
        <5> QED BY <2>1, <5>1
      <4>4. Opens(J)
        <5>1. Opens(wr[1])
          BY <3>7, <4>1, ParamsOpen
        <5>2. wr[1] # <<>>
          BY <5>1 DEF Opens
        <5>3. J # <<>> /\ J[1] = wr[1][1]
          BY <1>0, <4>1, <4>2, <5>2, JoinedBegins
        <5> QED BY <5>1, <5>3 DEF Opens
      <4>5. PICK r : r = w \o (<<sp>> \o J)
        OBVIOUS
      <4>6. w \in Seq(X \ {" "}) /\ w # <<>> /\ w[1] # ":"
        BY <4>1 DEF Middles
      <4>7. Token(r) = w /\ Rest(r) = J
        <5>1. J # <<>> /\ J[1] # " "
          BY <4>4 DEF Opens
        <5>2. Token(w \o (<<" ">> \o J)) = w /\ Rest(w \o (<<" ">> \o J)) = J
          <6>1. " " \in X /\ w \in Seq(X \ {" "})
            BY <4>6 DEF Specials
          <6> QED BY <5>1, <6>1, WordIsTaken
        <5> QED BY <4>5, <5>2 DEF IsSpace
      <4>8. r # <<>> /\ r[1] = w[1]
        <5>1. PICK c : c = <<sp>> \o J
          OBVIOUS
        <5>2. c \in Seq(X) /\ w \in Seq(X) /\ 1 \in 1 .. Len(w)
          <6>1. c \in Seq(X)
            BY <1>0, <5>1
          <6>2. w \in Seq(X) /\ w # <<>>
            BY <4>6
          <6> QED BY <6>1, <6>2
        <5>3. Len(r) = Len(w) + Len(c) /\ r[1] = w[1]
          BY <4>5, <5>1, <5>2, Cuts!ConcatIs
        <5>4. Len(r) > 0
          BY <5>2, <5>3
        <5> QED BY <5>3, <5>4
      <4>9. i <= N /\ s[i] = w[1] /\ From(s, i) = r /\ ~ i > N
        <5>1. TailAt(s, i, r)
          BY <4>3, <4>5
        <5>2. i <= Len(s) /\ s[i] = r[1] /\ From(s, i) = r
          <6> HIDE DEF T, S
          <6> QED BY <1>2, <4>8, <5>1, TailIs
        <5> QED BY <1>4, <4>8, <5>2
      <4>10. PICK j : j = i + Len(w) + 1
        OBVIOUS
      <4>11. NextParam(s, i) = j /\ TailAt(s, j, J)
        <5>1. w \in Seq(X)
          OBVIOUS
        <5>2. i + Len(w) + 1 = Len(s) + 1 - Len(J) /\ TailAt(s, i + Len(w) + 1, J)
          <6>1. s \in Seq(X) /\ sp \in X /\ J \in Seq(X) /\ TailAt(s, i, w \o (<<sp>> \o J))
            BY <1>0, <1>2, <4>3
          <6>2. Continues(s, i, w, J)
            <7> HIDE DEF T, S
            <7> QED BY <5>1, <6>1, SuffixContinues
          <6> QED BY <6>2 DEF Continues
        <5> QED BY <4>7, <4>9, <4>10, <5>2 DEF NextParam
      <4>12. j \in 1 .. N + 1
        BY <1>4, <4>11 DEF TailAt
      <4>13. n # MaxMiddle /\ n + 1 \in 0 .. MaxMiddle /\ n + 1 + Len(ps) <= MaxMiddle + 1
        <5>1. Len(ps) > 0
          BY <3>5, <3>7
        <5> QED BY <1>5, <2>1, <3>3, <3>5, <5>1
      <4>14. from[<<j, n + 1>>] = ps
        <5>1. TakesFrom(from, s, j, n + 1, ps, wr, sp, X)
          BY <1>8, <3>5, <4>12, <4>13
        <5> QED BY <4>1, <4>2, <4>11, <4>13, <5>1 DEF TakesFrom
      <4>15. from[<<i, n>>] = <<w>> \o ps
        <5>1. from[<<i, n>>] = <<Token(From(s, i))>> \o from[<<NextParam(s, i), n + 1>>]
          BY <1>6, <4>6, <4>9, <4>13
        <5> QED BY <4>7, <4>9, <4>11, <4>14, <5>1
      <4> QED BY <3>3, <4>1, <4>15
    <3> QED BY <3>6, <3>7
  <2>2. m + 1 \in 0 .. Len(q)
    OBVIOUS
  <2> QED BY <2>1, <2>2 DEF TakesFrom
<1>9. Len(q) \in T
  <2>1. Len(q) \in Nat /\ Len(q) \in 0 .. Len(q)
    OBVIOUS
  <2>2. 0 .. Len(q) \subseteq T
    <3> HIDE DEF T
    <3> QED BY <1>7, <1>8, <2>1, Cuts!IntervalInduction
  <2> HIDE DEF T
  <2> QED BY <2>1, <2>2
<1>10. TakesFrom(from, s, 1, 0, q, ws, sp, X)
  <2>1. 1 \in 1 .. N + 1 /\ 0 \in 0 .. MaxMiddle
    BY <1>5
  <2> QED BY <1>9, <2>1
<1>11. from[<<1, 0>>] = q
  <2>1. TailAt(s, 1, s)
    <3>1. SubSeq(s, 1, Len(s)) = s /\ 1 \in 1 .. Len(s) + 1
      BY <1>2
    <3> QED BY <3>1 DEF TailAt
  <2>2. 0 + Len(q) <= MaxMiddle + 1
    OBVIOUS
  <2> QED BY <1>1, <1>10, <2>1, <2>2 DEF TakesFrom
<1> QED BY <1>1, <1>3, <1>11

-----------------------------------------------------------------------------
\* The tags, the prefix and the command of a message, each read back from what
\* stands before the rest of the line.

\* A message as it is written holds no end of a line.
Visible(X) == X \ {"CR", "LF"}
Ended(msg) == SubSeq(msg, 1, Max({0} \cup {i \in DOMAIN msg : msg[i] \notin {"CR", "LF"}}))

\* Nothing is taken from the end of such a line.
LEMMA EndIs ==
    ASSUME NEW X, NEW s \in Seq(Visible(X))
    PROVE  Ended(s) = s
<1>1. PICK ends : ends = {"CR", "LF"}
  OBVIOUS
<1>2. s \in Seq(X \ ends)
  BY <1>1 DEF Visible
<1>3. PICK N \in Nat : N = Len(s)
  OBVIOUS
<1>4. DOMAIN s = 1 .. N /\ \A i \in 1 .. N : s[i] \notin ends
  BY <1>2, <1>3
<1>5. {0} \cup {i \in DOMAIN s : s[i] \notin ends} = 0 .. N
  BY <1>4
<1>6. Max(0 .. N) = N
  <2>1. N \in 0 .. N /\ \A y \in 0 .. N : N >= y
    OBVIOUS
  <2>2. \A x \in 0 .. N : (\A y \in 0 .. N : x >= y) => x = N
    OBVIOUS
  <2> QED BY <2>1, <2>2 DEF Max
<1>7. Ended(s) = SubSeq(s, 1, N)
  BY <1>1, <1>5, <1>6 DEF Ended
<1>8. SubSeq(s, 1, N) = s
  BY <1>2, <1>3
<1> QED BY <1>7, <1>8

-----------------------------------------------------------------------------
\* Tags.
Keys(X) == Seq(X \ (Breaks \cup {"="})) \ {<<>>}
Tags(X) == [k : Keys(X), v : Seq(X)]

\* A tag is written without a symbol that would end it, and read back.
LEMMA TagIsUndone ==
    ASSUME NEW X, Specials \subseteq X, NEW tag \in Tags(X)
    PROVE  WriteTag(tag) \in Seq(X \ Breaks) \ {<<>>} /\ ParseTag(WriteTag(tag)) = tag
<1>1. PICK k, v, eq, e : k = tag.k /\ v = tag.v /\ eq = "=" /\ e = EscapeTagValue(v)
  OBVIOUS
<1>2. k \in Keys(X) /\ v \in Seq(X) /\ tag = [k |-> k, v |-> v]
  BY <1>1 DEF Tags
<1>3. k \in Seq((X \ Breaks) \ {eq}) /\ k \in Seq(X \ Breaks) /\ k # <<>>
  BY <1>1, <1>2 DEF Keys
<1>4. e \in Seq(X \ Breaks) /\ UnescapeTagValue(e) = v
  <2>1. EscapeTagValue(v) \in Seq(X \ Breaks)
    BY <1>2, EscapeIs
  <2>2. UnescapeTagValue(EscapeTagValue(v)) = v
    BY <1>2, EscapeIsUndone
  <2> QED BY <1>1, <2>1, <2>2
<1>5. eq \in X \ Breaks
  BY <1>1 DEF Specials, Breaks
<1>6. PICK w : w = WriteTag(tag)
  OBVIOUS
<1>7. w = k \o (IF v = <<>> THEN <<>> ELSE <<eq>> \o e)
  BY <1>1, <1>6 DEF WriteTag
<1>8. w \in Seq(X \ Breaks) /\ w # <<>> /\ Before(w, eq) = k /\ UnescapeTagValue(After(w, eq)) = v
  <2>1. CASE v = <<>>
    <3>1. w = k
      BY <1>3, <1>7, <2>1
    <3>2. Before(w, eq) = k /\ After(w, eq) = <<>>
      BY <1>3, <3>1, FoundNowhere
    <3>3. e = <<>>
      BY <1>1, <2>1, EscapeOfNothing
    <3> QED BY <1>3, <1>4, <3>1, <3>2, <3>3
  <2>2. CASE v # <<>>
    <3>1. w = k \o (<<eq>> \o e)
      BY <1>7, <2>2
    <3>2. k \o (<<eq>> \o e) \in Seq(X \ Breaks) /\ IsCut(k \o (<<eq>> \o e), k, eq, e)
      BY <1>3, <1>4, <1>5, FoundAt
    <3>3. w \in Seq(X \ Breaks) /\ IsCut(w, k, eq, e)
      BY <3>1, <3>2
    <3>4. Len(w) = Len(k) + 1 + Len(e) /\ Len(k) \in Nat /\ Len(e) \in Nat
      BY <1>3, <1>4, <3>3 DEF IsCut
    <3>5. w # <<>>
      BY <3>4
    <3> QED BY <1>4, <3>3, <3>5 DEF IsCut
  <2> QED BY <2>1, <2>2
<1>9. ParseTag(w) = [k |-> k, v |-> v]
  BY <1>1, <1>8 DEF ParseTag
<1> QED BY <1>2, <1>6, <1>8, <1>9

\* All the tags of a message, written and read.
WrittenTags(tags) == [i \in DOMAIN tags |-> WriteTag(tags[i])]
ParsedTags(ts) == [i \in DOMAIN ts |-> ParseTag(ts[i])]

\* Tags joined by semicolons are split and read back, whatever their values hold.
LEMMA TagsAreUndone ==
    ASSUME NEW X, Specials \subseteq X, NEW tags \in Seq(Tags(X))
    PROVE  /\ Joined(WrittenTags(tags), ";") \in Seq(X \ {" ", "CR", "LF"})
           /\ ParsedTags(Split(Joined(WrittenTags(tags), ";"), ";")) = tags
<1>1. PICK semi, B, ws : semi = ";" /\ B = X \ {" ", "CR", "LF"} /\ ws = WrittenTags(tags)
  OBVIOUS
<1>2. semi \in B /\ B \subseteq X /\ B \ {semi} = X \ Breaks
  BY <1>1 DEF Specials, Breaks
<1>3. PICK I : I = Seq(B \ {semi}) \ {<<>>}
  OBVIOUS
<1>4. DOMAIN tags = 1 .. Len(tags) /\ Len(tags) \in Nat /\ \A i \in 1 .. Len(tags) : tags[i] \in Tags(X)
  OBVIOUS
<1>5. \A i \in 1 .. Len(tags) : WriteTag(tags[i]) \in I /\ ParseTag(WriteTag(tags[i])) = tags[i]
  BY <1>2, <1>3, <1>4, TagIsUndone
<1>6. ws \in Seq(I) /\ Len(ws) = Len(tags) /\ \A i \in 1 .. Len(tags) : ws[i] = WriteTag(tags[i])
  <2>1. ws = [i \in 1 .. Len(tags) |-> WriteTag(tags[i])]
    BY <1>1, <1>4 DEF WrittenTags
  <2> QED BY <1>4, <1>5, <2>1
<1>7. I \subseteq Seq(B) /\ ws \in Seq(Seq(B))
  BY <1>3, <1>6
<1>8. Joined(ws, semi) \in Seq(B)
  BY <1>2, <1>7, JoinedIs
<1>9. Split(Joined(ws, semi), semi) = ws
  <2>1. ws \in Seq(Seq(B \ {semi}) \ {<<>>})
    BY <1>3, <1>6
  <2> QED BY <1>2, <2>1, SplitOfJoined
<1>10. ParsedTags(ws) = tags
  <2>1. DOMAIN ws = 1 .. Len(tags)
    BY <1>4, <1>6
  <2>2. ParsedTags(ws) = [i \in 1 .. Len(tags) |-> tags[i]]
    BY <1>5, <1>6, <2>1 DEF ParsedTags
  <2> QED BY <1>4, <2>2
<1> QED BY <1>1, <1>8, <1>9, <1>10

\* A prefix: a nick, which a user and a host may follow.
Names(X) == Seq(X \ {" ", "!", "@", "CR", "LF"})
Origins(X) == {NoPrefix} \cup [nick : Names(X) \ {<<>>}, user : Names(X), host : Names(X)]

\* The part between two others.
LEMMA MiddleIs ==
    ASSUME NEW X, NEW a \in Seq(X), NEW b \in Seq(X), NEW c \in Seq(X)
    PROVE  SubSeq((a \o b) \o c, Len(a) + 1, Len(a) + Len(b)) = b
<1>1. PICK s, p, n : s = (a \o b) \o c /\ p = Len(a) /\ n = Len(b)
  OBVIOUS
<1>2. p \in Nat /\ n \in Nat /\ s \in Seq(X) /\ Len(s) = p + n + Len(c) /\ Len(c) \in Nat
  BY <1>1
<1>3. \A k \in 1 .. n : s[p + k] = b[k]
  BY <1>1
<1>4. PICK t : t = SubSeq(s, p + 1, p + n)
  OBVIOUS
<1>5. t \in Seq(X) /\ Len(t) = n
  BY <1>2, <1>4
<1>6. \A k \in 1 .. n : t[k] = s[p + k]
  BY <1>2, <1>4
<1>7. t = b
  BY <1>1, <1>3, <1>5, <1>6, Cuts!SameSequence
<1> QED BY <1>1, <1>4, <1>7

\* Four parts, joined in two orders.
Regroups(a, b, c, d) == (a \o (b \o c)) \o d = a \o (b \o (c \o d))

LEMMA RegroupedAre ==
    ASSUME NEW X, NEW a \in Seq(X), NEW b \in Seq(X), NEW c \in Seq(X), NEW d \in Seq(X)
    PROVE  Regroups(a, b, c, d)
<1>1. PICK e : e = b \o c
  OBVIOUS
<1>2. e \in Seq(X)
  BY <1>1, Cuts!ConcatIs
<1>3. Associates(b, c, d) /\ Associates(a, e, d)
  BY <1>2, AllAssociate, Zenon
<1> QED BY <1>1, <1>3, Zenon DEF Regroups, Associates

\* A prefix is written without a space, and its nick, user and host are read back,
\* the last two also when there are none.
LEMMA PrefixIsUndone ==
    ASSUME NEW X, Specials \subseteq X, NEW p \in Origins(X), p # NoPrefix
    PROVE  WritePrefix(p) \in Seq(X \ {" ", "CR", "LF"}) /\ ParsePrefix(WritePrefix(p)) = p
<1>1. PICK B, bang, at, n, u, h :
          /\ B = X \ {" ", "CR", "LF"} /\ bang = "!" /\ at = "@"
          /\ n = p.nick /\ u = p.user /\ h = p.host
  OBVIOUS
<1>2. /\ p = [nick |-> n, user |-> u, host |-> h]
      /\ n \in Names(X) /\ n # <<>> /\ u \in Names(X) /\ h \in Names(X)
  BY <1>1 DEF Origins
<1>3. bang \in B /\ at \in B /\ bang # at
  BY <1>1 DEF Specials
<1>4. Names(X) \subseteq Seq((B \ {bang}) \ {at})
  <2>1. X \ {" ", "!", "@", "CR", "LF"} = (B \ {bang}) \ {at}
    BY <1>1
  <2> QED BY <2>1 DEF Names
<1>5. ASSUME NEW t \in Names(X)
      PROVE  t \in Seq(B) /\ t \in Seq(B \ {bang}) /\ t \in Seq(B \ {at})
  <2>1. t \in Seq((B \ {bang}) \ {at})
    BY <1>4, <1>5
  <2> QED BY <2>1
<1>6. PICK w : w = WritePrefix(p)
  OBVIOUS
<1>7. PICK U, H : /\ U = IF u = <<>> THEN <<>> ELSE <<bang>> \o u
                  /\ H = IF h = <<>> THEN <<>> ELSE <<at>> \o h
  OBVIOUS
<1>8. w = (n \o U) \o H
  BY <1>1, <1>6, <1>7 DEF WritePrefix
<1>9. n \in Seq(B) /\ u \in Seq(B) /\ h \in Seq(B) /\ U \in Seq(B) /\ H \in Seq(B)
  <2>1. n \in Seq(B) /\ u \in Seq(B) /\ h \in Seq(B)
    BY <1>2, <1>5
  <2>2. <<bang>> \o u \in Seq(B) /\ <<at>> \o h \in Seq(B) /\ <<>> \in Seq(B)
    BY <1>3, <2>1
  <2> QED BY <1>7, <2>1, <2>2
<1>10. w \in Seq(B)
  <2>1. n \o U \in Seq(B)
    BY <1>9
  <2> QED BY <1>8, <1>9, <2>1
<1>11. ParsePrefix(w) =
          IF Find(w, bang) = 0 /\ Find(w, at) = 0 THEN [nick |-> w, user |-> <<>>, host |-> <<>>]
          ELSE IF Find(w, at) = 0 THEN [nick |-> Before(w, bang), user |-> After(w, bang), host |-> <<>>]
          ELSE IF Find(w, bang) = 0 THEN [nick |-> Before(w, at), user |-> <<>>, host |-> After(w, at)]
          ELSE [nick |-> Before(w, bang),
                user |-> IF Find(w, bang) < Find(w, at)
                         THEN SubSeq(w, Find(w, bang) + 1, Find(w, at) - 1) ELSE After(w, bang),
                host |-> After(w, at)]
  BY <1>1 DEF ParsePrefix
<1>12. ParsePrefix(w) = [nick |-> n, user |-> u, host |-> h]
  <2>1. CASE u = <<>> /\ h = <<>>
    <3>1. w = n
      BY <1>7, <1>8, <1>9, <2>1
    <3>2. Find(w, bang) = 0 /\ Find(w, at) = 0
      BY <1>2, <1>5, <3>1, FoundNowhere
    <3> QED BY <1>11, <2>1, <3>1, <3>2
  <2>2. CASE u = <<>> /\ h # <<>>
    <3>1. w = n \o (<<at>> \o h)
      BY <1>7, <1>8, <1>9, <2>2
    <3>2. w \in Seq(B \ {bang})
      <4>1. n \in Seq(B \ {bang}) /\ h \in Seq(B \ {bang}) /\ at \in B \ {bang}
        BY <1>2, <1>3, <1>5
      <4>2. <<at>> \o h \in Seq(B \ {bang})
        BY <4>1
      <4> QED BY <3>1, <4>1, <4>2
    <3>3. Find(w, bang) = 0
      BY <3>2, FoundNowhere
    <3>4. IsCut(w, n, at, h)
      BY <1>2, <1>3, <1>5, <1>9, <3>1, FoundAt
    <3>5. Find(w, at) # 0
      BY <1>9, <3>4 DEF IsCut
    <3>6. Before(w, at) = n /\ After(w, at) = h
      BY <3>4 DEF IsCut
    <3> QED BY <1>11, <2>2, <3>3, <3>5, <3>6
  <2>3. CASE u # <<>> /\ h = <<>>
    <3>1. w = n \o (<<bang>> \o u)
      BY <1>7, <1>8, <1>9, <2>3
    <3>2. w \in Seq(B \ {at})
      <4>1. n \in Seq(B \ {at}) /\ u \in Seq(B \ {at}) /\ bang \in B \ {at}
        BY <1>2, <1>3, <1>5
      <4>2. <<bang>> \o u \in Seq(B \ {at})
        BY <4>1
      <4> QED BY <3>1, <4>1, <4>2
    <3>3. Find(w, at) = 0
      BY <3>2, FoundNowhere
    <3>4. IsCut(w, n, bang, u)
      BY <1>2, <1>3, <1>5, <1>9, <3>1, FoundAt
    <3>5. Find(w, bang) # 0
      BY <1>9, <3>4 DEF IsCut
    <3>6. Before(w, bang) = n /\ After(w, bang) = u
      BY <3>4 DEF IsCut
    <3> QED BY <1>11, <2>3, <3>3, <3>5, <3>6
  <2>4. CASE u # <<>> /\ h # <<>>
    <3>1. PICK nu, uh : nu = n \o (<<bang>> \o u) /\ uh = u \o (<<at>> \o h)
      OBVIOUS
    <3>2. nu \in Seq(B \ {at}) /\ nu \in Seq(B)
      <4>1. n \in Seq(B \ {at}) /\ u \in Seq(B \ {at}) /\ bang \in B \ {at}
        BY <1>2, <1>3, <1>5
      <4>2. <<bang>> \o u \in Seq(B \ {at})
        BY <4>1
      <4>3. nu \in Seq(B \ {at})
        BY <3>1, <4>1, <4>2
      <4> QED BY <4>3
    <3>3. uh \in Seq(B)
      <4>1. <<at>> \o h \in Seq(B)
        BY <1>3, <1>9
      <4> QED BY <1>9, <3>1, <4>1
    <3>4. w = nu \o (<<at>> \o h)
      BY <1>7, <1>8, <2>4, <3>1
    <3>5. w = n \o (<<bang>> \o uh)
      <4>1. PICK b1, a1 : b1 = <<bang>> /\ a1 = <<at>> \o h
        OBVIOUS
      <4>2. b1 \in Seq(B) /\ a1 \in Seq(B)
        BY <1>3, <1>9, <4>1
      <4>3. Regroups(n, b1, u, a1)
        BY <1>9, <4>2, RegroupedAre
      <4> QED BY <3>1, <3>4, <4>1, <4>3 DEF Regroups
    <3>6. IsCut(w, nu, at, h)
      BY <1>3, <1>9, <3>2, <3>4, FoundAt
    <3>7. IsCut(w, n, bang, uh)
      <4>1. n \in Seq(B \ {bang})
        BY <1>2, <1>5
      <4> QED BY <1>3, <3>3, <3>5, <4>1, FoundAt
    <3>8. PICK ln, lu : ln = Len(n) /\ lu = Len(u)
      OBVIOUS
    <3>9. ln \in Nat /\ lu \in Nat /\ Len(nu) = ln + 1 + lu
      <4>1. Len(n) \in Nat /\ Len(u) \in Nat
        BY <1>9
      <4>2. IsCut(nu, n, bang, u)
        BY <1>2, <1>3, <1>5, <1>9, <3>1, FoundAt
      <4> QED BY <3>8, <4>1, <4>2 DEF IsCut
    <3>10. Find(w, bang) = ln + 1 /\ Find(w, at) = ln + 1 + lu + 1
      BY <3>6, <3>7, <3>8, <3>9 DEF IsCut
    <3>11. SubSeq(w, ln + 2, ln + 1 + lu) = u
      <4>1. PICK nb, a1 : nb = n \o <<bang>> /\ a1 = <<at>> \o h
        OBVIOUS
      <4>2. nb \in Seq(B) /\ Len(nb) = ln + 1 /\ a1 \in Seq(B) /\ u \in Seq(B)
        BY <1>3, <1>9, <3>8, <4>1
      <4>3. w = (nb \o u) \o a1
        <5>1. nu = nb \o u
          <6>1. n \in Seq(B) /\ bang \in B /\ u \in Seq(B)
            BY <1>3, <1>9
          <6>2. MovesOver(n, bang, u)
            BY <6>1, MovedOver, Zenon
          <6> QED BY <3>1, <4>1, <6>2, Zenon DEF MovesOver
        <5> QED BY <3>4, <4>1, <5>1
      <4>4. SubSeq(w, Len(nb) + 1, Len(nb) + Len(u)) = u
        BY <4>2, <4>3, MiddleIs
      <4>5. Len(nb) + 1 = ln + 2 /\ Len(nb) + Len(u) = ln + 1 + lu
        BY <3>8, <3>9, <4>2
      <4> QED BY <4>4, <4>5
    <3>12. /\ ln + 1 # 0 /\ ln + 1 + lu + 1 # 0 /\ ln + 1 < ln + 1 + lu + 1
           /\ ln + 1 + 1 = ln + 2 /\ ln + 1 + lu + 1 - 1 = ln + 1 + lu
      BY <3>9
    <3>13. Before(w, bang) = n /\ After(w, at) = h
      BY <3>6, <3>7 DEF IsCut
    <3>14. PICK f, g : f = Find(w, bang) /\ g = Find(w, at)
      OBVIOUS
    <3>a. f = ln + 1 /\ g = ln + 1 + lu + 1
      BY <3>10, <3>14
    <3>15. f # 0 /\ g # 0 /\ f < g /\ f + 1 = ln + 2 /\ g - 1 = ln + 1 + lu
      BY ONLY <3>9, <3>a
    <3>16. SubSeq(w, f + 1, g - 1) = u
      BY <3>11, <3>15
    <3> QED BY <1>11, <3>13, <3>14, <3>15, <3>16
  <2> QED BY <2>1, <2>2, <2>3, <2>4
<1> QED BY <1>1, <1>2, <1>6, <1>10, <1>12

\* What stands before the body: a symbol that announces it, a word and a space.
Affix(x, word, behind) == ((<<x>> \o word) \o <<" ">>) \o behind

\* From the line the reader takes the symbol and the word, and goes on behind them.
LeadsOn(line, x, word, behind) ==
    /\ Opens(line) /\ line[1] = x
    /\ Tail(Token(line)) = word /\ Rest(line) = behind

Words(X) == Seq(X \ {" "})

\* So tags and the prefix are taken from the line, one after the other.
LEMMA AffixIsTaken ==
    ASSUME NEW X, Specials \subseteq X, NEW x \in X, ~IsSpace(x),
           NEW word \in Words(X), NEW behind \in Seq(X), Opens(behind)
    PROVE  /\ Affix(x, word, behind) \in Seq(X)
           /\ LeadsOn(Affix(x, word, behind), x, word, behind)
<1>1. PICK sp, one, gap, w, line :
          sp = " " /\ one = <<x>> /\ gap = <<sp>> /\ w = one \o word /\ line = Affix(x, word, behind)
  OBVIOUS
<1>2. PICK Z : Z = X \ {sp}
  OBVIOUS
<1>3. sp \in X /\ x \in Z /\ word \in Seq(Z) /\ Seq(Z) \subseteq Seq(X)
  <2>1. sp \in X /\ x \in Z
    BY <1>1, <1>2 DEF Specials, IsSpace
  <2>2. Z \subseteq X /\ word \in Seq(Z)
    BY <1>1, <1>2 DEF Words
  <2> QED BY <2>1, <2>2
<1>4. /\ w \in Seq(Z) /\ w[1] = x /\ Tail(w) = word /\ w # <<>>
      /\ 1 \in 1 .. Len(w)
  <2>1. w = <<x>> \o word /\ x \in Z /\ word \in Seq(Z)
    BY <1>1, <1>3
  <2> QED BY ONLY <2>1
<1>5. w \in Seq(X)
  BY <1>3, <1>4
<1>7. PICK c : c = gap \o behind
  OBVIOUS
<1>8. gap \in Seq(X) /\ c \in Seq(X)
  <2>1. gap = <<sp>> /\ sp \in X
    BY <1>1, <1>3
  <2> QED BY ONLY <1>7, <2>1, behind \in Seq(X)
<1>6. line = w \o c
  <2>1. line = (w \o gap) \o behind
    BY <1>1 DEF Affix
  <2>2. gap \in Seq(X)
    BY <1>8
  <2>3. (w \o gap) \o behind = w \o (gap \o behind)
    BY ONLY <1>5, <2>2, behind \in Seq(X)
  <2> QED BY <1>7, <2>1, <2>3
<1>9. line \in Seq(X) /\ line[1] = x /\ line # <<>>
  <2>1. c \in Seq(X) /\ w[1] = x /\ 1 \in 1 .. Len(w)
    BY <1>4, <1>8
  <2> QED BY ONLY <1>5, <1>6, <2>1
<1>10. Opens(line)
  <2>1. x # " "
    BY DEF IsSpace
  <2> QED BY <1>9, <2>1 DEF Opens
<1>11. Token(line) = w /\ Rest(line) = behind
  <2>1. behind # <<>> /\ behind[1] # " "
    BY DEF Opens
  <2>2. line = w \o (<<" ">> \o behind)
    BY <1>1, <1>6, <1>7
  <2>3. " " \in X /\ w \in Seq(X \ {" "})
    BY <1>1, <1>2, <1>3, <1>4
  <2> QED BY <2>1, <2>2, <2>3, WordIsTaken
<1> QED BY <1>1, <1>4, <1>9, <1>10, <1>11 DEF LeadsOn

-----------------------------------------------------------------------------
\* The body: a command, and the parameters.
Commands(X) == {c \in Seq(X \ {" ", "CR", "LF"}) : c # <<>> /\ c[1] \notin {":", "@"}}

\* The parameters as serializeMsg writes them, and the body it joins.
WrittenParams(q) == [i \in DOMAIN q |-> WriteParam(q[i], i = Len(q))]
Body(c, q) == Joined(<<c>> \o WrittenParams(q), " ")

\* They are written as the reader expects.
LEMMA WrittenParamsAre ==
    ASSUME NEW X, Specials \subseteq X, NEW q \in Seq(Seq(Visible(X)))
    PROVE  WrittenParams(q) \in Seq(Seq(Visible(X))) /\ Writes(WrittenParams(q), q, X)
<1>1. PICK Y, ws : Y = Visible(X) /\ ws = WrittenParams(q)
  OBVIOUS
<1>2. DOMAIN q = 1 .. Len(q) /\ Len(q) \in Nat
  OBVIOUS
<1>3. ws = [i \in 1 .. Len(q) |-> WriteParam(q[i], i = Len(q))]
  BY <1>1, <1>2 DEF WrittenParams
<1>4. ASSUME NEW i \in 1 .. Len(q) PROVE WriteParam(q[i], i = Len(q)) \in Seq(Y)
  <2>1. PICK p : p = q[i]
    OBVIOUS
  <2>2. p \in Seq(Y)
    BY <1>1, <2>1
  <2>3. <<":">> \o p \in Seq(Y)
    <3>1. PICK y : y = ":"
      OBVIOUS
    <3>2. y \in Y
      BY <1>1, <3>1 DEF Visible, Specials
    <3>3. <<y>> \o p \in Seq(Y)
      BY <2>2, <3>2
    <3> QED BY <3>1, <3>3
  <2> QED BY <2>1, <2>2, <2>3 DEF WriteParam
<1>5. ws \in Seq(Seq(Y)) /\ Len(ws) = Len(q)
  <2>1. PICK f : f = [i \in 1 .. Len(q) |-> WriteParam(q[i], i = Len(q))]
    OBVIOUS
  <2>2. f \in [1 .. Len(q) -> Seq(Y)]
    BY <1>4, <2>1
  <2>3. ws \in [1 .. Len(q) -> Seq(Y)]
    BY <1>3, <2>1, <2>2
  <2>4. PICK S, n : S = Seq(Y) /\ n = Len(q)
    OBVIOUS
  <2>5. n \in Nat /\ ws \in [1 .. n -> S]
    BY <1>2, <2>3, <2>4
  <2>6. ws \in Seq(S) /\ Len(ws) = n
    BY ONLY <2>5
  <2> QED BY <2>4, <2>6
<1>6. ASSUME NEW k \in 1 .. Len(q)
      PROVE  IF k = Len(q) THEN IsWritten(ws[k], q[k], X) ELSE ws[k] = q[k]
  <2>1. PICK p : p = q[k]
    OBVIOUS
  <2>2. p \in Seq(X)
    <3>1. p \in Seq(Y) /\ Y \subseteq X
      BY <1>1, <2>1 DEF Visible
    <3> QED BY <3>1
  <2>3. IsWritten(WriteParam(p, TRUE), p, X) /\ WriteParam(p, FALSE) = p
    BY <2>2, WrittenIs
  <2>4. ws[k] = WriteParam(p, k = Len(q))
    BY <1>3, <2>1
  <2>5. CASE k = Len(q)
    <3>1. (k = Len(q)) = TRUE
      BY <2>5
    <3> QED BY <2>1, <2>3, <2>4, <2>5, <3>1
  <2>6. CASE k # Len(q)
    <3>1. (k = Len(q)) = FALSE
      BY <2>6
    <3> QED BY <2>1, <2>3, <2>4, <2>6, <3>1
  <2> QED BY <2>5, <2>6
<1>7. Writes(ws, q, X)
  BY <1>5, <1>6 DEF Writes
<1> QED BY <1>1, <1>5, <1>7

\* The command and the parameters are read from the body.
BodyIsRead(body, c, q) ==
    /\ Opens(body) /\ body[1] = c[1]
    /\ Token(body) = c /\ ParseParams(Rest(body)) = q

\* They are read back from any body that writes them so.
LEMMA BodyIsTaken ==
    ASSUME NEW X, Specials \subseteq X, NEW c \in Commands(X),
           NEW q \in Seq(Seq(Visible(X))), AreParams(q, X), Len(q) <= MaxMiddle + 1,
           NEW ws \in Seq(Seq(Visible(X))), Writes(ws, q, X)
    PROVE  /\ Joined(<<c>> \o ws, " ") \in Seq(Visible(X))
           /\ BodyIsRead(Joined(<<c>> \o ws, " "), c, q)
<1>1. PICK sp, Y, body : sp = " " /\ Y = Visible(X) /\ body = Joined(<<c>> \o ws, " ")
  OBVIOUS
<1>2. sp \in Y /\ sp \in X /\ Y \subseteq X /\ IsSpace(sp)
  BY <1>1 DEF Visible, Specials, IsSpace
<1>3. ws \in Seq(Seq(Y)) /\ Writes(ws, q, X)
  BY <1>1
<1>4. c \in Seq(X \ {sp}) /\ c \in Seq(Y) /\ c # <<>> /\ c[1] # sp
  <2>1. c \in Seq(X \ {" ", "CR", "LF"}) /\ c # <<>>
    BY DEF Commands
  <2>2. X \ {" ", "CR", "LF"} = Y \ {sp}
    BY <1>1 DEF Visible
  <2>3. c \in Seq(Y \ {sp})
    BY <2>1, <2>2
  <2>4. c # <<>> /\ Y \ {sp} \subseteq Y /\ Y \ {sp} \subseteq X \ {sp}
    BY <1>2, <2>1
  <2>5. PICK Z : Z = Y \ {sp}
    OBVIOUS
  <2>6. c \in Seq(Z) /\ sp \notin Z /\ Z \subseteq Y /\ Z \subseteq X \ {sp}
    BY <2>3, <2>4, <2>5
  <2>7. 1 \in 1 .. Len(c) /\ c[1] \in Z
    BY ONLY <2>4, <2>6
  <2> QED BY <2>4, <2>6, <2>7
<1>5. ws \in Seq(Seq(X)) /\ q \in Seq(Seq(X)) /\ Seq(Y) \subseteq Seq(X)
  <2>1. Seq(Y) \subseteq Seq(X)
    BY <1>2
  <2>2. q \in Seq(Seq(Y))
    BY <1>1
  <2> QED BY <1>3, <2>1, <2>2
<1>6. body = Joined(<<c>> \o ws, sp)
  BY <1>1
<1>7. CASE q = <<>>
  <2>1. ws = <<>>
    <3>1. Len(ws) = 0
      BY <1>3, <1>7 DEF Writes
    <3> QED BY <1>3, <3>1
  <2>2. <<c>> \o ws = <<c>>
    BY <2>1
  <2>3. body = c
    BY <1>2, <1>4, <1>6, <2>2, JoinedOfOne
  <2>4. Before(c, sp) = c /\ After(c, sp) = <<>>
    BY <1>4, FoundNowhere
  <2>5. Token(body) = c /\ Rest(body) = <<>>
    BY <1>1, <2>3, <2>4, NothingTrimmed DEF Token, Rest
  <2>6. ParseParams(<<>>) = q
    <3>1. Joined(ws, sp) = <<>>
      BY <2>1, JoinedOfNothing
    <3>2. ParseParams(Joined(ws, sp)) = q
      BY <1>2, <1>3, <1>5, ParamsOfJoined
    <3> QED BY <3>1, <3>2
  <2>7. Opens(body) /\ body[1] = c[1]
    BY <1>1, <1>4, <2>3 DEF Opens
  <2> QED BY <1>1, <1>4, <2>3, <2>5, <2>6, <2>7 DEF BodyIsRead
<1>8. CASE q # <<>>
  <2>1. ws # <<>> /\ Opens(ws[1])
    BY <1>3, <1>5, <1>8, ParamsOpen
  <2>2. PICK J : J = Joined(ws, sp)
    OBVIOUS
  <2>3. J \in Seq(Y) /\ J \in Seq(X)
    <3>1. J \in Seq(Y)
      BY <1>2, <1>3, <2>2, JoinedIs
    <3> QED BY <1>5, <3>1
  <2>4. Opens(J)
    <3>1. ws[1] # <<>> /\ ws[1][1] # " "
      BY <2>1 DEF Opens
    <3>2. J # <<>> /\ J[1] = ws[1][1]
      BY <1>2, <1>5, <2>1, <2>2, <3>1, JoinedBegins
    <3> QED BY <3>1, <3>2 DEF Opens
  <2>5. body = c \o (<<sp>> \o J)
    BY <1>2, <1>3, <1>4, <1>6, <2>1, <2>2, JoinedOfFirst
  <2>6. Token(body) = c /\ Rest(body) = J
    <3>1. J # <<>> /\ J[1] # " "
      BY <2>4 DEF Opens
    <3>2. body = c \o (<<" ">> \o J)
      BY <1>1, <2>5
    <3>3. " " \in X /\ c \in Seq(X \ {" "})
      BY <1>1, <1>2, <1>4
    <3> QED BY <2>3, <3>1, <3>2, <3>3, WordIsTaken
  <2>7. ParseParams(J) = q
    BY <1>2, <1>3, <1>5, <2>2, ParamsOfJoined
  <2>8. PICK t : t = <<sp>> \o J
    OBVIOUS
  <2>9. t \in Seq(Y)
    BY <1>2, <2>3, <2>8
  <2>10. body \in Seq(Y) /\ body # <<>> /\ body[1] = c[1]
    <3>1. body = c \o t /\ c \in Seq(Y) /\ c # <<>>
      BY <1>4, <2>5, <2>8
    <3>2. 1 \in 1 .. Len(c)
      BY <3>1
    <3> QED BY ONLY <2>9, <3>1, <3>2
  <2>11. Opens(body)
    BY <1>1, <1>4, <2>10 DEF Opens
  <2> QED BY <1>1, <2>6, <2>7, <2>10, <2>11 DEF BodyIsRead
<1> QED BY <1>7, <1>8

LEMMA AffixIs ==
    ASSUME NEW X, NEW x \in X, NEW sp \in X, IsSpace(sp), NEW word \in Seq(X), NEW behind \in Seq(X)
    PROVE  Affix(x, word, behind) \in Seq(X)
<1>1. PICK one, gap : one = <<x>> /\ gap = <<sp>>
  OBVIOUS
<1>2. one \in Seq(X) /\ gap \in Seq(X)
  BY <1>1
<1>3. one \o word \in Seq(X)
  BY <1>2
<1>4. ((one \o word) \o gap) \o behind \in Seq(X)
  BY <1>2, <1>3
<1> QED BY <1>1, <1>4 DEF Affix, IsSpace

\* A text over some symbols is one over more.
LEMMA SymbolsAdded ==
    ASSUME NEW Z, NEW W, Z \subseteq W, NEW t \in Seq(Z)
    PROVE  t \in Seq(W)
  OBVIOUS

\* A word of a line, in either of two ways.
LEMMA WordIsBoth ==
    ASSUME NEW X, NEW t \in Seq(X \ {" ", "CR", "LF"})
    PROVE  t \in Words(X) /\ t \in Seq(Visible(X))
<1>1. PICK Z, W, V : Z = X \ {" ", "CR", "LF"} /\ W = X \ {" "} /\ V = Visible(X)
  OBVIOUS
<1>2. Z \subseteq W /\ Z \subseteq V
  BY <1>1 DEF Visible
<1>3. t \in Seq(Z)
  BY <1>1
<1>4. t \in Seq(W) /\ t \in Seq(V)
  BY <1>2, <1>3, SymbolsAdded
<1> QED BY <1>1, <1>4 DEF Words

\* tokenizeMsg, behind the end of the line and the spaces it begins with.
Parsed(line) ==
    LET hasTags == line # <<>> /\ line[1] = "@"
        untagged == IF hasTags THEN Rest(line) ELSE line
        hasPrefix == untagged # <<>> /\ untagged[1] = ":"
        body == IF hasPrefix THEN Rest(untagged) ELSE untagged
    IN  [tags    |-> IF hasTags THEN ParsedTags(Split(Tail(Token(line)), ";")) ELSE <<>>,
         prefix  |-> IF hasPrefix THEN ParsePrefix(Tail(Token(untagged))) ELSE NoPrefix,
         command |-> Token(body),
         params  |-> ParseParams(Rest(body)),
         valid   |-> body # <<>>]

\* tokenizeMsg drops the end of the line and the spaces in front, and parses the rest.
LEMMA TokenizeIs ==
    ASSUME NEW msg
    PROVE  TokenizeMsg(msg) = Parsed(TrimFront(Ended(msg)))
BY DEF TokenizeMsg, Parsed, Ended, ParsedTags

\* The messages whose parts can be told apart, over any alphabet.
Messages(X) ==
    {m \in [tags : Seq(Tags(X)), prefix : Origins(X), command : Commands(X),
            params : Seq(Seq(Visible(X))), valid : {TRUE}] :
        AreParams(m.params, X) /\ Len(m.params) <= MaxMiddle + 1}

\* The line as it is put together, from the end to the beginning.
WithPrefix(p, body) == IF p = NoPrefix THEN body ELSE Affix(":", WritePrefix(p), body)
WithTags(tags, rest) ==
    IF tags = <<>> THEN rest ELSE Affix("@", Joined(WrittenTags(tags), ";"), rest)

\* serializeMsg puts it together so.
LEMMA SerializeIs ==
    ASSUME NEW X, Specials \subseteq X, NEW m \in Messages(X)
    PROVE  /\ SerializeMsg(m) = WithTags(m.tags, WithPrefix(m.prefix, Body(m.command, m.params)))
           /\ SerializeMsg(m) \in Seq(Visible(X))
           /\ WithPrefix(m.prefix, Body(m.command, m.params)) \in Seq(Visible(X))
<1>1. PICK tags, p, c, q : tags = m.tags /\ p = m.prefix /\ c = m.command /\ q = m.params
  OBVIOUS
<1>2. /\ tags \in Seq(Tags(X)) /\ p \in Origins(X) /\ c \in Commands(X) /\ q \in Seq(Seq(Visible(X)))
      /\ AreParams(q, X) /\ Len(q) <= MaxMiddle + 1
  BY <1>1 DEF Messages
<1>3. PICK Y, sp, at, colon : Y = Visible(X) /\ sp = " " /\ at = "@" /\ colon = ":"
  OBVIOUS
<1>4. sp \in Y /\ at \in Y /\ colon \in Y /\ IsSpace(sp)
  BY <1>3 DEF Visible, Specials, IsSpace
<1>5. PICK C, P, T : C = Body(c, q) /\ P = WritePrefix(p) /\ T = Joined(WrittenTags(tags), ";")
  OBVIOUS
<1>6. C \in Seq(Y)
  BY <1>2, <1>3, <1>5, WrittenParamsAre, BodyIsTaken DEF Body
<1>7. T \in Seq(Y)
  <2>1. T \in Seq(X \ {" ", "CR", "LF"})
    BY <1>2, <1>5, TagsAreUndone
  <2> QED BY <1>3, <2>1, WordIsBoth
<1>8. ASSUME p # NoPrefix PROVE P \in Seq(Y)
  <2>1. P \in Seq(X \ {" ", "CR", "LF"})
    BY <1>2, <1>5, <1>8, PrefixIsUndone
  <2> QED BY <1>3, <2>1, WordIsBoth
<1>9. PICK A, B : /\ A = IF tags = <<>> THEN <<>> ELSE (<<at>> \o T) \o <<sp>>
                  /\ B = IF p = NoPrefix THEN <<>> ELSE (<<colon>> \o P) \o <<sp>>
  OBVIOUS
<1>10. SerializeMsg(m) = (A \o B) \o C
  BY <1>1, <1>3, <1>5, <1>9 DEF SerializeMsg, WrittenTags, Body, WrittenParams
<1>11. A \in Seq(Y) /\ B \in Seq(Y)
  <2>1. <<at>> \in Seq(Y) /\ <<sp>> \in Seq(Y) /\ <<colon>> \in Seq(Y) /\ <<>> \in Seq(Y)
    BY <1>4
  <2>2. PICK a1, s1, c1 : a1 = <<at>> /\ s1 = <<sp>> /\ c1 = <<colon>>
    OBVIOUS
  <2>3. a1 \in Seq(Y) /\ s1 \in Seq(Y) /\ c1 \in Seq(Y)
    BY <2>1, <2>2
  <2>4. (a1 \o T) \o s1 \in Seq(Y)
    BY ONLY <1>7, <2>3
  <2>5. p # NoPrefix => (c1 \o P) \o s1 \in Seq(Y)
    BY ONLY <1>8, <2>3
  <2> QED BY <1>9, <2>1, <2>2, <2>4, <2>5
<1>12. PICK U : U = B \o C
  OBVIOUS
<1>13. U \in Seq(Y) /\ (A \o B) \o C = A \o U /\ A \o U \in Seq(Y) /\ <<>> \o U = U /\ <<>> \o C = C
  <2>1. C \in Seq(Y)
    BY ONLY <1>6
  <2>2. U \in Seq(Y)
    BY ONLY <1>11, <1>12, <2>1
  <2>3. A \o U \in Seq(Y) /\ <<>> \o U = U /\ <<>> \o C = C
    BY ONLY <1>11, <2>1, <2>2
  <2>4. Associates(A, B, C)
    BY <1>11, <2>1, AllAssociate, Zenon
  <2> QED BY <1>12, <2>2, <2>3, <2>4, Zenon DEF Associates
<1>14. U = WithPrefix(p, C)
  <2>1. CASE p = NoPrefix
    BY <1>9, <1>12, <1>13, <2>1 DEF WithPrefix
  <2>2. CASE p # NoPrefix
    BY <1>3, <1>5, <1>9, <1>12, <2>2 DEF WithPrefix, Affix
  <2> QED BY <2>1, <2>2
<1>15. A \o U = WithTags(tags, U)
  <2>1. CASE tags = <<>>
    BY <1>9, <1>13, <2>1 DEF WithTags
  <2>2. CASE tags # <<>>
    BY <1>3, <1>5, <1>9, <2>2 DEF WithTags, Affix
  <2> QED BY <2>1, <2>2
<1> QED BY <1>1, <1>3, <1>5, <1>10, <1>13, <1>14, <1>15

\* tokenizeMsg reads back what serializeMsg writes: for any alphabet that holds the
\* symbols of the format and any message over it, with any number of tags, any tag
\* values, and a last parameter that may hold spaces, colons or nothing at all.
THEOREM MessageIsReadBack ==
    ASSUME NEW X, Specials \subseteq X, NEW m \in Messages(X)
    PROVE  TokenizeMsg(SerializeMsg(m)) = m
<1>1. PICK tags, p, c, q : tags = m.tags /\ p = m.prefix /\ c = m.command /\ q = m.params
  OBVIOUS
<1>2. /\ tags \in Seq(Tags(X)) /\ p \in Origins(X) /\ c \in Commands(X) /\ q \in Seq(Seq(Visible(X)))
      /\ AreParams(q, X) /\ Len(q) <= MaxMiddle + 1
  BY <1>1 DEF Messages
<1>3. m = [tags |-> tags, prefix |-> p, command |-> c, params |-> q, valid |-> TRUE]
  BY <1>1 DEF Messages
<1>4. PICK C, P, T : C = Body(c, q) /\ P = WritePrefix(p) /\ T = Joined(WrittenTags(tags), ";")
  OBVIOUS
<1>5. PICK U, line : U = WithPrefix(p, C) /\ line = SerializeMsg(m)
  OBVIOUS
<1>6. line = WithTags(tags, U) /\ line \in Seq(Visible(X)) /\ U \in Seq(Visible(X))
  BY <1>1, <1>4, <1>5, SerializeIs
<1>7. Seq(Visible(X)) \subseteq Seq(X)
  <2>1. Visible(X) \subseteq X
    BY DEF Visible
  <2> QED BY <2>1
<1>8. C \in Seq(X) /\ BodyIsRead(C, c, q)
  <2>1. C \in Seq(Visible(X)) /\ BodyIsRead(C, c, q)
    BY <1>2, <1>4, WrittenParamsAre, BodyIsTaken DEF Body
  <2> QED BY <1>7, <2>1
<1>9. /\ Opens(C) /\ Token(C) = c /\ ParseParams(Rest(C)) = q /\ C # <<>>
      /\ C[1] # ":" /\ C[1] # "@"
  <2>1. Opens(C) /\ Token(C) = c /\ ParseParams(Rest(C)) = q /\ C # <<>> /\ C[1] = c[1]
    BY <1>8 DEF BodyIsRead, Opens
  <2>2. c[1] # ":" /\ c[1] # "@"
    BY <1>2 DEF Commands
  <2> QED BY <2>1, <2>2
<1>10. ":" \in X /\ "@" \in X /\ ~IsSpace(":") /\ ~IsSpace("@")
  BY DEF Specials, IsSpace
\* The prefix.
<1>11. /\ Opens(U) /\ U # <<>> /\ U[1] # "@"
       /\ (IF U[1] = ":" THEN Rest(U) ELSE U) = C
       /\ (IF U[1] = ":" THEN ParsePrefix(Tail(Token(U))) ELSE NoPrefix) = p
  <2>1. CASE p = NoPrefix
    <3>1. U = C
      BY <1>5, <2>1 DEF WithPrefix
    <3> QED BY <1>9, <2>1, <3>1
  <2>2. CASE p # NoPrefix
    <3>1. P \in Seq(X \ {" ", "CR", "LF"}) /\ ParsePrefix(P) = p
      BY <1>2, <1>4, <2>2, PrefixIsUndone
    <3>2. P \in Words(X)
      BY <3>1, WordIsBoth
    <3>3. U = Affix(":", P, C)
      BY <1>4, <1>5, <2>2 DEF WithPrefix
    <3>4. LeadsOn(U, ":", P, C)
      BY <1>8, <1>9, <1>10, <3>2, <3>3, AffixIsTaken
    <3>5. Opens(U) /\ U # <<>> /\ U[1] = ":" /\ Tail(Token(U)) = P /\ Rest(U) = C
      BY <3>4 DEF LeadsOn, Opens
    <3> QED BY <3>1, <3>5
  <2> QED BY <2>1, <2>2
\* The tags.
<1>12. /\ Opens(line) /\ line # <<>>
       /\ (IF line[1] = "@" THEN Rest(line) ELSE line) = U
       /\ (IF line[1] = "@" THEN ParsedTags(Split(Tail(Token(line)), ";")) ELSE <<>>) = tags
  <2>1. CASE tags = <<>>
    <3>1. line = U
      BY <1>6, <2>1 DEF WithTags
    <3> QED BY <1>11, <2>1, <3>1
  <2>2. CASE tags # <<>>
    <3>1. T \in Seq(X \ {" ", "CR", "LF"}) /\ ParsedTags(Split(T, ";")) = tags
      BY <1>2, <1>4, TagsAreUndone
    <3>2. T \in Words(X)
      BY <3>1, WordIsBoth
    <3>3. line = Affix("@", T, U) /\ U \in Seq(X)
      BY <1>4, <1>6, <1>7, <2>2 DEF WithTags
    <3>4. LeadsOn(line, "@", T, U)
      BY <1>10, <1>11, <3>2, <3>3, AffixIsTaken
    <3>5. Opens(line) /\ line # <<>> /\ line[1] = "@" /\ Tail(Token(line)) = T /\ Rest(line) = U
      BY <3>4 DEF LeadsOn, Opens
    <3> QED BY <3>1, <3>5
  <2> QED BY <2>1, <2>2
<1>13. TrimFront(line) = line
  BY <1>6, <1>7, <1>12, NothingToTrim DEF Opens
<1>14. TokenizeMsg(line) = Parsed(line)
  BY <1>6, <1>13, EndIs, TokenizeIs
<1>15. Parsed(line) = [tags |-> tags, prefix |-> p, command |-> c, params |-> q, valid |-> TRUE]
  <2>1. PICK u, b : u = U /\ b = C
    OBVIOUS
  <2>2. (IF line # <<>> /\ line[1] = "@" THEN Rest(line) ELSE line) = u
    BY <1>12, <2>1
  <2>3. (IF u # <<>> /\ u[1] = ":" THEN Rest(u) ELSE u) = b
    BY <1>11, <2>1
  <2>4. Parsed(line) =
           [tags    |-> IF line # <<>> /\ line[1] = "@"
                        THEN ParsedTags(Split(Tail(Token(line)), ";")) ELSE <<>>,
            prefix  |-> IF u # <<>> /\ u[1] = ":" THEN ParsePrefix(Tail(Token(u))) ELSE NoPrefix,
            command |-> Token(b), params |-> ParseParams(Rest(b)), valid |-> b # <<>>]
    BY <2>2, <2>3 DEF Parsed
  <2>5. (b # <<>>) = TRUE
    BY <1>9, <2>1
  <2> QED BY <1>9, <1>11, <1>12, <2>1, <2>4, <2>5
<1> QED BY <1>3, <1>5, <1>14, <1>15

\* What the run compares are messages.
Alphabet == Specials \cup {"a", "b", "CMD"}

\* The message of the run: two tags, one with the value v, a prefix, and n parameters
\* before the last, p.
Sample(n, v, p) ==
    [tags |-> <<[k |-> <<"a">>, v |-> v], [k |-> <<"n">>, v |-> <<>>]>>,
     prefix |-> Client(<<"a">>), command |-> <<"CMD">>,
     params |-> [i \in 1 .. n |-> <<"a">>] \o <<p>>, valid |-> TRUE]

LEMMA SampleIsMessage ==
    ASSUME NEW n \in 0 .. MaxMiddle, NEW v \in Seq(Alphabet), NEW p \in Seq(Visible(Alphabet))
    PROVE  Sample(n, v, p) \in Messages(Alphabet)
<1>0. MaxMiddle \in Nat
  BY TextAssumption
<1>1. PICK X, Y : X = Alphabet /\ Y = Visible(X)
  OBVIOUS
<1>2. ASSUME NEW Z, NEW x \in Z, NEW y \in Z, NEW z \in Z
      PROVE  /\ <<>> \in Seq(Z) /\ <<x>> \in Seq(Z) \ {<<>>}
             /\ <<x, y>> \in Seq(Z) \ {<<>>} /\ <<x, y, z>> \in Seq(Z) /\ <<x>>[1] = x
  OBVIOUS
<1>3. [k |-> <<"a">>, v |-> v] \in Tags(X) /\ [k |-> <<"n">>, v |-> <<>>] \in Tags(X)
  <2>1. "a" \in X \ (Breaks \cup {"="}) /\ "n" \in X \ (Breaks \cup {"="})
    BY <1>1 DEF Alphabet, Specials, Breaks
  <2>2. <<"a">> \in Keys(X) /\ <<"n">> \in Keys(X)
    BY <1>2, <2>1 DEF Keys
  <2>3. <<>> \in Seq(X)
    BY <1>2
  <2> QED BY <1>1, <2>2, <2>3 DEF Tags
<1>4. <<[k |-> <<"a">>, v |-> v], [k |-> <<"n">>, v |-> <<>>]>> \in Seq(Tags(X))
  <2>1. PICK s, t : s = [k |-> <<"a">>, v |-> v] /\ t = [k |-> <<"n">>, v |-> <<>>]
    OBVIOUS
  <2>2. s \in Tags(X) /\ t \in Tags(X)
    BY <1>3, <2>1
  <2>3. <<s, t>> \in Seq(Tags(X))
    BY <1>2, <2>2
  <2> QED BY <2>1, <2>3
<1>5. Client(<<"a">>) \in Origins(X)
  <2>1. /\ "a" \in X \ {" ", "!", "@", "CR", "LF"} /\ "b" \in X \ {" ", "!", "@", "CR", "LF"}
        /\ ":" \in X \ {" ", "!", "@", "CR", "LF"}
    BY <1>1 DEF Alphabet, Specials
  <2>2. <<"a", "b">> \in Names(X) \ {<<>>} /\ <<"a">> \in Names(X) /\ <<"a", ":", "b">> \in Names(X)
    BY <1>2, <2>1 DEF Names
  <2> QED BY <2>2 DEF Origins, Client
<1>6. <<"CMD">> \in Commands(X)
  <2>1. "CMD" \in X \ {" ", "CR", "LF"} /\ "CMD" \notin {":", "@"}
    BY <1>1 DEF Alphabet, Specials
  <2>2. <<"CMD">> \in Seq(X \ {" ", "CR", "LF"}) \ {<<>>} /\ <<"CMD">>[1] = "CMD"
    BY <1>2, <2>1
  <2> QED BY <2>1, <2>2 DEF Commands
<1>7. PICK x, w, q : x = "a" /\ w = <<x>> /\ q = [i \in 1 .. n |-> w] \o <<p>>
  OBVIOUS
<1>8. w \in Seq(Y) /\ w \in Middles(X)
  <2>1. x \in Y /\ x \in X \ {" "} /\ x # ":"
    BY <1>1, <1>7 DEF Alphabet, Specials, Visible
  <2>2. w \in Seq(Y) /\ w \in Seq(X \ {" "}) \ {<<>>} /\ w[1] = x
    BY <1>2, <1>7, <2>1
  <2> QED BY <2>1, <2>2 DEF Middles
<1>9. q \in Seq(Seq(Y)) /\ Len(q) = n + 1 /\ \A i \in 1 .. n : q[i] = w
  <2>1. PICK a, b : a = [i \in 1 .. n |-> w] /\ b = <<p>>
    OBVIOUS
  <2>2. n \in Nat
    BY <1>0
  <2>3. a \in Seq(Seq(Y)) /\ Len(a) = n /\ \A i \in 1 .. n : a[i] = w
    BY <1>8, <2>1, <2>2
  <2>4. b \in Seq(Seq(Y)) /\ Len(b) = 1
    BY <1>1, <2>1
  <2>5. /\ a \o b \in Seq(Seq(Y)) /\ Len(a \o b) = Len(a) + Len(b)
        /\ \A i \in 1 .. Len(a) : (a \o b)[i] = a[i]
    <3>1. PICK S : S = Seq(Y)
      OBVIOUS
    <3>2. a \in Seq(S) /\ b \in Seq(S)
      BY <2>3, <2>4, <3>1
    <3> QED BY <3>1, <3>2, Cuts!ConcatIs
  <2> QED BY <1>7, <2>1, <2>3, <2>4, <2>5
<1>10. AreParams(q, X) /\ Len(q) <= MaxMiddle + 1
  <2>1. Seq(Y) \subseteq Seq(X)
    <3>1. Y \subseteq X
      BY <1>1 DEF Visible
    <3> QED BY <3>1
  <2>2. q \in Seq(Seq(X))
    BY <1>9, <2>1
  <2>3. \A i \in 1 .. n + 1 : i # n + 1 => i \in 1 .. n
    BY <1>0
  <2>4. n + 1 <= MaxMiddle + 1
    BY <1>0
  <2> QED BY <1>8, <1>9, <2>2, <2>3, <2>4 DEF AreParams
<1>11. Sample(n, v, p) =
          [tags |-> <<[k |-> <<"a">>, v |-> v], [k |-> <<"n">>, v |-> <<>>]>>,
           prefix |-> Client(<<"a">>), command |-> <<"CMD">>, params |-> q, valid |-> TRUE]
  BY <1>7 DEF Sample
<1> QED BY <1>1, <1>4, <1>5, <1>6, <1>9, <1>10, <1>11 DEF Messages

\* MessagesReadBack: every message the run writes is read back, whatever its tag
\* values and its last parameter hold, and for any MaxMiddle.
THEOREM MessagesAreReadBack == TextSpec => []MessagesReadBack
<1>1. TextsInv => MessagesReadBack
  <2> SUFFICES ASSUME TextsInv, kind = "message", NEW n \in 0 .. MaxMiddle
               PROVE  TokenizeMsg(SerializeMsg(Sample(n, left, right))) = Sample(n, left, right)
    BY DEF MessagesReadBack, Sample
  <2>1. left \in Seq({";", " ", "\\", "LF", "n", "a"}) /\ right \in Seq({" ", ":", "a"})
    BY DEF TextsInv, LeftSymbols, RightSymbols
  <2>2. /\ {";", " ", "\\", "LF", "n", "a"} \subseteq Alphabet
        /\ {" ", ":", "a"} \subseteq Visible(Alphabet) /\ Specials \subseteq Alphabet
    BY DEF Alphabet, Specials, Visible
  <2>3. left \in Seq(Alphabet) /\ right \in Seq(Visible(Alphabet))
    BY <2>1, <2>2, SymbolsAdded
  <2> QED BY <2>2, <2>3, SampleIsMessage, MessageIsReadBack
<1> QED BY <1>1, TextsStay, PTL

-----------------------------------------------------------------------------
\* What is said.  A PRIVMSG is read back by the server, relayed to each target and
\* read back by the other client; what was typed is what is shown.

\* One space goes; what opens stays.
LEMMA SpaceTrimmed ==
    ASSUME NEW X, NEW sp \in X, IsSpace(sp), NEW r \in Seq(X), Opens(r)
    PROVE  TrimFront(<<sp>> \o r) = r
<1>1. PICK s, N : s = <<sp>> \o r /\ N = Len(r)
  OBVIOUS
<1>2. /\ s \in Seq(X) /\ Len(s) = N + 1 /\ s[1] = sp /\ s[2] = r[1] /\ N \in Nat /\ N > 0
      /\ SubSeq(s, 2, N + 1) = r
  <2>1. r # <<>>
    BY DEF Opens
  <2> QED BY <1>1, <2>1
<1>3. r[1] # sp
  BY DEF Opens, IsSpace
<1>4. PICK kept : kept = {i \in DOMAIN s : s[i] # sp}
  OBVIOUS
<1>5. 2 \in kept /\ \A i \in kept : i \in Nat /\ 2 <= i
  <2>1. DOMAIN s = 1 .. N + 1
    BY <1>2
  <2>2. \A i \in 1 .. N + 1 : i = 1 \/ (i \in Nat /\ 2 <= i)
    BY <1>2
  <2>3. 2 \in 1 .. N + 1
    BY <1>2
  <2> QED BY <1>2, <1>3, <1>4, <2>1, <2>2, <2>3
<1>6. Min(kept) = 2
  <2>1. \A n \in kept : (\A y \in kept : n =< y) => n = 2
    BY <1>5
  <2> QED BY <1>5, <2>1 DEF Min
<1>7. TrimFront(s) = IF kept = {} THEN <<>> ELSE SubSeq(s, Min(kept), Len(s))
  BY <1>4 DEF TrimFront, IsSpace
<1> QED BY <1>1, <1>2, <1>5, <1>6, <1>7

\* The end of a line goes.
LEMMA EndOfLine ==
    ASSUME NEW X, Specials \subseteq X, NEW s \in Seq(Visible(X))
    PROVE  Ended(s \o <<"CR", "LF">>) = s
<1>1. PICK ends, cr_, lf_, N : ends = {cr_, lf_} /\ cr_ = "CR" /\ lf_ = "LF" /\ N = Len(s)
  OBVIOUS
<1>2. PICK t : t = s \o <<cr_, lf_>>
  OBVIOUS
<1>3. s \in Seq(X \ ends) /\ N \in Nat
  BY <1>1 DEF Visible
<1>4. cr_ \in ends /\ lf_ \in ends /\ cr_ \in X /\ lf_ \in X
  BY <1>1 DEF Specials
<1>5. /\ Len(t) = N + 2 /\ t[N + 1] = cr_ /\ t[N + 2] = lf_ /\ SubSeq(t, 1, N) = s
      /\ \A i \in 1 .. N : t[i] = s[i] /\ s[i] \notin ends
  <2>1. N = Len(s)
    BY <1>1
  <2>2. s \in Seq(X) /\ \A i \in 1 .. N : s[i] \notin ends
    BY <1>3, <2>1
  <2>3. PICK e : e = <<cr_, lf_>>
    OBVIOUS
  <2>4. e \in Seq(X) /\ Len(e) = 2 /\ e[1] = cr_ /\ e[2] = lf_
    BY <1>4, <2>3
  <2>5. /\ s \o e \in Seq(X) /\ Len(s \o e) = Len(s) + Len(e)
        /\ SubSeq(s \o e, 1, Len(s)) = s
        /\ \A i \in 1 .. Len(s) : (s \o e)[i] = s[i]
        /\ \A i \in 1 .. Len(e) : (s \o e)[Len(s) + i] = e[i]
    <3>1. s \in Seq(X) /\ e \in Seq(X)
      BY <2>2, <2>4
    <3> HIDE DEF Specials
    <3> QED BY <3>1, Parted
  <2>6. 1 \in 1 .. 2 /\ 2 \in 1 .. 2
    OBVIOUS
  <2> QED BY <1>2, <2>1, <2>2, <2>3, <2>4, <2>5, <2>6
<1>6. DOMAIN t = 1 .. N + 2
  <2>1. t \in Seq(X)
    <3>1. s \in Seq(X)
      BY <1>3
    <3> QED BY <1>2, <1>4, <3>1
  <2> QED BY <1>5, <2>1
<1>7. {0} \cup {i \in DOMAIN t : t[i] \notin ends} = 0 .. N
  <2>1. \A i \in 1 .. N + 2 : t[i] \notin ends <=> i \in 1 .. N
    <3>1. \A i \in 1 .. N + 2 : i \in 1 .. N \/ i = N + 1 \/ i = N + 2
      BY <1>3
    <3>2. N + 1 \notin 1 .. N /\ N + 2 \notin 1 .. N
      BY <1>3
    <3> QED BY <1>4, <1>5, <3>1, <3>2
  <2>2. \A i : i \in 0 .. N <=> i = 0 \/ (i \in 1 .. N + 2 /\ i \in 1 .. N)
    BY <1>3
  <2> QED BY <1>6, <2>1, <2>2
<1>8. Max(0 .. N) = N
  <2>1. N \in 0 .. N /\ \A y \in 0 .. N : N >= y
    BY <1>3
  <2>2. \A x \in 0 .. N : (\A y \in 0 .. N : x >= y) => x = N
    BY <1>3
  <2> QED BY <2>1, <2>2 DEF Max
<1>9. Ended(t) = SubSeq(t, 1, N)
  <2>1. Ended(t) = SubSeq(t, 1, Max({0} \cup {i \in DOMAIN t : t[i] \notin ends}))
    BY <1>1 DEF Ended
  <2> QED BY <1>7, <1>8, <2>1
<1> QED BY <1>1, <1>2, <1>5, <1>9

\* A token is a word.
LEMMA TokenIsWord ==
    ASSUME NEW X, NEW s \in Seq(X), NEW x
    PROVE  Before(s, x) \in Seq(X \ {x})
<1>1. PICK f, N : f = Find(s, x) /\ N = Len(s)
  OBVIOUS
<1>2. /\ N \in Nat
      /\ \/ f = 0 /\ \A i \in 1 .. N : s[i] # x
         \/ f \in 1 .. N /\ \A i \in 1 .. f - 1 : s[i] # x
  BY <1>1, FindIs DEF FindsFirst
<1>3. CASE f = 0
  <2>1. \A i \in 1 .. Len(s) : s[i] # x
    BY <1>1, <1>2, <1>3
  <2>2. s \in Seq(X \ {x})
    BY <2>1
  <2> QED BY <1>1, <1>3, <2>2 DEF Before
<1>4. CASE f # 0
  <2>1. f \in 1 .. N /\ \A i \in 1 .. f - 1 : s[i] # x
    BY <1>2, <1>4
  <2>2. PICK b : b = SubSeq(s, 1, f - 1)
    OBVIOUS
  <2>3. /\ b \in Seq(X) /\ Len(b) = f - 1
        /\ \A i \in 1 .. f - 1 : b[i] = s[i]
    BY <1>1, <2>1, <2>2, Cuts!CutAt
  <2>4. \A i \in 1 .. Len(b) : b[i] # x
    BY <2>1, <2>3
  <2>5. b \in Seq(X \ {x})
    BY <2>3, <2>4
  <2> QED BY <1>1, <1>4, <2>2, <2>5 DEF Before
<1> QED BY <1>3, <1>4

-----------------------------------------------------------------------------
\* A PRIVMSG is a body of its own: a command, a word, and a text behind a colon.
Recipients(X) == Middles(X) \cap Seq(Visible(X))

\* A pair is its first item and its second.
LEMMA PairIs ==
    ASSUME NEW S, NEW a \in S, NEW b \in S
    PROVE  <<a, b>> = <<a>> \o <<b>>
<1>1. PICK s, t : s = <<a>> /\ t = <<b>>
  OBVIOUS
<1>2. s \in Seq(S) /\ t \in Seq(S) /\ Len(s) = 1 /\ Len(t) = 1 /\ s[1] = a /\ t[1] = b
  BY <1>1
<1>3. PICK u, v : u = s \o t /\ v = <<a, b>>
  OBVIOUS
<1>4. u \in Seq(S) /\ Len(u) = 2 /\ u[1] = a /\ u[2] = b
  <2>1. 1 \in 1 .. 1
    OBVIOUS
  <2>2. /\ s \o t \in Seq(S) /\ Len(s \o t) = Len(s) + Len(t)
        /\ \A i \in 1 .. Len(s) : (s \o t)[i] = s[i]
        /\ \A i \in 1 .. Len(t) : (s \o t)[Len(s) + i] = t[i]
    BY <1>2, Cuts!ConcatIs
  <2> QED BY <1>2, <1>3, <2>1, <2>2
<1>5. v \in Seq(S) /\ Len(v) = 2 /\ v[1] = a /\ v[2] = b
  BY <1>3
<1>6. \A i \in 1 .. 2 : i = 1 \/ i = 2
  OBVIOUS
<1>7. u = v
  BY <1>4, <1>5, <1>6, Cuts!SameSequence
<1> QED BY <1>1, <1>3, <1>7

\* An alphabet with the words that speaking uses.
Speakable(X) == Specials \subseteq X /\ {"PRIVMSG", "ACTION", "SOH", ","} \subseteq X

\* What formatOutbound sends, as a joined body and symbol by symbol.
LEMMA PrivmsgIs ==
    ASSUME NEW X, Speakable(X), NEW t \in Seq(X), NEW u \in Seq(X)
    PROVE  /\ Privmsg(t, u) = Joined(<<<<"PRIVMSG">>>> \o <<t, <<":">> \o u>>, " ")
           /\ Privmsg(t, u) = <<"PRIVMSG">> \o (<<" ">> \o (t \o (<<" ">> \o (<<":">> \o u))))
<1>1. PICK cmd, sp, colon : cmd = "PRIVMSG" /\ sp = " " /\ colon = ":"
  OBVIOUS
<1>2. cmd \in X /\ sp \in X /\ colon \in X
  BY <1>1 DEF Specials, Speakable
<1>3. PICK c, s, k : c = <<cmd>> /\ s = <<sp>> /\ k = <<colon>>
  OBVIOUS
<1>4. c \in Seq(X) /\ s \in Seq(X) /\ k \in Seq(X)
  BY <1>2, <1>3
<1>5. PICK v : v = k \o u
  OBVIOUS
<1>6. v \in Seq(X)
  BY ONLY <1>4, <1>5, u \in Seq(X)
<1>7. Joined(<<t, v>>, sp) = t \o (s \o v)
  <2>1. PICK rest : rest = <<v>>
    OBVIOUS
  <2>2. rest \in Seq(Seq(X)) /\ rest # <<>>
    BY <1>6, <2>1
  <2>3. Joined(<<t>> \o rest, sp) = t \o (<<sp>> \o Joined(rest, sp))
    BY <1>2, <2>2, JoinedOfFirst
  <2>4. Joined(rest, sp) = v
    BY <1>2, <1>6, <2>1, JoinedOfOne
  <2>5. <<t>> \o rest = <<t, v>>
    <3>1. PICK S : S = Seq(X)
      OBVIOUS
    <3>2. t \in S /\ v \in S
      BY <1>6, <3>1
    <3> QED BY <2>1, <3>2, PairIs
  <2> QED BY <1>3, <2>3, <2>4, <2>5
<1>8. Joined(<<c>> \o <<t, v>>, sp) = c \o (s \o (t \o (s \o v)))
  <2>1. PICK rest : rest = <<t, v>>
    OBVIOUS
  <2>2. rest \in Seq(Seq(X)) /\ rest # <<>>
    BY <1>6, <2>1
  <2>3. Joined(<<c>> \o rest, sp) = c \o (<<sp>> \o Joined(rest, sp))
    BY <1>2, <1>4, <2>2, JoinedOfFirst
  <2> QED BY <1>3, <1>7, <2>1, <2>3
<1>9. Privmsg(t, u) = ((<<cmd, sp>> \o t) \o <<sp, colon>>) \o u
  BY <1>1 DEF Privmsg
<1>10. <<cmd, sp>> = c \o s /\ <<sp, colon>> = s \o k
  BY <1>2, <1>3, PairIs
<1>11. (((c \o s) \o t) \o (s \o k)) \o u = c \o (s \o (t \o (s \o (k \o u))))
  <2>1. PICK cs, sk, cst : cs = c \o s /\ sk = s \o k /\ cst = cs \o t
    OBVIOUS
  <2>2. cs \in Seq(X) /\ sk \in Seq(X)
    BY ONLY <1>4, <2>1
  <2>3. cst \in Seq(X)
    BY ONLY <2>1, <2>2, t \in Seq(X)
  <2>4. PICK ku, sku : ku = k \o u /\ sku = sk \o u
    OBVIOUS
  <2>5. sku = s \o ku /\ sku \in Seq(X)
    <3>1. s \in Seq(X) /\ k \in Seq(X)
      BY ONLY <1>4
    <3>2. sku = s \o ku
      <4>1. Associates(s, k, u)
        BY <3>1, AllAssociate, Zenon
      <4> QED BY <2>1, <2>4, <4>1, Zenon DEF Associates
    <3>3. sku \in Seq(X)
      BY <2>2, <2>4, Cuts!ConcatIs, Zenon
    <3> QED BY <3>2, <3>3
  <2>6. (cst \o sk) \o u = cst \o sku
    <3>1. Associates(cst, sk, u)
      BY <2>2, <2>3, AllAssociate, Zenon
    <3> QED BY <2>4, <3>1, Zenon DEF Associates
  <2>7. cst \o sku = cs \o (t \o sku)
    <3>1. Associates(cs, t, sku)
      BY <2>2, <2>5, AllAssociate, Zenon
    <3> QED BY <2>1, <3>1, Zenon DEF Associates
  <2>8. PICK ts : ts = t \o sku
    OBVIOUS
  <2>9. ts \in Seq(X)
    BY ONLY <2>5, <2>8, t \in Seq(X)
  <2>10. cs \o ts = c \o (s \o ts)
    <3>1. c \in Seq(X) /\ s \in Seq(X)
      BY ONLY <1>4
    <3>2. Associates(c, s, ts)
      BY <2>9, <3>1, AllAssociate, Zenon
    <3> QED BY <2>1, <3>2, Zenon DEF Associates
  <2> QED BY <2>1, <2>4, <2>5, <2>6, <2>7, <2>8, <2>10
<1> QED BY <1>1, <1>3, <1>5, <1>8, <1>9, <1>10, <1>11

\* It is read as a command, a target and a text.
LEMMA PrivmsgIsRead ==
    ASSUME NEW X, Speakable(X),
           NEW t \in Recipients(X), NEW u \in Seq(Visible(X))
    PROVE  /\ Privmsg(t, u) \in Seq(Visible(X))
           /\ BodyIsRead(Privmsg(t, u), <<"PRIVMSG">>, <<t, u>>)
<1>1. PICK Y, c, q, ws, v : /\ Y = Visible(X) /\ c = <<"PRIVMSG">> /\ q = <<t, u>>
                            /\ v = <<":">> \o u /\ ws = <<t, v>>
  OBVIOUS
<1>2. t \in Seq(Y) /\ t \in Middles(X) /\ u \in Seq(Y) /\ Y \subseteq X
  BY <1>1 DEF Recipients, Visible
<1>3. t \in Seq(X) /\ u \in Seq(X)
  BY <1>2, SymbolsAdded
<1>4. v \in Seq(Y)
  <2>1. PICK colon : colon = ":"
    OBVIOUS
  <2>2. colon \in Y
    BY <1>1, <2>1 DEF Speakable, Specials, Visible
  <2>3. <<colon>> \o u \in Seq(Y)
    BY <1>2, <2>2
  <2> QED BY <1>1, <2>1, <2>3
<1>5. c \in Commands(X)
  <2>1. PICK cmd, Z : cmd = "PRIVMSG" /\ Z = X \ {" ", "CR", "LF"}
    OBVIOUS
  <2>2. cmd \in Z /\ cmd \notin {":", "@"}
    BY <2>1 DEF Speakable
  <2>3. <<cmd>> \in Seq(Z) /\ <<cmd>> # <<>> /\ <<cmd>>[1] = cmd
    BY <2>2
  <2> QED BY <1>1, <2>1, <2>2, <2>3 DEF Commands
<1>6. q \in Seq(Seq(Y)) /\ ws \in Seq(Seq(Y)) /\ q \in Seq(Seq(X))
  BY <1>1, <1>2, <1>3, <1>4
<1>7. Len(q) = 2 /\ Len(ws) = 2 /\ q[1] = t /\ q[2] = u /\ ws[1] = t /\ ws[2] = v
  BY <1>1
<1>8. \A i \in 1 .. 2 : i = 1 \/ i = 2
  OBVIOUS
<1>9. AreParams(q, X)
  BY <1>2, <1>6, <1>7, <1>8 DEF AreParams
<1>a. Specials \subseteq X
  BY DEF Speakable
<1>10. Writes(ws, q, X)
  <2>1. IsWritten(v, u, X)
    BY <1>1 DEF IsWritten
  <2> QED BY <1>7, <1>8, <2>1 DEF Writes
<1>11. Len(q) <= MaxMiddle + 1
  <2>1. MaxMiddle \in Nat \ {0}
    BY TextAssumption
  <2> QED BY <1>7, <2>1
<1>12. /\ Joined(<<c>> \o ws, " ") \in Seq(Y)
       /\ BodyIsRead(Joined(<<c>> \o ws, " "), c, q)
  BY <1>1, <1>5, <1>6, <1>9, <1>10, <1>11, <1>a, BodyIsTaken
<1>13. Privmsg(t, u) = Joined(<<c>> \o ws, " ")
  BY <1>1, <1>3, PrivmsgIs
<1> QED BY <1>1, <1>12, <1>13

\* What the server reads from the line of a client.
LEMMA SpokenIs ==
    ASSUME NEW X, Speakable(X), NEW t \in Recipients(X), NEW u \in Seq(Visible(X))
    PROVE  TokenizeMsg(Privmsg(t, u)).params = <<t, u>>
<1>1. PICK line, c, q : line = Privmsg(t, u) /\ c = <<"PRIVMSG">> /\ q = <<t, u>>
  OBVIOUS
<1>2. line \in Seq(Visible(X)) /\ BodyIsRead(line, c, q)
  BY <1>1, PrivmsgIsRead
<1>3. Opens(line) /\ line # <<>> /\ line[1] # " " /\ line[1] # "@" /\ line[1] # ":"
      /\ ParseParams(Rest(line)) = q
  <2>1. c[1] = "PRIVMSG"
    BY <1>1
  <2> QED BY <1>2, <2>1 DEF BodyIsRead, Opens
<1>4. line \in Seq(X)
  <2>1. Visible(X) \subseteq X
    BY DEF Visible
  <2> QED BY <1>2, <2>1, SymbolsAdded
<1>5. TokenizeMsg(line) = Parsed(line)
  <2>1. TrimFront(line) = line
    BY <1>3, <1>4, NothingToTrim
  <2>2. Ended(line) = line
    BY <1>2, EndIs
  <2> QED BY <2>1, <2>2, TokenizeIs
<1>6. Parsed(line).params = q
  BY <1>3 DEF Parsed
<1> QED BY <1>1, <1>5, <1>6

\* To nobody, it reads one parameter.
LEMMA SpokenToNobody ==
    ASSUME NEW X, Speakable(X), NEW u \in Seq(Visible(X))
    PROVE  TokenizeMsg(Privmsg(<<>>, u)).params = <<u>>
<1>1. PICK Y, sp, cmd, line, v :
          /\ Y = Visible(X) /\ sp = " " /\ cmd = "PRIVMSG" /\ line = Privmsg(<<>>, u)
          /\ v = <<":">> \o u
  OBVIOUS
<1>2. sp \in Y /\ cmd \in Y /\ sp # cmd /\ IsSpace(sp) /\ ":" \in Y /\ Specials \subseteq X /\ Y \subseteq X
  BY <1>1 DEF Speakable, Specials, Visible, IsSpace
<1>3. v \in Seq(Y) /\ Opens(v)
  <2>1. PICK colon : colon = ":"
    OBVIOUS
  <2>2. colon \in Y /\ colon # " " /\ u \in Seq(Y) /\ v = <<colon>> \o u
    BY <1>1, <1>2, <2>1
  <2>3. v \in Seq(Y) /\ v # <<>> /\ v[1] = colon
    <3>1. colon \in Y /\ u \in Seq(Y) /\ v = <<colon>> \o u
      BY <2>2
    <3> QED BY ONLY <3>1
  <2> QED BY <2>2, <2>3 DEF Opens
<1>4. PICK w : w = <<sp>> \o v
  OBVIOUS
<1>5. w \in Seq(Y)
  BY <1>2, <1>3, <1>4
<1>6. line = <<cmd>> \o (<<sp>> \o w)
  <2>1. <<>> \in Seq(X) /\ u \in Seq(X)
    <3>1. <<>> \in Seq(X)
      OBVIOUS
    <3>2. u \in Seq(X)
      BY <1>1, <1>2, SymbolsAdded
    <3> QED BY <3>1, <3>2
  <2>2. <<>> \o w = w
    BY <1>5
  <2>3. Privmsg(<<>>, u) = <<"PRIVMSG">> \o (<<" ">> \o (<<>> \o (<<" ">> \o (<<":">> \o u))))
    BY <2>1, PrivmsgIs
  <2> QED BY <1>1, <1>4, <2>2, <2>3
<1>7. IsCut(line, <<cmd>>, sp, w) /\ line \in Seq(Y)
  <2>1. <<cmd>> \in Seq(Y \ {sp})
    BY <1>2
  <2>2. PICK a : a = <<cmd>>
    OBVIOUS
  <2>3. a \o (<<sp>> \o w) \in Seq(Y) /\ IsCut(a \o (<<sp>> \o w), a, sp, w)
    BY <1>2, <1>5, <2>1, <2>2, FoundAt
  <2> QED BY <1>6, <2>2, <2>3
<1>8. Rest(line) = v
  <2>1. After(line, sp) = w
    BY <1>7 DEF IsCut
  <2>2. TrimFront(w) = v
    BY <1>2, <1>3, <1>4, SpaceTrimmed
  <2> QED BY <1>1, <2>1, <2>2 DEF Rest
<1>9. ParseParams(v) = <<u>>
  <2>1. PICK q, ws, S : q = <<u>> /\ ws = <<v>> /\ S = Seq(X)
    OBVIOUS
  <2>2. u \in S /\ v \in S
    BY <1>1, <1>2, <1>3, <2>1, SymbolsAdded
  <2>3. q \in Seq(S) /\ ws \in Seq(S) /\ Len(q) = 1 /\ Len(ws) = 1 /\ q[1] = u /\ ws[1] = v
    BY <2>1, <2>2
  <2>4. AreParams(q, X)
    BY <2>1, <2>3 DEF AreParams
  <2>5. IsWritten(v, u, X)
    BY <1>1 DEF IsWritten
  <2>6. Writes(ws, q, X)
    BY <2>3, <2>5 DEF Writes
  <2>7. Len(q) <= MaxMiddle + 1
    BY <2>3, TextAssumption
  <2>8. ParseParams(Joined(ws, sp)) = q
    BY <1>2, <2>1, <2>3, <2>4, <2>6, <2>7, ParamsOfJoined
  <2>9. Joined(ws, sp) = v
    BY <1>2, <1>3, <2>1, JoinedOfOne
  <2> QED BY <2>1, <2>8, <2>9
<1>10. line # <<>> /\ line[1] = cmd /\ cmd # " " /\ cmd # "@" /\ cmd # ":"
  <2>1. PICK a, b : a = <<cmd>> /\ b = <<sp>> \o w
    OBVIOUS
  <2>2. a \in Seq(Y) /\ Len(a) = 1 /\ a[1] = cmd /\ b \in Seq(Y) /\ line = a \o b
    BY <1>2, <1>5, <1>6, <2>1
  <2>3. line # <<>> /\ line[1] = cmd
    <3>1. /\ Len(a \o b) = Len(a) + Len(b)
          /\ \A i \in 1 .. Len(a) : (a \o b)[i] = a[i]
      BY <2>2, Cuts!ConcatIs
    <3>2. 1 \in 1 .. 1 /\ Len(b) \in Nat
      BY <2>2
    <3>3. Len(line) = 1 + Len(b) /\ line[1] = cmd
      BY <2>2, <3>1, <3>2
    <3> QED BY <3>2, <3>3
  <2> QED BY <1>1, <2>3
<1>11. TokenizeMsg(line) = Parsed(line)
  <2>1. TrimFront(line) = line
    BY <1>7, <1>10, NothingToTrim
  <2>2. Ended(line) = line
    BY <1>1, <1>7, EndIs
  <2> QED BY <2>1, <2>2, TokenizeIs
<1>12. Parsed(line).params = <<u>>
  BY <1>8, <1>9, <1>10 DEF Parsed
<1> QED BY <1>1, <1>11, <1>12

\* What another client reads from the line it is relayed as.
Speakers(X) == [nick : Names(X) \ {<<>>}, user : Names(X) \ {<<>>}, host : Names(X) \ {<<>>}]

\* The mask of a user is a prefix, and read back as that user.
LEMMA MaskIs ==
    ASSUME NEW X, Specials \subseteq X, NEW c \in Speakers(X)
    PROVE  FullMask(c) \in Seq(X \ {" ", "CR", "LF"}) /\ ParsePrefix(FullMask(c)) = c
<1>1. c \in Origins(X) /\ c # NoPrefix /\ c.user # <<>> /\ c.host # <<>>
  BY DEF Speakers, Origins, NoPrefix
<1>2. PICK n, u, h, b, a : n = c.nick /\ u = c.user /\ h = c.host /\ b = <<"!">> /\ a = <<"@">>
  OBVIOUS
<1>3. WritePrefix(c) = (n \o (b \o u)) \o (a \o h)
  BY <1>1, <1>2 DEF WritePrefix
<1>4. FullMask(c) = ((((n \o b) \o u) \o a) \o h)
  BY <1>2 DEF FullMask
<1>5. n \in Seq(X) /\ u \in Seq(X) /\ h \in Seq(X)
  <2>1. PICK Z : Z = X \ {" ", "!", "@", "CR", "LF"}
    OBVIOUS
  <2>2. n \in Seq(Z) /\ u \in Seq(Z) /\ h \in Seq(Z) /\ Z \subseteq X
    BY <1>2, <2>1 DEF Speakers, Names
  <2> QED BY <2>2, SymbolsAdded
<1>6. b \in Seq(X) /\ a \in Seq(X)
  <2>1. PICK x, y : x = "!" /\ y = "@"
    OBVIOUS
  <2>2. x \in X /\ y \in X
    BY <2>1 DEF Specials
  <2>3. <<x>> \in Seq(X) /\ <<y>> \in Seq(X)
    BY ONLY <2>2
  <2> QED BY <1>2, <2>1, <2>3
<1>7. Associates(n, b, u)
  BY <1>5, <1>6, AllAssociate, Zenon
<1>8. PICK nbu : nbu = n \o (b \o u)
  OBVIOUS
<1>9. nbu \in Seq(X)
  BY ONLY <1>5, <1>6, <1>8
<1>10. Associates(nbu, a, h)
  BY <1>5, <1>6, <1>9, AllAssociate, Zenon
<1>11. FullMask(c) = WritePrefix(c)
  BY <1>3, <1>4, <1>7, <1>8, <1>10, Zenon DEF Associates
<1> QED BY <1>1, <1>11, PrefixIsUndone

\* The line that goes to another client: the mask, the command, the end of the line.
Wire(c, t, u) == Affix(":", FullMask(c), Privmsg(t, u)) \o <<"CR", "LF">>

\* That client reads who said it, to whom, and the text.
LEMMA HeardIs ==
    ASSUME NEW X, Speakable(X), NEW c \in Speakers(X),
           NEW t \in Recipients(X), NEW u \in Seq(Visible(X))
    PROVE  TokenizeMsg(Wire(c, t, u)).prefix = c /\ TokenizeMsg(Wire(c, t, u)).params = <<t, u>>
<1>0. PICK line : line = Wire(c, t, u)
  OBVIOUS
<1>1. PICK C, P, cmd, q : /\ C = Privmsg(t, u) /\ P = FullMask(c) /\ cmd = <<"PRIVMSG">> /\ q = <<t, u>>
  OBVIOUS
<1>2. Specials \subseteq X
  BY DEF Speakable
<1>3. C \in Seq(Visible(X)) /\ BodyIsRead(C, cmd, q)
  BY <1>1, PrivmsgIsRead
<1>4. C \in Seq(X) /\ Opens(C) /\ ParseParams(Rest(C)) = q
  <2>1. Visible(X) \subseteq X
    BY DEF Visible
  <2> QED BY <1>3, <2>1, SymbolsAdded DEF BodyIsRead
<1>5. P \in Seq(X \ {" ", "CR", "LF"}) /\ ParsePrefix(P) = c
  BY <1>1, <1>2, MaskIs
<1>6. P \in Words(X) /\ P \in Seq(Visible(X))
  BY <1>5, WordIsBoth
<1>7. ":" \in X /\ ~IsSpace(":") /\ ":" \in Visible(X) /\ " " \in Visible(X) /\ IsSpace(" ")
  BY <1>2 DEF Specials, IsSpace, Visible
<1>8. PICK msg : msg = Affix(":", P, C)
  OBVIOUS
<1>9. msg \in Seq(Visible(X))
  BY <1>3, <1>6, <1>7, <1>8, AffixIs
<1>10. msg \in Seq(X) /\ LeadsOn(msg, ":", P, C)
  BY <1>2, <1>4, <1>6, <1>7, <1>8, AffixIsTaken
<1>11. /\ msg # <<>> /\ msg[1] = ":" /\ Opens(msg)
       /\ Tail(Token(msg)) = P /\ Rest(msg) = C
  BY <1>10 DEF LeadsOn, Opens
<1>12. TokenizeMsg(line) = Parsed(msg)
  <2>1. Ended(line) = msg
    BY <1>0, <1>1, <1>2, <1>8, <1>9, EndOfLine DEF Wire
  <2>2. TrimFront(msg) = msg
    BY <1>10, <1>11, NothingToTrim DEF Opens
  <2> QED BY <2>1, <2>2, TokenizeIs
<1>13. Parsed(msg).prefix = c /\ Parsed(msg).params = q
  BY <1>4, <1>5, <1>11 DEF Parsed
<1> QED BY <1>0, <1>1, <1>12, <1>13

\* A piece of a text, symbol by symbol.
LEMMA PieceIs ==
    ASSUME NEW X, NEW s \in Seq(X), NEW i \in Nat, NEW j \in Nat, 1 <= i, i <= j + 1, j <= Len(s)
    PROVE  /\ SubSeq(s, i, j) \in Seq(X) /\ Len(SubSeq(s, i, j)) = j - i + 1
           /\ \A k \in 1 .. j - i + 1 : SubSeq(s, i, j)[k] = s[i + k - 1]
  OBVIOUS

\* What is relayed of a text, and what is shown of it.
Shortened(u, n) == SubSeq(u, 1, IF Len(u) < n THEN Len(u) ELSE n)

\* The first n symbols, or all there are.
LEMMA ShortenedIs ==
    ASSUME NEW X, NEW u \in Seq(X), NEW n \in Nat
    PROVE  /\ Shortened(u, n) \in Seq(X)
           /\ Len(Shortened(u, n)) = IF Len(u) < n THEN Len(u) ELSE n
           /\ \A i \in 1 .. Len(Shortened(u, n)) : Shortened(u, n)[i] = u[i]
<1>1. PICK k : k = IF Len(u) < n THEN Len(u) ELSE n
  OBVIOUS
<1>2. k \in Nat /\ k <= Len(u)
  BY <1>1
<1>3. /\ SubSeq(u, 1, k) \in Seq(X) /\ Len(SubSeq(u, 1, k)) = k
      /\ \A i \in 1 .. k : SubSeq(u, 1, k)[i] = u[i]
  BY <1>2
<1> QED BY <1>1, <1>3 DEF Shortened

\* A line cannot be ended from within a text.
Plain(X) == X \ {"CR", "LF", "NUL"}

\* stripCRLF only shortens a text that holds no end of a line.
LEMMA StripIs ==
    ASSUME NEW X, NEW u \in Seq(Plain(X)), NEW n
    PROVE  StripCRLF(u, n) = Shortened(u, n)
<1>1. PICK ends, sp : ends = {"CR", "LF", "NUL"} /\ sp = " "
  OBVIOUS
<1>2. \A i \in DOMAIN u : u[i] \notin ends
  <2>1. Plain(X) = X \ ends
    BY <1>1 DEF Plain
  <2>2. u \in Seq(X \ ends)
    BY <2>1
  <2> QED BY ONLY <2>2
<1>3. PICK w : w = [i \in DOMAIN u |-> IF u[i] \in ends THEN sp ELSE u[i]]
  OBVIOUS
<1>4. w = u
  <2>1. w = [i \in DOMAIN u |-> u[i]]
    BY <1>2, <1>3
  <2>2. u = [i \in DOMAIN u |-> u[i]]
    OBVIOUS
  <2> QED BY <2>1, <2>2
<1>5. StripCRLF(u, n) = SubSeq(w, 1, IF Len(u) < n THEN Len(u) ELSE n)
  BY <1>1, <1>3 DEF StripCRLF
<1> QED BY <1>4, <1>5 DEF Shortened

\* The mark of an action, what stands behind it, and what the user interface shows.
Mark == <<"SOH", "ACTION", " ">>
Inner(v) == SubSeq(v, 4, Len(v))
Bare(v) ==
    IF ~IsPrefix(Mark, v) THEN v
    ELSE IF Inner(v) # <<>> /\ Last(Inner(v)) = "SOH" THEN Front(Inner(v)) ELSE Inner(v)

Shows(who, to, v) == [who |-> who, to |-> to, action |-> IsPrefix(Mark, v), text |-> Bare(v)]

\* A text without the mark is shown as it is.
Unmarked(X) == X \ {"SOH"}

LEMMA PlainIsShown ==
    ASSUME NEW X, NEW u \in Seq(Unmarked(X)), NEW n \in Nat
    PROVE  ~IsPrefix(Mark, Shortened(u, n)) /\ Bare(Shortened(u, n)) = Shortened(u, n)
<1>1. PICK v, m, soh, Z : v = Shortened(u, n) /\ m = Mark /\ soh = "SOH" /\ Z = Unmarked(X)
  OBVIOUS
<1>2. v \in Seq(Z) /\ soh \notin Z
  BY <1>1, ShortenedIs DEF Unmarked
<1>3. ~IsPrefix(m, v)
  <2> SUFFICES ASSUME IsPrefix(m, v) PROVE FALSE
    OBVIOUS
  <2>1. Len(m) = 3 /\ SubSeq(m, 1, 3)[1] = soh
    <3>1. PICK x, y, z : m = <<x, y, z>> /\ x = soh
      BY <1>1 DEF Mark
    <3>2. m \in Seq({x, y, z}) /\ Len(m) = 3 /\ m[1] = x
      BY ONLY <3>1
    <3>3. SubSeq(m, 1, 3)[1] = m[1]
      BY ONLY <3>2
    <3> QED BY <3>1, <3>2, <3>3
  <2>2. 3 <= Len(v) /\ SubSeq(v, 1, 3)[1] = soh
    BY <2>1 DEF IsPrefix
  <2>3. SubSeq(v, 1, 3)[1] = v[1] /\ v[1] \in Z
    BY ONLY <1>2, <2>2
  <2> QED BY <1>2, <2>2, <2>3
<1> QED BY <1>1, <1>3 DEF Bare

\* An action is shown without its mark, and without the closing one if that is still there.
LEMMA ActionIsShown ==
    ASSUME NEW X, NEW r \in Seq(Unmarked(X)), NEW n \in Nat, n >= 3
    PROVE  IsPrefix(Mark, Shortened(Action(r), n)) /\ Bare(Shortened(Action(r), n)) = Shortened(r, n - 3)
<1>1. PICK m, soh, Z, W, e, R : /\ m = Mark /\ soh = "SOH" /\ Z = Unmarked(X) /\ e = <<soh>> /\ R = Len(r)
                                /\ W = Z \cup {"SOH", "ACTION", " "}
  OBVIOUS
<1>2. /\ soh \notin Z /\ m \in Seq(W) /\ Len(m) = 3 /\ R \in Nat /\ Z \subseteq W /\ r \in Seq(Z)
      /\ e \in Seq(W) /\ Len(e) = 1 /\ e[1] = soh
  <2>1. PICK y, z : m = <<soh, y, z>> /\ W = Z \cup {soh, y, z}
    BY <1>1 DEF Mark
  <2>2. m \in Seq(W) /\ Len(m) = 3 /\ e \in Seq(W) /\ Len(e) = 1 /\ e[1] = soh /\ Z \subseteq W
    <3>1. e = <<soh>>
      BY <1>1
    <3> QED BY ONLY <2>1, <3>1
  <2>3. soh \notin Z /\ r \in Seq(Z)
    BY <1>1 DEF Unmarked
  <2>4. R \in Nat
    <3>1. R = Len(r)
      BY <1>1
    <3> QED BY ONLY <2>3, <3>1
  <2> QED BY <2>2, <2>3, <2>4
<1>3. r \in Seq(W)
  BY <1>2, SymbolsAdded
<1>4. PICK mr : mr = m \o r
  OBVIOUS
<1>5. /\ mr \in Seq(W) /\ Len(mr) = R + 3
      /\ \A i \in 1 .. 3 : mr[i] = m[i] /\ \A k \in 1 .. R : mr[3 + k] = r[k]
  <2>1. /\ m \o r \in Seq(W) /\ Len(m \o r) = Len(m) + Len(r)
        /\ \A i \in 1 .. Len(m) : (m \o r)[i] = m[i]
        /\ \A i \in 1 .. Len(r) : (m \o r)[Len(m) + i] = r[i]
    <3>1. m \in Seq(W) /\ r \in Seq(W)
      BY <1>2, <1>3
    <3> QED BY ONLY <3>1, Cuts!ConcatIs
  <2>2. Len(m) = 3 /\ Len(r) = R /\ R \in Nat
    BY <1>1, <1>2
  <2> QED BY ONLY <1>4, <2>1, <2>2
<1>6. PICK a : a = Action(r)
  OBVIOUS
<1>7. a = mr \o e
  BY <1>1, <1>4, <1>6 DEF Action, Mark
<1>8. /\ a \in Seq(W) /\ Len(a) = R + 4 /\ \A i \in 1 .. 3 : a[i] = m[i]
      /\ \A k \in 1 .. R : a[3 + k] = r[k]
      /\ a[R + 4] = soh
  <2>1. /\ mr \o e \in Seq(W) /\ Len(mr \o e) = Len(mr) + Len(e)
        /\ \A i \in 1 .. Len(mr) : (mr \o e)[i] = mr[i]
        /\ \A i \in 1 .. Len(e) : (mr \o e)[Len(mr) + i] = e[i]
    <3>1. mr \in Seq(W) /\ e \in Seq(W)
      BY <1>2, <1>5
    <3> QED BY ONLY <3>1, Cuts!ConcatIs
  <2>2. 1 \in 1 .. 1 /\ \A i \in 1 .. 3 : i \in 1 .. R + 3
    BY <1>2
  <2>3. \A k \in 1 .. R : 3 + k \in 1 .. R + 3
    BY <1>2
  <2> QED BY <1>2, <1>5, <1>7, <2>1, <2>2, <2>3
<1>9. PICK v, V : v = Shortened(a, n) /\ V = Len(v)
  OBVIOUS
<1>10. /\ v \in Seq(W) /\ V = (IF R + 4 < n THEN R + 4 ELSE n)
       /\ \A i \in 1 .. V : v[i] = a[i]
  BY <1>8, <1>9, ShortenedIs
<1>11. V \in Nat /\ V >= 3 /\ V <= R + 4 /\ V <= n
  BY <1>2, <1>10
<1>12. IsPrefix(m, v)
  <2>1. SubSeq(m, 1, 3) = SubSeq(v, 1, 3)
    <3>1. /\ SubSeq(m, 1, 3) \in Seq(W) /\ Len(SubSeq(m, 1, 3)) = 3
          /\ \A i \in 1 .. 3 : SubSeq(m, 1, 3)[i] = m[i]
      <4>1. m \in Seq(W) /\ 3 <= Len(m)
        BY <1>2
      <4> QED BY ONLY <4>1
    <3>2. /\ SubSeq(v, 1, 3) \in Seq(W) /\ Len(SubSeq(v, 1, 3)) = 3
          /\ \A i \in 1 .. 3 : SubSeq(v, 1, 3)[i] = v[i]
      <4>1. v \in Seq(W) /\ 3 <= Len(v)
        BY <1>9, <1>10, <1>11
      <4> QED BY ONLY <4>1
    <3>3. \A i \in 1 .. 3 : v[i] = m[i]
      BY <1>8, <1>10, <1>11
    <3> QED BY <3>1, <3>2, <3>3, Cuts!SameSequence
  <2> QED BY <1>2, <1>9, <1>11, <2>1 DEF IsPrefix
<1>13. PICK w, N : w = Inner(v) /\ N = Len(w)
  OBVIOUS
<1>14. w \in Seq(W) /\ N = V - 3 /\ \A k \in 1 .. N : w[k] = v[3 + k]
  <2>1. /\ SubSeq(v, 4, V) \in Seq(W) /\ Len(SubSeq(v, 4, V)) = V - 3
        /\ \A k \in 1 .. V - 3 : SubSeq(v, 4, V)[k] = v[3 + k]
    <3>1. v \in Seq(W) /\ 4 \in Nat /\ V \in Nat /\ 1 <= 4 /\ 4 <= V + 1 /\ V <= Len(v)
      BY <1>9, <1>10, <1>11
    <3>2. /\ SubSeq(v, 4, V) \in Seq(W) /\ Len(SubSeq(v, 4, V)) = V - 4 + 1
          /\ \A k \in 1 .. V - 4 + 1 : SubSeq(v, 4, V)[k] = v[4 + k - 1]
      BY ONLY <3>1, PieceIs
    <3>3. V - 4 + 1 = V - 3 /\ \A k \in 1 .. V - 3 : 4 + k - 1 = 3 + k
      BY ONLY <3>1
    <3> QED BY <3>2, <3>3
  <2> QED BY <1>9, <1>13, <2>1 DEF Inner
<1>15. \A k \in 1 .. N : w[k] = a[3 + k]
  <2>1. \A k \in 1 .. N : 3 + k \in 1 .. V
    BY <1>11, <1>14
  <2> QED BY <1>10, <1>14, <2>1
<1>16. PICK c : c = Shortened(r, n - 3)
  OBVIOUS
<1>17. /\ c \in Seq(Z) /\ Len(c) = (IF R < n - 3 THEN R ELSE n - 3)
       /\ \A k \in 1 .. Len(c) : c[k] = r[k]
  <2>1. n - 3 \in Nat
    <3>1. n \in Nat /\ n >= 3
      OBVIOUS
    <3> QED BY ONLY <3>1
  <2>2. r \in Seq(Z)
    BY <1>2
  <2> QED BY <1>1, <1>16, <2>1, <2>2, ShortenedIs
<1>18. c \in Seq(W)
  BY <1>2, <1>17, SymbolsAdded
<1>19. CASE R + 4 <= n
  <2>1. N = R + 1 /\ Len(c) = R
    <3>1. PICK l : l = Len(c)
      OBVIOUS
    <3>2. /\ R \in Nat /\ n \in Nat /\ R + 4 <= n
          /\ V = (IF R + 4 < n THEN R + 4 ELSE n) /\ N = V - 3
          /\ l = (IF R < n - 3 THEN R ELSE n - 3)
      BY <1>2, <1>10, <1>14, <1>17, <1>19, <3>1
    <3>3. N = R + 1 /\ l = R
      BY ONLY <3>2
    <3> QED BY <3>1, <3>3
  <2>2. w # <<>> /\ w[N] = soh
    <3>1. N \in 1 .. N /\ 3 + N = R + 4
      BY <1>2, <2>1
    <3>2. w[N] = soh
      BY <1>8, <1>15, <3>1
    <3>3. Len(w) # 0
      BY <1>2, <1>13, <2>1
    <3> QED BY <3>2, <3>3
  <2>3. Front(w) = c
    <3>1. /\ SubSeq(w, 1, R) \in Seq(W) /\ Len(SubSeq(w, 1, R)) = R
          /\ \A k \in 1 .. R : SubSeq(w, 1, R)[k] = w[k]
      <4>1. w \in Seq(W) /\ R \in Nat /\ R <= Len(w)
        BY <1>2, <1>13, <1>14, <2>1
      <4> QED BY ONLY <4>1
    <3>2. \A k \in 1 .. R : w[k] = c[k]
      <4>1. \A k \in 1 .. R : k \in 1 .. N
        BY <1>2, <2>1
      <4> QED BY <1>8, <1>15, <1>17, <2>1, <4>1
    <3>3. SubSeq(w, 1, R) = c
      BY <1>18, <2>1, <3>1, <3>2, Cuts!SameSequence
    <3>4. N - 1 = R
      BY <1>2, <2>1
    <3> QED BY <1>13, <3>3, <3>4 DEF Front
  <2>4. Bare(v) = Front(w)
    BY <1>1, <1>12, <1>13, <2>2 DEF Bare, Last
  <2> QED BY <1>1, <1>6, <1>9, <1>12, <1>16, <2>3, <2>4
<1>20. CASE ~(R + 4 <= n)
  <2>1. N = n - 3 /\ Len(c) = n - 3 /\ n - 3 <= R
    BY <1>2, <1>10, <1>14, <1>17, <1>20
  <2>2. \A k \in 1 .. N : w[k] = c[k]
    <3>1. \A k \in 1 .. N : k \in 1 .. R
      BY <1>2, <2>1
    <3> QED BY <1>8, <1>15, <1>17, <2>1, <3>1
  <2>3. w = c
    BY <1>13, <1>14, <1>18, <2>1, <2>2, Cuts!SameSequence
  <2>4. ~(w # <<>> /\ Last(w) = soh)
    <3>1. w \in Seq(Z)
      BY <1>17, <2>3
    <3>2. w # <<>> => w[Len(w)] \in Z
      BY ONLY <3>1
    <3> QED BY <1>2, <3>2 DEF Last
  <2>5. Bare(v) = w
    BY <1>1, <1>12, <1>13, <2>4 DEF Bare
  <2> QED BY <1>1, <1>6, <1>9, <1>12, <1>16, <2>3, <2>5
<1> QED BY <1>19, <1>20

\* What a text may be made of, and the recipients that may stand in a list.
Spoken(X) == Plain(X) \ {"SOH"}
Listed(X) == Recipients(X) \cap Seq(X \ {","})

\* What is sent, and how much of it is left: of an action, three symbols less.
Marked(action, u) == IF action THEN Action(u) ELSE u
Room(action) == IF action THEN MaxText - 3 ELSE MaxText

\* What is sent is a text, and it is shown as what was said.
LEMMA MarkedIs ==
    ASSUME NEW X, Speakable(X), NEW action \in BOOLEAN, NEW u \in Seq(Spoken(X)), action \/ u # <<>>
    PROVE  /\ Marked(action, u) \in Seq(Plain(X)) \ {<<>>}
           /\ IsPrefix(Mark, Shortened(Marked(action, u), MaxText)) = action
           /\ Bare(Shortened(Marked(action, u), MaxText)) = Shortened(u, Room(action))
<1>1. PICK P : P = Plain(X)
  OBVIOUS
<1>2. u \in Seq(P) /\ u \in Seq(Unmarked(X))
  <2>1. Spoken(X) \subseteq P /\ Spoken(X) \subseteq Unmarked(X)
    BY <1>1 DEF Spoken, Plain, Unmarked
  <2> QED BY <2>1, SymbolsAdded
<1>3. MaxText \in Nat /\ MaxText >= 3
  BY TextAssumption
<1>4. CASE action
  <2>1. Marked(action, u) = Action(u)
    BY <1>4 DEF Marked
  <2>2. Action(u) \in Seq(P) \ {<<>>}
    <3>1. PICK x, y, z : x = "SOH" /\ y = "ACTION" /\ z = " "
      OBVIOUS
    <3>2. x \in P /\ y \in P /\ z \in P
      BY <1>1, <3>1 DEF Speakable, Specials, Plain
    <3>3. PICK m, e, mu : m = <<x, y, z>> /\ e = <<x>> /\ mu = m \o u
      OBVIOUS
    <3>4. m \in Seq(P) /\ e \in Seq(P) /\ Len(e) = 1
      BY ONLY <3>2, <3>3
    <3>5. mu \in Seq(P)
      BY ONLY <1>2, <3>3, <3>4
    <3>6. mu \o e \in Seq(P) /\ Len(mu \o e) = Len(mu) + Len(e)
      BY ONLY <3>4, <3>5, Cuts!ConcatIs
    <3>7. mu \o e # <<>>
      BY ONLY <3>4, <3>5, <3>6
    <3>8. Action(u) = mu \o e
      BY <3>1, <3>3 DEF Action
    <3> QED BY <3>6, <3>7, <3>8
  <2>3. /\ IsPrefix(Mark, Shortened(Action(u), MaxText))
        /\ Bare(Shortened(Action(u), MaxText)) = Shortened(u, MaxText - 3)
    BY <1>2, <1>3, ActionIsShown
  <2>4. IsPrefix(Mark, Shortened(Action(u), MaxText)) = TRUE
    BY <2>3 DEF IsPrefix
  <2> QED BY <1>1, <1>4, <2>1, <2>2, <2>3, <2>4 DEF Room
<1>5. CASE ~action
  <2>1. Marked(action, u) = u /\ u # <<>>
    BY <1>5 DEF Marked
  <2>2. /\ ~IsPrefix(Mark, Shortened(u, MaxText)) /\ Bare(Shortened(u, MaxText)) = Shortened(u, MaxText)
    BY <1>2, <1>3, PlainIsShown
  <2>3. IsPrefix(Mark, Shortened(u, MaxText)) = FALSE
    BY <2>2 DEF IsPrefix
  <2> QED BY <1>1, <1>2, <1>5, <2>1, <2>2, <2>3 DEF Room
<1> QED BY <1>4, <1>5

\* A list of recipients is one parameter.
LEMMA ListIs ==
    ASSUME NEW X, Speakable(X), NEW items \in Seq(Listed(X)), items # <<>>
    PROVE  /\ Joined(items, ",") \in Recipients(X) /\ Joined(items, ",") # <<>>
           /\ Split(Joined(items, ","), ",") = items
<1>1. PICK comma, Y, Z : comma = "," /\ Y = Visible(X) \ {" "} /\ Z = X \ {comma}
  OBVIOUS
<1>2. comma \in X /\ comma \in Y /\ Y \subseteq X
  BY <1>1 DEF Speakable, Visible
<1>3. ASSUME NEW r \in Listed(X)
      PROVE  r \in Seq(Y) /\ r \in Seq(Z) /\ r # <<>> /\ r[1] # ":"
  <2>1. r \in Seq(Visible(X)) /\ r \in Seq(X \ {" "}) /\ r \in Seq(Z) /\ r # <<>> /\ r[1] # ":"
    BY <1>1 DEF Listed, Recipients, Middles
  <2>2. PICK A, B : A = Visible(X) /\ B = X \ {" "}
    OBVIOUS
  <2>3. Y = A \cap B
    BY <1>1, <2>2 DEF Visible
  <2>4. r \in Seq(A) /\ r \in Seq(B)
    BY <2>1, <2>2
  <2>5. r \in Seq(A \cap B)
    BY ONLY <2>4
  <2> QED BY <2>1, <2>3, <2>5
<1>4. PICK S, T : S = Seq(Y) /\ T = Seq(Z) \ {<<>>}
  OBVIOUS
<1>5. Listed(X) \subseteq S /\ Listed(X) \subseteq T
  BY <1>3, <1>4
<1>6. items \in Seq(S) /\ items \in Seq(T)
  BY <1>5, SymbolsAdded
<1>7. items[1] \in Listed(X)
  OBVIOUS
<1>8. PICK t : t = Joined(items, comma)
  OBVIOUS
<1>9. t \in Seq(Y)
  BY <1>2, <1>4, <1>6, <1>8, JoinedIs
<1>10. t # <<>> /\ t[1] = items[1][1]
  BY <1>2, <1>3, <1>4, <1>6, <1>7, <1>8, JoinedBegins
<1>11. Split(t, comma) = items
  BY <1>1, <1>2, <1>4, <1>6, <1>8, SplitOfJoined
<1>12. t \in Recipients(X)
  <2>1. Y \subseteq Visible(X) /\ Y \subseteq X \ {" "}
    BY <1>1 DEF Visible
  <2>2. t \in Seq(Visible(X)) /\ t \in Seq(X \ {" "})
    BY <1>9, <2>1, SymbolsAdded
  <2>3. t[1] # ":"
    BY <1>3, <1>7, <1>10
  <2> QED BY <1>10, <2>2, <2>3 DEF Recipients, Middles
<1> QED BY <1>1, <1>8, <1>10, <1>11, <1>12

\* From what the server reads in the line, every recipient is shown one line: who
\* said it, to whom, whether it is an action, and as much of the text as there is
\* room for.
Hears(c, items, action, u, line) ==
    LET lines == Relayed(c, TokenizeMsg(line))
    IN  [i \in DOMAIN lines |-> Shown(lines[i])] =
        [i \in DOMAIN items |->
            [who |-> c.nick, to |-> items[i], action |-> action, text |-> Shortened(u, Room(action))]]

\* Of every text that is sent, this is what is shown.
LEMMA SaidIsHeard ==
    ASSUME NEW X, Speakable(X), NEW c \in Speakers(X), NEW items \in Seq(Listed(X)),
           NEW action \in BOOLEAN, NEW u \in Seq(Spoken(X)), action \/ u # <<>>
    PROVE  Hears(c, items, action, u, Privmsg(Joined(items, ","), Marked(action, u)))
<1>1. PICK t, v, w : t = Joined(items, ",") /\ v = Marked(action, u) /\ w = Shortened(v, MaxText)
  OBVIOUS
<1>2. /\ v \in Seq(Plain(X)) /\ v # <<>>
      /\ IsPrefix(Mark, w) = action /\ Bare(w) = Shortened(u, Room(action))
  BY <1>1, MarkedIs
<1>3. v \in Seq(Visible(X))
  <2>1. Plain(X) \subseteq Visible(X)
    BY DEF Plain, Visible
  <2> QED BY <1>2, <2>1, SymbolsAdded
<1>4. w \in Seq(Visible(X))
  BY <1>1, <1>3, TextAssumption, ShortenedIs
<1>5. PICK m, lines : m = TokenizeMsg(Privmsg(t, v)) /\ lines = Relayed(c, m)
  OBVIOUS
<1>6. [i \in DOMAIN lines |-> Shown(lines[i])] =
      [i \in DOMAIN items |->
            [who |-> c.nick, to |-> items[i], action |-> action, text |-> Shortened(u, Room(action))]]
  <2>1. CASE items = <<>>
    <3>1. t = <<>>
      BY <1>1, <2>1, JoinedOfNothing
    <3>2. m.params = <<v>>
      BY <1>3, <1>5, <3>1, SpokenToNobody
    <3>3. lines = <<>>
      <4>1. Len(m.params) < 2
        BY <3>2
      <4> QED BY <1>5, <4>1 DEF Relayed
    <3>4. DOMAIN lines = {} /\ DOMAIN items = {}
      BY <2>1, <3>3
    <3> QED BY <3>4
  <2>2. CASE items # <<>>
    <3>1. t \in Recipients(X) /\ t # <<>> /\ Split(t, ",") = items
      BY <1>1, <2>2, ListIs
    <3>2. m.params = <<t, v>>
      BY <1>3, <1>5, <3>1, SpokenIs
    <3>3. Len(m.params) = 2 /\ m.params[1] = t /\ m.params[2] = v
      BY <3>2
    <3>4. StripCRLF(v, MaxText) = w
      BY <1>1, <1>2, StripIs
    <3>5. lines = [i \in DOMAIN items |-> Wire(c, items[i], w)]
      <4>1. ~(Len(m.params) < 2 \/ m.params[1] = <<>> \/ m.params[2] = <<>>)
        <5>1. v # <<>> /\ t # <<>>
          BY <1>2, <3>1
        <5>2. ~(Len(m.params) < 2)
          BY <3>3
        <5> QED BY <3>3, <5>1, <5>2, Zenon
      <4>2. Relayed(c, m) =
                [i \in DOMAIN Split(m.params[1], ",") |->
                    Wire(c, Split(m.params[1], ",")[i], StripCRLF(m.params[2], MaxText))]
        BY <4>1, Zenon DEF Relayed, Affix, Wire
      <4> QED BY <1>5, <3>1, <3>3, <3>4, <4>2, Zenon
    <3>6. ASSUME NEW i \in DOMAIN items
          PROVE  Shown(lines[i]) =
                 [who |-> c.nick, to |-> items[i], action |-> action, text |-> Shortened(u, Room(action))]
      <4>1. items[i] \in Recipients(X)
        <5>1. items[i] \in Listed(X)
          OBVIOUS
        <5> QED BY <5>1 DEF Listed
      <4>2. PICK line, r : line = lines[i] /\ r = items[i]
        OBVIOUS
      <4>3. line = Wire(c, r, w)
        BY <3>5, <4>2
      <4>4. TokenizeMsg(line).prefix = c /\ TokenizeMsg(line).params = <<r, w>>
        <5>1. r \in Recipients(X)
          BY <4>1, <4>2
        <5>2. Speakable(X) /\ c \in Speakers(X) /\ w \in Seq(Visible(X))
          BY <1>4
        <5> QED BY ONLY <4>3, <5>1, <5>2, HeardIs
      <4>5. PICK h : h = TokenizeMsg(line)
        OBVIOUS
      <4>6. h.prefix = c /\ h.params[1] = r /\ h.params[2] = w
        BY <4>4, <4>5
      <4>7. Shown(line) = Shows(h.prefix.nick, h.params[1], h.params[2])
        BY <4>5 DEF Shown, Shows, Bare, Inner, Mark
      <4>8. Shows(c.nick, r, w) = [who |-> c.nick, to |-> r, action |-> action, text |-> Shortened(u, Room(action))]
        BY <1>2 DEF Shows
      <4> QED BY <4>2, <4>6, <4>7, <4>8
    <3>7. DOMAIN lines = DOMAIN items
      BY <3>5
    <3> QED BY <3>6, <3>7
  <2> QED BY <2>1, <2>2
<1> QED BY <1>1, <1>5, <1>6 DEF Hears

\* One recipient, not a list of them.
NamesOne(to) == \A i \in DOMAIN to : to[i] # ","

\* The line says something: a text, one with the slash doubled, an action, or a message
\* to someone who can be named, with something to say.
Speaking(typed) ==
    LET input == TrimFront(typed)
        command == Tail(input)
    IN  /\ input # <<>>
        /\ \/ input[1] # "/"
           \/ Len(input) > 1 /\ input[2] = "/"
           \/ ToUpper(Token(TrimFront(command))) = <<"ME">>
           \/ /\ ToUpper(Token(TrimFront(command))) = <<"MSG">>
              /\ LET to == Token(Rest(TrimFront(command)))
                 IN  to # <<>> /\ to[1] # ":" /\ NamesOne(to)
              /\ Rest(Rest(TrimFront(command))) # <<>>

\* What is said is a text to someone, and formatOutbound sends just that.
IsSaid(X, typed, to, said) ==
    /\ said.action \in BOOLEAN /\ said.text \in Seq(Spoken(X))
    /\ said.action \/ said.text # <<>>
    /\ said.to = to \/ said.to \in Listed(X)
    /\ FormatOutbound(typed, to) = Privmsg(said.to, Marked(said.action, said.text))

\* An empty text holds no word.
LEMMA NoWord == Token(<<>>) = <<>> /\ \A x : ToUpper(<<>>) # <<x>>
<1>1. <<>> \in Seq({} \ {" "})
  OBVIOUS
<1>2. Token(<<>>) = <<>>
  BY <1>1, FoundNowhere DEF Token
<1>3. DOMAIN ToUpper(<<>>) = {}
  BY DEF ToUpper
<1>4. ASSUME NEW x PROVE 1 \in DOMAIN <<x>>
  OBVIOUS
<1> QED BY <1>2, <1>3, <1>4

\* The name of one holds no comma, and a text that holds none names one.
LEMMA OneOfNone ==
    ASSUME NEW X, NEW t \in Seq(X)
    PROVE  NamesOne(t) <=> t \in Seq(X \ {","})
<1>1. PICK comma, Z : comma = "," /\ Z = X \ {comma}
  OBVIOUS
<1>2. ASSUME \A i \in 1 .. Len(t) : t[i] # comma PROVE t \in Seq(Z)
  <2>1. Z = X \ {comma}
    BY <1>1
  <2> QED BY ONLY <1>2, <2>1, t \in Seq(X)
<1>3. ASSUME t \in Seq(Z), NEW i \in 1 .. Len(t) PROVE t[i] # comma
  <2>1. t[i] \in Z
    BY ONLY <1>3
  <2> QED BY <1>1, <2>1
<1>4. DOMAIN t = 1 .. Len(t)
  OBVIOUS
<1> QED BY <1>1, <1>2, <1>3, <1>4, Zenon DEF NamesOne

\* What formatOutbound sends is what the line says.
LEMMA SaidIs ==
    ASSUME NEW X, Speakable(X), NEW typed \in Seq(Spoken(X)), NEW to, Speaking(typed)
    PROVE  IsSaid(X, typed, to, Said(typed, to))
<1>1. PICK T, input, command, front, word, rest :
          /\ T = Spoken(X) /\ input = TrimFront(typed) /\ command = Tail(input)
          /\ front = TrimFront(command) /\ word = ToUpper(Token(front)) /\ rest = Rest(front)
  OBVIOUS
<1>2. input \in Seq(T) /\ input # <<>>
  BY <1>1, TrimIs DEF Speaking
<1>3. command \in Seq(T) /\ (Len(input) > 1 => command # <<>>)
  <2>1. Tail(input) \in Seq(T) /\ Len(Tail(input)) = Len(input) - 1 /\ Len(input) \in Nat
    BY ONLY <1>2
  <2>2. PICK n, k : n = Len(input) /\ k = Len(command)
    OBVIOUS
  <2>4. n \in Nat /\ k = n - 1
    BY <1>1, <2>1, <2>2
  <2>5. n > 1 => k # 0
    BY ONLY <2>4
  <2>3. command = <<>> => Len(command) = 0
    OBVIOUS
  <2> QED BY <1>1, <2>1, <2>2, <2>3, <2>5, Zenon
<1>4. front \in Seq(T)
  BY <1>1, <1>3, TrimIs
<1>5. ASSUME NEW s \in Seq(T) PROVE s \in Seq(Spoken(X))
  BY <1>1
<1>6. PICK said, sent : said = Said(typed, to) /\ sent = FormatOutbound(typed, to)
  OBVIOUS
<1>7. CASE input[1] # "/"
  <2>1. said = [to |-> to, action |-> FALSE, text |-> input]
    BY <1>1, <1>6, <1>7 DEF Said
  <2>2. sent = Privmsg(to, input)
    BY <1>1, <1>2, <1>6, <1>7 DEF FormatOutbound
  <2> QED BY <1>2, <1>5, <1>6, <2>1, <2>2 DEF IsSaid, Marked
<1>8. CASE input[1] = "/" /\ Len(input) > 1 /\ input[2] = "/"
  <2>1. said = [to |-> to, action |-> FALSE, text |-> command]
    BY <1>1, <1>6, <1>8 DEF Said
  <2>2. sent = Privmsg(to, command)
    BY <1>1, <1>2, <1>6, <1>8 DEF FormatOutbound
  <2> QED BY <1>3, <1>5, <1>6, <1>8, <2>1, <2>2 DEF IsSaid, Marked
<1>9. CASE input[1] = "/" /\ ~(Len(input) > 1 /\ input[2] = "/")
  <2>1. \/ word = <<"ME">>
        \/ /\ word = <<"MSG">>
           /\ Token(rest) # <<>> /\ Token(rest)[1] # ":" /\ NamesOne(Token(rest)) /\ Rest(rest) # <<>>
    BY <1>1, <1>9 DEF Speaking
  <2>2. front # <<>>
    BY <1>1, <2>1, NoWord
  <2>3. rest \in Seq(T)
    BY <1>1, <1>4, <2>2, RestIs
  <2>4. sent = FormatCommand(command, to)
    BY <1>1, <1>2, <1>6, <1>9 DEF FormatOutbound
  <2>5. <<"ME">> # <<"MSG">>
    OBVIOUS
  <2>6. CASE word = <<"ME">>
    <3>1. said = [to |-> to, action |-> TRUE, text |-> rest]
      BY <1>1, <1>6, <1>9, <2>6 DEF Said
    <3>2. sent = Privmsg(to, Action(rest))
      BY <1>1, <2>4, <2>5, <2>6 DEF FormatCommand
    <3> QED BY <1>5, <1>6, <2>3, <3>1, <3>2 DEF IsSaid, Marked
  <2>7. CASE word # <<"ME">>
    <3>1. /\ word = <<"MSG">> /\ Rest(rest) # <<>>
          /\ Token(rest) # <<>> /\ Token(rest)[1] # ":" /\ NamesOne(Token(rest))
      BY <2>1, <2>7
    <3>2. said = [to |-> Token(rest), action |-> FALSE, text |-> Rest(rest)]
      BY <1>1, <1>6, <1>9, <2>7 DEF Said
    <3>3. sent = Privmsg(Token(rest), Rest(rest))
      BY <1>1, <2>4, <2>5, <3>1 DEF FormatCommand
    <3>4. rest # <<>>
      BY <3>1, NoWord
    <3>5. Rest(rest) \in Seq(T)
      BY <2>3, <3>4, RestIs
    <3>6. Token(rest) \in Listed(X)
      <4>1. PICK t, W : t = Token(rest) /\ W = T \ {" "}
        OBVIOUS
      <4>2. t \in Seq(W)
        BY <2>3, <4>1, TokenIsWord DEF Token
      <4>3. W \subseteq Visible(X) /\ W \subseteq X \ {" "} /\ W \subseteq X
        BY <1>1, <4>1 DEF Spoken, Plain, Visible
      <4>4. t \in Seq(Visible(X)) /\ t \in Seq(X \ {" "}) /\ t \in Seq(X)
        BY <4>2, <4>3, SymbolsAdded
      <4>5. t \in Seq(X \ {","})
        BY <3>1, <4>1, <4>4, OneOfNone
      <4> QED BY <3>1, <4>1, <4>4, <4>5 DEF Listed, Recipients, Middles
    <3> QED BY <1>5, <1>6, <3>1, <3>2, <3>3, <3>5, <3>6 DEF IsSaid, Marked
  <2> QED BY <2>6, <2>7
<1> QED BY <1>7, <1>8, <1>9

\* TextArrives, for a line typed by c in the window that talks to the recipients to.
IsHeard(c, typed, to) ==
    LET said == Said(typed, to)
        room == IF said.action THEN MaxText - 3 ELSE MaxText
        lines == Relayed(c, TokenizeMsg(FormatOutbound(typed, to)))
    IN  [i \in DOMAIN lines |-> Shown(lines[i])] =
        [i \in DOMAIN Split(said.to, ",") |->
            [who |-> c.nick, to |-> Split(said.to, ",")[i], action |-> said.action,
             text |-> SubSeq(said.text, 1, IF Len(said.text) < room THEN Len(said.text) ELSE room)]]

\* For any alphabet, any user with a nick, a user name and a host, any list of
\* recipients and any line that says something: formatOutbound, tokenizeMsg, the
\* relay of m_privmsg and the user interface of the other client together show each
\* recipient what was said, shortened as stripCRLF does, and nothing else.
THEOREM TypedIsHeard ==
    ASSUME NEW X, Speakable(X), NEW c \in Speakers(X), NEW items \in Seq(Listed(X)),
           NEW typed \in Seq(Spoken(X)), Speaking(typed)
    PROVE  IsHeard(c, typed, Joined(items, ","))
<1>1. PICK to, said : to = Joined(items, ",") /\ said = Said(typed, to)
  OBVIOUS
<1>2. IsSaid(X, typed, to, said)
  BY <1>1, SaidIs
<1>3. PICK these : these = IF said.to = to THEN items ELSE <<said.to>>
  OBVIOUS
<1>4. these \in Seq(Listed(X)) /\ said.to = Joined(these, ",") /\ Split(said.to, ",") = these
  <2>1. these \in Seq(Listed(X)) /\ said.to = Joined(these, ",")
    <3>1. CASE said.to = to
      BY <1>1, <1>3, <3>1
    <3>2. CASE said.to # to
      <4>1. said.to \in Listed(X) /\ these = <<said.to>>
        BY <1>2, <1>3, <3>2 DEF IsSaid
      <4>2. these \in Seq(Listed(X))
        BY ONLY <4>1
      <4>3. said.to \in Seq(X) /\ "," \in X
        <5>1. said.to \in Seq(X \ {","})
          BY <4>1 DEF Listed
        <5>2. X \ {","} \subseteq X
          OBVIOUS
        <5> QED BY <5>1, <5>2, SymbolsAdded DEF Speakable
      <4> QED BY <4>1, <4>2, <4>3, JoinedOfOne
    <3> QED BY <3>1, <3>2
  <2>2. Split(said.to, ",") = these
    <3>1. CASE these = <<>>
      <4>1. PICK comma, S : comma = "," /\ S = Seq(X \ {comma}) \ {<<>>}
        OBVIOUS
      <4>2. these \in Seq(S) /\ comma \in X
        <5>1. these \in Seq(S)
          BY ONLY <3>1
        <5> QED BY <4>1, <5>1 DEF Speakable
      <4> QED BY <2>1, <4>1, <4>2, SplitOfJoined
    <3>2. CASE these # <<>>
      BY <2>1, <3>2, ListIs
    <3> QED BY <3>1, <3>2
  <2> QED BY <2>1, <2>2
<1>5. PICK a, u : a = said.action /\ u = said.text
  OBVIOUS
<1>6. a \in BOOLEAN /\ u \in Seq(Spoken(X)) /\ (a \/ u # <<>>)
  BY <1>2, <1>5 DEF IsSaid
<1>7. Hears(c, these, a, u, Privmsg(Joined(these, ","), Marked(a, u)))
  BY <1>4, <1>6, SaidIsHeard
<1>8. FormatOutbound(typed, to) = Privmsg(Joined(these, ","), Marked(a, u))
  BY <1>2, <1>4, <1>5 DEF IsSaid
<1>9. Shortened(u, Room(a)) =
      SubSeq(said.text, 1, IF Len(said.text) < (IF said.action THEN MaxText - 3 ELSE MaxText)
                           THEN Len(said.text) ELSE (IF said.action THEN MaxText - 3 ELSE MaxText))
  BY <1>5 DEF Shortened, Room
<1> QED BY <1>1, <1>4, <1>5, <1>7, <1>8, <1>9, ZenonT(60) DEF IsHeard, Hears

\* The symbols of the lines the run types.
Script == Specials \cup {"PRIVMSG", "ACTION", "SOH", ",", "a", "b", "#", "/", "msg", "me"}

\* The targets of the run are lists of recipients.
LEMMA TargetsAreLists ==
    ASSUME NEW t \in Targets
    PROVE  \E items \in Seq(Listed(Script)) : t = Joined(items, ",")
<1>1. PICK X, hash, a, b, comma : X = Script /\ hash = "#" /\ a = "a" /\ b = "b" /\ comma = ","
  OBVIOUS
<1>2. PICK ha, bb : ha = <<hash, a>> /\ bb = <<b>>
  OBVIOUS
<1>3. ha \in Listed(X) /\ bb \in Listed(X)
  <2>1. PICK W : W = X \ {" ", "CR", "LF", ","}
    OBVIOUS
  <2>2. hash \in W /\ a \in W /\ b \in W /\ hash # ":" /\ b # ":"
    BY <1>1, <2>1 DEF Script
  <2>3. ha \in Seq(W) /\ bb \in Seq(W) /\ ha # <<>> /\ bb # <<>> /\ ha[1] = hash /\ bb[1] = b
    BY ONLY <1>2, <2>2
  <2>4. W \subseteq Visible(X) /\ W \subseteq X \ {" "} /\ W \subseteq X \ {","}
    BY <2>1 DEF Visible
  <2>5. ASSUME NEW s \in Seq(W)
        PROVE  s \in Seq(Visible(X)) /\ s \in Seq(X \ {" "}) /\ s \in Seq(X \ {","})
    BY <2>4, SymbolsAdded
  <2> QED BY <2>2, <2>3, <2>5 DEF Listed, Recipients, Middles
<1>4. ha \in Seq(X) /\ bb \in Seq(X) /\ comma \in X
  <2>1. hash \in X /\ a \in X /\ b \in X /\ comma \in X
    BY <1>1 DEF Script
  <2> QED BY ONLY <1>2, <2>1
<1>5. PICK L : L = Listed(X)
  OBVIOUS
<1>6. /\ <<>> \in Seq(L) /\ <<ha>> \in Seq(L) /\ <<bb>> \in Seq(L) /\ <<ha>> \o <<bb>> \in Seq(L)
  BY <1>3, <1>5
<1>7. Joined(<<>>, comma) = <<>> /\ Joined(<<ha>>, comma) = ha /\ Joined(<<bb>>, comma) = bb
  BY <1>4, JoinedOfNothing, JoinedOfOne
<1>8. Joined(<<ha>> \o <<bb>>, comma) = ha \o (<<comma>> \o bb)
  <2>1. PICK rest : rest = <<bb>>
    OBVIOUS
  <2>2. rest \in Seq(Seq(X)) /\ rest # <<>>
    BY <1>4, <2>1
  <2>3. Joined(<<ha>> \o rest, comma) = ha \o (<<comma>> \o Joined(rest, comma))
    BY <1>4, <2>2, JoinedOfFirst
  <2> QED BY <1>7, <2>1, <2>3
<1>9. ha \o (<<comma>> \o bb) = <<hash, a, comma, b>>
  <2>1. hash \in X /\ a \in X /\ b \in X /\ comma \in X
    BY <1>1 DEF Script
  <2>2. PICK cb : cb = <<comma>> \o bb
    OBVIOUS
  <2>3. cb = <<comma, b>>
    BY <1>2, <2>1, <2>2, PairIs
  <2>4. PICK u, v : u = ha \o cb /\ v = <<hash, a, comma, b>>
    OBVIOUS
  <2>5. cb \in Seq(X) /\ Len(cb) = 2 /\ cb[1] = comma /\ cb[2] = b
    BY ONLY <2>1, <2>3
  <2>6. ha \in Seq(X) /\ Len(ha) = 2 /\ ha[1] = hash /\ ha[2] = a
    BY ONLY <1>2, <2>1
  <2>7. /\ u \in Seq(X) /\ Len(u) = 4
        /\ u[1] = hash /\ u[2] = a /\ u[3] = comma /\ u[4] = b
    <3>1. /\ ha \o cb \in Seq(X) /\ Len(ha \o cb) = Len(ha) + Len(cb)
          /\ \A i \in 1 .. Len(ha) : (ha \o cb)[i] = ha[i]
          /\ \A i \in 1 .. Len(cb) : (ha \o cb)[Len(ha) + i] = cb[i]
      <4>1. ha \in Seq(X) /\ cb \in Seq(X)
        BY <2>5, <2>6
      <4> QED BY ONLY <4>1, Cuts!ConcatIs
    <3>2. 1 \in 1 .. 2 /\ 2 \in 1 .. 2
      OBVIOUS
    <3> QED BY <2>4, <2>5, <2>6, <3>1, <3>2
  <2>8. /\ v \in Seq(X) /\ Len(v) = 4
        /\ v[1] = hash /\ v[2] = a /\ v[3] = comma /\ v[4] = b
    BY ONLY <2>1, <2>4
  <2>9. \A i \in 1 .. 4 : i = 1 \/ i = 2 \/ i = 3 \/ i = 4
    OBVIOUS
  <2>10. u = v
    BY <2>7, <2>8, <2>9, Cuts!SameSequence
  <2> QED BY <2>2, <2>4, <2>10
<1>10. t = <<>> \/ t = ha \/ t = bb \/ t = <<hash, a, comma, b>>
  BY <1>1, <1>2 DEF Targets
<1> QED BY <1>1, <1>5, <1>6, <1>7, <1>8, <1>9, <1>10, Zenon

\* TextArrives: what a user types is what those it is said to are shown, for the lines,
\* targets and symbols of the run and for lines of any length.
THEOREM SpokenLinesArrive == TextSpec => []TextArrives
<1>1. TextsInv => TextArrives
  <2> SUFFICES ASSUME TextsInv, kind = "typed", Speaks
               PROVE  TextArrives
    BY DEF TextArrives
  <2>1. left \in Seq(LeftSymbols["typed"]) /\ right \in Targets
    BY DEF TextsInv
  <2>2. PICK X, c : X = Script /\ c = Client(<<"a">>)
    OBVIOUS
  <2>3. Speakable(X)
    BY <2>2 DEF Speakable, Script
  <2>4. left \in Seq(Spoken(X))
    <3>1. LeftSymbols["typed"] \subseteq Spoken(X)
      BY <2>2 DEF LeftSymbols, Spoken, Plain, Script, Specials
    <3> QED BY <2>1, <3>1, SymbolsAdded
  <2>5. c \in Speakers(X)
    <3>1. PICK a, b, k, Z : a = "a" /\ b = "b" /\ k = ":" /\ Z = X \ {" ", "!", "@", "CR", "LF"}
      OBVIOUS
    <3>2. a \in Z /\ b \in Z /\ k \in Z
      BY <2>2, <3>1 DEF Script, Specials
    <3>3. <<a, b>> \in Seq(Z) \ {<<>>} /\ <<a>> \in Seq(Z) \ {<<>>} /\ <<a, k, b>> \in Seq(Z) \ {<<>>}
      BY ONLY <3>2
    <3> QED BY <2>2, <3>1, <3>3 DEF Speakers, Names, Client
  <2>6. PICK items \in Seq(Listed(X)) : right = Joined(items, ",")
    BY <2>1, <2>2, TargetsAreLists
  <2>7. Speaking(left)
    <3>1. PICK S, command, front, to : /\ S = LeftSymbols["typed"] /\ command = Tail(TrimFront(left))
                                       /\ front = TrimFront(command) /\ to = Token(Rest(front))
      OBVIOUS
    <3>2. TrimFront(left) \in Seq(S) /\ TrimFront(left) # <<>>
      BY <2>1, <3>1, TrimIs DEF Speaks
    <3>3. command \in Seq(S)
      BY <3>1, <3>2
    <3>4. front \in Seq(S)
      BY <3>1, <3>3, TrimIs
    <3>5. ASSUME front # <<>>, Rest(front) # <<>> PROVE NamesOne(to)
      <4>1. to \in Seq(S)
        BY <3>1, <3>4, <3>5, RestIs
      <4>2. S \ {","} = S
        BY <3>1 DEF LeftSymbols
      <4> QED BY <4>1, <4>2, OneOfNone
    <3>6. ToUpper(Token(front)) = <<"MSG">> => front # <<>>
      BY NoWord
    <3>7. to # <<>> => Rest(front) # <<>>
      BY <3>1, NoWord
    <3> QED BY <3>1, <3>5, <3>6, <3>7 DEF Speaks, Speaking
  <2>8. IsHeard(c, left, right)
    BY <2>3, <2>4, <2>5, <2>6, <2>7, TypedIsHeard
  <2>9. c.nick = <<"a", "b">>
    BY <2>2 DEF Client
  <2> QED BY <2>2, <2>8, <2>9, Zenon DEF TextArrives, IsHeard
<1> QED BY <1>1, TextsStay, PTL

=============================================================================

----------------------------- MODULE TextProofs -----------------------------
(***************************************************************************)
(* Theorems about the text functions, for texts of any length: how the     *)
(* bytes of a connection are cut into lines, what a glob decides, and what *)
(* the keys of the input line do to its characters.                        *)
(***************************************************************************)
EXTENDS MCText, TLAPS

-----------------------------------------------------------------------------
\* The lines of a connection.  The bytes that have left recvBuf always end with
\* a whole line, so that cutting them leaves nothing open: with that, and with
\* recvBuf being what follows them, the invariant is inductive.
Cutting == [lines : Seq(Seq(Bytes)), open : Seq(Bytes)]

Cuts == INSTANCE Induction WITH Values <- Cutting, Items <- Bytes, Op <- Cut

LEMMA TrimmedIs ==
    ASSUME NEW line \in Seq(Bytes)
    PROVE  Trimmed(line) \in Seq(Bytes)
BY DEF Trimmed, Front

LEMMA CutIsClosed == Cuts!Closed
<1> SUFFICES ASSUME NEW acc \in Cutting, NEW b \in Bytes
             PROVE  Cut(acc, b) \in Cutting
  BY DEF Cuts!Closed
<1>1. acc.open \in Seq(Bytes) /\ acc.lines \in Seq(Seq(Bytes))
  BY DEF Cutting
<1>2. Trimmed(acc.open) \in Seq(Bytes)
  BY <1>1, TrimmedIs
<1>3. WithLine(acc.lines, Trimmed(acc.open)) \in Seq(Seq(Bytes))
  BY <1>1, <1>2 DEF WithLine
<1>4. [acc EXCEPT !.open = Append(@, b)] \in Cutting
  <2>1. Append(acc.open, b) \in Seq(Bytes)
    BY <1>1
  <2>2. acc = [lines |-> acc.lines, open |-> acc.open]
    BY DEF Cutting
  <2>3. [acc EXCEPT !.open = Append(@, b)] = [lines |-> acc.lines, open |-> Append(acc.open, b)]
    BY <2>2, SMTT(30)
  <2> QED BY <1>1, <2>1, <2>3 DEF Cutting
<1>5. [lines |-> WithLine(acc.lines, Trimmed(acc.open)), open |-> <<>>] \in Cutting
  BY <1>3 DEF Cutting
<1> QED BY <1>4, <1>5 DEF Cut

LEMMA NothingIsCutting == Nothing \in Cutting
BY DEF Nothing, Cutting

LEMMA LinesOfIs == \A s : LinesOf(s) = Cuts!Fold(Nothing, s).lines
BY DEF LinesOf, Cuts!Fold, Cuts!FoldLeft, Cuts!MapThenFoldSet, FoldLeft, MapThenFoldSet,
       Max, Cuts!Max

\* Bytes without an LF stay open.
LEMMA CutOfPart ==
    ASSUME NEW acc \in Cutting, acc.open = <<>>, NEW part \in Seq(Bytes),
           \A i \in 1 .. Len(part) : part[i] # LF
    PROVE  Cuts!Fold(acc, part) = [lines |-> acc.lines, open |-> part]
<1> DEFINE N == Len(part)
           Opened(n) == [lines |-> acc.lines, open |-> SubSeq(part, 1, n)]
           S(h) == {n \in 0 .. N : h[n] = Opened(n)}
<1>1. PICK h : Cuts!Unfolds(h, acc, part) /\ Cuts!Fold(acc, part) = h[N]
  BY CutIsClosed, Cuts!FoldUnfolds
<1>2. N \in Nat /\ SubSeq(part, 1, 0) = <<>> /\ SubSeq(part, 1, N) = part
  OBVIOUS
<1>3. acc = [lines |-> acc.lines, open |-> <<>>]
  BY DEF Cutting
<1>4. 0 \in S(h)
  BY <1>1, <1>2, <1>3 DEF Cuts!Unfolds
<1>5. ASSUME NEW n \in 0 .. N - 1, n \in S(h)
      PROVE  n + 1 \in S(h)
  <2>1. n + 1 \in 1 .. N /\ (n + 1) - 1 = n
    BY <1>2
  <2>2. h[n + 1] = Cut(h[n], part[n + 1]) /\ h[n] = Opened(n)
    BY <1>1, <1>5, <2>1 DEF Cuts!Unfolds
  <2>3. SubSeq(part, 1, n + 1) = Append(SubSeq(part, 1, n), part[n + 1])
    BY <2>1
  <2>4. Cut(Opened(n), part[n + 1]) = Opened(n + 1)
    BY <2>1, <2>3 DEF Cut
  <2> HIDE DEF Opened
  <2> QED BY <2>1, <2>2, <2>4
<1>6. 0 .. N \subseteq S(h)
  <2> HIDE DEF S, N
  <2> QED BY <1>2, <1>4, <1>5, Cuts!IntervalInduction
<1>7. h[N] = Opened(N)
  <2>1. N \in 0 .. N
    BY <1>2
  <2>2. N \in S(h)
    BY <1>6, <2>1
  <2> QED BY <2>2
<1> QED BY <1>1, <1>2, <1>7

\* A part without an LF and then one: the line.
LEMMA CutOfLine ==
    ASSUME NEW acc \in Cutting, acc.open = <<>>, NEW part \in Seq(Bytes),
           \A i \in 1 .. Len(part) : part[i] # LF
    PROVE  Cuts!Fold(acc, Append(part, LF)) =
           [lines |-> WithLine(acc.lines, Trimmed(part)), open |-> <<>>]
<1>1. LF \in Bytes
  BY LineAssumption
<1>2. Cuts!Fold(acc, Append(part, LF)) = Cut(Cuts!Fold(acc, part), LF)
  BY <1>1, CutIsClosed, Cuts!FoldOfAppend
<1> QED BY <1>2, CutOfPart DEF Cut

\* What has left recvBuf is gone, in whole lines.
GoneIs(gone) ==
    /\ gone \in Seq(Bytes)
    /\ received = gone \o recvBuf
    /\ Cuts!Fold(Nothing, gone) = [lines |-> handled, open |-> <<>>]

LineInv ==
    /\ recvBuf \in Seq(Bytes)
    /\ \E gone : GoneIs(gone)
    /\ Len(recvBuf) <= FloodLen

LEMMA LineInitInv == LineInit => LineInv
<1> SUFFICES ASSUME LineInit PROVE LineInv
  OBVIOUS
<1>1. <<>> \in Seq(Bytes) /\ <<>> \o <<>> = <<>> /\ Len(<<>>) = 0
  OBVIOUS
<1>2. Cuts!Fold(Nothing, <<>>) = Nothing
  BY CutIsClosed, NothingIsCutting, Cuts!FoldOfNothing
<1>3. GoneIs(<<>>)
  BY <1>1, <1>2 DEF LineInit, GoneIs, Nothing
<1>4. 0 <= FloodLen
  BY LineAssumption DEF FloodLen
<1> QED BY <1>1, <1>3, <1>4 DEF LineInit, LineInv

\* The first LF of recvBuf ends the next line.
LEMMA FirstLFIs ==
    ASSUME NEW buf \in Seq(Bytes), HasLine(buf)
    PROVE  LET pos == FirstLF(buf) IN
           /\ pos \in 1 .. Len(buf)
           /\ buf[pos] = LF
           /\ \A j \in 1 .. pos - 1 : buf[j] # LF
<1> DEFINE T == {i \in 1 .. Len(buf) : buf[i] = LF}
<1>1. T \in SUBSET Nat /\ T # {}
  BY DEF HasLine
<1>2. PICK m \in T : \A n \in T : m <= n
  <2> HIDE DEF T
  <2> QED BY <1>1, Cuts!LeastOfSet
<1>3. m \in 1 .. Len(buf) /\ buf[m] = LF /\ \A j \in 1 .. m - 1 : buf[j] # LF
  BY <1>2
<1> QED BY <1>3 DEF FirstLF

LEMMA NextLineInv ==
    ASSUME LineInv, NEW quits, NextLine(quits)
    PROVE  LineInv'
<1> DEFINE pos == FirstLF(recvBuf)
           part == SubSeq(recvBuf, 1, pos - 1)
           rest == SubSeq(recvBuf, pos + 1, Len(recvBuf))
<1>1. /\ recvBuf \in Seq(Bytes) /\ HasLine(recvBuf)
      /\ recvBuf' = rest /\ received' = received
      /\ handled' = WithLine(handled, Trimmed(part))
  BY DEF NextLine, LineInv, WithLine
<1>2. pos \in 1 .. Len(recvBuf) /\ recvBuf[pos] = LF /\ \A j \in 1 .. pos - 1 : recvBuf[j] # LF
  BY <1>1, FirstLFIs
<1> HIDE DEF pos
<1>3. /\ part \in Seq(Bytes) /\ rest \in Seq(Bytes)
      /\ Len(part) = pos - 1 /\ Len(rest) = Len(recvBuf) - pos
      /\ \A i \in 1 .. pos - 1 : part[i] = recvBuf[i]
      /\ recvBuf = Append(part, LF) \o rest
  BY <1>1, <1>2, Cuts!CutAt, ZenonT(40)
<1> HIDE DEF part, rest
<1> DEFINE line == Append(part, LF)
<1>4. line \in Seq(Bytes) /\ recvBuf = line \o rest
  BY <1>3, LineAssumption
<1>5. \A i \in 1 .. Len(part) : part[i] # LF
  BY <1>2, <1>3
<1> HIDE DEF line
<1>6. PICK gone : GoneIs(gone)
  BY DEF LineInv
<1>7. PICK next : next = gone \o line
  OBVIOUS
<1> DEFINE acc == Cuts!Fold(Nothing, gone)
<1>8. gone \in Seq(Bytes) /\ next \in Seq(Bytes) /\ received = next \o rest
  <2>1. gone \in Seq(Bytes) /\ received = gone \o recvBuf
    BY <1>6 DEF GoneIs
  <2>2. gone \in Seq(Bytes) /\ line \in Seq(Bytes) /\ rest \in Seq(Bytes)
    BY <1>3, <1>4, <2>1
  <2>3. (gone \o line) \o rest = gone \o (line \o rest)
    BY <2>2
  <2> QED BY <1>4, <1>7, <2>1, <2>2, <2>3
<1>9. acc \in Cutting /\ acc = [lines |-> handled, open |-> <<>>]
  BY <1>6, <1>8, CutIsClosed, NothingIsCutting, Cuts!FoldIsValue DEF GoneIs
<1>10. Cuts!Fold(Nothing, next) = Cuts!Fold(acc, line)
  BY <1>4, <1>8, <1>7, CutIsClosed, NothingIsCutting, Cuts!FoldOfConcat
<1>11. Cuts!Fold(acc, line) = [lines |-> handled', open |-> <<>>]
  <2>1. handled' = WithLine(handled, Trimmed(part))
    BY <1>1 DEF part
  <2> HIDE DEF acc
  <2> QED BY <1>3, <1>5, <1>9, <2>1, CutOfLine DEF line
<1> HIDE DEF acc
<1>12. GoneIs(next)'
  <2>1. received' = next \o recvBuf'
    BY <1>1, <1>8 DEF rest
  <2> QED BY <1>8, <1>10, <1>11, <2>1 DEF GoneIs
<1>13. recvBuf' \in Seq(Bytes) /\ Len(recvBuf') <= FloodLen
  <2>1. recvBuf' = rest
    BY <1>1 DEF rest
  <2> QED BY <1>1, <1>2, <1>3, <2>1, LineAssumption DEF LineInv, FloodLen
<1> QED BY <1>12, <1>13 DEF LineInv

LEMMA LineNextInv == LineInv /\ [LineNext]_lineVars => LineInv'
<1> SUFFICES ASSUME LineInv, [LineNext]_lineVars PROVE LineInv'
  OBVIOUS
<1>1. ASSUME UNCHANGED <<received, recvBuf, handled>>
      PROVE  LineInv'
  BY <1>1 DEF LineInv, GoneIs
<1>2. ASSUME NEW piece \in Pieces, ReadPiece(piece)
      PROVE  LineInv'
  <2>1. piece \in Seq(Bytes)
    BY DEF Pieces, BoundedSeq, SeqOf
  <2>2. CASE Len(recvBuf) + Len(piece) > FloodLen
    BY <1>1, <1>2, <2>2 DEF ReadPiece
  <2>3. CASE ~(Len(recvBuf) + Len(piece) > FloodLen)
    <3>1. /\ received' = received \o piece /\ recvBuf' = recvBuf \o piece
          /\ handled' = handled
      BY <1>2, <2>3 DEF ReadPiece
    <3>2. PICK gone : GoneIs(gone)
      BY DEF LineInv
    <3>3. GoneIs(gone)'
      BY <2>1, <3>1, <3>2, SMTT(30) DEF GoneIs, LineInv
    <3>4. recvBuf' \in Seq(Bytes) /\ Len(recvBuf') <= FloodLen
      BY <2>1, <2>3, <3>1, LineAssumption DEF LineInv, FloodLen
    <3> QED BY <3>3, <3>4 DEF LineInv
  <2> QED BY <2>2, <2>3
<1>3. CASE (\E wants \in BOOLEAN : ReadStops(wants)) \/ NoMoreLines \/ UNCHANGED lineVars
  BY <1>1, <1>3 DEF ReadStops, NoMoreLines, lineVars
<1> QED BY <1>2, <1>3, NextLineInv DEF LineNext

LEMMA LineInvHolds == LineSpec => []LineInv
BY LineInitInv, LineNextInv, PTL DEF LineSpec

\* The second part of a text is its suffix, and what stands before is the first.
LEMMA PartsOf ==
    ASSUME NEW T, NEW s \in Seq(T), NEW t \in Seq(T)
    PROVE  /\ IsSuffix(t, s \o t)
           /\ SubSeq(s \o t, 1, Len(s \o t) - Len(t)) = s
<1> DEFINE u == s \o t
           M == Len(s)
           N == Len(t)
<1>1. /\ u \in Seq(T) /\ Len(u) = M + N /\ M \in Nat /\ N \in Nat
      /\ \A i \in 1 .. M : u[i] = s[i]
      /\ \A i \in 1 .. N : u[M + i] = t[i]
  OBVIOUS
<1> HIDE DEF u
<1>2. SubSeq(u, 1, (M + N) - N) = s
  <2>1. (M + N) - N = M /\ Len(SubSeq(u, 1, M)) = M
    BY <1>1
  <2>2. \A i \in 1 .. M : SubSeq(u, 1, M)[i] = s[i]
    BY <1>1
  <2> QED BY <1>1, <2>1, <2>2
<1>3. IsSuffix(t, u)
  <2>1. /\ Len(Reverse(t)) = N /\ Reverse(t) \in Seq(T)
        /\ Len(Reverse(u)) = M + N /\ Reverse(u) \in Seq(T)
    BY <1>1 DEF Reverse
  <2>2. ASSUME NEW i \in 1 .. N PROVE Reverse(t)[i] = Reverse(u)[i]
    <3>1. /\ Reverse(t)[i] = t[(N - i) + 1] /\ Reverse(u)[i] = u[((M + N) - i) + 1]
          /\ (N - i) + 1 \in 1 .. N /\ ((M + N) - i) + 1 = M + ((N - i) + 1)
      BY <1>1 DEF Reverse
    <3> QED BY <1>1, <3>1
  <2>3. SubSeq(Reverse(t), 1, N) = SubSeq(Reverse(u), 1, N)
    BY <1>1, <2>1, <2>2
  <2> QED BY <1>1, <2>1, <2>3 DEF IsSuffix, IsPrefix
<1> QED BY <1>1, <1>2, <1>3 DEF u

\* However a peer's bytes were cut into pieces, the handler has seen exactly the lines
\* of what has left recvBuf, and the rest is still there (Server.cpp:320-337).
THEOREM LinesAreAlwaysTheStream == LineSpec => []LinesAreTheStream
<1>1. LineInv => LinesAreTheStream
  <2> SUFFICES ASSUME LineInv PROVE LinesAreTheStream
    OBVIOUS
  <2>1. PICK gone : GoneIs(gone)
    BY DEF LineInv
  <2>2. /\ gone \in Seq(Bytes) /\ recvBuf \in Seq(Bytes) /\ received = gone \o recvBuf
        /\ Cuts!Fold(Nothing, gone) = [lines |-> handled, open |-> <<>>]
    BY <2>1 DEF GoneIs, LineInv
  <2>3. IsSuffix(recvBuf, received) /\ SubSeq(received, 1, Len(received) - Len(recvBuf)) = gone
    BY <2>2, PartsOf
  <2>4. LinesOf(gone) = Cuts!Fold(Nothing, gone).lines
    BY LinesOfIs
  <2>5. LinesOf(gone) = handled
    BY <2>2, <2>4
  <2> QED BY <2>3, <2>5 DEF LinesAreTheStream
<1> QED BY <1>1, LineInvHolds, PTL

\* recvBuf is bounded, and a connection is read on only when no complete line is left
\* in it (Server.cpp:282-285, 324-327).
THEOREM BufferStaysBounded == LineSpec => BufferIsBounded
<1> DEFINE Bounded ==
        /\ Len(recvBuf') <= FloodLen
        /\ stage = "lines" /\ stage' = "reading"
             => Len(recvBuf') <= MaxLineLen /\ ~HasLine(recvBuf')
<1>1. LineInv' /\ [LineNext]_lineVars => [Bounded]_lineVars
  <2> SUFFICES ASSUME LineInv', LineNext PROVE Bounded
    OBVIOUS
  <2>1. Len(recvBuf') <= FloodLen
    BY DEF LineInv
  <2>2. ASSUME stage = "lines", stage' = "reading"
        PROVE  Len(recvBuf') <= MaxLineLen /\ ~HasLine(recvBuf')
    <3>1. NoMoreLines
      BY <2>2 DEF LineNext, ReadPiece, ReadStops, NextLine
    <3>2. recvBuf' = recvBuf /\ ~(Len(recvBuf) > MaxLineLen) /\ ~HasLine(recvBuf)
      BY <2>2, <3>1 DEF NoMoreLines
    <3>3. Len(recvBuf') \in Nat
      BY DEF LineInv
    <3> QED BY <3>2, <3>3, LineAssumption
  <2> QED BY <2>1, <2>2
<1> QED BY <1>1, LineInvHolds, PTL DEF LineSpec, BufferIsBounded

-----------------------------------------------------------------------------
\* Globs.  W holds <<i, j>> when p from its i-th symbol on matches t from its
\* j-th on; M holds it when the first i symbols of p match the first j of t.
Ends(p, t)   == (1 .. Len(p) + 1) \X (1 .. Len(t) + 1)
Starts(p, t) == (0 .. Len(p)) \X (0 .. Len(t))

EndMatches(W, p, t, i, j) ==
    IF i > Len(p) THEN j > Len(t)
    ELSE IF p[i] = "*" THEN <<i + 1, j>> \in W \/ (j <= Len(t) /\ <<i, j + 1>> \in W)
    ELSE j <= Len(t) /\ p[i] \in {"?", t[j]} /\ <<i + 1, j + 1>> \in W

StartMatches(M, p, t, i, j) ==
    IF i = 0 THEN j = 0
    ELSE IF p[i] = "*" THEN <<i - 1, j>> \in M \/ (j > 0 /\ <<i, j - 1>> \in M)
    ELSE j > 0 /\ p[i] \in {"?", t[j]} /\ <<i - 1, j - 1>> \in M

MatchesEnds(W, p, t) ==
    \A i \in 1 .. Len(p) + 1, j \in 1 .. Len(t) + 1 :
        <<i, j>> \in W <=> EndMatches(W, p, t, i, j)

MatchesStarts(M, p, t) ==
    \A i \in 0 .. Len(p), j \in 0 .. Len(t) : <<i, j>> \in M <=> StartMatches(M, p, t, i, j)

LEMMA EndMatchesIsBoolean ==
    ASSUME NEW W, NEW p, NEW t, NEW i, NEW j
    PROVE  EndMatches(W, p, t, i, j) \in BOOLEAN
<1>1. CASE i > Len(p)
  BY <1>1 DEF EndMatches
<1>2. CASE ~(i > Len(p)) /\ p[i] = "*"
  BY <1>2 DEF EndMatches
<1>3. CASE ~(i > Len(p)) /\ p[i] # "*"
  BY <1>3 DEF EndMatches
<1> QED BY <1>1, <1>2, <1>3

\* There is such a W: it is found from the ends of both.
LEMMA EndsAreFound ==
    ASSUME NEW X, NEW p \in Seq(X), NEW t \in Seq(X)
    PROVE  \E W : MatchesEnds(W, p, t)
<1> DEFINE D == Ends(p, t)
           P == Len(p)
           T == Len(t)
           measure == [x \in D |-> (P + 1 - x[1]) + (T + 1 - x[2])]
           Of(g) == {x \in D : g[x]}
           Value(x, g) == EndMatches(Of(g), p, t, x[1], x[2])
           Step == [q \in D \X [D -> BOOLEAN] |-> Value(q[1], q[2])]
<1>1. P \in Nat /\ T \in Nat /\ P + T \in Nat
  OBVIOUS
<1>2. measure \in [D -> 0 .. P + T]
  BY DEF Ends
<1>3. /\ Step \in [D \X [D -> BOOLEAN] -> BOOLEAN]
      /\ \A x \in D : \A g \in [D -> BOOLEAN] : Step[<<x, g>>] = Value(x, g)
  <2>1. \A x, g : Value(x, g) \in BOOLEAN
    BY EndMatchesIsBoolean
  <2> HIDE DEF Value, D
  <2> QED BY <2>1
<1>4. Cuts!LooksBelow(D, BOOLEAN, measure, Step)
  <2> SUFFICES ASSUME NEW x \in D, NEW f \in [D -> BOOLEAN], NEW h \in [D -> BOOLEAN],
                      \A y \in D : measure[y] < measure[x] => f[y] = h[y]
               PROVE  Value(x, f) = Value(x, h)
    <3> HIDE DEF D, Value, measure
    <3> QED BY <1>3 DEF Cuts!LooksBelow
  <2>1. PICK i \in 1 .. P + 1, j \in 1 .. T + 1 : x = <<i, j>>
    BY DEF Ends
  <2>2. ASSUME NEW k \in 1 .. P + 1, NEW l \in 1 .. T + 1,
               (P + 1 - k) + (T + 1 - l) < (P + 1 - i) + (T + 1 - j)
        PROVE  <<k, l>> \in Of(f) <=> <<k, l>> \in Of(h)
    <3>1. <<k, l>> \in D /\ measure[<<k, l>>] < measure[x]
      BY <2>1, <2>2 DEF Ends
    <3> HIDE DEF D, measure
    <3> QED BY <3>1
  <2>3. i \in Int /\ j \in Int /\ x[1] = i /\ x[2] = j
    BY <2>1
  <2> HIDE DEF D, measure, Of
  <2>4. CASE i <= P
    <3>1. i + 1 \in 1 .. P + 1 /\ (P + 1 - (i + 1)) + (T + 1 - j) < (P + 1 - i) + (T + 1 - j)
      BY <1>1, <2>3, <2>4, SMTT(30)
    <3>2. <<i + 1, j>> \in Of(f) <=> <<i + 1, j>> \in Of(h)
      BY <2>2, <3>1
    <3>3. CASE j <= T
      <4>1. j + 1 \in 1 .. T + 1
        BY <1>1, <2>3, <3>3
      <4>2. /\ (P + 1 - i) + (T + 1 - (j + 1)) < (P + 1 - i) + (T + 1 - j)
            /\ (P + 1 - (i + 1)) + (T + 1 - (j + 1)) < (P + 1 - i) + (T + 1 - j)
        BY <1>1, <2>3
      <4>3. <<i, j + 1>> \in Of(f) <=> <<i, j + 1>> \in Of(h)
        BY <2>2, <4>1, <4>2
      <4>4. <<i + 1, j + 1>> \in Of(f) <=> <<i + 1, j + 1>> \in Of(h)
        BY <2>2, <3>1, <4>1, <4>2
      <4> QED BY <2>3, <3>2, <4>3, <4>4 DEF EndMatches
    <3> QED BY <2>3, <3>2, <3>3 DEF EndMatches
  <2>5. CASE i > P
    BY <2>3, <2>5 DEF EndMatches
  <2> QED BY <1>1, <2>3, <2>4, <2>5
<1>5. PICK g \in [D -> BOOLEAN] : Cuts!Solves(g, D, Step)
  <2> HIDE DEF D, measure, Step
  <2> QED BY <1>1, <1>2, <1>3, <1>4, Cuts!Recursion
<1>6. \A i \in 1 .. P + 1, j \in 1 .. T + 1 : <<i, j>> \in Of(g) <=> EndMatches(Of(g), p, t, i, j)
  <2> SUFFICES ASSUME NEW i \in 1 .. P + 1, NEW j \in 1 .. T + 1
               PROVE  <<i, j>> \in Of(g) <=> EndMatches(Of(g), p, t, i, j)
    OBVIOUS
  <2>1. <<i, j>> \in D
    BY DEF Ends
  <2>2. g[<<i, j>>] = Value(<<i, j>>, g)
    <3> HIDE DEF D, Value, Step
    <3> QED BY <1>3, <1>5, <2>1 DEF Cuts!Solves
  <2>3. Value(<<i, j>>, g) <=> EndMatches(Of(g), p, t, i, j)
    <3> HIDE DEF Of
    <3> QED OBVIOUS
  <2>4. <<i, j>> \in Of(g) <=> g[<<i, j>>]
    <3> HIDE DEF D
    <3> QED BY <2>1
  <2> HIDE DEF Value, Of
  <2> QED BY <2>2, <2>3, <2>4
<1> QED BY <1>6 DEF MatchesEnds

LEMMA StartMatchesIsBoolean ==
    ASSUME NEW M, NEW p, NEW t, NEW i, NEW j
    PROVE  StartMatches(M, p, t, i, j) \in BOOLEAN
<1>1. CASE i = 0
  BY <1>1 DEF StartMatches
<1>2. CASE i # 0 /\ p[i] = "*"
  BY <1>2 DEF StartMatches
<1>3. CASE i # 0 /\ p[i] # "*"
  BY <1>3 DEF StartMatches
<1> QED BY <1>1, <1>2, <1>3

\* There is such an M: it is found from the beginnings.
LEMMA StartsAreFound ==
    ASSUME NEW X, NEW p \in Seq(X), NEW t \in Seq(X)
    PROVE  \E g \in [Starts(p, t) -> BOOLEAN] :
               \A i \in 0 .. Len(p), j \in 0 .. Len(t) :
                   g[<<i, j>>] = StartMatches({x \in Starts(p, t) : g[x]}, p, t, i, j)
<1> DEFINE D == Starts(p, t)
           P == Len(p)
           T == Len(t)
           measure == [x \in D |-> x[1] + x[2]]
           Of(g) == {x \in D : g[x]}
           Value(x, g) == StartMatches(Of(g), p, t, x[1], x[2])
           Step == [q \in D \X [D -> BOOLEAN] |-> Value(q[1], q[2])]
<1>1. P \in Nat /\ T \in Nat /\ P + T \in Nat
  OBVIOUS
<1>2. measure \in [D -> 0 .. P + T]
  BY DEF Starts
<1>3. /\ Step \in [D \X [D -> BOOLEAN] -> BOOLEAN]
      /\ \A x \in D : \A g \in [D -> BOOLEAN] : Step[<<x, g>>] = Value(x, g)
  <2>1. \A x, g : Value(x, g) \in BOOLEAN
    BY StartMatchesIsBoolean
  <2> HIDE DEF Value, D
  <2> QED BY <2>1
<1>4. Cuts!LooksBelow(D, BOOLEAN, measure, Step)
  <2> SUFFICES ASSUME NEW x \in D, NEW f \in [D -> BOOLEAN], NEW h \in [D -> BOOLEAN],
                      \A y \in D : measure[y] < measure[x] => f[y] = h[y]
               PROVE  Value(x, f) = Value(x, h)
    <3> HIDE DEF D, Value, measure
    <3> QED BY <1>3 DEF Cuts!LooksBelow
  <2>1. PICK i \in 0 .. P, j \in 0 .. T : x = <<i, j>>
    BY DEF Starts
  <2>2. ASSUME NEW k \in 0 .. P, NEW l \in 0 .. T, k + l < i + j
        PROVE  <<k, l>> \in Of(f) <=> <<k, l>> \in Of(h)
    <3>1. <<k, l>> \in D /\ measure[<<k, l>>] < measure[x]
      BY <2>1, <2>2 DEF Starts
    <3> HIDE DEF D, measure
    <3> QED BY <3>1
  <2>3. i \in Int /\ j \in Int /\ x[1] = i /\ x[2] = j
    BY <2>1
  <2> HIDE DEF D, measure, Of
  <2>4. CASE i # 0
    <3>1. i - 1 \in 0 .. P /\ i - 1 + j < i + j
      BY <1>1, <2>3, <2>4
    <3>2. <<i - 1, j>> \in Of(f) <=> <<i - 1, j>> \in Of(h)
      BY <2>2, <3>1
    <3>3. CASE j > 0
      <4>1. j - 1 \in 0 .. T /\ i + (j - 1) < i + j /\ (i - 1) + (j - 1) < i + j
        BY <1>1, <2>3, <3>3
      <4>2. /\ <<i, j - 1>> \in Of(f) <=> <<i, j - 1>> \in Of(h)
            /\ <<i - 1, j - 1>> \in Of(f) <=> <<i - 1, j - 1>> \in Of(h)
        BY <2>2, <3>1, <4>1
      <4> QED BY <2>3, <3>2, <4>2 DEF StartMatches
    <3> QED BY <2>3, <3>2, <3>3 DEF StartMatches
  <2>5. CASE i = 0
    BY <2>3, <2>5 DEF StartMatches
  <2> QED BY <1>1, <2>3, <2>4, <2>5
<1>5. PICK g \in [D -> BOOLEAN] : Cuts!Solves(g, D, Step)
  <2> HIDE DEF D, measure, Step
  <2> QED BY <1>1, <1>2, <1>3, <1>4, Cuts!Recursion
<1>6. ASSUME NEW i \in 0 .. P, NEW j \in 0 .. T
      PROVE  g[<<i, j>>] = StartMatches(Of(g), p, t, i, j)
  <2>1. <<i, j>> \in D
    BY DEF Starts
  <2>2. g[<<i, j>>] = Value(<<i, j>>, g)
    <3> HIDE DEF D, Value, Step
    <3> QED BY <1>3, <1>5, <2>1 DEF Cuts!Solves
  <2> HIDE DEF Of
  <2> QED BY <2>2
<1> QED BY <1>6

\* Matches says what M does.
LEMMA MatchesIs ==
    ASSUME NEW pattern, NEW text, NEW X,
           CaseFold(pattern) \in Seq(X), CaseFold(text) \in Seq(X)
    PROVE  \E M : /\ MatchesStarts(M, CaseFold(pattern), CaseFold(text))
                  /\ Matches(pattern, text) <=>
                       <<Len(CaseFold(pattern)), Len(CaseFold(text))>> \in M
<1>1. PICK p, t : p = CaseFold(pattern) /\ t = CaseFold(text)
  OBVIOUS
<1> DEFINE P == Len(p)
           T == Len(t)
           Eq(m) == m = [i \in 0 .. P |->
                            [j \in 0 .. T |->
                                IF i = 0 THEN j = 0
                                ELSE IF p[i] = "*" THEN m[i - 1][j] \/ (j > 0 /\ m[i][j - 1])
                                ELSE j > 0 /\ p[i] \in {"?", t[j]} /\ m[i - 1][j - 1]]]
           m == CHOOSE m : Eq(m)
           M == {x \in Starts(p, t) : m[x[1]][x[2]]}
<1>2. p \in Seq(X) /\ t \in Seq(X) /\ P \in Nat /\ T \in Nat
  BY <1>1
<1>3. Matches(pattern, text) <=> m[P][T]
  BY <1>1 DEF Matches
<1>4. PICK g \in [Starts(p, t) -> BOOLEAN] :
         \A i \in 0 .. P, j \in 0 .. T :
             g[<<i, j>>] = StartMatches({x \in Starts(p, t) : g[x]}, p, t, i, j)
  BY <1>2, StartsAreFound, ZenonT(40)
<1>5. PICK h : h = [i \in 0 .. P |-> [j \in 0 .. T |-> g[<<i, j>>]]]
  OBVIOUS
<1> DEFINE Row(i, j) == IF i = 0 THEN j = 0
                        ELSE IF p[i] = "*" THEN h[i - 1][j] \/ (j > 0 /\ h[i][j - 1])
                        ELSE j > 0 /\ p[i] \in {"?", t[j]} /\ h[i - 1][j - 1]
<1>6. ASSUME NEW i \in 0 .. P, NEW j \in 0 .. T
      PROVE  h[i][j] = Row(i, j)
  <2>1. \A k \in 0 .. P, l \in 0 .. T : h[k][l] = g[<<k, l>>] /\ <<k, l>> \in Starts(p, t)
    BY <1>5 DEF Starts
  <2>2. \A k \in 0 .. P, l \in 0 .. T : <<k, l>> \in {x \in Starts(p, t) : g[x]} <=> h[k][l]
    BY <2>1
  <2>3. h[i][j] <=> StartMatches({x \in Starts(p, t) : g[x]}, p, t, i, j)
    BY <1>4, <2>1
  <2>4. h[i][j] \in BOOLEAN
    BY <2>1
  <2>5. Row(i, j) \in BOOLEAN
    OBVIOUS
  <2> DEFINE G == {x \in Starts(p, t) : g[x]}
  <2> HIDE DEF G
  <2>6. Row(i, j) <=> StartMatches(G, p, t, i, j)
    <3>1. \A k \in 0 .. P, l \in 0 .. T : <<k, l>> \in G <=> h[k][l]
      BY <2>2 DEF G
    <3>2. CASE i = 0
      BY <3>2 DEF StartMatches
    <3>3. CASE i # 0
      <4>1. i - 1 \in 0 .. P /\ (j > 0 => j - 1 \in 0 .. T)
        BY <1>2, <3>3
      <4>2. CASE p[i] = "*"
        BY <3>1, <3>3, <4>1, <4>2 DEF StartMatches
      <4>3. CASE p[i] # "*"
        BY <3>1, <3>3, <4>1, <4>3 DEF StartMatches
      <4> QED BY <4>2, <4>3
    <3> QED BY <3>2, <3>3
  <2> HIDE DEF Row
  <2> QED BY <2>3, <2>4, <2>5, <2>6 DEF G
<1>7. Eq(h)
  <2>1. h = [i \in 0 .. P |-> [j \in 0 .. T |-> h[i][j]]]
    BY <1>5
  <2>2. [i \in 0 .. P |-> [j \in 0 .. T |-> h[i][j]]] = [i \in 0 .. P |-> [j \in 0 .. T |-> Row(i, j)]]
    <3> HIDE DEF Row
    <3> QED BY <1>6
  <2> QED BY <2>1, <2>2
<1>8. Eq(m)
  <2> HIDE DEF Eq
  <2> QED BY <1>7
<1> HIDE DEF m
<1>9. MatchesStarts(M, p, t)
  <2> SUFFICES ASSUME NEW i \in 0 .. P, NEW j \in 0 .. T
               PROVE  <<i, j>> \in M <=> StartMatches(M, p, t, i, j)
    BY DEF MatchesStarts
  <2>1. \A k \in 0 .. P, l \in 0 .. T : <<k, l>> \in M <=> m[k][l]
    BY DEF Starts
  <2>2. m[i][j] <=> IF i = 0 THEN j = 0
                    ELSE IF p[i] = "*" THEN m[i - 1][j] \/ (j > 0 /\ m[i][j - 1])
                    ELSE j > 0 /\ p[i] \in {"?", t[j]} /\ m[i - 1][j - 1]
    BY <1>8
  <2> HIDE DEF M
  <2>3. CASE i = 0
    BY <2>1, <2>2, <2>3 DEF StartMatches
  <2>4. CASE i # 0
    <3>1. i - 1 \in 0 .. P /\ (j > 0 => j - 1 \in 0 .. T)
      BY <1>2, <2>4
    <3>2. CASE p[i] = "*"
      BY <2>1, <2>2, <2>4, <3>1, <3>2 DEF StartMatches
    <3>3. CASE p[i] # "*"
      BY <2>1, <2>2, <2>4, <3>1, <3>3 DEF StartMatches
    <3> QED BY <3>2, <3>3
  <2> QED BY <2>3, <2>4
<1>10. <<P, T>> \in M <=> m[P][T]
  BY <1>2 DEF Starts
<1> QED BY <1>1, <1>3, <1>9, <1>10

\* The loop of globMatch: its states, the three ways on, and R, the states from
\* which it ends in a match.
LoopStates(p, t) == [pi : 1 .. Len(p) + 1, ti : 1 .. Len(t) + 1,
                     star : 0 .. Len(p), match : 1 .. Len(t) + 1]

Past(at)   == At(at.pi + 1, at.ti + 1, at.star, at.match)
OnStar(at) == At(at.pi + 1, at.ti, at.pi, at.ti)
Back(at)   == At(at.star + 1, at.match + 1, at.star, at.match + 1)

LoopMatches(R, p, t, at) ==
    LET here == at.pi <= Len(p)
    IN  IF at.ti > Len(t) THEN \A i \in at.pi .. Len(p) : p[i] = "*"
        ELSE IF here /\ p[at.pi] \in {"?", t[at.ti]} THEN Past(at) \in R
        ELSE IF here /\ p[at.pi] = "*" THEN OnStar(at) \in R
        ELSE at.star # 0 /\ at.match <= Len(t) /\ Back(at) \in R

LEMMA LoopMatchesIsBoolean ==
    ASSUME NEW R, NEW p, NEW t, NEW at
    PROVE  LoopMatches(R, p, t, at) \in BOOLEAN
<1> DEFINE ended == at.ti > Len(t)
           here == at.pi <= Len(p)
           fits == here /\ p[at.pi] \in {"?", t[at.ti]}
           star == here /\ p[at.pi] = "*"
           rest == \A i \in at.pi .. Len(p) : p[i] = "*"
           past == Past(at) \in R
           on == OnStar(at) \in R
           back == at.star # 0 /\ at.match <= Len(t) /\ Back(at) \in R
<1>1. /\ rest \in BOOLEAN /\ past \in BOOLEAN /\ on \in BOOLEAN /\ back \in BOOLEAN
  OBVIOUS
<1>2. LoopMatches(R, p, t, at) =
        IF ended THEN rest ELSE IF fits THEN past ELSE IF star THEN on ELSE back
  BY DEF LoopMatches
<1> HIDE DEF ended, fits, star, rest, past, on, back
<1> QED BY <1>1, <1>2

LEMMA WaysOn ==
    ASSUME NEW X, NEW p \in Seq(X), NEW t \in Seq(X), NEW at \in LoopStates(p, t)
    PROVE  /\ at.ti <= Len(t) /\ at.pi <= Len(p)
                => /\ Past(at) \in LoopStates(p, t)
                   /\ Past(at) = [pi |-> at.pi + 1, ti |-> at.ti + 1,
                                  star |-> at.star, match |-> at.match]
                   /\ OnStar(at) \in LoopStates(p, t)
                   /\ OnStar(at) = [pi |-> at.pi + 1, ti |-> at.ti,
                                    star |-> at.pi, match |-> at.ti]
           /\ at.match <= Len(t)
                => /\ Back(at) \in LoopStates(p, t)
                   /\ Back(at) = [pi |-> at.star + 1, ti |-> at.match + 1,
                                  star |-> at.star, match |-> at.match + 1]
<1> DEFINE P == Len(p)
           T == Len(t)
<1>1. /\ P \in Nat /\ T \in Nat
      /\ at.pi \in 1 .. P + 1 /\ at.ti \in 1 .. T + 1 /\ at.star \in 0 .. P /\ at.match \in 1 .. T + 1
      /\ at = [pi |-> at.pi, ti |-> at.ti, star |-> at.star, match |-> at.match]
  BY DEF LoopStates
<1>2. PICK a, b, c, d : a = at.pi /\ b = at.ti /\ c = at.star /\ d = at.match
  OBVIOUS
<1>3. at = [pi |-> a, ti |-> b, star |-> c, match |-> d]
  BY <1>1, <1>2
<1>4. /\ Past(at) = [pi |-> a + 1, ti |-> b + 1, star |-> c, match |-> d]
      /\ OnStar(at) = [pi |-> a + 1, ti |-> b, star |-> a, match |-> b]
      /\ Back(at) = [pi |-> c + 1, ti |-> d + 1, star |-> c, match |-> d + 1]
  <2>1. Past(at) = [pi |-> a + 1, ti |-> b + 1, star |-> c, match |-> d]
    BY <1>2 DEF Past, At
  <2>2. OnStar(at) = [pi |-> a + 1, ti |-> b, star |-> a, match |-> b]
    BY <1>2 DEF OnStar, At
  <2>3. Back(at) = [pi |-> c + 1, ti |-> d + 1, star |-> c, match |-> d + 1]
    BY <1>2 DEF Back, At
  <2> QED BY <2>1, <2>2, <2>3
<1>5. a \in 1 .. P + 1 /\ b \in 1 .. T + 1 /\ c \in 0 .. P /\ d \in 1 .. T + 1
  BY <1>1, <1>2
<1>6. ASSUME b <= T, a <= P
      PROVE  Past(at) \in LoopStates(p, t) /\ OnStar(at) \in LoopStates(p, t)
  <2>1. a + 1 \in 1 .. P + 1 /\ b + 1 \in 1 .. T + 1 /\ a \in 0 .. P
    BY <1>1, <1>5, <1>6, SMTT(30)
  <2> QED BY <1>4, <1>5, <2>1 DEF LoopStates
<1>7. ASSUME d <= T
      PROVE  Back(at) \in LoopStates(p, t)
  <2>1. c + 1 \in 1 .. P + 1 /\ d + 1 \in 1 .. T + 1
    BY <1>1, <1>5, <1>7, SMTT(30)
  <2> QED BY <1>4, <1>5, <2>1 DEF LoopStates
<1> QED BY <1>2, <1>4, <1>6, <1>7

\* The loop ends: while it is behind its last star, each step takes the star's
\* end on or leaves it there and takes the pattern on.
LEMMA LoopGoesOn ==
    ASSUME NEW X, NEW p \in Seq(X), NEW t \in Seq(X)
    PROVE  \E N \in Nat : \E measure \in [LoopStates(p, t) -> 0 .. N] :
             \A at \in LoopStates(p, t) :
                at.ti <= Len(t) =>
                   /\ at.pi <= Len(p)
                        => measure[Past(at)] < measure[at] /\ measure[OnStar(at)] < measure[at]
                   /\ at.match <= Len(t) => measure[Back(at)] < measure[at]
<1> DEFINE P == Len(p)
           T == Len(t)
           K == P + 2
           D == LoopStates(p, t)
           Left(d) == (T + 1 - d) * K
           Of(pi, ti, star, match) ==
               (IF star < pi /\ match <= ti THEN Left(match) ELSE Left(0)) + (P + 1 - pi)
           N == Left(0) + P
           measure == [at \in D |-> Of(at.pi, at.ti, at.star, at.match)]
<1>1. P \in Nat /\ T \in Nat /\ K \in Nat
  OBVIOUS
<1>2. /\ \A d \in 0 .. T + 1 : Left(d) \in Nat
      /\ \A d \in 0 .. T : Left(d + 1) + K = Left(d)
  BY <1>1
<1>3. \A d, e \in 0 .. T + 1 : e <= d => Left(d) <= Left(e)
  BY <1>1
<1>4. \A d \in 1 .. T + 1 : Left(d) + K <= Left(0)
  <2>1. Left(1) + K = Left(0)
    BY <1>1
  <2>2. \A d \in 1 .. T + 1 : Left(d) <= Left(1)
    BY <1>1, <1>3
  <2>3. \A d \in 0 .. T + 1 : Left(d) \in Nat
    BY <1>2
  <2> HIDE DEF Left
  <2> QED BY <1>1, <2>1, <2>2, <2>3
<1> HIDE DEF Left
<1>5. ASSUME NEW a \in 1 .. P + 1, NEW b \in 1 .. T + 1, NEW c \in 0 .. P, NEW d \in 1 .. T + 1
      PROVE  /\ Of(a, b, c, d) \in 0 .. N
             /\ b <= T /\ a <= P => Of(a + 1, b + 1, c, d) < Of(a, b, c, d)
             /\ b <= T /\ a <= P => Of(a + 1, b, a, b) < Of(a, b, c, d)
             /\ b <= T /\ d <= T => Of(c + 1, d + 1, c, d + 1) < Of(a, b, c, d)
  <2>1. /\ Left(0) \in Nat /\ Left(b) \in Nat /\ Left(d) \in Nat
        /\ Left(b) + K <= Left(0) /\ Left(d) + K <= Left(0)
        /\ d <= b => Left(b) <= Left(d)
    BY <1>1, <1>2, <1>3, <1>4
  <2>2. Of(a, b, c, d) \in 0 .. N
    <3>1. CASE c < a /\ d <= b
      <4>1. Of(a, b, c, d) = Left(d) + (P + 1 - a)
        BY <3>1
      <4> QED BY <1>1, <2>1, <4>1, SMTT(30)
    <3>2. CASE ~(c < a /\ d <= b)
      <4>1. Of(a, b, c, d) = Left(0) + (P + 1 - a)
        BY <3>2
      <4> QED BY <1>1, <2>1, <4>1, SMTT(30)
    <3> QED BY <3>1, <3>2
  <2>3. ASSUME b <= T, a <= P
        PROVE  Of(a + 1, b + 1, c, d) < Of(a, b, c, d) /\ Of(a + 1, b, a, b) < Of(a, b, c, d)
    <3>1. Of(a + 1, b, a, b) = Left(b) + (P + 1 - (a + 1))
      OBVIOUS
    <3>2. ASSUME NEW x \in Nat, NEW y \in Nat, x <= y
          PROVE  x + (P + 1 - (a + 1)) < y + (P + 1 - a)
      BY <1>1, <3>2
    <3>3. Left(b) <= Left(0) /\ Left(d) <= Left(0) /\ Left(d) <= Left(d) /\ Left(0) <= Left(0)
      BY <1>1, <2>1
    <3>4. CASE c < a /\ d <= b
      <4>1. c < a + 1 /\ d <= b + 1
        BY <1>1, <3>4
      <4>2. /\ Of(a, b, c, d) = Left(d) + (P + 1 - a)
            /\ Of(a + 1, b + 1, c, d) = Left(d) + (P + 1 - (a + 1))
        BY <3>4, <4>1
      <4> HIDE DEF Of
      <4> QED BY <2>1, <3>1, <3>2, <3>3, <3>4, <4>2
    <3>5. CASE ~(c < a /\ d <= b)
      <4>1. Of(a, b, c, d) = Left(0) + (P + 1 - a)
        BY <3>5
      <4>2. CASE c < a + 1 /\ d <= b + 1
        <5>1. Of(a + 1, b + 1, c, d) = Left(d) + (P + 1 - (a + 1))
          BY <4>2
        <5> HIDE DEF Of
        <5> QED BY <2>1, <3>1, <3>2, <3>3, <4>1, <5>1
      <4>3. CASE ~(c < a + 1 /\ d <= b + 1)
        <5>1. Of(a + 1, b + 1, c, d) = Left(0) + (P + 1 - (a + 1))
          BY <4>3
        <5> HIDE DEF Of
        <5> QED BY <2>1, <3>1, <3>2, <3>3, <4>1, <5>1
      <4> QED BY <4>2, <4>3
    <3> QED BY <3>4, <3>5
  <2>4. ASSUME b <= T, d <= T
        PROVE  Of(c + 1, d + 1, c, d + 1) < Of(a, b, c, d)
    <3>1. d \in 0 .. T /\ d + 1 \in 0 .. T + 1
      BY <1>1, <2>4
    <3>2. Left(d + 1) \in Nat /\ Left(d + 1) + K = Left(d)
      BY <1>2, <3>1
    <3>3. Of(c + 1, d + 1, c, d + 1) = Left(d + 1) + (P + 1 - (c + 1))
      OBVIOUS
    <3>4. ASSUME NEW x \in Nat, NEW y \in Nat, x + K <= y
          PROVE  x + (P + 1 - (c + 1)) < y + (P + 1 - a)
      BY <1>1, <3>4
    <3>5. /\ Left(d + 1) + (P + 1 - (c + 1)) < Left(d) + (P + 1 - a)
          /\ Left(d + 1) + (P + 1 - (c + 1)) < Left(0) + (P + 1 - a)
      <4>1. Left(d + 1) + K <= Left(d) /\ Left(d + 1) + K <= Left(0)
        <5> HIDE DEF K
        <5>1. d + 1 \in 1 .. T + 1
          BY <1>1, <2>4
        <5>2. Left(d + 1) + K <= Left(0)
          BY <1>4, <5>1
        <5>3. Left(d + 1) + K <= Left(d)
          <6>1. PICK y : y = Left(d)
            OBVIOUS
          <6>2. y \in Nat /\ y <= y
            BY <2>1, <6>1
          <6> QED BY <3>2, <6>1, <6>2
        <5> QED BY <5>2, <5>3
      <4> HIDE DEF K
      <4> QED BY <2>1, <3>2, <3>4, <4>1
    <3>6. CASE c < a /\ d <= b
      <4>1. Of(a, b, c, d) = Left(d) + (P + 1 - a)
        BY <3>6
      <4> HIDE DEF Of
      <4> QED BY <3>3, <3>5, <4>1
    <3>7. CASE ~(c < a /\ d <= b)
      <4>1. Of(a, b, c, d) = Left(0) + (P + 1 - a)
        BY <3>7
      <4> HIDE DEF Of
      <4> QED BY <3>3, <3>5, <4>1
    <3> QED BY <3>6, <3>7
  <2> QED BY <2>2, <2>3, <2>4
<1>6. N \in Nat
  BY <1>1, <1>2
<1> HIDE DEF N
<1>7. measure \in [D -> 0 .. N]
  <2> SUFFICES ASSUME NEW at \in D PROVE Of(at.pi, at.ti, at.star, at.match) \in 0 .. N
    OBVIOUS
  <2>1. /\ at.pi \in 1 .. P + 1 /\ at.ti \in 1 .. T + 1
        /\ at.star \in 0 .. P /\ at.match \in 1 .. T + 1
    BY DEF LoopStates
  <2> HIDE DEF Of
  <2> QED BY <1>5, <2>1
<1>8. ASSUME NEW at \in D, at.ti <= T
      PROVE  /\ at.pi <= P => measure[Past(at)] < measure[at] /\ measure[OnStar(at)] < measure[at]
             /\ at.match <= T => measure[Back(at)] < measure[at]
  <2>1. PICK a, b, c, d : a = at.pi /\ b = at.ti /\ c = at.star /\ d = at.match
    OBVIOUS
  <2>2. a \in 1 .. P + 1 /\ b \in 1 .. T + 1 /\ c \in 0 .. P /\ d \in 1 .. T + 1
    BY <2>1 DEF LoopStates
  <2>3. \A x \in D : measure[x] = Of(x.pi, x.ti, x.star, x.match)
    OBVIOUS
  <2>4. /\ b <= T /\ a <= P => Of(a + 1, b + 1, c, d) < Of(a, b, c, d)
        /\ b <= T /\ a <= P => Of(a + 1, b, a, b) < Of(a, b, c, d)
        /\ b <= T /\ d <= T => Of(c + 1, d + 1, c, d + 1) < Of(a, b, c, d)
    BY <1>5, <2>2
  <2> HIDE DEF Of, measure
  <2>5. measure[at] = Of(a, b, c, d)
    BY <2>1, <2>3
  <2>6. ASSUME a <= P
        PROVE  measure[Past(at)] < measure[at] /\ measure[OnStar(at)] < measure[at]
    <3>1. /\ Past(at) \in D
          /\ Past(at) = [pi |-> a + 1, ti |-> b + 1, star |-> c, match |-> d]
          /\ OnStar(at) \in D
          /\ OnStar(at) = [pi |-> a + 1, ti |-> b, star |-> a, match |-> b]
      BY <1>8, <2>1, <2>6, WaysOn
    <3>2. measure[Past(at)] = Of(a + 1, b + 1, c, d) /\ measure[OnStar(at)] = Of(a + 1, b, a, b)
      BY <2>3, <3>1
    <3> QED BY <1>8, <2>1, <2>4, <2>5, <2>6, <3>2
  <2>7. ASSUME d <= T
        PROVE  measure[Back(at)] < measure[at]
    <3>1. /\ Back(at) \in D
          /\ Back(at) = [pi |-> c + 1, ti |-> d + 1, star |-> c, match |-> d + 1]
      BY <1>8, <2>1, <2>7, WaysOn
    <3>2. measure[Back(at)] = Of(c + 1, d + 1, c, d + 1)
      BY <2>3, <3>1
    <3> QED BY <1>8, <2>1, <2>4, <2>5, <2>7, <3>2
  <2> QED BY <2>1, <2>6, <2>7
<1> HIDE DEF measure
<1> QED BY <1>6, <1>7, <1>8

\* There is such an R, and globMatch's loop starts in it when it ends in a match.
MatchesLoop(R, p, t) ==
    \A at \in LoopStates(p, t) : at \in R <=> LoopMatches(R, p, t, at)

LEMMA LoopIsFound ==
    ASSUME NEW X, NEW p \in Seq(X), NEW t \in Seq(X)
    PROVE  \E g \in [LoopStates(p, t) -> BOOLEAN] :
               \A at \in LoopStates(p, t) :
                   g[at] = LoopMatches({x \in LoopStates(p, t) : g[x]}, p, t, at)
<1> DEFINE D == LoopStates(p, t)
           Of(g) == {x \in D : g[x]}
           Value(x, g) == LoopMatches(Of(g), p, t, x)
           Step == [q \in D \X [D -> BOOLEAN] |-> Value(q[1], q[2])]
<1>1. PICK N \in Nat : \E measure \in [D -> 0 .. N] :
         \A at \in D :
            at.ti <= Len(t) =>
               /\ at.pi <= Len(p)
                    => measure[Past(at)] < measure[at] /\ measure[OnStar(at)] < measure[at]
               /\ at.match <= Len(t) => measure[Back(at)] < measure[at]
  BY LoopGoesOn
<1>2. PICK measure \in [D -> 0 .. N] :
         \A at \in D :
            at.ti <= Len(t) =>
               /\ at.pi <= Len(p)
                    => measure[Past(at)] < measure[at] /\ measure[OnStar(at)] < measure[at]
               /\ at.match <= Len(t) => measure[Back(at)] < measure[at]
  BY <1>1
<1>3. /\ Step \in [D \X [D -> BOOLEAN] -> BOOLEAN]
      /\ \A x \in D : \A g \in [D -> BOOLEAN] : Step[<<x, g>>] = Value(x, g)
  <2>1. \A x, g : Value(x, g) \in BOOLEAN
    BY LoopMatchesIsBoolean
  <2> HIDE DEF Value, D
  <2> QED BY <2>1
<1>4. Cuts!LooksBelow(D, BOOLEAN, measure, Step)
  <2> SUFFICES ASSUME NEW x \in D, NEW f \in [D -> BOOLEAN], NEW h \in [D -> BOOLEAN],
                      \A y \in D : measure[y] < measure[x] => f[y] = h[y]
               PROVE  Value(x, f) = Value(x, h)
    <3> HIDE DEF D, Value
    <3> QED BY <1>3 DEF Cuts!LooksBelow
  <2>1. \A y \in D : measure[y] < measure[x] => (y \in Of(f) <=> y \in Of(h))
    <3> HIDE DEF D
    <3> QED OBVIOUS
  <2>2. x.ti \in Int /\ x.pi \in Int /\ Len(p) \in Int /\ Len(t) \in Int
    BY DEF LoopStates
  <2>3. CASE x.ti > Len(t)
    BY <2>3 DEF LoopMatches
  <2>4. CASE x.ti <= Len(t)
    <3>1. ASSUME x.pi <= Len(p)
          PROVE  /\ Past(x) \in Of(f) <=> Past(x) \in Of(h)
                 /\ OnStar(x) \in Of(f) <=> OnStar(x) \in Of(h)
      <4>1. Past(x) \in D /\ OnStar(x) \in D
        BY <2>4, <3>1, WaysOn
      <4>2. measure[Past(x)] < measure[x] /\ measure[OnStar(x)] < measure[x]
        BY <1>2, <2>4, <3>1
      <4> HIDE DEF Of
      <4> QED BY <2>1, <4>1, <4>2
    <3>2. ASSUME x.match <= Len(t)
          PROVE  Back(x) \in Of(f) <=> Back(x) \in Of(h)
      <4>1. Back(x) \in D
        BY <2>4, <3>2, WaysOn
      <4>2. measure[Back(x)] < measure[x]
        BY <1>2, <2>4, <3>2
      <4> HIDE DEF Of
      <4> QED BY <2>1, <4>1, <4>2
    <3> HIDE DEF Of
    <3>3. Value(x, f) <=> Value(x, h)
      BY <3>1, <3>2 DEF LoopMatches
    <3>4. Value(x, f) \in BOOLEAN /\ Value(x, h) \in BOOLEAN
      BY LoopMatchesIsBoolean
    <3> HIDE DEF Value
    <3> QED BY <3>3, <3>4
  <2> QED BY <2>2, <2>3, <2>4
<1>5. PICK g \in [D -> BOOLEAN] : Cuts!Solves(g, D, Step)
  <2> HIDE DEF D, Step
  <2> QED BY <1>2, <1>3, <1>4, Cuts!Recursion
<1>6. ASSUME NEW at \in D
      PROVE  g[at] = LoopMatches(Of(g), p, t, at)
  <2>1. g[at] = Value(at, g)
    <3> HIDE DEF D, Value, Step
    <3> QED BY <1>3, <1>5 DEF Cuts!Solves
  <2> HIDE DEF Of
  <2> QED BY <2>1
<1> QED BY <1>6

LEMMA GlobMatchIs ==
    ASSUME NEW pattern, NEW text, NEW X,
           CaseFold(pattern) \in Seq(X), CaseFold(text) \in Seq(X)
    PROVE  \E R : /\ MatchesLoop(R, CaseFold(pattern), CaseFold(text))
                  /\ GlobMatch(pattern, text) <=> At(1, 1, 0, 1) \in R
<1>1. PICK p, t : p = CaseFold(pattern) /\ t = CaseFold(text)
  OBVIOUS
<1> DEFINE D == LoopStates(p, t)
           Body(run, at) ==
               LET here == at.pi <= Len(p)
               IN  IF at.ti > Len(t) THEN \A i \in at.pi .. Len(p) : p[i] = "*"
                   ELSE IF here /\ p[at.pi] \in {"?", t[at.ti]}
                        THEN run[At(at.pi + 1, at.ti + 1, at.star, at.match)]
                   ELSE IF here /\ p[at.pi] = "*"
                        THEN run[At(at.pi + 1, at.ti, at.pi, at.ti)]
                   ELSE /\ at.star # 0 /\ at.match <= Len(t)
                        /\ run[At(at.star + 1, at.match + 1, at.star, at.match + 1)]
           Eq(run) == run = [at \in D |-> Body(run, at)]
           run == CHOOSE run : Eq(run)
           Of(g) == {x \in D : g[x]}
<1>2. p \in Seq(X) /\ t \in Seq(X)
  BY <1>1
<1>3. GlobMatch(pattern, text) <=> run[At(1, 1, 0, 1)]
  BY <1>1 DEF GlobMatch, LoopStates
<1>4. PICK g \in [D -> BOOLEAN] : \A at \in D : g[at] = LoopMatches(Of(g), p, t, at)
  <2>1. \E g \in [LoopStates(p, t) -> BOOLEAN] :
           \A at \in LoopStates(p, t) :
               g[at] = LoopMatches({x \in LoopStates(p, t) : g[x]}, p, t, at)
    <3> HIDE DEF D, Body, Eq, run, Of
    <3>1. \A q, u \in Seq(X) : \E g \in [LoopStates(q, u) -> BOOLEAN] :
             \A at \in LoopStates(q, u) :
                 g[at] = LoopMatches({x \in LoopStates(q, u) : g[x]}, q, u, at)
      BY LoopIsFound
    <3> QED BY <1>2, <3>1
  <2> QED BY <2>1
\* The loop looks at its function as LoopMatches looks at its set.
<1>5. ASSUME NEW f \in [D -> BOOLEAN], NEW at \in D
      PROVE  Body(f, at) = LoopMatches(Of(f), p, t, at)
  <2>1. at.ti \in Int /\ at.pi \in Int /\ Len(p) \in Int /\ Len(t) \in Int
    BY <1>2 DEF LoopStates
  <2>2. \A y \in D : f[y] \in BOOLEAN /\ f[y] = (y \in Of(f))
    <3> HIDE DEF D
    <3> QED OBVIOUS
  <2> DEFINE ended == at.ti > Len(t)
             here == at.pi <= Len(p)
             fits == here /\ p[at.pi] \in {"?", t[at.ti]}
             star == here /\ p[at.pi] = "*"
             rest == \A i \in at.pi .. Len(p) : p[i] = "*"
             again == at.star # 0 /\ at.match <= Len(t)
             past == Past(at)
             on == OnStar(at)
             back == Back(at)
             G == Of(f)
  <2>3. Body(f, at) = IF ended THEN rest ELSE IF fits THEN f[past] ELSE IF star THEN f[on]
                      ELSE again /\ f[back]
    BY DEF Past, OnStar, Back
  <2>4. LoopMatches(G, p, t, at) =
            IF ended THEN rest ELSE IF fits THEN past \in G ELSE IF star THEN on \in G
            ELSE again /\ back \in G
    BY DEF LoopMatches
  <2>5. /\ ~ended /\ here => f[past] = (past \in G) /\ f[on] = (on \in G)
        /\ ~ended /\ again => f[back] = (back \in G)
    <3>1. ~ended => at.ti <= Len(t)
      BY <2>1
    <3> HIDE DEF G
    <3>2. ~ended /\ here => past \in D /\ on \in D
      BY <1>2, <3>1, WaysOn
    <3>3. ~ended /\ again => back \in D
      BY <1>2, <3>1, WaysOn
    <3> QED BY <2>2, <3>2, <3>3 DEF G
  <2>6. fits => here
    OBVIOUS
  <2>7. star => here
    OBVIOUS
  <2> HIDE DEF Body, ended, here, fits, star, rest, again, past, on, back, G
  <2>8. Body(f, at) = LoopMatches(G, p, t, at)
    <3>1. CASE ended
      BY <2>3, <2>4, <3>1
    <3>2. CASE ~ended /\ fits
      BY <2>3, <2>4, <2>5, <2>6, <3>2
    <3>3. CASE ~ended /\ ~fits /\ star
      BY <2>3, <2>4, <2>5, <2>7, <3>3
    <3>4. CASE ~ended /\ ~fits /\ ~star
      <4>1. Body(f, at) = (again /\ f[back]) /\ LoopMatches(G, p, t, at) = (again /\ back \in G)
        BY <2>3, <2>4, <3>4
      <4>2. (again /\ f[back]) <=> (again /\ back \in G)
        BY <2>5, <3>4
      <4>3. (again /\ f[back]) \in BOOLEAN /\ (again /\ back \in G) \in BOOLEAN
        OBVIOUS
      <4> QED BY <4>1, <4>2, <4>3
    <3> QED BY <3>1, <3>2, <3>3, <3>4
  <2> QED BY <2>8 DEF G
<1>6. Eq(g)
  <2>1. g = [at \in D |-> g[at]]
    <3> HIDE DEF D
    <3> QED OBVIOUS
  <2>2. \A at \in D : g[at] = Body(g, at)
    <3> HIDE DEF D, Body, Of
    <3> QED BY <1>4, <1>5
  <2> HIDE DEF D, Body
  <2> QED BY <2>1, <2>2
<1>7. Eq(run)
  <2> HIDE DEF Eq
  <2> QED BY <1>6
<1> HIDE DEF run
<1> DEFINE R == Of(run)
<1>8. ASSUME NEW at \in D
      PROVE  at \in R <=> LoopMatches(R, p, t, at)
  <2>1. at.ti \in Int /\ at.pi \in Int /\ Len(p) \in Int /\ Len(t) \in Int
    BY <1>2 DEF LoopStates
  <2>2. \A y \in D : y \in R <=> run[y]
    <3> HIDE DEF D
    <3> QED OBVIOUS
  <2> HIDE DEF R
  <2>3. run[at] <=> Body(run, at)
    <3> HIDE DEF D, Body
    <3> QED BY <1>7
  <2>4. CASE at.ti > Len(t)
    BY <2>2, <2>3, <2>4 DEF LoopMatches
  <2>5. CASE at.ti <= Len(t)
    <3>1. at.pi <= Len(p) => /\ run[Past(at)] <=> Past(at) \in R
                             /\ run[OnStar(at)] <=> OnStar(at) \in R
      BY <1>2, <2>2, <2>5, WaysOn
    <3>2. at.match <= Len(t) => (run[Back(at)] <=> Back(at) \in R)
      BY <1>2, <2>2, <2>5, WaysOn
    <3> QED BY <2>1, <2>2, <2>3, <2>5, <3>1, <3>2 DEF LoopMatches, Past, OnStar, Back
  <2> QED BY <2>1, <2>4, <2>5
<1>9. At(1, 1, 0, 1) \in D
  BY <1>2 DEF LoopStates, At
<1>10. At(1, 1, 0, 1) \in R <=> run[At(1, 1, 0, 1)]
  <2> HIDE DEF D
  <2> QED BY <1>9
<1> HIDE DEF R, D
<1>11. MatchesLoop(R, p, t)
  BY <1>8 DEF MatchesLoop, D
<1> QED BY <1>1, <1>3, <1>10, <1>11

\* Behind a star the text may be taken up anywhere, and symbols that are no
\* stars take up as many of the text.
LEMMA EndsAtStar ==
    ASSUME NEW X, NEW p \in Seq(X), NEW t \in Seq(X), NEW W, MatchesEnds(W, p, t),
           NEW i \in 1 .. Len(p), p[i] = "*"
    PROVE  \A j \in 1 .. Len(t) + 1 :
               <<i, j>> \in W <=> \E l \in j .. Len(t) + 1 : <<i + 1, l>> \in W
<1> DEFINE T == Len(t)
           Claim(j) == <<i, j>> \in W <=> \E l \in j .. T + 1 : <<i + 1, l>> \in W
           S == {n \in 0 .. T : Claim(T + 1 - n)}
<1>1. T \in Nat /\ Len(p) \in Nat
  OBVIOUS
<1>2. ASSUME NEW j \in 1 .. T + 1
      PROVE  <<i, j>> \in W <=> <<i + 1, j>> \in W \/ (j <= T /\ <<i, j + 1>> \in W)
  <2>1. i \in 1 .. Len(p) + 1 /\ ~(i > Len(p))
    BY <1>1
  <2>2. <<i, j>> \in W <=> EndMatches(W, p, t, i, j)
    BY <2>1 DEF MatchesEnds
  <2> QED BY <2>1, <2>2 DEF EndMatches
<1>3. Claim(T + 1)
  <2>1. T + 1 \in 1 .. T + 1 /\ ~(T + 1 <= T) /\ (T + 1) .. (T + 1) = {T + 1}
    BY <1>1
  <2>2. <<i, T + 1>> \in W <=> <<i + 1, T + 1>> \in W
    BY <1>2, <2>1
  <2> QED BY <2>1, <2>2
<1>4. ASSUME NEW j \in 1 .. T, Claim(j + 1)
      PROVE  Claim(j)
  <2>1. j \in 1 .. T + 1 /\ j .. T + 1 = {j} \cup (j + 1) .. T + 1
    BY <1>1
  <2>2. <<i, j>> \in W <=> <<i + 1, j>> \in W \/ <<i, j + 1>> \in W
    BY <1>2, <2>1
  <2> QED BY <1>4, <2>1, <2>2
<1>5. 0 \in S
  <2>1. T + 1 - 0 = T + 1 /\ 0 \in 0 .. T
    BY <1>1
  <2> HIDE DEF Claim
  <2> QED BY <1>3, <2>1
<1>6. ASSUME NEW n \in 0 .. T - 1, n \in S
      PROVE  n + 1 \in S
  <2>1. T - n \in 1 .. T /\ (T - n) + 1 = T + 1 - n /\ T + 1 - (n + 1) = T - n /\ n + 1 \in 0 .. T
    BY <1>1
  <2>2. Claim((T - n) + 1)
    BY <1>6, <2>1
  <2>3. Claim(T - n)
    <3> HIDE DEF Claim
    <3> QED BY <1>4, <2>1, <2>2
  <2> HIDE DEF Claim
  <2> QED BY <2>1, <2>3
<1>7. 0 .. T \subseteq S
  <2> HIDE DEF S, T
  <2> QED BY <1>1, <1>5, <1>6, Cuts!IntervalInduction
<1>8. ASSUME NEW j \in 1 .. T + 1
      PROVE  Claim(j)
  <2>1. T + 1 - j \in 0 .. T /\ T + 1 - (T + 1 - j) = j
    BY <1>1
  <2> HIDE DEF Claim
  <2> QED BY <1>7, <2>1
<1> QED BY <1>8

LEMMA EndsBehindPlain ==
    ASSUME NEW X, NEW p \in Seq(X), NEW t \in Seq(X), NEW W, MatchesEnds(W, p, t),
           NEW i \in 1 .. Len(p) + 1, NEW j \in 1 .. Len(t) + 1, <<i, j>> \in W,
           NEW k \in i .. Len(p) + 1, \A l \in i .. k - 1 : p[l] # "*"
    PROVE  j + (k - i) <= Len(t) + 1 /\ <<k, j + (k - i)>> \in W
<1> DEFINE T == Len(t)
           P == Len(p)
           N == k - i
           S == {n \in 0 .. N : j + n <= T + 1 /\ <<i + n, j + n>> \in W}
<1>1. T \in Nat /\ P \in Nat /\ N \in Nat /\ i \in Nat /\ j \in Nat /\ k \in Nat
  OBVIOUS
<1>2. 0 \in S
  BY <1>1
<1>3. ASSUME NEW n \in 0 .. N - 1, n \in S
      PROVE  n + 1 \in S
  <2>1. /\ i + n \in i .. k - 1 /\ i + n \in 1 .. P + 1 /\ j + n \in 1 .. T + 1
        /\ ~(i + n > P) /\ n + 1 \in 0 .. N
        /\ (i + n) + 1 = i + (n + 1) /\ (j + n) + 1 = j + (n + 1)
    BY <1>1, <1>3
  <2>2. EndMatches(W, p, t, i + n, j + n) /\ p[i + n] # "*"
    BY <1>3, <2>1 DEF MatchesEnds
  <2>3. j + n <= T /\ <<(i + n) + 1, (j + n) + 1>> \in W
    BY <2>1, <2>2 DEF EndMatches
  <2>4. j + (n + 1) <= T + 1
    BY <1>1, <2>3
  <2> QED BY <2>1, <2>3, <2>4
<1>4. 0 .. N \subseteq S
  <2> HIDE DEF S, N
  <2> QED BY <1>1, <1>2, <1>3, Cuts!IntervalInduction
<1>5. N \in S
  <2>1. N \in 0 .. N
    BY <1>1
  <2> HIDE DEF S, N
  <2> QED BY <1>4, <2>1
<1>6. i + N = k
  BY <1>1
<1> QED BY <1>5, <1>6

\* What the loop knows: behind its last star it has taken up as many symbols of
\* the text as of the pattern, none of them a star.
LoopInv(p, at) ==
    \/ at.star = 0
    \/ /\ at.star < at.pi /\ p[at.star] = "*"
       /\ at.match + (at.pi - (at.star + 1)) = at.ti
       /\ \A k \in at.star + 1 .. at.pi - 1 : p[k] # "*"

\* A match is a match from here, or from the last star when it ends later.
LoopFinds(W, t, at) ==
    \/ <<at.pi, at.ti>> \in W
    \/ at.star # 0 /\ at.match <= Len(t) /\ <<at.star, at.match + 1>> \in W

LEMMA LoopInvStays ==
    ASSUME NEW X, NEW p \in Seq(X), NEW t \in Seq(X),
           NEW at \in LoopStates(p, t), LoopInv(p, at), at.ti <= Len(t)
    PROVE  /\ at.pi <= Len(p) /\ p[at.pi] # "*" => LoopInv(p, Past(at))
           /\ at.pi <= Len(p) /\ p[at.pi] = "*" => LoopInv(p, OnStar(at))
           /\ at.star # 0 => at.match <= Len(t) /\ LoopInv(p, Back(at))
<1>1. PICK a, b, c, d : a = at.pi /\ b = at.ti /\ c = at.star /\ d = at.match
  OBVIOUS
<1>2. /\ a \in 1 .. Len(p) + 1 /\ b \in 1 .. Len(t) + 1 /\ c \in 0 .. Len(p) /\ d \in 1 .. Len(t) + 1
      /\ Len(p) \in Nat /\ Len(t) \in Nat /\ b <= Len(t)
  BY <1>1 DEF LoopStates
<1>3. \/ c = 0
      \/ c < a /\ p[c] = "*" /\ d + (a - (c + 1)) = b /\ \A k \in c + 1 .. a - 1 : p[k] # "*"
  BY <1>1 DEF LoopInv
<1>4. ASSUME a <= Len(p), p[a] # "*"
      PROVE  LoopInv(p, At(a + 1, b + 1, c, d))
  <2>1. CASE c = 0
    BY <2>1 DEF LoopInv, At
  <2>2. CASE c # 0
    <3>1. c < a + 1 /\ d + ((a + 1) - (c + 1)) = b + 1 /\ (a + 1) - 1 = a
      BY <1>2, <1>3, <2>2
    <3>2. \A k \in c + 1 .. a : p[k] # "*"
      BY <1>2, <1>3, <1>4, <2>2
    <3> QED BY <1>3, <2>2, <3>1, <3>2 DEF LoopInv, At
  <2> QED BY <2>1, <2>2
<1>5. ASSUME a <= Len(p), p[a] = "*"
      PROVE  LoopInv(p, At(a + 1, b, a, b))
  <2>1. a < a + 1 /\ b + ((a + 1) - (a + 1)) = b /\ (a + 1) .. (a + 1) - 1 = {}
    BY <1>2
  <2> QED BY <1>5, <2>1 DEF LoopInv, At
<1>6. ASSUME c # 0
      PROVE  d <= Len(t) /\ LoopInv(p, At(c + 1, d + 1, c, d + 1))
  <2>1. /\ c < c + 1 /\ (d + 1) + ((c + 1) - (c + 1)) = d + 1 /\ (c + 1) .. (c + 1) - 1 = {}
        /\ d <= Len(t)
    BY <1>2, <1>3, <1>6
  <2> QED BY <1>3, <1>6, <2>1 DEF LoopInv, At
<1> QED BY <1>1, <1>4, <1>5, <1>6 DEF Past, OnStar, Back

\* At the end of the text only stars may be left.
LEMMA EndsAtEnd ==
    ASSUME NEW X, NEW p \in Seq(X), NEW t \in Seq(X), NEW W, MatchesEnds(W, p, t)
    PROVE  \A a \in 1 .. Len(p) + 1 :
               <<a, Len(t) + 1>> \in W <=> \A i \in a .. Len(p) : p[i] = "*"
<1> DEFINE P == Len(p)
           end == Len(t) + 1
           Claim(a) == <<a, end>> \in W <=> \A i \in a .. P : p[i] = "*"
           S == {n \in 0 .. P : Claim(P + 1 - n)}
<1>1. P \in Nat /\ end \in 1 .. Len(t) + 1 /\ end > Len(t) /\ ~(end <= Len(t))
  OBVIOUS
<1>2. Claim(P + 1)
  <2>1. P + 1 \in 1 .. P + 1 /\ P + 1 > P /\ (P + 1) .. P = {}
    BY <1>1
  <2>2. <<P + 1, end>> \in W
    BY <1>1, <2>1 DEF MatchesEnds, EndMatches
  <2> QED BY <2>1, <2>2
<1>3. ASSUME NEW a \in 1 .. P, Claim(a + 1)
      PROVE  Claim(a)
  <2>1. a \in 1 .. P + 1 /\ ~(a > P) /\ a .. P = {a} \cup (a + 1) .. P
    BY <1>1
  <2>2. <<a, end>> \in W <=> EndMatches(W, p, t, a, end)
    BY <1>1, <2>1 DEF MatchesEnds
  <2>3. <<a, end>> \in W <=> p[a] = "*" /\ <<a + 1, end>> \in W
    BY <1>1, <2>1, <2>2 DEF EndMatches
  <2> HIDE DEF end
  <2> QED BY <1>3, <2>1, <2>3
<1>4. 0 \in S
  <2>1. P + 1 - 0 = P + 1 /\ 0 \in 0 .. P
    BY <1>1
  <2> HIDE DEF Claim
  <2> QED BY <1>2, <2>1
<1>5. ASSUME NEW n \in 0 .. P - 1, n \in S
      PROVE  n + 1 \in S
  <2>1. P - n \in 1 .. P /\ (P - n) + 1 = P + 1 - n /\ P + 1 - (n + 1) = P - n /\ n + 1 \in 0 .. P
    BY <1>1
  <2>2. Claim((P - n) + 1)
    BY <1>5, <2>1
  <2>3. Claim(P - n)
    <3> HIDE DEF Claim
    <3> QED BY <1>3, <2>1, <2>2
  <2> HIDE DEF Claim
  <2> QED BY <2>1, <2>3
<1>6. 0 .. P \subseteq S
  <2> HIDE DEF S, P
  <2> QED BY <1>1, <1>4, <1>5, Cuts!IntervalInduction
<1>7. ASSUME NEW a \in 1 .. P + 1
      PROVE  Claim(a)
  <2>1. P + 1 - a \in 0 .. P /\ P + 1 - (P + 1 - a) = a
    BY <1>1
  <2> HIDE DEF Claim
  <2> QED BY <1>6, <2>1
<1> QED BY <1>7

\* A match from the last star that ends later takes the pattern to where the loop
\* is, later in the text.
LEMMA LaterMatch ==
    ASSUME NEW X, NEW p \in Seq(X), NEW t \in Seq(X), NEW W, MatchesEnds(W, p, t),
           NEW at \in LoopStates(p, t), LoopInv(p, at),
           at.star # 0, at.match <= Len(t), <<at.star, at.match + 1>> \in W
    PROVE  \E e \in at.ti + 1 .. Len(t) + 1 : <<at.pi, e>> \in W
<1> DEFINE T == Len(t)
           P == Len(p)
<1>1. PICK a, b, c, d : a = at.pi /\ b = at.ti /\ c = at.star /\ d = at.match
  OBVIOUS
<1>2. /\ T \in Nat /\ P \in Nat
      /\ a \in 1 .. P + 1 /\ b \in 1 .. T + 1 /\ c \in 1 .. P /\ d \in 1 .. T /\ d + 1 \in 1 .. T + 1
      /\ c < a /\ p[c] = "*" /\ d + (a - (c + 1)) = b /\ \A k \in c + 1 .. a - 1 : p[k] # "*"
      /\ <<c, d + 1>> \in W
  <2>1. /\ T \in Nat /\ P \in Nat /\ c # 0 /\ d <= T /\ <<c, d + 1>> \in W
        /\ a \in 1 .. P + 1 /\ b \in 1 .. T + 1 /\ c \in 0 .. P /\ d \in 1 .. T + 1
    BY <1>1, SMTT(30) DEF LoopStates
  <2>2. c < a /\ p[c] = "*" /\ d + (a - (c + 1)) = b /\ \A k \in c + 1 .. a - 1 : p[k] # "*"
    BY <1>1 DEF LoopInv
  <2> QED BY <2>1, <2>2
<1>3. PICK l \in d + 1 .. T + 1 : <<c + 1, l>> \in W
  BY <1>2, EndsAtStar
<1>4. c + 1 \in 1 .. P + 1 /\ l \in 1 .. T + 1 /\ a \in c + 1 .. P + 1
  BY <1>2
<1>5. l + (a - (c + 1)) <= T + 1 /\ <<a, l + (a - (c + 1))>> \in W
  BY <1>2, <1>3, <1>4, EndsBehindPlain
<1>6. l + (a - (c + 1)) \in b + 1 .. T + 1
  BY <1>2, <1>5
<1> QED BY <1>1, <1>5, <1>6

LEMMA LoopStep ==
    ASSUME NEW X, NEW p \in Seq(X), NEW t \in Seq(X), \A i \in 1 .. Len(t) : t[i] # "*",
           NEW W, MatchesEnds(W, p, t), NEW R, MatchesLoop(R, p, t),
           NEW at \in LoopStates(p, t), LoopInv(p, at),
           at.ti <= Len(t) =>
               /\ at.pi <= Len(p) /\ p[at.pi] # "*" => (Past(at) \in R <=> LoopFinds(W, t, Past(at)))
               /\ at.pi <= Len(p) /\ p[at.pi] = "*" => (OnStar(at) \in R <=> LoopFinds(W, t, OnStar(at)))
               /\ at.star # 0 => (Back(at) \in R <=> LoopFinds(W, t, Back(at)))
    PROVE  at \in R <=> LoopFinds(W, t, at)
<1> DEFINE T == Len(t)
           P == Len(p)
<1>1. PICK a, b, c, d : a = at.pi /\ b = at.ti /\ c = at.star /\ d = at.match
  OBVIOUS
<1> DEFINE later == c # 0 /\ d <= T /\ <<c, d + 1>> \in W
<1>2. /\ T \in Nat /\ P \in Nat
      /\ a \in 1 .. P + 1 /\ b \in 1 .. T + 1 /\ c \in 0 .. P /\ d \in 1 .. T + 1
  BY <1>1 DEF LoopStates
<1>3. LoopFinds(W, t, at) <=> <<a, b>> \in W \/ later
  BY <1>1 DEF LoopFinds
<1>4. later => \E e \in b + 1 .. T + 1 : <<a, e>> \in W
  BY <1>1, LaterMatch
<1>5. at \in R <=> LoopMatches(R, p, t, at)
  BY DEF MatchesLoop
<1>6. <<a, b>> \in W <=> EndMatches(W, p, t, a, b)
  BY <1>2 DEF MatchesEnds
<1>7. CASE b > T
  <2>1. b = T + 1 /\ b + 1 .. T + 1 = {}
    BY <1>2, <1>7
  <2>2. at \in R <=> \A i \in a .. P : p[i] = "*"
    BY <1>1, <1>5, <1>7 DEF LoopMatches
  <2>3. <<a, b>> \in W <=> \A i \in a .. P : p[i] = "*"
    BY <1>2, <2>1, EndsAtEnd
  <2> HIDE DEF later
  <2> QED BY <1>3, <1>4, <2>1, <2>2, <2>3
<1>8. CASE b <= T
  <2>0. ~(b > T) /\ t[b] # "*"
    BY <1>2, <1>8
  <2>1. CASE a <= P /\ p[a] \in {"?", t[b]}
    <3>1. p[a] # "*"
      BY <2>0, <2>1
    <3>2. at \in R <=> LoopFinds(W, t, Past(at))
      BY <1>1, <1>5, <1>8, <2>0, <2>1, <3>1 DEF LoopMatches
    <3>3. LoopFinds(W, t, Past(at)) <=> <<a + 1, b + 1>> \in W \/ later
      BY <1>1 DEF LoopFinds, Past, At
    <3>4. ~(a > P)
      BY <1>2, <2>1
    <3>5. <<a, b>> \in W <=> <<a + 1, b + 1>> \in W
      BY <1>6, <1>8, <2>1, <3>1, <3>4 DEF EndMatches
    <3> HIDE DEF later
    <3> QED BY <1>3, <3>2, <3>3, <3>5
  <2>2. CASE a <= P /\ p[a] = "*"
    <3>1. a \in 1 .. P /\ a # 0 /\ ~(a > P)
      BY <1>2, <2>2
    <3>2. at \in R <=> LoopFinds(W, t, OnStar(at))
      BY <1>1, <1>5, <1>8, <2>0, <2>2 DEF LoopMatches
    <3>3. LoopFinds(W, t, OnStar(at)) <=> <<a + 1, b>> \in W \/ <<a, b + 1>> \in W
      BY <1>1, <1>8, <3>1 DEF LoopFinds, OnStar, At
    <3>4. <<a, b>> \in W <=> <<a + 1, b>> \in W \/ <<a, b + 1>> \in W
      BY <1>6, <1>8, <2>2, <3>1 DEF EndMatches
    <3>5. later => <<a, b>> \in W
      <4> HIDE DEF later
      <4>1. SUFFICES ASSUME later PROVE <<a, b>> \in W
        OBVIOUS
      <4>2. PICK e \in b + 1 .. T + 1 : <<a, e>> \in W
        BY <1>4, <4>1
      <4>3. e \in 1 .. T + 1 /\ e .. T + 1 \subseteq b .. T + 1
        BY <1>2
      <4>4. PICK l \in e .. T + 1 : <<a + 1, l>> \in W
        BY <2>2, <3>1, <4>2, <4>3, EndsAtStar
      <4> QED BY <1>2, <2>2, <3>1, <4>3, <4>4, EndsAtStar
    <3> HIDE DEF later
    <3> QED BY <1>3, <3>2, <3>3, <3>4, <3>5
  <2>3. CASE ~(a <= P /\ p[a] \in {"?", t[b]}) /\ ~(a <= P /\ p[a] = "*")
    <3>1. <<a, b>> \notin W
      <4>1. CASE a > P
        BY <1>6, <2>0, <4>1 DEF EndMatches
      <4>2. CASE a <= P
        <5>1. ~(a > P)
          BY <1>2, <4>2
        <5> QED BY <1>6, <2>3, <4>2, <5>1 DEF EndMatches
      <4> QED BY <1>2, <4>1, <4>2
    <3>2. at \in R <=> c # 0 /\ d <= T /\ Back(at) \in R
      BY <1>1, <1>5, <1>8, <2>0, <2>3 DEF LoopMatches
    <3>3. ASSUME c # 0, d <= T
          PROVE  LoopFinds(W, t, Back(at)) <=> <<c, d + 1>> \in W
      <4>1. LoopFinds(W, t, Back(at)) <=>
                <<c + 1, d + 1>> \in W \/ (d + 1 <= T /\ <<c, (d + 1) + 1>> \in W)
        BY <1>1, <3>3 DEF LoopFinds, Back, At
      <4>2. c \in 1 .. P /\ c \in 1 .. P + 1 /\ d + 1 \in 1 .. T + 1 /\ ~(c > P)
        BY <1>2, <3>3
      <4>3. p[c] = "*"
        BY <1>1, <3>3 DEF LoopInv
      <4>4. <<c, d + 1>> \in W <=> EndMatches(W, p, t, c, d + 1)
        BY <4>2 DEF MatchesEnds
      <4> QED BY <4>1, <4>2, <4>3, <4>4 DEF EndMatches
    <3> QED BY <1>1, <1>3, <1>8, <3>1, <3>2, <3>3
  <2> QED BY <2>1, <2>2, <2>3
<1> QED BY <1>2, <1>7, <1>8

LEMMA LoopFindsMatch ==
    ASSUME NEW X, NEW p \in Seq(X), NEW t \in Seq(X), \A i \in 1 .. Len(t) : t[i] # "*",
           NEW W, MatchesEnds(W, p, t), NEW R, MatchesLoop(R, p, t)
    PROVE  \A at \in LoopStates(p, t) : LoopInv(p, at) => (at \in R <=> LoopFinds(W, t, at))
<1> DEFINE D == LoopStates(p, t)
           Goes(measure) ==
               \A at \in D :
                  at.ti <= Len(t) =>
                     /\ at.pi <= Len(p)
                          => measure[Past(at)] < measure[at] /\ measure[OnStar(at)] < measure[at]
                     /\ at.match <= Len(t) => measure[Back(at)] < measure[at]
           Claim(at) == LoopInv(p, at) => (at \in R <=> LoopFinds(W, t, at))
<1>1. PICK N \in Nat : \E measure \in [D -> 0 .. N] : Goes(measure)
  BY LoopGoesOn
<1>2. PICK measure \in [D -> 0 .. N] : Goes(measure)
  BY <1>1
<1> DEFINE S == {n \in Nat : \A at \in D : measure[at] < n => Claim(at)}
<1>3. 0 \in S
  BY <1>2
<1>4. ASSUME NEW n \in Nat, n \in S, NEW at \in D, measure[at] < n + 1
      PROVE  Claim(at)
  <2> SUFFICES ASSUME LoopInv(p, at)
               PROVE  at \in R <=> LoopFinds(W, t, at)
    OBVIOUS
  <2>1. ASSUME NEW x \in D, measure[x] < measure[at], LoopInv(p, x)
        PROVE  x \in R <=> LoopFinds(W, t, x)
    <3>1. measure[x] < n
      BY <1>4, <2>1
    <3> QED BY <1>4, <2>1, <3>1
  <2>2. ASSUME at.ti <= Len(t), at.pi <= Len(p), p[at.pi] # "*"
        PROVE  Past(at) \in R <=> LoopFinds(W, t, Past(at))
    BY <1>2, <2>1, <2>2, WaysOn, LoopInvStays
  <2>3. ASSUME at.ti <= Len(t), at.pi <= Len(p), p[at.pi] = "*"
        PROVE  OnStar(at) \in R <=> LoopFinds(W, t, OnStar(at))
    BY <1>2, <2>1, <2>3, WaysOn, LoopInvStays
  <2>4. ASSUME at.ti <= Len(t), at.star # 0
        PROVE  Back(at) \in R <=> LoopFinds(W, t, Back(at))
    BY <1>2, <2>1, <2>4, WaysOn, LoopInvStays
  <2> QED BY <2>2, <2>3, <2>4, LoopStep
<1>5. Nat \subseteq S
  <2>1. \A n \in Nat : n \in S => n + 1 \in S
    <3> HIDE DEF Claim, D
    <3> QED BY <1>4
  <2> HIDE DEF S
  <2> QED BY <1>3, <2>1, Cuts!NatSetInduction
<1>6. ASSUME NEW at \in D PROVE Claim(at)
  <2>1. measure[at] < N + 1 /\ N + 1 \in Nat
    BY <1>2
  <2> HIDE DEF Claim, D
  <2> QED BY <1>5, <2>1
<1> QED BY <1>6

\* Up to a star the text may have been taken up anywhere.
StarsSkip(M, p, t) ==
    \A i \in 1 .. Len(p) : p[i] = "*" =>
        \A j \in 0 .. Len(t) : <<i, j>> \in M <=> \E k \in 0 .. j : <<i - 1, k>> \in M

LEMMA StartsAtStar ==
    ASSUME NEW X, NEW p \in Seq(X), NEW t \in Seq(X), NEW M, MatchesStarts(M, p, t)
    PROVE  StarsSkip(M, p, t)
<1> SUFFICES ASSUME NEW i \in 1 .. Len(p), p[i] = "*"
             PROVE  \A j \in 0 .. Len(t) : <<i, j>> \in M <=> \E k \in 0 .. j : <<i - 1, k>> \in M
  BY DEF StarsSkip
<1> DEFINE T == Len(t)
           Has(j) == <<i, j>> \in M <=> \E k \in 0 .. j : <<i - 1, k>> \in M
           U == {j \in 0 .. T : Has(j)}
<1>1. T \in Nat /\ Len(p) \in Nat
  OBVIOUS
<1>2. \A j \in 0 .. T : <<i, j>> \in M <=> <<i - 1, j>> \in M \/ (j > 0 /\ <<i, j - 1>> \in M)
  <2>1. i \in 0 .. Len(p) /\ i # 0
    BY <1>1
  <2>2. \A j \in 0 .. T : <<i, j>> \in M <=> StartMatches(M, p, t, i, j)
    BY <2>1 DEF MatchesStarts
  <2> QED BY <2>1, <2>2 DEF StartMatches
<1>3. 0 \in U
  <2>1. 0 \in 0 .. T /\ ~(0 > 0) /\ 0 .. 0 = {0}
    BY <1>1
  <2>2. <<i, 0>> \in M <=> <<i - 1, 0>> \in M
    BY <1>2, <2>1
  <2> QED BY <2>1, <2>2
<1>4. ASSUME NEW j \in 0 .. T - 1, j \in U
      PROVE  j + 1 \in U
  <2>1. /\ j + 1 \in 0 .. T /\ j + 1 > 0 /\ (j + 1) - 1 = j
        /\ 0 .. j + 1 = (0 .. j) \cup {j + 1}
    BY <1>1
  <2>2. <<i, j + 1>> \in M <=> <<i - 1, j + 1>> \in M \/ <<i, j>> \in M
    BY <1>2, <2>1
  <2>3. Has(j + 1)
    BY <1>4, <2>1, <2>2
  <2> HIDE DEF Has
  <2> QED BY <2>1, <2>3
<1>5. 0 .. T \subseteq U
  <2> HIDE DEF U, T
  <2> QED BY <1>1, <1>3, <1>4, Cuts!IntervalInduction
<1> QED BY <1>5

\* A match of the whole is a match of a beginning and of the end that is left,
\* wherever the pattern is cut.
LEMMA StartAndEnd ==
    ASSUME NEW X, NEW p \in Seq(X), NEW t \in Seq(X),
           NEW W, MatchesEnds(W, p, t), NEW M, MatchesStarts(M, p, t)
    PROVE  <<Len(p), Len(t)>> \in M <=> <<1, 1>> \in W
<1> DEFINE T == Len(t)
           P == Len(p)
           Meet(i) == \E j \in 0 .. T : <<i, j>> \in M /\ <<i + 1, j + 1>> \in W
           S == {i \in 0 .. P : Meet(i) <=> Meet(0)}
<1>1. T \in Nat /\ P \in Nat
  OBVIOUS
<1>2. \A j \in 0 .. T : <<0, j>> \in M <=> j = 0
  <2>1. 0 \in 0 .. P
    BY <1>1
  <2>2. \A j \in 0 .. T : <<0, j>> \in M <=> StartMatches(M, p, t, 0, j)
    BY <2>1 DEF MatchesStarts
  <2> QED BY <2>2 DEF StartMatches
<1>3. Meet(0) <=> <<1, 1>> \in W
  <2>1. 0 \in 0 .. T /\ 0 + 1 = 1
    BY <1>1
  <2>2. <<0, 0>> \in M
    BY <1>2, <2>1
  <2>3. Meet(0) => <<1, 1>> \in W
    BY <1>2, <2>1
  <2>4. <<1, 1>> \in W => Meet(0)
    BY <2>1, <2>2
  <2> QED BY <2>3, <2>4
<1>4. \A j \in 0 .. T : <<P + 1, j + 1>> \in W <=> j = T
  <2> SUFFICES ASSUME NEW j \in 0 .. T PROVE <<P + 1, j + 1>> \in W <=> j = T
    OBVIOUS
  <2>1. P + 1 \in 1 .. P + 1 /\ j + 1 \in 1 .. T + 1 /\ P + 1 > P /\ (j + 1 > T <=> j = T)
    BY <1>1
  <2>2. <<P + 1, j + 1>> \in W <=> EndMatches(W, p, t, P + 1, j + 1)
    BY <2>1 DEF MatchesEnds
  <2> QED BY <2>1, <2>2 DEF EndMatches
<1>5. Meet(P) <=> <<P, T>> \in M
  <2>1. T \in 0 .. T
    BY <1>1
  <2>2. <<P + 1, T + 1>> \in W
    BY <1>4, <2>1
  <2>3. Meet(P) => <<P, T>> \in M
    BY <1>4
  <2>4. <<P, T>> \in M => Meet(P)
    BY <2>1, <2>2
  <2> QED BY <2>3, <2>4
<1>6. ASSUME NEW i \in 1 .. P
      PROVE  Meet(i) <=> Meet(i - 1)
  <2>1. /\ i \in 0 .. P /\ i - 1 \in 0 .. P /\ i # 0 /\ i \in 1 .. P + 1 /\ ~(i > P)
        /\ (i - 1) + 1 = i /\ i + 1 \in 1 .. P + 1
    BY <1>1
  <2>2. ASSUME NEW j \in 0 .. T
        PROVE  /\ <<i, j>> \in M <=> StartMatches(M, p, t, i, j)
               /\ <<i, j + 1>> \in W <=> EndMatches(W, p, t, i, j + 1)
    <3>1. j + 1 \in 1 .. T + 1
      BY <1>1
    <3> QED BY <2>1, <3>1 DEF MatchesStarts, MatchesEnds
  <2>3. CASE p[i] # "*"
    <3>1. \A j \in 0 .. T : <<i, j>> \in M <=> j > 0 /\ p[i] \in {"?", t[j]} /\ <<i - 1, j - 1>> \in M
      BY <2>1, <2>2, <2>3 DEF StartMatches
    <3>2. \A j \in 0 .. T : <<i, j + 1>> \in W <=>
                            j + 1 <= T /\ p[i] \in {"?", t[j + 1]} /\ <<i + 1, (j + 1) + 1>> \in W
      BY <2>1, <2>2, <2>3 DEF EndMatches
    <3>3. ASSUME NEW j \in 0 .. T, <<i, j>> \in M, <<i + 1, j + 1>> \in W
          PROVE  Meet(i - 1)
      <4>0. j > 0
        BY <3>1, <3>3
      <4>1. j - 1 \in 0 .. T /\ (j - 1) + 1 = j /\ j <= T
        BY <1>1, <4>0
      <4>2. <<i - 1, j - 1>> \in M /\ <<i, (j - 1) + 1>> \in W
        BY <3>1, <3>2, <3>3, <4>1
      <4> QED BY <2>1, <4>1, <4>2
    <3>4. ASSUME NEW j \in 0 .. T, <<i - 1, j>> \in M, <<i, j + 1>> \in W
          PROVE  Meet(i)
      <4>0. j + 1 <= T
        BY <3>2, <3>4
      <4>1. j + 1 \in 0 .. T /\ (j + 1) - 1 = j /\ j + 1 > 0
        BY <1>1, <4>0
      <4>2. <<i, j + 1>> \in M /\ <<i + 1, (j + 1) + 1>> \in W
        BY <3>1, <3>2, <3>4, <4>1
      <4> QED BY <4>1, <4>2
    <3> QED BY <2>1, <3>3, <3>4
  <2>4. CASE p[i] = "*"
    <3>2. \A j \in 0 .. T : <<i, j + 1>> \in W <=> \E l \in j + 1 .. T + 1 : <<i + 1, l>> \in W
      <4>1. \A j \in 1 .. T + 1 : <<i, j>> \in W <=> \E l \in j .. T + 1 : <<i + 1, l>> \in W
        BY <2>4, EndsAtStar
      <4>2. \A j \in 0 .. T : j + 1 \in 1 .. T + 1
        BY <1>1
      <4> QED BY <4>1, <4>2
    <3>3. \A j \in 0 .. T : <<i, j>> \in M <=> \E k \in 0 .. j : <<i - 1, k>> \in M
      BY <2>4, StartsAtStar DEF StarsSkip
    <3>4. ASSUME NEW j \in 0 .. T, <<i, j>> \in M, <<i + 1, j + 1>> \in W
          PROVE  Meet(i - 1)
      <4>1. PICK k \in 0 .. j : <<i - 1, k>> \in M
        BY <3>3, <3>4
      <4>2. k \in 0 .. T /\ j + 1 \in k + 1 .. T + 1
        BY <1>1
      <4>3. <<i, k + 1>> \in W
        BY <3>2, <3>4, <4>2
      <4> QED BY <2>1, <4>1, <4>2, <4>3
    <3>5. ASSUME NEW j \in 0 .. T, <<i - 1, j>> \in M, <<i, j + 1>> \in W
          PROVE  Meet(i)
      <4>1. PICK l \in j + 1 .. T + 1 : <<i + 1, l>> \in W
        BY <3>2, <3>5
      <4>2. l - 1 \in 0 .. T /\ (l - 1) + 1 = l /\ j \in 0 .. l - 1
        BY <1>1
      <4>3. <<i, l - 1>> \in M
        BY <3>3, <3>5, <4>2
      <4> QED BY <4>1, <4>2, <4>3
    <3> QED BY <2>1, <3>4, <3>5
  <2> QED BY <2>3, <2>4
<1>7. P \in S
  <2>1. 0 \in S
    BY <1>1
  <2>2. ASSUME NEW i \in 0 .. P - 1, i \in S
        PROVE  i + 1 \in S
    <3>1. i + 1 \in 1 .. P /\ (i + 1) - 1 = i /\ i + 1 \in 0 .. P
      BY <1>1
    <3>2. Meet(i + 1) <=> Meet(i)
      <4> HIDE DEF Meet
      <4> QED BY <1>6, <3>1
    <3> HIDE DEF Meet
    <3> QED BY <2>2, <3>1, <3>2
  <2>3. 0 .. P \subseteq S
    <3> HIDE DEF S, P
    <3> QED BY <1>1, <2>1, <2>2, Cuts!IntervalInduction
  <2> HIDE DEF S
  <2> QED BY <1>1, <2>3
<1> HIDE DEF Meet
<1> QED BY <1>3, <1>5, <1>7

\* Folding changes no symbol that means something to a glob or a mask.
Folded == {"a", "{", "}", "|", "~"}

LEMMA CaseFoldIs ==
    ASSUME NEW X, NEW s \in Seq(X)
    PROVE  /\ CaseFold(s) \in Seq(X \cup Folded) /\ Len(CaseFold(s)) = Len(s)
           /\ \A x \in {"*", "!", "@", "?"}, i \in 1 .. Len(s) : CaseFold(s)[i] = x <=> s[i] = x
<1>1. \A x \in DOMAIN FoldTable : FoldTable[x] \in Folded
  BY DEF FoldTable, Folded
<1>2. DOMAIN FoldTable = {"A", "[", "]", "\\", "^"}
  BY DEF FoldTable
<1>3. DOMAIN s = 1 .. Len(s) /\ Len(s) \in Nat
  OBVIOUS
<1>4. \A i \in 1 .. Len(s) : CaseFold(s)[i] = IF s[i] \in DOMAIN FoldTable THEN FoldTable[s[i]] ELSE s[i]
  BY <1>3 DEF CaseFold
<1>5. CaseFold(s) \in Seq(X \cup Folded) /\ Len(CaseFold(s)) = Len(s)
  <2>1. \A i \in 1 .. Len(s) : CaseFold(s)[i] \in X \cup Folded
    <3>1. \A i \in 1 .. Len(s) : s[i] \in X
      OBVIOUS
    <3> QED BY <1>1, <1>4, <3>1
  <2>2. CaseFold(s) = [i \in 1 .. Len(s) |-> CaseFold(s)[i]]
    BY <1>3 DEF CaseFold
  <2> QED BY <1>3, <2>1, <2>2
<1>6. ASSUME NEW x \in {"*", "!", "@", "?"}, NEW i \in 1 .. Len(s)
      PROVE  CaseFold(s)[i] = x <=> s[i] = x
  <2>1. x \notin Folded /\ x \notin DOMAIN FoldTable
    BY <1>2 DEF Folded
  <2> QED BY <1>1, <1>4, <2>1
<1> QED BY <1>5, <1>6

\* globMatch decides what a pattern means, for every pattern and every text
\* without a star: going back only to the last star met loses nothing
\* (Utils.cpp:55-84).
THEOREM GlobMatchDecides ==
    ASSUME NEW X, NEW pattern \in Seq(X), NEW text \in Seq(X),
           \A i \in 1 .. Len(text) : text[i] # "*"
    PROVE  GlobMatch(pattern, text) <=> Matches(pattern, text)
<1>1. PICK p, t : p = CaseFold(pattern) /\ t = CaseFold(text)
  OBVIOUS
<1>2. p \in Seq(X \cup Folded) /\ t \in Seq(X \cup Folded) /\ \A i \in 1 .. Len(t) : t[i] # "*"
  BY <1>1, CaseFoldIs
<1>3. PICK R : MatchesLoop(R, p, t) /\ (GlobMatch(pattern, text) <=> At(1, 1, 0, 1) \in R)
  BY <1>1, <1>2, GlobMatchIs
<1>4. PICK M : MatchesStarts(M, p, t) /\ (Matches(pattern, text) <=> <<Len(p), Len(t)>> \in M)
  BY <1>1, <1>2, MatchesIs
<1>5. PICK W : MatchesEnds(W, p, t)
  BY <1>2, EndsAreFound
<1>6. /\ At(1, 1, 0, 1) \in LoopStates(p, t) /\ LoopInv(p, At(1, 1, 0, 1))
      /\ LoopFinds(W, t, At(1, 1, 0, 1)) <=> <<1, 1>> \in W
  BY <1>2 DEF LoopStates, LoopInv, LoopFinds, At
<1>7. At(1, 1, 0, 1) \in R <=> <<1, 1>> \in W
  BY <1>2, <1>3, <1>5, <1>6, LoopFindsMatch
<1>8. <<Len(p), Len(t)>> \in M <=> <<1, 1>> \in W
  BY <1>2, <1>4, <1>5, StartAndEnd
<1> QED BY <1>3, <1>4, <1>7, <1>8

\* Whether a beginning of the pattern matches one of the text is up to them alone.
LEMMA StartsAreTheirOwn ==
    ASSUME NEW X, NEW p \in Seq(X), NEW t \in Seq(X), NEW M, MatchesStarts(M, p, t),
           NEW q \in Seq(X), NEW u \in Seq(X), NEW L, MatchesStarts(L, q, u),
           Len(p) <= Len(q), \A i \in 1 .. Len(p) : p[i] = q[i],
           Len(t) <= Len(u), \A j \in 1 .. Len(t) : t[j] = u[j]
    PROVE  <<Len(p), Len(t)>> \in M <=> <<Len(p), Len(t)>> \in L
<1> DEFINE P == Len(p)
           T == Len(t)
           S == {i \in 0 .. P : \A j \in 0 .. T : <<i, j>> \in M <=> <<i, j>> \in L}
<1>1. P \in Nat /\ T \in Nat /\ Len(q) \in Nat /\ Len(u) \in Nat
  OBVIOUS
<1>2. ASSUME NEW i \in 0 .. P, NEW j \in 0 .. T
      PROVE  /\ <<i, j>> \in M <=> StartMatches(M, p, t, i, j)
             /\ <<i, j>> \in L <=> StartMatches(L, q, u, i, j)
  <2>1. i \in 0 .. Len(q) /\ j \in 0 .. Len(u)
    BY <1>1
  <2> QED BY <2>1 DEF MatchesStarts
<1>3. ASSUME NEW n \in 1 .. P, p[n] = "*"
      PROVE  /\ \A j \in 0 .. T : <<n, j>> \in M <=> \E k \in 0 .. j : <<n - 1, k>> \in M
             /\ \A j \in 0 .. T : <<n, j>> \in L <=> \E k \in 0 .. j : <<n - 1, k>> \in L
  <2>1. \A j \in 0 .. T : <<n, j>> \in M <=> \E k \in 0 .. j : <<n - 1, k>> \in M
    <3>1. StarsSkip(M, p, t)
      BY StartsAtStar
    <3> QED BY <1>3, <3>1 DEF StarsSkip
  <2>2. n \in 1 .. Len(q) /\ q[n] = "*" /\ 0 .. T \subseteq 0 .. Len(u)
    BY <1>1, <1>3
  <2>3. \A j \in 0 .. Len(u) : <<n, j>> \in L <=> \E k \in 0 .. j : <<n - 1, k>> \in L
    <3>1. StarsSkip(L, q, u)
      BY StartsAtStar
    <3> QED BY <2>2, <3>1 DEF StarsSkip
  <2> QED BY <2>1, <2>2, <2>3
<1>4. 0 \in S
  <2>1. 0 \in 0 .. P
    BY <1>1
  <2> SUFFICES ASSUME NEW j \in 0 .. T
               PROVE  <<0, j>> \in M <=> <<0, j>> \in L
    BY <2>1
  <2>2. /\ <<0, j>> \in M <=> StartMatches(M, p, t, 0, j)
        /\ <<0, j>> \in L <=> StartMatches(L, q, u, 0, j)
    BY <1>2, <2>1
  <2> QED BY <2>2 DEF StartMatches
<1>5. ASSUME NEW i \in 0 .. P - 1, i \in S
      PROVE  i + 1 \in S
  <2>1. PICK n \in 1 .. P : n = i + 1
    BY <1>1
  <2>2. n \in 0 .. P /\ n # 0 /\ n - 1 = i
    BY <1>1, <2>1
  <2>3. p[n] = q[n] /\ \A j \in 0 .. T : <<n - 1, j>> \in M <=> <<n - 1, j>> \in L
    BY <1>5, <2>2
  <2> SUFFICES ASSUME NEW j \in 0 .. T
               PROVE  <<n, j>> \in M <=> <<n, j>> \in L
    BY <2>1, <2>2
  <2>4. CASE p[n] = "*"
    <3>1. 0 .. j \subseteq 0 .. T
      BY <1>1
    <3> QED BY <1>3, <2>3, <2>4, <3>1
  <2>5. CASE p[n] # "*"
    <3>1. /\ <<n, j>> \in M <=> StartMatches(M, p, t, n, j)
          /\ <<n, j>> \in L <=> StartMatches(L, q, u, n, j)
      BY <1>2, <2>2
    <3>2. <<n, j>> \in M <=> j > 0 /\ p[n] \in {"?", t[j]} /\ <<n - 1, j - 1>> \in M
      BY <2>2, <2>5, <3>1 DEF StartMatches
    <3>3. <<n, j>> \in L <=> j > 0 /\ q[n] \in {"?", u[j]} /\ <<n - 1, j - 1>> \in L
      BY <2>2, <2>3, <2>5, <3>1 DEF StartMatches
    <3>4. j > 0 => j \in 1 .. T /\ j - 1 \in 0 .. T
      BY <1>1
    <3> QED BY <2>3, <3>2, <3>3, <3>4
  <2> QED BY <2>4, <2>5
<1>6. 0 .. P \subseteq S
  <2> HIDE DEF S, P
  <2> QED BY <1>1, <1>4, <1>5, Cuts!IntervalInduction
<1>7. P \in 0 .. P /\ T \in 0 .. T
  BY <1>1
<1> QED BY <1>6, <1>7

\* A mask nick!*@* and a text nick!rest, where rest has an '@' and no second '!'.
IsNickMask(whole, mask) ==
    /\ Len(whole) = Len(mask) + 4
    /\ \A i \in 1 .. Len(mask) : whole[i] = mask[i]
    /\ whole[Len(mask) + 1] = "!" /\ whole[Len(mask) + 2] = "*"
    /\ whole[Len(mask) + 3] = "@" /\ whole[Len(mask) + 4] = "*"

IsNickAnd(full, nick, rest) ==
    /\ Len(full) = Len(nick) + 1 + Len(rest)
    /\ \A j \in 1 .. Len(nick) : full[j] = nick[j]
    /\ full[Len(nick) + 1] = "!"
    /\ \A j \in 1 .. Len(rest) : full[Len(nick) + 1 + j] = rest[j]
    /\ \A j \in 1 .. Len(nick) : nick[j] # "!"
    /\ \A j \in 1 .. Len(rest) : rest[j] # "!"
    /\ \E j \in 1 .. Len(rest) : rest[j] = "@"

\* The mask matches the text when the mask's nick matches the text's.
LEMMA NickMaskMatches ==
    ASSUME NEW X, NEW mask \in Seq(X), NEW nick \in Seq(X), NEW rest \in Seq(X),
           NEW whole \in Seq(X), NEW full \in Seq(X),
           IsNickMask(whole, mask), IsNickAnd(full, nick, rest),
           NEW M, MatchesStarts(M, mask, nick), NEW L, MatchesStarts(L, whole, full)
    PROVE  <<Len(whole), Len(full)>> \in L <=> <<Len(mask), Len(nick)>> \in M
<1> USE DEF IsNickMask, IsNickAnd
<1> DEFINE P == Len(mask)
           N == Len(nick)
           T == Len(full)
<1>1. P \in Nat /\ N \in Nat /\ T \in Nat /\ Len(rest) \in Nat /\ N + 1 \in 1 .. T /\ N <= T
  OBVIOUS
<1>2. /\ P + 1 \in 1 .. P + 4 /\ P + 2 \in 1 .. P + 4 /\ P + 3 \in 1 .. P + 4 /\ P + 4 \in 1 .. P + 4
      /\ (P + 1) - 1 = P /\ (P + 2) - 1 = P + 1 /\ (P + 3) - 1 = P + 2 /\ (P + 4) - 1 = P + 3
      /\ P + 1 # 0 /\ P + 3 # 0 /\ 1 .. P + 4 \subseteq 0 .. P + 4
      /\ P + 2 \in 1 .. Len(whole) /\ P + 4 \in 1 .. Len(whole)
  BY <1>1, SMTT(30)
<1>3. \A j \in 1 .. T : full[j] = "!" <=> j = N + 1
  <2> SUFFICES ASSUME NEW j \in 1 .. T, j # N + 1 PROVE full[j] # "!"
    OBVIOUS
  <2>1. CASE j <= N
    <3>1. j \in 1 .. N
      BY <1>1, <2>1
    <3> QED BY <3>1
  <2>2. CASE j > N
    <3>1. j - (N + 1) \in 1 .. Len(rest) /\ N + 1 + (j - (N + 1)) = j
      BY <1>1, <2>2
    <3>2. full[N + 1 + (j - (N + 1))] = rest[j - (N + 1)]
      BY <3>1
    <3> QED BY <3>1, <3>2
  <2> QED BY <1>1, <2>1, <2>2
<1>4. \A j \in 0 .. T : <<P + 1, j>> \in L <=> j = N + 1 /\ <<P, N>> \in L
  <2> SUFFICES ASSUME NEW j \in 0 .. T
               PROVE  <<P + 1, j>> \in L <=> j = N + 1 /\ <<P, N>> \in L
    OBVIOUS
  <2>1. <<P + 1, j>> \in L <=> j > 0 /\ "!" \in {"?", full[j]} /\ <<P, j - 1>> \in L
    BY <1>2 DEF MatchesStarts, StartMatches
  <2>2. j > 0 => j \in 1 .. T
    BY <1>1
  <2>3. N + 1 > 0 /\ (N + 1) - 1 = N
    BY <1>1
  <2>4. j > 0 => ("!" \in {"?", full[j]} <=> j = N + 1)
    BY <1>3, <2>2
  <2> QED BY <2>1, <2>3, <2>4
<1>5. \A j \in 0 .. T : <<P + 2, j>> \in L <=> N + 1 <= j /\ <<P, N>> \in L
  <2>1. \A j \in 0 .. T : <<P + 2, j>> \in L <=> \E k \in 0 .. j : <<P + 1, k>> \in L
    <3>1. PICK n \in 1 .. Len(whole) : n = P + 2 /\ whole[n] = "*"
      BY <1>2
    <3> HIDE DEF P, T
    <3>2. \A j \in 0 .. Len(full) : <<n, j>> \in L <=> \E k \in 0 .. j : <<n - 1, k>> \in L
      <4>1. StarsSkip(L, whole, full)
        BY StartsAtStar
      <4> QED BY <3>1, <4>1 DEF StarsSkip
    <3> QED BY <1>2, <3>1, <3>2 DEF T
  <2>2. \A j \in 0 .. T : 0 .. j \subseteq 0 .. T /\ (N + 1 \in 0 .. j <=> N + 1 <= j)
    BY <1>1, SMTT(30)
  <2> QED BY <1>4, <2>1, <2>2
<1>6. \A j \in 0 .. T : <<P + 3, j>> \in L <=>
                         j > 0 /\ full[j] = "@" /\ <<P + 2, j - 1>> \in L
  <2> SUFFICES ASSUME NEW j \in 0 .. T
               PROVE  <<P + 3, j>> \in L <=> j > 0 /\ full[j] = "@" /\ <<P + 2, j - 1>> \in L
    OBVIOUS
  <2>1. <<P + 3, j>> \in L <=> j > 0 /\ "@" \in {"?", full[j]} /\ <<P + 2, j - 1>> \in L
    BY <1>2, ZenonT(40) DEF MatchesStarts, StartMatches
  <2> QED BY <2>1
<1>7. <<P + 4, T>> \in L <=> \E k \in 0 .. T : <<P + 3, k>> \in L
  <2>1. T \in 0 .. T
    BY <1>1
  <2>2. PICK n \in 1 .. Len(whole) : n = P + 4 /\ whole[n] = "*"
    BY <1>2
  <2> HIDE DEF P, T
  <2>3. \A j \in 0 .. Len(full) : <<n, j>> \in L <=> \E k \in 0 .. j : <<n - 1, k>> \in L
    <3>1. StarsSkip(L, whole, full)
      BY StartsAtStar
    <3> QED BY <2>2, <3>1 DEF StarsSkip
  <2>4. <<n, T>> \in L <=> \E k \in 0 .. T : <<n - 1, k>> \in L
    BY <2>1, <2>3 DEF T
  <2> QED BY <1>2, <2>2, <2>4
<1>8. <<P, N>> \in L => <<P + 4, T>> \in L
  <2> SUFFICES ASSUME <<P, N>> \in L PROVE <<P + 4, T>> \in L
    OBVIOUS
  <2>1. PICK j \in 1 .. Len(rest) : rest[j] = "@"
    OBVIOUS
  <2>2. /\ N + 1 + j \in 0 .. T /\ N + 1 + j > 0 /\ (N + 1 + j) - 1 \in 0 .. T
        /\ N + 1 <= (N + 1 + j) - 1
    <3>1. ASSUME NEW x \in Nat, NEW y \in Nat, NEW z \in 1 .. y
          PROVE  /\ x + 1 + z \in 0 .. x + 1 + y /\ x + 1 + z > 0
                 /\ (x + 1 + z) - 1 \in 0 .. x + 1 + y /\ x + 1 <= (x + 1 + z) - 1
      OBVIOUS
    <3>2. N \in Nat /\ Len(rest) \in Nat /\ T = N + 1 + Len(rest)
      BY <1>1
    <3> HIDE DEF N, T
    <3> QED BY <3>1, <3>2
  <2>3. full[N + 1 + j] = "@"
    BY <2>1
  <2>4. <<P + 2, (N + 1 + j) - 1>> \in L
    BY <1>5, <2>2
  <2> QED BY <1>6, <1>7, <2>2, <2>3, <2>4
<1>9. <<P + 4, T>> \in L => <<P, N>> \in L
  <2> SUFFICES ASSUME <<P + 4, T>> \in L PROVE <<P, N>> \in L
    OBVIOUS
  <2>1. PICK k \in 0 .. T : <<P + 3, k>> \in L
    BY <1>7
  <2>2. k > 0 /\ <<P + 2, k - 1>> \in L
    BY <1>6, <2>1
  <2>3. k - 1 \in 0 .. T
    BY <1>1, <2>2
  <2> QED BY <1>5, <2>2, <2>3
<1>10. <<P, N>> \in M <=> <<P, N>> \in L
  <2>1. P <= Len(whole) /\ N <= Len(full)
    BY <1>1
  <2> QED BY <2>1, StartsAreTheirOwn
<1> QED BY <1>8, <1>9, <1>10

IsFolded(X, c, s) ==
    /\ c \in Seq(X \cup Folded) /\ Len(c) = Len(s)
    /\ \A x \in {"*", "!", "@", "?"}, i \in 1 .. Len(s) : c[i] = x <=> s[i] = x

LEMMA CaseFoldFolds ==
    ASSUME NEW X, NEW s \in Seq(X)
    PROVE  IsFolded(X, CaseFold(s), s)
BY CaseFoldIs DEF IsFolded

\* A mask without '!' and '@' bans whoever has a matching nick, and nobody else
\* ("nick only", m_mode.cpp:86), for every nick, user name and host without a '!'
\* or a star.
THEOREM BareMasksBanNicks ==
    ASSUME NEW X, NEW mask \in Seq(X), NEW nick \in Seq(X), NEW user \in Seq(X), NEW host \in Seq(X),
           mask # <<>>, ~Contains(mask, "!"), ~Contains(mask, "@"),
           \A x \in {"!", "*"} : ~Contains(nick, x) /\ ~Contains(user, x) /\ ~Contains(host, x)
    PROVE  IsBanned({NormalizeBanMask(mask)}, [nick |-> nick, user |-> user, host |-> host])
               <=> Matches(mask, nick)
<1> DEFINE tail == <<"!", "*", "@", "*">>
           Y == X \cup {"!", "*", "@"}
<1>1. PICK whole, rest, full :
         /\ whole = mask \o tail
         /\ rest = (user \o <<"@">>) \o host
         /\ full = (nick \o <<"!">>) \o rest
  OBVIOUS
<1>2. /\ mask \in Seq(Y) /\ nick \in Seq(Y) /\ user \in Seq(Y) /\ host \in Seq(Y)
      /\ tail \in Seq(Y) /\ <<"@">> \in Seq(Y) /\ <<"!">> \in Seq(Y)
      /\ Len(tail) = 4 /\ Len(<<"@">>) = 1 /\ Len(<<"!">>) = 1 /\ <<"@">>[1] = "@" /\ <<"!">>[1] = "!"
      /\ tail[1] = "!" /\ tail[2] = "*" /\ tail[3] = "@" /\ tail[4] = "*"
  OBVIOUS
<1>3. Len(mask) \in Nat /\ Len(nick) \in Nat /\ Len(user) \in Nat /\ Len(host) \in Nat
  OBVIOUS
<1>4. PICK ua : ua = user \o <<"@">>
  OBVIOUS
<1>5. PICK nb : nb = nick \o <<"!">>
  OBVIOUS
<1> HIDE DEF tail, Y
<1>6. /\ ua \in Seq(Y) /\ Len(ua) = Len(user) + 1 /\ ua[Len(user) + 1] = "@"
      /\ \A i \in 1 .. Len(user) : ua[i] = user[i]
  BY <1>2, <1>3, <1>4
<1>7. /\ nb \in Seq(Y) /\ Len(nb) = Len(nick) + 1 /\ nb[Len(nick) + 1] = "!"
      /\ \A i \in 1 .. Len(nick) : nb[i] = nick[i]
  BY <1>2, <1>3, <1>5
<1>8. /\ rest \in Seq(Y) /\ Len(rest) = Len(user) + 1 + Len(host)
      /\ rest[Len(user) + 1] = "@"
      /\ \A i \in 1 .. Len(rest) : rest[i] # "!" /\ rest[i] # "*"
  <2>1. /\ rest \in Seq(Y) /\ Len(rest) = Len(ua) + Len(host)
        /\ \A i \in 1 .. Len(ua) : rest[i] = ua[i]
        /\ \A i \in 1 .. Len(host) : rest[Len(ua) + i] = host[i]
    BY <1>1, <1>2, <1>4, <1>6, SMTT(30)
  <2>2. \A i \in 1 .. Len(user) : user[i] \notin {"!", "*"}
    BY DEF Contains
  <2>3. \A i \in 1 .. Len(host) : host[i] \notin {"!", "*"}
    BY DEF Contains
  <2>4. ASSUME NEW i \in 1 .. Len(rest)
        PROVE  rest[i] # "!" /\ rest[i] # "*"
    <3>1. CASE i <= Len(user)
      <4>1. i \in 1 .. Len(user) /\ i \in 1 .. Len(ua)
        BY <1>3, <1>6, <3>1
      <4> QED BY <1>6, <2>1, <2>2, <4>1
    <3>2. CASE i = Len(user) + 1
      <4>1. i \in 1 .. Len(ua)
        BY <1>3, <1>6, <3>2
      <4> QED BY <1>6, <2>1, <3>2, <4>1
    <3>3. CASE i > Len(user) + 1
      <4>1. i - Len(ua) \in 1 .. Len(host) /\ Len(ua) + (i - Len(ua)) = i
        BY <1>3, <1>6, <2>1, <3>3
      <4>2. rest[Len(ua) + (i - Len(ua))] = host[i - Len(ua)]
        BY <2>1, <4>1
      <4> QED BY <2>3, <4>1, <4>2
    <3> QED BY <1>3, <2>1, <3>1, <3>2, <3>3
  <2>5. rest[Len(user) + 1] = "@"
    BY <1>3, <1>6, <2>1
  <2> QED BY <1>6, <2>1, <2>4, <2>5
<1>9. /\ full \in Seq(Y) /\ Len(full) = Len(nick) + 1 + Len(rest)
      /\ \A j \in 1 .. Len(nick) : full[j] = nick[j]
      /\ full[Len(nick) + 1] = "!"
      /\ \A j \in 1 .. Len(rest) : full[Len(nick) + 1 + j] = rest[j]
  <2>1. /\ full \in Seq(Y) /\ Len(full) = Len(nb) + Len(rest)
        /\ \A i \in 1 .. Len(nb) : full[i] = nb[i]
        /\ \A i \in 1 .. Len(rest) : full[Len(nb) + i] = rest[i]
    BY <1>1, <1>5, <1>7, <1>8
  <2>2. 1 .. Len(nick) \subseteq 1 .. Len(nb) /\ Len(nick) + 1 \in 1 .. Len(nb)
    BY <1>3, <1>7
  <2> QED BY <1>7, <2>1, <2>2
<1>10. /\ whole \in Seq(Y) /\ Len(whole) = Len(mask) + 4
       /\ \A i \in 1 .. Len(mask) : whole[i] = mask[i]
       /\ whole[Len(mask) + 1] = "!" /\ whole[Len(mask) + 2] = "*"
       /\ whole[Len(mask) + 3] = "@" /\ whole[Len(mask) + 4] = "*"
  <2>1. /\ whole \in Seq(Y) /\ Len(whole) = Len(mask) + Len(tail)
        /\ \A i \in 1 .. Len(mask) : whole[i] = mask[i]
        /\ \A i \in 1 .. Len(tail) : whole[Len(mask) + i] = tail[i]
    <3>1. mask \in Seq(Y) /\ tail \in Seq(Y)
      BY <1>2
    <3> QED BY <1>1, <3>1
  <2>2. 1 \in 1 .. Len(tail) /\ 2 \in 1 .. Len(tail) /\ 3 \in 1 .. Len(tail) /\ 4 \in 1 .. Len(tail)
    BY <1>2
  <2> QED BY <1>2, <2>1, <2>2
<1>11. NormalizeBanMask(mask) = whole
  BY <1>1 DEF NormalizeBanMask, tail
<1>12. FullMask([nick |-> nick, user |-> user, host |-> host]) = full
  <2>1. FullMask([nick |-> nick, user |-> user, host |-> host]) = ((nb \o user) \o <<"@">>) \o host
    BY <1>5 DEF FullMask
  <2>2. (nb \o user) \o <<"@">> = nb \o ua
    <3>1. nb \in Seq(Y) /\ user \in Seq(Y) /\ <<"@">> \in Seq(Y)
      BY <1>2, <1>7
    <3>2. (nb \o user) \o <<"@">> = nb \o (user \o <<"@">>)
      BY <3>1
    <3> QED BY <1>4, <3>2
  <2>3. (nb \o ua) \o host = nb \o (ua \o host)
    <3>1. nb \in Seq(Y) /\ ua \in Seq(Y) /\ host \in Seq(Y)
      BY <1>2, <1>6, <1>7
    <3> QED BY <3>1
  <2> QED BY <1>1, <1>4, <1>5, <2>1, <2>2, <2>3
<1>13. \A j \in 1 .. Len(full) : full[j] # "*"
  <2> SUFFICES ASSUME NEW j \in 1 .. Len(full) PROVE full[j] # "*"
    OBVIOUS
  <2>1. CASE j <= Len(nick)
    <3>1. j \in 1 .. Len(nick)
      BY <1>3, <2>1
    <3> QED BY <1>9, <3>1 DEF Contains
  <2>2. CASE j = Len(nick) + 1
    BY <1>9, <2>2
  <2>3. CASE j > Len(nick) + 1
    <3>1. j - (Len(nick) + 1) \in 1 .. Len(rest) /\ Len(nick) + 1 + (j - (Len(nick) + 1)) = j
      BY <1>3, <1>8, <1>9, <2>3
    <3>2. full[Len(nick) + 1 + (j - (Len(nick) + 1))] = rest[j - (Len(nick) + 1)]
      BY <1>9, <3>1
    <3> QED BY <1>8, <3>1, <3>2
  <2> QED BY <1>3, <1>9, <2>1, <2>2, <2>3
<1>14. IsBanned({NormalizeBanMask(mask)}, [nick |-> nick, user |-> user, host |-> host])
           <=> Matches(whole, full)
  <2>1. IsBanned({NormalizeBanMask(mask)}, [nick |-> nick, user |-> user, host |-> host])
            <=> GlobMatch(whole, full)
    BY <1>11, <1>12 DEF IsBanned
  <2> QED BY <1>9, <1>10, <1>13, <2>1, GlobMatchDecides
\* The same of what they are folded to.
<1> DEFINE Z == Y \cup Folded
<1>15. PICK m, n, r, w, f : /\ m = CaseFold(mask) /\ n = CaseFold(nick) /\ r = CaseFold(rest)
                           /\ w = CaseFold(whole) /\ f = CaseFold(full)
  OBVIOUS
<1>16. /\ IsFolded(Y, m, mask) /\ IsFolded(Y, n, nick) /\ IsFolded(Y, r, rest)
       /\ IsFolded(Y, w, whole) /\ IsFolded(Y, f, full)
  <2>1. IsFolded(Y, m, mask)
    BY <1>2, <1>15, CaseFoldFolds
  <2>2. IsFolded(Y, n, nick)
    BY <1>2, <1>15, CaseFoldFolds
  <2>3. IsFolded(Y, r, rest)
    BY <1>8, <1>15, CaseFoldFolds
  <2>4. IsFolded(Y, w, whole)
    BY <1>10, <1>15, CaseFoldFolds
  <2>5. IsFolded(Y, f, full)
    BY <1>9, <1>15, CaseFoldFolds
  <2> QED BY <2>1, <2>2, <2>3, <2>4, <2>5
<1>17. IsNickMask(w, m)
  <2>1. /\ Len(m) = Len(mask) /\ Len(w) = Len(whole) /\ Len(whole) = Len(mask) + 4
        /\ \A i \in 1 .. 4 : Len(mask) + i \in 1 .. Len(whole)
        /\ DOMAIN whole = 1 .. Len(whole) /\ DOMAIN mask = 1 .. Len(mask)
        /\ \A i \in 1 .. Len(mask) : i \in 1 .. Len(whole)
    BY <1>2, <1>3, <1>10, <1>16, SMTT(30) DEF IsFolded
  <2>2. ASSUME NEW i \in 1 .. Len(mask) PROVE w[i] = m[i]
    <3>1. i \in DOMAIN whole /\ i \in DOMAIN mask /\ whole[i] = mask[i]
      BY <1>10, <2>1
    <3>2. CaseFold(whole)[i] = CaseFold(mask)[i]
      BY <3>1 DEF CaseFold
    <3> QED BY <1>15, <3>2
  <2>3. \A x \in {"*", "!", "@"}, i \in 1 .. Len(whole) : w[i] = x <=> whole[i] = x
    BY <1>16 DEF IsFolded
  <2> QED BY <1>10, <2>1, <2>2, <2>3 DEF IsNickMask
<1>18. IsNickAnd(f, n, r)
  <2>1. /\ Len(n) = Len(nick) /\ Len(r) = Len(rest) /\ Len(f) = Len(full)
        /\ DOMAIN full = 1 .. Len(full) /\ DOMAIN nick = 1 .. Len(nick) /\ DOMAIN rest = 1 .. Len(rest)
        /\ \A j \in 1 .. Len(nick) : j \in 1 .. Len(full)
        /\ Len(nick) + 1 \in 1 .. Len(full)
        /\ \A j \in 1 .. Len(rest) : Len(nick) + 1 + j \in 1 .. Len(full)
        /\ Len(user) + 1 \in 1 .. Len(rest)
    <3>1. Len(n) = Len(nick) /\ Len(r) = Len(rest) /\ Len(f) = Len(full)
      BY <1>16 DEF IsFolded
    <3>2. DOMAIN full = 1 .. Len(full) /\ DOMAIN nick = 1 .. Len(nick) /\ DOMAIN rest = 1 .. Len(rest)
      BY <1>2, <1>8, <1>9
    <3>3. ASSUME NEW a \in Nat, NEW b \in Nat, NEW c \in Nat, NEW x, NEW y,
                 x = b + 1 + c, y = a + 1 + x
          PROVE  /\ \A j \in 1 .. a : j \in 1 .. y
                 /\ a + 1 \in 1 .. y
                 /\ \A j \in 1 .. x : a + 1 + j \in 1 .. y
                 /\ b + 1 \in 1 .. x
      BY <3>3
    <3>4. Len(rest) = Len(user) + 1 + Len(host) /\ Len(full) = Len(nick) + 1 + Len(rest)
      BY <1>8, <1>9
    <3> QED BY <1>3, <3>1, <3>2, <3>3, <3>4
  <2>2. ASSUME NEW j \in 1 .. Len(nick) PROVE f[j] = n[j] /\ n[j] # "!"
    <3>1. j \in DOMAIN full /\ j \in DOMAIN nick /\ full[j] = nick[j]
      BY <1>9, <2>1
    <3>2. f[j] = n[j]
      <4>1. CaseFold(full)[j] = CaseFold(nick)[j]
        BY <3>1 DEF CaseFold
      <4> QED BY <1>15, <4>1
    <3>3. nick[j] # "!"
      BY DEF Contains
    <3> QED BY <1>16, <3>2, <3>3 DEF IsFolded
  <2>3. ASSUME NEW j \in 1 .. Len(rest) PROVE f[Len(nick) + 1 + j] = r[j] /\ r[j] # "!"
    <3>1. PICK k : k = Len(nick) + 1 + j
      OBVIOUS
    <3>2. k \in DOMAIN full /\ j \in DOMAIN rest /\ full[k] = rest[j]
      BY <1>9, <2>1, <3>1
    <3>3. f[k] = r[j]
      <4>1. CaseFold(full)[k] = CaseFold(rest)[j]
        BY <3>2 DEF CaseFold
      <4> QED BY <1>15, <4>1
    <3>4. rest[j] # "!"
      BY <1>8
    <3> QED BY <1>16, <3>1, <3>3, <3>4 DEF IsFolded
  <2>4. f[Len(nick) + 1] = "!" /\ r[Len(user) + 1] = "@"
    BY <1>8, <1>9, <1>16, <2>1 DEF IsFolded
  <2> QED BY <1>9, <2>1, <2>2, <2>3, <2>4 DEF IsNickAnd
<1>19. m \in Seq(Z) /\ n \in Seq(Z) /\ r \in Seq(Z) /\ w \in Seq(Z) /\ f \in Seq(Z)
  BY <1>16 DEF IsFolded
<1> HIDE DEF Z
<1>20. PICK M : MatchesStarts(M, m, n) /\ (Matches(mask, nick) <=> <<Len(m), Len(n)>> \in M)
  BY <1>15, <1>19, MatchesIs
<1>21. PICK L : MatchesStarts(L, w, f) /\ (Matches(whole, full) <=> <<Len(w), Len(f)>> \in L)
  BY <1>15, <1>19, MatchesIs
<1>22. <<Len(w), Len(f)>> \in L <=> <<Len(m), Len(n)>> \in M
  BY <1>17, <1>18, <1>19, <1>20, <1>21, NickMaskMatches, SMTT(30)
<1> QED BY <1>14, <1>20, <1>21, <1>22

-----------------------------------------------------------------------------
\* The two texts of a behaviour: what a text may hold, and whom a line may be typed to.
TextsInv ==
    /\ kind \in {"glob", "ban", "message"} =>
           left \in Seq(LeftSymbols[kind]) /\ right \in Seq(RightSymbols[kind])
    /\ kind = "typed" => left \in Seq(LeftSymbols[kind]) /\ right \in Targets

LEMMA TextsStay == TextSpec => []TextsInv
<1>1. TextInit => TextsInv
  <2> SUFFICES ASSUME TextInit PROVE TextsInv
    OBVIOUS
  <2>1. left = <<>> /\ right \in IF kind = "typed" THEN Targets ELSE {<<>>}
    BY DEF TextInit
  <2>2. ASSUME NEW X PROVE <<>> \in Seq(X)
    OBVIOUS
  <2> QED BY <2>1, <2>2, Zenon DEF TextsInv
<1>2. TextsInv /\ [TextNext]_<<lineVars, textVars, editVars>> => TextsInv'
  <2> SUFFICES ASSUME TextsInv, [TextNext]_<<lineVars, textVars, editVars>>
               PROVE  TextsInv'
    OBVIOUS
  <2>1. CASE UNCHANGED textVars
    BY <2>1 DEF TextsInv, textVars
  <2>2. CASE /\ kind' = kind
             /\ \/ (\E s \in LeftSymbols[kind] : left' = Append(left, s)) /\ right' = right
                \/ (\E s \in RightSymbols[kind] : right' = Append(right, s)) /\ left' = left
    <3>1. PICK L, R : L = LeftSymbols[kind] /\ R = RightSymbols[kind]
      OBVIOUS
    <3>3. \/ (\E s \in L : left' = Append(left, s)) /\ right' = right
          \/ (\E s \in R : right' = Append(right, s)) /\ left' = left
      BY <2>2, <3>1
    <3>4. ASSUME NEW X, NEW t \in Seq(X), NEW s \in X PROVE Append(t, s) \in Seq(X)
      OBVIOUS
    <3>5. ASSUME kind \in {"glob", "ban", "message"}
          PROVE  left' \in Seq(L) /\ right' \in Seq(R)
      <4>1. left \in Seq(L) /\ right \in Seq(R)
        BY <3>1, <3>5 DEF TextsInv
      <4> QED BY <3>3, <3>4, <4>1
    <3>6. ASSUME kind = "typed"
          PROVE  left' \in Seq(L) /\ right' \in Targets
      <4>1. left \in Seq(L) /\ right \in Targets
        BY <3>1, <3>6 DEF TextsInv
      <4>2. R = {}
        BY <3>1, <3>6 DEF RightSymbols
      <4> QED BY <3>3, <3>4, <4>1, <4>2
    <3> QED BY <2>2, <3>1, <3>5, <3>6 DEF TextsInv
  <2> QED BY <2>1, <2>2 DEF TextNext, textVars
<1> QED BY <1>1, <1>2, PTL DEF TextSpec

\* globMatch decides what its pattern means for every pattern over stars, question
\* marks and letters of either case and every text without a star: the run grows
\* them to MaxText symbols, the theorem holds for every length.
THEOREM GlobsAreRight == TextSpec => []GlobIsRight
<1>1. TextsInv => GlobIsRight
  <2> SUFFICES ASSUME TextsInv, kind = "glob"
               PROVE  GlobMatch(left, right) <=> Matches(left, right)
    BY DEF GlobIsRight
  <2>1. /\ left \in Seq({"*", "?", "a", "A", "b"})
        /\ right \in Seq({"a", "b"})
    BY DEF TextsInv, LeftSymbols, RightSymbols
  <2>2. PICK X : X = {"*", "?", "a", "A", "b"}
    OBVIOUS
  <2>3. left \in Seq(X) /\ right \in Seq(X) /\ \A i \in 1 .. Len(right) : right[i] # "*"
    BY <2>1, <2>2
  <2> QED BY <2>3, GlobMatchDecides
<1> QED BY <1>1, TextsStay, PTL

\* A nick mask bans by the nick, whatever user name without a star is chosen.
THEOREM NickBansBanNicks == TextSpec => []PlainNickBansHold
<1>1. TextsInv => PlainNickBansHold
  <2> SUFFICES ASSUME TextsInv, ~Contains(right, "*"), kind = "ban", left # <<>>
               PROVE  IsBanned({NormalizeBanMask(left)}, Client(right))
                          <=> Matches(left, Client(right).nick)
    BY DEF PlainNickBansHold, NickBansHold, BansTheNick
  <2>1. /\ left \in Seq({"*", "?", "a", "b"})
        /\ right \in Seq({"*", "a", "b"})
    BY DEF TextsInv, LeftSymbols, RightSymbols
  <2>2. PICK X, nick, host :
            X = {"*", "?", "a", "b", ":"} /\ nick = <<"a", "b">> /\ host = <<"a", ":", "b">>
    OBVIOUS
  <2>3. left \in Seq(X) /\ right \in Seq(X) /\ nick \in Seq(X) /\ host \in Seq(X)
    BY <2>1, <2>2
  <2>4. ~Contains(left, "!") /\ ~Contains(left, "@")
    BY <2>1 DEF Contains
  <2>5. \A x \in {"!", "*"} : ~Contains(nick, x) /\ ~Contains(right, x) /\ ~Contains(host, x)
    <3>1. ~Contains(right, "!")
      BY <2>1 DEF Contains
    <3>2. \A x \in {"!", "*"} : ~Contains(nick, x) /\ ~Contains(host, x)
      BY <2>2 DEF Contains
    <3> QED BY <3>1, <3>2
  <2>6. IsBanned({NormalizeBanMask(left)}, [nick |-> nick, user |-> right, host |-> host])
            <=> Matches(left, nick)
    BY <2>3, <2>4, <2>5, BareMasksBanNicks
  <2>7. Client(right) = [nick |-> nick, user |-> right, host |-> host]
    BY <2>2 DEF Client
  <2> QED BY <2>6, <2>7
<1> QED BY <1>1, TextsStay, PTL

-----------------------------------------------------------------------------
\* The input line.  Its bytes spell a row of characters, L before the cursor and
\* R behind it; so do the bytes of each line entered.
Chars == {<<"a">>, <<"x">>, <<"l2", "c">>, <<"l3", "c", "c">>}
Units == {"a", "x", "l2", "l3", "c"}

Spelt(cs) == FlattenSeq(cs)

Spells(buf, pos, L, R) == buf = Spelt(L) \o Spelt(R) /\ pos = Len(Spelt(L))

EditInv ==
    /\ \E L, R \in Seq(Chars) : Spells(inputBuf, cursorByte, L, R)
    /\ history_ \in Seq({Spelt(cs) : cs \in Seq(Chars)})
    /\ historyIdx \in 0 .. Len(history_)
    /\ historyIdx # 0 => historyIdx < Len(history_)
    /\ seq \in {<<>>, <<"l2">>, <<"l3">>, <<"l3", "c">>}

LEMMA CharIs ==
    ASSUME NEW ch \in Chars
    PROVE  /\ ch \in Seq(Units) /\ Len(ch) \in 1 .. 3 /\ Utf8CharLen(ch[1]) = Len(ch)
           /\ ch[1] # "c" /\ \A i \in 2 .. Len(ch) : ch[i] = "c"
           /\ \A i \in 1 .. Len(ch) : ch[i] \in Units
<1>1. CASE ch = <<"a">>
  BY <1>1 DEF Units, Utf8CharLen
<1>4. CASE ch = <<"x">>
  BY <1>4 DEF Units, Utf8CharLen
<1>2. CASE ch = <<"l2", "c">>
  BY <1>2 DEF Units, Utf8CharLen
<1>3. CASE ch = <<"l3", "c", "c">>
  BY <1>3 DEF Units, Utf8CharLen
<1> QED BY <1>1, <1>2, <1>3, <1>4 DEF Chars

LEMMA CharsAreSpelt == Chars \subseteq Seq(Units)
BY CharIs

LEMMA SpeltOfMore ==
    ASSUME NEW cs \in Seq(Chars), NEW ch \in Chars
    PROVE  /\ Spelt(cs) \in Seq(Units)
           /\ Append(cs, ch) \in Seq(Chars)
           /\ Spelt(Append(cs, ch)) = Spelt(cs) \o ch
<1>1. cs \in Seq(Seq(Units)) /\ ch \in Seq(Units)
  BY CharsAreSpelt
<1>2. Cuts!FlattenSeq(cs) \in Seq(Units) /\ Cuts!FlattenSeq(Append(cs, ch)) = Cuts!FlattenSeq(cs) \o ch
  BY <1>1, Cuts!FlattenOfAppend
<1>3. \A ss : Cuts!FlattenSeq(ss) = FlattenSeq(ss)
  BY DEF FlattenSeq, Cuts!FlattenSeq
<1>4. Append(cs, ch) \in Seq(Chars)
  OBVIOUS
<1> QED BY <1>2, <1>3, <1>4 DEF Spelt

LEMMA SpeltIs ==
    ASSUME NEW cs \in Seq(Chars)
    PROVE  Spelt(cs) \in Seq(Units) /\ Len(Spelt(cs)) \in Nat
<1>1. <<"a">> \in Chars
  BY DEF Chars
<1> QED BY <1>1, SpeltOfMore

LEMMA SpeltOfNothing == Spelt(<<>>) = <<>>
BY DEF Spelt, FlattenSeq

\* A row of characters is nothing, or ends with one.
LEMMA LastOfRow ==
    ASSUME NEW cs \in Seq(Chars), cs # <<>>
    PROVE  \E front \in Seq(Chars), ch \in Chars :
               cs = Append(front, ch) /\ Len(cs) = Len(front) + 1 /\ Spelt(cs) = Spelt(front) \o ch
                /\ Len(Spelt(cs)) = Len(Spelt(front)) + Len(ch)
<1> DEFINE N == Len(cs)
           front == SubSeq(cs, 1, N - 1)
<1>1. N \in Nat /\ N > 0 /\ cs[N] \in Chars
  OBVIOUS
<1>2. front \in Seq(Chars) /\ Len(front) = N - 1
  <2>1. N \in 1 .. Len(cs)
    BY <1>1
  <2> QED BY <2>1, Cuts!CutAt
<1>3. cs = Append(front, cs[N])
  BY <1>1
<1> HIDE DEF front, N
<1>4. PICK ch \in Chars : ch = cs[N]
  BY <1>1
<1>5. Spelt(cs) = Spelt(front) \o ch /\ Spelt(front) \in Seq(Units) /\ ch \in Seq(Units)
  BY <1>2, <1>3, <1>4, SpeltOfMore, CharsAreSpelt
<1>6. Len(Spelt(cs)) = Len(Spelt(front)) + Len(ch)
  BY <1>5
<1>7. Len(cs) = Len(front) + 1
  BY <1>1, <1>2 DEF N
<1> QED BY <1>2, <1>3, <1>4, <1>5, <1>6, <1>7

\* Spelling is one character after the other.
LEMMA SpeltOfConcat ==
    ASSUME NEW L \in Seq(Chars), NEW R \in Seq(Chars)
    PROVE  L \o R \in Seq(Chars) /\ Spelt(L \o R) = Spelt(L) \o Spelt(R)
<1> DEFINE N == Len(R)
           Part(n) == SubSeq(R, 1, n)
           T == {n \in 0 .. N : Spelt(L \o Part(n)) = Spelt(L) \o Spelt(Part(n))}
<1>1. N \in Nat
  OBVIOUS
<1>2. ASSUME NEW n \in 0 .. N PROVE Part(n) \in Seq(Chars)
  OBVIOUS
<1>3. 0 \in T
  <2>1. Part(0) = <<>> /\ L \o <<>> = L
    OBVIOUS
  <2>2. Spelt(L) \in Seq(Units)
    BY SpeltIs
  <2>3. Spelt(L) \o <<>> = Spelt(L)
    BY <2>2
  <2>4. Spelt(L \o Part(0)) = Spelt(L) \o Spelt(Part(0))
    <3> HIDE DEF Part
    <3> QED BY <2>1, <2>3, SpeltOfNothing
  <2> HIDE DEF Part
  <2> QED BY <1>1, <2>4
<1>4. ASSUME NEW n \in 0 .. N - 1, n \in T PROVE n + 1 \in T
  <2>1. n + 1 \in 1 .. N /\ n + 1 \in 0 .. N /\ n \in 0 .. N
    BY <1>1
  <2>2. PICK P \in Seq(Chars), ch \in Chars : P = Part(n) /\ ch = R[n + 1]
    <3>1. R[n + 1] \in Chars
      BY <2>1
    <3> HIDE DEF Part
    <3> QED BY <1>2, <2>1, <3>1
  <2>3. Part(n + 1) = Append(P, ch)
    BY <2>1, <2>2
  <2>4. L \o P \in Seq(Chars) /\ L \o Append(P, ch) = Append(L \o P, ch)
    OBVIOUS
  <2>5. Spelt(L \o Append(P, ch)) = Spelt(L \o P) \o ch /\ Spelt(Append(P, ch)) = Spelt(P) \o ch
    BY <2>4, SpeltOfMore
  <2>6. Spelt(L \o P) = Spelt(L) \o Spelt(P)
    BY <1>4, <2>2
  <2>7. (Spelt(L) \o Spelt(P)) \o ch = Spelt(L) \o (Spelt(P) \o ch)
    <3>1. PICK l, p : l = Spelt(L) /\ p = Spelt(P)
      OBVIOUS
    <3>2. l \in Seq(Units) /\ p \in Seq(Units)
      BY <3>1, SpeltIs
    <3>3. l \in Seq(Units) /\ p \in Seq(Units) /\ ch \in Seq(Units)
      BY <3>2, CharIs
    <3>4. (l \o p) \o ch = l \o (p \o ch)
      BY <3>3, SMTT(30)
    <3> QED BY <3>1, <3>4
  <2> HIDE DEF Part
  <2> QED BY <2>1, <2>3, <2>5, <2>6, <2>7
<1>5. 0 .. N \subseteq T
  <2> HIDE DEF T, N
  <2> QED BY <1>1, <1>3, <1>4, Cuts!IntervalInduction
<1>6. N \in T /\ Part(N) = R
  <2>1. N \in 0 .. N
    BY <1>1
  <2>2. Part(N) = R
    OBVIOUS
  <2> HIDE DEF T, N, Part
  <2> QED BY <1>5, <2>1, <2>2
<1>7. L \o R \in Seq(Chars)
  OBVIOUS
<1>8. Spelt(L \o Part(N)) = Spelt(L) \o Spelt(Part(N))
  <2> HIDE DEF N, Part
  <2> QED BY <1>6
<1> HIDE DEF Part
<1> QED BY <1>6, <1>7, <1>8

LEMMA SpeltOfOne ==
    ASSUME NEW ch \in Chars
    PROVE  Spelt(<<ch>>) = ch
<1>1. <<>> \in Seq(Chars) /\ Append(<<>>, ch) = <<ch>>
  OBVIOUS
<1>2. Spelt(<<ch>>) = <<>> \o ch
  BY <1>1, SpeltOfMore, SpeltOfNothing
<1>3. <<>> \o ch = ch
  <2>1. ch \in Seq(Units)
    BY CharIs
  <2> QED BY <2>1
<1> QED BY <1>2, <1>3

\* A row of characters is nothing, or begins with one.
LEMMA FirstOfRow ==
    ASSUME NEW cs \in Seq(Chars), cs # <<>>
    PROVE  \E ch \in Chars, rest \in Seq(Chars) :
               cs = <<ch>> \o rest /\ rest = Tail(cs) /\ Len(cs) = Len(rest) + 1
                /\ Spelt(cs) = ch \o Spelt(rest)
<1>1. PICK ch, rest : ch = Head(cs) /\ rest = Tail(cs)
  OBVIOUS
<1>2. ch \in Chars /\ rest \in Seq(Chars) /\ cs = <<ch>> \o rest /\ Len(cs) = Len(rest) + 1
  BY <1>1
<1>3. <<ch>> \in Seq(Chars)
  BY <1>2
<1>4. Spelt(<<ch>>) = ch
  BY <1>2, SpeltOfOne
<1>6. Spelt(<<ch>> \o rest) = Spelt(<<ch>>) \o Spelt(rest)
  BY <1>2, <1>3, SpeltOfConcat
<1> QED BY <1>1, <1>2, <1>4, <1>6

\* Where two texts meet.
LEMMA Parted ==
    ASSUME NEW X, NEW a \in Seq(X), NEW b \in Seq(X)
    PROVE  /\ a \o b \in Seq(X) /\ Len(a \o b) = Len(a) + Len(b)
           /\ SubSeq(a \o b, 1, Len(a)) = a
           /\ SubSeq(a \o b, Len(a) + 1, Len(a \o b)) = b
           /\ \A i \in 1 .. Len(a) : (a \o b)[i] = a[i]
           /\ \A i \in 1 .. Len(b) : (a \o b)[Len(a) + i] = b[i]
<1>1. /\ a \o b \in Seq(X) /\ Len(a \o b) = Len(a) + Len(b)
      /\ \A i \in 1 .. Len(a) : (a \o b)[i] = a[i]
      /\ \A i \in 1 .. Len(b) : (a \o b)[Len(a) + i] = b[i]
  BY Cuts!ConcatIs
<1>2. SubSeq(a \o b, 1, Len(a)) = a
  OBVIOUS
<1>3. SubSeq(a \o b, Len(a) + 1, Len(a \o b)) = b
  OBVIOUS
<1> QED BY <1>1, <1>2, <1>3

\* The first character behind a text, in the text and in its bytes.
LEMMA CharBehind ==
    ASSUME NEW a \in Seq(Units), NEW ch \in Chars, NEW b \in Seq(Units)
    PROVE  LET bytes == a \o (ch \o b)
           IN  /\ bytes \in Seq(Units) /\ Len(a) + Len(ch) <= Len(bytes)
               /\ bytes[Len(a) + 1] = ch[1]
               /\ SubSeq(bytes, Len(a) + 1, Len(a) + Len(ch)) = ch
               /\ bytes = (a \o ch) \o b
               /\ Len(a \o ch) = Len(a) + Len(ch)
<1>0. PICK bytes : bytes = a \o (ch \o b)
  OBVIOUS
<1>1. ch \in Seq(Units) /\ Len(ch) \in 1 .. 3
  BY CharIs
<1>2. a \in Seq(Units) /\ ch \in Seq(Units) /\ b \in Seq(Units)
  BY <1>1
<1>3. (a \o ch) \o b = a \o (ch \o b)
  BY <1>2
<1>4. a \o ch \in Seq(Units) /\ Len(a \o ch) = Len(a) + Len(ch)
      /\ \A i \in 1 .. Len(ch) : (a \o ch)[Len(a) + i] = ch[i]
  BY <1>2, Parted
<1>5. /\ bytes \in Seq(Units) /\ Len(bytes) = Len(a) + Len(ch) + Len(b)
      /\ \A i \in 1 .. Len(a) + Len(ch) : bytes[i] = (a \o ch)[i]
  BY <1>0, <1>2, <1>3, <1>4, Parted
<1>6. Len(a) \in Nat /\ Len(b) \in Nat /\ Len(ch) \in Nat
  BY <1>1
<1>7. \A i \in 1 .. Len(ch) : bytes[Len(a) + i] = ch[i]
  <2> SUFFICES ASSUME NEW i \in 1 .. Len(ch) PROVE bytes[Len(a) + i] = ch[i]
    OBVIOUS
  <2>1. Len(a) + i \in 1 .. Len(a) + Len(ch)
    BY <1>6
  <2> QED BY <1>4, <1>5, <2>1
<1>8. bytes[Len(a) + 1] = ch[1]
  BY <1>1, <1>7
<1>9. SubSeq(bytes, Len(a) + 1, Len(a) + Len(ch)) = ch
  <2> DEFINE part == SubSeq(bytes, Len(a) + 1, Len(a) + Len(ch))
  <2>1. part \in Seq(Units) /\ Len(part) = Len(ch)
        /\ \A i \in 1 .. Len(ch) : part[i] = bytes[Len(a) + i]
    BY <1>5, <1>6
  <2> HIDE DEF part
  <2>2. part \in Seq(Units) /\ ch \in Seq(Units) /\ Len(part) = Len(ch)
        /\ \A i \in 1 .. Len(part) : part[i] = ch[i]
    BY <1>1, <1>7, <2>1
  <2>3. part = ch
    BY <2>2, Cuts!SameSequence
  <2> QED BY <2>3 DEF part
<1> QED BY <1>0, <1>3, <1>4, <1>5, <1>6, <1>8, <1>9

\* What CharsOf finds from each byte on.
EndOf(bytes, i) == i + Utf8CharLen(bytes[i])

FirstOf(bytes, i) ==
    SubSeq(bytes, i, IF EndOf(bytes, i) > Len(bytes) THEN Len(bytes) ELSE EndOf(bytes, i) - 1)

Reads(from, bytes) ==
    \A i \in 1 .. Len(bytes) + 3 :
        from[i] = IF i > Len(bytes) THEN <<>> ELSE <<FirstOf(bytes, i)>> \o from[EndOf(bytes, i)]

LEMMA CharsAreRead ==
    ASSUME NEW bytes \in Seq(Units)
    PROVE  \E from : Reads(from, bytes) /\ CharsOf(bytes) = from[1]
<1> DEFINE N == Len(bytes)
           D == 1 .. N + 3
           V == Seq(Seq(Units))
           End(i) == i + Utf8CharLen(bytes[i])
           First(i) == SubSeq(bytes, i, IF End(i) > Len(bytes) THEN Len(bytes) ELSE End(i) - 1)
           Value(i, f) == IF i > Len(bytes) THEN <<>> ELSE <<First(i)>> \o f[End(i)]
           measure == [i \in D |-> N + 3 - i]
           Step == [p \in D \X [D -> V] |-> Value(p[1], p[2])]
           Eq(f) == f = [i \in D |-> Value(i, f)]
           g == CHOOSE f : Eq(f)
<1>1. N \in Nat /\ DOMAIN bytes = 1 .. N /\ <<>> \in V
  OBVIOUS
<1>2. N + 3 \in Nat /\ measure \in [D -> 0 .. N + 3]
  BY <1>1
<1>3. CharsOf(bytes) = g[1]
  BY DEF CharsOf
<1>4. ASSUME NEW i \in D, ~ i > Len(bytes)
      PROVE  End(i) \in D /\ i < End(i) /\ First(i) \in Seq(Units)
  <2>1. Utf8CharLen(bytes[i]) \in {1, 2, 3} /\ i \in 1 .. N
    BY <1>1, <1>4 DEF Utf8CharLen
  <2>2. End(i) \in D /\ i < End(i)
    BY <1>1, <2>1
  <2>3. PICK j \in 1 .. N : First(i) = SubSeq(bytes, i, j)
    <3>1. N \in 1 .. N /\ (End(i) <= N => End(i) - 1 \in 1 .. N)
      BY <1>1, <2>1, <2>2
    <3> HIDE DEF End
    <3> QED BY <2>2, <3>1
  <2>4. SubSeq(bytes, i, j) \in Seq(Units)
    BY <1>1, <2>1
  <2> QED BY <2>2, <2>3, <2>4
<1>5. ASSUME NEW i \in D, NEW f \in [D -> V] PROVE Value(i, f) \in V
  <2> HIDE DEF D, V, End, First
  <2>1. CASE ~ i > Len(bytes)
    <3>1. f[End(i)] \in V /\ First(i) \in Seq(Units)
      BY <1>4, <2>1
    <3> QED BY <2>1, <3>1 DEF V
  <2> QED BY <1>1, <2>1
<1>6. /\ Step \in [D \X [D -> V] -> V]
      /\ \A i \in D : \A f \in [D -> V] : Step[<<i, f>>] = Value(i, f)
  <2> HIDE DEF Value, D, V
  <2> QED BY <1>5
<1>7. Cuts!LooksBelow(D, V, measure, Step)
  <2>1. ASSUME NEW i \in D, NEW f \in [D -> V], NEW h \in [D -> V],
               \A j \in D : measure[j] < measure[i] => f[j] = h[j]
        PROVE  Step[<<i, f>>] = Step[<<i, h>>]
    <3>1. ~ i > Len(bytes) => f[End(i)] = h[End(i)]
      <4>1. SUFFICES ASSUME ~ i > Len(bytes) PROVE f[End(i)] = h[End(i)]
        OBVIOUS
      <4>2. PICK j \in D : j = End(i) /\ i < j
        BY <1>4, <4>1
      <4>3. measure[j] < measure[i]
        BY <1>1, <4>2
      <4> HIDE DEF D, V, measure, Step, End
      <4> QED BY <2>1, <4>2, <4>3
    <3>2. Value(i, f) = Value(i, h)
      <4> HIDE DEF D, V, measure, Step, End, First
      <4> QED BY <3>1
    <3> HIDE DEF D, V, Value, measure, Step
    <3> QED BY <1>6, <3>2
  <2> HIDE DEF D, V, Value, measure, Step
  <2> QED BY <2>1 DEF Cuts!LooksBelow
<1>8. PICK f \in [D -> V] : Cuts!Solves(f, D, Step)
  <2> DEFINE M == N + 3
  <2>1. M \in Nat /\ measure \in [D -> 0 .. M]
    BY <1>2
  <2> HIDE DEF D, V, measure, Step, N, M
  <2> QED BY <1>1, <1>6, <1>7, <2>1, Cuts!Recursion
<1>9. Eq(g)
  <2>1. f = [i \in D |-> Value(i, f)]
    <3> HIDE DEF D, V, Value, Step
    <3> QED BY <1>6, <1>8 DEF Cuts!Solves
  <2>2. Eq(f)
    BY <2>1
  <2> HIDE DEF Eq
  <2> QED BY <2>2
<1> HIDE DEF g
<1>10. \A i \in D : g[i] = Value(i, g)
  <2> HIDE DEF Value, D
  <2> QED BY <1>9
<1>11. Reads(g, bytes)
  BY <1>10 DEF Reads, FirstOf, EndOf
<1> QED BY <1>3, <1>11

ReadsChar(from, a, ch) == from[Len(a) + 1] = <<ch>> \o from[Len(a \o ch) + 1]

LEMMA CharIsRead ==
    ASSUME NEW a \in Seq(Units), NEW ch \in Chars, NEW b \in Seq(Units), NEW from,
           Reads(from, a \o (ch \o b))
    PROVE  ReadsChar(from, a, ch)
<1>1. PICK bytes : bytes = a \o (ch \o b)
  OBVIOUS
<1>2. /\ bytes \in Seq(Units) /\ Len(a) + Len(ch) <= Len(bytes)
      /\ bytes[Len(a) + 1] = ch[1]
      /\ SubSeq(bytes, Len(a) + 1, Len(a) + Len(ch)) = ch
      /\ Len(a \o ch) = Len(a) + Len(ch)
  BY <1>1, CharBehind
<1>3. Len(ch) \in 1 .. 3 /\ Utf8CharLen(ch[1]) = Len(ch)
  BY CharIs
<1>4. PICK p, n, N : p = Len(a) /\ n = Len(ch) /\ N = Len(bytes)
  OBVIOUS
<1>5. p \in Nat /\ N \in Nat
  BY <1>2, <1>4
<1>6. n \in 1 .. 3 /\ p + n <= N
  BY <1>2, <1>3, <1>4
<1>7. EndOf(bytes, p + 1) = p + 1 + n
  BY <1>2, <1>3, <1>4 DEF EndOf
<1>8. p + 1 \in 1 .. N + 3 /\ ~ p + 1 > N
  BY <1>5, <1>6
<1>9. (IF p + 1 + n > N THEN N ELSE p + 1 + n - 1) = p + n
  BY <1>5, <1>6
<1>10. FirstOf(bytes, p + 1) = ch
  BY <1>2, <1>4, <1>7, <1>9 DEF FirstOf
<1>11. Reads(from, bytes)
  BY <1>1
<1>12. from[p + 1] = <<FirstOf(bytes, p + 1)>> \o from[EndOf(bytes, p + 1)]
  BY <1>4, <1>8, <1>11 DEF Reads
<1>13. p + 1 + n = Len(a \o ch) + 1
  BY <1>2, <1>4, <1>5, <1>6
<1> QED BY <1>4, <1>7, <1>10, <1>12, <1>13 DEF ReadsChar

\* A reader of the bytes finds the characters they spell.
LEMMA CharsOfSpelt ==
    ASSUME NEW cs \in Seq(Chars)
    PROVE  CharsOf(Spelt(cs)) = cs
<1>1. PICK bytes : bytes = Spelt(cs)
  OBVIOUS
<1>2. bytes \in Seq(Units)
  BY <1>1, SpeltIs
<1>3. PICK from : Reads(from, bytes) /\ CharsOf(bytes) = from[1]
  BY <1>2, CharsAreRead
<1> DEFINE Onward(L, R) == L \o R = cs => from[Len(Spelt(L)) + 1] = R
           T == {m \in 0 .. Len(cs) : \A L, R \in Seq(Chars) : Len(R) = m => Onward(L, R)}
<1>4. 0 \in T
  <2>1. ASSUME NEW L \in Seq(Chars), NEW R \in Seq(Chars), Len(R) = 0, L \o R = cs
        PROVE  from[Len(Spelt(L)) + 1] = R
    <3>1. R = <<>> /\ L = cs
      BY <2>1
    <3>2. Len(bytes) \in Nat
      BY <1>2
    <3>3. Len(bytes) + 1 \in 1 .. Len(bytes) + 3 /\ Len(bytes) + 1 > Len(bytes)
      BY <3>2
    <3>4. from[Len(bytes) + 1] = <<>>
      BY <1>3, <3>3 DEF Reads
    <3> QED BY <1>1, <3>1, <3>4
  <2> QED BY <2>1, SMTT(30)
<1>5. ASSUME NEW m \in 0 .. Len(cs) - 1, m \in T PROVE m + 1 \in T
  <2>1. ASSUME NEW L \in Seq(Chars), NEW R \in Seq(Chars), Len(R) = m + 1, L \o R = cs
        PROVE  from[Len(Spelt(L)) + 1] = R
    <3>1. R # <<>>
      BY <2>1
    <3>2. PICK ch \in Chars, rest \in Seq(Chars) :
              R = <<ch>> \o rest /\ Len(R) = Len(rest) + 1 /\ Spelt(R) = ch \o Spelt(rest)
      BY <3>1, FirstOfRow
    <3>3. PICK a \in Seq(Units), b \in Seq(Units) : a = Spelt(L) /\ b = Spelt(rest)
      BY SpeltIs
    <3>4. bytes = a \o (ch \o b)
      <4>1. bytes = Spelt(L \o R)
        BY <1>1, <2>1
      <4>2. Spelt(L \o R) = Spelt(L) \o Spelt(R)
        BY SpeltOfConcat
      <4> QED BY <3>2, <3>3, <4>1, <4>2
    <3>5. Append(L, ch) \in Seq(Chars) /\ Spelt(Append(L, ch)) = a \o ch
      BY <3>3, SpeltOfMore
    <3>6. Append(L, ch) \o rest = cs
      <4>1. L \in Seq(Chars) /\ <<ch>> \in Seq(Chars) /\ rest \in Seq(Chars)
        OBVIOUS
      <4>2. (L \o <<ch>>) \o rest = L \o (<<ch>> \o rest)
        BY <4>1, SMTT(30)
      <4>3. Append(L, ch) = L \o <<ch>>
        OBVIOUS
      <4> QED BY <2>1, <3>2, <4>2, <4>3
    <3>7. Len(rest) = m
      <4>1. Len(rest) \in Nat
        OBVIOUS
      <4> QED BY <2>1, <3>2, <4>1
    <3>8. from[Len(a \o ch) + 1] = rest
      BY <1>5, <3>5, <3>6, <3>7
    <3>9. from[Len(a) + 1] = <<ch>> \o from[Len(a \o ch) + 1]
      <4> HIDE DEF T, Onward
      <4>1. Reads(from, a \o (ch \o b))
        BY <1>3, <3>4
      <4>2. ReadsChar(from, a, ch)
        BY <4>1, CharIsRead
      <4> QED BY <4>2 DEF ReadsChar
    <3> QED BY <3>2, <3>3, <3>8, <3>9
  <2>2. m + 1 \in 0 .. Len(cs)
    OBVIOUS
  <2> QED BY <2>1, <2>2
<1>6. Len(cs) \in T
  <2>1. Len(cs) \in Nat
    OBVIOUS
  <2>2. 0 .. Len(cs) \subseteq T
    <3> HIDE DEF T
    <3> QED BY <1>4, <1>5, <2>1, Cuts!IntervalInduction
  <2> HIDE DEF T
  <2> QED BY <2>1, <2>2
<1>7. <<>> \in Seq(Chars) /\ <<>> \o cs = cs
  OBVIOUS
<1>8. from[Len(Spelt(<<>>)) + 1] = cs
  <2>1. Onward(<<>>, cs)
    <3> HIDE DEF Onward
    <3> QED BY <1>6, <1>7
  <2> QED BY <1>7, <2>1
<1>9. Len(Spelt(<<>>)) + 1 = 1
  BY SpeltOfNothing
<1> QED BY <1>1, <1>3, <1>8, <1>9

LEMMA Viewed ==
    ASSUME NEW L \in Seq(Chars), NEW R \in Seq(Chars), NEW buf, NEW pos, Spells(buf, pos, L, R)
    PROVE  /\ CharsOf(buf) = L \o R /\ CharsOf(SubSeq(buf, 1, pos)) = L
           /\ buf \in Seq(Units) /\ pos \in 0 .. Len(buf)
           /\ SubSeq(buf, 1, pos) = Spelt(L) /\ SubSeq(buf, pos + 1, Len(buf)) = Spelt(R)
           /\ pos > 0 <=> L # <<>>
           /\ pos < Len(buf) <=> R # <<>>
<1>1. PICK a \in Seq(Units), b \in Seq(Units) : a = Spelt(L) /\ b = Spelt(R)
  BY SpeltIs
<1>2. buf = a \o b /\ pos = Len(a)
  BY <1>1 DEF Spells
<1>3. /\ buf \in Seq(Units) /\ Len(buf) = Len(a) + Len(b)
      /\ SubSeq(buf, 1, pos) = a /\ SubSeq(buf, pos + 1, Len(buf)) = b
  BY <1>2, Parted
<1>4. L \o R \in Seq(Chars) /\ Spelt(L \o R) = a \o b
  BY <1>1, SpeltOfConcat
<1>5. CharsOf(buf) = L \o R /\ CharsOf(SubSeq(buf, 1, pos)) = L
  BY <1>1, <1>2, <1>3, <1>4, CharsOfSpelt
<1>6. Len(a) \in Nat /\ Len(b) \in Nat
  OBVIOUS
<1>7. ASSUME NEW cs \in Seq(Chars) PROVE Len(Spelt(cs)) > 0 <=> cs # <<>>
  <2>1. CASE cs = <<>>
    BY <2>1, SpeltOfNothing
  <2>2. CASE cs # <<>>
    <3>1. PICK front \in Seq(Chars), ch \in Chars : Len(Spelt(cs)) = Len(Spelt(front)) + Len(ch)
      BY <2>2, LastOfRow
    <3>2. Len(ch) \in 1 .. 3
      BY CharIs
    <3>3. Len(Spelt(front)) \in Nat
      BY SpeltIs
    <3>4. PICK m, n : m = Len(Spelt(front)) /\ n = Len(ch)
      OBVIOUS
    <3>5. m \in Nat /\ n \in 1 .. 3 /\ Len(Spelt(cs)) = m + n
      BY <3>1, <3>2, <3>3, <3>4
    <3>6. m + n > 0
      BY <3>5
    <3>7. Len(Spelt(cs)) > 0
      BY <3>5, <3>6
    <3> QED BY <2>2, <3>7
  <2> QED BY <2>1, <2>2
<1>8. (Len(a) > 0 <=> L # <<>>) /\ (Len(b) > 0 <=> R # <<>>)
  BY <1>1, <1>7
<1>9. /\ pos \in 0 .. Len(buf)
      /\ pos > 0 <=> L # <<>>
      /\ pos < Len(buf) <=> R # <<>>
  BY <1>2, <1>3, <1>6, <1>8
<1> QED BY <1>1, <1>3, <1>5, <1>9

LEMMA SpellsAll ==
    ASSUME NEW L \in Seq(Chars), NEW R \in Seq(Chars), NEW buf, NEW pos, Spells(buf, pos, L, R)
    PROVE  /\ L \o R \in Seq(Chars) /\ buf = Spelt(L \o R)
           /\ Spells(buf, 0, <<>>, L \o R) /\ Spells(buf, Len(buf), L \o R, <<>>)
<1>1. L \o R \in Seq(Chars) /\ buf = Spelt(L \o R)
  BY SpeltOfConcat DEF Spells
<1>2. buf \in Seq(Units)
  BY Viewed
<1>3. buf \o <<>> = buf /\ <<>> \o buf = buf /\ Len(<<>>) = 0
  BY <1>2
<1> QED BY <1>1, <1>3, SpeltOfNothing DEF Spells

\* The character before the cursor (Utf8CharLen of the byte it begins with, and
\* continuation bytes behind that).
LEMMA OneBack ==
    ASSUME NEW L \in Seq(Chars), NEW ch \in Chars, NEW R \in Seq(Chars), NEW buf, NEW pos,
           Spells(buf, pos, Append(L, ch), R)
    PROVE  /\ StepBack(buf, pos) = Len(Spelt(L))
           /\ Spells(buf, StepBack(buf, pos), L, <<ch>> \o R)
           /\ Spells(Splice(buf, StepBack(buf, pos), pos, <<>>), StepBack(buf, pos), L, R)
<1>1. PICK a \in Seq(Units), b \in Seq(Units) : a = Spelt(L) /\ b = Spelt(R)
  BY SpeltIs
<1>2. Append(L, ch) \in Seq(Chars) /\ Spelt(Append(L, ch)) = a \o ch
  BY <1>1, SpeltOfMore
<1>3. buf = (a \o ch) \o b /\ pos = Len(a \o ch)
  BY <1>1, <1>2 DEF Spells
<1>4. buf = a \o (ch \o b) /\ Len(a \o ch) = Len(a) + Len(ch)
  BY <1>3, CharBehind
<1>5. ch \in Seq(Units) /\ Len(ch) \in 1 .. 3 /\ ch[1] # "c" /\ \A i \in 2 .. Len(ch) : ch[i] = "c"
  BY CharIs
<1>6. PICK p, n : p = Len(a) /\ n = Len(ch)
  OBVIOUS
<1>7. p \in Nat /\ n \in 1 .. 3 /\ pos = p + n
  BY <1>3, <1>4, <1>5, <1>6
<1>8. \A i \in 1 .. n : buf[p + i] = ch[i]
  <2>1. PICK d : d = ch \o b
    OBVIOUS
  <2>2. d \in Seq(Units) /\ Len(d) = Len(ch) + Len(b) /\ \A i \in 1 .. Len(ch) : d[i] = ch[i]
    BY <1>5, <2>1, Parted
  <2>3. buf = a \o d
    BY <1>4, <2>1
  <2>4. \A i \in 1 .. Len(d) : (a \o d)[Len(a) + i] = d[i]
    BY <2>2, Parted
  <2>5. Len(b) \in Nat
    OBVIOUS
  <2> SUFFICES ASSUME NEW i \in 1 .. n PROVE buf[p + i] = ch[i]
    OBVIOUS
  <2>6. i \in 1 .. Len(d)
    BY <1>6, <1>7, <2>2, <2>5
  <2> QED BY <1>6, <2>2, <2>3, <2>4, <2>6
<1> DEFINE S == {0} \cup {i \in 1 .. pos - 1 : buf[i + 1] # "c"}
<1>9. p \in S
  <2>1. CASE p = 0
    BY <2>1
  <2>2. CASE p # 0
    <3>1. p \in 1 .. pos - 1
      BY <1>7, <2>2
    <3>2. buf[p + 1] = ch[1]
      BY <1>7, <1>8
    <3> QED BY <1>5, <3>1, <3>2
  <2> QED BY <2>1, <2>2
<1>10. ASSUME NEW i \in S PROVE i <= p
  <2>1. SUFFICES ASSUME ~ i <= p PROVE FALSE
    OBVIOUS
  <2>2. i \in 1 .. pos - 1 /\ buf[i + 1] # "c"
    BY <1>7, <1>10, <2>1
  <2>3. PICK j \in 2 .. n : i + 1 = p + j
    <3>1. i + 1 - p \in 2 .. n /\ i + 1 = p + (i + 1 - p)
      BY <1>7, <2>1, <2>2
    <3> QED BY <3>1
  <2>4. j \in 1 .. n
    BY <1>7
  <2> QED BY <1>5, <1>6, <1>8, <2>2, <2>3, <2>4
<1>11. StepBack(buf, pos) = p
  <2>1. \A i \in S : i \in Int
    BY <1>7
  <2>2. Max(S) = p
    <3> DEFINE Greatest(x) == x \in S /\ \A y \in S : x >= y
    <3>1. Max(S) = CHOOSE x : Greatest(x)
      BY DEF Max
    <3>2. Greatest(p)
      <4> HIDE DEF S
      <4> QED BY <1>7, <1>9, <1>10, <2>1
    <3>3. \A x : Greatest(x) => x = p
      <4> HIDE DEF S
      <4> QED BY <1>7, <1>9, <1>10, <2>1
    <3> HIDE DEF Greatest, S
    <3> QED BY <3>1, <3>2, <3>3
  <2> QED BY <2>2 DEF StepBack
<1>12. Spells(buf, p, L, <<ch>> \o R)
  <2>1. <<ch>> \in Seq(Chars) /\ <<ch>> # <<>>
    OBVIOUS
  <2>2. Spelt(<<ch>>) = ch
    BY SpeltOfOne
  <2>3. Spelt(<<ch>> \o R) = ch \o b
    BY <1>1, <2>1, <2>2, SpeltOfConcat
  <2> QED BY <1>1, <1>4, <1>6, <2>3 DEF Spells
<1>13. Splice(buf, p, pos, <<>>) = a \o b
  <2>1. SubSeq(buf, 1, p) = a
    <3>1. ch \o b \in Seq(Units)
      BY <1>5, Parted
    <3> QED BY <1>4, <1>6, <3>1, Parted
  <2>2. SubSeq(buf, pos + 1, Len(buf)) = b
    <3>1. a \o ch \in Seq(Units)
      BY <1>5, Parted
    <3> QED BY <1>3, <3>1, Parted
  <2>3. a \o <<>> = a
    OBVIOUS
  <2> QED BY <2>1, <2>2, <2>3 DEF Splice
<1> QED BY <1>1, <1>6, <1>11, <1>12, <1>13 DEF Spells

\* The character behind the cursor.
LEMMA OneOn ==
    ASSUME NEW L \in Seq(Chars), NEW ch \in Chars, NEW R \in Seq(Chars), NEW buf, NEW pos,
           Spells(buf, pos, L, <<ch>> \o R)
    PROVE  /\ Spells(buf, StepOn(buf, pos), Append(L, ch), R)
           /\ Spells(Splice(buf, pos, StepOn(buf, pos), <<>>), pos, L, R)
<1>1. PICK a \in Seq(Units), b \in Seq(Units) : a = Spelt(L) /\ b = Spelt(R)
  BY SpeltIs
<1>2. <<ch>> \in Seq(Chars) /\ Spelt(<<ch>> \o R) = ch \o b
  <2>1. <<ch>> \in Seq(Chars)
    OBVIOUS
  <2>2. Spelt(<<ch>>) = ch
    BY SpeltOfOne
  <2>3. Spelt(<<ch>> \o R) = Spelt(<<ch>>) \o Spelt(R)
    BY <2>1, SpeltOfConcat
  <2> QED BY <1>1, <2>1, <2>2, <2>3
<1>3. buf = a \o (ch \o b) /\ pos = Len(a)
  BY <1>1, <1>2 DEF Spells
<1>4. /\ buf[pos + 1] = ch[1] /\ buf = (a \o ch) \o b
      /\ Len(a \o ch) = pos + Len(ch)
  BY <1>3, CharBehind
<1>5. StepOn(buf, pos) = Len(a \o ch)
  BY <1>4, CharIs DEF StepOn
<1>6. Spelt(Append(L, ch)) = a \o ch
  BY <1>1, SpeltOfMore
<1>7. ch \in Seq(Units)
  BY CharIs
<1>8. SubSeq(buf, 1, pos) = a
  <2>1. ch \o b \in Seq(Units)
    BY <1>7, Parted
  <2> QED BY <1>3, <2>1, Parted
<1>9. SubSeq(buf, Len(a \o ch) + 1, Len(buf)) = b
  <2>1. a \o ch \in Seq(Units)
    BY <1>7, Parted
  <2> QED BY <1>4, <2>1, Parted
<1>10. Splice(buf, pos, StepOn(buf, pos), <<>>) = a \o b
  <2>1. a \o <<>> = a
    OBVIOUS
  <2> QED BY <1>5, <1>8, <1>9, <2>1 DEF Splice
<1> QED BY <1>1, <1>3, <1>4, <1>5, <1>6, <1>10 DEF Spells

\* A character put in at the cursor.
LEMMA OneMore ==
    ASSUME NEW L \in Seq(Chars), NEW ch \in Chars, NEW R \in Seq(Chars), NEW buf, NEW pos,
           Spells(buf, pos, L, R)
    PROVE  Spells(Splice(buf, pos, pos, ch), pos + Len(ch), Append(L, ch), R)
<1>1. PICK a \in Seq(Units), b \in Seq(Units) : a = Spelt(L) /\ b = Spelt(R)
  BY SpeltIs
<1>2. SubSeq(buf, 1, pos) = a /\ SubSeq(buf, pos + 1, Len(buf)) = b
  BY <1>1, Viewed
<1>3. Spelt(Append(L, ch)) = a \o ch
  BY <1>1, SpeltOfMore
<1>4. Len(a \o ch) = Len(a) + Len(ch)
  BY CharBehind
<1>5. Splice(buf, pos, pos, ch) = (a \o ch) \o b
  BY <1>2 DEF Splice
<1> QED BY <1>1, <1>3, <1>4, <1>5 DEF Spells

-----------------------------------------------------------------------------
\* The line as the user takes it: what is before the cursor, and behind it.
Sees(buf, pos, L, R) ==
    /\ CharsOf(buf) = L \o R /\ CharsOf(SubSeq(buf, 1, pos)) = L
    /\ SubSeq(L \o R, 1, Len(L)) = L
    /\ SubSeq(L \o R, Len(L) + 1, Len(L \o R)) = R
    /\ Len(L) \in Nat /\ Len(L \o R) = Len(L) + Len(R)

LEMMA SeesWhatIsSpelt ==
    ASSUME NEW L \in Seq(Chars), NEW R \in Seq(Chars), NEW buf, NEW pos, Spells(buf, pos, L, R)
    PROVE  Sees(buf, pos, L, R)
<1>1. CharsOf(buf) = L \o R /\ CharsOf(SubSeq(buf, 1, pos)) = L
  BY Viewed
<1>2. /\ SubSeq(L \o R, 1, Len(L)) = L /\ Len(L \o R) = Len(L) + Len(R)
      /\ SubSeq(L \o R, Len(L) + 1, Len(L \o R)) = R
  BY Parted
<1>3. Len(L) \in Nat
  OBVIOUS
<1> QED BY <1>1, <1>2, <1>3 DEF Sees

LEMMA InsertsOne ==
    ASSUME NEW L \in Seq(Chars), NEW ch \in Chars, NEW R \in Seq(Chars),
           Spells(inputBuf, cursorByte, L, R),
           Spells(inputBuf', cursorByte', Append(L, ch), R),
           UNCHANGED history_
    PROVE  Whole!Insert
<1>1. Append(L, ch) \in Seq(Chars) /\ Len(Append(L, ch)) = Len(L) + 1
      /\ Append(L, ch) = L \o <<ch>>
  OBVIOUS
<1>2. Sees(inputBuf, cursorByte, L, R) /\ Sees(inputBuf', cursorByte', Append(L, ch), R)
  BY <1>1, SeesWhatIsSpelt
<1>3. Whole!Left = L /\ Whole!Right = R
  BY <1>2 DEF Sees, Whole!Left, Whole!Right
<1>4. CharsOf(inputBuf)' = L \o <<ch>> \o R
  BY <1>1, <1>2 DEF Sees
<1>5. Len(CharsOf(SubSeq(inputBuf, 1, cursorByte)))' = Len(CharsOf(SubSeq(inputBuf, 1, cursorByte))) + 1
  BY <1>1, <1>2 DEF Sees
<1>6. UNCHANGED [i \in DOMAIN history_ |-> CharsOf(history_[i])]
  OBVIOUS
<1> QED BY <1>3, <1>4, <1>5, <1>6 DEF Whole!Insert, Chars

LEMMA ErasesBefore ==
    ASSUME NEW L \in Seq(Chars), NEW ch \in Chars, NEW R \in Seq(Chars),
           Spells(inputBuf, cursorByte, Append(L, ch), R),
           Spells(inputBuf', cursorByte', L, R),
           UNCHANGED history_
    PROVE  Whole!DeleteBefore
<1>1. Append(L, ch) \in Seq(Chars) /\ Len(Append(L, ch)) = Len(L) + 1 /\ Len(L) \in Nat
      /\ Append(L, ch) = L \o <<ch>> /\ <<ch>> \in Seq(Chars)
  OBVIOUS
<1>2. Sees(inputBuf, cursorByte, Append(L, ch), R) /\ Sees(inputBuf', cursorByte', L, R)
  BY <1>1, SeesWhatIsSpelt
<1>3. Whole!Right = R
  BY <1>2 DEF Sees, Whole!Right
<1>4. SubSeq(Append(L, ch) \o R, 1, Len(L)) = L
  <2>1. L \in Seq(Chars) /\ <<ch>> \in Seq(Chars) /\ R \in Seq(Chars)
    BY <1>1
  <2>2. (L \o <<ch>>) \o R = L \o (<<ch>> \o R) /\ <<ch>> \o R \in Seq(Chars)
    BY <2>1
  <2>3. SubSeq(L \o (<<ch>> \o R), 1, Len(L)) = L
    BY <2>2, Parted
  <2> QED BY <1>1, <2>2, <2>3
<1>5. CharsOf(inputBuf)' = SubSeq(CharsOf(inputBuf), 1, Len(CharsOf(SubSeq(inputBuf, 1, cursorByte))) - 1) \o R
  <2>1. Len(Append(L, ch)) - 1 = Len(L)
    BY <1>1
  <2> QED BY <1>2, <1>4, <2>1 DEF Sees
<1>6. Len(CharsOf(SubSeq(inputBuf, 1, cursorByte)))' = Len(CharsOf(SubSeq(inputBuf, 1, cursorByte))) - 1
      /\ Len(CharsOf(SubSeq(inputBuf, 1, cursorByte))) > 0
  BY <1>1, <1>2 DEF Sees
<1>7. UNCHANGED [i \in DOMAIN history_ |-> CharsOf(history_[i])]
  OBVIOUS
<1> QED BY <1>3, <1>5, <1>6, <1>7 DEF Whole!DeleteBefore

LEMMA ErasesBehind ==
    ASSUME NEW L \in Seq(Chars), NEW ch \in Chars, NEW R \in Seq(Chars),
           Spells(inputBuf, cursorByte, L, <<ch>> \o R),
           Spells(inputBuf', cursorByte', L, R),
           UNCHANGED history_
    PROVE  Whole!DeleteBehind
<1>1. <<ch>> \o R \in Seq(Chars) /\ <<ch>> \o R # <<>> /\ Tail(<<ch>> \o R) = R
  OBVIOUS
<1>2. Sees(inputBuf, cursorByte, L, <<ch>> \o R) /\ Sees(inputBuf', cursorByte', L, R)
  BY <1>1, SeesWhatIsSpelt
<1>3. Whole!Left = L /\ Whole!Right = <<ch>> \o R
  BY <1>2 DEF Sees, Whole!Left, Whole!Right
<1>4. CharsOf(inputBuf)' = L \o R
      /\ Len(CharsOf(SubSeq(inputBuf, 1, cursorByte)))' = Len(CharsOf(SubSeq(inputBuf, 1, cursorByte)))
  BY <1>2 DEF Sees
<1>5. UNCHANGED [i \in DOMAIN history_ |-> CharsOf(history_[i])]
  OBVIOUS
<1> QED BY <1>1, <1>3, <1>4, <1>5 DEF Whole!DeleteBehind

\* From between L and R to between M and N of the same characters.
LEMMA MovesTo ==
    ASSUME NEW L \in Seq(Chars), NEW R \in Seq(Chars), NEW M \in Seq(Chars), NEW N \in Seq(Chars),
           Spells(inputBuf, cursorByte, L, R),
           Spells(inputBuf', cursorByte', M, N),
           UNCHANGED <<inputBuf, history_>>,
           Len(M) \in {Len(L) - 1, Len(L) + 1, 0, Len(M \o N)}
    PROVE  Whole!Move
<1>1. Sees(inputBuf, cursorByte, L, R) /\ Sees(inputBuf', cursorByte', M, N)
  BY SeesWhatIsSpelt
<1>2. CharsOf(inputBuf) = M \o N /\ CharsOf(inputBuf)' = CharsOf(inputBuf)
  BY <1>1 DEF Sees
<1>3. Len(CharsOf(SubSeq(inputBuf, 1, cursorByte)))' = Len(M)
      /\ Len(CharsOf(SubSeq(inputBuf, 1, cursorByte))) = Len(L)
  BY <1>1 DEF Sees
<1>4. Len(M) \in 0 .. Len(M \o N)
  <2>1. Len(M) \in Nat /\ Len(N) \in Nat
    OBVIOUS
  <2>2. Len(M \o N) = Len(M) + Len(N)
    BY <1>1 DEF Sees
  <2> QED BY <2>1, <2>2
<1>5. UNCHANGED [i \in DOMAIN history_ |-> CharsOf(history_[i])]
  OBVIOUS
<1> QED BY <1>2, <1>3, <1>4, <1>5 DEF Whole!Move

\* A whole row, with the cursor behind it.
LEMMA RowIsSpelt ==
    ASSUME NEW cs \in Seq(Chars)
    PROVE  Spells(Spelt(cs), Len(Spelt(cs)), cs, <<>>) /\ Spells(<<>>, 0, <<>>, <<>>)
<1>1. Spelt(cs) \o <<>> = Spelt(cs)
  BY SpeltIs
<1>2. <<>> \o <<>> = <<>> /\ Len(<<>>) = 0
  OBVIOUS
<1> QED BY <1>1, <1>2, SpeltOfNothing DEF Spells

Lines == {Spelt(cs) : cs \in Seq(Chars)}

LEMMA RecallsOne ==
    ASSUME NEW cs \in Seq(Chars), inputBuf' = Spelt(cs), cursorByte' = Len(inputBuf'),
           history_ \in Seq(Lines),
           cs = <<>> \/ \E i \in 1 .. Len(history_) : inputBuf' = history_[i],
           UNCHANGED history_
    PROVE  Whole!Recall
<1>1. Spells(inputBuf', cursorByte', cs, <<>>)
  BY RowIsSpelt
<1>3. cs \o <<>> = cs /\ <<>> \in Seq(Chars)
  OBVIOUS
<1>2. Sees(inputBuf', cursorByte', cs, <<>>)
  BY <1>1, <1>3, SeesWhatIsSpelt
<1>4. CharsOf(inputBuf)' = cs /\ Len(CharsOf(SubSeq(inputBuf, 1, cursorByte)))' = Len(cs)
  BY <1>2, <1>3 DEF Sees
<1>5. DOMAIN history_ = 1 .. Len(history_)
  OBVIOUS
<1> DEFINE entered == [i \in DOMAIN history_ |-> CharsOf(history_[i])]
<1>6. cs = <<>> \/ \E i \in DOMAIN entered : cs = entered[i]
  <2>1. SUFFICES ASSUME NEW i \in 1 .. Len(history_), inputBuf' = history_[i]
                 PROVE  i \in DOMAIN entered /\ cs = entered[i]
    BY <1>5
  <2>2. i \in DOMAIN history_ /\ entered[i] = CharsOf(history_[i])
    BY <1>5
  <2>3. CharsOf(inputBuf') = cs
    BY <1>4
  <2> QED BY <2>1, <2>2, <2>3
<1>7. UNCHANGED entered
  OBVIOUS
<1> QED BY <1>4, <1>6, <1>7 DEF Whole!Recall

\* The lines entered, as the user takes them.
Taken(h) == [i \in DOMAIN h |-> CharsOf(h[i])]

LEMMA TakenIs ==
    ASSUME NEW h \in Seq(Lines)
    PROVE  Taken(h) \in Seq(Seq(Chars)) /\ Len(Taken(h)) = Len(h)
           /\ \A i \in 1 .. Len(h) : Taken(h)[i] = CharsOf(h[i])
<1>1. DOMAIN h = 1 .. Len(h) /\ Len(h) \in Nat
  OBVIOUS
<1>2. ASSUME NEW i \in 1 .. Len(h) PROVE CharsOf(h[i]) \in Seq(Chars)
  <2>1. h[i] \in Lines
    OBVIOUS
  <2>2. PICK cs \in Seq(Chars) : h[i] = Spelt(cs)
    BY <2>1 DEF Lines
  <2> QED BY <2>2, CharsOfSpelt
<1>3. Taken(h) = [i \in 1 .. Len(h) |-> CharsOf(h[i])]
  BY <1>1 DEF Taken
<1>4. Taken(h) \in Seq(Seq(Chars)) /\ Len(Taken(h)) = Len(h)
  BY <1>1, <1>2, <1>3
<1> QED BY <1>3, <1>4

LEMMA TakenOfMore ==
    ASSUME NEW h \in Seq(Lines), NEW l \in Lines
    PROVE  /\ Append(h, l) \in Seq(Lines) /\ Tail(Append(h, l)) \in Seq(Lines)
           /\ Taken(Append(h, l)) = Append(Taken(h), CharsOf(l))
           /\ Taken(Tail(Append(h, l))) = Tail(Append(Taken(h), CharsOf(l)))
<1>1. PICK all : all = Append(h, l)
  OBVIOUS
<1>2. /\ all \in Seq(Lines) /\ Len(all) = Len(h) + 1 /\ Len(h) \in Nat
      /\ \A i \in 1 .. Len(h) : all[i] = h[i]
      /\ all[Len(h) + 1] = l
  BY <1>1
<1>3. PICK c : c = CharsOf(l)
  OBVIOUS
<1>4. c \in Seq(Chars)
  <2>1. PICK cs \in Seq(Chars) : l = Spelt(cs)
    BY DEF Lines
  <2> QED BY <1>3, <2>1, CharsOfSpelt
<1>5. PICK t, u : t = Taken(h) /\ u = Taken(all)
  OBVIOUS
<1>6. /\ t \in Seq(Seq(Chars)) /\ Len(t) = Len(h)
      /\ \A i \in 1 .. Len(h) : t[i] = CharsOf(h[i])
  BY <1>5, TakenIs
<1>7. /\ u \in Seq(Seq(Chars)) /\ Len(u) = Len(all)
      /\ \A i \in 1 .. Len(all) : u[i] = CharsOf(all[i])
  BY <1>2, <1>5, TakenIs
<1>8. PICK v : v = Append(t, c)
  OBVIOUS
<1>9. /\ v \in Seq(Seq(Chars)) /\ Len(v) = Len(h) + 1
      /\ \A i \in 1 .. Len(h) : v[i] = t[i]
      /\ v[Len(h) + 1] = c
  <2>1. v \in Seq(Seq(Chars)) /\ Len(v) = Len(t) + 1 /\ v[Len(t) + 1] = c
    BY <1>4, <1>6, <1>8
  <2>2. \A i \in 1 .. Len(t) : v[i] = t[i]
    BY <1>4, <1>6, <1>8
  <2> QED BY <1>6, <2>1, <2>2
<1>10. u = v
  <2>1. ASSUME NEW i \in 1 .. Len(u) PROVE u[i] = v[i]
    <3>1. i \in 1 .. Len(all) /\ u[i] = CharsOf(all[i])
      BY <1>7
    <3>2. CASE i = Len(h) + 1
      <4>1. all[Len(h) + 1] = l /\ v[Len(h) + 1] = c
        BY <1>2, <1>9
      <4>2. all[i] = all[Len(h) + 1] /\ v[i] = v[Len(h) + 1]
        BY <3>2
      <4> QED BY <1>3, <3>1, <4>1, <4>2
    <3>3. CASE i # Len(h) + 1
      <4>1. i \in 1 .. Len(h)
        BY <1>2, <3>1, <3>3
      <4> QED BY <1>2, <1>6, <1>9, <3>1, <4>1
    <3> QED BY <3>2, <3>3
  <2>2. Len(u) = Len(v)
    BY <1>2, <1>7, <1>9
  <2> QED BY <1>7, <1>9, <2>1, <2>2, Cuts!SameSequence
<1>11. PICK rest : rest = Tail(all)
  OBVIOUS
<1>12. rest \in Seq(Lines) /\ Len(rest) = Len(h) /\ \A i \in 1 .. Len(h) : rest[i] = all[i + 1]
  BY <1>2, <1>11
<1>13. PICK w, x : w = Taken(rest) /\ x = Tail(u)
  OBVIOUS
<1>14. /\ w \in Seq(Seq(Chars)) /\ Len(w) = Len(h)
       /\ \A i \in 1 .. Len(h) : w[i] = CharsOf(rest[i])
  BY <1>12, <1>13, TakenIs
<1>15. /\ x \in Seq(Seq(Chars)) /\ Len(x) = Len(h)
       /\ \A i \in 1 .. Len(h) : x[i] = u[i + 1]
  BY <1>2, <1>7, <1>13
<1>16. w = x
  <2>1. ASSUME NEW i \in 1 .. Len(w) PROVE w[i] = x[i]
    <3>1. i \in 1 .. Len(h) /\ i + 1 \in 1 .. Len(all)
      BY <1>2, <1>14
    <3> QED BY <1>7, <1>12, <1>14, <1>15, <3>1
  <2>2. Len(w) = Len(x)
    BY <1>14, <1>15
  <2> QED BY <1>14, <1>15, <2>1, <2>2, Cuts!SameSequence
<1> QED BY <1>1, <1>2, <1>3, <1>5, <1>8, <1>10, <1>11, <1>12, <1>13, <1>16

LEMMA EntersOne ==
    ASSUME NEW L \in Seq(Chars), NEW R \in Seq(Chars),
           Spells(inputBuf, cursorByte, L, R), inputBuf # <<>>,
           history_ \in Seq(Lines),
           history_' \in {Append(history_, inputBuf), Tail(Append(history_, inputBuf))},
           inputBuf' = <<>>, cursorByte' = 0
    PROVE  Whole!Enter /\ history_' \in Seq(Lines)
<1>1. L \o R \in Seq(Chars) /\ inputBuf = Spelt(L \o R)
  BY SpellsAll
<1>2. inputBuf \in Lines
  BY <1>1 DEF Lines
<1>3. CharsOf(inputBuf) = L \o R /\ L \o R # <<>>
  <2>1. CharsOf(inputBuf) = L \o R
    BY <1>1, CharsOfSpelt
  <2>2. L \o R # <<>>
    BY <1>1, SpeltOfNothing
  <2> QED BY <2>1, <2>2
<1>4. PICK all : all = Append(history_, inputBuf)
  OBVIOUS
<1>5. /\ all \in Seq(Lines) /\ Tail(all) \in Seq(Lines)
      /\ Taken(all) = Append(Taken(history_), CharsOf(inputBuf))
      /\ Taken(Tail(all)) = Tail(Append(Taken(history_), CharsOf(inputBuf)))
  BY <1>2, <1>4, TakenOfMore
<1>6. Taken(history_') \in {Append(Taken(history_), CharsOf(inputBuf)),
                            Tail(Append(Taken(history_), CharsOf(inputBuf)))}
      /\ history_' \in Seq(Lines)
  BY <1>4, <1>5
<1>7. Spells(inputBuf', cursorByte', <<>>, <<>>)
  BY RowIsSpelt
<1>8. CharsOf(inputBuf)' = <<>> /\ Len(CharsOf(SubSeq(inputBuf, 1, cursorByte)))' = 0
  <2>1. <<>> \in Seq(Chars) /\ <<>> \o <<>> = <<>> /\ Len(<<>>) = 0
    OBVIOUS
  <2>2. Sees(inputBuf', cursorByte', <<>>, <<>>)
    BY <1>7, <2>1, SeesWhatIsSpelt
  <2> QED BY <2>1, <2>2 DEF Sees
<1> QED BY <1>3, <1>6, <1>8 DEF Whole!Enter, Taken

-----------------------------------------------------------------------------
\* One key, from what the line spells.
Stays == UNCHANGED history_ /\ UNCHANGED historyIdx /\ UNCHANGED seq

Edits == [Whole!EditorNext]_Whole!lineVars

LEMMA BytesOfOne ==
    ASSUME NEW L \in Seq(Chars), NEW ch \in Chars, NEW R \in Seq(Chars),
           Spells(inputBuf, cursorByte, L, R), InsertBytes(ch), UNCHANGED history_
    PROVE  Whole!Insert /\ \E M, N \in Seq(Chars) : Spells(inputBuf', cursorByte', M, N)
<1>1. Spells(inputBuf', cursorByte', Append(L, ch), R)
  BY OneMore DEF InsertBytes
<1>2. Append(L, ch) \in Seq(Chars)
  OBVIOUS
<1>3. Whole!Insert
  BY <1>1, InsertsOne
<1> QED BY <1>1, <1>2, <1>3

LEMMA Unseen ==
    ASSUME UNCHANGED <<inputBuf, cursorByte, history_>>
    PROVE  UNCHANGED Whole!lineVars
BY DEF Whole!lineVars

LEMMA OneLonger ==
    ASSUME NEW X, NEW s \in Seq(X), NEW e \in X
    PROVE  /\ Append(s, e) \in Seq(X) /\ Len(Append(s, e)) = Len(s) + 1
           /\ \A i \in 1 .. Len(s) : Append(s, e)[i] = s[i]
           /\ Append(s, e)[Len(s) + 1] = e
OBVIOUS

LEMMA Continued ==
    /\ Append(<<"l2">>, "c") = <<"l2", "c">> /\ Len(<<"l2">>) = 1
    /\ Append(<<"l3">>, "c") = <<"l3", "c">> /\ Len(<<"l3">>) = 1
    /\ Append(<<"l3", "c">>, "c") = <<"l3", "c", "c">> /\ Len(<<"l3", "c">>) = 2
<1>1. ASSUME NEW a \in Units, NEW b \in Units
      PROVE  /\ Append(<<a>>, "c") = <<a, "c">> /\ Len(<<a>>) = 1
             /\ Append(<<a, b>>, "c") = <<a, b, "c">> /\ Len(<<a, b>>) = 2
  <2>1. PICK s, t, u, v : s = <<a>> /\ t = <<a, "c">> /\ u = <<a, b>> /\ v = <<a, b, "c">>
    OBVIOUS
  <2>2. PICK c \in Units : c = "c"
    BY DEF Units
  <2>3. /\ s \in Seq(Units) /\ Len(s) = 1 /\ s[1] = a
        /\ u \in Seq(Units) /\ Len(u) = 2 /\ u[1] = a /\ u[2] = b
    BY <2>1
  <2>4. t \in Seq(Units) /\ Len(t) = 2 /\ t[1] = a /\ t[2] = c
    BY <2>1, <2>2
  <2>5. v \in Seq(Units) /\ Len(v) = 3 /\ v[1] = a /\ v[2] = b /\ v[3] = c
    BY <2>1, <2>2
  <2>6. PICK x, y : x = Append(s, c) /\ y = Append(u, c)
    OBVIOUS
  <2>7. x \in Seq(Units) /\ Len(x) = 2 /\ x[1] = a /\ x[2] = c
    <3>1. /\ x \in Seq(Units) /\ Len(x) = Len(s) + 1
          /\ \A i \in 1 .. Len(s) : x[i] = s[i]
          /\ x[Len(s) + 1] = c
      <4>1. s \in Seq(Units)
        BY <2>3
      <4>2. /\ Append(s, c) \in Seq(Units) /\ Len(Append(s, c)) = Len(s) + 1
            /\ \A i \in 1 .. Len(s) : Append(s, c)[i] = s[i]
            /\ Append(s, c)[Len(s) + 1] = c
        BY <4>1, OneLonger
      <4> QED BY <2>6, <4>2
    <3> QED BY <2>3, <3>1
  <2>8. y \in Seq(Units) /\ Len(y) = 3 /\ y[1] = a /\ y[2] = b /\ y[3] = c
    <3>1. /\ y \in Seq(Units) /\ Len(y) = Len(u) + 1
          /\ \A i \in 1 .. Len(u) : y[i] = u[i]
          /\ y[Len(u) + 1] = c
      <4>1. u \in Seq(Units)
        BY <2>3
      <4>2. /\ Append(u, c) \in Seq(Units) /\ Len(Append(u, c)) = Len(u) + 1
            /\ \A i \in 1 .. Len(u) : Append(u, c)[i] = u[i]
            /\ Append(u, c)[Len(u) + 1] = c
        BY <4>1, OneLonger
      <4> QED BY <2>6, <4>2
    <3> QED BY <2>3, <3>1
  <2>9. x = t
    <3>1. Len(x) = Len(t) /\ \A i \in 1 .. Len(x) : x[i] = t[i]
      BY <2>4, <2>7
    <3> QED BY <2>4, <2>7, <3>1, Cuts!SameSequence
  <2>10. y = v
    <3>1. Len(y) = Len(v) /\ \A i \in 1 .. Len(y) : y[i] = v[i]
      BY <2>5, <2>8
    <3> QED BY <2>5, <2>8, <3>1, Cuts!SameSequence
  <2> QED BY <2>1, <2>2, <2>3, <2>6, <2>9, <2>10
<1>2. "l2" \in Units /\ "l3" \in Units /\ "c" \in Units
  BY DEF Units
<1> QED BY <1>1, <1>2

LEMMA KeyKeepsLine ==
    ASSUME EditInv, EditNext
    PROVE  EditInv' /\ Edits
<1>1. PICK L, R \in Seq(Chars) : Spells(inputBuf, cursorByte, L, R)
  BY DEF EditInv
<1>2. /\ history_ \in Seq(Lines) /\ Len(history_) \in Nat
      /\ historyIdx \in 0 .. Len(history_)
      /\ historyIdx # 0 => historyIdx < Len(history_)
      /\ seq \in {<<>>, <<"l2">>, <<"l3">>, <<"l3", "c">>}
  BY DEF EditInv, Lines
<1> DEFINE Spelling == \E M, N \in Seq(Chars) : Spells(inputBuf', cursorByte', M, N)
<1>3. ASSUME Spelling, UNCHANGED <<history_, historyIdx>>,
             seq' \in {<<>>, <<"l2">>, <<"l3">>, <<"l3", "c">>}
      PROVE  EditInv'
  BY <1>2, <1>3 DEF EditInv, Lines
<1>4. ASSUME NEW b \in {"a", "x", "l2", "l3"}, KeyByte(b) PROVE EditInv' /\ Edits
  <2>1. CASE b \in {"a", "x"}
    <3>1. PICK ch \in Chars : ch = <<b>>
      BY <2>1 DEF Chars
    <3>2. InsertBytes(ch) /\ UNCHANGED <<history_, historyIdx, seq>>
      BY <1>4, <2>1, <3>1 DEF KeyByte, Utf8CharLen
    <3>3. Whole!Insert /\ Spelling
      BY <1>1, <3>2, BytesOfOne
    <3> HIDE DEF Spelling
    <3> QED BY <1>2, <1>3, <3>2, <3>3 DEF Edits, Whole!EditorNext
  <2>2. CASE b \in {"l2", "l3"}
    <3>1. seq' = <<b>> /\ UNCHANGED <<inputBuf, cursorByte, history_, historyIdx>>
      BY <1>4, <2>2 DEF KeyByte, Utf8CharLen
    <3>2. Spelling
      BY <1>1, <3>1
    <3> HIDE DEF Spelling
    <3> QED BY <1>3, <2>2, <3>1, <3>2, Unseen DEF Edits
  <2> QED BY <2>1, <2>2
<1>5. ASSUME NEW b \in {"a", "l2", "c", "resize"}, KeyInSequence(b) PROVE EditInv' /\ Edits
  <2>1. seq \in {<<"l2">>, <<"l3">>, <<"l3", "c">>} /\ UNCHANGED <<history_, historyIdx>>
    BY <1>2, <1>5 DEF KeyInSequence
  <2>2. CASE \/ seq' = <<>> /\ UNCHANGED <<inputBuf, cursorByte>>
             \/ seq' = <<"l3", "c">> /\ UNCHANGED <<inputBuf, cursorByte>>
    <3>1. Spelling
      BY <1>1, <2>2
    <3> HIDE DEF Spelling
    <3> QED BY <1>3, <2>1, <2>2, <3>1, Unseen DEF Edits
  <2>3. CASE seq' = <<>> /\ \E ch \in Chars : InsertBytes(ch)
    <3>1. PICK ch \in Chars : InsertBytes(ch)
      BY <2>3
    <3>2. Whole!Insert /\ Spelling
      BY <1>1, <2>1, <3>1, BytesOfOne
    <3> HIDE DEF Spelling
    <3> QED BY <1>3, <2>1, <2>3, <3>2 DEF Edits, Whole!EditorNext
  <2>4. \/ seq' = <<>> /\ UNCHANGED <<inputBuf, cursorByte>>
        \/ seq' = <<"l3", "c">> /\ UNCHANGED <<inputBuf, cursorByte>>
        \/ seq' = <<>> /\ \E ch \in Chars : InsertBytes(ch)
    <3>1. /\ Append(<<"l2">>, "c") = <<"l2", "c">> /\ Len(<<"l2">>) = 1
          /\ Append(<<"l3">>, "c") = <<"l3", "c">> /\ Len(<<"l3">>) = 1
          /\ Append(<<"l3", "c">>, "c") = <<"l3", "c", "c">> /\ Len(<<"l3", "c">>) = 2
      BY Continued
    <3>2. /\ Utf8CharLen(<<"l2">>[1]) = 2
          /\ Utf8CharLen(<<"l3">>[1]) = 3 /\ Utf8CharLen(<<"l3", "c">>[1]) = 3
      BY DEF Utf8CharLen
    <3>3. CASE b \notin {"c", "resize"}
      BY <1>5, <3>3 DEF KeyInSequence
    <3>4. CASE b \in {"c", "resize"}
      <4>1. IF Len(seq) + 1 < Utf8CharLen(seq[1])
            THEN seq' = Append(seq, "c") /\ UNCHANGED <<inputBuf, cursorByte>>
            ELSE InsertBytes(Append(seq, "c")) /\ seq' = <<>>
        BY <1>5, <3>4 DEF KeyInSequence
      <4>2. CASE seq = <<"l2">>
        <5>1. Append(seq, "c") \in Chars /\ ~ Len(seq) + 1 < Utf8CharLen(seq[1])
          BY <3>1, <3>2, <4>2 DEF Chars
        <5> QED BY <4>1, <5>1
      <4>3. CASE seq = <<"l3">>
        <5>1. Append(seq, "c") = <<"l3", "c">> /\ Len(seq) + 1 < Utf8CharLen(seq[1])
          BY <3>1, <3>2, <4>3
        <5> QED BY <4>1, <5>1
      <4>4. CASE seq = <<"l3", "c">>
        <5>1. Append(seq, "c") \in Chars /\ ~ Len(seq) + 1 < Utf8CharLen(seq[1])
          BY <3>1, <3>2, <4>4 DEF Chars
        <5> QED BY <4>1, <5>1
      <4> QED BY <2>1, <4>2, <4>3, <4>4
    <3> QED BY <3>3, <3>4
  <2> QED BY <2>2, <2>3, <2>4
<1>6. /\ inputBuf \in Seq(Units) /\ cursorByte \in 0 .. Len(inputBuf)
      /\ cursorByte > 0 <=> L # <<>>
      /\ cursorByte < Len(inputBuf) <=> R # <<>>
  BY <1>1, Viewed
<1>7. ASSUME L # <<>>
      PROVE  \E M \in Seq(Chars), ch \in Chars : L = Append(M, ch)
  BY <1>7, LastOfRow
<1>8. ASSUME R # <<>>
      PROVE  \E ch \in Chars, N \in Seq(Chars) : R = <<ch>> \o N
  BY <1>8, FirstOfRow
<1>9. ASSUME KeyBackspace PROVE EditInv' /\ Edits
  <2>1. L # <<>> /\ Stays /\ seq' = <<>>
    BY <1>6, <1>9 DEF KeyBackspace, Stays
  <2>2. PICK M \in Seq(Chars), ch \in Chars : L = Append(M, ch)
    BY <1>7, <2>1
  <2>3. Spells(inputBuf', cursorByte', M, R)
    BY <1>1, <1>9, <2>2, OneBack DEF KeyBackspace
  <2>4. Whole!DeleteBefore
    BY <1>1, <2>1, <2>2, <2>3, ErasesBefore DEF Stays
  <2>5. Spelling
    BY <2>3
  <2> HIDE DEF Spelling
  <2> QED BY <1>3, <2>1, <2>4, <2>5 DEF Edits, Whole!EditorNext, Stays
<1>10. ASSUME KeyDC PROVE EditInv' /\ Edits
  <2>1. R # <<>> /\ Stays /\ seq' = <<>>
    BY <1>6, <1>10 DEF KeyDC, Stays
  <2>2. PICK ch \in Chars, N \in Seq(Chars) : R = <<ch>> \o N
    BY <1>8, <2>1
  <2>3. Spells(inputBuf', cursorByte', L, N)
    BY <1>1, <1>10, <2>2, OneOn DEF KeyDC
  <2>4. Whole!DeleteBehind
    BY <1>1, <2>1, <2>2, <2>3, ErasesBehind DEF Stays
  <2>5. Spelling
    BY <2>3
  <2> HIDE DEF Spelling
  <2> QED BY <1>3, <2>1, <2>4, <2>5 DEF Edits, Whole!EditorNext, Stays
<1>11. ASSUME NEW M \in Seq(Chars), NEW N \in Seq(Chars),
              Spells(inputBuf, cursorByte', M, N),
              Len(M) \in {Len(L) - 1, Len(L) + 1, 0, Len(M \o N)},
              UNCHANGED inputBuf, Stays, seq = <<>>
       PROVE  EditInv' /\ Edits
  <2>1. Spells(inputBuf', cursorByte', M, N) /\ UNCHANGED <<inputBuf, history_, historyIdx>> /\ seq' = <<>>
    BY <1>11 DEF Stays
  <2>2. Whole!Move
    BY <1>1, <1>11, <2>1, MovesTo
  <2>3. Spelling
    BY <2>1
  <2> HIDE DEF Spelling
  <2> QED BY <1>3, <2>1, <2>2, <2>3 DEF Edits, Whole!EditorNext
<1>12. ASSUME KeyLeft PROVE EditInv' /\ Edits
  <2>1. L # <<>> /\ Stays /\ seq = <<>> /\ UNCHANGED inputBuf /\ cursorByte' = StepBack(inputBuf, cursorByte)
    BY <1>6, <1>12 DEF KeyLeft, Moves, Stays
  <2>2. PICK M \in Seq(Chars), ch \in Chars : L = Append(M, ch)
    BY <1>7, <2>1
  <2>3. Spells(inputBuf, cursorByte', M, <<ch>> \o R) /\ <<ch>> \o R \in Seq(Chars)
    BY <1>1, <2>1, <2>2, OneBack
  <2>4. Len(M) = Len(L) - 1
    BY <2>2
  <2> HIDE DEF Spelling
  <2> QED BY <1>11, <2>1, <2>3, <2>4
<1>13. ASSUME KeyRight PROVE EditInv' /\ Edits
  <2>1. R # <<>> /\ Stays /\ seq = <<>> /\ UNCHANGED inputBuf /\ cursorByte' = StepOn(inputBuf, cursorByte)
    BY <1>6, <1>13 DEF KeyRight, Moves, Stays
  <2>2. PICK ch \in Chars, N \in Seq(Chars) : R = <<ch>> \o N
    BY <1>8, <2>1
  <2>3. Spells(inputBuf, cursorByte', Append(L, ch), N)
    BY <1>1, <2>1, <2>2, OneOn
  <2>4. Append(L, ch) \in Seq(Chars) /\ Len(Append(L, ch)) = Len(L) + 1
    OBVIOUS
  <2> HIDE DEF Spelling
  <2> QED BY <1>11, <2>1, <2>3, <2>4
<1>14. ASSUME KeyHome PROVE EditInv' /\ Edits
  <2>1. Stays /\ seq = <<>> /\ UNCHANGED inputBuf /\ cursorByte' = 0
    BY <1>14 DEF KeyHome, Moves, Stays
  <2>2. Spells(inputBuf, cursorByte', <<>>, L \o R) /\ L \o R \in Seq(Chars)
    BY <1>1, <2>1, SpellsAll
  <2>3. <<>> \in Seq(Chars) /\ Len(<<>>) = 0
    OBVIOUS
  <2> HIDE DEF Spelling
  <2> QED BY <1>11, <2>1, <2>2, <2>3
<1>15. ASSUME KeyEnd PROVE EditInv' /\ Edits
  <2>1. Stays /\ seq = <<>> /\ UNCHANGED inputBuf /\ cursorByte' = Len(inputBuf)
    BY <1>15 DEF KeyEnd, Moves, Stays
  <2>2. PICK M \in Seq(Chars) : M = L \o R /\ Spells(inputBuf, cursorByte', M, <<>>)
    BY <1>1, <2>1, SpellsAll
  <2>3. <<>> \in Seq(Chars) /\ M \o <<>> = M
    OBVIOUS
  <2> HIDE DEF Spelling
  <2> QED BY <1>11, <2>1, <2>2, <2>3
<1>16. ASSUME KeyEnter PROVE EditInv' /\ Edits
  <2>1. /\ seq' = <<>> /\ inputBuf # <<>> /\ inputBuf' = <<>> /\ cursorByte' = 0 /\ historyIdx' = 0
        /\ history_' \in {Append(history_, inputBuf), Tail(Append(history_, inputBuf))}
    BY <1>16 DEF KeyEnter
  <2>2. Whole!Enter /\ history_' \in Seq(Lines)
    BY <1>1, <1>2, <2>1, EntersOne
  <2>3. Spelling
    <3>1. <<>> \in Seq(Chars)
      OBVIOUS
    <3>2. Spells(inputBuf', cursorByte', <<>>, <<>>)
      BY <2>1, <3>1, RowIsSpelt
    <3> QED BY <3>1, <3>2
  <2>4. 0 \in 0 .. Len(history_')
    <3>1. Len(history_') \in Nat
      BY <2>2
    <3> QED BY <3>1
  <2>5. EditInv'
    BY <2>1, <2>2, <2>3, <2>4 DEF EditInv, Lines
  <2> QED BY <2>2, <2>5 DEF Edits, Whole!EditorNext
<1>17. ASSUME NEW cs \in Seq(Chars), inputBuf' = Spelt(cs), cursorByte' = Len(inputBuf'),
              cs = <<>> \/ \E i \in 1 .. Len(history_) : inputBuf' = history_[i],
              UNCHANGED <<history_, seq>>,
              historyIdx' \in 0 .. Len(history_), historyIdx' # 0 => historyIdx' < Len(history_)
       PROVE  EditInv' /\ Edits
  <2>1. Whole!Recall
    BY <1>2, <1>17, RecallsOne
  <2>2. Spelling
    <3>1. <<>> \in Seq(Chars)
      OBVIOUS
    <3>2. Spells(inputBuf', cursorByte', cs, <<>>)
      BY <1>17, RowIsSpelt
    <3> QED BY <3>1, <3>2
  <2>3. EditInv'
    BY <1>2, <1>17, <2>2 DEF EditInv, Lines
  <2> QED BY <2>1, <2>3 DEF Edits, Whole!EditorNext
<1>18. ASSUME NEW i \in 1 .. Len(history_)
       PROVE  \E cs \in Seq(Chars) : history_[i] = Spelt(cs)
  <2>1. history_[i] \in Lines
    BY <1>2
  <2> QED BY <2>1 DEF Lines
<1>19. ASSUME KeyUp PROVE EditInv' /\ Edits
  <2>1. /\ history_ # <<>> /\ UNCHANGED <<history_, seq>>
        /\ historyIdx' = (IF historyIdx = 0 THEN Len(history_) ELSE historyIdx) - 1
        /\ inputBuf' = history_[historyIdx' + 1]
        /\ cursorByte' = Len(inputBuf')
    BY <1>19 DEF KeyUp
  <2>2. Len(history_) > 0
    BY <1>2, <2>1
  <2>3. historyIdx' \in 0 .. Len(history_) /\ historyIdx' < Len(history_) /\ historyIdx' + 1 \in 1 .. Len(history_)
    BY <1>2, <2>1, <2>2
  <2>4. PICK cs \in Seq(Chars) : history_[historyIdx' + 1] = Spelt(cs)
    BY <1>18, <2>3
  <2>5. inputBuf' = Spelt(cs) /\ \E i \in 1 .. Len(history_) : inputBuf' = history_[i]
    BY <2>1, <2>3, <2>4
  <2> HIDE DEF Spelling
  <2> QED BY <1>17, <2>1, <2>3, <2>5
<1>20. ASSUME KeyDown PROVE EditInv' /\ Edits
  <2>1. /\ historyIdx # 0 /\ UNCHANGED <<history_, seq>> /\ cursorByte' = Len(inputBuf')
        /\ \/ /\ historyIdx + 1 < Len(history_) /\ historyIdx' = historyIdx + 1
              /\ inputBuf' = history_[historyIdx + 2]
           \/ historyIdx' = 0 /\ inputBuf' = <<>>
    BY <1>20 DEF KeyDown
  <2>2. CASE /\ historyIdx + 1 < Len(history_) /\ historyIdx' = historyIdx + 1
             /\ inputBuf' = history_[historyIdx + 2]
    <3>1. historyIdx' \in 0 .. Len(history_) /\ historyIdx' < Len(history_) /\ historyIdx + 2 \in 1 .. Len(history_)
      BY <1>2, <2>2
    <3>2. PICK cs \in Seq(Chars) : history_[historyIdx + 2] = Spelt(cs)
      BY <1>18, <3>1
    <3>3. inputBuf' = Spelt(cs) /\ \E i \in 1 .. Len(history_) : inputBuf' = history_[i]
      BY <2>2, <3>1, <3>2
    <3> HIDE DEF Spelling
    <3> QED BY <1>17, <2>1, <3>1, <3>3
  <2>3. CASE historyIdx' = 0 /\ inputBuf' = <<>>
    <3>1. <<>> \in Seq(Chars) /\ inputBuf' = Spelt(<<>>)
      BY <2>3, SpeltOfNothing
    <3>2. historyIdx' \in 0 .. Len(history_)
      BY <1>2, <2>3
    <3> HIDE DEF Spelling
    <3> QED BY <1>17, <2>1, <2>3, <3>1, <3>2
  <2> QED BY <2>1, <2>2, <2>3
<1> HIDE DEF Spelling
<1> QED BY <1>4, <1>5, <1>9, <1>10, <1>12, <1>13, <1>14, <1>15, <1>16, <1>19, <1>20 DEF EditNext

\* Whatever keys come, in whatever order, the user edits characters: the bytes
\* of the line are those of whole characters, the cursor is between two of them,
\* and each key does to them what the user means by it (Ui::handleKey).
THEOREM LineEditsCharacters == EditSpec => EditsCharacters
<1>1. EditInit => EditInv /\ Whole!LineEmpty
  <2> SUFFICES ASSUME EditInit PROVE EditInv /\ Whole!LineEmpty
    OBVIOUS
  <2>1. inputBuf = <<>> /\ cursorByte = 0 /\ history_ = <<>> /\ historyIdx = 0 /\ seq = <<>>
    BY DEF EditInit
  <2>2. <<>> \in Seq(Chars) /\ <<>> \o <<>> = <<>> /\ Len(<<>>) = 0
    OBVIOUS
  <2>3. Spells(inputBuf, cursorByte, <<>>, <<>>)
    BY <2>1, <2>2, RowIsSpelt
  <2>4. EditInv
    <3>1. history_ \in Seq(Lines) /\ Len(history_) = 0 /\ 0 \in 0 .. 0
      BY <2>1
    <3> QED BY <2>1, <2>2, <2>3, <3>1 DEF EditInv, Lines
  <2>5. CharsOf(inputBuf) = <<>> /\ Len(CharsOf(SubSeq(inputBuf, 1, cursorByte))) = 0
    <3>1. Sees(inputBuf, cursorByte, <<>>, <<>>)
      BY <2>2, <2>3, SeesWhatIsSpelt
    <3> QED BY <2>2, <3>1 DEF Sees
  <2>6. [i \in DOMAIN history_ |-> CharsOf(history_[i])] = <<>>
    BY <2>1
  <2> QED BY <2>4, <2>5, <2>6 DEF Whole!LineEmpty
<1>2. EditInv /\ [EditNext]_editVars => EditInv' /\ Edits
  <2>1. ASSUME EditInv, UNCHANGED editVars PROVE EditInv' /\ Edits
    BY <2>1, Unseen DEF EditInv, editVars, Edits
  <2> QED BY <2>1, KeyKeepsLine
<1>3. EditInv /\ [EditNext]_editVars => [Whole!EditorNext]_Whole!lineVars
  BY <1>2 DEF Edits
<1> QED BY <1>1, <1>2, <1>3, PTL DEF EditSpec, EditsCharacters, Whole!EditorSpec

=============================================================================

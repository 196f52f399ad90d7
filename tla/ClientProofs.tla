----------------------------- MODULE ClientProofs -----------------------------
(***************************************************************************)
(* Theorems about govorirc, for any number of clients, channels, lines and *)
(* addresses.                                                              *)
(*                                                                         *)
(* The session: each step of the server tells the client lines that, read  *)
(* by a client that knows its nick and its channels, leave it knowing what *)
(* they have become.  The connection: whatever a handler does to the       *)
(* socket between two uses of it, each use finds it live.                  *)
(***************************************************************************)
EXTENDS Session, ClientLoop, GovordProofs

-----------------------------------------------------------------------------
\* What the client keeps, what it may read, and what it may send.
Sessions == [nick : Nicks, mine : Seq(ChanNames), target : Targets]

Shown == Nicks \cup {NoNick}

ServerLines ==
    [cmd : {"JOIN"}, who : Shown, chan : ChanNames]
        \cup [cmd : {"PART"}, who : Shown, chan : ChanNames \cup {NoName}]
        \cup [cmd : {"KICK"}, who : Shown, chan : ChanNames, nick : Shown]
        \cup [cmd : {"NICK"}, who : Shown, nick : Nicks]

Commands ==
    [cmd : {"CAP LS", "CAP END", "USER", "JOIN 0"}]
        \cup [cmd : {"NICK"}, nick : Nicks]
        \cup [cmd : {"JOIN", "PART"}, chan : ChanNames]
        \cup [cmd : {"KICK"}, chan : ChanNames, nick : Nicks]

Reading == INSTANCE Induction WITH Values <- Sessions, Items <- ServerLines, Op <- OnServerLine

\* The channels a session holds to be in, and that its target is none but those.
Rooms(s) == {FoldName[s.mine[i]] : i \in DOMAIN s.mine}

TargetKnown(s) == s.target \in ChanNames => FoldName[s.target] \in Rooms(s)

Knows(s, nick, rooms) == s.nick = nick /\ Rooms(s) = rooms

-----------------------------------------------------------------------------
\* What stands in the pieces stands in the whole.
Elements(s) == {s[i] : i \in DOMAIN s}

LEMMA ElementsOfConcat ==
    ASSUME NEW X, NEW s \in Seq(X), NEW t \in Seq(X)
    PROVE  Elements(s \o t) = Elements(s) \cup Elements(t)
<1> DEFINE u == s \o t
<1>1. /\ u \in Seq(X) /\ Len(u) = Len(s) + Len(t)
      /\ \A i \in 1 .. Len(s) : u[i] = s[i]
      /\ \A i \in 1 .. Len(t) : u[Len(s) + i] = t[i]
  OBVIOUS
<1>2. /\ DOMAIN u = 1 .. Len(u) /\ DOMAIN s = 1 .. Len(s) /\ DOMAIN t = 1 .. Len(t)
      /\ Len(s) \in Nat /\ Len(t) \in Nat
  OBVIOUS
<1> HIDE DEF u
<1>3. ASSUME NEW i \in DOMAIN u
      PROVE  u[i] \in Elements(s) \cup Elements(t)
  <2>1. CASE i <= Len(s)
    BY <1>1, <1>2, <2>1 DEF Elements
  <2>2. CASE i > Len(s)
    <3>1. i - Len(s) \in 1 .. Len(t) /\ Len(s) + (i - Len(s)) = i
      BY <1>1, <1>2, <2>2
    <3>2. u[Len(s) + (i - Len(s))] = t[i - Len(s)]
      BY <1>1, <3>1
    <3> QED BY <1>2, <3>1, <3>2 DEF Elements
  <2> QED BY <1>1, <1>2, <2>1, <2>2
<1>4. ASSUME NEW i \in DOMAIN s PROVE s[i] \in Elements(u)
  <2>1. i \in DOMAIN u /\ u[i] = s[i]
    BY <1>1, <1>2
  <2> QED BY <2>1 DEF Elements
<1>5. ASSUME NEW i \in DOMAIN t PROVE t[i] \in Elements(u)
  <2>1. PICK k : k = Len(s) + i
    OBVIOUS
  <2>2. k \in DOMAIN u /\ u[k] = t[i]
    BY <1>1, <1>2, <2>1
  <2> QED BY <2>2 DEF Elements
<1>6. Elements(u) = Elements(s) \cup Elements(t)
  BY <1>3, <1>4, <1>5 DEF Elements
<1> QED BY <1>6 DEF u

-----------------------------------------------------------------------------
\* What the client makes of one line.

\* The channels of the list but the one left (govorirc.cpp:301, 312).
LEMMA RemoveChanIs ==
    ASSUME NEW s \in Sessions, NEW name
    PROVE  /\ RemoveChan(s, name) \in Seq(ChanNames)
           /\ Elements(RemoveChan(s, name)) = {t \in Elements(s.mine) : ~SameChan(name, t)}
<1>1. PICK l \in Seq(ChanNames) : l = s.mine
  BY DEF Sessions
<1> DEFINE N == Len(l)
           D == 0 .. N
           V == Seq(ChanNames)
           Value(i, f) == IF i = 0 THEN <<>>
                          ELSE IF SameChan(name, l[i]) THEN f[i - 1] ELSE Append(f[i - 1], l[i])
           measure == [i \in D |-> i]
           Step == [p \in D \X [D -> V] |-> Value(p[1], p[2])]
           Eq(f) == f = [i \in D |-> Value(i, f)]
           g == CHOOSE f : Eq(f)
<1>2. N \in Nat /\ DOMAIN l = 1 .. N /\ <<>> \in V /\ measure \in [D -> 0 .. N]
  OBVIOUS
<1>3. RemoveChan(s, name) = g[N]
  BY <1>1 DEF RemoveChan
<1>4. ASSUME NEW i \in D, NEW f \in [D -> V] PROVE Value(i, f) \in V
  <2>1. i # 0 => i - 1 \in D /\ i \in DOMAIN l
    BY <1>2
  <2>2. i # 0 => f[i - 1] \in V /\ l[i] \in ChanNames
    BY <2>1
  <2> QED BY <1>2, <2>2
<1>5. /\ Step \in [D \X [D -> V] -> V]
      /\ \A i \in D : \A f \in [D -> V] : Step[<<i, f>>] = Value(i, f)
  <2> HIDE DEF Value, D, V
  <2> QED BY <1>4
<1>6. Reading!LooksBelow(D, V, measure, Step)
  <2>1. ASSUME NEW i \in D, NEW f \in [D -> V], NEW h \in [D -> V],
               \A j \in D : measure[j] < measure[i] => f[j] = h[j]
        PROVE  Step[<<i, f>>] = Step[<<i, h>>]
    <3>1. i # 0 => i - 1 \in D /\ i - 1 < i
      BY <1>2
    <3>2. i # 0 => f[i - 1] = h[i - 1]
      BY <2>1, <3>1
    <3>3. Value(i, f) = Value(i, h)
      BY <3>2
    <3> HIDE DEF D, V, Value, measure, Step
    <3> QED BY <1>5, <3>3
  <2> HIDE DEF D, V, Value, measure, Step
  <2> QED BY <2>1 DEF Reading!LooksBelow
<1>7. PICK f \in [D -> V] : Reading!Solves(f, D, Step)
  <2> HIDE DEF D, V, measure, Step, N
  <2> QED BY <1>2, <1>5, <1>6, Reading!Recursion
<1>8. Eq(g)
  <2>1. f = [i \in D |-> Value(i, f)]
    <3> HIDE DEF D, V, Value, Step
    <3> QED BY <1>5, <1>7 DEF Reading!Solves
  <2>2. Eq(f)
    BY <2>1
  <2> HIDE DEF Eq
  <2> QED BY <2>2
<1> HIDE DEF g
<1>9. \A i \in D : g[i] = Value(i, g)
  <2> HIDE DEF Value, D
  <2> QED BY <1>8
<1> DEFINE Kept(n) == {t \in {l[i] : i \in 1 .. n} : ~SameChan(name, t)}
           T == {n \in D : g[n] \in V /\ Elements(g[n]) = Kept(n)}
<1>10. 0 \in T
  <2>1. Elements(<<>>) = {} /\ Kept(0) = {} /\ 0 \in D /\ g[0] = <<>>
    BY <1>2, <1>9 DEF Elements
  <2> QED BY <1>2, <2>1
<1>11. ASSUME NEW n \in 0 .. N - 1, n \in T PROVE n + 1 \in T
  <2>1. n + 1 \in D /\ n + 1 # 0 /\ (n + 1) - 1 = n /\ n + 1 \in DOMAIN l /\ n \in Nat
    BY <1>2
  <2>2. g[n + 1] = IF SameChan(name, l[n + 1]) THEN g[n] ELSE Append(g[n], l[n + 1])
    BY <1>9, <2>1
  <2>3. l[n + 1] \in ChanNames /\ g[n] \in V /\ Elements(g[n]) = Kept(n)
    BY <1>11, <2>1
  <2>4. Kept(n + 1) = IF SameChan(name, l[n + 1]) THEN Kept(n) ELSE Kept(n) \cup {l[n + 1]}
    <3>1. 1 .. n + 1 = (1 .. n) \cup {n + 1}
      BY <2>1
    <3> QED BY <3>1
  <2>5. Append(g[n], l[n + 1]) \in V /\ Append(g[n], l[n + 1]) = g[n] \o <<l[n + 1]>>
        /\ <<l[n + 1]>> \in V
    <3>1. ASSUME NEW S, NEW these \in Seq(S), NEW that \in S
          PROVE  Append(these, that) \in Seq(S) /\ Append(these, that) = these \o <<that>> /\ <<that>> \in Seq(S)
      BY ONLY these \in Seq(S), that \in S
    <3> QED BY <2>3, <3>1
  <2>6. Elements(Append(g[n], l[n + 1])) = Elements(g[n]) \cup {l[n + 1]}
    <3>1. Elements(<<l[n + 1]>>) = {l[n + 1]}
      BY DEF Elements
    <3>2. PICK kept \in Seq(ChanNames), one \in Seq(ChanNames) :
              kept = g[n] /\ one = <<l[n + 1]>>
      BY <2>3, <2>5
    <3>3. Elements(kept \o one) = Elements(kept) \cup Elements(one)
      BY <3>2, ElementsOfConcat, ZenonT(40)
    <3> HIDE DEF V
    <3> QED BY <2>5, <3>1, <3>2, <3>3
  <2> HIDE DEF Kept, V
  <2>7. g[n + 1] \in V /\ Elements(g[n + 1]) = Kept(n + 1)
    BY <2>2, <2>3, <2>4, <2>5, <2>6
  <2> QED BY <2>1, <2>7
<1>12. N \in T
  <2>1. N \in Nat
    BY <1>2
  <2>2. 0 .. N \subseteq T
    <3>1. \A n \in 0 .. N - 1 : n \in T => n + 1 \in T
      <4> HIDE DEF T, N
      <4> QED BY <1>11
    <3> HIDE DEF T, N
    <3> QED BY <1>10, <2>1, <3>1, Reading!IntervalInduction
  <2>3. N \in 0 .. N
    BY <2>1
  <2> HIDE DEF T, N
  <2> QED BY <2>2, <2>3
<1>13. Kept(N) = {t \in Elements(s.mine) : ~SameChan(name, t)}
  BY <1>1, <1>2 DEF Elements
<1> QED BY <1>3, <1>12, <1>13

LEMMA RoomsOf ==
    ASSUME NEW s
    PROVE  Rooms(s) = {FoldName[t] : t \in Elements(s.mine)}
BY DEF Rooms, Elements

\* Leaving a channel takes it, and nothing else, from the list, and the target
\* falls back to one that is left (govorirc.cpp:298-303, 309-314).
LEMMA OutIs ==
    ASSUME NEW s \in Sessions, NEW name
    PROVE  /\ Out(s, name) \in Sessions
           /\ Out(s, name).nick = s.nick
           /\ Rooms(Out(s, name)) = Rooms(s) \ {FoldName[name]}
           /\ TargetKnown(s) => TargetKnown(Out(s, name))
<1> DEFINE rest == RemoveChan(s, name)
           o == Out(s, name)
<1>1. rest \in Seq(ChanNames) /\ Elements(rest) = {t \in Elements(s.mine) : ~SameChan(name, t)}
  BY RemoveChanIs
<1>2. s.nick \in Nicks /\ s.mine \in Seq(ChanNames) /\ s.target \in Targets
  BY DEF Sessions
<1>3. Elements(s.mine) \subseteq ChanNames
  BY <1>2 DEF Elements
<1>4. rest # <<>> => Last(rest) \in Elements(rest)
  <2> HIDE DEF rest
  <2>1. rest # <<>> => Len(rest) \in DOMAIN rest
    BY <1>1
  <2> QED BY <2>1 DEF Elements, Last
<1>5. /\ o.nick = s.nick /\ o.mine = rest
      /\ o.target = IF ~SameChan(name, s.target) THEN s.target
                    ELSE IF rest = <<>> THEN NoTarget ELSE Last(rest)
      /\ o = [nick |-> o.nick, mine |-> o.mine, target |-> o.target]
  <2> HIDE DEF rest
  <2>1. /\ o.nick = s.nick /\ o.mine = rest
        /\ o.target = IF ~SameChan(name, s.target) THEN s.target
                      ELSE IF rest = <<>> THEN NoTarget ELSE Last(rest)
    BY DEF Out, Sessions, rest
  <2>2. DOMAIN s = {"nick", "mine", "target"}
    BY DEF Sessions
  <2>3. DOMAIN o = {"nick", "mine", "target"} /\ o = [x \in DOMAIN o |-> o[x]]
    BY <2>2 DEF Out
  <2> QED BY <2>1, <2>3
<1> HIDE DEF rest, o
<1>6. o.target \in Targets
  BY <1>1, <1>2, <1>3, <1>4, <1>5 DEF Targets
<1>7. o \in Sessions
  BY <1>1, <1>2, <1>5, <1>6 DEF Sessions
<1>8. Rooms(o) = {FoldName[t] : t \in Elements(rest)}
  BY <1>5, RoomsOf
<1>9. Rooms(s) = {FoldName[t] : t \in Elements(s.mine)}
  BY RoomsOf
<1>10. Rooms(o) = Rooms(s) \ {FoldName[name]}
  <2>1. {FoldName[t] : t \in Elements(rest)} =
            {FoldName[t] : t \in Elements(s.mine)} \ {FoldName[name]}
    <3> HIDE DEF Elements
    <3> QED BY <1>1, <1>3 DEF SameChan
  <2> QED BY <1>8, <1>9, <2>1
<1>11. TargetKnown(s) => TargetKnown(o)
  <2> SUFFICES ASSUME TargetKnown(s), o.target \in ChanNames
               PROVE  FoldName[o.target] \in Rooms(o)
    BY DEF TargetKnown
  <2>1. CASE ~SameChan(name, s.target)
    BY <1>5, <1>10, <2>1 DEF TargetKnown, SameChan
  <2>2. CASE SameChan(name, s.target)
    <3>1. o.target = Last(rest) /\ Last(rest) \in Elements(rest)
      BY <1>4, <1>5, <2>2, SessionAssumption
    <3> QED BY <1>8, <3>1
  <2> QED BY <2>1, <2>2
<1> QED BY <1>5, <1>7, <1>10, <1>11 DEF o

\* Joining adds a channel that is not in the list, and makes it the target.
LEMMA JoinRead ==
    ASSUME NEW s \in Sessions, NEW l, l.cmd = "JOIN", l.chan \in ChanNames, l.who = s.nick
    PROVE  LET t == OnServerLine(s, l) IN
           /\ t \in Sessions
           /\ t.nick = s.nick
           /\ Rooms(t) = Rooms(s) \cup {FoldName[l.chan]}
           /\ TargetKnown(t)
<1> DEFINE t == OnServerLine(s, l)
           more == IF HasChan(s, l.chan) THEN s.mine ELSE Append(s.mine, l.chan)
<1>1. s.nick \in Nicks /\ s.mine \in Seq(ChanNames) /\ DOMAIN s = {"nick", "mine", "target"}
  BY DEF Sessions
<1>2. t = [s EXCEPT !.target = l.chan, !.mine = IF HasChan(s, l.chan) THEN @ ELSE Append(@, l.chan)]
  BY DEF OnServerLine
<1>3. t.nick = s.nick /\ t.target = l.chan /\ t.mine = more
  BY <1>1, <1>2 DEF Sessions
<1>4. DOMAIN t = {"nick", "mine", "target"} /\ t = [x \in DOMAIN t |-> t[x]]
  BY <1>1, <1>2
<1>5. more \in Seq(ChanNames)
  BY <1>1
<1> HIDE DEF t
<1>6. t \in Sessions
  <2> HIDE DEF more
  <2>1. t = [nick |-> t.nick, mine |-> t.mine, target |-> t.target]
    BY <1>4
  <2>2. t.target \in Targets
    BY <1>3 DEF Targets
  <2> QED BY <1>1, <1>3, <1>5, <2>1, <2>2 DEF Sessions
<1>7. Rooms(t) = {FoldName[x] : x \in Elements(more)}
  BY <1>3, RoomsOf
<1>8. Rooms(s) = {FoldName[x] : x \in Elements(s.mine)}
  BY RoomsOf
<1>9. Rooms(t) = Rooms(s) \cup {FoldName[l.chan]}
  <2>1. CASE HasChan(s, l.chan)
    <3>1. FoldName[l.chan] \in Rooms(s)
      BY <2>1 DEF HasChan, SameChan, Rooms
    <3> QED BY <1>7, <1>8, <2>1, <3>1
  <2>2. CASE ~HasChan(s, l.chan)
    <3>1. more = s.mine \o <<l.chan>> /\ <<l.chan>> \in Seq(ChanNames)
      BY <1>1, <2>2
    <3>2. Elements(<<l.chan>>) = {l.chan}
      BY DEF Elements
    <3>3. Elements(more) = Elements(s.mine) \cup {l.chan}
      <4>1. Elements(s.mine \o <<l.chan>>) = Elements(s.mine) \cup Elements(<<l.chan>>)
        <5>1. PICK q, w : q = s.mine /\ w = <<l.chan>>
          OBVIOUS
        <5>2. q \in Seq(ChanNames) /\ w \in Seq(ChanNames)
          BY <1>1, <3>1, <5>1
        <5>3. Elements(q \o w) = Elements(q) \cup Elements(w)
          BY <5>2, ElementsOfConcat
        <5> QED BY <5>1, <5>3
      <4> QED BY <3>1, <3>2, <4>1
    <3> HIDE DEF more
    <3> QED BY <1>7, <1>8, <3>3
  <2> QED BY <2>1, <2>2
<1>10. TargetKnown(t)
  BY <1>3, <1>9 DEF TargetKnown
<1> QED BY <1>3, <1>6, <1>9, <1>10 DEF t

\* Which lines change what.
JoinsIt(s, l)   == l.cmd = "JOIN" /\ l.who = s.nick
LeavesIt(s, l)  == (l.cmd = "PART" /\ l.who = s.nick) \/ (l.cmd = "KICK" /\ l.nick = s.nick)
RenamesIt(s, l) == l.cmd = "NICK" /\ l.who = s.nick

LEMMA OtherRead ==
    ASSUME NEW s, NEW l
    PROVE  /\ LeavesIt(s, l) => OnServerLine(s, l) = Out(s, l.chan)
           /\ RenamesIt(s, l) => OnServerLine(s, l) = [s EXCEPT !.nick = l.nick]
           /\ ~JoinsIt(s, l) /\ ~LeavesIt(s, l) /\ ~RenamesIt(s, l) => OnServerLine(s, l) = s
<1>1. CASE l.cmd = "PART" /\ l.who = s.nick
  <2>1. OnServerLine(s, l) = Out(s, l.chan)
    BY <1>1, Zenon DEF OnServerLine
  <2>2. LeavesIt(s, l) /\ ~RenamesIt(s, l)
    BY <1>1 DEF RenamesIt, LeavesIt
  <2> QED BY <2>1, <2>2
<1>2. CASE l.cmd = "KICK" /\ l.nick = s.nick
  BY <1>2 DEF OnServerLine, RenamesIt, JoinsIt, LeavesIt
<1>3. CASE RenamesIt(s, l)
  BY <1>3 DEF OnServerLine, RenamesIt, JoinsIt, LeavesIt
<1>4. CASE ~LeavesIt(s, l) /\ ~RenamesIt(s, l)
  <2>1. ~JoinsIt(s, l) => OnServerLine(s, l) = s
    BY <1>4 DEF OnServerLine, RenamesIt, JoinsIt, LeavesIt
  <2> QED BY <1>4, <2>1
<1> QED BY <1>1, <1>2, <1>3, <1>4 DEF LeavesIt

LEMMA RenameRead ==
    ASSUME NEW s \in Sessions, NEW n \in Nicks
    PROVE  LET t == [s EXCEPT !.nick = n] IN
           /\ t \in Sessions /\ t.nick = n /\ t.target = s.target /\ t.mine = s.mine
           /\ Rooms(t) = Rooms(s)
           /\ TargetKnown(s) => TargetKnown(t)
BY DEF Sessions, Rooms, TargetKnown

LEMMA LinesAreLines ==
    ASSUME NEW l \in ServerLines
    PROVE  /\ l.cmd = "JOIN" => l.chan \in ChanNames
           /\ l.cmd = "NICK" => l.nick \in Nicks
BY DEF ServerLines

\* One line, whatever it is.
LEMMA LineRead ==
    ASSUME NEW s \in Sessions, NEW l \in ServerLines
    PROVE  LET t == OnServerLine(s, l) IN
           /\ t \in Sessions
           /\ TargetKnown(s) => TargetKnown(t)
<1>1. CASE JoinsIt(s, l)
  BY <1>1, JoinRead, LinesAreLines DEF JoinsIt
<1>2. CASE LeavesIt(s, l)
  BY <1>2, OtherRead, OutIs
<1>3. CASE RenamesIt(s, l)
  BY <1>3, OtherRead, RenameRead, LinesAreLines DEF RenamesIt
<1>4. CASE ~JoinsIt(s, l) /\ ~LeavesIt(s, l) /\ ~RenamesIt(s, l)
  BY <1>4, OtherRead
<1> QED BY <1>1, <1>2, <1>3, <1>4

-----------------------------------------------------------------------------
\* What the client makes of many lines.

LEMMA ReadingIsClosed == Reading!Closed
BY LineRead DEF Reading!Closed

LEMMA FoldIs ==
    ASSUME NEW s, NEW lines
    PROVE  FoldLeft(OnServerLine, s, lines) = Reading!Fold(s, lines)
BY DEF Reading!Fold, Reading!FoldLeft, Reading!MapThenFoldSet, FoldLeft, MapThenFoldSet,
       Max, Reading!Max

LEMMA CaughtIs ==
    /\ Caught = Reading!Fold(session, inbox)
    /\ Caught' = Reading!Fold(session', inbox')
<1>1. Caught = Reading!Fold(session, inbox)
  BY FoldIs DEF Caught
<1>2. Caught' = Reading!Fold(session', inbox')
  BY FoldIs DEF Caught
<1> QED BY <1>1, <1>2

\* Reading never leaves the target in a channel the list does not have: this is
\* what OnlyJoinMisleads rests on.
LEMMA ReadingKeepsTarget ==
    ASSUME NEW s \in Sessions, TargetKnown(s), NEW lines \in Seq(ServerLines)
    PROVE  TargetKnown(Reading!Fold(s, lines))
<1>1. PICK h : Reading!Unfolds(h, s, lines) /\ Reading!Fold(s, lines) = h[Len(lines)]
  BY ReadingIsClosed, Reading!FoldUnfolds
<1> DEFINE N == Len(lines)
           T == {n \in 0 .. N : TargetKnown(h[n])}
<1>2. /\ N \in Nat /\ h \in [0 .. N -> Sessions] /\ h[0] = s
      /\ \A n \in 1 .. N : h[n] = OnServerLine(h[n - 1], lines[n]) /\ lines[n] \in ServerLines
  BY <1>1 DEF Reading!Unfolds
<1>3. 0 \in T
  BY <1>2
<1>4. ASSUME NEW n \in 0 .. N - 1, n \in T PROVE n + 1 \in T
  <2>1. n + 1 \in 1 .. N /\ n + 1 \in 0 .. N /\ (n + 1) - 1 = n /\ n \in 0 .. N
    BY <1>2
  <2>2. h[n + 1] = OnServerLine(h[n], lines[n + 1]) /\ h[n] \in Sessions /\ lines[n + 1] \in ServerLines
    BY <1>2, <2>1
  <2>3. TargetKnown(OnServerLine(h[n], lines[n + 1]))
    BY <1>4, <2>2, LineRead
  <2> QED BY <2>1, <2>2, <2>3
<1>5. 0 .. N \subseteq T
  <2> HIDE DEF T, N
  <2> QED BY <1>2, <1>3, <1>4, Reading!IntervalInduction
<1>6. N \in 0 .. N
  BY <1>2
<1> QED BY <1>1, <1>5, <1>6

\* What the client knows does not depend on its target.
SameButTarget(s, t) == s.nick = t.nick /\ s.mine = t.mine

LEMMA LineReadAlike ==
    ASSUME NEW s \in Sessions, NEW t \in Sessions, SameButTarget(s, t), NEW l \in ServerLines
    PROVE  SameButTarget(OnServerLine(s, l), OnServerLine(t, l))
<1>1. s.nick = t.nick /\ s.mine = t.mine
  BY DEF SameButTarget
<1>2. RemoveChan(s, l.chan) = RemoveChan(t, l.chan) /\ (HasChan(s, l.chan) <=> HasChan(t, l.chan))
  BY <1>1 DEF RemoveChan, HasChan
<1>3. CASE JoinsIt(s, l)
  <2>1. /\ OnServerLine(s, l).nick = s.nick /\ OnServerLine(t, l).nick = t.nick
    BY <1>1, <1>3, JoinRead, LinesAreLines DEF JoinsIt
  <2>2. ASSUME NEW r \in Sessions, l.cmd = "JOIN", l.who = r.nick
        PROVE  OnServerLine(r, l).mine = IF HasChan(r, l.chan) THEN r.mine ELSE Append(r.mine, l.chan)
    BY <2>2 DEF OnServerLine, Sessions
  <2>3. HasChan(s, l.chan) \in BOOLEAN
    BY DEF HasChan
  <2>4. OnServerLine(s, l).mine = OnServerLine(t, l).mine
    BY <1>1, <1>2, <1>3, <2>2 DEF JoinsIt
  <2> QED BY <1>1, <2>1, <2>4 DEF SameButTarget
<1>4. CASE LeavesIt(s, l)
  <2>1. LeavesIt(t, l)
    BY <1>1, <1>4 DEF LeavesIt
  <2>2. OnServerLine(s, l) = Out(s, l.chan) /\ OnServerLine(t, l) = Out(t, l.chan)
    BY <1>4, <2>1, OtherRead
  <2>3. \A r \in Sessions : Out(r, l.chan).mine = RemoveChan(r, l.chan) /\ Out(r, l.chan).nick = r.nick
    BY DEF Out, Sessions
  <2> QED BY <1>1, <1>2, <2>2, <2>3 DEF SameButTarget
<1>5. CASE RenamesIt(s, l)
  <2>1. RenamesIt(t, l) /\ l.nick \in Nicks
    BY <1>1, <1>5, LinesAreLines DEF RenamesIt
  <2>2. OnServerLine(s, l) = [s EXCEPT !.nick = l.nick] /\ OnServerLine(t, l) = [t EXCEPT !.nick = l.nick]
    BY <1>5, <2>1, OtherRead
  <2> QED BY <1>1, <2>1, <2>2, RenameRead DEF SameButTarget
<1>6. CASE ~JoinsIt(s, l) /\ ~LeavesIt(s, l) /\ ~RenamesIt(s, l)
  <2>1. ~JoinsIt(t, l) /\ ~LeavesIt(t, l) /\ ~RenamesIt(t, l)
    BY <1>1, <1>6 DEF JoinsIt, LeavesIt, RenamesIt
  <2> QED BY <1>1, <1>6, <2>1, OtherRead DEF SameButTarget
<1> QED BY <1>3, <1>4, <1>5, <1>6

LEMMA ReadingAlike ==
    ASSUME NEW s \in Sessions, NEW t \in Sessions, SameButTarget(s, t), NEW lines \in Seq(ServerLines)
    PROVE  SameButTarget(Reading!Fold(s, lines), Reading!Fold(t, lines))
<1>1. PICK g : Reading!Unfolds(g, s, lines) /\ Reading!Fold(s, lines) = g[Len(lines)]
  BY ReadingIsClosed, Reading!FoldUnfolds
<1>2. PICK h : Reading!Unfolds(h, t, lines) /\ Reading!Fold(t, lines) = h[Len(lines)]
  BY ReadingIsClosed, Reading!FoldUnfolds
<1> DEFINE N == Len(lines)
           T == {n \in 0 .. N : SameButTarget(g[n], h[n])}
<1>3. /\ N \in Nat
      /\ g \in [0 .. N -> Sessions] /\ g[0] = s
      /\ h \in [0 .. N -> Sessions] /\ h[0] = t
      /\ \A n \in 1 .. N : lines[n] \in ServerLines
      /\ \A n \in 1 .. N : g[n] = OnServerLine(g[n - 1], lines[n])
      /\ \A n \in 1 .. N : h[n] = OnServerLine(h[n - 1], lines[n])
  BY <1>1, <1>2 DEF Reading!Unfolds
<1>4. 0 \in T
  BY <1>3
<1>5. ASSUME NEW n \in 0 .. N - 1, n \in T PROVE n + 1 \in T
  <2>1. n + 1 \in 1 .. N /\ n + 1 \in 0 .. N /\ (n + 1) - 1 = n /\ n \in 0 .. N
    BY <1>3
  <2>2. /\ g[n] \in Sessions /\ h[n] \in Sessions /\ lines[n + 1] \in ServerLines
        /\ g[n + 1] = OnServerLine(g[n], lines[n + 1])
        /\ h[n + 1] = OnServerLine(h[n], lines[n + 1])
    BY <1>3, <2>1
  <2>3. SameButTarget(OnServerLine(g[n], lines[n + 1]), OnServerLine(h[n], lines[n + 1]))
    BY <1>5, <2>2, LineReadAlike
  <2> QED BY <2>1, <2>2, <2>3
<1>6. 0 .. N \subseteq T
  <2> HIDE DEF T, N
  <2> QED BY <1>3, <1>4, <1>5, Reading!IntervalInduction
<1>7. N \in 0 .. N
  BY <1>3
<1> QED BY <1>1, <1>2, <1>6, <1>7

-----------------------------------------------------------------------------
\* lines take whoever knows the one nick and channels to the other ones.
Tells(lines, nick, rooms, newNick, newRooms) ==
    \A s \in Sessions :
        Knows(s, nick, rooms) => Knows(Reading!Fold(s, lines), newNick, newRooms)

LEMMA NothingTold ==
    ASSUME NEW nick, NEW rooms
    PROVE  Tells(<<>>, nick, rooms, nick, rooms)
BY ReadingIsClosed, Reading!FoldOfNothing DEF Tells

LEMMA OneTold ==
    ASSUME NEW l \in ServerLines, NEW nick, NEW rooms, NEW newNick, NEW newRooms,
           \A s \in Sessions : Knows(s, nick, rooms) => Knows(OnServerLine(s, l), newNick, newRooms)
    PROVE  Tells(<<l>>, nick, rooms, newNick, newRooms)
BY ReadingIsClosed, Reading!FoldOfOne DEF Tells

\* A line about somebody else.
LEMMA OthersTold ==
    ASSUME NEW l \in ServerLines, NEW nick, NEW rooms,
           l.cmd \in {"JOIN", "PART", "NICK"} => l.who # nick,
           l.cmd = "KICK" => l.nick # nick
    PROVE  Tells(<<l>>, nick, rooms, nick, rooms)
<1>1. ASSUME NEW s \in Sessions, Knows(s, nick, rooms)
      PROVE  Knows(OnServerLine(s, l), nick, rooms)
  <2>1. ~JoinsIt(s, l) /\ ~LeavesIt(s, l) /\ ~RenamesIt(s, l)
    BY <1>1 DEF Knows, JoinsIt, LeavesIt, RenamesIt
  <2> QED BY <1>1, <2>1, OtherRead
<1> QED BY <1>1, OneTold

\* Many partings, all of the client or all of somebody else (JOIN 0).
LEMMA PartsTold ==
    ASSUME NEW lines \in Seq(ServerLines), NEW nick, NEW rooms,
           \A i \in DOMAIN lines : lines[i].cmd = "PART"
    PROVE  /\ (\A i \in DOMAIN lines : lines[i].who # nick) => Tells(lines, nick, rooms, nick, rooms)
           /\ (\A i \in DOMAIN lines : lines[i].who = nick) =>
                  Tells(lines, nick, rooms, nick, rooms \ {FoldName[lines[i].chan] : i \in DOMAIN lines})
<1> DEFINE N == Len(lines)
           Gone(n) == {FoldName[lines[i].chan] : i \in 1 .. n}
<1>1. DOMAIN lines = 1 .. N /\ N \in Nat /\ \A i \in 1 .. N : lines[i] \in ServerLines
  OBVIOUS
<1>2. ASSUME NEW s \in Sessions, Knows(s, nick, rooms), NEW left,
             left[0] = rooms,
             \A n \in 1 .. N : \A r \in Sessions :
                 Knows(r, nick, left[n - 1]) => Knows(OnServerLine(r, lines[n]), nick, left[n])
      PROVE  Knows(Reading!Fold(s, lines), nick, left[N])
  <2>1. PICK h : Reading!Unfolds(h, s, lines) /\ Reading!Fold(s, lines) = h[N]
    BY ReadingIsClosed, Reading!FoldUnfolds
  <2> DEFINE T == {n \in 0 .. N : Knows(h[n], nick, left[n])}
  <2>2. /\ h \in [0 .. N -> Sessions] /\ h[0] = s
        /\ \A n \in 1 .. N : h[n] = OnServerLine(h[n - 1], lines[n])
    BY <2>1 DEF Reading!Unfolds
  <2>3. 0 \in T
    BY <1>1, <1>2, <2>2
  <2>4. ASSUME NEW n \in 0 .. N - 1, n \in T PROVE n + 1 \in T
    <3>1. n + 1 \in 1 .. N /\ n + 1 \in 0 .. N /\ (n + 1) - 1 = n /\ n \in 0 .. N
      BY <1>1
    <3>2. h[n] \in Sessions /\ h[n + 1] = OnServerLine(h[n], lines[n + 1]) /\ Knows(h[n], nick, left[n])
      BY <2>2, <2>4, <3>1
    <3>3. Knows(OnServerLine(h[n], lines[n + 1]), nick, left[n + 1])
      BY <1>2, <3>1, <3>2
    <3> QED BY <3>1, <3>2, <3>3
  <2>5. 0 .. N \subseteq T
    <3> HIDE DEF T, N
    <3> QED BY <1>1, <2>3, <2>4, Reading!IntervalInduction
  <2>6. N \in 0 .. N
    BY <1>1
  <2> QED BY <2>1, <2>5, <2>6
<1>3. ASSUME \A i \in DOMAIN lines : lines[i].who # nick
      PROVE  Tells(lines, nick, rooms, nick, rooms)
  <2> SUFFICES ASSUME NEW s \in Sessions, Knows(s, nick, rooms)
               PROVE  Knows(Reading!Fold(s, lines), nick, rooms)
    BY DEF Tells
  <2>1. PICK left : left = [n \in 0 .. N |-> rooms]
    OBVIOUS
  <2>2. \A n \in 0 .. N : left[n] = rooms
    BY <2>1
  <2>3. ASSUME NEW n \in 1 .. N, NEW r \in Sessions, Knows(r, nick, left[n - 1])
        PROVE  Knows(OnServerLine(r, lines[n]), nick, left[n])
    <3>1. ~JoinsIt(r, lines[n]) /\ ~LeavesIt(r, lines[n]) /\ ~RenamesIt(r, lines[n])
      BY <1>1, <1>3, <2>3 DEF Knows, JoinsIt, LeavesIt, RenamesIt
    <3>2. OnServerLine(r, lines[n]) = r
      BY <3>1, OtherRead
    <3>3. n - 1 \in 0 .. N /\ n \in 0 .. N
      BY <1>1
    <3> QED BY <2>2, <2>3, <3>2, <3>3
  <2>4. 0 \in 0 .. N /\ N \in 0 .. N
    BY <1>1
  <2> HIDE DEF N
  <2>5. left[0] = rooms /\ left[N] = rooms
    BY <2>2, <2>4
  <2> QED BY <1>2, <2>3, <2>5
<1>4. ASSUME \A i \in DOMAIN lines : lines[i].who = nick
      PROVE  Tells(lines, nick, rooms, nick, rooms \ {FoldName[lines[i].chan] : i \in DOMAIN lines})
  <2> SUFFICES ASSUME NEW s \in Sessions, Knows(s, nick, rooms)
               PROVE  Knows(Reading!Fold(s, lines), nick, rooms \ Gone(N))
    BY <1>1 DEF Tells
  <2>1. PICK left : left = [n \in 0 .. N |-> rooms \ Gone(n)]
    OBVIOUS
  <2>2. \A n \in 0 .. N : left[n] = rooms \ Gone(n)
    BY <2>1
  <2>3. ASSUME NEW n \in 1 .. N, NEW r \in Sessions, Knows(r, nick, left[n - 1])
        PROVE  Knows(OnServerLine(r, lines[n]), nick, left[n])
    <3>1. LeavesIt(r, lines[n])
      BY <1>1, <1>4, <2>3 DEF Knows, LeavesIt
    <3>2. OnServerLine(r, lines[n]) = Out(r, lines[n].chan)
      BY <3>1, OtherRead
    <3>3. n - 1 \in 0 .. N /\ n \in 0 .. N /\ 1 .. n = (1 .. n - 1) \cup {n}
      BY <1>1
    <3>4. Gone(n) = Gone(n - 1) \cup {FoldName[lines[n].chan]}
      BY <3>3
    <3>5. Rooms(Out(r, lines[n].chan)) = Rooms(r) \ {FoldName[lines[n].chan]}
          /\ Out(r, lines[n].chan).nick = r.nick
      BY OutIs
    <3> HIDE DEF Gone
    <3> QED BY <2>2, <2>3, <3>2, <3>3, <3>4, <3>5 DEF Knows
  <2>4. 0 \in 0 .. N /\ N \in 0 .. N
    BY <1>1
  <2>5. Gone(0) = {}
    OBVIOUS
  <2> HIDE DEF N, Gone
  <2>6. left[0] = rooms /\ left[N] = rooms \ Gone(N)
    BY <2>2, <2>4, <2>5
  <2>7. Knows(Reading!Fold(s, lines), nick, left[N])
    BY <1>2, <2>3, <2>6
  <2> QED BY <2>6, <2>7
<1> QED BY <1>3, <1>4

-----------------------------------------------------------------------------
\* What the server tells.

Govords == RegInv /\ ChInv /\ LimitsInv

\* The lines of a step take the client from what was to what is.
TellsMe ==
    \E lines \in Seq(ServerLines) :
        /\ Tell(lines)
        /\ Tells(lines, client[Me].nick, joined[Me], client'[Me].nick, joined'[Me])

LEMMA NickOf ==
    ASSUME Govords, NEW c \in Cids
    PROVE  client[c] \in Client /\ client[c].nick \in Shown
BY DEF Govords, RegInv, RegTypeOK, Client, Shown

LEMMA NicksDiffer ==
    ASSUME Govords, NEW c \in Cids, NEW d \in Cids, client[d].nick = client[c].nick, c # d
    PROVE  client[c].nick = NoNick
<1> SUFFICES ASSUME client[c].nick # NoNick PROVE FALSE
  OBVIOUS
<1>1. \A e \in Cids : client[e].nick # NoNick => e \in clients
  BY DEF Govords, RegInv, RegTypeOK, NewClient
<1>2. client[c].nick \in Nicks
  BY NickOf DEF Shown
<1>3. Fold[client[c].nick] \in FoldedNicks
  BY <1>2 DEF FoldedNicks
<1>4. nicks[Fold[client[c].nick]] = c /\ nicks[Fold[client[c].nick]] = d
  BY <1>1, <1>3 DEF Govords, RegInv, NickTableExact, AnswersTo
<1> QED BY <1>4

\* Nothing is claimed of a client without a nick.
LEMMA NamelessTold ==
    ASSUME client[Me].nick = NoNick, NEW lines, NEW rooms, NEW newNick, NEW newRooms
    PROVE  Tells(lines, client[Me].nick, rooms, newNick, newRooms)
BY IdsAssumption DEF Tells, Knows, Sessions

LEMMA LineLeavesNicks ==
    ASSUME Govords, NEW c \in Cids, NEW r \in Client, LineLeaves(c, r)
    PROVE  /\ client'[c].nick = r.nick
           /\ \A d \in Cids : d # c => client'[d] = client[d]
<1>1. client \in [Cids -> Client]
  BY DEF Govords, RegInv, RegTypeOK
<1>2. AfterLine(r).nick = r.nick
  BY DEF AfterLine, Client
<1> QED BY <1>1, <1>2 DEF LineLeaves

LEMMA SpeakingKeepsNicks ==
    ASSUME Govords, NEW c \in Cids, Speaks(c)
    PROVE  \A d \in Cids : client'[d].nick = client[d].nick
<1>1. client[c] \in Client
  BY NickOf
<1> QED BY <1>1, LineLeavesNicks DEF Speaks

LEMMA NothingIsTold ==
    ASSUME Tell(<<>>), client'[Me].nick = client[Me].nick, joined'[Me] = joined[Me]
    PROVE  TellsMe
<1>1. <<>> \in Seq(ServerLines)
  OBVIOUS
<1> QED BY <1>1, NothingTold DEF TellsMe

LEMMA OneIsTold ==
    ASSUME NEW l \in ServerLines, Tell(<<l>>),
           Tells(<<l>>, client[Me].nick, joined[Me], client'[Me].nick, joined'[Me])
    PROVE  TellsMe
<1>1. <<l>> \in Seq(ServerLines)
  OBVIOUS
<1> QED BY <1>1 DEF TellsMe

LEMMA RenamesTell ==
    ASSUME Govords, NEW c \in Cids, NEW n \in Nicks, Renames(c, n)
    PROVE  TellsMe
<1> DEFINE l == NickLine(c, n)
<1>1. l \in ServerLines /\ l.cmd = "NICK" /\ l.who = client[c].nick /\ l.nick = n
  BY NickOf DEF NickLine, ServerLines
<1>2. client'[c].nick = n /\ (\A d \in Cids : d # c => client'[d] = client[d]) /\ joined' = joined
  <2>1. client[c] \in Client /\ [client[c] EXCEPT !.nick = n] \in Client
        /\ [client[c] EXCEPT !.nick = n].nick = n
    BY NickOf DEF Client
  <2>2. LineLeaves(c, [client[c] EXCEPT !.nick = n]) /\ joined' = joined
    BY DEF Renames, RenameTo, Rename, chVars
  <2> QED BY <2>1, <2>2, LineLeavesNicks
<1> HIDE DEF l
<1>3. CASE client[Me].nick = NoNick
  <2>1. Tell(<<>>) \/ Tell(<<l>>)
    BY DEF Renames, l
  <2>2. <<>> \in Seq(ServerLines) /\ <<l>> \in Seq(ServerLines)
    BY <1>1
  <2> QED BY <1>3, <2>1, <2>2, NamelessTold DEF TellsMe
<1>4. CASE c = Me /\ client[Me].nick # NoNick
  <2>1. ASSUME NEW s \in Sessions, Knows(s, client[Me].nick, joined[Me])
        PROVE  Knows(OnServerLine(s, l), n, joined[Me])
    <3>1. RenamesIt(s, l)
      BY <1>1, <1>4, <2>1 DEF RenamesIt, Knows
    <3>2. OnServerLine(s, l) = [s EXCEPT !.nick = n]
      BY <1>1, <3>1, OtherRead
    <3>3. Rooms([s EXCEPT !.nick = n]) = Rooms(s) /\ [s EXCEPT !.nick = n].nick = n
      BY RenameRead
    <3> QED BY <2>1, <3>2, <3>3 DEF Knows
  <2>2. Tells(<<l>>, client[Me].nick, joined[Me], n, joined[Me])
    BY <1>1, <2>1, OneTold
  <2>3. Tell(<<l>>)
    BY <1>4 DEF Renames, l
  <2> QED BY <1>1, <1>2, <1>4, <2>2, <2>3, OneIsTold
<1>5. CASE c # Me /\ client[Me].nick # NoNick
  <2>1. client[c].nick # client[Me].nick
    BY <1>5, NicksDiffer, SessionAssumption
  <2>2. Tells(<<l>>, client[Me].nick, joined[Me], client[Me].nick, joined[Me])
    BY <1>1, <2>1, OthersTold
  <2>3. client'[Me].nick = client[Me].nick /\ joined'[Me] = joined[Me]
    BY <1>2, <1>5, SessionAssumption
  <2>4. Tell(<<>>) \/ Tell(<<l>>)
    BY DEF Renames, l
  <2> QED BY <1>1, <2>2, <2>3, <2>4, NothingIsTold, OneIsTold
<1> QED BY <1>3, <1>4, <1>5

LEMMA JoinsTell ==
    ASSUME Govords, NEW c \in Cids, NEW name \in ChanNames, NEW key, Joins(c, name, key)
    PROVE  TellsMe
<1> DEFINE l == JoinLine(c, name)
<1>1. l \in ServerLines /\ l.cmd = "JOIN" /\ l.who = client[c].nick /\ l.chan = name
  BY NickOf DEF JoinLine, ServerLines
<1>2. client'[Me].nick = client[Me].nick
  BY SpeakingKeepsNicks, SessionAssumption DEF Joins, JoinChannel
<1>3. joined' = [joined EXCEPT ![c] = @ \cup {FoldName[name]}] /\ joined \in [Cids -> SUBSET FoldedNames]
  BY DEF Joins, JoinChannel, Join, Govords, ChInv, ChTypeOK
<1>4. Tell(<<>>) \/ Tell(<<l>>)
  BY DEF Joins, TellMembers
<1>5. c = Me => Tell(<<l>>)
  BY DEF Joins
<1> HIDE DEF l
<1>6. CASE client[Me].nick = NoNick
  <2>1. <<>> \in Seq(ServerLines) /\ <<l>> \in Seq(ServerLines)
    BY <1>1
  <2> QED BY <1>4, <1>6, <2>1, NamelessTold DEF TellsMe
<1>7. CASE c = Me /\ client[Me].nick # NoNick
  <2>1. ASSUME NEW s \in Sessions, Knows(s, client[Me].nick, joined[Me])
        PROVE  Knows(OnServerLine(s, l), client[Me].nick, joined[Me] \cup {FoldName[name]})
    BY <1>1, <1>7, <2>1, JoinRead DEF Knows
  <2>2. Tells(<<l>>, client[Me].nick, joined[Me], client[Me].nick, joined[Me] \cup {FoldName[name]})
    BY <1>1, <2>1, OneTold
  <2>3. joined'[Me] = joined[Me] \cup {FoldName[name]}
    BY <1>3, <1>7
  <2> QED BY <1>1, <1>2, <1>5, <1>7, <2>2, <2>3, OneIsTold
<1>8. CASE c # Me /\ client[Me].nick # NoNick
  <2>1. client[c].nick # client[Me].nick
    BY <1>8, NicksDiffer, SessionAssumption
  <2>2. Tells(<<l>>, client[Me].nick, joined[Me], client[Me].nick, joined[Me])
    BY <1>1, <2>1, OthersTold
  <2>3. joined'[Me] = joined[Me]
    BY <1>3, <1>8, SessionAssumption
  <2> QED BY <1>1, <1>2, <1>4, <2>2, <2>3, NothingIsTold, OneIsTold
<1> QED BY <1>6, <1>7, <1>8

\* PART and KICK: one line to the members, about the client that leaves.
LEMMA LeaveTells ==
    ASSUME Govords, NEW k \in FoldedNames, NEW t \in Cids, NEW l \in ServerLines,
           client'[Me].nick = client[Me].nick,
           joined' = [joined EXCEPT ![t] = @ \ {k}],
           FoldName[l.chan] = k, k \in channels, t \in channel[k].members,
           \/ l.cmd = "PART" /\ l.who = client[t].nick
           \/ l.cmd = "KICK" /\ l.nick = client[t].nick,
           TellMembers(k, l)
    PROVE  TellsMe
<1>1. joined \in [Cids -> SUBSET FoldedNames]
  BY DEF Govords, ChInv, ChTypeOK
<1>2. Tell(<<>>) \/ Tell(<<l>>)
  BY DEF TellMembers
<1>3. CASE client[Me].nick = NoNick
  <2>1. <<>> \in Seq(ServerLines) /\ <<l>> \in Seq(ServerLines)
    OBVIOUS
  <2> QED BY <1>2, <1>3, <2>1, NamelessTold DEF TellsMe
<1>4. CASE t = Me /\ client[Me].nick # NoNick
  <2>1. Tell(<<l>>)
    BY <1>4 DEF TellMembers
  <2>2. ASSUME NEW s \in Sessions, Knows(s, client[Me].nick, joined[Me])
        PROVE  Knows(OnServerLine(s, l), client[Me].nick, joined[Me] \ {k})
    <3>1. LeavesIt(s, l)
      BY <1>4, <2>2 DEF LeavesIt, Knows
    <3> QED BY <2>2, <3>1, OtherRead, OutIs DEF Knows
  <2>3. Tells(<<l>>, client[Me].nick, joined[Me], client[Me].nick, joined[Me] \ {k})
    BY <2>2, OneTold
  <2>4. joined'[Me] = joined[Me] \ {k}
    BY <1>1, <1>4
  <2> QED BY <2>1, <2>3, <2>4, OneIsTold
<1>5. CASE t # Me /\ client[Me].nick # NoNick
  <2>1. client[t].nick # client[Me].nick
    BY <1>5, NicksDiffer, SessionAssumption
  <2>2. Tells(<<l>>, client[Me].nick, joined[Me], client[Me].nick, joined[Me])
    BY <2>1, OthersTold
  <2>3. joined'[Me] = joined[Me]
    BY <1>1, <1>5, SessionAssumption
  <2> QED BY <1>2, <2>2, <2>3, NothingIsTold, OneIsTold
<1> QED BY <1>3, <1>4, <1>5

LEMMA PartsTell ==
    ASSUME Govords, NEW c \in Cids, NEW name \in ChanNames, Parts(c, name)
    PROVE  TellsMe
<1> DEFINE l == PartLine(c, name)
<1>1. l \in ServerLines /\ l.cmd = "PART" /\ l.who = client[c].nick /\ l.chan = name
  BY NickOf DEF PartLine, ServerLines
<1>2. client'[Me].nick = client[Me].nick
  BY SpeakingKeepsNicks, SessionAssumption DEF Parts, PartChannel
<1>3. /\ joined' = [joined EXCEPT ![c] = @ \ {FoldName[name]}]
      /\ FoldName[name] \in channels /\ c \in channel[FoldName[name]].members
      /\ TellMembers(FoldName[name], l)
  BY DEF Parts, PartChannel, Part
<1>4. FoldName[name] \in FoldedNames
  BY DEF FoldedNames
<1> HIDE DEF l
<1> QED BY <1>1, <1>2, <1>3, <1>4, LeaveTells

LEMMA KicksTell ==
    ASSUME Govords, NEW c \in Cids, NEW name \in ChanNames, NEW n \in Nicks, Kicks(c, name, n)
    PROVE  TellsMe
<1> DEFINE l == KickLine(c, name, client[Found(n)].nick)
           t == Found(n)
<1>1. t \in Cids
  BY DEF Kicks, KickNick, Govords, RegInv, RegTypeOK
<1>2. l \in ServerLines /\ l.cmd = "KICK" /\ l.nick = client[t].nick /\ l.chan = name
  <2>1. client[c].nick \in Shown /\ client[t].nick \in Shown
    BY <1>1, NickOf
  <2> HIDE DEF t
  <2> QED BY <2>1 DEF KickLine, ServerLines, t
<1>3. client'[Me].nick = client[Me].nick
  BY SpeakingKeepsNicks, SessionAssumption DEF Kicks, KickNick
<1>4. /\ joined' = [joined EXCEPT ![t] = @ \ {FoldName[name]}]
      /\ FoldName[name] \in channels /\ t \in channel[FoldName[name]].members
      /\ TellMembers(FoldName[name], l)
  BY DEF Kicks, KickNick, Kick
<1>5. FoldName[name] \in FoldedNames
  BY DEF FoldedNames
<1> HIDE DEF l, t
<1> QED BY <1>1, <1>2, <1>3, <1>4, <1>5, LeaveTells

\* SetToSeqs lists every member of a finite set.
LEMMA ListsAll ==
    ASSUME NEW S, IsFiniteSet(S), NEW f \in SetToSeqs(S)
    PROVE  {f[i] : i \in DOMAIN f} = S /\ f \in [1 .. Cardinality(S) -> S] /\ Cardinality(S) \in Nat
<1> DEFINE N == Cardinality(S)
<1>1. N \in Nat
  BY FS_CardinalityType
<1>2. f \in [1 .. N -> S] /\ \A i, j \in 1 .. N : i # j => f[i] # f[j]
  BY DEF SetToSeqs
<1>3. IsFiniteSet(1 .. N) /\ Cardinality(1 .. N) = N
  BY <1>1, FS_Interval
<1>4. f \in Injection(1 .. N, S)
  BY <1>2 DEF Injection, IsInjective
<1>5. f \in Surjection(1 .. N, S)
  BY <1>3, <1>4, FS_Injection
<1>6. \A x \in S : \E i \in 1 .. N : f[i] = x
  BY <1>5 DEF Surjection
<1> QED BY <1>1, <1>2, <1>6

LEMMA PartsAllTells ==
    ASSUME Govords, NEW c \in Cids, PartsAll(c)
    PROVE  TellsMe
<1> DEFINE S == joined[c] \cap joined[Me]
<1>1. PICK chans \in SetToSeqs(S) : Tell([i \in DOMAIN chans |-> PartLine(c, channel[chans[i]].name)])
  BY DEF PartsAll
<1>2. IsFiniteSet(S)
  <2>1. IsFiniteSet(joined[c])
    BY DEF Govords, LimitsInv, AtMost
  <2> QED BY <2>1, FS_Subset
<1>3. /\ {chans[i] : i \in DOMAIN chans} = S
      /\ chans \in [1 .. Cardinality(S) -> S] /\ Cardinality(S) \in Nat
  BY <1>1, <1>2, ListsAll
<1> DEFINE lines == [i \in DOMAIN chans |-> PartLine(c, channel[chans[i]].name)]
<1>4. ASSUME NEW k \in S
      PROVE  channel[k].name \in ChanNames \cup {NoName} /\ FoldName[channel[k].name] = k
  <2>1. k \in FoldedNames /\ k \in channels
    BY SessionAssumption DEF Govords, ChInv, ChTypeOK, ChannelTablesAgree
  <2>2. channel[k] \in Channel
    BY <2>1 DEF Govords, ChInv, ChTypeOK
  <2>3. FoldName[channel[k].name] = k
    BY <2>1 DEF Govords, ChInv, ChannelTablesAgree
  <2> QED BY <2>2, <2>3 DEF Channel
<1>5. ASSUME NEW i \in DOMAIN chans
      PROVE  /\ lines[i] \in ServerLines /\ lines[i].cmd = "PART" /\ lines[i].who = client[c].nick
             /\ FoldName[lines[i].chan] = chans[i]
  <2>1. chans[i] \in S
    BY <1>3
  <2>2. client[c].nick \in Shown
    BY NickOf
  <2> HIDE DEF S
  <2> QED BY <1>4, <2>1, <2>2 DEF PartLine, ServerLines
<1>6. lines \in Seq(ServerLines) /\ DOMAIN lines = DOMAIN chans
  <2>1. DOMAIN chans = 1 .. Cardinality(S)
    BY <1>3
  <2>2. \A i \in DOMAIN chans : PartLine(c, channel[chans[i]].name) \in ServerLines
    BY <1>5
  <2> HIDE DEF S
  <2> QED BY <1>3, <2>1, <2>2
<1>7. Tell(lines)
  BY <1>1
<1>8. {FoldName[lines[i].chan] : i \in DOMAIN lines} = S
  <2> HIDE DEF lines, S
  <2> QED BY <1>3, <1>5, <1>6
<1>9. client'[Me].nick = client[Me].nick
  BY SpeakingKeepsNicks, SessionAssumption DEF PartsAll, JoinZero
<1>10. joined' = [joined EXCEPT ![c] = {}] /\ joined \in [Cids -> SUBSET FoldedNames]
  BY DEF PartsAll, JoinZero, PartAll, Govords, ChInv, ChTypeOK
<1>11. \A i \in DOMAIN lines : lines[i].cmd = "PART" /\ lines[i].who = client[c].nick
  <2> HIDE DEF lines
  <2> QED BY <1>5, <1>6
<1> HIDE DEF lines
<1>12. CASE client[Me].nick = NoNick
  BY <1>6, <1>7, <1>12, NamelessTold DEF TellsMe
<1>13. CASE c = Me /\ client[Me].nick # NoNick
  <2>1. S = joined[Me] /\ joined'[Me] = {}
    BY <1>10, <1>13
  <2> HIDE DEF S
  <2>2. Tells(lines, client[Me].nick, joined[Me], client[Me].nick,
              joined[Me] \ {FoldName[lines[i].chan] : i \in DOMAIN lines})
    BY <1>6, <1>11, <1>13, PartsTold
  <2>3. joined[Me] \ {FoldName[lines[i].chan] : i \in DOMAIN lines} = joined'[Me]
    BY <1>8, <2>1
  <2> QED BY <1>6, <1>7, <1>9, <2>2, <2>3 DEF TellsMe
<1>14. CASE c # Me /\ client[Me].nick # NoNick
  <2>1. client[c].nick # client[Me].nick
    BY <1>14, NicksDiffer, SessionAssumption
  <2>2. Tells(lines, client[Me].nick, joined[Me], client[Me].nick, joined[Me])
    BY <1>6, <1>11, <2>1, PartsTold
  <2>3. joined'[Me] = joined[Me]
    BY <1>10, <1>14, SessionAssumption
  <2> QED BY <1>6, <1>7, <1>9, <2>2, <2>3 DEF TellsMe
<1> QED BY <1>12, <1>13, <1>14

-----------------------------------------------------------------------------
\* The session as a whole.

SessionTyped ==
    /\ session \in Sessions
    /\ outbox \in Seq(Commands)
    /\ inbox \in Seq(ServerLines)

SessionOK == Govords /\ SessionTyped

LEMMA CommandsAre ==
    ASSUME NEW l \in Commands
    PROVE  /\ l.cmd = "NICK" => l.nick \in Nicks
           /\ l.cmd \in {"JOIN", "PART"} => l.chan \in ChanNames
           /\ l.cmd = "KICK" => l.chan \in ChanNames /\ l.nick \in Nicks
BY DEF Commands

\* Whatever the server does, for the client or for the others, it tells the client.
LEMMA AnswersTell ==
    ASSUME Govords, NEW l \in Commands, Answer(l)
    PROVE  TellsMe
<1>1. Me \in Cids /\ client[Me] \in Client
  BY SessionAssumption, NickOf
<1>2. ASSUME NEW r \in Client, r.nick = client[Me].nick, LineLeaves(Me, r),
             UNCHANGED <<chVars, whVars>>, Tell(<<>>)
      PROVE  TellsMe
  BY <1>1, <1>2, LineLeavesNicks, NothingIsTold DEF chVars
<1>3. \A r \in Client : /\ TryCompleteRegistration(r) \in Client
                        /\ TryCompleteRegistration(r).nick = r.nick
  BY RegistryAssumption, ZenonT(40) DEF TryCompleteRegistration, Client, CloseState
<1>4. CASE l.cmd = "CAP LS" /\ RegistryOnly(CapLs(Me, TRUE)) /\ Tell(<<>>)
  <2> DEFINE r == [client[Me] EXCEPT !.cap302 = @ \/ TRUE,
                                     !.capNegotiating = @ \/ ~client[Me].registered]
  <2>1. r \in Client /\ r.nick = client[Me].nick
    BY <1>1 DEF Client
  <2>2. LineLeaves(Me, r) /\ UNCHANGED <<chVars, whVars>>
    BY <1>4 DEF RegistryOnly, CapLs
  <2> HIDE DEF r
  <2> QED BY <1>2, <1>4, <2>1, <2>2
<1>5. CASE l.cmd = "CAP END" /\ RegistryOnly(CapEnd(Me)) /\ Tell(<<>>)
  <2> DEFINE r == [client[Me] EXCEPT !.capNegotiating = FALSE]
  <2>1. r \in Client /\ r.nick = client[Me].nick
    BY <1>1 DEF Client
  <2>2. LineLeaves(Me, TryCompleteRegistration(r)) /\ UNCHANGED <<chVars, whVars>>
    BY <1>5 DEF RegistryOnly, CapEnd
  <2> HIDE DEF r
  <2> QED BY <1>2, <1>3, <1>5, <2>1, <2>2
<1>6. CASE l.cmd = "USER" /\ RegistryOnly(User(Me)) /\ Tell(<<>>)
  <2> DEFINE r == [client[Me] EXCEPT !.user = TRUE]
  <2>1. r \in Client /\ r.nick = client[Me].nick
    BY <1>1 DEF Client
  <2>2. LineLeaves(Me, TryCompleteRegistration(r)) /\ UNCHANGED <<chVars, whVars>>
    BY <1>6 DEF RegistryOnly, User
  <2> HIDE DEF r
  <2> QED BY <1>2, <1>3, <1>6, <2>1, <2>2
<1>7. CASE RegistryOnly(FirstNick(Me, l.nick)) /\ Tell(<<>>)
  <2>1. client[Me].nick = NoNick
    BY <1>7 DEF RegistryOnly, FirstNick
  <2>2. <<>> \in Seq(ServerLines)
    OBVIOUS
  <2> QED BY <1>7, <2>1, <2>2, NamelessTold DEF TellsMe
<1>8. CASE RegistryOnly(OtherLine(Me)) /\ Tell(<<>>)
  BY <1>1, <1>2, <1>8 DEF RegistryOnly, OtherLine
<1>9. CASE l.cmd = "NICK" /\ Renames(Me, l.nick)
  BY <1>1, <1>9, CommandsAre, RenamesTell
<1>10. CASE l.cmd = "JOIN" /\ Joins(Me, l.chan, NoChanKey)
  BY <1>1, <1>10, CommandsAre, JoinsTell
<1>11. CASE l.cmd = "PART" /\ Parts(Me, l.chan)
  BY <1>1, <1>11, CommandsAre, PartsTell
<1>12. CASE l.cmd = "KICK" /\ Kicks(Me, l.chan, l.nick)
  BY <1>1, <1>12, CommandsAre, KicksTell
<1>13. CASE PartsAll(Me)
  BY <1>1, <1>13, PartsAllTells
<1> QED BY <1>4, <1>5, <1>6, <1>7, <1>8, <1>9, <1>10, <1>11, <1>12, <1>13 DEF Answer

LEMMA OthersTell ==
    ASSUME Govords, NEW c \in Cids \ {Me}, Others(c)
    PROVE  TellsMe
<1>1. client \in [Cids -> Client] /\ joined \in [Cids -> SUBSET FoldedNames] /\ Me \in Cids
  BY SessionAssumption DEF Govords, RegInv, RegTypeOK, ChInv, ChTypeOK
<1>2. CASE Unheard(c) /\ Tell(<<>>)
  <2>1. ASSUME NEW r, LineLeaves(c, r) PROVE client'[Me] = client[Me]
    BY <1>1, <2>1 DEF LineLeaves
  <2>2. CASE RegistryOnly(HandshakeAction(c))
    <3>1. client'[Me] = client[Me]
      BY <1>1, <2>1, <2>2 DEF RegistryOnly, HandshakeAction, Accept, OtherLine, Pass, FirstNick,
          User, CapLs, CapReq, CapEnd, CapClear, Mark, Drop
    <3> QED BY <1>2, <2>2, <3>1, NothingIsTold DEF RegistryOnly, chVars
  <2>3. CASE TeardownClient(c)
    <3>1. client'[Me] = client[Me] /\ joined'[Me] = joined[Me]
      BY <1>1, <2>3 DEF TeardownClient, Teardown, RemoveFromAll
    <3> QED BY <1>2, <3>1, NothingIsTold
  <2>4. CASE \/ \E n \in Nicks, k \in FoldedNames : InviteNick(c, n, k)
             \/ \E k \in FoldedNames : ChannelMode(c, k)
             \/ \E k \in FoldedNames, topic \in Topics \cup {NoTopic} : ChannelTopic(c, k, topic)
    <3>1. Speaks(c) /\ joined' = joined
      BY <2>4 DEF InviteNick, ChannelMode, ChannelTopic, Invite, Mode, Topic
    <3>2. client'[Me].nick = client[Me].nick
      BY <1>1, <3>1, SpeakingKeepsNicks
    <3> QED BY <1>2, <3>1, <3>2, NothingIsTold
  <2> QED BY <1>2, <2>2, <2>3, <2>4 DEF Unheard
<1>3. CASE \E n \in Nicks : Renames(c, n)
  BY <1>3, RenamesTell
<1>4. CASE \E name \in ChanNames, key \in ChanKeys \cup {NoChanKey} : Joins(c, name, key)
  BY <1>4, JoinsTell
<1>5. CASE \E name \in ChanNames : Parts(c, name)
  BY <1>5, PartsTell
<1>6. CASE PartsAll(c)
  BY <1>6, PartsAllTells
<1>7. CASE \E name \in ChanNames, n \in Nicks : Kicks(c, name, n)
  BY <1>7, KicksTell
<1> QED BY <1>2, <1>3, <1>4, <1>5, <1>6, <1>7 DEF Others

\* What the user may type is typed.
LEMMA TypeTyped ==
    ASSUME SessionTyped, Type
    PROVE  /\ outbox' \in Seq(Commands) /\ session' \in Sessions
           /\ SameButTarget(session, session') /\ inbox' = inbox /\ UNCHANGED govordVars
<1>1. session \in Sessions /\ outbox \in Seq(Commands)
  BY DEF SessionTyped
<1>2. ASSUME NEW t \in Targets, session' = [session EXCEPT !.target = t]
      PROVE  session' \in Sessions /\ SameButTarget(session, session')
  BY <1>1, <1>2 DEF Sessions, SameButTarget
<1>3. ASSUME NEW l \in Commands, Send(l)
      PROVE  outbox' \in Seq(Commands) /\ inbox' = inbox /\ UNCHANGED govordVars
  BY <1>1, <1>3 DEF Send
<1>4. ASSUME NEW name \in ChanNames, TypeJoin(name)
      PROVE  /\ outbox' \in Seq(Commands) /\ session' \in Sessions
             /\ SameButTarget(session, session') /\ inbox' = inbox /\ UNCHANGED govordVars
  <2>1. JoinTyped(name) \in Commands /\ name \in Targets
    BY DEF JoinTyped, Commands, Targets
  <2> QED BY <1>2, <1>3, <1>4, <2>1 DEF TypeJoin
<1>5. ASSUME TypeOther
      PROVE  /\ outbox' \in Seq(Commands) /\ session' \in Sessions
             /\ SameButTarget(session, session') /\ inbox' = inbox /\ UNCHANGED govordVars
  <2>1. \E l \in Commands : Send(l)
    <3>1. CASE Send([cmd |-> "JOIN 0"])
      <4>1. [cmd |-> "JOIN 0"] \in Commands
        BY DEF Commands
      <4> QED BY <3>1, <4>1
    <3>2. CASE \E name \in ChanNames : Send([cmd |-> "PART", chan |-> name])
      <4>1. \A name \in ChanNames : [cmd |-> "PART", chan |-> name] \in Commands
        BY DEF Commands
      <4> QED BY <3>2, <4>1
    <3>3. CASE \E n \in Nicks : Send([cmd |-> "NICK", nick |-> n])
      <4>1. \A n \in Nicks : [cmd |-> "NICK", nick |-> n] \in Commands
        BY DEF Commands
      <4> QED BY <3>3, <4>1
    <3>4. CASE \E name \in ChanNames, n \in Nicks :
                  Send([cmd |-> "KICK", chan |-> name, nick |-> n])
      <4>1. \A name \in ChanNames, n \in Nicks :
                [cmd |-> "KICK", chan |-> name, nick |-> n] \in Commands
        BY DEF Commands
      <4> QED BY <3>4, <4>1
    <3> QED BY <1>5, <3>1, <3>2, <3>3, <3>4 DEF TypeOther
  <2>2. session' = session
    BY <1>5 DEF TypeOther
  <2> QED BY <1>1, <1>3, <2>1, <2>2 DEF SameButTarget
<1>6. ASSUME NEW t \in ChanNames \cup Nicks, Switch(t)
      PROVE  /\ outbox' \in Seq(Commands) /\ session' \in Sessions
             /\ SameButTarget(session, session') /\ inbox' = inbox /\ UNCHANGED govordVars
  <2>1. t \in Targets
    BY DEF Targets
  <2> QED BY <1>1, <1>2, <1>6, <2>1 DEF Switch
<1> QED BY <1>4, <1>5, <1>6 DEF Type

LEMMA ServeTells ==
    ASSUME SessionOK, Serve
    PROVE  TellsMe /\ outbox' \in Seq(Commands)
<1>1. Head(outbox) \in Commands /\ Tail(outbox) \in Seq(Commands)
  BY DEF Serve, SessionOK, SessionTyped
<1> QED BY <1>1, AnswersTell DEF Serve, SessionOK

LEMMA SessionTypedStep == SessionOK /\ [SessionNext]_sessionVars => SessionTyped'
<1> SUFFICES ASSUME SessionOK, [SessionNext]_sessionVars PROVE SessionTyped'
  OBVIOUS
<1>1. session \in Sessions /\ outbox \in Seq(Commands) /\ inbox \in Seq(ServerLines)
  BY DEF SessionOK, SessionTyped
<1>2. ASSUME TellsMe PROVE session' = session /\ inbox' \in Seq(ServerLines)
  BY <1>1, <1>2 DEF TellsMe, Tell
<1>3. CASE Connect \/ UNCHANGED sessionVars
  BY <1>1, <1>3 DEF Connect, sessionVars, clientVars, SessionTyped
<1>4. CASE Serve
  BY <1>1, <1>2, <1>4, ServeTells DEF SessionTyped
<1>5. CASE Read
  <2>1. Head(inbox) \in ServerLines /\ Tail(inbox) \in Seq(ServerLines)
    BY <1>1, <1>5 DEF Read
  <2>2. OnServerLine(session, Head(inbox)) \in Sessions
    BY <1>1, <2>1, LineRead
  <2> QED BY <1>1, <1>5, <2>1, <2>2 DEF Read, SessionTyped
<1>6. CASE Type
  BY <1>1, <1>6, TypeTyped DEF SessionOK, SessionTyped
<1>7. ASSUME NEW c \in Cids \ {Me}, Others(c) PROVE SessionTyped'
  BY <1>1, <1>2, <1>7, OthersTell DEF SessionOK, SessionTyped, Others
<1> QED BY <1>3, <1>4, <1>5, <1>6, <1>7 DEF SessionNext

LEMMA SessionPart == SessionTyped /\ [SessionNext]_sessionVars => [GovordNext]_govordVars
<1> SUFFICES ASSUME SessionTyped, [SessionNext]_sessionVars PROVE [GovordNext]_govordVars
  OBVIOUS
<1>1. Me \in Cids /\ \A name \in ChanNames : FoldName[name] \in FoldedNames
  BY SessionAssumption DEF FoldedNames
<1>2. ASSUME NEW c \in Cids, RegistryOnly(HandshakeAction(c)) PROVE GovordNext
  BY <1>2 DEF GovordNext
<1>3. ASSUME NEW c \in Cids, NEW n \in Nicks, Renames(c, n) PROVE GovordNext
  BY <1>3 DEF GovordNext, Renames
<1>4. ASSUME NEW c \in Cids, NEW name \in ChanNames, NEW key \in ChanKeys \cup {NoChanKey},
             Joins(c, name, key)
      PROVE  GovordNext
  BY <1>4 DEF GovordNext, ChannelStep, Joins
<1>5. ASSUME NEW c \in Cids, NEW name \in ChanNames, Parts(c, name) PROVE GovordNext
  BY <1>1, <1>5 DEF GovordNext, ChannelStep, Parts
<1>6. ASSUME NEW c \in Cids, NEW name \in ChanNames, NEW n \in Nicks, Kicks(c, name, n)
      PROVE  GovordNext
  BY <1>1, <1>6 DEF GovordNext, ChannelStep, Kicks
<1>7. ASSUME NEW c \in Cids, PartsAll(c) PROVE GovordNext
  BY <1>7 DEF GovordNext, ChannelStep, PartsAll
<1>8. ASSUME NEW l \in Commands, Answer(l) PROVE GovordNext
  <2>1. CASE \/ RegistryOnly(CapLs(Me, TRUE)) \/ RegistryOnly(CapEnd(Me)) \/ RegistryOnly(User(Me))
             \/ l.cmd = "NICK" /\ RegistryOnly(FirstNick(Me, l.nick))
             \/ RegistryOnly(OtherLine(Me))
    <3>1. RegistryOnly(HandshakeAction(Me))
      BY <2>1, CommandsAre DEF RegistryOnly, HandshakeAction
    <3> QED BY <1>1, <1>2, <3>1
  <2>2. CASE l.cmd = "NICK" /\ Renames(Me, l.nick)
    BY <1>1, <1>3, <2>2, CommandsAre
  <2>3. CASE l.cmd = "JOIN" /\ Joins(Me, l.chan, NoChanKey)
    BY <1>1, <1>4, <2>3, CommandsAre
  <2>4. CASE l.cmd = "PART" /\ Parts(Me, l.chan)
    BY <1>1, <1>5, <2>4, CommandsAre
  <2>5. CASE l.cmd = "KICK" /\ Kicks(Me, l.chan, l.nick)
    BY <1>1, <1>6, <2>5, CommandsAre
  <2>6. CASE PartsAll(Me)
    BY <1>1, <1>7, <2>6
  <2> QED BY <1>8, <2>1, <2>2, <2>3, <2>4, <2>5, <2>6 DEF Answer
<1>9. CASE Serve
  <2>1. Head(outbox) \in Commands
    BY <1>9 DEF Serve, SessionTyped
  <2> QED BY <1>8, <1>9, <2>1 DEF Serve
<1>10. CASE Connect
  <2>1. RegistryOnly(HandshakeAction(Me))
    BY <1>10 DEF Connect, RegistryOnly, HandshakeAction
  <2> QED BY <1>1, <1>2, <2>1
<1>11. CASE Read \/ UNCHANGED sessionVars
  BY <1>11 DEF Read, sessionVars
<1>12. CASE Type
  BY <1>12, TypeTyped
<1>13. ASSUME NEW c \in Cids \ {Me}, Others(c) PROVE GovordNext
  <2>1. CASE Unheard(c)
    BY <1>2, <2>1 DEF Unheard, GovordNext, ChannelStep
  <2> QED BY <1>3, <1>4, <1>5, <1>6, <1>7, <1>13, <2>1 DEF Others
<1> QED BY <1>9, <1>10, <1>11, <1>12, <1>13 DEF SessionNext

LEMMA SessionOKHolds == SessionSpec => []SessionOK
<1>1. SessionInit => SessionOK
  <2> SUFFICES ASSUME SessionInit PROVE SessionOK
    OBVIOUS
  <2>1. Govords
    BY RegInitInv, ChInitInv, LimitsInitInv DEF SessionInit, GovordInit, Govords
  <2>2. session \in Sessions
    <3>1. <<>> \in Seq(ChanNames) /\ NoTarget \in Targets /\ FirstName \in Nicks
      BY SessionAssumption DEF Targets
    <3> QED BY <3>1 DEF SessionInit, Sessions
  <2>3. outbox \in Seq(Commands)
    <3>1. /\ [cmd |-> "CAP LS"] \in Commands /\ [cmd |-> "USER"] \in Commands
          /\ [cmd |-> "CAP END"] \in Commands
      BY DEF Commands
    <3>2. [cmd |-> "NICK", nick |-> FirstName] \in Commands
      BY SessionAssumption DEF Commands
    <3>3. ASSUME NEW X, NEW a \in X, NEW b \in X, NEW c \in X, NEW d \in X
          PROVE  <<a, b, c, d>> \in Seq(X)
      OBVIOUS
    <3> HIDE DEF Commands
    <3>4. PICK a, b, c, d : /\ a = [cmd |-> "CAP LS"] /\ b = [cmd |-> "NICK", nick |-> FirstName]
                            /\ c = [cmd |-> "USER"] /\ d = [cmd |-> "CAP END"]
      OBVIOUS
    <3>5. <<a, b, c, d>> \in Seq(Commands)
      BY <3>1, <3>2, <3>3, <3>4
    <3>6. outbox = <<a, b, c, d>>
      BY <3>4 DEF SessionInit, Handshake
    <3> QED BY <3>5, <3>6
  <2>4. inbox \in Seq(ServerLines)
    BY DEF SessionInit
  <2> QED BY <2>1, <2>2, <2>3, <2>4 DEF SessionOK, SessionTyped
<1>2. SessionOK /\ [SessionNext]_sessionVars => SessionOK'
  <2> SUFFICES ASSUME SessionOK, [SessionNext]_sessionVars PROVE SessionOK'
    OBVIOUS
  <2>1. SessionTyped'
    BY SessionTypedStep
  <2>2. [GovordNext]_govordVars
    BY SessionPart DEF SessionOK
  <2>3. [RegNext]_regVars /\ [ChNext]_chVars
    BY <2>2, RegistryPart, ChannelsPart DEF SessionOK, Govords
  <2>4. RegInv' /\ ChInv' /\ LimitsInv'
    BY <2>3, RegNextInv, ChNextInv, LimitsStep DEF SessionOK, Govords
  <2> QED BY <2>1, <2>4 DEF SessionOK, Govords
<1> QED BY <1>1, <1>2, PTL DEF SessionSpec

-----------------------------------------------------------------------------
\* Staying in step.

\* Being in step, and talking to where one is, of what the client will have read.
LEMMA InStepIs ==
    /\ InStep <=> Knows(Caught, client[Me].nick, joined[Me])
    /\ InStep' <=> Knows(Caught', client'[Me].nick, joined'[Me])
<1>1. InStep <=> Knows(Caught, client[Me].nick, joined[Me])
  BY DEF InStep, Knows, Rooms
<1>2. InStep' <=> Knows(Caught', client'[Me].nick, joined'[Me])
  BY DEF InStep, Knows, Rooms
<1> QED BY <1>1, <1>2

LEMMA TargetHoldsIs ==
    /\ InStep => (TargetHolds <=> TargetKnown(Caught))
    /\ InStep' => (TargetHolds' <=> TargetKnown(Caught'))
<1>1. InStep => (TargetHolds <=> TargetKnown(Caught))
  BY InStepIs DEF TargetHolds, TargetKnown, Knows
<1>2. InStep' => (TargetHolds' <=> TargetKnown(Caught'))
  BY InStepIs DEF TargetHolds, TargetKnown, Knows
<1> QED BY <1>1, <1>2

\* Lines behind the others are read after them.
LEMMA ToldIsRead ==
    ASSUME SessionTyped, NEW lines \in Seq(ServerLines), Tell(lines)
    PROVE  Caught \in Sessions /\ Caught' = Reading!Fold(Caught, lines)
<1>1. session \in Sessions /\ inbox \in Seq(ServerLines) /\ session' = session /\ inbox' = inbox \o lines
  BY DEF SessionTyped, Tell
<1>2. Reading!Fold(session, inbox \o lines) = Reading!Fold(Reading!Fold(session, inbox), lines)
  BY <1>1, ReadingIsClosed, Reading!FoldOfConcat
<1>3. Reading!Fold(session, inbox) \in Sessions
  BY <1>1, ReadingIsClosed, Reading!FoldIsValue
<1> QED BY <1>1, <1>2, <1>3, CaughtIs

\* Reading a line was foreseen.
LEMMA ReadIsForeseen == SessionTyped /\ Read => Caught' = Caught
<1> SUFFICES ASSUME SessionTyped, Read PROVE Caught' = Caught
  OBVIOUS
<1>1. session \in Sessions /\ inbox \in Seq(ServerLines) /\ inbox # <<>>
      /\ session' = OnServerLine(session, Head(inbox)) /\ inbox' = Tail(inbox)
  BY DEF SessionTyped, Read
<1>2. Reading!Fold(session, inbox) = Reading!Fold(OnServerLine(session, Head(inbox)), Tail(inbox))
  BY <1>1, ReadingIsClosed, Reading!FoldOfFirst
<1> QED BY <1>1, <1>2, CaughtIs

LEMMA InStepStep == SessionOK /\ [SessionNext]_sessionVars /\ InStep => InStep'
<1> SUFFICES ASSUME SessionOK, [SessionNext]_sessionVars, InStep PROVE InStep'
  OBVIOUS
<1>1. SessionTyped /\ Govords /\ Me \in Cids
  BY SessionAssumption DEF SessionOK
<1>2. Knows(Caught, client[Me].nick, joined[Me])
  BY InStepIs
<1>3. ASSUME TellsMe PROVE InStep'
  <2>1. PICK lines \in Seq(ServerLines) :
            /\ Tell(lines)
            /\ Tells(lines, client[Me].nick, joined[Me], client'[Me].nick, joined'[Me])
    BY <1>3 DEF TellsMe
  <2>2. Caught \in Sessions /\ Caught' = Reading!Fold(Caught, lines)
    BY <1>1, <2>1, ToldIsRead
  <2>3. Knows(Reading!Fold(Caught, lines), client'[Me].nick, joined'[Me])
    BY <1>2, <2>1, <2>2 DEF Tells
  <2> QED BY <2>2, <2>3, InStepIs
<1>4. CASE Connect
  <2>1. client[Me].nick = NoNick
    BY <1>1, <1>4 DEF Connect, RegistryOnly, Accept, Govords, RegInv, RegTypeOK, NewClient
  <2>2. Caught \in Sessions
    BY <1>1, CaughtIs, ReadingIsClosed, Reading!FoldIsValue DEF SessionTyped
  <2> QED BY <1>2, <2>1, <2>2, IdsAssumption DEF Knows, Sessions
<1>5. CASE Serve
  BY <1>3, <1>5, ServeTells
<1>6. CASE Read
  <2>1. client' = client /\ joined' = joined
    BY <1>6 DEF Read, govordVars, regVars, chVars
  <2> QED BY <1>1, <1>2, <1>6, <2>1, InStepIs, ReadIsForeseen
<1>7. CASE Type
  <2>1. client' = client /\ joined' = joined
    BY <1>1, <1>7, TypeTyped DEF govordVars, regVars, chVars
  <2>2. SameButTarget(Reading!Fold(session, inbox), Reading!Fold(session', inbox))
    <3>1. session \in Sessions /\ session' \in Sessions /\ SameButTarget(session, session')
          /\ inbox \in Seq(ServerLines)
      BY <1>1, <1>7, TypeTyped DEF SessionTyped
    <3> QED BY <3>1, ReadingAlike
  <2>3. SameButTarget(Caught, Caught')
    BY <1>1, <1>7, <2>2, CaughtIs, TypeTyped
  <2>4. Knows(Caught', client[Me].nick, joined[Me])
    BY <1>2, <2>3 DEF Knows, SameButTarget, Rooms
  <2> QED BY <2>1, <2>4, InStepIs
<1>8. ASSUME NEW c \in Cids \ {Me}, Others(c) PROVE InStep'
  BY <1>1, <1>3, <1>8, OthersTell
<1>9. CASE UNCHANGED sessionVars
  BY <1>9 DEF sessionVars, clientVars, govordVars, regVars, chVars, InStep, Caught
<1> QED BY <1>4, <1>5, <1>6, <1>7, <1>8, <1>9 DEF SessionNext

\* A client that has its nick never loses track of its nick or of its channels:
\* every change the server makes of them is a line to it, under the nick it has
\* in that place of the stream, and onServerLine makes of the line what the
\* server made of its tables, however many lines are still under way.
THEOREM ClientStaysInStep == SessionSpec => StaysInStep
<1>1. SessionOK /\ [SessionNext]_sessionVars => [InStep => InStep']_sessionVars
  BY InStepStep
<1> QED BY <1>1, SessionOKHolds, PTL DEF SessionSpec, StaysInStep

LEMMA TargetStep ==
    ASSUME SessionOK, [SessionNext]_sessionVars, InStep, TargetHolds
    PROVE  \/ TargetHolds'
           \/ \E name \in ChanNames : outbox' = Append(outbox, JoinTyped(name))
<1>1. SessionTyped /\ Govords /\ InStep' /\ session \in Sessions /\ inbox \in Seq(ServerLines)
  BY InStepStep DEF SessionOK, SessionTyped
<1>2. TargetKnown(Caught)
  BY TargetHoldsIs
<1>3. TargetKnown(Caught') => TargetHolds'
  BY <1>1, TargetHoldsIs
<1>4. ASSUME TellsMe PROVE TargetHolds'
  <2>1. PICK lines \in Seq(ServerLines) : Tell(lines)
    BY <1>4 DEF TellsMe
  <2>2. Caught \in Sessions /\ Caught' = Reading!Fold(Caught, lines)
    BY <1>1, <2>1, ToldIsRead
  <2>3. TargetKnown(Reading!Fold(Caught, lines))
    BY <1>2, <2>2, ReadingKeepsTarget
  <2> QED BY <1>3, <2>2, <2>3
<1>5. CASE Connect \/ UNCHANGED sessionVars
  <2>1. session' = session /\ inbox' = inbox
    BY <1>5 DEF Connect, sessionVars, clientVars
  <2> QED BY <1>2, <1>3, <2>1, CaughtIs
<1>6. CASE Serve
  BY <1>4, <1>6, ServeTells
<1>7. CASE Read
  BY <1>1, <1>2, <1>3, <1>7, ReadIsForeseen
<1>8. ASSUME NEW name \in ChanNames, TypeJoin(name)
      PROVE  outbox' = Append(outbox, JoinTyped(name))
  BY <1>8 DEF TypeJoin, Send
<1>9. CASE TypeOther
  <2>1. session' = session
    BY <1>9 DEF TypeOther
  <2>2. inbox' = inbox
    BY <1>1, <1>9, TypeTyped DEF Type
  <2> QED BY <1>2, <1>3, <2>1, <2>2, CaughtIs
<1>10. ASSUME NEW t \in ChanNames \cup Nicks, Switch(t) PROVE TargetHolds'
  <2>1. session' = [session EXCEPT !.target = t] /\ inbox' = inbox
    BY <1>10 DEF Switch
  <2>2. session' \in Sessions /\ session'.target = t /\ session'.mine = session.mine
    BY <1>1, <2>1 DEF Sessions, Targets
  <2>3. t \in ChanNames => FoldName[t] \in Rooms(session)
    BY <1>10 DEF Switch, HasChan, SameChan, Rooms
  <2>4. TargetKnown(session')
    BY <2>2, <2>3 DEF TargetKnown, Rooms
  <2>5. TargetKnown(Reading!Fold(session', inbox))
    BY <1>1, <2>2, <2>4, ReadingKeepsTarget
  <2> QED BY <1>3, <2>1, <2>5, CaughtIs
<1>11. ASSUME NEW c \in Cids \ {Me}, Others(c) PROVE TargetHolds'
  BY <1>1, <1>4, <1>11, OthersTell
<1> QED BY <1>5, <1>6, <1>7, <1>8, <1>9, <1>10, <1>11 DEF SessionNext, Type

\* Nothing but a JOIN just typed turns a client in step to a channel it is not
\* in: a part, a kick or a JOIN 0, whoever sent it and whenever it is read, takes
\* the target to a channel that is left or to none, and /win and /switch reach
\* only the channels of the list.
THEOREM OnlyJoiningMisleads == SessionSpec => OnlyJoinMisleads
<1> DEFINE Misled == InStep /\ TargetHolds =>
                         \/ TargetHolds'
                         \/ \E name \in ChanNames : outbox' = Append(outbox, JoinTyped(name))
<1>1. SessionOK /\ [SessionNext]_sessionVars => [Misled]_sessionVars
  BY TargetStep
<1>2. SessionSpec => [][Misled]_sessionVars
  <2> HIDE DEF Misled
  <2> QED BY <1>1, SessionOKHolds, PTL DEF SessionSpec
<1> QED BY <1>2 DEF OnlyJoinMisleads

-----------------------------------------------------------------------------
\* The connection.
Socket ==
    [open : BOOLEAN, tls : BOOLEAN, closed : BOOLEAN,
     wantRead : BOOLEAN, wantWrite : BOOLEAN, sending : Int, held : Int]

\* Neither, or both, of what a connection consists of.
Released(s) == s.open = FALSE /\ s.tls = FALSE
Connected(s) == s.open = TRUE /\ s.tls = TRUE /\ s.closed = FALSE

\* Where the thread is after a connection was made; the socket is then live or
\* closed, and closed wherever nothing calls OpenSSL again.
SocketInv ==
    /\ sk \in Socket
    /\ at = "connect" => Released(sk) /\ sk.closed = FALSE
    /\ at # "connect" => Connected(sk) \/ (Released(sk) /\ sk.closed = TRUE)
    /\ at \in {"handshake", "reading", "writing"} => Connected(sk)
    /\ at = "exit" \/ mode = "failed" => sk.closed = TRUE

LEMMA SocketInit == LoopStart => SocketInv
  BY DEF LoopStart, SocketInv, Socket, Released, Connected

LEMMA ClosedIs ==
    ASSUME NEW s \in Socket
    PROVE  Closed(s) \in Socket /\ Released(Closed(s)) /\ Closed(s).closed = TRUE
  BY DEF Closed, Socket, Released

\* What send leaves of a socket.
LEMMA SentIs ==
    ASSUME NEW s \in Socket, NEW t \in Sent(s)
    PROVE  /\ t \in Socket
           /\ Connected(s) => Connected(t) \/ (Released(t) /\ t.closed = TRUE)
           /\ s.closed = TRUE => t = s
<1>1. CASE s.closed = TRUE
  BY <1>1 DEF Sent, Connected
<1>2. CASE s.closed # TRUE
  <2>1. PICK n \in Int : t = Closed(s) \/ t = [s EXCEPT !.sending = n]
    BY <1>2 DEF Sent, Socket
  <2>2. t = [s EXCEPT !.sending = n] =>
            t \in Socket /\ t.open = s.open /\ t.tls = s.tls /\ t.closed = s.closed
    BY DEF Socket
  <2> QED BY <1>2, <2>1, <2>2, ClosedIs DEF Connected
<1> QED BY <1>1, <1>2

\* A change that does not touch what the invariant is about.
Same(t) == t \in Socket /\ t.open = sk.open /\ t.tls = sk.tls /\ t.closed = sk.closed

\* No step separates the descriptor from the TLS object: both are made by
\* connect and released together by close.
LEMMA SocketStep == SocketInv /\ [LoopNext]_mainVars => SocketInv'
<1> SUFFICES ASSUME SocketInv, [LoopNext]_mainVars
             PROVE  SocketInv'
  OBVIOUS
<1> USE DEF SocketInv
<1>1. Closed(sk) \in Socket /\ Released(Closed(sk)) /\ Closed(sk).closed = TRUE
  BY ClosedIs
<1>2. ASSUME NEW s \in Socket, Returns(s), Connected(s) \/ (Released(s) /\ s.closed = TRUE),
             mode = "failed" => s.closed = TRUE
      PROVE  SocketInv'
  <2>1. CASE mode = "ending"
    BY <1>2, <2>1, ClosedIs DEF Returns, Goes
  <2>2. CASE mode # "ending"
    BY <1>2, <2>2 DEF Returns, Goes
  <2> QED BY <2>1, <2>2
<1>3. ASSUME NoAddress PROVE SocketInv'
  <2>1. sk' \in Socket /\ sk'.closed = TRUE /\ sk'.open = sk.open /\ sk'.tls = sk.tls
    BY <1>3 DEF NoAddress, Socket
  <2> QED BY <1>3, <2>1 DEF NoAddress, Released
<1>4. ASSUME TryAddress PROVE SocketInv'
  <2>1. CASE UNCHANGED <<at, sk, flights>>
    BY <1>4, <2>1 DEF TryAddress
  <2>2. CASE sk' = [sk EXCEPT !.open = TRUE, !.tls = TRUE] /\ at' = "handshake"
    <3>1. sk' \in Socket /\ sk'.open = TRUE /\ sk'.tls = TRUE /\ sk'.closed = sk.closed
      BY <2>2 DEF Socket
    <3> QED BY <1>4, <2>2, <3>1 DEF TryAddress, Connected
  <2> QED BY <1>4, <2>1, <2>2 DEF TryAddress
<1>5. ASSUME HandshakeGoesOn PROVE SocketInv'
  BY <1>5 DEF HandshakeGoesOn
<1>6. ASSUME HandshakeFails PROVE SocketInv'
  <2>1. sk' \in Socket /\ Released(sk') /\ sk'.closed = sk.closed
    BY <1>6 DEF HandshakeFails, Socket, Released
  <2> QED BY <1>6, <2>1 DEF HandshakeFails, Goes, Connected
<1>7. ASSUME HandshakeEnds PROVE SocketInv'
  <2>1. /\ sk' \in Socket
        /\ Connected(sk') \/ (Released(sk') /\ sk'.closed = TRUE)
    BY <1>7, SentIs DEF HandshakeEnds
  <2> QED BY <1>7, <2>1 DEF HandshakeEnds
<1>8. ASSUME Turn PROVE SocketInv'
  <2>1. ASSUME sk' \in Sent(sk)
        PROVE  /\ sk' \in Socket
               /\ at # "connect" => Connected(sk') \/ (Released(sk') /\ sk'.closed = TRUE)
    BY <2>1, SentIs DEF Connected
  <2> QED BY <1>1, <1>8, <2>1 DEF Turn, Goes
<1>9. ASSUME Poll PROVE SocketInv'
  <2>1. CASE Returns(sk)
    BY <1>2, <1>9, <2>1 DEF Poll
  <2>2. CASE Returns(Closed(sk))
    BY <1>1, <1>2, <2>2
  <2>3. CASE ~sk.closed /\ at' \in {"reading", "writing"} /\ UNCHANGED <<mode, sk>>
    BY <1>9, <2>3 DEF Poll, Connected
  <2> QED BY <1>9, <2>1, <2>2, <2>3 DEF Poll
<1>10. ASSUME ReadData PROVE SocketInv'
  <2>1. CASE sk' = [sk EXCEPT !.held = @ + 1] /\ UNCHANGED at
    <3>1. Same(sk')
      BY <2>1 DEF Same, Socket
    <3> QED BY <1>10, <2>1, <3>1 DEF ReadData, Same, Connected, Released
  <2>2. CASE sk' = Closed(sk) /\ at' = IF mode = "ending" THEN "exit" ELSE "keys"
    BY <1>1, <1>10, <2>2 DEF ReadData
  <2> QED BY <1>10, <2>1, <2>2 DEF ReadData
<1>11. ASSUME ReadStops PROVE SocketInv'
  <2>1. ASSUME NEW r \in BOOLEAN, NEW w \in BOOLEAN,
               sk' = [sk EXCEPT !.wantRead = r, !.wantWrite = w], Goes("lines")
        PROVE  SocketInv'
    <3>1. Same(sk')
      BY <2>1 DEF Same, Socket
    <3> QED BY <2>1, <3>1, <1>11 DEF ReadStops, Same, Connected, Released, Goes
  <2>2. CASE Returns(Closed(sk))
    BY <1>1, <1>2, <2>2
  <2> QED BY <1>11, <2>1, <2>2 DEF ReadStops
<1>12. ASSUME Lines PROVE SocketInv'
  <2>1. CASE Returns(sk)
    BY <1>2, <1>12, <2>1 DEF Lines
  <2>2. CASE Goes("writing") /\ UNCHANGED sk /\ ~sk.closed
    BY <1>12, <2>2 DEF Lines, Goes, Connected
  <2>3. CASE ~sk.closed /\ Goes("lines")
             /\ sk' \in Sent([sk EXCEPT !.held = @ - 1]) \cup {[sk EXCEPT !.held = @ - 1]}
    <3> DEFINE less == [sk EXCEPT !.held = @ - 1]
    <3>1. Same(less)
      BY DEF Same, Socket
    <3>2. Connected(less)
      BY <1>12, <2>3, <3>1 DEF Lines, Same, Connected
    <3>3. sk' \in Socket /\ (Connected(sk') \/ (Released(sk') /\ sk'.closed = TRUE))
      <4> HIDE DEF less
      <4>1. sk' \in Sent(less) \cup {less}
        BY <2>3 DEF less
      <4> QED BY <3>1, <3>2, <4>1, SentIs DEF Same
    <3>4. mode # "failed"
      BY <2>3
    <3> QED BY <2>3, <3>3, <3>4 DEF Goes
  <2> QED BY <1>12, <2>1, <2>2, <2>3 DEF Lines
<1>13. ASSUME Write PROVE SocketInv'
  <2>1. ASSUME NEW t \in Socket, Same(t), Returns(t)
        PROVE  SocketInv'
    BY <1>2, <1>13, <2>1 DEF Write, Same, Connected, Released
  <2>2. /\ Same([sk EXCEPT !.wantWrite = FALSE])
        /\ Same([sk EXCEPT !.wantWrite = TRUE])
        /\ Same([sk EXCEPT !.wantRead = TRUE])
        /\ Same([sk EXCEPT !.sending = @ - 1])
    <3>1. Same([sk EXCEPT !.wantWrite = FALSE])
      BY DEF Same, Socket
    <3>2. Same([sk EXCEPT !.wantWrite = TRUE])
      BY DEF Same, Socket
    <3>3. Same([sk EXCEPT !.wantRead = TRUE])
      BY DEF Same, Socket
    <3>4. Same([sk EXCEPT !.sending = @ - 1])
      BY DEF Same, Socket
    <3> QED BY <3>1, <3>2, <3>3, <3>4
  <2>3. CASE sk' = [sk EXCEPT !.sending = @ - 1] /\ Goes("writing")
    BY <1>13, <2>2, <2>3 DEF Write, Goes, Same, Connected, Released
  <2>4. CASE Returns(Closed(sk))
    BY <1>1, <1>2, <2>4
  <2> QED BY <1>13, <2>1, <2>2, <2>3, <2>4 DEF Write, Same
<1>14. ASSUME NoKey \/ EnterLine \/ EnterQuit \/ SequenceBegins \/ SequenceEnds
       PROVE  SocketInv'
  <2>1. ASSUME sk' \in Sent(sk), at # "connect"
        PROVE  /\ sk' \in Socket
               /\ Connected(sk') \/ (Released(sk') /\ sk'.closed = TRUE)
               /\ sk.closed = TRUE => sk'.closed = TRUE
    BY <2>1, SentIs DEF Connected
  <2> QED BY <1>14, <2>1 DEF NoKey, EnterLine, EnterQuit, SequenceBegins, SequenceEnds, Goes
<1>15. ASSUME Signal PROVE SocketInv'
  <2>1. CASE at = "poll" /\ Returns(sk)
    BY <1>2, <2>1
  <2>2. CASE UNCHANGED threadVars
    BY <2>2 DEF threadVars
  <2> QED BY <1>15, <2>1, <2>2 DEF Signal
<1>16. ASSUME PeerSends \/ PeerCloses \/ UNCHANGED mainVars PROVE SocketInv'
  BY <1>16 DEF PeerSends, PeerCloses, mainVars, threadVars
<1> QED
  BY <1>3, <1>4, <1>5, <1>6, <1>7, <1>8, <1>9, <1>10, <1>11, <1>12, <1>13, <1>14, <1>15, <1>16
  DEF LoopNext, Program, Keyboard

\* For any number of addresses and any sizes of the buffers, OpenSSL is given a live
\* connection wherever it is called, and what is given up is released.
THEOREM ConnectionIsUsedLive == LoopSpec => []UsedWhileLive
<1>1. SocketInv => UsedWhileLive
  BY DEF SocketInv, UsedWhileLive, Socket, Connected, Released
<1> QED BY <1>1, SocketInit, SocketStep, PTL DEF LoopSpec

=============================================================================

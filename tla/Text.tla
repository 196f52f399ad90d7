-------------------------------- MODULE Text --------------------------------
(***************************************************************************)
(* The text functions both programs rest on: splitting, case folding and   *)
(* globs (Utils.cpp), the tokenizer and the serializer of messages and     *)
(* what the client makes of a typed line (IrcMessage.cpp), ban masks       *)
(* (m_mode.cpp) and a PRIVMSG on its way from one client to another.       *)
(*                                                                         *)
(* A text is a sequence of symbols.  A symbol is one character, or a word  *)
(* that no function looks into ("PRIVMSG"), which counts as one.           *)
(***************************************************************************)
EXTENDS Integers, Sequences, SequencesExt, FiniteSetsExt

CONSTANTS
    MaxMiddle,      \* parameters before the last one takes the rest: 14
    MaxText         \* symbols of a message that are relayed: 400

\* There is room for a target beside the text, and for what marks an action.
ASSUME TextAssumption == MaxMiddle \in Nat \ {0} /\ MaxText \in Nat /\ MaxText >= 3

-----------------------------------------------------------------------------
\* std::string_view::find, 0 for npos.
Find(s, x) ==
    LET at == {i \in DOMAIN s : s[i] = x}
    IN  IF at = {} THEN 0 ELSE Min(at)

Before(s, x) == IF Find(s, x) = 0 THEN s ELSE SubSeq(s, 1, Find(s, x) - 1)
After(s, x)  == IF Find(s, x) = 0 THEN <<>> ELSE SubSeq(s, Find(s, x) + 1, Len(s))

TrimFront(s) ==
    LET kept == {i \in DOMAIN s : s[i] # " "}
    IN  IF kept = {} THEN <<>> ELSE SubSeq(s, Min(kept), Len(s))

\* Utils::split: the items between delimiters, empty ones left out.
Split(s, delim) ==
    LET from[start \in 1 .. Len(s) + 2] ==
            LET rest == SubSeq(s, start, Len(s))
                item == Before(rest, delim)
                next == from[start + Len(item) + 1]
            IN  IF start > Len(s) THEN <<>> ELSE IF item = <<>> THEN next ELSE <<item>> \o next
    IN  from[1]

\* ircFoldChar: the four brackets of RFC 1459, and one letter for all of them.
FoldTable == [x \in {"A", "[", "]", "\\", "^"} |->
    CASE x = "A" -> "a" [] x = "[" -> "{" [] x = "]" -> "}" [] x = "\\" -> "|" [] x = "^" -> "~"]

CaseFold(s) == [i \in DOMAIN s |-> IF s[i] \in DOMAIN FoldTable THEN FoldTable[s[i]] ELSE s[i]]

\* Mutation: a failed match is not tried again behind the last star.
GlobMatchOnce(pattern, text) ==
    LET p == CaseFold(pattern)
        t == CaseFold(text)
        run[pi \in 1 .. Len(p) + 1, ti \in 1 .. Len(t) + 1] ==
            IF ti > Len(t) THEN \A i \in pi .. Len(p) : p[i] = "*"
            ELSE IF pi > Len(p) THEN Len(p) > 0 /\ Last(p) = "*"
            ELSE IF p[pi] \in {"?", t[ti]} THEN run[pi + 1, ti + 1]
            ELSE p[pi] = "*" /\ run[pi + 1, ti]
    IN  run[1, 1]

\* Where globMatch is: in the pattern and in the text, the last star met (0 for npos)
\* and where it ends in the text, which is never behind ti.
At(pi, ti, star, match) == [pi |-> pi, ti |-> ti, star |-> star, match |-> match]

\* Utils::globMatch: one pass with a single point to return to, behind the last star.
GlobMatch(pattern, text) ==
    LET p == CaseFold(pattern)
        t == CaseFold(text)
        run[at \in [pi : 1 .. Len(p) + 1, ti : 1 .. Len(t) + 1,
                    star : 0 .. Len(p), match : 1 .. Len(t) + 1]] ==
            LET here == at.pi <= Len(p)
            IN  IF at.ti > Len(t) THEN \A i \in at.pi .. Len(p) : p[i] = "*"
                ELSE IF here /\ p[at.pi] \in {"?", t[at.ti]}
                     THEN run[At(at.pi + 1, at.ti + 1, at.star, at.match)]
                ELSE IF here /\ p[at.pi] = "*"
                     THEN run[At(at.pi + 1, at.ti, at.pi, at.ti)]
                ELSE /\ at.star # 0 /\ at.match <= Len(t)
                     /\ run[At(at.star + 1, at.match + 1, at.star, at.match + 1)]
    IN  run[At(1, 1, 0, 1)]

\* Mutation: a bare nick is taken for a host.
NormalizeToHost(m) ==
    IF m = <<>> THEN <<"*", "!", "*", "@", "*">>
    ELSE LET hasBang == Contains(m, "!")
             hasAt == Contains(m, "@")
         IN  CASE ~hasBang /\ ~hasAt -> <<"*", "!", "*", "@">> \o m
               [] ~hasBang /\ hasAt  -> <<"*", "!">> \o m
               [] hasBang /\ ~hasAt  -> m \o <<"@", "*">>
               [] OTHER              -> m

NormalizeBanMask(m) ==
    IF m = <<>> THEN <<"*", "!", "*", "@", "*">>
    ELSE LET hasBang == Contains(m, "!")
             hasAt == Contains(m, "@")
         IN  CASE ~hasBang /\ ~hasAt -> m \o <<"!", "*", "@", "*">>
               [] ~hasBang /\ hasAt  -> <<"*", "!">> \o m
               [] hasBang /\ ~hasAt  -> m \o <<"@", "*">>
               [] OTHER              -> m

\* nick!user@host
FullMask(c) == c.nick \o <<"!">> \o c.user \o <<"@">> \o c.host

IsBanned(masks, c) == \E m \in masks : GlobMatch(m, FullMask(c))

-----------------------------------------------------------------------------
\* unescapeTagValue: a backslash at the end is dropped.
UnescapeTable == [x \in {":", "s", "\\", "r", "n"} |->
    CASE x = ":" -> ";" [] x = "s" -> " " [] x = "\\" -> "\\" [] x = "r" -> "CR" [] x = "n" -> "LF"]

UnescapeTagValue(v) ==
    LET from[i \in 1 .. Len(v) + 1] ==
            IF i > Len(v) THEN <<>>
            ELSE IF v[i] # "\\" THEN <<v[i]>> \o from[i + 1]
            ELSE IF i = Len(v) THEN <<>>
            ELSE LET x == v[i + 1]
                 IN  <<IF x \in DOMAIN UnescapeTable THEN UnescapeTable[x] ELSE x>> \o from[i + 2]
    IN  from[1]

\* Mutation: the backslash itself is not escaped.
EscapeAllBut(v) ==
    LET escaped == {x \in DOMAIN UnescapeTable : UnescapeTable[x] # "\\"}
    IN  FlattenSeq([i \in DOMAIN v |->
            IF \E x \in escaped : UnescapeTable[x] = v[i]
            THEN <<"\\", CHOOSE x \in escaped : UnescapeTable[x] = v[i]>> ELSE <<v[i]>>])

EscapeTagValue(v) ==
    FlattenSeq([i \in DOMAIN v |->
        CASE v[i] = ";"  -> <<"\\", ":">>
          [] v[i] = " "  -> <<"\\", "s">>
          [] v[i] = "\\" -> <<"\\", "\\">>
          [] v[i] = "CR" -> <<"\\", "r">>
          [] v[i] = "LF" -> <<"\\", "n">>
          [] OTHER       -> <<v[i]>>])

NoPrefix == [nick |-> <<>>, user |-> <<>>, host |-> <<>>]

\* nick[!user][@host], or a server's name as the nick.  With '@' before '!' the length of the user part wraps
\* around, and substr takes all there is.
ParsePrefix(p) ==
    LET bang == Find(p, "!")
        at == Find(p, "@")
    IN  CASE bang = 0 /\ at = 0 -> [nick |-> p, user |-> <<>>, host |-> <<>>]
          [] bang # 0 /\ at = 0 -> [nick |-> Before(p, "!"), user |-> After(p, "!"), host |-> <<>>]
          [] bang = 0 /\ at # 0 -> [nick |-> Before(p, "@"), user |-> <<>>, host |-> After(p, "@")]
          [] OTHER -> [nick |-> Before(p, "!"),
                       user |-> IF bang < at THEN SubSeq(p, bang + 1, at - 1) ELSE After(p, "!"),
                       host |-> After(p, "@")]

ParseTag(tag) ==
    [k |-> Before(tag, "="), v |-> UnescapeTagValue(After(tag, "="))]

\* consumeToken: the token, and what follows it without its leading spaces.
Token(s) == Before(s, " ")
Rest(s)  == TrimFront(After(s, " "))

\* Mutation: a colon that opens the last parameter is kept.
TrailingWithColon(s) == s

Trailing(s) == IF s[1] = ":" THEN Tail(s) ELSE s

\* The parameters of s: up to MaxMiddle tokens, then a last one with spaces.
ParseParams(s) ==
    LET from[at \in (1 .. Len(s) + 1) \X (0 .. MaxMiddle)] ==
            LET i == at[1]
                n == at[2]
                rest == SubSeq(s, i, Len(s))
            IN  IF i > Len(s) THEN <<>>
                ELSE IF s[i] = ":" \/ n = MaxMiddle THEN <<Trailing(rest)>>
                ELSE <<Token(rest)>> \o from[<<Len(s) + 1 - Len(Rest(rest)), n + 1>>]
    IN  from[<<1, 0>>]

\* [@tags] [:prefix] <command> [params...] [:trailing].  No tags and an empty
\* list of them are one, no prefix and an empty one too.
TokenizeMsg(msg) ==
    LET ended == SubSeq(msg, 1, Max({0} \cup {i \in DOMAIN msg : msg[i] \notin {"CR", "LF"}}))
        line == TrimFront(ended)
        hasTags == line # <<>> /\ line[1] = "@"
        untagged == IF hasTags THEN Rest(line) ELSE line
        hasPrefix == untagged # <<>> /\ untagged[1] = ":"
        body == IF hasPrefix THEN Rest(untagged) ELSE untagged
        tags == Split(Tail(Token(line)), ";")
    IN  [tags    |-> IF hasTags THEN [i \in DOMAIN tags |-> ParseTag(tags[i])] ELSE <<>>,
         prefix  |-> IF hasPrefix THEN ParsePrefix(Tail(Token(untagged))) ELSE NoPrefix,
         command |-> Token(body),
         params  |-> ParseParams(Rest(body)),
         valid   |-> body # <<>>]

Joined(items, sep) ==
    FlattenSeq([i \in DOMAIN items |-> IF i = 1 THEN items[i] ELSE <<sep>> \o items[i]])

WriteTag(tag) == tag.k \o (IF tag.v = <<>> THEN <<>> ELSE <<"=">> \o EscapeTagValue(tag.v))

WritePrefix(p) ==
    p.nick \o (IF p.user = <<>> THEN <<>> ELSE <<"!">> \o p.user)
           \o (IF p.host = <<>> THEN <<>> ELSE <<"@">> \o p.host)

\* Only the last parameter may be empty, begin with a colon or hold spaces.
WriteParam(p, last) ==
    IF last /\ (p = <<>> \/ p[1] = ":" \/ Contains(p, " ")) THEN <<":">> \o p ELSE p

SerializeMsg(m) ==
    (IF m.tags = <<>> THEN <<>>
     ELSE <<"@">> \o Joined([i \in DOMAIN m.tags |-> WriteTag(m.tags[i])], ";") \o <<" ">>)
    \o (IF m.prefix = NoPrefix THEN <<>> ELSE <<":">> \o WritePrefix(m.prefix) \o <<" ">>)
    \o Joined(<<m.command>> \o [i \in DOMAIN m.params |->
                                  WriteParam(m.params[i], i = Len(m.params))], " ")

-----------------------------------------------------------------------------
\* toUpper, on the words the client knows.
ToUpper(s) ==
    [i \in DOMAIN s |-> CASE s[i] = "msg" -> "MSG" [] s[i] = "me" -> "ME" [] OTHER -> s[i]]

Privmsg(target, text) == <<"PRIVMSG", " ">> \o target \o <<" ", ":">> \o text

\* "\x01ACTION " and the closing "\x01"
Action(text) == <<"SOH", "ACTION", " ">> \o text \o <<"SOH">>

\* A typed line that begins with one slash.
FormatCommand(s, currentTarget) ==
    LET c == ToUpper(Token(TrimFront(s)))
        rest == Rest(TrimFront(s))
    IN  CASE c = <<"MSG">> -> Privmsg(Token(rest), Rest(rest))
          [] c = <<"ME">>  -> Privmsg(currentTarget, Action(rest))
          [] OTHER         -> IF rest = <<>> THEN c ELSE c \o <<" ">> \o rest

FormatOutbound(typed, currentTarget) ==
    LET input == TrimFront(typed)
    IN  CASE input = <<>> -> <<>>
          [] input # <<>> /\ input[1] # "/" -> Privmsg(currentTarget, input)
          [] Len(input) > 1 /\ input[1] = "/" /\ input[2] = "/" -> Privmsg(currentTarget, Tail(input))
          [] OTHER -> FormatCommand(Tail(input), currentTarget)

\* stripCRLF
StripCRLF(text, max) ==
    SubSeq([i \in DOMAIN text |-> IF text[i] \in {"CR", "LF", "NUL"} THEN " " ELSE text[i]],
           1, IF Len(text) < max THEN Len(text) ELSE max)

\* The lines a PRIVMSG of c is relayed as, one for each target.  Each target may
\* be refused for reasons of its own, and a nick is written as its owner does.
Relayed(c, m) ==
    IF Len(m.params) < 2 \/ m.params[1] = <<>> \/ m.params[2] = <<>> THEN <<>>
    ELSE LET targets == Split(m.params[1], ",")
         IN  [i \in DOMAIN targets |->
                <<":">> \o FullMask(c) \o <<" ">>
                \o Privmsg(targets[i], StripCRLF(m.params[2], MaxText)) \o <<"CR", "LF">>]

\* What the client shows of a relayed PRIVMSG.
Shown(line) ==
    LET m == TokenizeMsg(line)
        text == m.params[2]
        action == IsPrefix(<<"SOH", "ACTION", " ">>, text)
        said == IF ~action THEN text
                ELSE LET inner == SubSeq(text, 4, Len(text))
                     IN  IF inner # <<>> /\ Last(inner) = "SOH" THEN Front(inner) ELSE inner
    IN  [who |-> m.prefix.nick, to |-> m.params[1], action |-> action, text |-> said]

-----------------------------------------------------------------------------
\* Reference: what a glob means, prefix by prefix.
Matches(pattern, text) ==
    LET p == CaseFold(pattern)
        t == CaseFold(text)
        m[i \in 0 .. Len(p)] ==
            [j \in 0 .. Len(t) |->
                IF i = 0 THEN j = 0
                ELSE IF p[i] = "*" THEN m[i - 1][j] \/ (j > 0 /\ m[i][j - 1])
                ELSE j > 0 /\ p[i] \in {"?", t[j]} /\ m[i - 1][j - 1]]
    IN  m[Len(p)][Len(t)]

\* Reference: what the user said with a typed line, to whom and how.
Said(typed, currentTarget) ==
    LET input == TrimFront(typed)
        slash == input[1] = "/"
        doubled == Len(input) > 1 /\ input[2] = "/"
        words == ToUpper(Token(TrimFront(Tail(input))))
        rest == Rest(TrimFront(Tail(input)))
    IN  CASE ~slash -> [to |-> currentTarget, action |-> FALSE, text |-> input]
          [] slash /\ doubled -> [to |-> currentTarget, action |-> FALSE, text |-> Tail(input)]
          [] slash /\ ~doubled /\ words = <<"ME">> -> [to |-> currentTarget, action |-> TRUE, text |-> rest]
          [] OTHER -> [to |-> Token(rest), action |-> FALSE, text |-> Rest(rest)]

=============================================================================

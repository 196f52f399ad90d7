------------------------------- MODULE MCText -------------------------------
(***************************************************************************)
(* LineBuffer, LineEditor and Text for TLC.  In a "stream" behaviour one   *)
(* connection's bytes are cut into lines, in an "editor" behaviour a line  *)
(* is typed and edited; in the others two texts grow symbol by symbol and  *)
(* the functions of Text are compared with what they should return.        *)
(***************************************************************************)
EXTENDS LineBuffer, LineEditor, Text

CONSTANTS char, cr, lf,
    Kinds,      \* the kinds of behaviour this run has
    MaxLeft, MaxRight,
    MaxKept     \* bound on the bytes of history_

VARIABLES kind, left, right

MCBytes == {char, cr, lf}

\* "glob": a pattern and a text.  "ban": a nick mask and a user name.
\* "message": a tag's value and a last parameter.  "typed": a typed line.
LeftSymbols ==
    [glob    |-> {"*", "?", "a", "A", "b"},
     ban     |-> {"*", "?", "a", "b"},
     message |-> {";", " ", "\\", "LF", "n", "a"},
     typed   |-> {" ", "/", ":", "a", "msg", "me"}]

RightSymbols ==
    [glob    |-> {"a", "b"},
     ban     |-> {"*", "a", "b"},
     message |-> {" ", ":", "a"},
     typed   |-> {}]

\* What the client may be talking in: nothing yet, a channel, a nick, a list.
Targets == {<<>>, <<"#", "a">>, <<"b">>, <<"#", "a", ",", "b">>}

textVars == <<kind, left, right>>

TextInit ==
    /\ LineInit
    /\ EditInit
    /\ kind \in Kinds
    /\ left = <<>>
    /\ right \in IF kind = "typed" THEN Targets ELSE {<<>>}

TextNext ==
    \/ kind = "stream" /\ LineNext /\ UNCHANGED <<textVars, editVars>>
    \/ kind = "editor" /\ EditNext /\ UNCHANGED <<textVars, lineVars>>
    \/ /\ kind \notin {"stream", "editor"}
       /\ \/ /\ Len(left) < MaxLeft
             /\ \E s \in LeftSymbols[kind] : left' = Append(left, s)
             /\ UNCHANGED right
          \/ /\ Len(right) < MaxRight
             /\ \E s \in RightSymbols[kind] : right' = Append(right, s)
             /\ UNCHANGED left
       /\ UNCHANGED <<kind, lineVars, editVars>>

TextSpec == TextInit /\ [][TextNext]_<<lineVars, textVars, editVars>>

ShortHistory == MapThenSumSet(LAMBDA i : Len(history_[i]), DOMAIN history_) <= MaxKept

-----------------------------------------------------------------------------
\* globMatch's single return point, behind the last star, loses no match
\* (Utils.cpp:60-83): on texts with no star of their own it decides exactly the
\* meaning of the pattern.
GlobIsRight == kind = "glob" => (GlobMatch(left, right) <=> Matches(left, right))

\* A client of nick ab with the user name user.
Client(user) == [nick |-> <<"a", "b">>, user |-> user, host |-> <<"a", ":", "b">>]

\* A ban on a mask without '!' and '@' is for the nick alone ("nick only",
\* m_mode.cpp:86): it bans whoever has a matching nick, whatever the user name.
BansTheNick == IsBanned({NormalizeBanMask(left)}, Client(right)) <=> Matches(left, Client(right).nick)

\* So it is for every user name (one may hold any symbol but NUL, CR, LF, ' ', '@',
\* '!' and ':', Utils.cpp:124-134).
NickBansHold == kind = "ban" /\ left # <<>> /\ right # <<>> => BansTheNick

\* And so it is in the code for a user name without a star.
PlainNickBansHold == ~Contains(right, "*") => NickBansHold

\* tokenizeMsg reads back what serializeMsg has written: no tag value, however
\* escaped, and no last parameter, empty, with spaces or with a colon, is
\* confused with what stands around it, up to the last parameter there may be.
MessagesReadBack ==
    kind = "message" =>
        \A n \in 0 .. MaxMiddle :
            LET m == [tags |-> <<[k |-> <<"a">>, v |-> left], [k |-> <<"n">>, v |-> <<>>]>>,
                      prefix |-> Client(<<"a">>), command |-> <<"CMD">>,
                      params |-> [i \in 1 .. n |-> <<"a">>] \o <<right>>, valid |-> TRUE]
            IN  TokenizeMsg(SerializeMsg(m)) = m

\* The line says something to somebody: it is not a command of another kind.
Speaks ==
    LET input == TrimFront(left)
        command == Tail(input)
    IN  /\ input # <<>>
        /\ \/ input[1] # "/"
           \/ Len(input) > 1 /\ input[2] = "/"
           \/ ToUpper(Token(TrimFront(command))) = <<"ME">>
           \/ /\ ToUpper(Token(TrimFront(command))) = <<"MSG">>
              /\ LET to == Token(Rest(TrimFront(command))) IN to # <<>> /\ to[1] # ":"
              /\ Rest(Rest(TrimFront(command))) # <<>>

\* What is typed is what is shown: through formatOutbound, the server's
\* tokenizer, PRIVMSG and the other client's tokenizer, each target is shown
\* who spoke, where, and the text, cut to what the server relays.
TextArrives ==
    kind = "typed" /\ Speaks =>
        LET said == Said(left, right)
            room == IF said.action THEN MaxText - 3 ELSE MaxText
            lines == Relayed(Client(<<"a">>), TokenizeMsg(FormatOutbound(left, right)))
        IN  [i \in DOMAIN lines |-> Shown(lines[i])] =
            [i \in DOMAIN Split(said.to, ",") |->
                [who |-> <<"a", "b">>, to |-> Split(said.to, ",")[i], action |-> said.action,
                 text |-> SubSeq(said.text, 1,
                                 IF Len(said.text) < room THEN Len(said.text) ELSE room)]]

=============================================================================

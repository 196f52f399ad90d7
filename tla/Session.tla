------------------------------- MODULE Session -------------------------------
(***************************************************************************)
(* One user of govorirc, at the client Me, against govord.  The client     *)
(* keeps its own idea of its nick, of the channels it is in and of whom it *)
(* is talking to, and has nothing to form it from but the lines it reads;  *)
(* the server answers the lines it sent in their order, and between them   *)
(* the other clients do what they can.                                     *)
(*                                                                         *)
(* outbox and inbox are all there is of a direction: send buffer, network  *)
(* and receive buffer.  Of the lines read only those are here that change  *)
(* what the client keeps (the others are shown to the user, 001 and 433    *)
(* included), of those typed the ones whose answers do.  The connection of *)
(* Me lasts: nothing is promised to a client that has lost it.             *)
(***************************************************************************)
EXTENDS Govord, SequencesExt

CONSTANTS
    Me,         \* the cid of the client's connection
    FirstName,  \* the nick it was started with
    NoTarget,   \* the empty currentTarget
    MaxTyped    \* bound on the lines sent and not yet answered

ASSUME SessionAssumption ==
    /\ Me \in Cids
    /\ FirstName \in Nicks
    /\ NoTarget \notin Nicks \cup ChanNames
    /\ MaxTyped \in Nat

VARIABLES
    session,    \* what onServerLine and the line handler of the user keep
    outbox,     \* lines on their way to the server, oldest first
    inbox       \* lines on their way to the client, oldest first

clientVars == <<session, outbox, inbox>>
sessionVars == <<govordVars, clientVars>>

Targets == ChanNames \cup Nicks \cup {NoTarget}

-----------------------------------------------------------------------------
\* sendHandshake, without a password.
Handshake == <<[cmd |-> "CAP LS"], [cmd |-> "NICK", nick |-> FirstName],
               [cmd |-> "USER"], [cmd |-> "CAP END"]>>

SessionInit ==
    /\ GovordInit
    /\ session = [nick |-> FirstName, mine |-> <<>>, target |-> NoTarget]
    /\ outbox = Handshake
    /\ inbox = <<>>

\* sameNick, of a channel and of what may be one.
SameChan(name, t) == t \in ChanNames /\ FoldName[t] = FoldName[name]

HasChan(s, name) == \E i \in DOMAIN s.mine : SameChan(name, s.mine[i])

RemoveChan(s, name) ==
    LET kept[i \in 0 .. Len(s.mine)] ==
            IF i = 0 THEN <<>>
            ELSE IF SameChan(name, s.mine[i]) THEN kept[i - 1] ELSE Append(kept[i - 1], s.mine[i])
    IN  kept[Len(s.mine)]

\* PART and KICK of oneself: the target falls back to the channel joined last.
Out(s, name) ==
    LET rest == RemoveChan(s, name)
    IN  [s EXCEPT !.mine = rest,
                  !.target = IF ~SameChan(name, @) THEN @
                             ELSE IF rest = <<>> THEN NoTarget ELSE Last(rest)]

\* Mutation: KICK is taken for the kicker's own leaving.
OnLineOfKicker(s, l) ==
    CASE l.cmd = "JOIN" /\ l.who = s.nick ->
            [s EXCEPT !.target = l.chan, !.mine = IF HasChan(s, l.chan) THEN @ ELSE Append(@, l.chan)]
      [] l.cmd \in {"PART", "KICK"} /\ l.who = s.nick -> Out(s, l.chan)
      [] l.cmd = "NICK" /\ l.who = s.nick             -> [s EXCEPT !.nick = l.nick]
      [] OTHER -> s

\* Mutation: PART leaves the target alone.
OnLineKeepsTarget(s, l) ==
    CASE l.cmd = "JOIN" /\ l.who = s.nick ->
            [s EXCEPT !.target = l.chan, !.mine = IF HasChan(s, l.chan) THEN @ ELSE Append(@, l.chan)]
      [] l.cmd = "PART" /\ l.who = s.nick  -> [s EXCEPT !.mine = RemoveChan(s, l.chan)]
      [] l.cmd = "KICK" /\ l.nick = s.nick -> Out(s, l.chan)
      [] l.cmd = "NICK" /\ l.who = s.nick  -> [s EXCEPT !.nick = l.nick]
      [] OTHER -> s

\* onServerLine.  Nicks are compared as spelled, channels as folded.
OnServerLine(s, l) ==
    CASE l.cmd = "JOIN" /\ l.who = s.nick ->
            [s EXCEPT !.target = l.chan, !.mine = IF HasChan(s, l.chan) THEN @ ELSE Append(@, l.chan)]
      [] l.cmd = "PART" /\ l.who = s.nick  -> Out(s, l.chan)
      [] l.cmd = "KICK" /\ l.nick = s.nick -> Out(s, l.chan)
      [] l.cmd = "NICK" /\ l.who = s.nick  -> [s EXCEPT !.nick = l.nick]
      [] OTHER -> s

Read ==
    /\ inbox # <<>>
    /\ session' = OnServerLine(session, Head(inbox))
    /\ inbox' = Tail(inbox)
    /\ UNCHANGED <<govordVars, outbox>>

-----------------------------------------------------------------------------
\* What the user types.

Send(l) ==
    /\ Len(outbox) < MaxTyped
    /\ outbox' = Append(outbox, l)
    /\ UNCHANGED <<govordVars, inbox>>

JoinTyped(name) == [cmd |-> "JOIN", chan |-> name]

\* The target changes before the server has been asked.
TypeJoin(name) ==
    /\ Send(JoinTyped(name))
    /\ session' = [session EXCEPT !.target = name]

TypeOther ==
    /\ \/ Send([cmd |-> "JOIN 0"])
       \/ \E name \in ChanNames : Send([cmd |-> "PART", chan |-> name])
       \/ \E n \in Nicks : Send([cmd |-> "NICK", nick |-> n])
       \/ \E name \in ChanNames, n \in Nicks : Send([cmd |-> "KICK", chan |-> name, nick |-> n])
    /\ UNCHANGED session

\* handleLocalCommand: /win, /switch and /w.
Switch(t) ==
    /\ t \in ChanNames => HasChan(session, t)
    /\ session' = [session EXCEPT !.target = t]
    /\ UNCHANGED <<govordVars, outbox, inbox>>

Type ==
    \/ \E name \in ChanNames : TypeJoin(name)
    \/ TypeOther
    \/ \E t \in ChanNames \cup Nicks : Switch(t)

-----------------------------------------------------------------------------
\* What the server does, and the lines of it that reach Me.

Tell(lines) == inbox' = inbox \o lines /\ UNCHANGED session

\* broadcastChannel, before the handler removes anybody
TellMembers(k, l) == Tell(IF Me \in channel[k].members THEN <<l>> ELSE <<>>)

JoinLine(c, name)    == [cmd |-> "JOIN", who |-> client[c].nick, chan |-> name]
PartLine(c, name)    == [cmd |-> "PART", who |-> client[c].nick, chan |-> name]
KickLine(c, name, n) == [cmd |-> "KICK", who |-> client[c].nick, chan |-> name, nick |-> n]
NickLine(c, n)       == [cmd |-> "NICK", who |-> client[c].nick, nick |-> n]

Renames(c, n) ==
    /\ RenameTo(c, n)
    /\ Tell(IF c = Me \/ joined[c] \cap joined[Me] # {} THEN <<NickLine(c, n)>> ELSE <<>>)

Joins(c, name, key) ==
    /\ JoinChannel(c, name, key)
    /\ IF c = Me THEN Tell(<<JoinLine(c, name)>>) ELSE TellMembers(FoldName[name], JoinLine(c, name))

Parts(c, name) == PartChannel(c, FoldName[name]) /\ TellMembers(FoldName[name], PartLine(c, name))

Kicks(c, name, n) ==
    /\ KickNick(c, n, FoldName[name])
    /\ TellMembers(FoldName[name], KickLine(c, name, client[Found(n)].nick))

\* JOIN 0, in an order of its own; each line has the channel's own spelling.
PartsAll(c) ==
    /\ JoinZero(c)
    /\ \E chans \in SetToSeqs(joined[c] \cap joined[Me]) :
          Tell([i \in DOMAIN chans |-> PartLine(c, channel[chans[i]].name)])

\* The answers that are errors, or nothing at all.
NickRefused(n) == \/ n = client[Me].nick
                  \/ /\ NickExists(n)
                     /\ client[Me].nick # NoNick => Fold[n] # Fold[client[Me].nick]

JoinRefused(name) ==
    LET ch == channel[FoldName[name]] IN
    \/ Cardinality(joined[Me]) >= MaxChannelsPerUser
    \/ Me \in ch.members
    \/ FoldName[name] \in channels /\ ~Admits(ch, Me, NoChanKey, MatchedBy[client[Me].nick])
    \/ Cardinality(ch.members) >= MaxUsersPerChannel

KickRefused(name, n) ==
    LET ch == channel[FoldName[name]] IN Me \notin ch.operators \/ Found(n) \notin ch.members

Refused(l) ==
    \/ l.cmd = "NICK" /\ NickRefused(l.nick)
    \/ l.cmd \in {"JOIN", "PART", "KICK", "JOIN 0"} /\ ~client[Me].registered
    \/ l.cmd = "JOIN" /\ client[Me].registered /\ JoinRefused(l.chan)
    \/ l.cmd = "PART" /\ Me \notin channel[FoldName[l.chan]].members
    \/ l.cmd = "KICK" /\ client[Me].registered /\ KickRefused(l.chan, l.nick)

Answer(l) ==
    \/ l.cmd = "CAP LS" /\ RegistryOnly(CapLs(Me, TRUE)) /\ Tell(<<>>)
    \/ l.cmd = "CAP END" /\ RegistryOnly(CapEnd(Me)) /\ Tell(<<>>)
    \/ l.cmd = "USER" /\ RegistryOnly(User(Me)) /\ Tell(<<>>)
    \/ l.cmd = "NICK" /\ RegistryOnly(FirstNick(Me, l.nick)) /\ Tell(<<>>)
    \/ l.cmd = "NICK" /\ Renames(Me, l.nick)
    \/ l.cmd = "JOIN" /\ Joins(Me, l.chan, NoChanKey)
    \/ l.cmd = "PART" /\ Parts(Me, l.chan)
    \/ l.cmd = "KICK" /\ Kicks(Me, l.chan, l.nick)
    \/ l.cmd = "JOIN 0" /\ PartsAll(Me)
    \/ Refused(l) /\ RegistryOnly(OtherLine(Me)) /\ Tell(<<>>)

Serve ==
    /\ outbox # <<>>
    /\ Answer(Head(outbox))
    /\ outbox' = Tail(outbox)

Unheard(c) ==
    \/ RegistryOnly(HandshakeAction(c))
    \/ TeardownClient(c)
    \/ \E n \in Nicks, k \in FoldedNames : InviteNick(c, n, k)
    \/ \E k \in FoldedNames : ChannelMode(c, k)
    \/ \E k \in FoldedNames, topic \in Topics \cup {NoTopic} : ChannelTopic(c, k, topic)

Others(c) ==
    /\ \/ Unheard(c) /\ Tell(<<>>)
       \/ \E n \in Nicks : Renames(c, n)
       \/ \E name \in ChanNames, key \in ChanKeys \cup {NoChanKey} : Joins(c, name, key)
       \/ \E name \in ChanNames : Parts(c, name)
       \/ PartsAll(c)
       \/ \E name \in ChanNames, n \in Nicks : Kicks(c, name, n)
    /\ UNCHANGED outbox

Connect == RegistryOnly(Accept(Me)) /\ UNCHANGED clientVars

SessionNext ==
    \/ Connect
    \/ Serve
    \/ Read
    \/ Type
    \/ \E c \in Cids \ {Me} : Others(c)

SessionSpec == SessionInit /\ [][SessionNext]_sessionVars

-----------------------------------------------------------------------------
\* What the client will hold once it has read everything under way to it.
Caught == FoldLeft(OnServerLine, session, inbox)

\* The client knows its nick and its channels, up to what it has yet to read.
InStep ==
    LET s == Caught IN
    /\ s.nick = client[Me].nick
    /\ {FoldName[s.mine[i]] : i \in DOMAIN s.mine} = joined[Me]

\* Once the client has its nick it never loses track of nick or channels, however
\* renames, kicks and partings of everybody interleave with its own commands and
\* however late it reads: each change is told to it under the nick it has in that
\* place of the stream (govorirc.cpp:291-319).  Only a refused first nick (433),
\* which the client never looks at, leaves it without.
StaysInStep == [][InStep => InStep']_sessionVars

\* The target is a nick or nothing, or a channel the client is in.
TargetHolds == LET s == Caught IN s.target \in ChanNames => FoldName[s.target] \in joined[Me]

\* A client in step stops talking to a channel when it leaves it, whoever makes
\* it leave: nothing but a JOIN just typed sets its target to a channel it is not in.
OnlyJoinMisleads ==
    [][InStep /\ TargetHolds =>
          \/ TargetHolds'
          \/ \E name \in ChanNames : outbox' = Append(outbox, JoinTyped(name))]_sessionVars

\* "catch /join before sending over to server so currentTarget stays accurate"
\* (govorirc.cpp:407): with nothing under way the target is one the client has.
TargetIsAccurate == outbox = <<>> /\ inbox = <<>> => TargetHolds

=============================================================================

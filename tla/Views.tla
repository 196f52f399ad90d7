-------------------------------- MODULE Views --------------------------------
(***************************************************************************)
(* What the members of a channel know of it.  The handlers of govord tell  *)
(* the clients of a change by lines: JOIN, PART, KICK, QUIT, NICK, MODE    *)
(* and the numeric 353 that lists a channel to whoever joins it or asks.   *)
(* view is what a client that reads all of them, and nothing else, holds   *)
(* to be the members and the operators of each of its channels; lines      *)
(* still in a send buffer count as read, since they are read in order and  *)
(* nobody answers them.                                                    *)
(*                                                                         *)
(* Every action of Govord is here with the lines it sends, in the order it *)
(* sends them.  A client marked for closing is sent nothing (sendTo).      *)
(***************************************************************************)
EXTENDS Govord

VARIABLE view   \* view[c][k]: what c knows of the channel k, by nicks

viewsVars == <<govordVars, view>>

Blank == [here |-> {}, ops |-> {}]

ViewsInit ==
    /\ GovordInit
    /\ view = [c \in Cids |-> [k \in FoldedNames |-> Blank]]

-----------------------------------------------------------------------------
\* What a reader makes of one line about a channel.

SawJoin(v, n) == [here |-> v.here \cup {n}, ops |-> v.ops \ {n}]

SawLeave(v, n) == [here |-> v.here \ {n}, ops |-> v.ops \ {n}]

\* The entry of a nick takes the place of whatever stood under the new one.
SawRename(v, old, new) ==
    IF old \notin v.here THEN v
    ELSE [here |-> (v.here \ {old}) \cup {new},
          ops |-> IF old \in v.ops THEN (v.ops \ {old}) \cup {new} ELSE v.ops \ {new}]

\* A mode of somebody not in view is not shown.
SawMode(v, plus, minus) == [v EXCEPT !.ops = ((@ \ minus) \cup plus) \cap v.here]

-----------------------------------------------------------------------------
NicksOf(S) == {client[c].nick : c \in S}

\* sendTo appends to the buffer of c.
Gets(c) == client[c].close = "open"

\* broadcastChannel, before the handler removes anybody.
Hears(d, k) == d \in channel[k].members /\ Gets(d)

\* The 353 of JOIN and NAMES: every member, whether or not it said QUIT.
Listed(ch) == [here |-> NicksOf(ch.members), ops |-> NicksOf(ch.operators)]

\* The operators of k that a step has made, or unmade.
NewOps(k) == NicksOf(channel'[k].operators \ channel[k].operators)
LostOps(k) == NicksOf(channel[k].operators \ channel'[k].operators)

\* JOIN tells the members of c, and c of the members.
TellJoin(c, k) ==
    view' = [d \in Cids |-> [j \in FoldedNames |->
        LET v == view[d][j] IN
        IF j # k \/ ~Gets(d) THEN v
        ELSE IF d = c THEN Listed(channel'[k])
        ELSE IF Hears(d, k) THEN SawJoin(v, client[c].nick)
        ELSE v]]

\* Mutation: the successor is not announced.
TellLeaveOnly(c, S) ==
    view' = [d \in Cids |-> [k \in FoldedNames |->
        LET v == view[d][k] IN
        IF k \notin S \/ ~Hears(d, k) THEN v
        ELSE IF d = c THEN Blank
        ELSE SawLeave(v, client[c].nick)]]

\* PART, KICK and JOIN 0: a line to all members, then, from
\* removeClientFromChannel, the MODE of a successor to those who are left.
TellLeave(c, S) ==
    view' = [d \in Cids |-> [k \in FoldedNames |->
        LET v == view[d][k] IN
        IF k \notin S \/ ~Hears(d, k) THEN v
        ELSE IF d = c THEN Blank
        ELSE SawMode(SawLeave(v, client[c].nick), NewOps(k), {})]]

\* Those who share a channel with c.
Neighbours(c) == UNION {channel[k].members : k \in joined[c]}

TellQuit(c) ==
    view' = [d \in Cids |-> [k \in FoldedNames |->
        IF d \in Neighbours(c) \ {c} /\ Gets(d) THEN SawLeave(view[d][k], client[c].nick)
        ELSE view[d][k]]]

TellRename(c, n) ==
    view' = [d \in Cids |-> [k \in FoldedNames |->
        IF d \in Neighbours(c) \cup {c} /\ Gets(d) THEN SawRename(view[d][k], client[c].nick, n)
        ELSE view[d][k]]]

\* The announcement of MODE names what took effect (see ModeLine).
TellMode(k) ==
    view' = [d \in Cids |-> [j \in FoldedNames |->
        IF j = k /\ Hears(d, k) THEN SawMode(view[d][j], NewOps(k), LostOps(k)) ELSE view[d][j]]]

\* A teardown says nothing of the client itself; only a successor is announced.
TellTeardown(c) ==
    view' = [d \in Cids |-> [k \in FoldedNames |->
        IF d = c THEN Blank
        ELSE IF c \in channel[k].members /\ Hears(d, k) THEN SawMode(view[d][k], NewOps(k), {})
        ELSE view[d][k]]]

-----------------------------------------------------------------------------
\* Mutation: JOIN 0 leaves without a word.
Join0Silently(c) == JoinZero(c) /\ TellLeave(c, {})

Join0(c) == JoinZero(c) /\ TellLeave(c, joined[c])

KickTold(c, n, k) == KickNick(c, n, k) /\ TellLeave(Found(n), {k})

\* QUIT of a registered client; of any other it says nothing.
Quit(c) ==
    /\ RegistryOnly(Drop(c))
    /\ client[c].registered
    /\ TellQuit(c)

\* NAMES, from a member: the list replaces what it knew.
NamesOf(c, k) ==
    /\ Speaks(c)
    /\ UNCHANGED chVars
    /\ k \in channels
    /\ Hears(c, k)
    /\ view' = [view EXCEPT ![c][k] = Listed(channel[k])]

\* Handlers that tell the channels nothing.
Silent(c) ==
    \/ RegistryOnly(HandshakeAction(c))
    \/ \E n \in Nicks, k \in FoldedNames : InviteNick(c, n, k)
    \/ \E k \in FoldedNames, topic \in Topics \cup {NoTopic} : ChannelTopic(c, k, topic)

ViewsStep(c) ==
    \/ Silent(c) /\ UNCHANGED view
    \/ \E n \in Nicks : RenameTo(c, n) /\ TellRename(c, n)
    \/ TeardownClient(c) /\ TellTeardown(c)
    \/ Quit(c)
    \/ \E name \in ChanNames, key \in ChanKeys \cup {NoChanKey} :
          JoinChannel(c, name, key) /\ TellJoin(c, FoldName[name])
    \/ \E k \in FoldedNames : PartChannel(c, k) /\ TellLeave(c, {k})
    \/ Join0(c)
    \/ \E n \in Nicks, k \in FoldedNames : KickTold(c, n, k)
    \/ \E k \in FoldedNames : ChannelMode(c, k) /\ TellMode(k)
    \/ \E k \in FoldedNames : NamesOf(c, k)

ViewsNext == \E c \in Cids : ViewsStep(c)

ViewsSpec == ViewsInit /\ [][ViewsNext]_viewsVars

-----------------------------------------------------------------------------
\* PRIVMSG and NOTICE to a channel: a member that neither +m nor a ban keeps
\* silent, or that has a role.

\* Mutation: whoever is not banned may speak.
MaySpeakFromOutside(c, k) ==
    LET ch == channel[k] IN
    \/ c \in ch.operators \cup ch.voiced
    \/ "m" \notin ch.flags /\ ch.bans \cap MatchedBy[client[c].nick] = {}

MaySpeak(c, k) ==
    LET ch == channel[k] IN
    /\ c \in ch.members
    /\ \/ c \in ch.operators \cup ch.voiced
       \/ "m" \notin ch.flags /\ ch.bans \cap MatchedBy[client[c].nick] = {}

\* A line c sends to the channel k now reaches d; NOTICE alone spares c itself.
Reaches(c, k, d, notice) ==
    /\ RunsLine(c) /\ client[c].registered
    /\ MaySpeak(c, k)
    /\ Hears(d, k)
    /\ notice => d # c

-----------------------------------------------------------------------------
\* Types of the tables and of the views; the views hold channels' nicks only.
GovordTypeOK ==
    /\ RegTypeOK /\ ChTypeOK /\ WhTypeOK
    /\ view \in [Cids -> [FoldedNames -> [here : SUBSET Nicks, ops : SUBSET Nicks]]]
    /\ \A c \in Cids, k \in FoldedNames : view[c][k].ops \subseteq view[c][k].here

\* Nobody who can still act in a channel is hidden from a member of it: by the
\* JOIN, the list and every rename since, each open member has each member that
\* still runs lines under its present nick, and as an operator if and only if it
\* is one, successors included (Server.cpp:606).
ViewsMissNobody ==
    \A k \in channels : \A d, c \in channel[k].members :
        Gets(d) /\ RunsLine(c) =>
            /\ client[c].nick \in view[d][k].here
            /\ client[c].nick \in view[d][k].ops <=> c \in channel[k].operators

\* Whoever hears a channel message, by PRIVMSG or NOTICE, knows the speaker for
\* a member: no line of one who has left, or whom the viewer was told has left,
\* comes after that news (m_privmsg.cpp:73).
SpeakersAreSeen ==
    \A k \in channels, c, d \in Cids :
        Reaches(c, k, d, TRUE) => client[c].nick \in view[d][k].here

\* Nicks that d sees in k and that no member of k has.
Ghosts(d, k) == view[d][k].here \ NicksOf(channel[k].members)

\* A view becomes wrong in one way only, the teardown of a member whose QUIT
\* the viewer was not told: a lost connection, or a QUIT said before the viewer
\* joined and was shown the member in the list (Server.cpp:397, m_join.cpp:113).
GhostsAreLostClients ==
    [][\A d \in clients \cap clients', k \in channels \cap channels' :
          /\ Hears(d, k) /\ Hears(d, k)'
          /\ Cardinality(Ghosts(d, k)') > Cardinality(Ghosts(d, k))
          => \E c \in channel[k].members \ clients' : client[c].nick \in view[d][k].here]_viewsVars

=============================================================================

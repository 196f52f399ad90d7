------------------------------- MODULE Govord -------------------------------
(***************************************************************************)
(* The state of govord as a whole: the connection registry, the channels   *)
(* and the WHOWAS store, with the commands that reach across them.  This   *)
(* module decides who may run a channel command and which client a nick    *)
(* named in one stands for, and it joins the parts of the two handlers     *)
(* that change several tables: NICK and the teardown of a connection.      *)
(*                                                                         *)
(* A handler that broadcasts may mark recipients whose buffers overflow,   *)
(* and a handler that replies may mark its own client.  Nothing later in a *)
(* handler depends on that, so the marking is a step of its own (Mark and  *)
(* Drop in Registry), with no step of another client excluded before it.   *)
(***************************************************************************)
EXTENDS Registry, Channels, Whowas

CONSTANT MatchedBy      \* MatchedBy[n]: the masks that match the n!user@host of nick n

ASSUME GovordAssumption == MatchedBy \in [Nicks -> SUBSET Masks]

govordVars == <<regVars, chVars, whVars>>

GovordInit == RegInit /\ ChInit /\ WhInit

-----------------------------------------------------------------------------
\* Handlers and events that concern the registry alone.
RegistryOnly(A) == A /\ UNCHANGED <<chVars, whVars>>

\* Mutation: the new nick is recorded.
RenameRecordsNew(c, n) ==
    /\ Rename(c, n)
    /\ Record(n)
    /\ UNCHANGED chVars

\* NICK of a client that has a nick already gives the old one up, whether the
\* client is registered or not.
RenameTo(c, n) ==
    /\ Rename(c, n)
    /\ Record(client[c].nick)
    /\ UNCHANGED chVars

\* teardownClient: the nick, if any, is recorded, the channels are left, the
\* nick table entry goes.
TeardownClient(c) ==
    /\ Teardown(c)
    /\ RemoveFromAll(c)
    /\ IF client[c].nick = NoNick THEN UNCHANGED whVars ELSE Record(client[c].nick)

-----------------------------------------------------------------------------
\* The line handler lets a channel command of c through: anything but the
\* commands of the handshake answers 451 before registration.
Speaks(c) ==
    /\ RunsLine(c)
    /\ client[c].registered
    /\ LineLeaves(c, client[c])
    /\ UNCHANGED <<clients, nicks, whVars>>

\* findClientByNick
Found(n) == nicks[Fold[n]]

JoinChannel(c, name, key) ==
    /\ Speaks(c)
    /\ Join(c, name, key, MatchedBy[client[c].nick])

PartChannel(c, k) == Speaks(c) /\ Part(c, k)

JoinZero(c) == Speaks(c) /\ PartAll(c)

KickNick(c, n, k) ==
    /\ Speaks(c)
    /\ Found(n) \in clients
    /\ Kick(c, Found(n), k)

\* Mutation: INVITE does not ask whether its target is registered.
InviteAnyone(c, n, k) ==
    /\ Speaks(c)
    /\ Found(n) \in clients
    /\ Invite(c, Found(n), k)

InviteNick(c, n, k) ==
    /\ Speaks(c)
    /\ Found(n) \in clients
    /\ client[Found(n)].registered
    /\ Invite(c, Found(n), k)

ChannelMode(c, k) == Speaks(c) /\ Mode(c, k)

ChannelTopic(c, k, topic) == Speaks(c) /\ Topic(c, k, topic)

-----------------------------------------------------------------------------
HandshakeAction(c) ==
    \/ Accept(c)
    \/ OtherLine(c)
    \/ \E p \in Passwords \cup {NoPass} : Pass(c, p)
    \/ \E n \in Nicks : FirstNick(c, n)
    \/ User(c)
    \/ \E is302 \in BOOLEAN : CapLs(c, is302)
    \/ \E on \in SUBSET Caps : \E off \in SUBSET (Caps \ on) : CapReq(c, on, off)
    \/ CapEnd(c)
    \/ CapClear(c)
    \/ Mark(c)
    \/ Drop(c)

ChannelStep(c) ==
    \/ \E name \in ChanNames, key \in ChanKeys \cup {NoChanKey} : JoinChannel(c, name, key)
    \/ \E k \in FoldedNames : PartChannel(c, k)
    \/ JoinZero(c)
    \/ \E n \in Nicks, k \in FoldedNames : KickNick(c, n, k)
    \/ \E n \in Nicks, k \in FoldedNames : InviteNick(c, n, k)
    \/ \E k \in FoldedNames : ChannelMode(c, k)
    \/ \E k \in FoldedNames, topic \in Topics \cup {NoTopic} : ChannelTopic(c, k, topic)

GovordNext ==
    \E c \in Cids :
        \/ RegistryOnly(HandshakeAction(c))
        \/ \E n \in Nicks : RenameTo(c, n)
        \/ TeardownClient(c)
        \/ ChannelStep(c)

GovordSpec == GovordInit /\ [][GovordNext]_govordVars

-----------------------------------------------------------------------------
\* The cids a channel holds in any of its sets.
Holds(ch) == ch.members \cup ch.operators \cup ch.voiced \cup ch.invited

\* Every cid in a channel, an invited one included, is that of a connected and
\* registered client: INVITE tests it for its target, and the teardown erases
\* the cid from every set of every channel (Server.cpp:634-642), so that no
\* role or invitation outlives its connection.
ChannelsHoldClients ==
    \A k \in channels : \A c \in Holds(channel[k]) :
        c \in clients /\ client[c].registered

\* Whoever is in a channel is found under the nick shown there: KICK and MODE
\* reach every member by the nick the others know it by.
MembersAreFound ==
    \A k \in channels : \A c \in channel[k].members :
        client[c].nick # NoNick /\ Found(client[c].nick) = c

\* The spellings of k that a client shows no longer after this step, by a
\* rename, a QUIT or a lost connection.
GivenUp(k) ==
    {n \in Nicks : Fold[n] = k /\ \E c \in clients : client[c].nick = n /\ client'[c].nick # n}

\* Whatever way a nick is given up, WHOWAS then lists it first (as long as the
\* store is not full, when the new entry may be the one evicted), and nothing
\* is listed that was not given up.
GivenUpIsRecorded ==
    [][\A k \in FoldedNicks :
          IF GivenUp(k) = {} THEN IsPrefixOf(history'[k], history[k])
          ELSE Len(order) < MaxTotal =>
              history'[k] # <<>> /\ history'[k][1] \in GivenUp(k)]_govordVars

=============================================================================

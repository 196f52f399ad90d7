------------------------------ MODULE Channels ------------------------------
(***************************************************************************)
(* The channels of govord: Server::channels_, the back pointers each       *)
(* Client keeps to them, and the commands that change them (JOIN, PART,    *)
(* KICK, INVITE, MODE, TOPIC) or leave them all at once (JOIN 0 and the    *)
(* teardown of a connection), with operator succession.                    *)
(*                                                                         *)
(* A refused command changes nothing and is not an action here.  A JOIN or *)
(* PART of a list is the same as its elements one after the other: no      *)
(* other line runs in between, and each element is decided on the state    *)
(* its predecessors left.  Who may speak for a cid, and which cid a nick   *)
(* stands for, is the registry's business (module Govord).                 *)
(***************************************************************************)
EXTENDS Ids, Integers, FiniteSets

CONSTANTS
    ChanNames,              \* valid channel names as spelled by clients
    NoName,                 \* the name of a channel that does not exist
    FoldName,               \* Utils::ircCaseFold on channel names
    Flags,                  \* those of the modes i, t and m that are used
    ChanKeys, NoChanKey,    \* Channel::key, and the empty key
    Limits,                 \* what parsePositiveLimit may return
    Masks,                  \* normalised ban masks
    Topics, NoTopic,        \* Channel::topic, and the empty topic
    MaxChannelsPerUser, MaxUsersPerChannel, MaxBanList, MaxInvites,
    MaxJoinSeq              \* bound on Channel::nextJoinSeq, a 64-bit counter

ASSUME ChannelsAssumption ==
    /\ NoName \notin ChanNames
    /\ DOMAIN FoldName = ChanNames
    /\ Flags \subseteq {"i", "t", "m"}
    /\ Limits \subseteq Nat \ {0}
    /\ MaxChannelsPerUser \in Nat
    /\ MaxUsersPerChannel \in Nat \ {0}
    /\ MaxBanList \in Nat
    /\ MaxInvites \in Nat
    /\ MaxJoinSeq \in Nat

VARIABLES
    channels,   \* the folded names in Server::channels_
    channel,    \* channel[k]: the Channel of k (NoChannel while k is not in channels)
    joined      \* joined[c]: the channels Client::channels of c points to

chVars == <<channels, channel, joined>>

-----------------------------------------------------------------------------
FoldedNames == {FoldName[n] : n \in ChanNames}

NoSeq == -1     \* no entry in Channel::joinOrder

Channel ==
    [name : ChanNames \cup {NoName},
     members : SUBSET Cids, operators : SUBSET Cids, voiced : SUBSET Cids,
     invited : SUBSET Cids,
     flags : SUBSET Flags, key : ChanKeys \cup {NoChanKey}, limit : Limits \cup {0},
     bans : SUBSET Masks, topic : Topics \cup {NoTopic},
     joinOrder : [Cids -> Nat \cup {NoSeq}], nextJoinSeq : Nat]

NoChannel ==
    [name |-> NoName,
     members |-> {}, operators |-> {}, voiced |-> {}, invited |-> {},
     flags |-> {}, key |-> NoChanKey, limit |-> 0, bans |-> {}, topic |-> NoTopic,
     joinOrder |-> [c \in Cids |-> NoSeq], nextJoinSeq |-> 0]

ChInit ==
    /\ channels = {}
    /\ channel = [k \in FoldedNames |-> NoChannel]
    /\ joined = [c \in Cids |-> {}]

-----------------------------------------------------------------------------
\* joinOrder.find(c), where a missing entry counts as the latest of all.
JoinSeq(ch, c) == IF ch.joinOrder[c] = NoSeq THEN ch.nextJoinSeq ELSE ch.joinOrder[c]

\* Mutation: the comparison of the join order is the wrong way round.
Junior(ch) ==
    CHOOSE c \in ch.members : \A d \in ch.members : JoinSeq(ch, d) <= JoinSeq(ch, c)

\* The longest-standing member: the one succeedOpIfNeeded chooses.
Senior(ch) ==
    CHOOSE c \in ch.members : \A d \in ch.members : JoinSeq(ch, c) <= JoinSeq(ch, d)

SucceedOpIfNeeded(ch) ==
    IF ch.members = {} \/ ch.operators # {} THEN ch
    ELSE [ch EXCEPT !.operators = {Senior(ch)}]

\* Mutation: a departure forgets the voice.
WithoutRoles(ch, c) ==
    [ch EXCEPT !.members = @ \ {c}, !.operators = @ \ {c},
               !.invited = @ \ {c}, !.joinOrder[c] = NoSeq]

\* The erasures every departure begins with.
Without(ch, c) ==
    [ch EXCEPT !.members = @ \ {c}, !.operators = @ \ {c}, !.voiced = @ \ {c},
               !.invited = @ \ {c}, !.joinOrder[c] = NoSeq]

\* What c's departure makes of a channel: nothing of an emptied one, and a
\* successor where the last operator left.  For a channel c is not in, only
\* an invitation goes (Server.cpp:634-642).
Departed(ch, c) ==
    LET rest == Without(ch, c) IN
    IF rest.members = {} THEN NoChannel
    ELSE IF c \in ch.members THEN SucceedOpIfNeeded(rest)
    ELSE rest

\* Mutation: an emptied channel is erased under its name as spelled.
DepartFromUnfolded(c, S) ==
    /\ channels' = channels \ {channel[k].name : k \in {k \in S : channel[k].members \subseteq {c}}}
    /\ channel' = [k \in FoldedNames |->
                      IF k \in S THEN Departed(channel[k], c) ELSE channel[k]]

\* c departs from the channels in S at once; an emptied one is erased under
\* the folding of its own name, as eraseChannel does.
DepartFrom(c, S) ==
    LET emptied == {k \in S : channel[k].members \subseteq {c}} IN
    /\ channels' = channels \ {FoldName[channel[k].name] : k \in emptied}
    /\ channel' = [k \in FoldedNames |->
                      IF k \in S THEN Departed(channel[k], c) ELSE channel[k]]

\* isBanned, +i, +k and +l, each of which an invitation bypasses; matching is
\* the set of masks that match c's current nick!user@host.
Admits(ch, c, key, matching) ==
    \/ c \in ch.invited
    \/ /\ ch.bans \cap matching = {}
       /\ "i" \notin ch.flags
       /\ ch.key \in {NoChanKey, key}
       /\ ch.limit = 0 \/ Cardinality(ch.members) < ch.limit

\* getOrCreateChannel: the first spelling of a name becomes the channel's.
GetOrCreate(name) ==
    IF FoldName[name] \in channels THEN channel[FoldName[name]]
    ELSE [NoChannel EXCEPT !.name = name]

Enters(ch, c, created) ==
    [ch EXCEPT !.members = @ \cup {c},
               !.joinOrder[c] = ch.nextJoinSeq,
               !.nextJoinSeq = @ + 1,
               !.operators = IF created THEN @ \cup {c} ELSE @,
               !.invited = @ \ {c}]

-----------------------------------------------------------------------------
\* Mutation: who is in the channel already may join it again.
JoinAgain(c, name, key, matching) ==
    LET k == FoldName[name]
        ch == GetOrCreate(name)
    IN
    /\ k \in joined[c] \/ Cardinality(joined[c]) < MaxChannelsPerUser
    /\ k \in channels => Admits(ch, c, key, matching)
    /\ Cardinality(ch.members) < MaxUsersPerChannel
    /\ ch.nextJoinSeq < MaxJoinSeq
    /\ channels' = channels \cup {k}
    /\ channel' = [channel EXCEPT ![k] = Enters(ch, c, k \notin channels)]
    /\ joined' = [joined EXCEPT ![c] = @ \cup {k}]

\* Mutation: JOIN tests no limit.
JoinUnlimited(c, name, key, matching) ==
    LET k == FoldName[name]
        ch == GetOrCreate(name)
    IN
    /\ c \notin ch.members
    /\ k \in channels => Admits(ch, c, key, matching)
    /\ ch.nextJoinSeq < MaxJoinSeq
    /\ channels' = channels \cup {k}
    /\ channel' = [channel EXCEPT ![k] = Enters(ch, c, k \notin channels)]
    /\ joined' = [joined EXCEPT ![c] = @ \cup {k}]

Join(c, name, key, matching) ==
    LET k == FoldName[name]
        ch == GetOrCreate(name)
    IN
    /\ Cardinality(joined[c]) < MaxChannelsPerUser
    /\ c \notin ch.members
    /\ k \in channels => Admits(ch, c, key, matching)
    /\ Cardinality(ch.members) < MaxUsersPerChannel
    /\ ch.nextJoinSeq < MaxJoinSeq
    /\ channels' = channels \cup {k}
    /\ channel' = [channel EXCEPT ![k] = Enters(ch, c, k \notin channels)]
    /\ joined' = [joined EXCEPT ![c] = @ \cup {k}]

Part(c, k) ==
    /\ k \in channels
    /\ c \in channel[k].members
    /\ DepartFrom(c, {k})
    /\ joined' = [joined EXCEPT ![c] = @ \ {k}]

\* JOIN 0
PartAll(c) ==
    /\ DepartFrom(c, {k \in joined[c] : k \in channels /\ c \in channel[k].members})
    /\ joined' = [joined EXCEPT ![c] = {}]

Kick(c, target, k) ==
    /\ k \in channels
    /\ c \in channel[k].members
    /\ c \in channel[k].operators
    /\ target \in channel[k].members
    /\ DepartFrom(target, {k})
    /\ joined' = [joined EXCEPT ![target] = @ \ {k}]

Invite(c, target, k) ==
    /\ k \in channels
    /\ c \in channel[k].members
    /\ target \notin channel[k].members
    /\ "i" \in channel[k].flags => c \in channel[k].operators
    /\ Cardinality(channel[k].invited) < MaxInvites
    /\ channel' = [channel EXCEPT ![k].invited = @ \cup {target}]
    /\ UNCHANGED <<channels, joined>>

\* std::set of at most MAX_BAN_LIST masks.
BanLists == {b \in SUBSET Masks : IsFiniteSet(b) /\ Cardinality(b) <= MaxBanList}

\* What one MODE line can leave behind.  Its letters are applied in turn and
\* the authority to use them is tested once, before the first, so a long
\* enough line sets every mode to any value it may have (see ModeLine, which
\* runs the letters one by one).
ModeSettings(ch) ==
    [flags : SUBSET Flags, key : ChanKeys \cup {NoChanKey}, limit : Limits \cup {0},
     bans : BanLists,
     operators : SUBSET ch.members, voiced : SUBSET ch.members]

SetModes(ch, m) ==
    [ch EXCEPT !.flags = m.flags, !.key = m.key, !.limit = m.limit, !.bans = m.bans,
               !.operators = m.operators, !.voiced = m.voiced]

\* Mutation: every member may set modes.
ModeByMember(c, k) ==
    /\ k \in channels
    /\ c \in channel[k].members
    /\ \E m \in ModeSettings(channel[k]) : channel' = [channel EXCEPT ![k] = SetModes(@, m)]
    /\ UNCHANGED <<channels, joined>>

Mode(c, k) ==
    /\ k \in channels
    /\ c \in channel[k].operators
    /\ \E m \in ModeSettings(channel[k]) : channel' = [channel EXCEPT ![k] = SetModes(@, m)]
    /\ UNCHANGED <<channels, joined>>

Topic(c, k, topic) ==
    /\ k \in channels
    /\ c \in channel[k].members
    /\ "t" \in channel[k].flags => c \in channel[k].operators
    /\ channel' = [channel EXCEPT ![k].topic = topic]
    /\ UNCHANGED <<channels, joined>>

\* removeClientFromAllChannels, in the teardown of c.
RemoveFromAll(c) ==
    /\ DepartFrom(c, channels)
    /\ joined' = [joined EXCEPT ![c] = {}]

\* Every step but MODE.
OtherStep(c) ==
    \/ \E name \in ChanNames, key \in ChanKeys \cup {NoChanKey}, matching \in SUBSET Masks :
          Join(c, name, key, matching)
    \/ \E k \in FoldedNames : Part(c, k)
    \/ PartAll(c)
    \/ \E target \in Cids, k \in FoldedNames : Kick(c, target, k)
    \/ \E target \in Cids, k \in FoldedNames : Invite(c, target, k)
    \/ \E k \in FoldedNames, topic \in Topics \cup {NoTopic} : Topic(c, k, topic)
    \/ RemoveFromAll(c)

ChStep(c) ==
    \/ OtherStep(c)
    \/ \E k \in FoldedNames : Mode(c, k)

ChNext == \E c \in Cids : ChStep(c)

ChSpec == ChInit /\ [][ChNext]_chVars

-----------------------------------------------------------------------------
\* Types, and the record of a channel that does not exist is blank.
ChTypeOK ==
    /\ channels \subseteq FoldedNames
    /\ channel \in [FoldedNames -> Channel]
    /\ joined \in [Cids -> SUBSET FoldedNames]
    /\ \A k \in FoldedNames \ channels : channel[k] = NoChannel

\* A channel exists exactly while it has members, is found under the folding
\* of the name it was created with (eraseChannel folds that name again), and
\* is in Client::channels of exactly its members: no client keeps a pointer
\* into an erased or foreign channel (Server.cpp:528,597,622,645).
ChannelTablesAgree ==
    /\ \A k \in channels : channel[k].members # {} /\ FoldName[channel[k].name] = k
    /\ \A c \in Cids, k \in FoldedNames :
          k \in joined[c] <=> k \in channels /\ c \in channel[k].members

\* Operators and voiced are members, nobody is invited to where they are, and
\* exactly the members have a place in the join order, each its own: the six
\* sets of a Channel, erased in four places of the code, stay in step.
RolesFollowMembership ==
    \A k \in FoldedNames :
        LET ch == channel[k] IN
        /\ ch.operators \cup ch.voiced \subseteq ch.members
        /\ ch.invited \cap ch.members = {}
        /\ \A c \in Cids :
              IF c \in ch.members THEN ch.joinOrder[c] \in 0 .. ch.nextJoinSeq - 1
              ELSE ch.joinOrder[c] = NoSeq
        /\ \A c, d \in ch.members : ch.joinOrder[c] = ch.joinOrder[d] => c = d

\* The limits of config.h hold whichever way they are approached: by joining
\* several channels, through invitations that bypass +l, by one long MODE line.
LimitsHold ==
    /\ \A c \in Cids : Cardinality(joined[c]) <= MaxChannelsPerUser
    /\ \A k \in channels :
          /\ Cardinality(channel[k].members) <= MaxUsersPerChannel
          /\ Cardinality(channel[k].bans) <= MaxBanList
          /\ Cardinality(channel[k].invited) <= MaxInvites

-----------------------------------------------------------------------------
Departs(k) == channel[k].members \ channel'[k].members # {}

\* A channel somebody has just left has an operator, whoever left and however
\* (PART, KICK, JOIN 0, teardown), or is gone.
DepartureLeavesOperator ==
    [][\A k \in channels \cap channels' : Departs(k) => channel'[k].operators # {}]_chVars

\* Succession takes nobody's place: a departure appoints an operator only when
\* none is left, and then the member who has been in the channel longest.
SuccessorIsSenior ==
    [][\A k \in channels \cap channels' :
          LET new == channel'[k].operators \ channel[k].operators IN
          Departs(k) /\ new # {} =>
              /\ channel'[k].operators = new
              /\ \E c \in new :
                    /\ new = {c}
                    /\ \A d \in channel'[k].members :
                          channel[k].joinOrder[c] <= channel[k].joinOrder[d]]_chVars

\* The price of a channel without operators (MODE -o leaves one, m_mode.cpp:228,
\* with no succession): nobody can change its modes, its bans or, under +t, its
\* topic, nor invite into it under +i, until a member departs.
OplessChannelIsFrozen ==
    [][\A k \in channels \cap channels' :
          LET old == channel[k]
              new == channel'[k]
          IN
          old.operators = {} /\ ~Departs(k) =>
              /\ new.operators = {}
              /\ <<new.flags, new.key, new.limit, new.bans, new.voiced>> =
                 <<old.flags, old.key, old.limit, old.bans, old.voiced>>
              /\ "t" \in old.flags => new.topic = old.topic
              /\ "i" \in old.flags => new.invited \subseteq old.invited]_chVars

\* Seniority is never gained: of two members who both stay, the one who was
\* first stays first, so nobody overtakes by being kicked, re-invited or opped.
SeniorityIsStable ==
    [][\A k \in channels \cap channels' :
          \A c, d \in channel[k].members \cap channel'[k].members :
              channel[k].joinOrder[c] < channel[k].joinOrder[d] =>
              channel'[k].joinOrder[c] < channel'[k].joinOrder[d]]_chVars

=============================================================================

--------------------------- MODULE ChannelsProofs ---------------------------
(***************************************************************************)
(* Theorems about channels and operator succession, for any number of      *)
(* clients, channels, keys, masks and topics.                              *)
(*                                                                         *)
(* RolesOK is what RolesFollowMembership says of one Channel.  The record  *)
(* operators Without, SucceedOpIfNeeded, Departed, Enters and SetModes     *)
(* each preserve it (one lemma each); the actions only choose which record *)
(* of the table is replaced, and keep Client::channels in step.            *)
(***************************************************************************)
EXTENDS Channels, FiniteSetTheorems, WellFoundedInduction, TLAPS

RolesOK(ch) ==
    /\ ch.operators \cup ch.voiced \subseteq ch.members
    /\ ch.invited \cap ch.members = {}
    /\ \A c \in Cids :
          IF c \in ch.members THEN ch.joinOrder[c] \in 0 .. ch.nextJoinSeq - 1
          ELSE ch.joinOrder[c] = NoSeq
    /\ \A c, d \in ch.members : ch.joinOrder[c] = ch.joinOrder[d] => c = d

ChannelOK(ch) == ch \in Channel /\ RolesOK(ch)

ChInv ==
    /\ ChTypeOK
    /\ ChannelTablesAgree
    /\ RolesFollowMembership

-----------------------------------------------------------------------------
\* A nonempty set of join sequence numbers has a least one.
LEMMA LeastNatural ==
    ASSUME NEW T \in SUBSET Nat, T # {}
    PROVE  \E m \in T : \A n \in T : m <= n
<1> DEFINE R == OpToRel(<, Nat)
<1>1. IsWellFoundedOn(R, Nat)
  BY NatLessThanWellFounded
<1> HIDE DEF R
<1>2. PICK m \in T : \A n \in T : ~ (<<n, m>> \in R)
  BY <1>1, WFMin
<1>3. \A a, b \in Nat : <<a, b>> \in R <=> a < b
  BY DEF R, OpToRel
<1>4. ASSUME NEW n \in T
      PROVE  m <= n
  <2>1. m \in Nat /\ n \in Nat /\ ~(n < m)
    BY <1>2, <1>3
  <2> QED BY <2>1
<1> QED BY <1>4

\* succeedOpIfNeeded's loop finds a member, the one with the least join
\* sequence number, whenever there is a member (Server.cpp:596-602).
LEMMA SeniorIsLeast ==
    ASSUME NEW ch, ChannelOK(ch), ch.members # {}
    PROVE  /\ Senior(ch) \in ch.members
           /\ \A d \in ch.members : ch.joinOrder[Senior(ch)] <= ch.joinOrder[d]
<1>1. ASSUME NEW c \in ch.members
      PROVE  JoinSeq(ch, c) = ch.joinOrder[c] /\ ch.joinOrder[c] \in Nat
  BY DEF ChannelOK, RolesOK, Channel, JoinSeq, NoSeq
<1> DEFINE T == {JoinSeq(ch, c) : c \in ch.members}
<1>2. T \in SUBSET Nat /\ T # {}
  BY <1>1
<1>3. PICK m \in T : \A n \in T : m <= n
  BY <1>2, LeastNatural
<1>4. PICK c \in ch.members : m = JoinSeq(ch, c)
  BY <1>3
<1>5. \A d \in ch.members : JoinSeq(ch, c) <= JoinSeq(ch, d)
  BY <1>3, <1>4
<1>6. /\ Senior(ch) \in ch.members
      /\ \A d \in ch.members : JoinSeq(ch, Senior(ch)) <= JoinSeq(ch, d)
  BY <1>5 DEF Senior
<1> QED BY <1>1, <1>6

-----------------------------------------------------------------------------
\* A channel that does not exist, or was just created, is in order.
LEMMA NoChannelOK ==
    /\ ChannelOK(NoChannel)
    /\ \A n \in ChanNames : ChannelOK([NoChannel EXCEPT !.name = n])
BY DEF ChannelOK, RolesOK, Channel, NoChannel, NoSeq

\* The five erasures of a departure keep the sets in step (Server.cpp:612-616).
LEMMA WithoutOK ==
    ASSUME NEW ch, ChannelOK(ch), NEW c \in Cids
    PROVE  /\ ChannelOK(Without(ch, c))
           /\ Without(ch, c).members = ch.members \ {c}
           /\ Without(ch, c).name = ch.name
           /\ Without(ch, c).operators = ch.operators \ {c}
           /\ \A d \in Cids \ {c} : Without(ch, c).joinOrder[d] = ch.joinOrder[d]
<1> DEFINE rest == Without(ch, c)
<1>1. ch \in Channel /\ RolesOK(ch) /\ NoSeq \in Int
  BY DEF ChannelOK, NoSeq
<1>2. /\ rest \in Channel
      /\ rest.members = ch.members \ {c}
      /\ rest.operators = ch.operators \ {c}
      /\ rest.voiced = ch.voiced \ {c}
      /\ rest.invited = ch.invited \ {c}
      /\ rest.name = ch.name
      /\ rest.nextJoinSeq = ch.nextJoinSeq
      /\ rest.joinOrder = [ch.joinOrder EXCEPT ![c] = NoSeq]
  BY <1>1 DEF Channel, Without
<1>3. /\ rest.joinOrder[c] = NoSeq
      /\ \A d \in Cids \ {c} : rest.joinOrder[d] = ch.joinOrder[d]
  BY <1>1, <1>2 DEF Channel
<1> HIDE DEF rest
<1>4. RolesOK(rest)
  BY <1>1, <1>2, <1>3 DEF RolesOK, Channel
<1> QED BY <1>2, <1>3, <1>4 DEF ChannelOK, rest

\* Succession appoints a member, and only where no operator is left.
LEMMA SuccessionOK ==
    ASSUME NEW ch, ChannelOK(ch)
    PROVE  LET next == SucceedOpIfNeeded(ch) IN
           /\ ChannelOK(next)
           /\ next.members = ch.members
           /\ next.name = ch.name
           /\ next.joinOrder = ch.joinOrder
           /\ next.nextJoinSeq = ch.nextJoinSeq
           /\ next.invited = ch.invited
           /\ next.bans = ch.bans
           /\ ch.members # {} => next.operators # {}
           /\ ch.operators # {} => next.operators = ch.operators
           /\ ch.members # {} /\ ch.operators = {} => next.operators = {Senior(ch)}
<1>1. CASE ch.members = {} \/ ch.operators # {}
  BY <1>1 DEF SucceedOpIfNeeded, ChannelOK, RolesOK
<1>2. CASE ch.members # {} /\ ch.operators = {}
  <2>1. Senior(ch) \in ch.members
    BY <1>2, SeniorIsLeast
  <2>2. SucceedOpIfNeeded(ch) = [ch EXCEPT !.operators = {Senior(ch)}]
    BY <1>2 DEF SucceedOpIfNeeded
  <2> HIDE DEF Senior
  <2> QED BY <1>2, <2>1, <2>2 DEF ChannelOK, RolesOK, Channel
<1> QED BY <1>1, <1>2

\* A departure leaves the channel in order, without its member, and with an
\* operator unless it is gone (Server.cpp:610-625, 633-645).
LEMMA DepartedOK ==
    ASSUME NEW ch, ChannelOK(ch), NEW c \in Cids, ch.members # {}
    PROVE  LET next == Departed(ch, c) IN
           /\ ChannelOK(next)
           /\ next.members = ch.members \ {c}
           /\ ch.members \subseteq {c} => next = NoChannel
           /\ ~(ch.members \subseteq {c}) => next.name = ch.name
           /\ c \in ch.members /\ next.members # {} => next.operators # {}
<1> DEFINE rest == Without(ch, c)
<1>1. ChannelOK(rest) /\ rest.members = ch.members \ {c} /\ rest.name = ch.name
  BY WithoutOK
<1>2. CASE rest.members = {}
  BY <1>1, <1>2, NoChannelOK DEF Departed, NoChannel
<1>3. CASE rest.members # {}
  <2> HIDE DEF rest
  <2>1. /\ ChannelOK(SucceedOpIfNeeded(rest))
        /\ SucceedOpIfNeeded(rest).members = rest.members
        /\ SucceedOpIfNeeded(rest).name = rest.name
        /\ SucceedOpIfNeeded(rest).operators # {}
    BY <1>1, <1>3, SuccessionOK
  <2>2. Departed(ch, c) = IF c \in ch.members THEN SucceedOpIfNeeded(rest) ELSE rest
    BY <1>3 DEF Departed, rest
  <2> QED BY <1>1, <1>3, <2>1, <2>2
<1> QED BY <1>2, <1>3

\* A member who joins takes the next place in the join order (m_join.cpp:79-85).
LEMMA EntersOK ==
    ASSUME NEW ch, ChannelOK(ch), NEW c \in Cids, c \notin ch.members, NEW created \in BOOLEAN
    PROVE  /\ ChannelOK(Enters(ch, c, created))
           /\ Enters(ch, c, created).members = ch.members \cup {c}
           /\ Enters(ch, c, created).name = ch.name
           /\ Enters(ch, c, created).bans = ch.bans
           /\ Enters(ch, c, created).invited = ch.invited \ {c}
<1> DEFINE next == Enters(ch, c, created)
<1>1. ch \in Channel /\ RolesOK(ch)
  BY DEF ChannelOK
<1>2. /\ next \in Channel
      /\ next.members = ch.members \cup {c}
      /\ next.operators \in {ch.operators, ch.operators \cup {c}}
      /\ next.voiced = ch.voiced
      /\ next.invited = ch.invited \ {c}
      /\ next.name = ch.name
      /\ next.bans = ch.bans
      /\ next.nextJoinSeq = ch.nextJoinSeq + 1
      /\ next.joinOrder = [ch.joinOrder EXCEPT ![c] = ch.nextJoinSeq]
  <2>1. ch.nextJoinSeq \in Nat /\ ch.joinOrder \in [Cids -> Nat \cup {NoSeq}]
    BY <1>1 DEF Channel
  <2>2. [ch.joinOrder EXCEPT ![c] = ch.nextJoinSeq] \in [Cids -> Nat \cup {NoSeq}]
    BY <2>1
  <2>3. next \in Channel
    <3>1. ch \in Channel /\ ch.nextJoinSeq + 1 \in Nat
      BY <1>1, <2>1
    <3> QED BY <2>2, <3>1 DEF Channel, Enters
  <2>4. next.operators \in {ch.operators, ch.operators \cup {c}}
    BY <1>1 DEF Channel, Enters
  <2> QED BY <1>1, <2>3, <2>4 DEF Channel, Enters
<1>3. /\ next.joinOrder[c] = ch.nextJoinSeq
      /\ \A d \in Cids \ {c} : next.joinOrder[d] = ch.joinOrder[d]
  BY <1>1, <1>2 DEF Channel
<1> HIDE DEF next
<1>4. RolesOK(next)
  <2>1. /\ next.operators \cup next.voiced \subseteq next.members
        /\ next.invited \cap next.members = {}
    BY <1>1, <1>2 DEF RolesOK, Channel
  <2>2. ch.nextJoinSeq \in Nat /\ next.nextJoinSeq = ch.nextJoinSeq + 1
    BY <1>1, <1>2 DEF Channel
  <2>3. \A d \in ch.members : d \in Cids /\ d # c /\ ch.joinOrder[d] \in 0 .. ch.nextJoinSeq - 1
    BY <1>1 DEF RolesOK, Channel
  <2>4. ASSUME NEW d \in Cids
        PROVE  IF d \in next.members THEN next.joinOrder[d] \in 0 .. next.nextJoinSeq - 1
               ELSE next.joinOrder[d] = NoSeq
    <3>1. CASE d = c
      BY <1>2, <1>3, <2>2, <3>1
    <3>2. CASE d \in ch.members
      BY <1>2, <1>3, <2>2, <2>3, <3>2
    <3>3. CASE d \notin ch.members /\ d # c
      BY <1>1, <1>2, <1>3, <3>3 DEF RolesOK
    <3> QED BY <3>1, <3>2, <3>3
  <2>5. \A d, e \in next.members : next.joinOrder[d] = next.joinOrder[e] => d = e
    BY <1>1, <1>2, <1>3, <2>2, <2>3 DEF RolesOK
  <2> QED BY <2>1, <2>4, <2>5 DEF RolesOK
<1> QED BY <1>2, <1>4 DEF ChannelOK, next

\* Whatever a MODE line does, the roles stay with members and the members and
\* their order are untouched (m_mode.cpp:166-267).
LEMMA SetModesOK ==
    ASSUME NEW ch, ChannelOK(ch), NEW m \in ModeSettings(ch)
    PROVE  /\ ChannelOK(SetModes(ch, m))
           /\ SetModes(ch, m).members = ch.members
           /\ SetModes(ch, m).name = ch.name
           /\ SetModes(ch, m).bans \in BanLists
           /\ SetModes(ch, m).invited = ch.invited
<1> DEFINE next == SetModes(ch, m)
<1>1. ch \in Channel /\ RolesOK(ch)
  BY DEF ChannelOK
<1>2. next \in Channel
  BY <1>1 DEF Channel, SetModes, ModeSettings, BanLists
<1>3. /\ next.members = ch.members
      /\ next.invited = ch.invited
      /\ next.joinOrder = ch.joinOrder
      /\ next.nextJoinSeq = ch.nextJoinSeq
      /\ next.operators = m.operators
      /\ next.voiced = m.voiced
      /\ next.bans = m.bans
      /\ next.name = ch.name
  BY <1>1 DEF Channel, SetModes
<1>4. m.operators \cup m.voiced \subseteq ch.members
  BY DEF ModeSettings
<1> HIDE DEF next
<1>5. RolesOK(next)
  BY <1>1, <1>3, <1>4 DEF RolesOK
<1>6. m.bans \in BanLists
  BY DEF ModeSettings
<1> QED BY <1>2, <1>3, <1>5, <1>6 DEF ChannelOK, next

-----------------------------------------------------------------------------
\* The invariants give an orderly record for every folded name.
LEMMA EveryChannelOK ==
    ASSUME ChInv
    PROVE  \A k \in FoldedNames : ChannelOK(channel[k])
BY DEF ChInv, ChTypeOK, RolesFollowMembership, ChannelOK, RolesOK

\* INVITE, MODE and TOPIC replace one record and leave the members alone.
LEMMA SettingsStep ==
    ASSUME ChInv, NEW k \in channels, NEW ch, ChannelOK(ch),
           ch.members = channel[k].members, ch.name = channel[k].name,
           channel' = [channel EXCEPT ![k] = ch], UNCHANGED <<channels, joined>>
    PROVE  ChInv'
<1>1. /\ k \in FoldedNames
      /\ channel'[k] = ch
      /\ \A j \in FoldedNames \ {k} : channel'[j] = channel[j]
  BY DEF ChInv, ChTypeOK
<1>2. ChTypeOK'
  BY <1>1 DEF ChInv, ChTypeOK, ChannelOK
<1>3. ChannelTablesAgree'
  BY <1>1 DEF ChInv, ChTypeOK, ChannelTablesAgree
<1>4. RolesFollowMembership'
  BY <1>1 DEF ChInv, RolesFollowMembership, ChannelOK, RolesOK
<1> QED BY <1>2, <1>3, <1>4 DEF ChInv

\* What DepartFrom does to the tables: exactly the channels of S lose c, and
\* exactly those of them that c was alone in are erased.
LEMMA DepartTables ==
    ASSUME ChInv, NEW c \in Cids, NEW S \in SUBSET channels, DepartFrom(c, S)
    PROVE  /\ channel' \in [FoldedNames -> Channel]
           /\ channels' = {k \in channels : k \in S => ~(channel[k].members \subseteq {c})}
           /\ \A k \in FoldedNames :
                 /\ ChannelOK(channel'[k])
                 /\ k \in S => /\ channel'[k] = Departed(channel[k], c)
                               /\ channel'[k].members = channel[k].members \ {c}
                               /\ k \in channels' => channel'[k].name = channel[k].name
                               /\ k \notin channels' => channel'[k] = NoChannel
                 /\ k \notin S => channel'[k] = channel[k]
<1>1. \A k \in S : /\ k \in FoldedNames
                   /\ channel[k].members # {}
                   /\ FoldName[channel[k].name] = k
                   /\ ChannelOK(channel[k])
  BY EveryChannelOK DEF ChInv, ChTypeOK, ChannelTablesAgree
<1>2. channels' = {k \in channels : k \in S => ~(channel[k].members \subseteq {c})}
  BY <1>1 DEF DepartFrom
<1>3. \A k \in FoldedNames :
        channel'[k] = IF k \in S THEN Departed(channel[k], c) ELSE channel[k]
  BY DEF DepartFrom
<1>4. ASSUME NEW k \in FoldedNames
      PROVE  /\ ChannelOK(channel'[k])
             /\ k \in S => /\ channel'[k] = Departed(channel[k], c)
                           /\ channel'[k].members = channel[k].members \ {c}
                           /\ k \in channels' => channel'[k].name = channel[k].name
                           /\ k \notin channels' => channel'[k] = NoChannel
             /\ k \notin S => channel'[k] = channel[k]
  <2>1. CASE k \in S
    <3>1. /\ ChannelOK(Departed(channel[k], c))
          /\ Departed(channel[k], c).members = channel[k].members \ {c}
          /\ channel[k].members \subseteq {c} => Departed(channel[k], c) = NoChannel
          /\ ~(channel[k].members \subseteq {c}) =>
                Departed(channel[k], c).name = channel[k].name
      BY <1>1, <2>1, DepartedOK
    <3> QED BY <1>2, <1>3, <2>1, <3>1
  <2>2. CASE k \notin S
    BY <1>3, <2>2, EveryChannelOK
  <2> QED BY <2>1, <2>2
<1>5. channel' \in [FoldedNames -> Channel]
  BY <1>4 DEF DepartFrom, ChannelOK
<1> QED BY <1>2, <1>4, <1>5

\* PART, KICK, JOIN 0 and teardown: c leaves the channels in S.
LEMMA DepartStep ==
    ASSUME ChInv, NEW c \in Cids, NEW S \in SUBSET channels, DepartFrom(c, S),
           joined' = [joined EXCEPT ![c] = @ \ S]
    PROVE  ChInv'
<1> DEFINE gone(k) == k \in S /\ channel[k].members \subseteq {c}
<1>1. /\ channel' \in [FoldedNames -> Channel]
      /\ channels' = {k \in channels : k \in S => ~(channel[k].members \subseteq {c})}
      /\ \A k \in FoldedNames :
            /\ ChannelOK(channel'[k])
            /\ k \in S => /\ channel'[k].members = channel[k].members \ {c}
                          /\ k \in channels' => channel'[k].name = channel[k].name
                          /\ k \notin channels' => channel'[k] = NoChannel
            /\ k \notin S => channel'[k] = channel[k]
  BY DepartTables
<1>2. ChTypeOK'
  BY <1>1 DEF ChInv, ChTypeOK
<1>3. RolesFollowMembership'
  BY <1>1 DEF RolesFollowMembership, ChannelOK, RolesOK
<1>4. ASSUME NEW k \in channels'
      PROVE  channel'[k].members # {} /\ FoldName[channel'[k].name] = k
  BY <1>1 DEF ChInv, ChTypeOK, ChannelTablesAgree
<1>5. ASSUME NEW d \in Cids, NEW k \in FoldedNames
      PROVE  k \in joined'[d] <=> k \in channels' /\ d \in channel'[k].members
  <2>1. k \in joined[d] <=> k \in channels /\ d \in channel[k].members
    BY DEF ChInv, ChannelTablesAgree
  <2>2. joined'[d] = IF d = c THEN joined[d] \ S ELSE joined[d]
    BY DEF ChInv, ChTypeOK
  <2>3. CASE k \in S
    BY <1>1, <2>1, <2>2, <2>3
  <2>4. CASE k \notin S
    BY <1>1, <2>1, <2>2, <2>4
  <2> QED BY <2>3, <2>4
<1> QED BY <1>2, <1>3, <1>4, <1>5 DEF ChInv, ChannelTablesAgree

\* JOIN (m_join.cpp:44-85): the channel exists from now on, c is in it, and
\* c's own list says so.
LEMMA JoinStep ==
    ASSUME ChInv, NEW c \in Cids, NEW name \in ChanNames, NEW key, NEW matching,
           Join(c, name, key, matching)
    PROVE  ChInv'
<1> DEFINE k    == FoldName[name]
           ch   == GetOrCreate(name)
           next == Enters(ch, c, k \notin channels)
<1>1. k \in FoldedNames
  BY DEF FoldedNames
<1>2. ChannelOK(ch) /\ FoldName[ch.name] = k /\ (k \in channels => ch = channel[k])
  <2>1. CASE k \in channels
    BY <1>1, <2>1, EveryChannelOK DEF GetOrCreate, ChInv, ChannelTablesAgree
  <2>2. CASE k \notin channels
    <3>1. ch = [NoChannel EXCEPT !.name = name]
      BY <2>2 DEF GetOrCreate
    <3> QED BY <2>2, <3>1, NoChannelOK DEF NoChannel
  <2> QED BY <2>1, <2>2
<1>3. ch.members = channel[k].members /\ c \notin ch.members
  BY <1>1, <1>2 DEF Join, GetOrCreate, NoChannel, ChInv, ChTypeOK
<1>4. ChannelOK(next) /\ next.members = ch.members \cup {c} /\ next.name = ch.name
  BY <1>2, <1>3, EntersOK, ZenonT(40)
<1>5. /\ channels' = channels \cup {k}
      /\ channel' = [channel EXCEPT ![k] = next]
      /\ joined' = [joined EXCEPT ![c] = @ \cup {k}]
  BY DEF Join
<1> HIDE DEF next, ch
<1>6. channel'[k] = next /\ \A j \in FoldedNames \ {k} : channel'[j] = channel[j]
  BY <1>1, <1>5 DEF ChInv, ChTypeOK
<1>7. ChTypeOK'
  BY <1>1, <1>4, <1>5, <1>6 DEF ChInv, ChTypeOK, ChannelOK
<1>8. RolesFollowMembership'
  BY <1>1, <1>4, <1>6 DEF ChInv, RolesFollowMembership, ChannelOK, RolesOK
<1>9. ASSUME NEW j \in channels'
      PROVE  channel'[j].members # {} /\ FoldName[channel'[j].name] = j
  BY <1>2, <1>4, <1>5, <1>6 DEF ChInv, ChTypeOK, ChannelTablesAgree
<1>10. ASSUME NEW d \in Cids, NEW j \in FoldedNames
       PROVE  j \in joined'[d] <=> j \in channels' /\ d \in channel'[j].members
  <2>1. j \in joined[d] <=> j \in channels /\ d \in channel[j].members
    BY DEF ChInv, ChannelTablesAgree
  <2>2. joined'[d] = IF d = c THEN joined[d] \cup {k} ELSE joined[d]
    BY <1>5 DEF ChInv, ChTypeOK
  <2>3. CASE j = k
    <3>1. k \notin channels => channel[k].members = {}
      BY <1>1 DEF ChInv, ChTypeOK, NoChannel
    <3> QED BY <1>3, <1>4, <1>5, <1>6, <2>1, <2>2, <2>3, <3>1
  <2>4. CASE j # k
    BY <1>5, <1>6, <2>1, <2>2, <2>4
  <2> QED BY <2>3, <2>4
<1> QED BY <1>7, <1>8, <1>9, <1>10 DEF ChInv, ChannelTablesAgree

\* Every handler is one of three things to a channel: it lets c out of the
\* channels in S, changes the settings of one, or lets c in.
LeaveStep(c, S) ==
    /\ S \subseteq channels
    /\ \A k \in S : k \in joined[c] \/ c \notin channel[k].members
    /\ DepartFrom(c, S)
    /\ joined' = [joined EXCEPT ![c] = @ \ S]

InviteStep(k) ==
    /\ k \in channels
    /\ UNCHANGED <<channels, joined>>
    /\ \E c, target \in Cids : Invite(c, target, k)

ModeStep(k) ==
    /\ k \in channels
    /\ UNCHANGED <<channels, joined>>
    /\ \E c \in Cids : Mode(c, k)

TopicStep(k) ==
    /\ k \in channels
    /\ UNCHANGED <<channels, joined>>
    /\ \E c \in Cids, topic \in Topics \cup {NoTopic} : Topic(c, k, topic)

JoinOf(c) ==
    \E name \in ChanNames, key \in ChanKeys \cup {NoChanKey}, matching \in SUBSET Masks :
        Join(c, name, key, matching)

\* PART, KICK, JOIN 0 and the teardown are all departures from some channels.
LEMMA DeparturesLeave ==
    ASSUME ChInv, NEW c \in Cids,
           \/ \E k \in FoldedNames : Part(c, k)
           \/ PartAll(c)
           \/ \E k \in FoldedNames, d \in Cids : Kick(d, c, k)
           \/ RemoveFromAll(c)
    PROVE  \E S \in SUBSET channels : LeaveStep(c, S)
<1>1. /\ joined \in [Cids -> SUBSET FoldedNames]
      /\ \A k \in FoldedNames : k \in joined[c] <=> k \in channels /\ c \in channel[k].members
  BY DEF ChInv, ChTypeOK, ChannelTablesAgree
<1>2. ASSUME NEW k \in FoldedNames, Part(c, k)
      PROVE  LeaveStep(c, {k}) /\ {k} \in SUBSET channels
  BY <1>1, <1>2 DEF Part, LeaveStep
<1>3. ASSUME PartAll(c)
      PROVE  LeaveStep(c, joined[c]) /\ joined[c] \in SUBSET channels
  <2>1. {k \in joined[c] : k \in channels /\ c \in channel[k].members} = joined[c]
    BY <1>1
  <2>2. joined' = [joined EXCEPT ![c] = @ \ joined[c]]
    BY <1>1, <1>3 DEF PartAll
  <2> QED BY <1>1, <1>3, <2>1, <2>2 DEF PartAll, LeaveStep
<1>4. ASSUME NEW k \in FoldedNames, NEW d \in Cids, Kick(d, c, k)
      PROVE  LeaveStep(c, {k}) /\ {k} \in SUBSET channels
  BY <1>1, <1>4 DEF Kick, LeaveStep
<1>5. ASSUME RemoveFromAll(c)
      PROVE  LeaveStep(c, channels) /\ channels \in SUBSET channels
  <2>1. joined[c] \ channels = {}
    BY <1>1
  <2>2. joined' = [joined EXCEPT ![c] = @ \ channels]
    BY <1>1, <1>5, <2>1 DEF RemoveFromAll
  <2>3. \A k \in channels : k \in joined[c] \/ c \notin channel[k].members
    BY <1>1 DEF ChInv, ChTypeOK
  <2> QED BY <1>5, <2>2, <2>3 DEF RemoveFromAll, LeaveStep
<1> QED BY <1>2, <1>3, <1>4, <1>5

\* So every step of the channels is a departure, a join, or a change of settings.
LEMMA ChStepKinds ==
    ASSUME ChInv, ChNext
    PROVE  \/ \E c \in Cids, S \in SUBSET channels : LeaveStep(c, S)
           \/ \E c \in Cids : JoinOf(c)
           \/ \E k \in channels : InviteStep(k) \/ ModeStep(k) \/ TopicStep(k)
<1>1. PICK c \in Cids : ChStep(c)
  BY DEF ChNext
<1>2. CASE JoinOf(c)
  BY <1>2
<1>3. CASE (\E k \in FoldedNames : Part(c, k)) \/ PartAll(c) \/ RemoveFromAll(c)
  BY <1>3, DeparturesLeave
<1>4. ASSUME NEW target \in Cids, NEW k \in FoldedNames, Kick(c, target, k)
      PROVE  \E S \in SUBSET channels : LeaveStep(target, S)
  BY <1>4, DeparturesLeave
<1>5. ASSUME NEW target \in Cids, NEW k \in FoldedNames, Invite(c, target, k)
      PROVE  k \in channels /\ InviteStep(k)
  BY <1>5 DEF Invite, InviteStep
<1>6. ASSUME NEW k \in FoldedNames, Mode(c, k)
      PROVE  k \in channels /\ ModeStep(k)
  BY <1>6 DEF Mode, ModeStep
<1>7. ASSUME NEW k \in FoldedNames, NEW topic \in Topics \cup {NoTopic}, Topic(c, k, topic)
      PROVE  k \in channels /\ TopicStep(k)
  BY <1>7 DEF Topic, TopicStep
<1> QED BY <1>1, <1>2, <1>3, <1>4, <1>5, <1>6, <1>7 DEF ChStep, OtherStep, JoinOf

\* INVITE, MODE and TOPIC each leave an orderly record with the same members.
LEMMA SettingsOK ==
    ASSUME ChInv, NEW k \in channels, InviteStep(k) \/ ModeStep(k) \/ TopicStep(k)
    PROVE  \E ch : /\ ChannelOK(ch)
                  /\ ch.members = channel[k].members
                  /\ ch.name = channel[k].name
                  /\ ch.joinOrder = channel[k].joinOrder
                  /\ channel' = [channel EXCEPT ![k] = ch]
<1>1. k \in FoldedNames /\ ChannelOK(channel[k])
  BY EveryChannelOK DEF ChInv, ChTypeOK
<1>2. CASE InviteStep(k)
  <2>1. PICK c, target \in Cids : Invite(c, target, k)
    BY <1>2 DEF InviteStep
  <2> DEFINE ch == [channel[k] EXCEPT !.invited = @ \cup {target}]
  <2>2. channel' = [channel EXCEPT ![k] = ch] /\ target \notin channel[k].members
    BY <1>1, <2>1 DEF Invite, ChInv, ChTypeOK
  <2>3. /\ ChannelOK(ch) /\ ch.members = channel[k].members /\ ch.name = channel[k].name
        /\ ch.joinOrder = channel[k].joinOrder
    BY <1>1, <2>2 DEF ChannelOK, RolesOK, Channel
  <2> QED BY <2>2, <2>3
<1>3. CASE ModeStep(k)
  <2>1. PICK m \in ModeSettings(channel[k]) :
          channel' = [channel EXCEPT ![k] = SetModes(@, m)]
    BY <1>3 DEF ModeStep, Mode
  <2> DEFINE ch == SetModes(channel[k], m)
  <2>2. ChannelOK(ch) /\ ch.members = channel[k].members /\ ch.name = channel[k].name
    BY <1>1, SetModesOK
  <2>3. ch.joinOrder = channel[k].joinOrder
    BY <1>1 DEF SetModes, ChannelOK, Channel
  <2>4. channel' = [channel EXCEPT ![k] = ch]
    BY <1>1, <2>1 DEF ChInv, ChTypeOK
  <2> QED BY <2>2, <2>3, <2>4
<1>4. CASE TopicStep(k)
  <2>1. PICK c \in Cids, topic \in Topics \cup {NoTopic} : Topic(c, k, topic)
    BY <1>4 DEF TopicStep
  <2> DEFINE ch == [channel[k] EXCEPT !.topic = topic]
  <2>2. channel' = [channel EXCEPT ![k] = ch]
    BY <1>1, <2>1 DEF Topic, ChInv, ChTypeOK
  <2>3. /\ ChannelOK(ch) /\ ch.members = channel[k].members /\ ch.name = channel[k].name
        /\ ch.joinOrder = channel[k].joinOrder
    BY <1>1 DEF ChannelOK, RolesOK, Channel
  <2> QED BY <2>2, <2>3
<1> QED BY <1>2, <1>3, <1>4

\* The channel invariants hold of a server without channels.
LEMMA ChInitInv == ChInit => ChInv
<1> SUFFICES ASSUME ChInit PROVE ChInv
  OBVIOUS
<1>1. ChannelOK(NoChannel) /\ NoChannel.members = {}
  BY NoChannelOK DEF NoChannel
<1> QED BY <1>1 DEF ChInit, ChInv, ChTypeOK, ChannelTablesAgree, RolesFollowMembership,
      ChannelOK, RolesOK

\* Every command and every teardown preserves them.
LEMMA ChNextInv == ChInv /\ [ChNext]_chVars => ChInv'
<1> SUFFICES ASSUME ChInv, [ChNext]_chVars PROVE ChInv'
  OBVIOUS
<1>1. CASE UNCHANGED chVars
  BY <1>1 DEF chVars, ChInv, ChTypeOK, ChannelTablesAgree, RolesFollowMembership
<1>2. ASSUME NEW c \in Cids, NEW S \in SUBSET channels, LeaveStep(c, S)
      PROVE  ChInv'
  BY <1>2, DepartStep DEF LeaveStep
<1>3. ASSUME NEW c \in Cids, JoinOf(c)
      PROVE  ChInv'
  BY <1>3, JoinStep DEF JoinOf
<1>4. ASSUME NEW k \in channels, InviteStep(k) \/ ModeStep(k) \/ TopicStep(k)
      PROVE  ChInv'
  <2>1. UNCHANGED <<channels, joined>>
    BY <1>4 DEF InviteStep, ModeStep, TopicStep
  <2> QED BY <1>4, <2>1, SettingsOK, SettingsStep
<1>5. CASE ChNext
  BY <1>2, <1>3, <1>4, <1>5, ChStepKinds
<1> QED BY <1>1, <1>5

\* Members, roles, join order, the channel table and the clients' pointers into
\* it are consistent in every reachable state.
THEOREM ChannelsCorrect == ChSpec => []ChInv
BY ChInitInv, ChNextInv, PTL DEF ChSpec

\* Client::channels never points into an erased or foreign channel, and a
\* channel exists exactly while it has members.
THEOREM ChannelTablesAlwaysAgree == ChSpec => []ChannelTablesAgree
BY ChannelsCorrect, PTL DEF ChInv

\* Operators, voiced, invited and join order stay in step with the members.
THEOREM RolesAlwaysFollow == ChSpec => []RolesFollowMembership
BY ChannelsCorrect, PTL DEF ChInv

-----------------------------------------------------------------------------
\* What the three kinds of step do to one channel that outlives the step.
LeavesChannel(c, k)  == c \in channel[k].members /\ channel'[k] = Departed(channel[k], c)
ForgetsInvite(c, k)  == c \notin channel[k].members /\ channel'[k] = Without(channel[k], c)
EntersChannel(c, k)  == c \notin channel[k].members /\ channel'[k] = Enters(channel[k], c, FALSE)

LEMMA SurvivorSteps ==
    ASSUME ChInv, ChNext, NEW k \in channels, k \in channels'
    PROVE  \/ channel'[k] = channel[k]
           \/ \E c \in Cids : LeavesChannel(c, k) \/ ForgetsInvite(c, k) \/ EntersChannel(c, k)
           \/ InviteStep(k) \/ ModeStep(k) \/ TopicStep(k)
<1>1. k \in FoldedNames /\ channel[k].members # {}
  BY DEF ChInv, ChTypeOK, ChannelTablesAgree
<1>2. ASSUME NEW c \in Cids, NEW S \in SUBSET channels, LeaveStep(c, S)
      PROVE  channel'[k] = channel[k] \/ LeavesChannel(c, k) \/ ForgetsInvite(c, k)
  <2>1. CASE k \notin S
    BY <1>1, <1>2, <2>1, DepartTables DEF LeaveStep
  <2>2. CASE k \in S
    <3>1. channel'[k] = Departed(channel[k], c) /\ ~(channel[k].members \subseteq {c})
      BY <1>1, <1>2, <2>2, DepartTables DEF LeaveStep
    <3>2. Without(channel[k], c).members # {}
      BY <1>1, <3>1, WithoutOK, EveryChannelOK
    <3> QED BY <3>1, <3>2 DEF LeavesChannel, ForgetsInvite, Departed
  <2> QED BY <2>1, <2>2
<1>3. ASSUME NEW c \in Cids, JoinOf(c)
      PROVE  channel'[k] = channel[k] \/ EntersChannel(c, k)
  <2>1. PICK name \in ChanNames, key \in ChanKeys \cup {NoChanKey}, matching \in SUBSET Masks :
          Join(c, name, key, matching)
    BY <1>3 DEF JoinOf
  <2>2. CASE k = FoldName[name]
    <3>1. GetOrCreate(name) = channel[k]
      BY <2>2 DEF GetOrCreate
    <3> QED BY <1>1, <2>1, <2>2, <3>1 DEF Join, EntersChannel, ChInv, ChTypeOK
  <2>3. CASE k # FoldName[name]
    BY <1>1, <2>1, <2>3 DEF Join, ChInv, ChTypeOK
  <2> QED BY <2>2, <2>3
<1>4. ASSUME NEW j \in channels, j # k, InviteStep(j) \/ ModeStep(j) \/ TopicStep(j)
      PROVE  channel'[k] = channel[k]
  BY <1>1, <1>4, SettingsOK DEF ChInv, ChTypeOK
<1> QED BY <1>2, <1>3, <1>4, ChStepKinds

\* The settings commands do not move members (m_mode.cpp, m_invite.cpp, m_topic.cpp).
LEMMA SettingsKeepMembers ==
    ASSUME ChInv, NEW k \in channels, InviteStep(k) \/ ModeStep(k) \/ TopicStep(k)
    PROVE  /\ channel'[k].members = channel[k].members
           /\ channel'[k].joinOrder = channel[k].joinOrder
<1>1. PICK ch : /\ ch.members = channel[k].members
                /\ ch.joinOrder = channel[k].joinOrder
                /\ channel' = [channel EXCEPT ![k] = ch]
  BY SettingsOK
<1> QED BY <1>1 DEF ChInv, ChTypeOK

\* A departure from a channel that survives it is LeavesChannel by a member.
LEMMA DepartingStep ==
    ASSUME ChInv, [ChNext]_chVars, NEW k \in channels, k \in channels', Departs(k)
    PROVE  \E c \in Cids : LeavesChannel(c, k)
<1>1. k \in FoldedNames /\ ChannelOK(channel[k])
  BY EveryChannelOK DEF ChInv, ChTypeOK
<1>2. channel'[k].members # channel[k].members
  BY DEF Departs
<1>3. ChNext
  BY <1>2 DEF chVars
<1>4. ASSUME NEW c \in Cids, ForgetsInvite(c, k)
      PROVE  FALSE
  <2>1. channel'[k].members = channel[k].members \ {c} /\ c \notin channel[k].members
    BY <1>1, <1>4, WithoutOK DEF ForgetsInvite
  <2>2. channel[k].members \ {c} = channel[k].members
    BY <2>1
  <2> QED BY <1>2, <2>1, <2>2
<1>5. ASSUME NEW c \in Cids, EntersChannel(c, k)
      PROVE  FALSE
  <2>1. channel'[k].members = channel[k].members \cup {c}
    BY <1>1, <1>5 DEF EntersChannel, Enters, ChannelOK, Channel
  <2> QED BY <2>1 DEF Departs
<1>6. ASSUME InviteStep(k) \/ ModeStep(k) \/ TopicStep(k)
      PROVE  FALSE
  BY <1>2, <1>6, SettingsKeepMembers
<1> QED BY <1>2, <1>3, <1>4, <1>5, <1>6, SurvivorSteps

\* What a member's departure does to a channel that survives it.
LEMMA LeavingFacts ==
    ASSUME ChInv, NEW k \in channels, k \in channels', ChInv', NEW c \in Cids, LeavesChannel(c, k)
    PROVE  LET old == channel[k]
               new == channel'[k]
           IN  /\ new.members = old.members \ {c}
               /\ new.operators # {}
               /\ new.joinOrder = Without(old, c).joinOrder
               /\ old.operators \ {c} # {} => new.operators = old.operators \ {c}
               /\ old.operators \ {c} = {} => new.operators = {Senior(Without(old, c))}
<1> DEFINE old  == channel[k]
           rest == Without(old, c)
<1>1. k \in FoldedNames /\ ChannelOK(old) /\ old.members # {} /\ channel'[k].members # {}
  BY EveryChannelOK DEF ChInv, ChTypeOK, ChannelTablesAgree
<1>2. ChannelOK(rest) /\ rest.members = old.members \ {c} /\ rest.operators = old.operators \ {c}
  BY <1>1, WithoutOK
<1>3. channel'[k] = Departed(old, c) /\ Departed(old, c).members = old.members \ {c}
  BY <1>1, DepartedOK DEF LeavesChannel
<1>4. channel'[k] = SucceedOpIfNeeded(rest) /\ rest.members # {}
  BY <1>1, <1>2, <1>3 DEF Departed, LeavesChannel
<1> HIDE DEF rest
<1> QED BY <1>2, <1>3, <1>4, SuccessionOK DEF rest

\* A channel somebody has just left has an operator: the whole point of
\* succeedOpIfNeeded, for every way of leaving.
THEOREM DepartureAlwaysLeavesOperator == ChSpec => DepartureLeavesOperator
<1>1. ChInv /\ ChInv' /\ [ChNext]_chVars =>
        [\A k \in channels \cap channels' :
            Departs(k) => channel'[k].operators # {}]_chVars
  BY DepartingStep, LeavingFacts
<1> QED BY <1>1, ChannelsCorrect, PTL DEF ChSpec, DepartureLeavesOperator

\* Succession displaces nobody and appoints the longest-standing member.
THEOREM SuccessorIsAlwaysSenior == ChSpec => SuccessorIsSenior
<1>1. ASSUME ChInv, ChInv', [ChNext]_chVars, NEW k \in channels \cap channels', Departs(k),
             channel'[k].operators \ channel[k].operators # {}
      PROVE  LET new == channel'[k].operators \ channel[k].operators IN
             /\ channel'[k].operators = new
             /\ \E c \in new :
                   /\ new = {c}
                   /\ \A d \in channel'[k].members :
                         channel[k].joinOrder[c] <= channel[k].joinOrder[d]
  <2> DEFINE old == channel[k]
             new == channel'[k].operators \ old.operators
  <2>1. PICK c \in Cids : LeavesChannel(c, k)
    BY <1>1, DepartingStep
  <2> DEFINE rest == Without(old, c)
  <2>2. /\ channel'[k].members = old.members \ {c}
        /\ channel'[k].operators # {}
        /\ old.operators \ {c} # {} => channel'[k].operators = old.operators \ {c}
        /\ old.operators \ {c} = {} => channel'[k].operators = {Senior(rest)}
    BY <1>1, <2>1, LeavingFacts
  <2>3. k \in FoldedNames /\ ChannelOK(old)
    BY <1>1, EveryChannelOK DEF ChInv, ChTypeOK
  <2>4. /\ ChannelOK(rest) /\ rest.members = old.members \ {c}
        /\ \A d \in Cids \ {c} : rest.joinOrder[d] = old.joinOrder[d]
    BY <2>3, WithoutOK
  <2>5. rest.members # {}
    BY <1>1, <2>2, <2>4 DEF ChInv, ChannelTablesAgree
  <2>6. channel'[k].operators = {Senior(rest)}
    BY <1>1, <2>2
  <2>7. /\ Senior(rest) \in rest.members
        /\ \A d \in rest.members : rest.joinOrder[Senior(rest)] <= rest.joinOrder[d]
    BY <2>4, <2>5, SeniorIsLeast
  <2>8. rest.members \subseteq Cids \ {c}
    BY <2>3, <2>4 DEF ChannelOK, Channel
  <2> HIDE DEF rest, Senior
  <2>9. new = {Senior(rest)} /\ channel'[k].operators = new
    BY <1>1, <2>6
  <2>10. \A d \in channel'[k].members : old.joinOrder[Senior(rest)] <= old.joinOrder[d]
    BY <2>2, <2>4, <2>7, <2>8
  <2> QED BY <2>9, <2>10
<1>2. ChInv /\ ChInv' /\ [ChNext]_chVars =>
        [\A k \in channels \cap channels' :
            LET new == channel'[k].operators \ channel[k].operators IN
            Departs(k) /\ new # {} =>
                /\ channel'[k].operators = new
                /\ \E c \in new :
                      /\ new = {c}
                      /\ \A d \in channel'[k].members :
                            channel[k].joinOrder[c] <= channel[k].joinOrder[d]]_chVars
  BY <1>1
<1> QED BY <1>2, ChannelsCorrect, PTL DEF ChSpec, SuccessorIsSenior

\* Seniority is never gained: no step puts one member who stays before another
\* who was there first, by kick, invitation, succession or MODE.
THEOREM SeniorityIsNeverGained == ChSpec => SeniorityIsStable
<1>1. ASSUME ChInv, ChNext, NEW k \in channels, k \in channels',
             NEW c \in channel[k].members \cap channel'[k].members
      PROVE  channel'[k].joinOrder[c] = channel[k].joinOrder[c]
  <2>1. k \in FoldedNames /\ ChannelOK(channel[k]) /\ channel[k].members # {} /\ c \in Cids
    BY <1>1, EveryChannelOK DEF ChInv, ChTypeOK, ChannelTablesAgree, ChannelOK, Channel
  <2>2. ASSUME NEW d \in Cids, ForgetsInvite(d, k)
        PROVE  channel'[k].joinOrder[c] = channel[k].joinOrder[c]
    BY <1>1, <2>1, <2>2, WithoutOK DEF ForgetsInvite
  <2>3. ASSUME NEW d \in Cids, LeavesChannel(d, k)
        PROVE  channel'[k].joinOrder[c] = channel[k].joinOrder[c]
    <3>1. channel'[k].members = channel[k].members \ {d}
      BY <2>1, <2>3, DepartedOK DEF LeavesChannel
    <3> DEFINE rest == Without(channel[k], d)
    <3>2. c # d /\ rest.members # {} /\ ChannelOK(rest)
          /\ rest.joinOrder[c] = channel[k].joinOrder[c]
      BY <1>1, <2>1, <3>1, WithoutOK
    <3>3. channel'[k] = SucceedOpIfNeeded(rest)
      BY <2>3, <3>2 DEF LeavesChannel, Departed
    <3> HIDE DEF rest
    <3> QED BY <3>2, <3>3, SuccessionOK
  <2>4. ASSUME NEW d \in Cids, EntersChannel(d, k)
        PROVE  channel'[k].joinOrder[c] = channel[k].joinOrder[c]
    <3>1. channel'[k].joinOrder = [channel[k].joinOrder EXCEPT ![d] = channel[k].nextJoinSeq]
      BY <2>1, <2>4 DEF EntersChannel, Enters, ChannelOK, Channel
    <3>2. c # d /\ channel[k].joinOrder \in [Cids -> Nat \cup {NoSeq}]
      BY <1>1, <2>1, <2>4 DEF EntersChannel, ChannelOK, Channel
    <3> QED BY <2>1, <3>1, <3>2
  <2>5. CASE InviteStep(k) \/ ModeStep(k) \/ TopicStep(k)
    BY <1>1, <2>5, SettingsKeepMembers
  <2> QED BY <1>1, <2>2, <2>3, <2>4, <2>5, SurvivorSteps
<1>2. ChInv /\ [ChNext]_chVars =>
        [\A k \in channels \cap channels' :
            \A c, d \in channel[k].members \cap channel'[k].members :
                channel[k].joinOrder[c] < channel[k].joinOrder[d] =>
                channel'[k].joinOrder[c] < channel'[k].joinOrder[d]]_chVars
  BY <1>1
<1> QED BY <1>2, ChannelsCorrect, PTL DEF ChSpec, SeniorityIsStable

\* What stays as it is while a channel has no operators.
Frozen(old, new) ==
    /\ new.operators = {}
    /\ <<new.flags, new.key, new.limit, new.bans, new.voiced>> =
       <<old.flags, old.key, old.limit, old.bans, old.voiced>>
    /\ "t" \in old.flags => new.topic = old.topic
    /\ "i" \in old.flags => new.invited \subseteq old.invited

\* A channel without operators keeps its modes and its bans, its topic under +t
\* and its invitations under +i until a member departs: no command works there.
THEOREM OplessChannelStaysFrozen == ChSpec => OplessChannelIsFrozen
<1>1. ASSUME ChInv, ChNext, NEW k \in channels, k \in channels',
             channel[k].operators = {}, ~Departs(k)
      PROVE  Frozen(channel[k], channel'[k])
  <2> DEFINE old == channel[k]
  <2>1. k \in FoldedNames /\ ChannelOK(old) /\ old.members # {} /\ old \in Channel
    BY <1>1, EveryChannelOK DEF ChInv, ChTypeOK, ChannelTablesAgree, ChannelOK
  <2>2. CASE channel'[k] = old
    BY <1>1, <2>2 DEF Frozen
  <2>3. ASSUME NEW d \in Cids PROVE ~LeavesChannel(d, k)
    BY <1>1, <2>1, DepartedOK DEF LeavesChannel, Departs
  <2>4. ASSUME NEW d \in Cids, ForgetsInvite(d, k)
        PROVE  Frozen(old, channel'[k])
    <3>1. d \notin old.voiced
      BY <2>1, <2>4 DEF ForgetsInvite, ChannelOK, RolesOK
    <3> QED BY <1>1, <2>1, <2>4, <3>1 DEF ForgetsInvite, Without, Frozen, Channel
  <2>5. ASSUME NEW d \in Cids, EntersChannel(d, k)
        PROVE  Frozen(old, channel'[k])
    BY <1>1, <2>1, <2>5 DEF EntersChannel, Enters, Frozen, Channel
  <2>6. CASE InviteStep(k)
    <3>1. PICK c \in Cids, target \in Cids : Invite(c, target, k)
      BY <2>6 DEF InviteStep
    <3>2. "i" \notin old.flags /\ channel'[k] = [old EXCEPT !.invited = @ \cup {target}]
      BY <1>1, <2>1, <3>1 DEF Invite, ChInv, ChTypeOK
    <3> QED BY <1>1, <2>1, <3>2 DEF Frozen, Channel
  <2>7. ~ModeStep(k)
    BY <1>1 DEF ModeStep, Mode
  <2>8. CASE TopicStep(k)
    <3>1. PICK c \in Cids, topic \in Topics \cup {NoTopic} : Topic(c, k, topic)
      BY <2>8 DEF TopicStep
    <3>2. "t" \notin old.flags /\ channel'[k] = [old EXCEPT !.topic = topic]
      BY <1>1, <2>1, <3>1 DEF Topic, ChInv, ChTypeOK
    <3> QED BY <1>1, <2>1, <3>2 DEF Frozen, Channel
  <2> QED BY <1>1, <2>2, <2>3, <2>4, <2>5, <2>6, <2>7, <2>8, SurvivorSteps
<1>2. ASSUME NEW k \in channels, UNCHANGED chVars, channel[k].operators = {}
      PROVE  Frozen(channel[k], channel'[k])
  BY <1>2 DEF chVars, Frozen
<1>3. ChInv /\ [ChNext]_chVars =>
        [\A k \in channels \cap channels' :
            LET old == channel[k]
                new == channel'[k]
            IN
            old.operators = {} /\ ~Departs(k) =>
                /\ new.operators = {}
                /\ <<new.flags, new.key, new.limit, new.bans, new.voiced>> =
                   <<old.flags, old.key, old.limit, old.bans, old.voiced>>
                /\ "t" \in old.flags => new.topic = old.topic
                /\ "i" \in old.flags => new.invited \subseteq old.invited]_chVars
  BY <1>1, <1>2 DEF Frozen
<1> QED BY <1>3, ChannelsCorrect, PTL DEF ChSpec, OplessChannelIsFrozen

-----------------------------------------------------------------------------
\* LimitsHold speaks of cardinalities, which mean something for finite sets only:
\* its strengthening says that the sets are finite, and what they may hold.
AtMost(S, n) == IsFiniteSet(S) /\ Cardinality(S) <= n

ChannelInLimits(ch) ==
    /\ AtMost(ch.members, MaxUsersPerChannel)
    /\ AtMost(ch.bans, MaxBanList)
    /\ AtMost(ch.invited, MaxInvites)

LimitsInv ==
    /\ \A c \in Cids : AtMost(joined[c], MaxChannelsPerUser)
    /\ \A k \in FoldedNames : ChannelInLimits(channel[k])

\* A subset stays within a limit, and so does an addition tested against it.
LEMMA WithinLimit ==
    ASSUME NEW S, NEW n \in Nat, AtMost(S, n)
    PROVE  /\ \A T \in SUBSET S : AtMost(T, n)
           /\ \A x : Cardinality(S) < n => AtMost(S \cup {x}, n)
<1>1. Cardinality(S) \in Nat
  BY FS_CardinalityType DEF AtMost
<1>2. ASSUME NEW T \in SUBSET S
      PROVE  AtMost(T, n)
  <2>1. IsFiniteSet(T) /\ Cardinality(T) <= Cardinality(S)
    BY FS_Subset DEF AtMost
  <2>2. Cardinality(T) \in Nat
    BY <2>1, FS_CardinalityType
  <2> QED BY <1>1, <2>1, <2>2 DEF AtMost
<1>3. ASSUME NEW x, Cardinality(S) < n
      PROVE  AtMost(S \cup {x}, n)
  BY <1>1, <1>3, FS_AddElement DEF AtMost
<1> QED BY <1>2, <1>3

LEMMA EmptyWithinLimit == \A n \in Nat : AtMost({}, n)
BY FS_EmptySet DEF AtMost

LEMMA NoChannelInLimits ==
    /\ ChannelInLimits(NoChannel)
    /\ \A n \in ChanNames : ChannelInLimits([NoChannel EXCEPT !.name = n])
BY EmptyWithinLimit, ChannelsAssumption DEF ChannelInLimits, NoChannel

\* A departure adds to none of the limited sets.
LEMMA DepartedShrinks ==
    ASSUME NEW ch \in Channel, NEW c \in Cids
    PROVE  LET next == Departed(ch, c) IN
           /\ next.members \subseteq ch.members
           /\ next.bans \subseteq ch.bans
           /\ next.invited \subseteq ch.invited
BY DEF Departed, Without, SucceedOpIfNeeded, NoChannel, Channel

\* Each kind of step keeps within the limits: joining and inviting test first.
LEMMA LimitsStep ==
    ASSUME ChInv, LimitsInv, [ChNext]_chVars
    PROVE  LimitsInv'
<1>1. /\ channel \in [FoldedNames -> Channel]
      /\ joined \in [Cids -> SUBSET FoldedNames]
      /\ channels \subseteq FoldedNames
  BY DEF ChInv, ChTypeOK
<1>2. CASE UNCHANGED chVars
  BY <1>2 DEF chVars, LimitsInv, ChannelInLimits
<1>3. ASSUME NEW c \in Cids, NEW S \in SUBSET channels, LeaveStep(c, S)
      PROVE  LimitsInv'
  <2>1. ASSUME NEW d \in Cids PROVE AtMost(joined'[d], MaxChannelsPerUser)
    <3>1. joined'[d] \subseteq joined[d]
      BY <1>1, <1>3 DEF LeaveStep
    <3> QED BY <3>1, WithinLimit, ChannelsAssumption DEF LimitsInv
  <2>2. ASSUME NEW k \in FoldedNames PROVE ChannelInLimits(channel'[k])
    <3>1. /\ channel'[k].members \subseteq channel[k].members
          /\ channel'[k].bans \subseteq channel[k].bans
          /\ channel'[k].invited \subseteq channel[k].invited
      BY <1>1, <1>3, DepartedShrinks DEF LeaveStep, DepartFrom
    <3>2. ChannelInLimits(channel[k])
      BY DEF LimitsInv
    <3>3. {MaxUsersPerChannel, MaxBanList, MaxInvites} \subseteq Nat
      BY ChannelsAssumption
    <3>4. /\ AtMost(channel'[k].members, MaxUsersPerChannel)
          /\ AtMost(channel'[k].bans, MaxBanList)
          /\ AtMost(channel'[k].invited, MaxInvites)
      BY <3>1, <3>2, <3>3, WithinLimit DEF ChannelInLimits
    <3> QED BY <3>4 DEF ChannelInLimits
  <2> QED BY <2>1, <2>2 DEF LimitsInv, ChannelInLimits
<1>4. ASSUME NEW c \in Cids, NEW name \in ChanNames, NEW key, NEW matching,
             Join(c, name, key, matching)
      PROVE  LimitsInv'
  <2> DEFINE k  == FoldName[name]
             ch == GetOrCreate(name)
  <2>1. k \in FoldedNames /\ ch \in Channel /\ ChannelInLimits(ch)
    BY <1>1, NoChannelOK, NoChannelInLimits DEF FoldedNames, GetOrCreate, ChannelOK, LimitsInv
  <2>2. /\ Cardinality(joined[c]) < MaxChannelsPerUser
        /\ Cardinality(ch.members) < MaxUsersPerChannel
        /\ channel' = [channel EXCEPT ![k] = Enters(ch, c, k \notin channels)]
        /\ joined' = [joined EXCEPT ![c] = @ \cup {k}]
    BY <1>4 DEF Join
  <2> HIDE DEF ch
  <2>3. ASSUME NEW d \in Cids PROVE AtMost(joined'[d], MaxChannelsPerUser)
    <3>1. AtMost(joined[d], MaxChannelsPerUser)
      BY DEF LimitsInv
    <3>2. joined'[d] = joined[d] \/ (d = c /\ joined'[d] = joined[d] \cup {k})
      BY <1>1, <2>2
    <3>3. MaxChannelsPerUser \in Nat
      BY ChannelsAssumption
    <3>4. CASE d = c
      <4>1. AtMost(joined[d] \cup {k}, MaxChannelsPerUser)
        BY <2>2, <3>1, <3>3, <3>4, WithinLimit
      <4> QED BY <3>1, <3>2, <4>1
    <3> QED BY <3>1, <3>2, <3>4
  <2>4. ChannelInLimits(Enters(ch, c, k \notin channels))
    <3> DEFINE next == Enters(ch, c, k \notin channels)
    <3>1. /\ next.members = ch.members \cup {c}
          /\ next.bans = ch.bans
          /\ next.invited \subseteq ch.invited
      BY <2>1 DEF Enters, Channel
    <3> HIDE DEF next
    <3>2. {MaxUsersPerChannel, MaxBanList, MaxInvites} \subseteq Nat
      BY ChannelsAssumption
    <3>3. AtMost(ch.members \cup {c}, MaxUsersPerChannel)
      BY <2>1, <2>2, <3>2, WithinLimit DEF ChannelInLimits
    <3>4. AtMost(next.invited, MaxInvites)
      BY <2>1, <3>1, <3>2, WithinLimit DEF ChannelInLimits
    <3> QED BY <2>1, <3>1, <3>3, <3>4 DEF ChannelInLimits, next
  <2> QED BY <1>1, <2>1, <2>2, <2>3, <2>4 DEF LimitsInv, ChannelInLimits
<1>5. ASSUME NEW k \in channels, NEW ch, ChannelInLimits(ch),
             channel' = [channel EXCEPT ![k] = ch], joined' = joined
      PROVE  LimitsInv'
  BY <1>1, <1>5 DEF LimitsInv, ChannelInLimits
<1>6. ASSUME NEW k \in channels, InviteStep(k) \/ ModeStep(k) \/ TopicStep(k)
      PROVE  LimitsInv'
  <2>1. channel[k] \in Channel /\ ChannelInLimits(channel[k]) /\ joined' = joined
    BY <1>1, <1>6 DEF LimitsInv, InviteStep, ModeStep, TopicStep
  <2>2. ASSUME NEW c \in Cids, NEW target \in Cids, Invite(c, target, k)
        PROVE  LimitsInv'
    <3> DEFINE ch == [channel[k] EXCEPT !.invited = @ \cup {target}]
    <3>1. /\ ch.members = channel[k].members /\ ch.bans = channel[k].bans
          /\ ch.invited = channel[k].invited \cup {target}
      BY <2>1 DEF Channel
    <3>2. channel' = [channel EXCEPT ![k] = ch] /\ Cardinality(channel[k].invited) < MaxInvites
      BY <2>2 DEF Invite
    <3> HIDE DEF ch
    <3>3. AtMost(channel[k].invited, MaxInvites) /\ MaxInvites \in Nat
      BY <2>1, ChannelsAssumption DEF ChannelInLimits
    <3>4. AtMost(channel[k].invited \cup {target}, MaxInvites)
      BY <3>2, <3>3, WithinLimit
    <3>5. ChannelInLimits(ch)
      BY <2>1, <3>1, <3>4 DEF ChannelInLimits
    <3> QED BY <1>5, <2>1, <3>2, <3>5
  <2>3. ASSUME NEW m \in ModeSettings(channel[k]), channel' = [channel EXCEPT ![k] = SetModes(@, m)]
        PROVE  LimitsInv'
    <3> DEFINE ch == SetModes(channel[k], m)
    <3>1. /\ ch.members = channel[k].members /\ ch.bans = m.bans
          /\ ch.invited = channel[k].invited
      BY <2>1 DEF Channel, SetModes
    <3>2. m.bans \in BanLists
      BY DEF ModeSettings
    <3>3. ChannelInLimits(ch)
      BY <2>1, <3>1, <3>2 DEF ChannelInLimits, BanLists, AtMost
    <3> HIDE DEF ch
    <3>4. channel' = [channel EXCEPT ![k] = ch]
      BY <2>3 DEF ch
    <3> QED BY <1>5, <2>1, <3>3, <3>4
  <2>4. ASSUME NEW c \in Cids, NEW topic \in Topics \cup {NoTopic}, Topic(c, k, topic)
        PROVE  LimitsInv'
    <3> DEFINE ch == [channel[k] EXCEPT !.topic = topic]
    <3>1. ChannelInLimits(ch) /\ channel' = [channel EXCEPT ![k] = ch]
      BY <2>1, <2>4 DEF Topic, Channel, ChannelInLimits
    <3> HIDE DEF ch
    <3> QED BY <1>5, <2>1, <3>1
  <2> QED BY <1>6, <2>2, <2>3, <2>4 DEF InviteStep, ModeStep, Mode, TopicStep
<1>7. CASE ChNext
  BY <1>3, <1>4, <1>6, <1>7, ChStepKinds DEF JoinOf
<1> QED BY <1>2, <1>7

LEMMA LimitsInitInv == ChInit => LimitsInv
BY EmptyWithinLimit, NoChannelInLimits, ChannelsAssumption DEF ChInit, LimitsInv

LEMMA LimitsInvHolds == ChSpec => []LimitsInv
<1>1. ChInit => LimitsInv
  BY LimitsInitInv
<1>2. ChInv /\ LimitsInv /\ [ChNext]_chVars => LimitsInv'
  BY LimitsStep
<1> QED BY <1>1, <1>2, ChannelsCorrect, PTL DEF ChSpec

\* The limits of config.h are never exceeded, however they are approached.
THEOREM LimitsAlwaysHold == ChSpec => []LimitsHold
<1>1. ChInv /\ LimitsInv => LimitsHold
  BY DEF ChInv, ChTypeOK, LimitsInv, ChannelInLimits, AtMost, LimitsHold
<1> QED BY <1>1, ChannelsCorrect, LimitsInvHolds, PTL

=============================================================================

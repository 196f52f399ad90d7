--------------------------- MODULE ModeLineProofs ---------------------------
(***************************************************************************)
(* A MODE line run letter by letter is, from outside, one Mode step of     *)
(* Channels.  While it is run, the channel is always SetModes(before, m)   *)
(* for settings m its first test of authority allows: each letter moves    *)
(* from one such m to another.                                             *)
(*                                                                         *)
(* And its announcement is complete: as long as all it announces are       *)
(* words, a reader of the letters and parameters written so far, with any  *)
(* parameters behind them, ends with the channel, the sign and the effects *)
(* of the line and with those parameters left.  The one parameter that is  *)
(* no word is the last; from then on only letters without one are left,    *)
(* and they keep the key or the bans as the only thing misheard.           *)
(***************************************************************************)
EXTENDS ModeLine, ChannelsProofs, TLAPS

\* What a line may have made so far of the channel as it was.
Outcomes(ch) == {SetModes(ch, m) : m \in ModeSettings(ch)}

LineInv ==
    /\ ModeTypeOK
    /\ by # NoClient =>
        /\ ChannelOK(line.before)
        /\ channel[line.chan] \in Outcomes(line.before)

ModeInv == ChInv /\ LimitsInv /\ LineInv

\* A channel within its limits is the outcome of changing nothing.
LEMMA NothingYet ==
    ASSUME NEW ch, ChannelOK(ch), ChannelInLimits(ch)
    PROVE  ch \in Outcomes(ch)
<1> DEFINE m == [flags |-> ch.flags, key |-> ch.key, limit |-> ch.limit, bans |-> ch.bans,
                 operators |-> ch.operators, voiced |-> ch.voiced]
<1>1. m \in ModeSettings(ch)
  BY DEF ModeSettings, BanLists, ChannelOK, RolesOK, Channel, ChannelInLimits, AtMost
<1>2. SetModes(ch, m) = ch
  BY DEF SetModes, ChannelOK, Channel
<1> QED BY <1>1, <1>2 DEF Outcomes

\* The ban list with one mask more or less is a ban list, if more is allowed.
LEMMA BanChange ==
    ASSUME NEW b \in BanLists, NEW mask \in Masks, NEW sign \in Signs,
           sign = "+" => Cardinality(b) < MaxBanList
    PROVE  Changed(b, sign, mask) \in BanLists
BY WithinLimit, ChannelsAssumption DEF BanLists, AtMost, Changed, Signs

\* A letter that applies turns one outcome into another.
LEMMA ApplyOutcome ==
    ASSUME NEW ch, ChannelOK(ch), NEW now \in Outcomes(ch), NEW sign \in Signs,
           NEW x \in Letters, NEW a, ConsumesArg(sign, x) => a \in Args,
           Applies(now, sign, x, a)
    PROVE  Apply(now, sign, x, a) \in Outcomes(ch)
<1>1. PICK m \in ModeSettings(ch) : now = SetModes(ch, m)
  BY DEF Outcomes
<1>2. /\ now \in Channel /\ ch \in Channel
      /\ now.members = ch.members
      /\ now.flags = m.flags /\ now.key = m.key /\ now.limit = m.limit /\ now.bans = m.bans
      /\ now.operators = m.operators /\ now.voiced = m.voiced
  BY <1>1, SetModesOK DEF ChannelOK, SetModes, Channel
<1>3. ASSUME NEW n \in ModeSettings(ch), Apply(now, sign, x, a) = SetModes(ch, n)
      PROVE  Apply(now, sign, x, a) \in Outcomes(ch)
  BY <1>3 DEF Outcomes
<1>4. CASE x \in FlagLetters
  <2> DEFINE n == [m EXCEPT !.flags = Changed(@, sign, x)]
  <2>1. n \in ModeSettings(ch)
    BY <1>4 DEF ModeSettings, Changed, FlagLetters
  <2>2. Apply(now, sign, x, a) = [now EXCEPT !.flags = Changed(@, sign, x)]
    BY <1>4, ChannelsAssumption DEF Apply, FlagLetters
  <2>3. [now EXCEPT !.flags = Changed(@, sign, x)] = SetModes(ch, n)
    BY <1>1, <1>2 DEF SetModes, ModeSettings, Channel
  <2> QED BY <1>3, <2>1, <2>2, <2>3
<1>5. CASE x = "k"
  <2> DEFINE key == IF sign = "+" THEN KeyOf[a] ELSE NoChanKey
             n == [m EXCEPT !.key = key]
  <2>1. key \in ChanKeys \cup {NoChanKey}
    BY <1>5, ModeLineAssumption DEF ConsumesArg
  <2>2. n \in ModeSettings(ch)
    BY <2>1 DEF ModeSettings
  <2>3. Apply(now, sign, x, a) = [now EXCEPT !.key = key]
    BY <1>5, ChannelsAssumption DEF Apply, FlagLetters
  <2>4. [now EXCEPT !.key = key] = SetModes(ch, n)
    BY <1>1, <1>2, ZenonT(40) DEF SetModes, ModeSettings, Channel
  <2> QED BY <1>3, <2>2, <2>3, <2>4
<1>6. CASE x = "l"
  <2> DEFINE limit == IF sign = "+" THEN LimitOf[a] ELSE 0
             n == [m EXCEPT !.limit = limit]
  <2>1. limit \in Limits \cup {0}
    BY <1>6, ModeLineAssumption DEF ConsumesArg
  <2>2. n \in ModeSettings(ch)
    BY <2>1 DEF ModeSettings
  <2>3. Apply(now, sign, x, a) = [now EXCEPT !.limit = limit]
    BY <1>6, ChannelsAssumption DEF Apply, FlagLetters
  <2>4. [now EXCEPT !.limit = limit] = SetModes(ch, n)
    BY <1>1, <1>2, ZenonT(40) DEF SetModes, ModeSettings, Channel
  <2> QED BY <1>3, <2>2, <2>3, <2>4
<1>7. CASE x = "o"
  <2> DEFINE ops == Changed(now.operators, sign, TargetOf[a])
             n == [m EXCEPT !.operators = ops]
  <2>1. TargetOf[a] \in ch.members
    BY <1>2, <1>7, ChannelsAssumption DEF Applies, FlagLetters
  <2>2. n \in ModeSettings(ch)
    BY <1>2, <2>1 DEF ModeSettings, Changed
  <2>3. Apply(now, sign, x, a) = [now EXCEPT !.operators = ops]
    BY <1>7, ChannelsAssumption DEF Apply, FlagLetters
  <2>4. [now EXCEPT !.operators = ops] = SetModes(ch, n)
    BY <1>1, <1>2 DEF SetModes, ModeSettings, Channel
  <2> QED BY <1>3, <2>2, <2>3, <2>4
<1>8. CASE x = "v"
  <2> DEFINE vs == Changed(now.voiced, sign, TargetOf[a])
             n == [m EXCEPT !.voiced = vs]
  <2>1. TargetOf[a] \in ch.members
    BY <1>2, <1>8, ChannelsAssumption DEF Applies, FlagLetters
  <2>2. n \in ModeSettings(ch)
    BY <1>2, <2>1 DEF ModeSettings, Changed
  <2>3. Apply(now, sign, x, a) = [now EXCEPT !.voiced = vs]
    BY <1>8, ChannelsAssumption DEF Apply, FlagLetters
  <2>4. [now EXCEPT !.voiced = vs] = SetModes(ch, n)
    BY <1>1, <1>2 DEF SetModes, ModeSettings, Channel
  <2> QED BY <1>3, <2>2, <2>3, <2>4
<1>9. CASE x = "b"
  <2> DEFINE bans == Changed(now.bans, sign, MaskOf[a])
             n == [m EXCEPT !.bans = bans]
  <2>1. MaskOf[a] \in Masks /\ (sign = "+" => Cardinality(now.bans) < MaxBanList)
    BY <1>9, ModeLineAssumption, ChannelsAssumption DEF ConsumesArg, Applies, FlagLetters
  <2>2. now.bans \in BanLists
    BY <1>2 DEF ModeSettings
  <2>3. bans \in BanLists
    BY <2>1, <2>2, BanChange
  <2> HIDE DEF bans
  <2>4. n \in ModeSettings(ch)
    BY <2>3 DEF ModeSettings
  <2>5. Apply(now, sign, x, a) = [now EXCEPT !.bans = bans]
    BY <1>9, ChannelsAssumption DEF Apply, FlagLetters, bans
  <2>6. [now EXCEPT !.bans = bans] = SetModes(ch, n)
    BY <1>1, <1>2 DEF SetModes, ModeSettings, Channel
  <2> QED BY <1>3, <2>4, <2>5, <2>6
<1> QED BY <1>4, <1>5, <1>6, <1>7, <1>8, <1>9 DEF Letters

-----------------------------------------------------------------------------
\* What a letter consumes.
Taken(sign, x, a) == IF ConsumesArg(sign, x) THEN a \in Args ELSE a = NoArg

\* What is announced of a letter that applies has the effect it had: a nick for the
\* parameter that found the client, the complete mask for the one given.  It is a
\* word if the parameter was, and may only be another for a key or a mask.
LEMMA SameEffect ==
    ASSUME NEW ch \in Channel, NEW sign \in Signs, NEW x \in Letters, NEW a,
           Taken(sign, x, a), Applies(ch, sign, x, a),
           NEW w, w = AppliedArg(x, a)
    PROVE  /\ Taken(sign, x, w) /\ Applies(ch, sign, x, w)
           /\ Apply(ch, sign, x, w) = Apply(ch, sign, x, a)
           /\ AppliedArg(x, w) = w
           /\ w \in Args \cup {NoArg}
           /\ a \in Words \cup {NoArg} => w \in Words \cup {NoArg}
           /\ w \notin Words \cup {NoArg} => x \in {"k", "b"} /\ ConsumesArg(sign, x)
<1>1. CASE x \in FlagLetters
  <2>1. x \in {"i", "t", "m"}
    BY <1>1, ChannelsAssumption DEF FlagLetters
  <2>2. w = a /\ a = NoArg
    BY <2>1 DEF AppliedArg, Taken, ConsumesArg
  <2> QED BY <2>2
<1>2. CASE x = "k"
  <2>1. w = a /\ a \in Args \cup {NoArg}
    BY <1>2 DEF AppliedArg, Taken
  <2>2. w \notin Words \cup {NoArg} => ConsumesArg(sign, x)
    BY <2>1 DEF Taken
  <2> QED BY <1>2, <2>1, <2>2
<1>3. CASE x = "l"
  <2>1. w = a /\ a \in Args \cup {NoArg}
    BY <1>3 DEF AppliedArg, Taken
  <2>2. sign = "+" => LimitOf[a] # 0 /\ a \in Args
    BY <1>3, ChannelsAssumption DEF Applies, FlagLetters, Taken, ConsumesArg
  <2>3. sign # "+" => a = NoArg
    BY <1>3 DEF Taken, ConsumesArg
  <2>4. w \in Words \cup {NoArg}
    BY <2>1, <2>2, <2>3, ModeLineAssumption
  <2> QED BY <2>1, <2>4
<1>4. CASE x \in {"o", "v"}
  <2>1. a \in Args /\ TargetOf[a] \in ch.members /\ ch.members \subseteq Cids
    BY <1>4, ChannelsAssumption DEF Applies, FlagLetters, Taken, ConsumesArg, Channel
  <2>2. w = NickAs[TargetOf[a]]
    BY <1>4 DEF AppliedArg
  <2>3. w \in Words /\ w \in Args /\ TargetOf[w] = TargetOf[a]
    BY <2>1, <2>2, IdsAssumption, ModeLineAssumption
  <2>4. AppliedArg(x, w) = w
    BY <1>4, <2>2, <2>3 DEF AppliedArg
  <2>5. Taken(sign, x, w)
    BY <2>3, <1>4 DEF Taken, ConsumesArg
  <2>6. Applies(ch, sign, x, w)
    BY <1>4, <2>3, ChannelsAssumption DEF Applies, FlagLetters
  <2>7. Apply(ch, sign, x, w) = Apply(ch, sign, x, a)
    BY <1>4, <2>3, ChannelsAssumption DEF Apply, FlagLetters
  <2> QED BY <2>3, <2>4, <2>5, <2>6, <2>7
<1>5. CASE x = "b"
  <2>1. a \in Args /\ ConsumesArg(sign, x)
    BY <1>5 DEF Taken, ConsumesArg
  <2>2. w = MaskOf[a]
    BY <1>5 DEF AppliedArg
  <2>3. w \in Args /\ MaskOf[w] = w /\ (a \in Words => w \in Words)
    BY <2>1, <2>2, ModeLineAssumption
  <2>4. AppliedArg(x, w) = w
    BY <1>5, <2>3 DEF AppliedArg
  <2>5. Taken(sign, x, w)
    BY <2>1, <2>3 DEF Taken
  <2>6. Applies(ch, sign, x, w)
    BY <1>5, <2>2, <2>3, ChannelsAssumption DEF Applies, FlagLetters
  <2>7. Apply(ch, sign, x, w) = Apply(ch, sign, x, a)
    BY <1>5, <2>2, <2>3, ChannelsAssumption DEF Apply, FlagLetters
  <2>8. a # NoArg
    BY <2>1, ModeLineAssumption
  <2> QED BY <1>5, <2>1, <2>3, <2>4, <2>5, <2>6, <2>7, <2>8
<1> QED BY <1>1, <1>2, <1>3, <1>4, <1>5 DEF Letters

\* What ReadNext(x) reads from.
Reading == [ch |-> channel[line.chan], sign |-> line.sign, args |-> line.args,
            applied |-> line.applied]

\* One turn of the loop replaces the channel and moves on in the line.
LEMMA ReadFrame ==
    ASSUME NEW x \in Signs \cup Letters, ReadNext(x), LineInv
    PROVE  /\ by # NoClient /\ UNCHANGED <<channels, joined, by>>
           /\ channel' = [channel EXCEPT ![line.chan] = Read(Reading, x).ch]
           /\ line'.chan = line.chan /\ line'.before = line.before
           /\ line'.sign = Read(Reading, x).sign
           /\ line'.args = Read(Reading, x).args
           /\ line'.applied = Read(Reading, x).applied
           /\ line' \in [chan : {line.chan}, before : {line.before}, room : 0 .. MaxLetters,
                        sign : {line'.sign}, args : {line'.args}, applied : {line'.applied}]
<1>1. line' = [line EXCEPT !.room = IF x \in Signs THEN @ ELSE @ - 1,
                           !.sign = Read(Reading, x).sign,
                           !.args = Read(Reading, x).args,
                           !.applied = Read(Reading, x).applied]
  BY DEF ReadNext, Reading
<1>2. line \in Line /\ line.room \in 0 .. MaxLetters /\ line.room > 0
  BY DEF LineInv, ModeTypeOK, Line, ReadNext
<1> HIDE DEF Reading
<1>3. (IF x \in Signs THEN line.room ELSE line.room - 1) \in 0 .. MaxLetters
  BY <1>2, ModeLineAssumption
<1> QED BY <1>1, <1>2, <1>3 DEF ReadNext, Reading, Line

\* One letter read: the channel is still an outcome of the line as it began.
LEMMA ReadOutcome ==
    ASSUME ModeInv, by # NoClient, NEW x \in Signs \cup Letters
    PROVE  /\ Read(Reading, x).ch \in Outcomes(line.before)
           /\ Read(Reading, x).sign \in Signs
           /\ Read(Reading, x).args \in Seq(Args)
           /\ Read(Reading, x).applied \in Seq(Change)
<1> DEFINE takes == ConsumesArg(line.sign, x)
           a == IF takes THEN Head(line.args) ELSE NoArg
           rest == IF takes THEN Tail(line.args) ELSE line.args
<1>1. /\ line.sign \in Signs /\ line.args \in Seq(Args) /\ line.applied \in Seq(Change)
      /\ channel[line.chan] \in Outcomes(line.before)
      /\ ChannelOK(line.before)
  BY DEF ModeInv, LineInv, ModeTypeOK, Line
<1>2. CASE x \in Signs
  BY <1>1, <1>2 DEF Read, Reading
<1>3. CASE x \notin Signs /\ takes /\ line.args = <<>>
  BY <1>1, <1>3 DEF Read, Reading
<1>4. CASE x \notin Signs /\ ~(takes /\ line.args = <<>>)
  <2>1. x \in Letters /\ (takes => a \in Args) /\ rest \in Seq(Args)
    BY <1>1, <1>4
  <2>2. CASE ~Applies(channel[line.chan], line.sign, x, a)
    <3>1. Read(Reading, x) = [Reading EXCEPT !.args = rest]
      BY <1>4, <2>2 DEF Read, Reading
    <3> QED BY <1>1, <2>1, <3>1 DEF Reading
  <2>3. CASE Applies(channel[line.chan], line.sign, x, a)
    <3> HIDE DEF a, rest
    <3>1. /\ Read(Reading, x).ch = Apply(channel[line.chan], line.sign, x, a)
          /\ Read(Reading, x).sign = line.sign
          /\ Read(Reading, x).args = rest
          /\ Read(Reading, x).applied =
                Append(line.applied, [sign |-> line.sign, mode |-> x, arg |-> AppliedArg(x, a)])
      BY <1>4, <2>3 DEF Read, Reading, a, rest
    <3>2. Apply(channel[line.chan], line.sign, x, a) \in Outcomes(line.before)
      BY <1>1, <2>1, <2>3, ApplyOutcome
    <3>3. [sign |-> line.sign, mode |-> x, arg |-> AppliedArg(x, a)] \in Change
      <4>1. Taken(line.sign, x, a) /\ channel[line.chan] \in Channel
        BY <1>1, <2>1, SetModesOK DEF Taken, a, Outcomes, ChannelOK
      <4>2. AppliedArg(x, a) \in Args \cup {NoArg}
        BY <1>1, <2>1, <2>3, <4>1, SameEffect
      <4> QED BY <1>1, <2>1, <4>2 DEF Change
    <3> QED BY <1>1, <2>1, <3>1, <3>2, <3>3
  <2> QED BY <2>2, <2>3
<1> QED BY <1>2, <1>3, <1>4

\* Outcomes of the same channel differ in their settings only, all within limits.
LEMMA OutcomeFacts ==
    ASSUME NEW ch, ChannelOK(ch), NEW next \in Outcomes(ch)
    PROVE  /\ ChannelOK(next)
           /\ next.members = ch.members
           /\ next.name = ch.name
           /\ next.invited = ch.invited
           /\ AtMost(next.bans, MaxBanList)
BY SetModesOK DEF Outcomes, BanLists, AtMost

LEMMA ReadInv ==
    ASSUME ModeInv, NEW x \in Signs \cup Letters, ReadNext(x)
    PROVE  ModeInv'
<1> DEFINE k == line.chan
           next == Read(Reading, x).ch
<1>1. /\ by # NoClient /\ by' = by /\ by \in Cids
      /\ k \in channels /\ k \in FoldedNames
      /\ channel' = [channel EXCEPT ![k] = next]
      /\ line'.chan = k /\ line'.before = line.before
      /\ UNCHANGED <<channels, joined>>
  BY ReadFrame DEF ModeInv, LineInv, ModeTypeOK, ChInv, ChTypeOK
<1>2. /\ next \in Outcomes(line.before) /\ channel[k] \in Outcomes(line.before)
      /\ Read(Reading, x).sign \in Signs /\ Read(Reading, x).args \in Seq(Args)
      /\ Read(Reading, x).applied \in Seq(Change)
  BY <1>1, ReadOutcome DEF ModeInv, LineInv
<1>3. /\ ChannelOK(line.before) /\ by \in line.before.operators
  BY <1>1 DEF ModeInv, LineInv, ModeTypeOK
<1> HIDE DEF next
<1>4. /\ ChannelOK(next) /\ next.members = channel[k].members /\ next.name = channel[k].name
      /\ next.invited = channel[k].invited /\ AtMost(next.bans, MaxBanList)
  BY <1>2, <1>3, OutcomeFacts
<1>5. ChInv'
  BY <1>1, <1>4, SettingsStep DEF ModeInv
<1>6. LimitsInv'
  BY <1>1, <1>4 DEF ModeInv, LimitsInv, ChannelInLimits, ChInv, ChTypeOK
<1>7. channel'[k] = next
  BY <1>1 DEF ModeInv, ChInv, ChTypeOK
<1>8. line' \in Line
  <2>1. /\ line' \in [chan : {line.chan}, before : {line.before}, room : 0 .. MaxLetters,
                      sign : {line'.sign}, args : {line'.args}, applied : {line'.applied}]
        /\ line'.sign = Read(Reading, x).sign
        /\ line'.args = Read(Reading, x).args
        /\ line'.applied = Read(Reading, x).applied
    BY ReadFrame DEF ModeInv
  <2>2. line.chan \in FoldedNames \cup {NoName} /\ line.before \in Channel
    BY DEF ModeInv, LineInv, ModeTypeOK, Line
  <2> QED BY <1>2, <2>1, <2>2 DEF Line
<1>9. LineInv'
  BY <1>1, <1>2, <1>3, <1>7, <1>8 DEF LineInv, ModeTypeOK
<1> QED BY <1>5, <1>6, <1>9 DEF ModeInv

LEMMA BeginInv ==
    ASSUME ModeInv, NEW c \in Cids, NEW k \in FoldedNames, NEW args \in ArgLists, Begin(c, k, args)
    PROVE  ModeInv'
<1>1. ChannelOK(channel[k]) /\ ChannelInLimits(channel[k])
  BY EveryChannelOK DEF ModeInv, LimitsInv
<1>2. channel[k] \in Outcomes(channel[k])
  BY <1>1, NothingYet
<1>3. args \in Seq(Args)
  <2>1. PICK n \in 0 .. MaxArgs : args \in [1 .. n -> Typed]
    BY DEF ArgLists
  <2>2. n \in Nat /\ args \in [1 .. n -> Args]
    BY <2>1, ModeLineAssumption
  <2> QED BY <2>2
<1>4. LineInv'
  <2>1. line' \in Line
    BY <1>1, <1>3, ModeLineAssumption DEF Begin, Line, Signs, ChannelOK, Change
  <2> QED BY <1>1, <1>2, <2>1 DEF Begin, LineInv, ModeTypeOK, chVars
<1> QED BY <1>4 DEF Begin, ModeInv, chVars, ChInv, ChTypeOK, ChannelTablesAgree,
      RolesFollowMembership, LimitsInv, ChannelInLimits

LEMMA IdleOK == Idle \in Line
BY NoChannelOK, ModeLineAssumption DEF Idle, Line, Signs, ChannelOK

LEMMA ModeInitInv == ModeInit => ModeInv
<1>1. ChInit => LimitsInv
  BY EmptyWithinLimit, NoChannelInLimits, ChannelsAssumption DEF ChInit, LimitsInv
<1> QED BY <1>1, ChInitInv, IdleOK DEF ModeInit, ModeInv, LineInv, ModeTypeOK

LEMMA ModeNextInv == ModeInv /\ [ModeNext]_modeVars => ModeInv'
<1> SUFFICES ASSUME ModeInv, [ModeNext]_modeVars PROVE ModeInv'
  OBVIOUS
<1>1. CASE UNCHANGED modeVars
  BY <1>1 DEF modeVars, chVars, ModeInv, ChInv, ChTypeOK, ChannelTablesAgree,
      RolesFollowMembership, LimitsInv, ChannelInLimits, LineInv, ModeTypeOK
<1>2. CASE End
  BY <1>2, IdleOK DEF End, chVars, ModeInv, ChInv, ChTypeOK, ChannelTablesAgree,
      RolesFollowMembership, LimitsInv, ChannelInLimits, LineInv, ModeTypeOK
<1>3. CASE Elsewhere
  <2>1. ChNext
    BY <1>3 DEF Elsewhere, ChNext, ChStep
  <2>2. ChInv' /\ LimitsInv'
    BY <2>1, ChNextInv, LimitsStep DEF ModeInv
  <2> QED BY <1>3, <2>2 DEF Elsewhere, ModeInv, LineInv, ModeTypeOK
<1> QED BY <1>1, <1>2, <1>3, BeginInv, ReadInv DEF ModeNext

THEOREM ModeLineCorrect == ModeSpec => []ModeInv
BY ModeInitInv, ModeNextInv, PTL DEF ModeSpec

-----------------------------------------------------------------------------
\* Finiteness and cardinality are the same in both instances of Channels.
LEMMA SameCounting ==
    /\ \A S : Shown!IsFiniteSet(S) = IsFiniteSet(S)
    /\ \A S : Shown!Cardinality(S) = Cardinality(S)
<1>1. \A S : Shown!IsFiniteSet(S) = IsFiniteSet(S)
  BY DEF Shown!IsFiniteSet, IsFiniteSet
<1>2. \A S : Shown!Cardinality(S) = Cardinality(S)
  BY DEF Shown!Cardinality, Cardinality
<1> QED BY <1>1, <1>2

\* So are the operators on records.
LEMMA SameRecords ==
    /\ Shown!FoldedNames = FoldedNames
    /\ Shown!NoChannel = NoChannel
    /\ \A ch, c : Shown!Senior(ch) = Senior(ch)
    /\ \A ch, c : Shown!Departed(ch, c) = Departed(ch, c)
    /\ \A ch, c, created : Shown!Enters(ch, c, created) = Enters(ch, c, created)
    /\ \A ch, c, key, matching : (Shown!Admits(ch, c, key, matching) <=> Admits(ch, c, key, matching))
    /\ \A ch : Shown!ModeSettings(ch) = ModeSettings(ch)
    /\ \A ch, m : Shown!SetModes(ch, m) = SetModes(ch, m)
<1>1. Shown!FoldedNames = FoldedNames /\ Shown!NoChannel = NoChannel
  BY DEF Shown!FoldedNames, FoldedNames, Shown!NoChannel, NoChannel, Shown!NoSeq, NoSeq
<1>2. \A ch : Shown!Senior(ch) = Senior(ch)
  BY DEF Shown!Senior, Senior, Shown!JoinSeq, JoinSeq, Shown!NoSeq, NoSeq
<1>3. \A ch : Shown!SucceedOpIfNeeded(ch) = SucceedOpIfNeeded(ch)
  BY <1>2 DEF Shown!SucceedOpIfNeeded, SucceedOpIfNeeded
<1>4. \A ch, c : Shown!Without(ch, c) = Without(ch, c)
  BY DEF Shown!Without, Without, Shown!NoSeq, NoSeq
<1>5. \A ch, c : Shown!Departed(ch, c) = Departed(ch, c)
  BY <1>1, <1>3, <1>4 DEF Shown!Departed, Departed
<1>6. \A ch, c, created : Shown!Enters(ch, c, created) = Enters(ch, c, created)
  BY DEF Shown!Enters, Enters
<1>7. ASSUME NEW ch, NEW c, NEW key, NEW matching
      PROVE  Shown!Admits(ch, c, key, matching) <=> Admits(ch, c, key, matching)
  BY SameCounting DEF Shown!Admits, Admits
<1>8. Shown!BanLists = BanLists
  BY SameCounting DEF Shown!BanLists, BanLists
<1>9. \A ch : Shown!ModeSettings(ch) = ModeSettings(ch)
  BY <1>8 DEF Shown!ModeSettings, ModeSettings
<1>10. \A ch, m : Shown!SetModes(ch, m) = SetModes(ch, m)
  BY DEF Shown!SetModes, SetModes
<1> QED BY <1>1, <1>2, <1>5, <1>6, <1>7, <1>9, <1>10

\* Between lines the channels show as they are, so a step there is a step.
LEMMA ElsewhereShows ==
    ASSUME ShownChannel = channel, ShownChannel' = channel', NEW c \in Cids, OtherStep(c)
    PROVE  Shown!OtherStep(c)
<1> USE SameRecords, SameCounting
<1>1. ASSUME NEW S, NEW d, DepartFrom(d, S)
      PROVE  Shown!DepartFrom(d, S)
  BY <1>1 DEF DepartFrom, Shown!DepartFrom
<1>2. ASSUME NEW name \in ChanNames, NEW key \in ChanKeys \cup {NoChanKey},
             NEW matching \in SUBSET Masks, Join(c, name, key, matching)
      PROVE  Shown!Join(c, name, key, matching)
  <2>1. Shown!GetOrCreate(name) = GetOrCreate(name)
    BY DEF Shown!GetOrCreate, GetOrCreate
  <2> QED BY <1>2, <2>1 DEF Join, Shown!Join
<1>3. ASSUME NEW k \in FoldedNames, Part(c, k) PROVE Shown!Part(c, k)
  BY <1>1, <1>3 DEF Part, Shown!Part
<1>4. ASSUME PartAll(c) PROVE Shown!PartAll(c)
  BY <1>1, <1>4 DEF PartAll, Shown!PartAll
<1>5. ASSUME NEW target \in Cids, NEW k \in FoldedNames, Kick(c, target, k)
      PROVE  Shown!Kick(c, target, k)
  BY <1>1, <1>5 DEF Kick, Shown!Kick
<1>6. ASSUME NEW target \in Cids, NEW k \in FoldedNames, Invite(c, target, k)
      PROVE  Shown!Invite(c, target, k)
  BY <1>6 DEF Invite, Shown!Invite
<1>7. ASSUME NEW k \in FoldedNames, NEW topic \in Topics \cup {NoTopic}, Topic(c, k, topic)
      PROVE  Shown!Topic(c, k, topic)
  BY <1>7 DEF Topic, Shown!Topic
<1>8. ASSUME RemoveFromAll(c) PROVE Shown!RemoveFromAll(c)
  BY <1>1, <1>8 DEF RemoveFromAll, Shown!RemoveFromAll
<1> QED BY <1>2, <1>3, <1>4, <1>5, <1>6, <1>7, <1>8 DEF OtherStep, Shown!OtherStep

\* The end of a line shows the whole of it at once, as a Mode step.
LEMMA EndShows ==
    ASSUME ModeInv, End
    PROVE  Shown!Mode(by, line.chan)
<1> DEFINE k == line.chan
<1>1. /\ by # NoClient /\ k \in channels /\ k \in FoldedNames
      /\ by \in line.before.operators
      /\ channel[k] \in Outcomes(line.before)
      /\ channel \in [FoldedNames -> Channel]
  BY DEF End, ModeInv, LineInv, ModeTypeOK, ChInv, ChTypeOK
<1>2. /\ ShownChannel = [channel EXCEPT ![k] = line.before]
      /\ ShownChannel' = channel /\ UNCHANGED <<channels, joined>>
  BY <1>1 DEF End, ShownChannel, chVars
<1>3. ShownChannel[k] = line.before
  BY <1>1, <1>2
<1>4. PICK m \in ModeSettings(line.before) : channel[k] = SetModes(line.before, m)
  BY <1>1 DEF Outcomes
<1>5. ShownChannel' = [ShownChannel EXCEPT ![k] = SetModes(@, m)]
  BY <1>1, <1>2, <1>3, <1>4
<1> QED BY <1>1, <1>2, <1>3, <1>4, <1>5, SameRecords DEF Shown!Mode

LEMMA ModeStepShows ==
    ASSUME ModeInv, [ModeNext]_modeVars
    PROVE  [Shown!ChNext]_(Shown!chVars)
<1>1. CASE UNCHANGED modeVars
  BY <1>1 DEF modeVars, chVars, Shown!chVars, ShownChannel
<1>2. ASSUME NEW c \in Cids, NEW k \in FoldedNames, NEW args \in ArgLists, Begin(c, k, args)
      PROVE  UNCHANGED Shown!chVars
  <2>1. /\ by = NoClient /\ by' = c /\ c # NoClient
        /\ line'.chan = k /\ line'.before = channel[k] /\ UNCHANGED chVars
    BY <1>2, IdsAssumption DEF Begin
  <2>2. [channel EXCEPT ![k] = channel[k]] = channel
    BY DEF ModeInv, ChInv, ChTypeOK
  <2> QED BY <2>1, <2>2 DEF ShownChannel, Shown!chVars, chVars
<1>3. ASSUME NEW x \in Signs \cup Letters, ReadNext(x)
      PROVE  UNCHANGED Shown!chVars
  <2>1. /\ by # NoClient /\ by' = by /\ UNCHANGED <<channels, joined>>
        /\ channel' = [channel EXCEPT ![line.chan] = Read(Reading, x).ch]
        /\ line'.chan = line.chan /\ line'.before = line.before
    BY <1>3, ReadFrame DEF ModeInv
  <2>2. [channel' EXCEPT ![line.chan] = line.before] = [channel EXCEPT ![line.chan] = line.before]
    BY <2>1
  <2> QED BY <2>1, <2>2 DEF ShownChannel, Shown!chVars
<1>4. CASE End
  <2>1. Shown!Mode(by, line.chan) /\ by \in Cids /\ line.chan \in FoldedNames
    BY <1>4, EndShows DEF End, ModeInv, LineInv, ModeTypeOK, ChInv, ChTypeOK
  <2> QED BY <2>1, SameRecords DEF Shown!ChNext, Shown!ChStep
<1>5. CASE Elsewhere
  <2>1. ShownChannel = channel /\ ShownChannel' = channel'
    BY <1>5 DEF Elsewhere, ShownChannel
  <2> QED BY <1>5, <2>1, ElsewhereShows DEF Elsewhere, Shown!ChNext, Shown!ChStep
<1> QED BY <1>1, <1>2, <1>3, <1>4, <1>5 DEF ModeNext

\* Authority is tested once and the letters then change roles, the client's own
\* included, yet the line as a whole is a single Mode step.
THEOREM ModeLineIsOneStep == ModeSpec => ModeIsOneStep
<1>1. ModeInit => Shown!ChInit
  BY SameRecords DEF ModeInit, ChInit, Shown!ChInit, ShownChannel
<1>2. ModeInv /\ [ModeNext]_modeVars => [Shown!ChNext]_(Shown!chVars)
  BY ModeStepShows
<1> QED BY <1>1, <1>2, ModeLineCorrect, PTL DEF ModeSpec, ModeIsOneStep, Shown!ChSpec

-----------------------------------------------------------------------------
\* The announcement.  Who runs it on the channel as it was ends where the server
\* did, and would announce the same again.

\* The channel, the sign that holds, the parameters left and the changes made.
Progress == [ch : Channel, sign : Signs, args : Seq(Args), applied : Seq(Change)]

Replay == INSTANCE Induction WITH Values <- Progress, Items <- Signs \cup Letters, Op <- Read

\* What a letter does to any channel.
LEMMA ApplyTyped ==
    ASSUME NEW ch \in Channel, NEW sign \in Signs, NEW x \in Letters, NEW a,
           Taken(sign, x, a), Applies(ch, sign, x, a)
    PROVE  Apply(ch, sign, x, a) \in Channel
<1>1. CASE x \in FlagLetters
  <2>1. Apply(ch, sign, x, a) = [ch EXCEPT !.flags = Changed(@, sign, x)]
    BY <1>1, ChannelsAssumption DEF Apply, FlagLetters
  <2> QED BY <1>1, <2>1 DEF Channel, Changed, FlagLetters
<1>2. CASE x = "k"
  <2>1. (IF sign = "+" THEN KeyOf[a] ELSE NoChanKey) \in ChanKeys \cup {NoChanKey}
    BY <1>2, ModeLineAssumption DEF Taken, ConsumesArg
  <2>2. Apply(ch, sign, x, a) = [ch EXCEPT !.key = IF sign = "+" THEN KeyOf[a] ELSE NoChanKey]
    BY <1>2, ChannelsAssumption DEF Apply, FlagLetters
  <2> QED BY <2>1, <2>2 DEF Channel
<1>3. CASE x = "l"
  <2>1. (IF sign = "+" THEN LimitOf[a] ELSE 0) \in Limits \cup {0}
    BY <1>3, ModeLineAssumption DEF Taken, ConsumesArg
  <2>2. Apply(ch, sign, x, a) = [ch EXCEPT !.limit = IF sign = "+" THEN LimitOf[a] ELSE 0]
    BY <1>3, ChannelsAssumption DEF Apply, FlagLetters
  <2> QED BY <2>1, <2>2 DEF Channel
<1>4. CASE x = "o"
  <2>1. TargetOf[a] \in ch.members
    BY <1>4, ChannelsAssumption DEF Applies, FlagLetters
  <2>2. Apply(ch, sign, x, a) = [ch EXCEPT !.operators = Changed(@, sign, TargetOf[a])]
    BY <1>4, ChannelsAssumption DEF Apply, FlagLetters
  <2> QED BY <2>1, <2>2 DEF Channel, Changed
<1>5. CASE x = "v"
  <2>1. TargetOf[a] \in ch.members
    BY <1>5, ChannelsAssumption DEF Applies, FlagLetters
  <2>2. Apply(ch, sign, x, a) = [ch EXCEPT !.voiced = Changed(@, sign, TargetOf[a])]
    BY <1>5, ChannelsAssumption DEF Apply, FlagLetters
  <2> QED BY <2>1, <2>2 DEF Channel, Changed
<1>6. CASE x = "b"
  <2>1. MaskOf[a] \in Masks
    BY <1>6, ModeLineAssumption DEF Taken, ConsumesArg
  <2>2. Apply(ch, sign, x, a) = [ch EXCEPT !.bans = Changed(@, sign, MaskOf[a])]
    BY <1>6, ChannelsAssumption DEF Apply, FlagLetters
  <2> QED BY <2>1, <2>2 DEF Channel, Changed
<1> QED BY <1>1, <1>2, <1>3, <1>4, <1>5, <1>6 DEF Letters

\* Signs are no letters.
LEMMA LettersAreNoSigns == Signs \cap Letters = {}
BY ChannelsAssumption DEF Signs, Letters, FlagLetters

\* A letter that has an effect, read with its parameter in front of the others.
InFront(a, rest) == (IF a = NoArg THEN <<>> ELSE <<a>>) \o rest

LEMMA EffectiveRead ==
    ASSUME NEW r \in Progress, NEW x \in Letters, NEW a, NEW rest \in Seq(Args),
           Taken(r.sign, x, a), Applies(r.ch, r.sign, x, a), r.args = InFront(a, rest)
    PROVE  Read(r, x) =
               [ch |-> Apply(r.ch, r.sign, x, a), sign |-> r.sign, args |-> rest,
                applied |-> Append(r.applied, [sign |-> r.sign, mode |-> x, arg |-> AppliedArg(x, a)])]
<1>1. x \notin Signs
  BY LettersAreNoSigns
<1>2. CASE ConsumesArg(r.sign, x)
  <2> NoArg \notin Args
    BY ModeLineAssumption
  <2>1. a \in Args /\ a # NoArg /\ <<a>> \in Seq(Args) /\ r.args = <<a>> \o rest
    BY <1>2 DEF Taken, InFront
  <2>2. r.args # <<>> /\ Head(r.args) = a /\ Tail(r.args) = rest
    BY <2>1
  <2> QED BY <1>1, <1>2, <2>2 DEF Read
<1>3. CASE ~ConsumesArg(r.sign, x)
  <2>1. a = NoArg /\ r.args = rest
    BY <1>3 DEF Taken, InFront
  <2> QED BY <1>1, <1>3, <2>1 DEF Read
<1> QED BY <1>2, <1>3

\* One turn, whatever is read: it does nothing to the channel, or it makes a change,
\* and the parameters that are left were left before.
MakesChange(r, x, next, a) ==
    /\ x \in Letters /\ Taken(r.sign, x, a) /\ Applies(r.ch, r.sign, x, a)
    /\ next.ch = Apply(r.ch, r.sign, x, a)
    /\ next.applied = Append(r.applied, [sign |-> r.sign, mode |-> x, arg |-> AppliedArg(x, a)])
    /\ r.args = <<>> => a = NoArg
    /\ WordsButLast(r.args) /\ a \notin Words \cup {NoArg} => next.args = <<>>

LEMMA ReadTyped ==
    ASSUME NEW r \in Progress, NEW x \in Signs \cup Letters
    PROVE  /\ Read(r, x) \in Progress
           /\ x \in Letters => Read(r, x).sign = r.sign
           /\ WordsButLast(r.args) => WordsButLast(Read(r, x).args)
           /\ r.args = <<>> => Read(r, x).args = <<>>
           /\ \/ Read(r, x).ch = r.ch /\ Read(r, x).applied = r.applied
              \/ \E a : MakesChange(r, x, Read(r, x), a)
<1> DEFINE takes == ConsumesArg(r.sign, x)
           a == IF takes THEN Head(r.args) ELSE NoArg
           rest == IF takes THEN Tail(r.args) ELSE r.args
<1>1. r.ch \in Channel /\ r.sign \in Signs /\ r.args \in Seq(Args) /\ r.applied \in Seq(Change)
  BY DEF Progress
<1>2. CASE x \in Signs
  <2>1. x \notin Letters
    BY <1>2, LettersAreNoSigns
  <2>2. Read(r, x) = [r EXCEPT !.sign = x]
    BY <1>2 DEF Read
  <2> QED BY <1>2, <2>1, <2>2 DEF Progress
<1>3. CASE x \notin Signs /\ takes /\ r.args = <<>>
  BY <1>3 DEF Read
<1>4. CASE x \notin Signs /\ ~(takes /\ r.args = <<>>)
  <2>1. x \in Letters /\ Taken(r.sign, x, a) /\ rest \in Seq(Args)
    BY <1>1, <1>4 DEF Taken
  <2>2. /\ r.args = <<>> => a = NoArg /\ rest = <<>>
        /\ WordsButLast(r.args) => WordsButLast(rest)
        /\ WordsButLast(r.args) /\ a \notin Words \cup {NoArg} => rest = <<>>
    <3>1. CASE ~takes
      BY <3>1
    <3>2. CASE takes
      <4>1. PICK s, t : s = r.args /\ t = rest
        OBVIOUS
      <4>2. s \in Seq(Args) /\ s # <<>> /\ a = s[1] /\ t = Tail(s)
        BY <1>1, <1>4, <3>2, <4>1
      <4>3. /\ Len(s) \in Nat /\ Len(s) >= 1 /\ Len(t) = Len(s) - 1 /\ t \in Seq(Args)
            /\ \A i \in 1 .. Len(t) : t[i] = s[i + 1]
        BY ONLY <4>2
      <4>4. ASSUME WordsButLast(s) PROVE WordsButLast(t)
        <5>1. ASSUME NEW i \in 1 .. Len(t), i < Len(t) PROVE t[i] \in Words
          <6>1. i + 1 \in 1 .. Len(s) /\ i + 1 < Len(s)
            BY <4>3, <5>1
          <6> QED BY <4>3, <4>4, <5>1, <6>1 DEF WordsButLast
        <5> QED BY <5>1 DEF WordsButLast
      <4>5. ASSUME WordsButLast(s), a \notin Words \cup {NoArg} PROVE t = <<>>
        <5>1. 1 \in 1 .. Len(s) /\ ~(1 < Len(s))
          BY <4>2, <4>3, <4>5 DEF WordsButLast
        <5>2. Len(t) = 0 /\ t \in Seq(Args)
          BY <4>3, <5>1
        <5> QED BY ONLY <5>2
      <4> QED BY <4>1, <4>2, <4>4, <4>5
    <3> QED BY <3>1, <3>2
  <2>3. CASE ~Applies(r.ch, r.sign, x, a)
    <3>1. Read(r, x) = [r EXCEPT !.args = rest]
      BY <1>4, <2>3 DEF Read
    <3> HIDE DEF rest
    <3>2. Read(r, x) \in Progress /\ Read(r, x).sign = r.sign /\ Read(r, x).args = rest
          /\ Read(r, x).ch = r.ch /\ Read(r, x).applied = r.applied
      BY <2>1, <3>1 DEF Progress
    <3> QED BY <2>2, <3>2
  <2>4. CASE Applies(r.ch, r.sign, x, a)
    <3>1. Read(r, x) = [ch |-> Apply(r.ch, r.sign, x, a), sign |-> r.sign, args |-> rest,
                        applied |-> Append(r.applied,
                                           [sign |-> r.sign, mode |-> x, arg |-> AppliedArg(x, a)])]
      BY <1>4, <2>4 DEF Read
    <3> HIDE DEF rest, a, takes
    <3>2. Apply(r.ch, r.sign, x, a) \in Channel
      BY <1>1, <2>1, <2>4, ApplyTyped
    <3>3. [sign |-> r.sign, mode |-> x, arg |-> AppliedArg(x, a)] \in Change
      <4>1. AppliedArg(x, a) \in Args \cup {NoArg}
        BY <1>1, <2>1, <2>4, SameEffect
      <4> QED BY <1>1, <2>1, <4>1 DEF Change
    <3>4. Append(r.applied, [sign |-> r.sign, mode |-> x, arg |-> AppliedArg(x, a)]) \in Seq(Change)
      BY <1>1, <3>3
    <3>5. Read(r, x) \in Progress
      BY <1>1, <2>1, <3>1, <3>2, <3>4 DEF Progress
    <3>6. Read(r, x).sign = r.sign /\ Read(r, x).args = rest
          /\ Read(r, x).ch = Apply(r.ch, r.sign, x, a)
          /\ Read(r, x).applied =
                 Append(r.applied, [sign |-> r.sign, mode |-> x, arg |-> AppliedArg(x, a)])
      BY <3>1
    <3>7. MakesChange(r, x, Read(r, x), a)
      BY <2>1, <2>2, <2>4, <3>6 DEF MakesChange
    <3> QED BY <2>2, <3>5, <3>6, <3>7
  <2> QED BY <2>3, <2>4
<1> QED BY <1>2, <1>3, <1>4

LEMMA ReplayIsClosed == Replay!Closed
BY ReadTyped DEF Replay!Closed

LEMMA ReplayIs ==
    ASSUME NEW r, NEW letters
    PROVE  FoldLeft(Read, r, letters) = Replay!Fold(r, letters)
BY DEF Replay!Fold, Replay!FoldLeft, Replay!MapThenFoldSet, FoldLeft, MapThenFoldSet,
       Max, Replay!Max

\* What the announcement says of one more change: the letter, after its sign if
\* that is another one than before, and its parameter if it has one.
SignOf(applied) == IF applied = <<>> THEN "+" ELSE applied[Len(applied)].sign

LettersOf(applied, e) ==
    IF applied # <<>> /\ SignOf(applied) = e.sign THEN <<e.mode>> ELSE <<e.sign, e.mode>>

ArgsOf(e) == IF e.arg = NoArg THEN <<>> ELSE HeardAs[e.arg]

\* Of a sequence of sequences made of the changes one by one.
Grows(f, g, t, n, X) ==
    /\ n \in Nat /\ t \in Seq(X)
    /\ f \in [1 .. n -> Seq(X)] /\ g \in [1 .. n + 1 -> Seq(X)]
    /\ \A i \in 1 .. n : g[i] = f[i]
    /\ g[n + 1] = t

LEMMA OneMore ==
    ASSUME NEW f, NEW g, NEW t, NEW N, NEW X, Grows(f, g, t, N, X)
    PROVE  FlattenSeq(f) \in Seq(X) /\ FlattenSeq(g) = FlattenSeq(f) \o t
<1>1. /\ N \in Nat /\ t \in Seq(X)
      /\ f \in [1 .. N -> Seq(X)] /\ g \in [1 .. N + 1 -> Seq(X)]
      /\ (\A i \in 1 .. N : g[i] = f[i]) /\ g[N + 1] = t
  BY DEF Grows
<1>2. f \in Seq(Seq(X)) /\ Len(f) = N /\ g \in Seq(Seq(X)) /\ Len(g) = N + 1
  BY <1>1
<1>3. PICK h : h = Append(f, t)
  OBVIOUS
<1>4. h \in Seq(Seq(X)) /\ Len(h) = N + 1 /\ \A i \in 1 .. N + 1 : h[i] = IF i = N + 1 THEN t ELSE f[i]
  BY <1>1, <1>2, <1>3
<1>5. \A i \in 1 .. N + 1 : h[i] = g[i]
  <2> SUFFICES ASSUME NEW i \in 1 .. N + 1 PROVE h[i] = g[i]
    OBVIOUS
  <2>1. CASE i = N + 1
    BY <1>1, <1>4, <2>1
  <2>2. CASE i # N + 1
    <3>1. i \in 1 .. N
      BY <1>1, <2>2
    <3> QED BY <1>1, <1>4, <2>2, <3>1
  <2> QED BY <2>1, <2>2
<1>6. h = g
  BY <1>2, <1>4, <1>5, Replay!SameSequence
<1>7. \A s : Replay!FlattenSeq(s) = FlattenSeq(s)
  BY DEF FlattenSeq, Replay!FlattenSeq
<1>8. /\ Replay!FlattenSeq(f) \in Seq(X)
      /\ Replay!FlattenSeq(Append(f, t)) = Replay!FlattenSeq(f) \o t
  BY <1>1, <1>2, Replay!FlattenOfAppend
<1> QED BY <1>3, <1>6, <1>7, <1>8

LEMMA WrittenLettersGrow ==
    ASSUME NEW applied \in Seq(Change), NEW e \in Change
    PROVE  /\ WrittenLetters(applied) \in Seq(Signs \cup Letters)
           /\ LettersOf(applied, e) \in Seq(Signs \cup Letters)
           /\ WrittenLetters(Append(applied, e)) = WrittenLetters(applied) \o LettersOf(applied, e)
<1> DEFINE X == Signs \cup Letters
           N == Len(applied)
           more == Append(applied, e)
           Group(s, i) == IF i > 1 /\ s[i - 1].sign = s[i].sign THEN <<s[i].mode>>
                          ELSE <<s[i].sign, s[i].mode>>
           f == [i \in DOMAIN applied |-> Group(applied, i)]
           g == [i \in DOMAIN more |-> Group(more, i)]
<1>1. /\ N \in Nat /\ DOMAIN applied = 1 .. N /\ DOMAIN more = 1 .. N + 1 /\ more \in Seq(Change)
      /\ more[N + 1] = e /\ \A i \in 1 .. N : more[i] = applied[i]
  OBVIOUS
<1>2. WrittenLetters(applied) = FlattenSeq(f) /\ WrittenLetters(more) = FlattenSeq(g)
  BY DEF WrittenLetters
<1>3. ASSUME NEW c \in Change PROVE <<c.mode>> \in Seq(X) /\ <<c.sign, c.mode>> \in Seq(X)
  <2>1. c.mode \in X /\ c.sign \in X
    BY DEF Change
  <2> HIDE DEF X
  <2> QED BY <2>1
<1>4. ASSUME NEW s \in Seq(Change), NEW i \in DOMAIN s PROVE Group(s, i) \in Seq(X)
  <2>1. s[i] \in Change
    OBVIOUS
  <2> HIDE DEF X
  <2> QED BY <1>3, <2>1
<1> HIDE DEF X, N, more
<1>5. Group(more, N + 1) = LettersOf(applied, e)
  <2>1. CASE applied = <<>>
    <3>1. N = 0 /\ ~(N + 1 > 1)
      BY <2>1 DEF N
    <3> QED BY <1>1, <2>1, <3>1 DEF LettersOf
  <2>2. CASE applied # <<>>
    <3>1. N > 0
      BY <2>2 DEF N
    <3>2. N + 1 > 1 /\ (N + 1) - 1 = N /\ N \in 1 .. N
      BY <1>1, <3>1
    <3>3. more[(N + 1) - 1] = applied[N]
      BY <1>1, <3>2
    <3> QED BY <1>1, <2>2, <3>2, <3>3 DEF LettersOf, SignOf, N
  <2> QED BY <2>1, <2>2
<1>6. ASSUME NEW i \in DOMAIN applied PROVE Group(more, i) = Group(applied, i)
  <2>1. more[i] = applied[i] /\ (i > 1 => more[i - 1] = applied[i - 1])
    BY <1>1
  <2> QED BY <2>1
<1>7. N + 1 \in DOMAIN more /\ DOMAIN applied \subseteq DOMAIN more
  BY <1>1
<1>8. applied \in Seq(Change) /\ more \in Seq(Change)
  BY <1>1
<1> HIDE DEF Group
<1>9. f \in [DOMAIN applied -> Seq(X)] /\ g \in [DOMAIN more -> Seq(X)]
  BY <1>4, <1>8
<1>10. (\A i \in DOMAIN applied : g[i] = f[i]) /\ g[N + 1] = LettersOf(applied, e)
  BY <1>5, <1>6, <1>7
<1>11. LettersOf(applied, e) \in Seq(X)
  BY <1>4, <1>5, <1>7, <1>8
<1> HIDE DEF f, g
<1>12. FlattenSeq(f) \in Seq(X) /\ FlattenSeq(g) = FlattenSeq(f) \o LettersOf(applied, e)
  <2>1. PICK t : t = LettersOf(applied, e)
    OBVIOUS
  <2>2. f \in [1 .. N -> Seq(X)] /\ g \in [1 .. N + 1 -> Seq(X)] /\ N \in Nat
    BY <1>1, <1>9
  <2>3. (\A i \in 1 .. N : g[i] = f[i]) /\ g[N + 1] = t /\ t \in Seq(X)
    BY <1>1, <1>10, <1>11, <2>1
  <2>4. Grows(f, g, t, N, X)
    BY <2>2, <2>3 DEF Grows
  <2> QED BY <2>1, <2>4, OneMore
<1> QED BY <1>2, <1>11, <1>12 DEF X, more

LEMMA WrittenArgsGrow ==
    ASSUME NEW applied \in Seq(Change), NEW e \in Change
    PROVE  /\ WrittenArgs(applied) \in Seq(Args)
           /\ ArgsOf(e) \in Seq(Args)
           /\ WrittenArgs(Append(applied, e)) = WrittenArgs(applied) \o ArgsOf(e)
<1> DEFINE N == Len(applied)
           more == Append(applied, e)
           f == [i \in DOMAIN applied |-> ArgsOf(applied[i])]
           g == [i \in DOMAIN more |-> ArgsOf(more[i])]
<1>1. /\ N \in Nat /\ DOMAIN applied = 1 .. N /\ DOMAIN more = 1 .. N + 1 /\ more \in Seq(Change)
      /\ more[N + 1] = e /\ \A i \in 1 .. N : more[i] = applied[i]
  OBVIOUS
<1>2. WrittenArgs(applied) = FlattenSeq(f) /\ WrittenArgs(more) = FlattenSeq(g)
  BY DEF WrittenArgs, ArgsOf
<1>3. ASSUME NEW c \in Change PROVE ArgsOf(c) \in Seq(Args)
  <2>1. c.arg # NoArg => HeardAs[c.arg] \in Seq(Args)
    BY ModeLineAssumption DEF Change
  <2> QED BY <2>1 DEF ArgsOf
<1>4. ASSUME NEW s \in Seq(Change), NEW i \in DOMAIN s PROVE ArgsOf(s[i]) \in Seq(Args)
  BY <1>3
<1> HIDE DEF N, more
<1>5. N + 1 \in DOMAIN more /\ DOMAIN applied \subseteq DOMAIN more
  BY <1>1
<1>6. f \in [DOMAIN applied -> Seq(Args)] /\ g \in [DOMAIN more -> Seq(Args)]
  BY <1>1, <1>4
<1>7. (\A i \in DOMAIN applied : g[i] = f[i]) /\ g[N + 1] = ArgsOf(e)
  BY <1>1, <1>5
<1> HIDE DEF f, g
<1>8. ArgsOf(e) \in Seq(Args)
  BY <1>3
<1>9. FlattenSeq(f) \in Seq(Args) /\ FlattenSeq(g) = FlattenSeq(f) \o ArgsOf(e)
  <2>1. PICK t : t = ArgsOf(e)
    OBVIOUS
  <2>2. f \in [1 .. N -> Seq(Args)] /\ g \in [1 .. N + 1 -> Seq(Args)] /\ N \in Nat
    BY <1>1, <1>6
  <2>3. (\A i \in 1 .. N : g[i] = f[i]) /\ g[N + 1] = t /\ t \in Seq(Args)
    BY <1>1, <1>7, <1>8, <2>1
  <2>4. Grows(f, g, t, N, Args)
    BY <2>2, <2>3 DEF Grows
  <2> QED BY <2>1, <2>4, OneMore
<1> QED BY <1>2, <1>8, <1>9 DEF more

\* The announcement of applied, followed by parameters of nobody's, takes before
\* to ch and makes the same changes.
Announced(before, args) == [ch |-> before, sign |-> "+", args |-> args, applied |-> <<>>]

Replays(before, applied, ch) ==
    \A rest \in Seq(Args) :
        Replay!Fold(Announced(before, WrittenArgs(applied) \o rest), WrittenLetters(applied)) =
            [ch |-> ch, sign |-> SignOf(applied), args |-> rest, applied |-> applied]

LEMMA NothingReplays ==
    ASSUME NEW ch \in Channel
    PROVE  Replays(ch, <<>>, ch)
<1>1. WrittenLetters(<<>>) = <<>> /\ WrittenArgs(<<>>) = <<>>
  BY DEF WrittenLetters, WrittenArgs, FlattenSeq
<1>2. SignOf(<<>>) = "+"
  BY DEF SignOf
<1>3. ASSUME NEW rest \in Seq(Args)
      PROVE  Replay!Fold(Announced(ch, <<>> \o rest), <<>>) =
                 [ch |-> ch, sign |-> "+", args |-> rest, applied |-> <<>>]
  <2>1. <<>> \o rest = rest /\ Announced(ch, rest) \in Progress
    BY DEF Announced, Progress, Signs
  <2>2. Replay!Fold(Announced(ch, rest), <<>>) = Announced(ch, rest)
    BY <2>1, ReplayIsClosed, Replay!FoldOfNothing
  <2> QED BY <2>1, <2>2 DEF Announced
<1> QED BY <1>1, <1>2, <1>3 DEF Replays

\* One more change, announced behind the others: its letter is read under its sign.
LEMMA OneMoreLetter ==
    ASSUME NEW start \in Progress, NEW here \in Progress,
           NEW applied \in Seq(Change), NEW e \in Change,
           Replay!Fold(start, WrittenLetters(applied)) = here, here.sign = SignOf(applied)
    PROVE  Replay!Fold(start, WrittenLetters(Append(applied, e))) =
               Read([here EXCEPT !.sign = e.sign], e.mode)
<1> DEFINE letters == LettersOf(applied, e)
<1>1. /\ WrittenLetters(applied) \in Seq(Signs \cup Letters)
      /\ letters \in Seq(Signs \cup Letters)
      /\ WrittenLetters(Append(applied, e)) = WrittenLetters(applied) \o letters
  BY WrittenLettersGrow
<1>2. Replay!Fold(start, WrittenLetters(applied) \o letters) = Replay!Fold(here, letters)
  <2>1. PICK s, t : s = WrittenLetters(applied) /\ t = letters
    OBVIOUS
  <2>2. s \in Seq(Signs \cup Letters) /\ t \in Seq(Signs \cup Letters)
    BY <1>1, <2>1
  <2>3. Replay!Fold(start, s \o t) = Replay!Fold(Replay!Fold(start, s), t)
    BY <2>2, ReplayIsClosed, Replay!FoldOfConcat
  <2> QED BY <2>1, <2>3
<1>3. PICK sign, x : sign = e.sign /\ x = e.mode /\ sign \in Signs /\ x \in Letters
  BY DEF Change
<1>4. Replay!Fold(here, letters) = Read([here EXCEPT !.sign = sign], x)
  <2>1. CASE applied # <<>> /\ SignOf(applied) = sign
    <3>1. letters = <<x>>
      BY <1>3, <2>1 DEF LettersOf
    <3>2. Replay!Fold(here, <<x>>) = Read(here, x)
      BY <1>3, ReplayIsClosed, Replay!FoldOfOne
    <3>3. [here EXCEPT !.sign = sign] = here
      BY <2>1 DEF Progress
    <3> QED BY <3>1, <3>2, <3>3
  <2>2. CASE ~(applied # <<>> /\ SignOf(applied) = sign)
    <3>1. letters = <<sign, x>> /\ <<sign, x>> = Append(<<sign>>, x)
      BY <1>3, <2>2 DEF LettersOf
    <3>2. Replay!Fold(here, <<sign>>) = Read(here, sign)
      BY <1>3, ReplayIsClosed, Replay!FoldOfOne
    <3>3. Read(here, sign) = [here EXCEPT !.sign = sign]
      BY <1>3 DEF Read
    <3>4. Replay!Fold(here, Append(<<sign>>, x)) = Read(Replay!Fold(here, <<sign>>), x)
      <4>1. PICK s : s = <<sign>>
        OBVIOUS
      <4>2. s \in Seq(Signs \cup Letters) /\ x \in Signs \cup Letters
        BY <1>3, <4>1
      <4>3. Replay!Fold(here, Append(s, x)) = Read(Replay!Fold(here, s), x)
        BY <4>2, ReplayIsClosed, Replay!FoldOfAppend
      <4> QED BY <4>1, <4>3
    <3> QED BY <3>1, <3>2, <3>3, <3>4
  <2> QED BY <2>1, <2>2
<1> QED BY <1>1, <1>2, <1>3, <1>4

LEMMA SignOfTyped ==
    ASSUME NEW applied \in Seq(Change), NEW e \in Change
    PROVE  SignOf(applied) \in Signs /\ SignOf(Append(applied, e)) = e.sign
<1>1. CASE applied = <<>>
  BY <1>1 DEF SignOf, Signs
<1>2. CASE applied # <<>>
  <2>1. applied[Len(applied)] \in Change
    BY <1>2
  <2> QED BY <1>2, <2>1 DEF SignOf, Change
<1> QED BY <1>1, <1>2

\* A change announced with a word, or with nothing.
LEMMA OneMoreReplays ==
    ASSUME NEW before \in Channel, NEW applied \in Seq(Change), NEW ch \in Channel,
           Replays(before, applied, ch),
           NEW sign \in Signs, NEW x \in Letters, NEW a, Taken(sign, x, a), Applies(ch, sign, x, a),
           AppliedArg(x, a) = a, a \in Words \cup {NoArg},
           NEW e, e = [sign |-> sign, mode |-> x, arg |-> a]
    PROVE  Replays(before, Append(applied, e), Apply(ch, sign, x, a))
<1> DEFINE more == Append(applied, e)
<1>1. e \in Change /\ e.sign = sign /\ e.mode = x /\ e.arg = a
  BY DEF Change, Taken
<1>2. /\ WrittenArgs(applied) \in Seq(Args)
      /\ ArgsOf(e) \in Seq(Args)
      /\ WrittenArgs(more) = WrittenArgs(applied) \o ArgsOf(e)
  BY <1>1, WrittenArgsGrow
<1>3. more \in Seq(Change) /\ SignOf(more) = sign /\ SignOf(applied) \in Signs
  BY <1>1, SignOfTyped
<1>4. ArgsOf(e) = IF a = NoArg THEN <<>> ELSE <<a>>
  BY <1>1, ModeLineAssumption DEF ArgsOf
<1>5. ASSUME NEW rest \in Seq(Args)
      PROVE  Replay!Fold(Announced(before, WrittenArgs(more) \o rest), WrittenLetters(more)) =
                 [ch |-> Apply(ch, sign, x, a), sign |-> sign, args |-> rest, applied |-> more]
  <2> DEFINE tail == ArgsOf(e) \o rest
             start == Announced(before, WrittenArgs(applied) \o tail)
             here == [ch |-> ch, sign |-> SignOf(applied), args |-> tail, applied |-> applied]
             there == [ch |-> Apply(ch, sign, x, a), sign |-> sign, args |-> rest, applied |-> more]
  <2>1. WrittenArgs(applied) \in Seq(Args) /\ ArgsOf(e) \in Seq(Args) /\ rest \in Seq(Args)
    BY <1>2
  <2>2. /\ (WrittenArgs(applied) \o ArgsOf(e)) \o rest = WrittenArgs(applied) \o tail
        /\ tail \in Seq(Args) /\ WrittenArgs(applied) \o tail \in Seq(Args)
    BY <2>1
  <2>3. start \in Progress /\ here \in Progress
    BY <1>3, <2>2 DEF Announced, Progress, Signs
  <2>4. tail = (IF a = NoArg THEN <<>> ELSE <<a>>) \o rest
    BY <1>4
  <2>5. Replay!Fold(start, WrittenLetters(applied)) = here
    BY <2>2 DEF Replays
  <2> HIDE DEF tail, start
  <2>6. [here EXCEPT !.sign = sign] = [ch |-> ch, sign |-> sign, args |-> tail, applied |-> applied]
    OBVIOUS
  <2>10. here.sign = SignOf(applied)
    OBVIOUS
  <2>7. Read([ch |-> ch, sign |-> sign, args |-> tail, applied |-> applied], x) = there
    <3>1. PICK r : r = [ch |-> ch, sign |-> sign, args |-> tail, applied |-> applied]
      OBVIOUS
    <3>2. r \in Progress /\ r.ch = ch /\ r.sign = sign /\ r.args = tail /\ r.applied = applied
      BY <2>2, <3>1 DEF Progress
    <3>3. Taken(r.sign, x, a) /\ Applies(r.ch, r.sign, x, a) /\ r.args = InFront(a, rest)
      BY <2>4, <3>2 DEF InFront
    <3>4. Read(r, x) = [ch |-> Apply(r.ch, r.sign, x, a), sign |-> r.sign, args |-> rest,
                        applied |-> Append(r.applied,
                                           [sign |-> r.sign, mode |-> x, arg |-> AppliedArg(x, a)])]
      BY <3>2, <3>3, EffectiveRead
    <3> QED BY <3>1, <3>2, <3>4
  <2> HIDE DEF here, there
  <2>8. Replay!Fold(start, WrittenLetters(more)) = Read([here EXCEPT !.sign = e.sign], e.mode)
    BY <1>1, <2>3, <2>5, <2>10, OneMoreLetter
  <2>9. Announced(before, WrittenArgs(more) \o rest) = start
    BY <1>2, <2>2 DEF start
  <2> QED BY <1>1, <2>6, <2>7, <2>8, <2>9 DEF there
<1> QED BY <1>3, <1>5 DEF Replays, more

-----------------------------------------------------------------------------
\* After a parameter that is no word the reader has no more than a channel alike.
Plain(applied) == \A i \in DOMAIN applied : applied[i].arg \in Words \cup {NoArg}

ReadBack(before, applied) ==
    Replay!Fold(Announced(before, WrittenArgs(applied)), WrittenLetters(applied))

Misheard(before, applied, ch) ==
    /\ ReadBack(before, applied).sign = SignOf(applied)
    /\ AlikeButOne(ReadBack(before, applied).ch, ch)

LEMMA PlainGrows ==
    ASSUME NEW applied \in Seq(Change), NEW e \in Change
    PROVE  Plain(Append(applied, e)) <=> Plain(applied) /\ e.arg \in Words \cup {NoArg}
<1> DEFINE more == Append(applied, e)
           N == Len(applied)
<1>1. /\ N \in Nat /\ DOMAIN applied = 1 .. N /\ DOMAIN more = 1 .. N + 1
      /\ more[N + 1] = e /\ \A i \in 1 .. N : more[i] = applied[i]
  OBVIOUS
<1> HIDE DEF more, N
<1>2. 1 .. N + 1 = 1 .. N \cup {N + 1}
  BY <1>1
<1> QED BY <1>1, <1>2 DEF Plain, more

LEMMA ReadBackTyped ==
    ASSUME NEW before \in Channel, NEW applied \in Seq(Change), NEW e \in Change
    PROVE  /\ Announced(before, WrittenArgs(applied)) \in Progress
           /\ ReadBack(before, applied) \in Progress
<1>1. WrittenArgs(applied) \in Seq(Args) /\ WrittenLetters(applied) \in Seq(Signs \cup Letters)
  BY WrittenArgsGrow, WrittenLettersGrow
<1>2. Announced(before, WrittenArgs(applied)) \in Progress
  BY <1>1 DEF Announced, Progress, Signs
<1> QED BY <1>1, <1>2, ReplayIsClosed, Replay!FoldIsValue DEF ReadBack

\* The letter of a key or of a mask reads what there is instead: one of the two is
\* another's, and nothing else.
LEMMA AwkwardReplays ==
    ASSUME NEW before \in Channel, NEW applied \in Seq(Change), NEW ch \in Channel,
           Replays(before, applied, ch),
           NEW sign \in Signs, NEW x \in Letters, x \in {"k", "b"}, NEW a \in Args,
           Applies(ch, sign, x, a),
           NEW e, e = [sign |-> sign, mode |-> x, arg |-> a]
    PROVE  Misheard(before, Append(applied, e), Apply(ch, sign, x, a))
<1> DEFINE more == Append(applied, e)
           start == Announced(before, WrittenArgs(more))
           here == [ch |-> ch, sign |-> SignOf(applied), args |-> ArgsOf(e), applied |-> applied]
           r == [ch |-> ch, sign |-> sign, args |-> ArgsOf(e), applied |-> applied]
<1>1. e \in Change /\ e.sign = sign /\ e.mode = x
  BY DEF Change
<1>2. /\ ArgsOf(e) \in Seq(Args)
      /\ WrittenArgs(more) = WrittenArgs(applied) \o ArgsOf(e)
  BY <1>1, WrittenArgsGrow
<1>3. more \in Seq(Change) /\ SignOf(more) = sign /\ SignOf(applied) \in Signs
  BY <1>1, SignOfTyped
<1>4. here \in Progress /\ r \in Progress /\ start \in Progress
  BY <1>1, <1>2, <1>3, ReadBackTyped DEF Progress
<1>5. /\ Replay!Fold(start, WrittenLetters(applied)) = here /\ here.sign = SignOf(applied)
      /\ [here EXCEPT !.sign = sign] = r
  <2>1. Replay!Fold(start, WrittenLetters(applied)) = here
    BY <1>2 DEF Replays
  <2>2. PICK args, old : args = ArgsOf(e) /\ old = SignOf(applied)
    OBVIOUS
  <2> QED BY <2>1, <2>2
<1>6. r.ch = ch /\ r.sign = sign
  OBVIOUS
<1> HIDE DEF start, here, r
<1>7. ReadBack(before, more) = Read(r, x)
  <2>1. Replay!Fold(start, WrittenLetters(more)) = Read([here EXCEPT !.sign = e.sign], e.mode)
    BY <1>1, <1>4, <1>5, OneMoreLetter
  <2> QED BY <1>1, <1>5, <2>1 DEF ReadBack, start
<1>8. Read(r, x) \in Progress /\ Read(r, x).sign = sign
  BY <1>4, <1>6, ReadTyped
<1>9. AlikeButOne(Read(r, x).ch, Apply(ch, sign, x, a))
  <2>1. \/ Read(r, x).ch = ch
        \/ \E b : Read(r, x).ch = Apply(ch, sign, x, b)
    BY <1>4, <1>6, ReadTyped DEF MakesChange
  <2>2. CASE x = "k"
    <3>1. \A b : Apply(ch, sign, x, b) =
                     [ch EXCEPT !.key = IF sign = "+" THEN KeyOf[b] ELSE NoChanKey]
      BY <2>2, ChannelsAssumption DEF Apply, FlagLetters
    <3>2. \E key : Apply(ch, sign, x, a) = [ch EXCEPT !.key = key]
      BY <3>1
    <3>3. \E key : Read(r, x).ch = [ch EXCEPT !.key = key]
      <4>1. CASE Read(r, x).ch = ch
        <5>1. ch = [ch EXCEPT !.key = ch.key]
          BY DEF Channel
        <5> QED BY <4>1, <5>1
      <4>2. ASSUME NEW b, Read(r, x).ch = Apply(ch, sign, x, b)
            PROVE  \E key : Read(r, x).ch = [ch EXCEPT !.key = key]
        BY <3>1, <4>2
      <4> QED BY <2>1, <4>1, <4>2
    <3> QED BY <3>2, <3>3 DEF AlikeButOne, Channel
  <2>3. CASE x = "b"
    <3>1. \A b : Apply(ch, sign, x, b) = [ch EXCEPT !.bans = Changed(@, sign, MaskOf[b])]
      BY <2>3, ChannelsAssumption DEF Apply, FlagLetters
    <3>2. \E bans : Apply(ch, sign, x, a) = [ch EXCEPT !.bans = bans]
      BY <3>1
    <3>3. \E bans : Read(r, x).ch = [ch EXCEPT !.bans = bans]
      <4>1. CASE Read(r, x).ch = ch
        <5>1. ch = [ch EXCEPT !.bans = ch.bans]
          BY DEF Channel
        <5> QED BY <4>1, <5>1
      <4>2. ASSUME NEW b, Read(r, x).ch = Apply(ch, sign, x, b)
            PROVE  \E bans : Read(r, x).ch = [ch EXCEPT !.bans = bans]
        BY <3>1, <4>2
      <4> QED BY <2>1, <4>1, <4>2
    <3> QED BY <3>2, <3>3 DEF AlikeButOne, Channel
  <2> QED BY <2>2, <2>3
<1> QED BY <1>3, <1>7, <1>8, <1>9 DEF Misheard, more

\* A channel with another key or other bans has them.
LEMMA SettingsAreHeld ==
    ASSUME NEW ch \in Channel, NEW u
    PROVE  /\ [ch EXCEPT !.key = u].key = u /\ [ch EXCEPT !.bans = u].bans = u
           /\ [ch EXCEPT !.key = ch.key] = ch
BY DEF Channel

\* Channels that are alike: one is the other with some key, or with some bans.
LEMMA AlikeIs ==
    ASSUME NEW ch \in Channel, NEW d, NEW u, d = [ch EXCEPT !.key = u] \/ d = [ch EXCEPT !.bans = u]
    PROVE  AlikeButOne(d, ch)
<1>1. CASE d = [ch EXCEPT !.key = u]
  <2>1. d.key = u
    BY <1>1, SettingsAreHeld
  <2> QED BY <1>1, <2>1 DEF AlikeButOne
<1>2. CASE d = [ch EXCEPT !.bans = u]
  <2>1. d.bans = u
    BY <1>2, SettingsAreHeld
  <2> QED BY <1>2, <2>1 DEF AlikeButOne
<1> QED BY <1>1, <1>2

\* A letter without a parameter, on channels that are alike but for the key or the bans.
LEMMA StillAlike ==
    ASSUME NEW g \in Channel, NEW ch \in Channel, AlikeButOne(g, ch),
           NEW sign \in Signs, NEW x \in Letters, ~ConsumesArg(sign, x),
           Applies(ch, sign, x, NoArg),
           NEW next, next = IF Applies(g, sign, x, NoArg) THEN Apply(g, sign, x, NoArg) ELSE g
    PROVE  AlikeButOne(next, Apply(ch, sign, x, NoArg))
<1>1. g.flags = ch.flags /\ g.limit = ch.limit
  BY DEF AlikeButOne, Channel
<1>2. PICK u : g = [ch EXCEPT !.key = u] \/ g = [ch EXCEPT !.bans = u]
  BY DEF AlikeButOne
<1>3. Apply(ch, sign, x, NoArg) \in Channel
  BY ApplyTyped DEF Taken
<1>4. CASE x \in FlagLetters
  <2>1. PICK v : v = Changed(ch.flags, sign, x)
    OBVIOUS
  <2>2. ASSUME NEW c
        PROVE  /\ Applies(c, sign, x, NoArg) <=> Changes(c.flags, sign, x)
               /\ Apply(c, sign, x, NoArg) = [c EXCEPT !.flags = Changed(@, sign, x)]
    BY <1>4, ChannelsAssumption DEF Applies, Apply, FlagLetters
  <2>3. next = [g EXCEPT !.flags = v] /\ Apply(ch, sign, x, NoArg) = [ch EXCEPT !.flags = v]
    BY <1>1, <2>1, <2>2
  <2>4. PICK d : d = [ch EXCEPT !.flags = v]
    OBVIOUS
  <2>5. next = [d EXCEPT !.key = u] \/ next = [d EXCEPT !.bans = u]
    <3>1. /\ [[ch EXCEPT !.key = u] EXCEPT !.flags = v] = [[ch EXCEPT !.flags = v] EXCEPT !.key = u]
          /\ [[ch EXCEPT !.bans = u] EXCEPT !.flags = v] = [[ch EXCEPT !.flags = v] EXCEPT !.bans = u]
      BY DEF Channel
    <3>2. CASE g = [ch EXCEPT !.key = u]
      BY <2>3, <2>4, <3>1, <3>2, Zenon
    <3>3. CASE g = [ch EXCEPT !.bans = u]
      BY <2>3, <2>4, <3>1, <3>3, Zenon
    <3> QED BY <1>2, <3>2, <3>3
  <2> QED BY <1>3, <2>3, <2>4, <2>5, AlikeIs
<1>5. CASE x = "k"
  <2>1. sign = "-" /\ sign # "+"
    BY <1>5 DEF ConsumesArg, Signs
  <2>2. ASSUME NEW c
        PROVE  /\ Applies(c, sign, x, NoArg) <=> c.key # NoChanKey
               /\ Apply(c, sign, x, NoArg) = [c EXCEPT !.key = NoChanKey]
    BY <1>5, <2>1, ChannelsAssumption DEF Applies, Apply, FlagLetters
  <2>3. g.key = NoChanKey => [g EXCEPT !.key = NoChanKey] = g
    BY SettingsAreHeld
  <2>4. next = [g EXCEPT !.key = NoChanKey] /\ Apply(ch, sign, x, NoArg) = [ch EXCEPT !.key = NoChanKey]
    BY <2>2, <2>3
  <2>5. PICK d : d = [ch EXCEPT !.key = NoChanKey]
    OBVIOUS
  <2>6. d \in Channel /\ d = [d EXCEPT !.key = d.key]
    BY <1>3, <2>4, <2>5, SettingsAreHeld
  <2>7. next = d \/ next = [d EXCEPT !.bans = u]
    <3>1. /\ [[ch EXCEPT !.key = u] EXCEPT !.key = NoChanKey] = [ch EXCEPT !.key = NoChanKey]
          /\ [[ch EXCEPT !.bans = u] EXCEPT !.key = NoChanKey] =
                 [[ch EXCEPT !.key = NoChanKey] EXCEPT !.bans = u]
      BY DEF Channel
    <3>2. CASE g = [ch EXCEPT !.key = u]
      BY <2>4, <2>5, <3>1, <3>2, Zenon
    <3>3. CASE g = [ch EXCEPT !.bans = u]
      BY <2>4, <2>5, <3>1, <3>3, Zenon
    <3> QED BY <1>2, <3>2, <3>3
  <2>8. CASE next = d
    <3>1. next = [d EXCEPT !.key = next.key]
      BY <2>6, <2>8
    <3> QED BY <2>4, <2>5, <3>1 DEF AlikeButOne
  <2>9. CASE next = [d EXCEPT !.bans = u]
    <3>1. AlikeButOne(next, d)
      BY <2>6, <2>9, AlikeIs
    <3> QED BY <2>4, <2>5, <3>1
  <2> QED BY <2>7, <2>8, <2>9
<1>6. CASE x = "l"
  <2>1. sign = "-" /\ sign # "+"
    BY <1>6 DEF ConsumesArg, Signs
  <2>2. ASSUME NEW c
        PROVE  /\ Applies(c, sign, x, NoArg) <=> c.limit # 0
               /\ Apply(c, sign, x, NoArg) = [c EXCEPT !.limit = 0]
    BY <1>6, <2>1, ChannelsAssumption DEF Applies, Apply, FlagLetters
  <2>3. next = [g EXCEPT !.limit = 0] /\ Apply(ch, sign, x, NoArg) = [ch EXCEPT !.limit = 0]
    BY <1>1, <2>2
  <2>4. PICK d : d = [ch EXCEPT !.limit = 0]
    OBVIOUS
  <2>5. next = [d EXCEPT !.key = u] \/ next = [d EXCEPT !.bans = u]
    <3>1. /\ [[ch EXCEPT !.key = u] EXCEPT !.limit = 0] = [[ch EXCEPT !.limit = 0] EXCEPT !.key = u]
          /\ [[ch EXCEPT !.bans = u] EXCEPT !.limit = 0] = [[ch EXCEPT !.limit = 0] EXCEPT !.bans = u]
      BY DEF Channel
    <3>2. CASE g = [ch EXCEPT !.key = u]
      BY <2>3, <2>4, <3>1, <3>2, Zenon
    <3>3. CASE g = [ch EXCEPT !.bans = u]
      BY <2>3, <2>4, <3>1, <3>3, Zenon
    <3> QED BY <1>2, <3>2, <3>3
  <2> QED BY <1>3, <2>3, <2>4, <2>5, AlikeIs
<1>7. CASE x \in {"o", "v", "b"}
  BY <1>7 DEF ConsumesArg
<1> QED BY <1>4, <1>5, <1>6, <1>7 DEF Letters

LEMMA MisheardGoesOn ==
    ASSUME NEW before \in Channel, NEW applied \in Seq(Change), NEW ch \in Channel,
           Misheard(before, applied, ch),
           NEW sign \in Signs, NEW x \in Letters, ~ConsumesArg(sign, x),
           Applies(ch, sign, x, NoArg),
           NEW e, e = [sign |-> sign, mode |-> x, arg |-> NoArg]
    PROVE  Misheard(before, Append(applied, e), Apply(ch, sign, x, NoArg))
<1> DEFINE more == Append(applied, e)
           start == Announced(before, WrittenArgs(applied))
           here == ReadBack(before, applied)
           r == [here EXCEPT !.sign = sign]
<1>1. e \in Change /\ e.sign = sign /\ e.mode = x /\ e.arg = NoArg
  BY DEF Change
<1>2. WrittenArgs(more) = WrittenArgs(applied)
  <2>1. WrittenArgs(applied) \in Seq(Args) /\ WrittenArgs(more) = WrittenArgs(applied) \o ArgsOf(e)
    BY <1>1, WrittenArgsGrow
  <2>2. ArgsOf(e) = <<>>
    BY <1>1 DEF ArgsOf
  <2> QED BY <2>1, <2>2
<1>3. SignOf(more) = sign
  BY <1>1, SignOfTyped
<1>4. start \in Progress /\ here \in Progress
  BY <1>1, ReadBackTyped
<1>5. here.sign = SignOf(applied) /\ AlikeButOne(here.ch, ch)
  BY DEF Misheard
<1>6. Replay!Fold(start, WrittenLetters(applied)) = here
  BY DEF ReadBack
<1> HIDE DEF start, here
<1>7. r \in Progress /\ r.ch = here.ch /\ r.sign = sign
  BY <1>4 DEF Progress
<1>8. ReadBack(before, more) = Read(r, x)
  <2>1. Replay!Fold(start, WrittenLetters(more)) = Read([here EXCEPT !.sign = e.sign], e.mode)
    BY <1>1, <1>4, <1>5, <1>6, OneMoreLetter
  <2> QED BY <1>1, <1>2, <2>1 DEF ReadBack, start
<1> HIDE DEF r
<1>9. Read(r, x).sign = sign
  BY <1>7, ReadTyped
<1>10. Read(r, x).ch = IF Applies(here.ch, sign, x, NoArg) THEN Apply(here.ch, sign, x, NoArg)
                       ELSE here.ch
  BY <1>7, LettersAreNoSigns DEF Read
<1>11. here.ch \in Channel
  BY <1>4 DEF Progress
<1>12. AlikeButOne(Read(r, x).ch, Apply(ch, sign, x, NoArg))
  BY <1>5, <1>10, <1>11, StillAlike
<1> QED BY <1>3, <1>8, <1>9, <1>12 DEF Misheard, more

\* A line in progress, with what it has announced so far.
HeardSoFar(before, applied, args, ch) ==
    IF Plain(applied) THEN Replays(before, applied, ch)
    ELSE args = <<>> /\ Misheard(before, applied, ch)

ReplayInv ==
    by # NoClient =>
        /\ WordsButLast(line.args)
        /\ HeardSoFar(line.before, line.applied, line.args, channel[line.chan])

\* One turn takes a line that is heard so far to another.
LEMMA HeardOn ==
    ASSUME NEW before \in Channel, NEW r \in Progress, NEW x \in Signs \cup Letters,
           WordsButLast(r.args), HeardSoFar(before, r.applied, r.args, r.ch),
           NEW next, next = Read(r, x)
    PROVE  HeardSoFar(before, next.applied, next.args, next.ch)
<1>1. /\ r.ch \in Channel /\ r.sign \in Signs /\ r.args \in Seq(Args) /\ r.applied \in Seq(Change)
      /\ r.args = <<>> => next.args = <<>>
  BY ReadTyped DEF Progress
<1>2. CASE next.ch = r.ch /\ next.applied = r.applied
  BY <1>1, <1>2 DEF HeardSoFar
<1>3. ASSUME NEW a, MakesChange(r, x, next, a)
      PROVE  HeardSoFar(before, next.applied, next.args, next.ch)
  <2>1. PICK w, e, sign, applied, ch : /\ w = AppliedArg(x, a)
                      /\ e = [sign |-> sign, mode |-> x, arg |-> w]
                      /\ sign = r.sign /\ applied = r.applied /\ ch = r.ch
    OBVIOUS
  <2>2. /\ x \in Letters /\ Taken(sign, x, a) /\ Applies(ch, sign, x, a)
        /\ next.ch = Apply(ch, sign, x, a) /\ next.applied = Append(applied, e)
        /\ r.args = <<>> => a = NoArg
        /\ a \notin Words \cup {NoArg} => next.args = <<>>
    BY <1>3, <2>1 DEF MakesChange
  <2>3. /\ Taken(sign, x, w) /\ Applies(ch, sign, x, w)
        /\ Apply(ch, sign, x, w) = Apply(ch, sign, x, a)
        /\ AppliedArg(x, w) = w /\ w \in Args \cup {NoArg}
        /\ a \in Words \cup {NoArg} => w \in Words \cup {NoArg}
        /\ w \notin Words \cup {NoArg} => x \in {"k", "b"} /\ ConsumesArg(sign, x)
    BY <1>1, <2>1, <2>2, SameEffect
  <2>4. applied \in Seq(Change) /\ ch \in Channel /\ sign \in Signs /\ e \in Change /\ e.arg = w
    BY <1>1, <2>1, <2>2, <2>3 DEF Change
  <2>5. Plain(Append(applied, e)) <=> Plain(applied) /\ w \in Words \cup {NoArg}
    BY <2>4, PlainGrows
  <2>6. HeardSoFar(before, applied, r.args, ch)
    BY <2>1
  <2>7. CASE Plain(applied) /\ w \in Words \cup {NoArg}
    <3>1. Replays(before, applied, ch)
      BY <2>6, <2>7 DEF HeardSoFar
    <3>2. Replays(before, Append(applied, e), Apply(ch, sign, x, w))
      BY <2>1, <2>2, <2>3, <2>4, <2>7, <3>1, OneMoreReplays
    <3> QED BY <2>2, <2>3, <2>5, <2>7, <3>2 DEF HeardSoFar
  <2>8. CASE Plain(applied) /\ w \notin Words \cup {NoArg}
    <3>1. Replays(before, applied, ch)
      BY <2>6, <2>8 DEF HeardSoFar
    <3>2. w \in Args /\ x \in {"k", "b"} /\ next.args = <<>>
      BY <2>2, <2>3, <2>8
    <3>3. Misheard(before, Append(applied, e), Apply(ch, sign, x, w))
      BY <2>1, <2>2, <2>3, <2>4, <3>1, <3>2, AwkwardReplays
    <3> QED BY <2>2, <2>3, <2>5, <2>8, <3>2, <3>3 DEF HeardSoFar
  <2>9. CASE ~Plain(applied)
    <3>1. r.args = <<>> /\ Misheard(before, applied, ch)
      BY <2>6, <2>9 DEF HeardSoFar
    <3>2. a = NoArg /\ ~ConsumesArg(sign, x)
      BY <2>2, <3>1, ModeLineAssumption DEF Taken
    <3>3. w = NoArg
      BY <3>2, <2>1, <2>2 DEF AppliedArg, ConsumesArg
    <3>4. Misheard(before, Append(applied, e), Apply(ch, sign, x, NoArg))
      BY <2>1, <2>2, <2>3, <2>4, <3>1, <3>2, <3>3, MisheardGoesOn
    <3> QED BY <1>1, <2>2, <2>3, <2>5, <2>9, <3>1, <3>3, <3>4 DEF HeardSoFar
  <2> QED BY <2>7, <2>8, <2>9
<1> QED BY <1>2, <1>3, ReadTyped

LEMMA ReplayStep == ModeInv /\ ReplayInv /\ [ModeNext]_modeVars => ReplayInv'
<1> SUFFICES ASSUME ModeInv, ReplayInv, [ModeNext]_modeVars PROVE ReplayInv'
  OBVIOUS
<1>1. CASE UNCHANGED modeVars
  BY <1>1 DEF modeVars, chVars, ReplayInv
<1>2. CASE End \/ Elsewhere
  BY <1>2 DEF End, Elsewhere, ReplayInv
<1>3. ASSUME NEW c \in Cids, NEW k \in FoldedNames, NEW args \in ArgLists, Begin(c, k, args)
      PROVE  ReplayInv'
  <2>1. channel[k] \in Channel /\ WordsButLast(args)
    BY DEF ModeInv, ChInv, ChTypeOK, ArgLists
  <2>2. /\ line'.chan = k /\ line'.before = channel[k] /\ line'.applied = <<>>
        /\ line'.args = args /\ channel' = channel
    BY <1>3 DEF Begin, chVars
  <2>3. Plain(<<>>)
    BY DEF Plain
  <2> QED BY <2>1, <2>2, <2>3, NothingReplays DEF ReplayInv, HeardSoFar
<1>4. ASSUME NEW x \in Signs \cup Letters, ReadNext(x)
      PROVE  ReplayInv'
  <2> DEFINE k == line.chan
             next == Read(Reading, x)
  <2>1. /\ by # NoClient /\ by' = by
        /\ channel' = [channel EXCEPT ![k] = next.ch]
        /\ line'.chan = k /\ line'.before = line.before /\ line'.applied = next.applied
        /\ line'.args = next.args
    BY <1>4, ReadFrame DEF ModeInv
  <2>2. /\ k \in FoldedNames /\ channel \in [FoldedNames -> Channel]
        /\ line.before \in Channel /\ line.sign \in Signs /\ line.args \in Seq(Args)
        /\ line.applied \in Seq(Change)
    BY <2>1 DEF ModeInv, LineInv, ModeTypeOK, Line, ChInv, ChTypeOK
  <2>3. Reading \in Progress /\ Reading.ch = channel[k] /\ Reading.args = line.args
        /\ Reading.applied = line.applied
    BY <2>2 DEF Reading, Progress
  <2>4. channel'[k] = next.ch
    BY <2>1, <2>2
  <2>5. WordsButLast(line.args) /\ HeardSoFar(line.before, line.applied, line.args, channel[k])
    BY <2>1 DEF ReplayInv
  <2> HIDE DEF k
  <2>6. PICK r, before : r = Reading /\ before = line.before
    OBVIOUS
  <2>7. r \in Progress /\ WordsButLast(r.args) /\ HeardSoFar(before, r.applied, r.args, r.ch)
        /\ before \in Channel /\ next = Read(r, x)
    BY <2>2, <2>3, <2>5, <2>6
  <2> HIDE DEF next
  <2>8. WordsButLast(next.args)
    BY <2>7, ReadTyped
  <2>9. HeardSoFar(before, next.applied, next.args, next.ch)
    BY <2>7, HeardOn
  <2> QED BY <2>1, <2>4, <2>6, <2>8, <2>9 DEF ReplayInv
<1> QED BY <1>1, <1>2, <1>3, <1>4 DEF ModeNext

LEMMA ReplayGives == ModeInv /\ ReplayInv => AnnouncementReplays
<1> SUFFICES ASSUME ModeInv, ReplayInv, by # NoClient
             PROVE  /\ AlikeButOne(Heard, channel[line.chan])
                    /\ Plain(line.applied) => Heard = channel[line.chan]
  BY DEF AnnouncementReplays, Plain
<1>1. PICK applied, before, ch : /\ applied = line.applied /\ before = line.before
                                 /\ ch = channel[line.chan]
  OBVIOUS
<1>2. applied \in Seq(Change) /\ before \in Channel /\ ch \in Channel
  BY <1>1 DEF ModeInv, LineInv, ModeTypeOK, Line, ChInv, ChTypeOK
<1>3. Heard = ReadBack(before, applied).ch
  BY <1>1, ReplayIs DEF Heard, ReadBack, Announced
<1>4. HeardSoFar(before, applied, line.args, ch)
  BY <1>1 DEF ReplayInv
<1>5. CASE Plain(applied)
  <2>1. WrittenArgs(applied) \in Seq(Args)
    <3>1. CASE applied = <<>>
      BY <3>1 DEF WrittenArgs, FlattenSeq
    <3>2. CASE applied # <<>>
      <4>1. applied[1] \in Change
        BY <1>2, <3>2
      <4> QED BY <1>2, <4>1, WrittenArgsGrow
    <3> QED BY <3>1, <3>2
  <2>2. <<>> \in Seq(Args) /\ WrittenArgs(applied) \o <<>> = WrittenArgs(applied)
    BY <2>1
  <2>3. ReadBack(before, applied) =
            [ch |-> ch, sign |-> SignOf(applied), args |-> <<>>, applied |-> applied]
    BY <1>4, <1>5, <2>2 DEF HeardSoFar, Replays, ReadBack
  <2>4. Heard = ch /\ ch = [ch EXCEPT !.key = ch.key]
    BY <1>2, <1>3, <2>3 DEF Channel
  <2> QED BY <1>1, <2>4 DEF AlikeButOne
<1>6. CASE ~Plain(applied)
  BY <1>1, <1>3, <1>4, <1>6 DEF HeardSoFar, Misheard
<1> QED BY <1>5, <1>6

\* What a MODE line announces is what it did: whoever knew the channel before the
\* line and runs the letters and parameters announced, knows it afterwards, with
\* letters refused or repeated, parameters missing or taken by other letters, and
\* signs repeated or without a letter, in a line of any length (m_mode.cpp:143-283).
\* A last parameter that is no word, which m_mode.cpp:278 does not write so that it
\* is read back, costs that reader the key or the bans, and never anything else.
THEOREM AnnouncementsReplay == ModeSpec => []AnnouncementReplays
<1>1. ModeInit => ReplayInv
  BY DEF ModeInit, ReplayInv
<1> QED BY <1>1, ReplayStep, ReplayGives, ModeLineCorrect, PTL DEF ModeSpec

=============================================================================

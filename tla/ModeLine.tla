------------------------------ MODULE ModeLine ------------------------------
(***************************************************************************)
(* One channel MODE line as CommandMode::execute runs it: the authority of *)
(* the client is tested once, then the letters are applied one by one, a   *)
(* sign holding until the next one and the parameters being consumed from  *)
(* left to right by the letters that take one, whatever they were meant    *)
(* for.  What took effect is announced at the end as one MODE line.        *)
(*                                                                         *)
(* Channels has the whole line as the single action Mode; here its letters *)
(* are steps, and MODE is shown to look like that action from outside.     *)
(***************************************************************************)
EXTENDS Channels, Sequences, SequencesExt

CONSTANTS
    Args,           \* the parameters of MODE lines, as they are read
    Typed,          \* those that clients write
    Words,          \* those without a space, not empty, and without a colon in front
    NoArg,          \* the parameter of a letter that takes none
    HeardAs,        \* what is read of a parameter written last, behind a space only
    TargetOf,       \* findClientByNick of a parameter, NoClient if there is none
    NickAs,         \* the nick of a client whom a parameter names
    KeyOf,          \* a parameter as a key, NoChanKey if it is empty
    LimitOf,        \* parsePositiveLimit of a parameter, 0 if it is refused
    MaskOf,         \* normalizeBanMask of a parameter
    MaxLetters,     \* bound on the letters of a line that have an effect
    MaxArgs         \* bound on the parameters of a line

\* A nick is a word, and finds its client; a limit is digits; a complete mask stays
\* as it is, and completing a word makes a word.
ASSUME ModeLineAssumption ==
    /\ NoArg \notin Args
    /\ Typed \cup Words \cup Masks \subseteq Args
    /\ HeardAs \in [Args -> Seq(Args)]
    /\ \A w \in Words : HeardAs[w] = <<w>>
    /\ TargetOf \in [Args -> Cids \cup {NoClient}]
    /\ \A a \in Args : TargetOf[a] # NoClient =>
           NickAs[TargetOf[a]] \in Words /\ TargetOf[NickAs[TargetOf[a]]] = TargetOf[a]
    /\ KeyOf \in [Args -> ChanKeys \cup {NoChanKey}]
    /\ LimitOf \in [Args -> Limits \cup {0}]
    /\ \A a \in Args : LimitOf[a] # 0 => a \in Words
    /\ MaskOf \in [Args -> Masks]
    /\ \A mask \in Masks : MaskOf[mask] = mask
    /\ \A w \in Words : MaskOf[w] \in Words
    /\ {MaxLetters, MaxArgs} \subseteq Nat

VARIABLES
    by,     \* the client whose MODE line is being run, or NoClient
    line    \* how far it has been read

modeVars == <<chVars, by, line>>

-----------------------------------------------------------------------------
Signs == {"+", "-"}
FlagLetters == Flags
Letters == FlagLetters \cup {"k", "l", "o", "v", "b"}

\* consumesArg
ConsumesArg(sign, m) == m \in {"o", "v", "b"} \/ (m \in {"k", "l"} /\ sign = "+")

Changed(S, sign, x) == IF sign = "+" THEN S \cup {x} ELSE S \ {x}
Changes(S, sign, x) == (x \in S) # (sign = "+")

\* The letter has an effect: exactly then it is applied and will be announced.
\* A +k is applied even if the key is the same.
Applies(ch, sign, m, a) ==
    CASE m \in FlagLetters -> Changes(ch.flags, sign, m)
      [] m = "k" -> IF sign = "+" THEN KeyOf[a] # NoChanKey ELSE ch.key # NoChanKey
      [] m = "l" -> IF sign = "+" THEN LimitOf[a] \notin {0, ch.limit} ELSE ch.limit # 0
      [] m = "o" -> TargetOf[a] \in ch.members /\ Changes(ch.operators, sign, TargetOf[a])
      [] m = "v" -> TargetOf[a] \in ch.members /\ Changes(ch.voiced, sign, TargetOf[a])
      [] m = "b" -> /\ Changes(ch.bans, sign, MaskOf[a])
                    /\ sign = "+" => Cardinality(ch.bans) < MaxBanList

Apply(ch, sign, m, a) ==
    CASE m \in FlagLetters -> [ch EXCEPT !.flags = Changed(@, sign, m)]
      [] m = "k" -> [ch EXCEPT !.key = IF sign = "+" THEN KeyOf[a] ELSE NoChanKey]
      [] m = "l" -> [ch EXCEPT !.limit = IF sign = "+" THEN LimitOf[a] ELSE 0]
      [] m = "o" -> [ch EXCEPT !.operators = Changed(@, sign, TargetOf[a])]
      [] m = "v" -> [ch EXCEPT !.voiced = Changed(@, sign, TargetOf[a])]
      [] m = "b" -> [ch EXCEPT !.bans = Changed(@, sign, MaskOf[a])]

\* Applied::arg: the parameter as it took effect.
AppliedArg(m, a) ==
    CASE m \in {"o", "v"} -> NickAs[TargetOf[a]]
      [] m = "b" -> MaskOf[a]
      [] OTHER -> a

\* One turn of the loop over the mode string.
Read(r, x) ==
    LET takes == ConsumesArg(r.sign, x)
        a == IF takes THEN Head(r.args) ELSE NoArg
        rest == IF takes THEN Tail(r.args) ELSE r.args
    IN
    IF x \in Signs THEN [r EXCEPT !.sign = x]
    ELSE IF takes /\ r.args = <<>> THEN r
    ELSE IF ~Applies(r.ch, r.sign, x, a) THEN [r EXCEPT !.args = rest]
    ELSE [ch |-> Apply(r.ch, r.sign, x, a), sign |-> r.sign, args |-> rest,
          applied |-> Append(r.applied, [sign |-> r.sign, mode |-> x, arg |-> AppliedArg(x, a)])]

\* Mutation: no sign is announced.
WrittenUnsigned(applied) == [i \in DOMAIN applied |-> applied[i].mode]

\* The announcement: a sign where it changes, the letters, and the parameters, as
\* they are read.  They are written behind a space with no colon, as only words can
\* be: the last parameter of a line, which may hold spaces, be empty or begin with
\* a colon, is announced as another or as several, and all that follows a colon as one.
WrittenLetters(applied) ==
    FlattenSeq([i \in DOMAIN applied |->
        IF i > 1 /\ applied[i - 1].sign = applied[i].sign THEN <<applied[i].mode>>
        ELSE <<applied[i].sign, applied[i].mode>>])
WrittenArgs(applied) ==
    FlattenSeq([i \in DOMAIN applied |->
        IF applied[i].arg = NoArg THEN <<>> ELSE HeardAs[applied[i].arg]])

-----------------------------------------------------------------------------
Idle == [chan |-> NoName, before |-> NoChannel, room |-> 0,
         sign |-> "+", args |-> <<>>, applied |-> <<>>]

ModeInit ==
    /\ ChInit
    /\ by = NoClient
    /\ line = Idle

\* Mutation: every member may begin.
BeginByMember(c, k, args) ==
    /\ by = NoClient
    /\ k \in channels
    /\ c \in channel[k].members
    /\ by' = c
    /\ line' = [chan |-> k, before |-> channel[k], room |-> MaxLetters,
                sign |-> "+", args |-> args, applied |-> <<>>]
    /\ UNCHANGED chVars

Begin(c, k, args) ==
    /\ by = NoClient
    /\ k \in channels
    /\ c \in channel[k].operators
    /\ by' = c
    /\ line' = [chan |-> k, before |-> channel[k], room |-> MaxLetters,
                sign |-> "+", args |-> args, applied |-> <<>>]
    /\ UNCHANGED chVars

ReadNext(x) ==
    LET k == line.chan
        r == Read([ch |-> channel[k], sign |-> line.sign, args |-> line.args,
                   applied |-> line.applied], x)
    IN
    /\ by # NoClient
    /\ line.room > 0
    /\ channel' = [channel EXCEPT ![k] = r.ch]
    /\ line' = [line EXCEPT !.room = IF x \in Signs THEN @ ELSE @ - 1, !.sign = r.sign,
                            !.args = r.args, !.applied = r.applied]
    /\ UNCHANGED <<channels, joined, by>>

End ==
    /\ by # NoClient
    /\ by' = NoClient
    /\ line' = Idle
    /\ UNCHANGED chVars

\* The server runs one handler at a time: nothing else happens during a line.
Elsewhere ==
    /\ by = NoClient
    /\ \E c \in Cids : OtherStep(c)
    /\ UNCHANGED <<by, line>>

\* tokenizeMsg: only the last parameter of a line need not be a word.
WordsButLast(args) == \A i \in 1 .. Len(args) : i < Len(args) => args[i] \in Words

ArgLists == {args \in UNION {[1 .. n -> Typed] : n \in 0 .. MaxArgs} : WordsButLast(args)}

ModeNext ==
    \/ \E c \in Cids, k \in FoldedNames, args \in ArgLists : Begin(c, k, args)
    \/ \E x \in Signs \cup Letters : ReadNext(x)
    \/ End
    \/ Elsewhere

ModeSpec == ModeInit /\ [][ModeNext]_modeVars

-----------------------------------------------------------------------------
\* One entry of Applied, and a line that is being read.
Change == [sign : Signs, mode : Letters, arg : Args \cup {NoArg}]

Line ==
    [chan : FoldedNames \cup {NoName}, before : Channel, room : 0 .. MaxLetters,
     sign : Signs, args : Seq(Args), applied : Seq(Change)]

\* Types, and a line is run on an existing channel by one of its operators of then.
ModeTypeOK ==
    /\ by \in Cids \cup {NoClient}
    /\ line \in Line
    /\ by # NoClient => line.chan \in channels /\ by \in line.before.operators

\* What a reader of the announcement who knew the channel as it was makes of it.
Heard ==
    FoldLeft(Read,
             [ch |-> line.before, sign |-> "+", args |-> WrittenArgs(line.applied),
              applied |-> <<>>],
             WrittenLetters(line.applied)).ch

\* The key or the bans, not both, may be another's.
AlikeButOne(heard, ch) ==
    \/ heard = [ch EXCEPT !.key = heard.key]
    \/ heard = [ch EXCEPT !.bans = heard.bans]

\* Who receives the announcement and runs it on the channel as it was knows
\* the channel as it is: no change goes unannounced, the signs are grouped and
\* the parameters matched to their letters (m_mode.cpp:270-283), even when
\* letters were skipped or consumed parameters meant for others.  Only where a key
\* or a mask is announced that is no word (m_mode.cpp:278) may that reader have
\* it wrong; the rest, the roles, the limit and the flags, is right even then.
AnnouncementReplays ==
    by # NoClient =>
        /\ AlikeButOne(Heard, channel[line.chan])
        /\ (\A i \in DOMAIN line.applied : line.applied[i].arg \in Words \cup {NoArg}) =>
               Heard = channel[line.chan]

\* What others see of the channels: a line that is being run shows as nothing
\* done yet, since they are served only after it.
ShownChannel ==
    IF by = NoClient THEN channel ELSE [channel EXCEPT ![line.chan] = line.before]

Shown == INSTANCE Channels WITH channel <- ShownChannel

\* A MODE line is one step of Channels: whatever its letters do to the roles on
\* the way, the client's own included, it ends as something an operator of the
\* channel at its start may set (m_mode.cpp:134 is not tested again).
ModeIsOneStep == Shown!ChSpec

=============================================================================

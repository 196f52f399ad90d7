---------------------------- MODULE GovordProofs ----------------------------
(***************************************************************************)
(* Theorems about the tables of the server, for any number of connections, *)
(* nicknames, capabilities and passwords and any bounds of the store.      *)
(*                                                                         *)
(* The registry: its invariants are inductive together.  RecordOK is what  *)
(* they say of one Client; a handler that leaves the nick alone preserves  *)
(* them all as soon as it leaves a record that is OK (QuietStep).          *)
(*                                                                         *)
(* The WHOWAS store: only order is measured against the total; the         *)
(* argument is that no nickname ever has more records than order has       *)
(* entries of it: recording adds one to both, and forgetting an entry of   *)
(* order evicts a record as long as there is one.                          *)
(*                                                                         *)
(* Govord puts the registry, the channels and the WHOWAS store together.   *)
(* First: seen through its own variables each part behaves as its module   *)
(* says, so that what is established of the parts, here and in             *)
(* ChannelsProofs, holds of the whole.  Then what only the whole can have: *)
(* no channel keeps a cid beyond its registered connection.                *)
(*                                                                         *)
(* Views adds what clients are told of the channels: it comes last, with   *)
(* an invariant that relates each client's view to the members there are.  *)
(***************************************************************************)
EXTENDS Views, ChannelsProofs, FiniteSetTheorems, TLAPS

-----------------------------------------------------------------------------
\* The connection registry.

Settled(r) ==
    r.registered => /\ r.nick # NoNick
                    /\ r.user
                    /\ ~r.capNegotiating
                    /\ r.pass = NoPass

RecordOK(r) ==
    /\ r \in Client
    /\ r.close # "drained" => ~ReadyToRegister(r)
    /\ Settled(r)

RegInv ==
    /\ RegTypeOK
    /\ NickTableExact
    /\ RegistrationNeverHangs
    /\ RegisteredIsSettled

-----------------------------------------------------------------------------
\* A client that has just connected (Server.cpp:230-239) is an acceptable record.
LEMMA NewClientOK == RecordOK(NewClient)
BY IdsAssumption, RegistryAssumption
   DEF RecordOK, Settled, ReadyToRegister, NewClient, Client, CloseState

\* The registry invariants give an acceptable record for every cid.
LEMMA EveryRecordOK ==
    ASSUME RegInv
    PROVE  \A c \in Cids : RecordOK(client[c])
<1> TAKE c \in Cids
<1>1. CASE c \in clients
  BY <1>1 DEF RegInv, RegTypeOK, RegistrationNeverHangs, RegisteredIsSettled, RecordOK, Settled
<1>2. CASE c \notin clients
  BY <1>2, NewClientOK DEF RegInv, RegTypeOK
<1> QED BY <1>1, <1>2

\* tryCompleteRegistration (Server.cpp:480-496) leaves nothing to complete: the
\* client is registered, or still lacks something, or is being closed.
LEMMA TryCompleteOK ==
    ASSUME NEW r \in Client, Settled(r)
    PROVE  /\ RecordOK(TryCompleteRegistration(r))
           /\ TryCompleteRegistration(r).nick = r.nick
BY IdsAssumption, RegistryAssumption
   DEF RecordOK, Settled, TryCompleteRegistration, ReadyToRegister, Client, CloseState

\* processBuffer's test after a line (Server.cpp:334-335) changes the mark only.
LEMMA AfterLineOK ==
    ASSUME NEW r, RecordOK(r)
    PROVE  /\ RecordOK(AfterLine(r))
           /\ AfterLine(r).nick = r.nick
           /\ AfterLine(r).registered = r.registered
           /\ AfterLine(r).enabledCaps = r.enabledCaps
BY DEF RecordOK, Settled, AfterLine, ReadyToRegister, Client, CloseState

\* A step that leaves the tables and c's nick alone, and an acceptable record
\* for c, preserves every registry invariant.
LEMMA QuietStep ==
    ASSUME RegInv, NEW c \in clients, NEW r, RecordOK(r), r.nick = client[c].nick,
           client' = [client EXCEPT ![c] = r],
           UNCHANGED <<clients, nicks>>
    PROVE  RegInv'
<1>1. RegTypeOK'
  BY DEF RegInv, RegTypeOK, RecordOK
<1>2. \A d \in Cids : client'[d].nick = client[d].nick
  BY DEF RegInv, RegTypeOK
<1>3. NickTableExact'
  BY <1>2 DEF RegInv, NickTableExact, AnswersTo
<1>4. RegistrationNeverHangs' /\ RegisteredIsSettled'
  BY DEF RegInv, RegTypeOK, RegistrationNeverHangs, RegisteredIsSettled, RecordOK, Settled,
         ReadyToRegister
<1> QED BY <1>1, <1>3, <1>4 DEF RegInv

\* The same for a step that runs a line of c.
LEMMA QuietLine ==
    ASSUME RegInv, NEW c \in Cids, RunsLine(c), NEW r, RecordOK(r), r.nick = client[c].nick,
           LineLeaves(c, r), UNCHANGED <<clients, nicks>>
    PROVE  RegInv'
<1>1. RecordOK(AfterLine(r)) /\ AfterLine(r).nick = client[c].nick
  BY AfterLineOK
<1> QED BY <1>1, QuietStep DEF RunsLine, LineLeaves

\* A folded nick has one holder, and a client answers to one folded nick.
LEMMA OneHolder ==
    ASSUME RegInv, NEW k \in FoldedNicks
    PROVE  /\ \A c, d \in Cids : AnswersTo(c, k) /\ AnswersTo(d, k) => c = d
           /\ nicks[k] = NoClient <=> \A c \in Cids : ~AnswersTo(c, k)
BY IdsAssumption DEF RegInv, RegTypeOK, NickTableExact

\* NICK by a client without one (m_nick.cpp:54-56).
LEMMA FirstNickStep ==
    ASSUME RegInv, NEW c \in Cids, NEW n \in Nicks, FirstNick(c, n)
    PROVE  RegInv'
<1> DEFINE named == [client[c] EXCEPT !.nick = n]
           done  == TryCompleteRegistration(named)
<1>1. c \in clients /\ client[c] \in Client /\ n # NoNick /\ Fold[n] \in FoldedNicks
  BY IdsAssumption DEF FirstNick, RunsLine, RegInv, RegTypeOK, FoldedNicks
<1>2. named \in Client /\ named.nick = n /\ Settled(named)
  BY <1>1 DEF Client, Settled, RegInv, RegisteredIsSettled
<1>3. RecordOK(AfterLine(done)) /\ AfterLine(done).nick = n
  BY <1>2, TryCompleteOK, AfterLineOK
<1>4. client' = [client EXCEPT ![c] = AfterLine(done)] /\ clients' = clients
  BY DEF FirstNick, LineLeaves
<1> HIDE DEF done, named
<1>5. RegTypeOK'
  BY <1>1, <1>3, <1>4 DEF FirstNick, RegInv, RegTypeOK, RecordOK
<1>6. client'[c].nick = n /\ \A d \in Cids \ {c} : client'[d] = client[d]
  BY <1>3, <1>4 DEF RegInv, RegTypeOK
<1>7. \A k \in FoldedNicks : nicks'[k] = IF k = Fold[n] THEN c ELSE nicks[k]
  BY <1>1 DEF FirstNick, RegInv, RegTypeOK
<1>8. NickTableExact'
  BY <1>1, <1>4, <1>6, <1>7, OneHolder DEF NickTableExact, AnswersTo, FirstNick, NickExists, RegInv
<1>9. RegistrationNeverHangs' /\ RegisteredIsSettled'
  BY <1>3, <1>4, <1>6 DEF RegInv, RegTypeOK, RegistrationNeverHangs, RegisteredIsSettled,
     RecordOK, Settled, ReadyToRegister
<1> QED BY <1>5, <1>8, <1>9 DEF RegInv

\* NICK by a client that has one (m_nick.cpp:35-52).
LEMMA RenameStep ==
    ASSUME RegInv, NEW c \in Cids, NEW n \in Nicks, Rename(c, n)
    PROVE  RegInv'
<1> DEFINE old   == client[c].nick
           named == [client[c] EXCEPT !.nick = n]
<1>1. c \in clients /\ client[c] \in Client /\ n # NoNick /\ Fold[n] \in FoldedNicks
  BY IdsAssumption DEF Rename, RunsLine, RegInv, RegTypeOK, FoldedNicks
<1>2. old \in Nicks /\ Fold[old] \in FoldedNicks /\ nicks[Fold[old]] = c
  BY <1>1 DEF Rename, Client, FoldedNicks, RegInv, NickTableExact, AnswersTo
<1>3. RecordOK(named) /\ named.nick = n
  BY <1>1, <1>2, EveryRecordOK DEF Rename, Client, RecordOK, Settled, ReadyToRegister
<1>4. RecordOK(AfterLine(named)) /\ AfterLine(named).nick = n
  BY <1>3, AfterLineOK
<1>5. client' = [client EXCEPT ![c] = AfterLine(named)] /\ clients' = clients
  BY DEF Rename, LineLeaves
<1>6. \A k \in FoldedNicks :
        nicks'[k] = IF k = Fold[n] THEN c ELSE IF k = Fold[old] THEN NoClient ELSE nicks[k]
  BY <1>1, <1>2 DEF Rename, RegInv, RegTypeOK
<1>7. Fold[n] = Fold[old] \/ nicks[Fold[n]] = NoClient
  BY DEF Rename, NickExists
<1>8. RegTypeOK'
  BY <1>1, <1>2, <1>4, <1>5 DEF Rename, RegInv, RegTypeOK, RecordOK
<1> HIDE DEF named
<1>9. client'[c].nick = n /\ \A d \in Cids \ {c} : client'[d] = client[d]
  BY <1>4, <1>5 DEF RegInv, RegTypeOK
<1>10. NickTableExact'
  <2> SUFFICES ASSUME NEW k \in FoldedNicks, NEW d \in Cids
               PROVE  nicks'[k] = d <=> AnswersTo(d, k)'
    BY DEF NickTableExact
  <2>1. CASE d = c
    BY <2>1, <1>1, <1>2, <1>5, <1>6, <1>9, OneHolder, IdsAssumption
       DEF AnswersTo, RegInv, NickTableExact
  <2>2. CASE d # c
    <3>1. AnswersTo(d, k)' <=> AnswersTo(d, k)
      BY <2>2, <1>5, <1>9 DEF AnswersTo
    <3>2. nicks[k] = d <=> AnswersTo(d, k)
      BY DEF RegInv, NickTableExact
    <3> QED BY <2>2, <3>1, <3>2, <1>2, <1>6, <1>7, IdsAssumption
  <2> QED BY <2>1, <2>2
<1>11. RegistrationNeverHangs' /\ RegisteredIsSettled'
  BY <1>4, <1>5, <1>9 DEF RegInv, RegTypeOK, RegistrationNeverHangs, RegisteredIsSettled,
     RecordOK, Settled, ReadyToRegister
<1> QED BY <1>8, <1>10, <1>11 DEF RegInv

\* teardownClient and the erase after it (Server.cpp:195-199, 388-402).
LEMMA TeardownStep ==
    ASSUME RegInv, NEW c \in Cids, Teardown(c)
    PROVE  RegInv'
<1> DEFINE nick == client[c].nick
<1>1. c \in clients /\ client[c] \in Client
  BY DEF Teardown, RegInv, RegTypeOK
<1>2. nick # NoNick => nick \in Nicks /\ Fold[nick] \in FoldedNicks /\ nicks[Fold[nick]] = c
  BY <1>1 DEF Client, FoldedNicks, RegInv, NickTableExact, AnswersTo
<1>3. \A k \in FoldedNicks :
        nicks'[k] = IF nick # NoNick /\ k = Fold[nick] THEN NoClient ELSE nicks[k]
  BY <1>2 DEF Teardown, RegInv, RegTypeOK
<1>4. /\ clients' = clients \ {c}
      /\ client'[c] = NewClient
      /\ \A d \in Cids \ {c} : client'[d] = client[d]
  BY DEF Teardown, RegInv, RegTypeOK
<1>5. RegTypeOK'
  BY <1>1, <1>2, NewClientOK DEF Teardown, RegInv, RegTypeOK, RecordOK
<1>6. NickTableExact'
  <2> SUFFICES ASSUME NEW k \in FoldedNicks, NEW d \in Cids
               PROVE  nicks'[k] = d <=> AnswersTo(d, k)'
    BY DEF NickTableExact
  <2>1. nicks[k] = d <=> AnswersTo(d, k)
    BY DEF RegInv, NickTableExact
  <2>2. CASE d = c
    BY <2>1, <2>2, <1>1, <1>3, <1>4, IdsAssumption DEF AnswersTo
  <2>3. CASE d # c
    BY <2>1, <2>3, <1>2, <1>3, <1>4, IdsAssumption DEF AnswersTo
  <2> QED BY <2>2, <2>3
<1>7. RegistrationNeverHangs' /\ RegisteredIsSettled'
  BY <1>4 DEF RegInv, RegTypeOK, RegistrationNeverHangs, RegisteredIsSettled, ReadyToRegister
<1> QED BY <1>5, <1>6, <1>7 DEF RegInv

\* acceptOne (Server.cpp:213-245).
LEMMA AcceptStep ==
    ASSUME RegInv, NEW c \in Cids, Accept(c)
    PROVE  RegInv'
<1>1. /\ client' = client
      /\ clients' = clients \cup {c}
      /\ nicks' = nicks
  BY DEF Accept, RegInv, RegTypeOK
<1>2. client[c] = NewClient
  BY DEF Accept, RegInv, RegTypeOK
<1>3. RecordOK(client[c]) /\ client[c].nick = NoNick
  BY <1>2, NewClientOK DEF NewClient
<1> QED BY <1>1, <1>3 DEF RegInv, RegTypeOK, NickTableExact, AnswersTo,
      RegistrationNeverHangs, RegisteredIsSettled, RecordOK, Settled, ReadyToRegister

\* Every other handler keeps c's nick and leaves an acceptable record.
LEMMA HandshakeStep ==
    ASSUME RegInv, NEW c \in Cids,
           \/ OtherLine(c)
           \/ \E p \in Passwords \cup {NoPass} : Pass(c, p)
           \/ User(c)
           \/ \E is302 \in BOOLEAN : CapLs(c, is302)
           \/ \E on \in SUBSET Caps : \E off \in SUBSET (Caps \ on) : CapReq(c, on, off)
           \/ CapEnd(c)
           \/ CapClear(c)
           \/ Mark(c)
           \/ Drop(c)
    PROVE  RegInv'
<1>1. RecordOK(client[c]) /\ client[c] \in Client
  BY EveryRecordOK DEF RecordOK
<1>2. CASE OtherLine(c)
  BY <1>1, <1>2, QuietLine DEF OtherLine
<1>3. ASSUME NEW p \in Passwords \cup {NoPass}, Pass(c, p)
      PROVE  RegInv'
  <2> DEFINE r == [client[c] EXCEPT !.pass = p]
  <2>1. RecordOK(r) /\ r.nick = client[c].nick
    BY <1>1, <1>3 DEF Pass, RunsLine, RecordOK, Settled, ReadyToRegister, Client
  <2> QED BY <1>3, <2>1, QuietLine DEF Pass
<1>4. CASE User(c)
  <2> DEFINE r == [client[c] EXCEPT !.user = TRUE]
  <2>1. r \in Client /\ Settled(r) /\ r.nick = client[c].nick
    BY <1>1 DEF RecordOK, Settled, Client
  <2>2. RecordOK(TryCompleteRegistration(r)) /\ TryCompleteRegistration(r).nick = r.nick
    BY <2>1, TryCompleteOK
  <2> QED BY <1>4, <2>1, <2>2, QuietLine DEF User
<1>5. ASSUME NEW is302 \in BOOLEAN, CapLs(c, is302)
      PROVE  RegInv'
  <2> DEFINE r == [client[c] EXCEPT !.cap302 = @ \/ is302,
                                    !.capNegotiating = @ \/ ~client[c].registered]
  <2>1. RecordOK(r) /\ r.nick = client[c].nick
    BY <1>1 DEF RecordOK, Settled, ReadyToRegister, Client
  <2> QED BY <1>5, <2>1, QuietLine DEF CapLs
<1>6. ASSUME NEW on \in SUBSET Caps, NEW off \in SUBSET (Caps \ on), CapReq(c, on, off)
      PROVE  RegInv'
  <2> DEFINE r == [client[c] EXCEPT !.enabledCaps = (@ \ off) \cup on,
                                    !.capNegotiating = @ \/ ~client[c].registered]
  <2>1. RecordOK(r) /\ r.nick = client[c].nick
    BY <1>1 DEF RecordOK, Settled, ReadyToRegister, Client
  <2> QED BY <1>6, <2>1, QuietLine DEF CapReq
<1>7. CASE CapEnd(c)
  <2> DEFINE r == [client[c] EXCEPT !.capNegotiating = FALSE]
  <2>1. r \in Client /\ Settled(r) /\ r.nick = client[c].nick
    BY <1>1 DEF RecordOK, Settled, Client
  <2>2. RecordOK(TryCompleteRegistration(r)) /\ TryCompleteRegistration(r).nick = r.nick
    BY <2>1, TryCompleteOK
  <2> QED BY <1>7, <2>1, <2>2, QuietLine DEF CapEnd
<1>8. CASE CapClear(c)
  <2> DEFINE r == [client[c] EXCEPT !.enabledCaps = @ \cap Sticky(client[c])]
  <2>1. RecordOK(r) /\ r.nick = client[c].nick
    BY <1>1 DEF RecordOK, Settled, ReadyToRegister, Client
  <2> QED BY <1>8, <2>1, QuietLine DEF CapClear
<1>9. CASE Mark(c) \/ Drop(c)
  <2>1. PICK m \in {"marked", "drained"} : client' = [client EXCEPT ![c].close = m]
    BY <1>9 DEF Mark, Drop
  <2> DEFINE r == [client[c] EXCEPT !.close = m]
  <2>2. RecordOK(r) /\ r.nick = client[c].nick
    BY <1>1, <1>9, <2>1 DEF Mark, Drop, RunsLine, RecordOK, Settled, ReadyToRegister, Client, CloseState
  <2>3. c \in clients /\ client' = [client EXCEPT ![c] = r] /\ UNCHANGED <<clients, nicks>>
    BY <1>9, <2>1 DEF Mark, Drop, RunsLine, RegInv, RegTypeOK
  <2> QED BY <2>2, <2>3, QuietStep
<1> QED BY <1>2, <1>3, <1>4, <1>5, <1>6, <1>7, <1>8, <1>9

-----------------------------------------------------------------------------
\* The registry invariants hold of the empty server Server::Server builds.
LEMMA RegInitInv == RegInit => RegInv
BY NewClientOK, IdsAssumption
   DEF RegInit, RegInv, RegTypeOK, NickTableExact, AnswersTo, RegistrationNeverHangs,
       RegisteredIsSettled, RecordOK

\* Every handler and every step of the connection's life preserves them.
LEMMA RegNextInv == RegInv /\ [RegNext]_regVars => RegInv'
<1> SUFFICES ASSUME RegInv, [RegNext]_regVars PROVE RegInv'
  OBVIOUS
<1>1. CASE UNCHANGED regVars
  BY <1>1 DEF regVars, RegInv, RegTypeOK, NickTableExact, AnswersTo, RegistrationNeverHangs,
              RegisteredIsSettled, ReadyToRegister
<1>2. CASE RegNext
  BY <1>2, AcceptStep, FirstNickStep, RenameStep, TeardownStep, HandshakeStep DEF RegNext, RegStep
<1> QED BY <1>1, <1>2

\* Nick table, registration handshake and passwords are right in every
\* reachable state, whatever the number of connections and nicknames.
THEOREM RegistryCorrect == RegSpec => []RegInv
BY RegInitInv, RegNextInv, PTL DEF RegSpec

\* The nick table is exact: a lookup by nick reaches the client showing it, and
\* every shown nick is found (m_nick.cpp:41-43, Server.cpp:398).
THEOREM NickTableIsExact == RegSpec => []NickTableExact
BY RegistryCorrect, PTL DEF RegInv

\* NICK, USER and CAP END in any order leave no registration hanging.
THEOREM NoRegistrationHangs == RegSpec => []RegistrationNeverHangs
BY RegistryCorrect, PTL DEF RegInv

-----------------------------------------------------------------------------
\* Under the invariants the nick table is the ownership the clients show.
LEMMA TableShowsOwners == RegInv => ShownOwner = nicks
<1> SUFFICES ASSUME RegInv, NEW k \in FoldedNicks
             PROVE  nicks[k] = IF \E c \in Cids : AnswersTo(c, k)
                               THEN CHOOSE c \in Cids : AnswersTo(c, k) ELSE NoClient
  BY DEF ShownOwner, RegInv, RegTypeOK
<1>1. CASE \E c \in Cids : AnswersTo(c, k)
  BY <1>1, OneHolder
     DEF RegInv, NickTableExact
<1>2. CASE ~\E c \in Cids : AnswersTo(c, k)
  BY <1>2, OneHolder
<1> QED BY <1>1, <1>2

\* One handler is one step of the ownership, or none.
LEMMA OwnershipStep ==
    ASSUME RegInv, RegInv', [RegNext]_regVars
    PROVE  [Ownership!OwnNext]_ShownOwner
<1>1. ShownOwner = nicks /\ ShownOwner' = nicks'
  <2>1. (RegInv => ShownOwner = nicks)'
    BY TableShowsOwners, PTL
  <2> QED BY <2>1, TableShowsOwners
<1>2. CASE UNCHANGED nicks
  BY <1>1, <1>2
<1>3. ASSUME NEW c \in Cids, NEW n \in Nicks, FirstNick(c, n)
      PROVE  Ownership!Claim(c, Fold[n])
  <2>1. Fold[n] \in FoldedNicks /\ \A k \in FoldedNicks : nicks[k] # c
    BY <1>3 DEF FoldedNicks, FirstNick, RegInv, NickTableExact, AnswersTo
  <2> QED BY <1>1, <1>3, <2>1
        DEF Ownership!Claim, Ownership!Nameless, Ownership!Free, FirstNick, NickExists
<1>4. ASSUME NEW c \in Cids, NEW n \in Nicks, Rename(c, n)
      PROVE  [Ownership!OwnNext]_ShownOwner
  <2> DEFINE old == client[c].nick
  <2>1. /\ old \in Nicks /\ Fold[old] \in FoldedNicks /\ Fold[n] \in FoldedNicks
        /\ nicks[Fold[old]] = c
    BY <1>4 DEF Rename, RunsLine, Client, FoldedNicks, RegInv, RegTypeOK, NickTableExact, AnswersTo
  <2>2. CASE Fold[n] = Fold[old]
    BY <1>1, <1>4, <2>1, <2>2 DEF Rename, RegInv, RegTypeOK
  <2>3. CASE Fold[n] # Fold[old]
    <3>1. Ownership!Move(c, Fold[old], Fold[n])
      BY <1>1, <1>4, <2>1, <2>3 DEF Ownership!Move, Ownership!Free, Rename, NickExists
    <3> QED BY <2>1, <3>1 DEF Ownership!OwnNext
  <2> QED BY <2>2, <2>3
<1>5. ASSUME NEW c \in Cids, Teardown(c)
      PROVE  [Ownership!OwnNext]_ShownOwner
  <2> DEFINE nick == client[c].nick
  <2>1. CASE nick = NoNick
    BY <1>2, <1>5, <2>1 DEF Teardown
  <2>2. CASE nick # NoNick
    <3>1. Fold[nick] \in FoldedNicks /\ nicks[Fold[nick]] = c
      BY <1>5, <2>2 DEF Teardown, Client, FoldedNicks, RegInv, RegTypeOK, NickTableExact, AnswersTo
    <3>2. Ownership!Release(c, Fold[nick])
      BY <1>1, <1>5, <2>2, <3>1 DEF Ownership!Release, Teardown
    <3> QED BY <3>1, <3>2 DEF Ownership!OwnNext
  <2> QED BY <2>1, <2>2
<1>6. ASSUME NEW c \in Cids, NEW n \in Nicks, FirstNick(c, n)
      PROVE  [Ownership!OwnNext]_ShownOwner
  <2>1. Fold[n] \in FoldedNicks
    BY DEF FoldedNicks
  <2> QED BY <1>3, <1>6, <2>1 DEF Ownership!OwnNext
<1>7. ASSUME NEW c \in Cids,
             \/ Accept(c) \/ OtherLine(c) \/ \E p \in Passwords \cup {NoPass} : Pass(c, p)
             \/ User(c) \/ \E is302 \in BOOLEAN : CapLs(c, is302)
             \/ \E on \in SUBSET Caps : \E off \in SUBSET (Caps \ on) : CapReq(c, on, off)
             \/ CapEnd(c) \/ CapClear(c) \/ Mark(c) \/ Drop(c)
      PROVE  UNCHANGED nicks
  BY <1>7 DEF Accept, OtherLine, Pass, User, CapLs, CapReq, CapEnd, CapClear, Mark, Drop
<1> QED BY <1>2, <1>4, <1>5, <1>6, <1>7 DEF RegNext, RegStep, regVars

\* The handlers, which consult only the table, implement NickOwnership: a nick
\* never has two owners, and changes owner only by being free in between.
THEOREM RegistryImplementsOwnership == RegSpec => NicksAreOwned
<1>1. RegInit => Ownership!OwnInit
  <2>1. RegInit => ShownOwner = nicks
    BY RegInitInv, TableShowsOwners
  <2> QED BY <2>1 DEF RegInit, Ownership!OwnInit
<1>2. RegInv /\ RegInv' /\ [RegNext]_regVars => [Ownership!OwnNext]_ShownOwner
  BY OwnershipStep
<1> QED BY <1>1, <1>2, RegistryCorrect, PTL DEF RegSpec, NicksAreOwned, Ownership!OwnSpec

-----------------------------------------------------------------------------
\* A registration always saw an accepted password (Server.cpp:487-493).
THEOREM RegistrationIsChecked == RegSpec => RegistrationChecksPassword
<1>1. ASSUME RegInv, [RegNext]_regVars, NEW c \in Cids,
             ~client[c].registered, client'[c].registered
      PROVE  PasswordOK(client[c])
  <2>1. ASSUME NEW r \in Client, ~r.registered, AfterLine(TryCompleteRegistration(r)).registered
        PROVE  PasswordOK(r)
    BY <2>1 DEF AfterLine, TryCompleteRegistration, Client
  <2>2. client[c] \in Client /\ client \in [Cids -> Client]
    BY <1>1 DEF RegInv, RegTypeOK
  <2>3. CASE UNCHANGED regVars
    BY <1>1, <2>3 DEF regVars
  <2>4. ASSUME NEW d \in Cids, \E n \in Nicks : FirstNick(d, n)
        PROVE  PasswordOK(client[c])
    <3>1. PICK n \in Nicks : FirstNick(d, n)
      BY <2>4
    <3> DEFINE r == [client[d] EXCEPT !.nick = n]
    <3>2. c = d /\ client'[c] = AfterLine(TryCompleteRegistration(r))
      BY <1>1, <2>2, <3>1 DEF FirstNick, LineLeaves
    <3>3. r \in Client /\ ~r.registered /\ r.pass = client[c].pass
      BY <1>1, <2>2, <3>2 DEF Client
    <3> QED BY <1>1, <2>1, <3>2, <3>3 DEF PasswordOK
  <2>5. ASSUME NEW d \in Cids, User(d)
        PROVE  PasswordOK(client[c])
    <3> DEFINE r == [client[d] EXCEPT !.user = TRUE]
    <3>1. c = d /\ client'[c] = AfterLine(TryCompleteRegistration(r))
      BY <1>1, <2>2, <2>5 DEF User, LineLeaves
    <3>2. r \in Client /\ ~r.registered /\ r.pass = client[c].pass
      BY <1>1, <2>2, <3>1 DEF Client
    <3> QED BY <1>1, <2>1, <3>1, <3>2 DEF PasswordOK
  <2>6. ASSUME NEW d \in Cids, CapEnd(d)
        PROVE  PasswordOK(client[c])
    <3> DEFINE r == [client[d] EXCEPT !.capNegotiating = FALSE]
    <3>1. c = d /\ client'[c] = AfterLine(TryCompleteRegistration(r))
      BY <1>1, <2>2, <2>6 DEF CapEnd, LineLeaves
    <3>2. r \in Client /\ ~r.registered /\ r.pass = client[c].pass
      BY <1>1, <2>2, <3>1 DEF Client
    <3> QED BY <1>1, <2>1, <3>1, <3>2 DEF PasswordOK
  <2>7. ASSUME NEW d \in Cids, NEW r \in Client, r.registered = client[d].registered,
               LineLeaves(d, r)
        PROVE  FALSE
    <3>1. AfterLine(r).registered = r.registered
      BY DEF AfterLine, Client
    <3> QED BY <1>1, <2>2, <2>7, <3>1 DEF LineLeaves
  <2>8. CASE RegNext
    <3>1. PICK d \in Cids : RegStep(d)
      BY <2>8 DEF RegNext
    <3>2. client[d] \in Client
      BY <2>2
    <3>3. CASE OtherLine(d)
      BY <2>7, <3>2, <3>3 DEF OtherLine
    <3>4. ASSUME NEW p \in Passwords \cup {NoPass}, Pass(d, p)
          PROVE  FALSE
      <4> DEFINE r == [client[d] EXCEPT !.pass = p]
      <4>1. r \in Client /\ r.registered = client[d].registered
        BY <3>2 DEF Client
      <4> QED BY <2>7, <3>4, <4>1 DEF Pass
    <3>5. ASSUME NEW n \in Nicks, Rename(d, n)
          PROVE  FALSE
      <4> DEFINE r == [client[d] EXCEPT !.nick = n]
      <4>1. r \in Client /\ r.registered = client[d].registered
        BY <3>2 DEF Client
      <4> QED BY <2>7, <3>5, <4>1 DEF Rename
    <3>6. ASSUME NEW is302 \in BOOLEAN, CapLs(d, is302)
          PROVE  FALSE
      <4> DEFINE r == [client[d] EXCEPT !.cap302 = @ \/ is302,
                                        !.capNegotiating = @ \/ ~client[d].registered]
      <4>1. r \in Client /\ r.registered = client[d].registered
        BY <3>2 DEF Client
      <4> QED BY <2>7, <3>6, <4>1 DEF CapLs
    <3>7. ASSUME NEW on \in SUBSET Caps, NEW off \in SUBSET (Caps \ on), CapReq(d, on, off)
          PROVE  FALSE
      <4> DEFINE r == [client[d] EXCEPT !.enabledCaps = (@ \ off) \cup on,
                                        !.capNegotiating = @ \/ ~client[d].registered]
      <4>1. r \in Client /\ r.registered = client[d].registered
        BY <3>2 DEF Client
      <4> QED BY <2>7, <3>7, <4>1 DEF CapReq
    <3>8. CASE CapClear(d)
      <4> DEFINE r == [client[d] EXCEPT !.enabledCaps = @ \cap Sticky(client[d])]
      <4>1. r \in Client /\ r.registered = client[d].registered
        BY <3>2 DEF Client
      <4> QED BY <2>7, <3>8, <4>1 DEF CapClear
    <3>9. CASE Accept(d) \/ Mark(d) \/ Drop(d) \/ Teardown(d)
      BY <1>1, <2>2, <3>9 DEF Accept, Mark, Drop, Teardown, NewClient, Client
    <3> QED BY <2>4, <2>5, <2>6, <3>1, <3>3, <3>4, <3>5, <3>6, <3>7, <3>8, <3>9 DEF RegStep
  <2> QED BY <1>1, <2>3, <2>8
<1>2. RegInv /\ [RegNext]_regVars =>
        [\A c \in Cids :
            ~client[c].registered /\ client'[c].registered => PasswordOK(client[c])]_regVars
  BY <1>1
<1> QED BY <1>2, RegistryCorrect, PTL DEF RegSpec, RegistrationChecksPassword

-----------------------------------------------------------------------------
\* A line handler that leaves the sticky capabilities of its own client does so
\* for every client.
LEMMA LineKeepsSticky ==
    ASSUME RegInv, NEW d \in Cids, NEW r \in Client, LineLeaves(d, r),
           client[d].enabledCaps \cap Sticky(client[d]) \subseteq r.enabledCaps,
           NEW c \in Cids
    PROVE  client[c].enabledCaps \cap Sticky(client[c]) \subseteq client'[c].enabledCaps
<1>1. AfterLine(r).enabledCaps = r.enabledCaps
  BY DEF AfterLine, Client
<1>2. client' = [client EXCEPT ![d] = AfterLine(r)] /\ client \in [Cids -> Client]
  BY DEF LineLeaves, RegInv, RegTypeOK
<1>3. CASE c = d
  BY <1>1, <1>2, <1>3
<1>4. CASE c # d
  BY <1>2, <1>4
<1> QED BY <1>3, <1>4

\* No order of CAP LS, REQ, CLEAR and END takes a sticky capability from a client
\* that stays connected (m_cap.cpp:15).
THEOREM StickyCapsAlwaysStay == RegSpec => StickyCapsStay
<1>1. ASSUME RegInv, [RegNext]_regVars, NEW c \in clients \cap clients'
      PROVE  client[c].enabledCaps \cap Sticky(client[c]) \subseteq client'[c].enabledCaps
  <2>1. client \in [Cids -> Client] /\ c \in Cids
    BY <1>1 DEF RegInv, RegTypeOK
  <2>2. CASE UNCHANGED regVars
    BY <2>2 DEF regVars
  <2>3. ASSUME NEW d \in Cids, NEW r \in Client, LineLeaves(d, r),
               client[d].enabledCaps \cap Sticky(client[d]) \subseteq r.enabledCaps
        PROVE  client[c].enabledCaps \cap Sticky(client[c]) \subseteq client'[c].enabledCaps
    BY <1>1, <2>1, <2>3, LineKeepsSticky
  <2>4. ASSUME NEW r \in Client
        PROVE  /\ TryCompleteRegistration(r) \in Client
               /\ TryCompleteRegistration(r).enabledCaps = r.enabledCaps
    <3>1. CASE ~ReadyToRegister(r)
      BY <3>1 DEF TryCompleteRegistration
    <3>2. CASE ReadyToRegister(r) /\ PasswordOK(r)
      BY <3>2 DEF TryCompleteRegistration, Client
    <3>3. CASE ReadyToRegister(r) /\ ~PasswordOK(r)
      BY <3>3 DEF TryCompleteRegistration, Client, CloseState
    <3> QED BY <3>1, <3>2, <3>3
  <2>5. CASE RegNext
    <3>1. PICK d \in Cids : RegStep(d)
      BY <2>5 DEF RegNext
    <3>2. client[d] \in Client
      BY <2>1
    <3>3. CASE OtherLine(d)
      BY <2>3, <3>2, <3>3 DEF OtherLine
    <3>4. ASSUME NEW p \in Passwords \cup {NoPass}, Pass(d, p)
          PROVE  client[c].enabledCaps \cap Sticky(client[c]) \subseteq client'[c].enabledCaps
      <4> DEFINE r == [client[d] EXCEPT !.pass = p]
      <4>1. r \in Client /\ r.enabledCaps = client[d].enabledCaps
        BY <3>2 DEF Client
      <4> QED BY <2>3, <3>4, <4>1 DEF Pass
    <3>5. ASSUME NEW n \in Nicks, FirstNick(d, n) \/ Rename(d, n)
          PROVE  client[c].enabledCaps \cap Sticky(client[c]) \subseteq client'[c].enabledCaps
      <4> DEFINE r == [client[d] EXCEPT !.nick = n]
      <4>1. r \in Client /\ r.enabledCaps = client[d].enabledCaps
        BY <3>2 DEF Client
      <4>2. TryCompleteRegistration(r) \in Client
            /\ TryCompleteRegistration(r).enabledCaps = client[d].enabledCaps
        BY <2>4, <4>1
      <4>3. LineLeaves(d, r) \/ LineLeaves(d, TryCompleteRegistration(r))
        BY <3>5 DEF FirstNick, Rename
      <4> HIDE DEF r
      <4> QED BY <2>3, <4>1, <4>2, <4>3
    <3>6. CASE User(d)
      <4> DEFINE r == [client[d] EXCEPT !.user = TRUE]
      <4>1. r \in Client /\ r.enabledCaps = client[d].enabledCaps
        BY <3>2 DEF Client
      <4>2. LineLeaves(d, TryCompleteRegistration(r))
        BY <3>6 DEF User
      <4> HIDE DEF r
      <4> QED BY <2>3, <2>4, <4>1, <4>2
    <3>7. CASE CapEnd(d)
      <4> DEFINE r == [client[d] EXCEPT !.capNegotiating = FALSE]
      <4>1. r \in Client /\ r.enabledCaps = client[d].enabledCaps
        BY <3>2 DEF Client
      <4>2. LineLeaves(d, TryCompleteRegistration(r))
        BY <3>7 DEF CapEnd
      <4> HIDE DEF r
      <4> QED BY <2>3, <2>4, <4>1, <4>2
    <3>8. ASSUME NEW is302 \in BOOLEAN, CapLs(d, is302)
          PROVE  client[c].enabledCaps \cap Sticky(client[c]) \subseteq client'[c].enabledCaps
      <4> DEFINE r == [client[d] EXCEPT !.cap302 = @ \/ is302,
                                        !.capNegotiating = @ \/ ~client[d].registered]
      <4>1. r \in Client /\ r.enabledCaps = client[d].enabledCaps
        BY <3>2 DEF Client
      <4> QED BY <2>3, <3>8, <4>1 DEF CapLs
    <3>9. ASSUME NEW on \in SUBSET Caps, NEW off \in SUBSET (Caps \ on), CapReq(d, on, off)
          PROVE  client[c].enabledCaps \cap Sticky(client[c]) \subseteq client'[c].enabledCaps
      <4> DEFINE r == [client[d] EXCEPT !.enabledCaps = (@ \ off) \cup on,
                                        !.capNegotiating = @ \/ ~client[d].registered]
      <4>1. r \in Client /\ r.enabledCaps = (client[d].enabledCaps \ off) \cup on
        BY <3>2 DEF Client
      <4>2. LineLeaves(d, r) /\ off \cap Sticky(client[d]) = {}
        BY <3>9 DEF CapReq
      <4> HIDE DEF r
      <4> QED BY <2>3, <4>1, <4>2
    <3>10. CASE CapClear(d)
      <4> DEFINE r == [client[d] EXCEPT !.enabledCaps = @ \cap Sticky(client[d])]
      <4>1. r \in Client /\ r.enabledCaps = client[d].enabledCaps \cap Sticky(client[d])
        BY <3>2 DEF Client
      <4>2. LineLeaves(d, r)
        BY <3>10 DEF CapClear
      <4> HIDE DEF r
      <4> QED BY <2>3, <4>1, <4>2
    <3>11. CASE Mark(d) \/ Drop(d)
      <4>1. PICK why : client' = [client EXCEPT ![d].close = why]
        BY <3>11 DEF Mark, Drop
      <4> QED BY <2>1, <4>1 DEF Client
    <3>12. CASE Accept(d) \/ Teardown(d)
      BY <1>1, <2>1, <3>12 DEF Accept, Teardown
    <3> QED BY <3>1, <3>3, <3>4, <3>5, <3>6, <3>7, <3>8, <3>9, <3>10, <3>11, <3>12 DEF RegStep
  <2> QED BY <1>1, <2>2, <2>5
<1>2. RegInv /\ [RegNext]_regVars =>
        [\A c \in clients \cap clients' :
            client[c].enabledCaps \cap Sticky(client[c]) \subseteq client'[c].enabledCaps]_regVars
  BY <1>1
<1> QED BY <1>2, RegistryCorrect, PTL DEF RegSpec, StickyCapsStay

\* Registration is final: nothing a registered client sends undoes what completing
\* the registration has settled, the wiped password included.
THEOREM RegistrationIsFinal == RegSpec => []RegisteredIsSettled
<1>1. RegInv => RegisteredIsSettled
  BY DEF RegInv, RegisteredIsSettled, Settled, RecordOK, RegTypeOK
<1> QED BY <1>1, RegistryCorrect, PTL

-----------------------------------------------------------------------------
\* The WHOWAS store.

\* Where k stands in a sequence of keys.
At(s, k) == {i \in DOMAIN s : s[i] = k}

LEMMA AtFinite ==
    ASSUME NEW T, NEW s \in Seq(T), NEW k
    PROVE  IsFiniteSet(At(s, k)) /\ Cardinality(At(s, k)) \in Nat
<1>1. IsFiniteSet(1 .. Len(s)) /\ At(s, k) \subseteq 1 .. Len(s)
  BY FS_Interval DEF At
<1> QED BY <1>1, FS_Subset, FS_CardinalityType

\* A key in front is one occurrence more of it, and the others are as many.
LEMMA AtFront ==
    ASSUME NEW T, NEW s \in Seq(T), NEW j \in T, NEW k
    PROVE  Cardinality(At(<<j>> \o s, k)) =
           IF j = k THEN Cardinality(At(s, k)) + 1 ELSE Cardinality(At(s, k))
<1> DEFINE t == <<j>> \o s
           moved == {i + 1 : i \in At(s, k)}
           f == [i \in At(s, k) |-> i + 1]
<1>1. t \in Seq(T) /\ Len(t) = Len(s) + 1 /\ t[1] = j /\ \A i \in 1 .. Len(s) : t[i + 1] = s[i]
  OBVIOUS
<1>2. At(s, k) \subseteq Int /\ moved \subseteq Int /\ 1 \notin moved
  BY DEF At
<1>3. f \in Bijection(At(s, k), moved)
  <2>1. f \in Injection(At(s, k), moved)
    BY <1>2 DEF Injection, IsInjective
  <2>2. f \in Surjection(At(s, k), moved)
    BY <1>2 DEF Surjection
  <2> QED BY <2>1, <2>2 DEF Bijection
<1>4. IsFiniteSet(moved) /\ Cardinality(moved) = Cardinality(At(s, k))
  BY <1>3, AtFinite, FS_Bijection DEF ExistsBijection
<1>5. At(t, k) = IF j = k THEN moved \cup {1} ELSE moved
  <2>1. ASSUME NEW i \in At(t, k) PROVE i \in moved \/ (i = 1 /\ j = k)
    <3>1. i \in 1 .. Len(s) + 1 /\ t[i] = k
      BY <1>1, <2>1 DEF At
    <3>2. CASE i = 1
      BY <1>1, <3>1, <3>2
    <3>3. CASE i # 1
      <4>1. i - 1 \in 1 .. Len(s) /\ t[(i - 1) + 1] = s[i - 1] /\ i = (i - 1) + 1
        BY <1>1, <3>1, <3>3
      <4>2. i - 1 \in At(s, k)
        BY <3>1, <4>1 DEF At
      <4> QED BY <4>1, <4>2
    <3> QED BY <3>2, <3>3
  <2>2. ASSUME NEW i \in moved PROVE i \in At(t, k)
    <3>1. PICK h \in At(s, k) : i = h + 1
      OBVIOUS
    <3>2. h \in 1 .. Len(s) /\ s[h] = k
      BY DEF At
    <3> QED BY <1>1, <3>1, <3>2 DEF At
  <2>3. j = k => 1 \in At(t, k)
    BY <1>1 DEF At
  <2> HIDE DEF moved
  <2> QED BY <2>1, <2>2, <2>3
<1> HIDE DEF t, moved
<1>6. Cardinality(moved \cup {1}) = Cardinality(moved) + 1
  BY <1>2, <1>4, FS_AddElement
<1>7. Cardinality(At(t, k)) = IF j = k THEN Cardinality(At(s, k)) + 1 ELSE Cardinality(At(s, k))
  BY <1>4, <1>5, <1>6
<1> QED BY <1>7 DEF t

\* Forgetting the last key is one occurrence less of it.
LEMMA AtButLast ==
    ASSUME NEW T, NEW s \in Seq(T), s # <<>>, NEW k
    PROVE  /\ DropLast(s) \in Seq(T) /\ Len(DropLast(s)) = Len(s) - 1
           /\ Cardinality(At(DropLast(s), k)) =
              IF s[Len(s)] = k THEN Cardinality(At(s, k)) - 1 ELSE Cardinality(At(s, k))
<1>1. /\ DropLast(s) \in Seq(T) /\ Len(DropLast(s)) = Len(s) - 1
      /\ \A i \in 1 .. Len(s) - 1 : DropLast(s)[i] = s[i]
  <2>1. Len(s) \in Nat \ {0}
    OBVIOUS
  <2>2. Len(s) - 1 \in 0 .. Len(s)
    BY <2>1
  <2> QED BY <2>1, <2>2, SMTT(30) DEF DropLast
<1>2. At(DropLast(s), k) = At(s, k) \ {Len(s)}
  BY <1>1 DEF At
<1>3. Len(s) \in At(s, k) <=> s[Len(s)] = k
  BY DEF At
<1> QED BY <1>1, <1>2, <1>3, AtFinite, FS_RemoveElement

\* The newest n of a sequence.
LEMMA NewestIs ==
    ASSUME NEW T, NEW s \in Seq(T), NEW n \in Nat
    PROVE  /\ Newest(s, n) \in Seq(T)
           /\ Len(Newest(s, n)) <= n
           /\ Len(Newest(s, n)) <= Len(s)
BY DEF Newest

-----------------------------------------------------------------------------
WhInv ==
    /\ history \in [FoldedNicks -> Seq(Nicks)]
    /\ order \in Seq(FoldedNicks)
    /\ Len(order) <= MaxTotal
    /\ \A k \in FoldedNicks :
          /\ Len(history[k]) <= MaxPerNick
          /\ Len(history[k]) <= Cardinality(At(order, k))

LEMMA WhInitInv == WhInit => WhInv
<1> SUFFICES ASSUME WhInit PROVE WhInv
  OBVIOUS
<1>1. order = <<>> /\ order \in Seq(FoldedNicks) /\ Len(order) = 0
  BY DEF WhInit
<1>2. \A k \in FoldedNicks : Cardinality(At(order, k)) \in Nat
  BY <1>1, AtFinite
<1>3. \A k \in FoldedNicks : history[k] = <<>> /\ history[k] \in Seq(Nicks) /\ Len(history[k]) = 0
  BY DEF WhInit
<1>4. history \in [FoldedNicks -> Seq(Nicks)]
  BY DEF WhInit
<1> QED BY <1>1, <1>2, <1>3, <1>4, WhowasAssumption DEF WhInv

\* One record, as long as order is not full, and when it is.
LEMMA RecordInv ==
    ASSUME WhInv, NEW n \in Nicks, Record(n)
    PROVE  WhInv'
<1> DEFINE k == KeyFor(n)
           pushed == [history EXCEPT ![k] = Newest(<<n>> \o @, MaxPerNick)]
           keys == <<k>> \o order
           oldest == keys[Len(keys)]
<1>1. k \in FoldedNicks /\ keys \in Seq(FoldedNicks) /\ keys # <<>> /\ oldest \in FoldedNicks
      /\ Len(keys) = Len(order) + 1
  BY DEF KeyFor, FoldedNicks, WhInv
<1>2. /\ pushed \in [FoldedNicks -> Seq(Nicks)]
      /\ \A j \in FoldedNicks : /\ Len(pushed[j]) \in Nat
                                /\ Len(pushed[j]) <= MaxPerNick
                                /\ Len(pushed[j]) <= Cardinality(At(keys, j))
  <2>1. \A j \in FoldedNicks : /\ history[j] \in Seq(Nicks) /\ Len(history[j]) <= MaxPerNick
                               /\ Len(history[j]) <= Cardinality(At(order, j))
    BY DEF WhInv
  <2>2. \A j \in FoldedNicks : Cardinality(At(order, j)) \in Nat
    BY AtFinite DEF WhInv
  <2>3. <<n>> \o history[k] \in Seq(Nicks) /\ Len(<<n>> \o history[k]) = Len(history[k]) + 1
    BY <1>1, <2>1
  <2>4. /\ Newest(<<n>> \o history[k], MaxPerNick) \in Seq(Nicks)
        /\ Len(Newest(<<n>> \o history[k], MaxPerNick)) <= MaxPerNick
        /\ Len(Newest(<<n>> \o history[k], MaxPerNick)) <= Len(history[k]) + 1
    BY <2>3, NewestIs, WhowasAssumption
  <2>5. \A j \in FoldedNicks : Cardinality(At(keys, j)) =
            IF k = j THEN Cardinality(At(order, j)) + 1 ELSE Cardinality(At(order, j))
    BY <1>1, AtFront DEF WhInv
  <2>6. pushed \in [FoldedNicks -> Seq(Nicks)]
    BY <2>4 DEF WhInv
  <2>7. ASSUME NEW j \in FoldedNicks
        PROVE  /\ Len(pushed[j]) \in Nat
               /\ Len(pushed[j]) <= MaxPerNick
               /\ Len(pushed[j]) <= Cardinality(At(keys, j))
    <3>1. CASE j = k
      <4>1. pushed[j] = Newest(<<n>> \o history[k], MaxPerNick)
        BY <3>1, <1>1 DEF WhInv
      <4>2. Len(pushed[j]) \in Nat /\ Len(history[k]) \in Nat
        BY <2>1, <2>4, <4>1, <1>1
      <4>3. Cardinality(At(keys, j)) = Cardinality(At(order, k)) + 1
        BY <2>5, <3>1
      <4> HIDE DEF pushed, keys, k
      <4> QED BY <1>1, <2>1, <2>2, <2>4, <4>1, <4>2, <4>3
    <3>2. CASE j # k
      <4>1. pushed[j] = history[j]
        BY <3>2 DEF WhInv
      <4>2. Cardinality(At(keys, j)) = Cardinality(At(order, j))
        BY <2>5, <3>2
      <4> HIDE DEF pushed, keys, k
      <4> QED BY <2>1, <4>1, <4>2
    <3> QED BY <3>1, <3>2
  <2> HIDE DEF pushed, keys, k
  <2> QED BY <2>6, <2>7
<1>3. CASE Len(keys) <= MaxTotal
  <2>1. history' = pushed /\ order' = keys
    BY <1>3 DEF Record
  <2> HIDE DEF pushed, keys, k
  <2> QED BY <1>1, <1>2, <1>3, <2>1 DEF WhInv
<1>4. CASE ~(Len(keys) <= MaxTotal)
  <2>1. /\ history' = [pushed EXCEPT ![oldest] = IF @ = <<>> THEN @ ELSE DropLast(@)]
        /\ order' = DropLast(keys)
    BY <1>4 DEF Record
  <2> HIDE DEF pushed, keys, k
  <2>2. order' \in Seq(FoldedNicks) /\ Len(order') <= MaxTotal
    <3>1. DropLast(keys) \in Seq(FoldedNicks) /\ Len(DropLast(keys)) = Len(keys) - 1
      BY <1>1, AtButLast
    <3>2. Len(order) \in Nat /\ Len(order) <= MaxTotal
      BY DEF WhInv
    <3> QED BY <1>1, <2>1, <3>1, <3>2, WhowasAssumption
  <2>3. ASSUME NEW j \in FoldedNicks
        PROVE  /\ history'[j] \in Seq(Nicks)
               /\ Len(history'[j]) <= MaxPerNick
               /\ Len(history'[j]) <= Cardinality(At(order', j))
    <3>1. pushed[j] \in Seq(Nicks) /\ Cardinality(At(keys, j)) \in Nat
      BY <1>1, <1>2, AtFinite
    <3>2. Cardinality(At(order', j)) =
              IF oldest = j THEN Cardinality(At(keys, j)) - 1 ELSE Cardinality(At(keys, j))
      BY <1>1, <2>1, AtButLast
    <3>3. CASE oldest # j
      <4>1. history'[j] = pushed[j]
        BY <1>2, <2>1, <3>3
      <4> QED BY <1>2, <3>1, <3>2, <3>3, <4>1
    <3>4. CASE oldest = j /\ pushed[j] # <<>>
      <4>1. history'[j] = DropLast(pushed[j])
        BY <1>2, <2>1, <3>4
      <4>2. DropLast(pushed[j]) \in Seq(Nicks) /\ Len(DropLast(pushed[j])) = Len(pushed[j]) - 1
        BY <3>1, <3>4, AtButLast
      <4> QED BY <1>2, <3>1, <3>2, <3>4, <4>1, <4>2, WhowasAssumption
    <3>5. CASE oldest = j /\ pushed[j] = <<>>
      <4>1. history'[j] = <<>>
        BY <1>2, <2>1, <3>5
      <4>2. Cardinality(At(order', j)) \in Nat
        BY <2>2, AtFinite
      <4> QED BY <4>1, <4>2, WhowasAssumption
    <3> QED BY <3>3, <3>4, <3>5
  <2>4. history' \in [FoldedNicks -> Seq(Nicks)]
    <3>1. DOMAIN history' = FoldedNicks /\ history' = [j \in FoldedNicks |-> history'[j]]
      BY <1>2, <2>1
    <3> QED BY <2>3, <3>1
  <2> QED BY <2>2, <2>3, <2>4 DEF WhInv
<1> QED BY <1>3, <1>4

\* The inductive invariant of the store: types and the two bounds.
THEOREM WhowasCorrect == WhSpec => []WhInv
<1>1. WhInv /\ [WhNext]_whVars => WhInv'
  <2>1. WhInv /\ UNCHANGED whVars => WhInv'
    BY DEF whVars, WhInv
  <2> QED BY <2>1, RecordInv DEF WhNext
<1> QED BY <1>1, WhInitInv, PTL DEF WhSpec

-----------------------------------------------------------------------------
\* The spellings filed under k.
Spellings(k) == {m \in Nicks : Fold[m] = k}

FiledInv == \A k \in FoldedNicks : history[k] \in Seq(Spellings(k))

\* A record and an eviction move entries only within their own key.
LEMMA RecordFiles ==
    ASSUME WhInv, FiledInv, NEW n \in Nicks, Record(n)
    PROVE  FiledInv'
<1> DEFINE k == KeyFor(n)
           pushed == [history EXCEPT ![k] = Newest(<<n>> \o @, MaxPerNick)]
           keys == <<k>> \o order
           oldest == keys[Len(keys)]
<1>1. \A j \in FoldedNicks : pushed[j] \in Seq(Spellings(j))
  <2>1. ASSUME NEW j \in FoldedNicks
        PROVE  pushed[j] \in Seq(Spellings(j))
    <3>1. history[j] \in Seq(Spellings(j))
      BY DEF FiledInv
    <3>2. pushed[j] = IF j = k THEN Newest(<<n>> \o history[j], MaxPerNick) ELSE history[j]
      BY DEF WhInv
    <3>3. CASE j = k
      <4>1. n \in Spellings(j)
        BY <3>3 DEF Spellings, KeyFor
      <4>2. <<n>> \o history[j] \in Seq(Spellings(j))
        BY <3>1, <4>1
      <4> HIDE DEF pushed, k
      <4> QED BY <3>2, <3>3, <4>2, NewestIs, WhowasAssumption
    <3> QED BY <3>1, <3>2, <3>3
  <2> QED BY <2>1
<1>2. pushed \in [FoldedNicks -> Seq(Nicks)]
  <2>1. \A j \in FoldedNicks : Seq(Spellings(j)) \subseteq Seq(Nicks)
    BY DEF Spellings
  <2>2. pushed = [j \in FoldedNicks |-> pushed[j]]
    BY DEF WhInv
  <2> HIDE DEF pushed
  <2> QED BY <1>1, <2>1, <2>2
<1>3. CASE Len(keys) <= MaxTotal
  BY <1>1, <1>3 DEF Record, FiledInv
<1>4. CASE ~(Len(keys) <= MaxTotal)
  <2>1. history' = [pushed EXCEPT ![oldest] = IF @ = <<>> THEN @ ELSE DropLast(@)]
    BY <1>4 DEF Record
  <2> HIDE DEF pushed, keys, k, oldest
  <2>2. ASSUME NEW j \in FoldedNicks
        PROVE  history'[j] \in Seq(Spellings(j))
    <3>1. history'[j] \in {pushed[j], IF pushed[j] = <<>> THEN pushed[j] ELSE DropLast(pushed[j])}
      BY <1>2, <2>1
    <3>2. pushed[j] # <<>> => DropLast(pushed[j]) \in Seq(Spellings(j))
      BY <1>1, AtButLast
    <3> QED BY <1>1, <3>1, <3>2
  <2> QED BY <2>2 DEF FiledInv
<1> QED BY <1>3, <1>4

\* Every entry is filed under its own folding, whatever was recorded and evicted.
THEOREM EntriesAreFiled == WhSpec => []WhTypeOK
<1>1. WhInit => FiledInv
  BY DEF WhInit, FiledInv
<1>2. WhInv /\ FiledInv /\ [WhNext]_whVars => FiledInv'
  BY RecordFiles DEF WhNext, whVars, FiledInv
<1>3. WhInv /\ FiledInv => WhTypeOK
  <2> SUFFICES ASSUME WhInv, FiledInv, NEW k \in FoldedNicks, NEW i \in DOMAIN history[k]
               PROVE  Fold[history[k][i]] = k
    BY DEF WhInv, WhTypeOK
  <2>1. history[k] \in Seq(Spellings(k))
    BY DEF FiledInv
  <2>2. history[k][i] \in Spellings(k)
    BY <2>1
  <2> QED BY <2>2 DEF Spellings
<1> QED BY <1>1, <1>2, <1>3, WhowasCorrect, PTL DEF WhSpec

\* The store keeps to MAX_PER_NICK and, although it counts order alone, to MAX_TOTAL,
\* whatever both are and whatever is recorded (Whowas.cpp:10-23).
THEOREM StoreStaysBounded == WhSpec => []StoreIsBounded
<1>1. WhInv => StoreIsBounded
  BY DEF WhInv, StoreIsBounded, At, RecordedAs
<1> QED BY <1>1, WhowasCorrect, PTL

-----------------------------------------------------------------------------
\* A sequence is a prefix of itself, and what is cut off the end leaves one.
LEMMA PrefixOfItself ==
    ASSUME NEW T, NEW s \in Seq(T)
    PROVE  IsPrefixOf(s, s)
BY DEF IsPrefixOf

LEMMA NewestIsPrefix ==
    ASSUME NEW T, NEW s \in Seq(T), NEW n \in Nat
    PROVE  IsPrefixOf(Newest(s, n), s)
<1> DEFINE m == IF Len(s) < n THEN Len(s) ELSE n
<1>1. m \in 0 .. Len(s)
  OBVIOUS
<1>2. Newest(s, n) = SubSeq(s, 1, m)
  BY DEF Newest
<1> HIDE DEF m
<1>3. Len(SubSeq(s, 1, m)) = m
  BY <1>1
<1> QED BY <1>1, <1>2, <1>3 DEF IsPrefixOf

LEMMA ButLastIsPrefix ==
    ASSUME NEW T, NEW s \in Seq(T), NEW t \in Seq(T), s # <<>>, IsPrefixOf(s, t)
    PROVE  IsPrefixOf(DropLast(s), t)
<1> DEFINE m == Len(s) - 1
<1>1. m \in 0 .. Len(s) /\ Len(s) <= Len(t) /\ s = SubSeq(t, 1, Len(s))
  BY DEF IsPrefixOf
<1>2. DropLast(s) = SubSeq(s, 1, m)
  BY DEF DropLast
<1> HIDE DEF m
<1>3. \A i \in 1 .. m : SubSeq(s, 1, m)[i] = s[i] /\ s[i] = t[i]
  BY <1>1
<1>4. SubSeq(s, 1, m) = SubSeq(t, 1, m) /\ Len(SubSeq(s, 1, m)) = m
  BY <1>1, <1>3
<1> QED BY <1>1, <1>2, <1>4 DEF IsPrefixOf

\* What record does to each key: its own gets the entry in front, and every key
\* keeps the newest of what it had.
LEMMA RecordForgets ==
    ASSUME WhInv, NEW n \in Nicks, Record(n)
    PROVE  /\ \A j \in FoldedNicks : j # KeyFor(n) => IsPrefixOf(history'[j], history[j])
           /\ IsPrefixOf(history'[KeyFor(n)], <<n>> \o history[KeyFor(n)])
           /\ Head(order') = KeyFor(n)
           /\ Len(order) < MaxTotal =>
                 history'[KeyFor(n)] # <<>> /\ history'[KeyFor(n)][1] = n
<1> DEFINE k == KeyFor(n)
           before(j) == IF j = k THEN <<n>> \o history[j] ELSE history[j]
           pushed == [history EXCEPT ![k] = Newest(<<n>> \o @, MaxPerNick)]
           keys == <<k>> \o order
           oldest == keys[Len(keys)]
<1>1. /\ k \in FoldedNicks /\ keys \in Seq(FoldedNicks) /\ keys # <<>>
      /\ Len(keys) = Len(order) + 1 /\ Len(order) \in Nat /\ keys[1] = k
  BY DEF KeyFor, FoldedNicks, WhInv
<1>2. \A j \in FoldedNicks : history[j] \in Seq(Nicks) /\ before(j) \in Seq(Nicks)
  BY DEF WhInv
<1>3. \A j \in FoldedNicks :
          /\ pushed[j] \in Seq(Nicks)
          /\ IsPrefixOf(pushed[j], before(j))
          /\ pushed[j] = IF j = k THEN Newest(before(k), MaxPerNick) ELSE history[j]
  <2>1. \A j \in FoldedNicks :
            pushed[j] = IF j = k THEN Newest(before(k), MaxPerNick) ELSE history[j]
    BY DEF WhInv
  <2> HIDE DEF pushed, k
  <2> QED BY <1>1, <1>2, <2>1, NewestIs, NewestIsPrefix, PrefixOfItself, WhowasAssumption, ZenonT(40)
<1>4. pushed[k] # <<>> /\ pushed[k][1] = n
  <2>1. /\ before(k) = <<n>> \o history[k] /\ before(k) \in Seq(Nicks)
        /\ before(k)[1] = n /\ Len(before(k)) >= 1
    BY <1>1, <1>2
  <2> HIDE DEF before
  <2> DEFINE m == IF Len(before(k)) < MaxPerNick THEN Len(before(k)) ELSE MaxPerNick
  <2>2. m \in 1 .. Len(before(k))
    BY <2>1, WhowasAssumption
  <2>3. pushed[k] = SubSeq(before(k), 1, m)
    <3> HIDE DEF pushed, k
    <3> QED BY <1>1, <1>3 DEF Newest
  <2> HIDE DEF pushed, m, k
  <2>4. SubSeq(before(k), 1, m)[1] = before(k)[1] /\ Len(SubSeq(before(k), 1, m)) = m
    BY <2>1, <2>2
  <2> QED BY <2>1, <2>2, <2>3, <2>4
<1>5. DOMAIN pushed = FoldedNicks
  BY DEF WhInv
<1>6. CASE Len(keys) <= MaxTotal
  <2>1. history' = pushed /\ order' = keys
    BY <1>6 DEF Record
  <2>2. Head(order') = k
    BY <1>1, <2>1
  <2> HIDE DEF pushed, keys, k, before
  <2>3. \A j \in FoldedNicks : IsPrefixOf(history'[j], before(j))
    BY <1>3, <2>1
  <2> QED BY <1>1, <1>4, <2>1, <2>2, <2>3 DEF before, k
<1>7. CASE ~(Len(keys) <= MaxTotal)
  <2>1. /\ history' = [pushed EXCEPT ![oldest] = IF @ = <<>> THEN @ ELSE DropLast(@)]
        /\ order' = DropLast(keys)
    BY <1>7 DEF Record
  <2>2. /\ \A j \in FoldedNicks :
               history'[j] = IF j = oldest /\ pushed[j] # <<>> THEN DropLast(pushed[j])
                             ELSE pushed[j]
    <3> HIDE DEF pushed, oldest
    <3> QED BY <1>5, <2>1
  <2> HIDE DEF pushed, k, oldest, before
  <2>3. \A j \in FoldedNicks : IsPrefixOf(history'[j], before(j))
    BY <1>2, <1>3, <2>2, ButLastIsPrefix
  <2>4. Head(order') = k
    <3>1. /\ DropLast(keys) = SubSeq(keys, 1, Len(order)) /\ Len(order) >= 1
          /\ Len(DropLast(keys)) = Len(order)
      BY <1>1, <1>7, WhowasAssumption DEF DropLast
    <3>2. DropLast(keys)[1] = keys[1] /\ Head(DropLast(keys)) = DropLast(keys)[1]
      BY <1>1, <3>1
    <3> QED BY <1>1, <2>1, <3>2
  <2>5. ~(Len(order) < MaxTotal)
    BY <1>1, <1>7, WhowasAssumption
  <2> QED BY <1>1, <2>3, <2>4, <2>5 DEF before, k
<1> QED BY <1>6, <1>7

\* WHOWAS forgets a nickname's entries oldest first, whatever is recorded of it and
\* of others and whichever of the two bounds evicts (Whowas.cpp:10-23).
THEOREM OldestIsForgottenFirst == WhSpec => ForgetsOldestFirst
<1> DEFINE Forgets ==
        \A k \in FoldedNicks :
            \/ IsPrefixOf(history'[k], history[k])
            \/ /\ Head(order') = k
               /\ \E n \in Nicks : IsPrefixOf(history'[k], <<n>> \o history[k])
<1>1. WhInv /\ [WhNext]_whVars => [Forgets]_whVars
  <2> SUFFICES ASSUME WhInv, NEW n \in Nicks, Record(n) PROVE Forgets
    BY DEF WhNext
  <2> QED BY RecordForgets
<1> QED BY <1>1, WhowasCorrect, PTL DEF WhSpec, ForgetsOldestFirst

-----------------------------------------------------------------------------
\* The server as a whole.

\* A nick that is recorded is one: a client that has no nick is not recorded.
LEMMA RecordedNick ==
    ASSUME RegTypeOK, NEW c \in clients, client[c].nick # NoNick
    PROVE  client[c].nick \in Nicks
BY DEF RegTypeOK, Client

\* Every step of the server is a step of the registry.
LEMMA RegistryPart == [GovordNext]_govordVars => [RegNext]_regVars
<1> SUFFICES ASSUME [GovordNext]_govordVars PROVE [RegNext]_regVars
  OBVIOUS
<1>1. CASE UNCHANGED govordVars
  BY <1>1 DEF govordVars
<1>2. ASSUME NEW c \in Cids, HandshakeAction(c)
      PROVE  RegStep(c)
  BY <1>2 DEF HandshakeAction, RegStep
<1>3. ASSUME NEW c \in Cids, NEW n \in Nicks, RenameTo(c, n)
      PROVE  RegStep(c)
  BY <1>3 DEF RenameTo, RegStep
<1>4. ASSUME NEW c \in Cids, TeardownClient(c)
      PROVE  RegStep(c)
  BY <1>4 DEF TeardownClient, RegStep
<1>5. ASSUME NEW c \in Cids, ChannelStep(c)
      PROVE  RegStep(c)
  <2>1. Speaks(c)
    BY <1>5 DEF ChannelStep, JoinChannel, PartChannel, JoinZero, KickNick, InviteNick,
                ChannelMode, ChannelTopic
  <2> QED BY <2>1 DEF Speaks, OtherLine, RegStep
<1> QED BY <1>1, <1>2, <1>3, <1>4, <1>5 DEF GovordNext, RegistryOnly, RegNext

\* Every step of the server is a step of the channels, or leaves them alone.
LEMMA ChannelsPart == RegInv /\ [GovordNext]_govordVars => [ChNext]_chVars
<1> SUFFICES ASSUME RegInv, [GovordNext]_govordVars PROVE [ChNext]_chVars
  OBVIOUS
<1>1. CASE UNCHANGED govordVars
  BY <1>1 DEF govordVars
<1>2. ASSUME NEW c \in Cids, RegistryOnly(HandshakeAction(c)) \/ \E n \in Nicks : RenameTo(c, n)
      PROVE  UNCHANGED chVars
  BY <1>2 DEF RegistryOnly, RenameTo
<1>3. ASSUME NEW c \in Cids, TeardownClient(c)
      PROVE  ChStep(c)
  BY <1>3 DEF TeardownClient, ChStep, OtherStep
<1>4. ASSUME NEW c \in Cids, ChannelStep(c)
      PROVE  ChStep(c)
  <2>1. \A n \in Nicks : Found(n) \in clients => Found(n) \in Cids
    BY DEF RegInv, RegTypeOK
  <2>2. ASSUME NEW name \in ChanNames, NEW key \in ChanKeys \cup {NoChanKey},
               JoinChannel(c, name, key)
        PROVE  ChStep(c)
    <3>1. client[c].nick \in Nicks
      BY <2>2, RecordedNick DEF JoinChannel, Speaks, RunsLine, RegInv, RegisteredIsSettled
    <3>2. MatchedBy[client[c].nick] \in SUBSET Masks
      BY <3>1, GovordAssumption
    <3> QED BY <2>2, <3>2 DEF JoinChannel, ChStep, OtherStep
  <2>3. ASSUME NEW n \in Nicks, NEW k \in FoldedNames, KickNick(c, n, k)
        PROVE  ChStep(c)
    BY <2>1, <2>3 DEF KickNick, ChStep, OtherStep
  <2>4. ASSUME NEW n \in Nicks, NEW k \in FoldedNames, InviteNick(c, n, k)
        PROVE  ChStep(c)
    BY <2>1, <2>4 DEF InviteNick, ChStep, OtherStep
  <2> QED BY <1>4, <2>2, <2>3, <2>4
          DEF ChannelStep, PartChannel, JoinZero, ChannelMode, ChannelTopic, ChStep, OtherStep
<1> QED BY <1>1, <1>2, <1>3, <1>4 DEF GovordNext, ChNext

\* Every step of the server is a step of the WHOWAS store, or leaves it alone.
LEMMA WhowasPart == RegTypeOK /\ [GovordNext]_govordVars => [WhNext]_whVars
<1> SUFFICES ASSUME RegTypeOK, [GovordNext]_govordVars PROVE [WhNext]_whVars
  OBVIOUS
<1>1. ASSUME NEW c \in Cids, RegistryOnly(HandshakeAction(c)) \/ ChannelStep(c)
      PROVE  UNCHANGED whVars
  BY <1>1 DEF RegistryOnly, ChannelStep, JoinChannel, PartChannel, JoinZero, KickNick,
              InviteNick, ChannelMode, ChannelTopic, Speaks
<1>2. ASSUME NEW c \in Cids, NEW n \in Nicks, RenameTo(c, n)
      PROVE  WhNext
  BY <1>2, RecordedNick DEF RenameTo, Rename, RunsLine, WhNext
<1>3. ASSUME NEW c \in Cids, TeardownClient(c)
      PROVE  [WhNext]_whVars
  BY <1>3, RecordedNick DEF TeardownClient, Teardown, WhNext
<1> QED BY <1>1, <1>2, <1>3 DEF GovordNext, govordVars

\* The registry of the server behaves as Registry says.
THEOREM GovordImplementsRegistry == GovordSpec => RegSpec
BY RegistryPart, PTL DEF GovordSpec, GovordInit, RegSpec

\* So the registry invariants hold of the server.
LEMMA GovordRegInv == GovordSpec => []RegInv
BY GovordImplementsRegistry, RegistryCorrect, PTL

\* The channels of the server behave as Channels says.
THEOREM GovordImplementsChannels == GovordSpec => ChSpec
<1>1. RegInv /\ [GovordNext]_govordVars => [ChNext]_chVars
  BY ChannelsPart
<1> QED BY <1>1, GovordRegInv, PTL DEF GovordSpec, GovordInit, ChSpec

LEMMA GovordChInv == GovordSpec => []ChInv
BY GovordImplementsChannels, ChannelsCorrect, PTL

\* The WHOWAS store of the server behaves as Whowas says.
THEOREM GovordImplementsWhowas == GovordSpec => WhSpec
<1>1. RegInv /\ [GovordNext]_govordVars => [WhNext]_whVars
  BY WhowasPart DEF RegInv
<1> QED BY <1>1, GovordRegInv, PTL DEF GovordSpec, GovordInit, WhSpec

-----------------------------------------------------------------------------
Live(c) == c \in clients /\ client[c].registered

\* Registration is for as long as the connection: only a teardown ends it.
LEMMA OnlyTeardownEnds ==
    ASSUME RegInv, NEW c \in Cids, NEW d \in Cids, Live(d),
           \/ RegistryOnly(HandshakeAction(c))
           \/ \E n \in Nicks : RenameTo(c, n)
           \/ ChannelStep(c)
           \/ d # c /\ TeardownClient(c)
    PROVE  Live(d)'
<1>1. client \in [Cids -> Client] /\ clients \subseteq Cids
  BY DEF RegInv, RegTypeOK
<1>2. \A r \in Client : r.registered => TryCompleteRegistration(r).registered
  BY DEF TryCompleteRegistration, ReadyToRegister
<1>3. \A r \in Client : AfterLine(r).registered = r.registered
  BY DEF AfterLine, Client
<1>4. CASE d # c
  <2>1. ASSUME NEW r, LineLeaves(c, r) PROVE client'[d] = client[d]
    BY <1>1, <1>4, <2>1 DEF LineLeaves
  <2>2. CASE HandshakeAction(c)
    BY <1>1, <1>4, <2>1, <2>2 DEF Live, HandshakeAction, Accept, OtherLine, Pass, FirstNick, User,
        CapLs, CapReq, CapEnd, CapClear, Mark, Drop
  <2>3. CASE \E n \in Nicks : RenameTo(c, n)
    BY <1>1, <1>4, <2>1, <2>3 DEF Live, RenameTo, Rename
  <2>4. CASE ChannelStep(c)
    <3>1. Speaks(c)
      BY <2>4 DEF ChannelStep, JoinChannel, PartChannel, JoinZero, KickNick, InviteNick,
                  ChannelMode, ChannelTopic
    <3> QED BY <1>1, <1>4, <2>1, <3>1 DEF Live, Speaks
  <2>5. CASE TeardownClient(c)
    BY <1>1, <1>4, <2>5 DEF Live, TeardownClient, Teardown
  <2> QED BY <2>2, <2>3, <2>4, <2>5 DEF RegistryOnly
<1>5. CASE d = c
  <2> DEFINE r == client[c]
  <2>1. r \in Client /\ r.registered /\ c \in clients
    BY <1>1, <1>5 DEF Live
  <2>2. ASSUME NEW s \in Client, s.registered, LineLeaves(c, s) PROVE client'[c].registered
    BY <1>1, <1>3, <2>2 DEF LineLeaves
  <2>3. CASE HandshakeAction(c)
    <3>1. CASE OtherLine(c)
      BY <1>5, <2>1, <2>2, <3>1 DEF OtherLine, Live
    <3>2. CASE \E n \in Nicks : FirstNick(c, n)
      BY <1>5, <2>1, <3>2 DEF FirstNick, RegInv, RegisteredIsSettled
    <3>3. ASSUME NEW is302 \in BOOLEAN, CapLs(c, is302) PROVE Live(c)'
      <4>1. [r EXCEPT !.cap302 = @ \/ is302, !.capNegotiating = @ \/ ~r.registered] \in Client
        BY <2>1 DEF Client
      <4> QED BY <2>1, <2>2, <3>3, <4>1 DEF CapLs, Live, Client
    <3>4. ASSUME NEW on \in SUBSET Caps, NEW off \in SUBSET (Caps \ on), CapReq(c, on, off)
          PROVE  Live(c)'
      <4>1. [r EXCEPT !.enabledCaps = (@ \ off) \cup on,
                      !.capNegotiating = @ \/ ~r.registered] \in Client
        BY <2>1 DEF Client
      <4> QED BY <2>1, <2>2, <3>4, <4>1 DEF CapReq, Live, Client
    <3>5. ASSUME CapClear(c) PROVE Live(c)'
      <4>1. [r EXCEPT !.enabledCaps = @ \cap Sticky(r)] \in Client
        BY <2>1 DEF Client
      <4> QED BY <2>1, <2>2, <3>5, <4>1 DEF CapClear, Live, Client
    <3>6. ASSUME Mark(c) \/ Drop(c) PROVE Live(c)'
      BY <1>1, <2>1, <3>6 DEF Mark, Drop, Live, Client
    <3> QED BY <1>5, <2>1, <2>3, <3>1, <3>2, <3>3, <3>4, <3>5, <3>6
            DEF HandshakeAction, Accept, Pass, User, CapEnd
  <2>4. ASSUME NEW n \in Nicks, RenameTo(c, n) PROVE Live(c)'
    <3>1. [r EXCEPT !.nick = n] \in Client
      BY <2>1 DEF Client
    <3> QED BY <2>1, <2>2, <2>4, <3>1 DEF RenameTo, Rename, Live, Client
  <2>5. CASE ChannelStep(c)
    <3>1. Speaks(c)
      BY <2>5 DEF ChannelStep, JoinChannel, PartChannel, JoinZero, KickNick, InviteNick,
                  ChannelMode, ChannelTopic
    <3> QED BY <1>5, <2>1, <2>2, <3>1 DEF Live, Speaks
  <2> QED BY <1>5, <2>3, <2>4, <2>5 DEF RegistryOnly
<1> QED BY <1>4, <1>5

-----------------------------------------------------------------------------
\* The invariant with the channels that do not exist, which hold nobody.
HoldsOnlyLive == \A k \in FoldedNames : \A d \in Holds(channel[k]) : Live(d)

LEMMA NoChannelHoldsNobody == Holds(NoChannel) = {}
BY DEF Holds, NoChannel

LEMMA HoldsOnlyLiveIsEnough ==
    ASSUME ChTypeOK
    PROVE  HoldsOnlyLive <=> ChannelsHoldClients
BY NoChannelHoldsNobody DEF ChTypeOK, HoldsOnlyLive, ChannelsHoldClients, Live

\* A departure takes the cid out of every set of the channel and puts none in
\* that was not a member (Server.cpp:612-616, 634-642).
LEMMA DepartedHolds ==
    ASSUME NEW ch, ChannelOK(ch), NEW c \in Cids
    PROVE  Holds(Departed(ch, c)) \subseteq Holds(ch) \ {c}
<1> DEFINE rest == Without(ch, c)
<1>1. ChannelOK(rest) /\ rest.members = ch.members \ {c}
  BY WithoutOK
<1>2. Holds(rest) \subseteq Holds(ch) \ {c}
  BY DEF Holds, Without, ChannelOK, Channel
<1> HIDE DEF rest
<1>3. ASSUME rest.members # {}
      PROVE  Holds(SucceedOpIfNeeded(rest)) \subseteq Holds(rest)
  <2>1. Senior(rest) \in rest.members
    BY <1>1, <1>3, SeniorIsLeast
  <2> QED BY <1>1, <2>1 DEF SucceedOpIfNeeded, Holds, ChannelOK, Channel
<1> QED BY <1>2, <1>3, NoChannelHoldsNobody DEF Departed, rest

LEMMA DepartFromHolds ==
    ASSUME ChInv, NEW c \in Cids, NEW S, DepartFrom(c, S), NEW k \in FoldedNames
    PROVE  /\ Holds(channel'[k]) \subseteq Holds(channel[k])
           /\ k \in S => c \notin Holds(channel'[k])
BY EveryChannelOK, DepartedHolds DEF DepartFrom

\* A channel command lets in no one but the live: the one who joins, and the
\* one who is invited.
LEMMA ChannelStepHolds ==
    ASSUME RegInv, ChInv, NEW c \in Cids, ChannelStep(c), NEW k \in FoldedNames,
           NEW d \in Holds(channel'[k]), d \notin Holds(channel[k])
    PROVE  d \in Cids /\ Live(d)
<1>1. ChannelOK(channel[k]) /\ channel \in [FoldedNames -> Channel]
  BY EveryChannelOK DEF ChInv, ChTypeOK
<1>2. ASSUME NEW name \in ChanNames, NEW key \in ChanKeys \cup {NoChanKey},
             JoinChannel(c, name, key)
      PROVE  d = c /\ Live(c)
  <2>1. Live(c) /\ Join(c, name, key, MatchedBy[client[c].nick])
    BY <1>2 DEF JoinChannel, Speaks, RunsLine, Live
  <2>2. CASE k # FoldName[name]
    BY <1>1, <2>1, <2>2 DEF Join
  <2>3. CASE k = FoldName[name]
    <3> DEFINE ch == GetOrCreate(name)
    <3>1. Holds(ch) \subseteq Holds(channel[k]) /\ ch \in Channel
      BY <1>1, <2>3, NoChannelOK, NoChannelHoldsNobody
         DEF GetOrCreate, Holds, NoChannel, ChannelOK
    <3>2. channel'[k] = Enters(ch, c, k \notin channels)
      BY <1>1, <2>1, <2>3 DEF Join
    <3> HIDE DEF ch
    <3>3. Holds(channel'[k]) \subseteq Holds(ch) \cup {c}
      BY <3>1, <3>2 DEF Enters, Holds, Channel
    <3> QED BY <2>1, <3>1, <3>3
  <2> QED BY <2>2, <2>3
<1>3. ASSUME NEW S, NEW t \in Cids, DepartFrom(t, S)
      PROVE  FALSE
  BY <1>3, DepartFromHolds
<1>4. ASSUME NEW n \in Nicks, NEW j \in FoldedNames, KickNick(c, n, j)
      PROVE  FALSE
  BY <1>3, <1>4 DEF KickNick, Kick, RegInv, RegTypeOK
<1>5. ASSUME NEW n \in Nicks, NEW j \in FoldedNames, InviteNick(c, n, j)
      PROVE  d \in Cids /\ Live(d)
  <2>1. Live(Found(n)) /\ Found(n) \in Cids /\ Invite(c, Found(n), j)
    BY <1>5 DEF InviteNick, Live, RegInv, RegTypeOK
  <2>2. Holds(channel'[k]) \subseteq Holds(channel[k]) \cup {Found(n)}
    BY <1>1, <2>1 DEF Invite, Holds, Channel
  <2> QED BY <2>1, <2>2
<1>6. ASSUME NEW j \in FoldedNames, Mode(c, j)
      PROVE  FALSE
  <2>1. PICK m \in ModeSettings(channel[j]) : channel' = [channel EXCEPT ![j] = SetModes(@, m)]
    BY <1>6 DEF Mode
  <2>2. m.operators \subseteq channel[j].members /\ m.voiced \subseteq channel[j].members
    BY DEF ModeSettings
  <2>3. Holds(SetModes(channel[j], m)) \subseteq Holds(channel[j])
    BY <1>1, <2>2 DEF SetModes, Holds, Channel
  <2> QED BY <1>1, <2>1, <2>3
<1>7. ASSUME NEW j \in FoldedNames, NEW topic \in Topics \cup {NoTopic}, Topic(c, j, topic)
      PROVE  FALSE
  BY <1>1, <1>7 DEF Topic, Holds, Channel
<1> QED BY <1>2, <1>3, <1>4, <1>5, <1>6, <1>7
        DEF ChannelStep, PartChannel, JoinZero, Part, PartAll, ChannelMode, ChannelTopic

LEMMA HoldsOnlyLiveStep ==
    ASSUME RegInv, ChInv, HoldsOnlyLive, [GovordNext]_govordVars
    PROVE  HoldsOnlyLive'
<1>1. \A k \in FoldedNames : Holds(channel[k]) \subseteq Cids
  BY EveryChannelOK DEF ChannelOK, Channel, Holds
<1>2. CASE UNCHANGED govordVars
  BY <1>2 DEF govordVars, regVars, chVars, HoldsOnlyLive, Live, Holds
<1>3. ASSUME NEW c \in Cids, RegistryOnly(HandshakeAction(c)) \/ \E n \in Nicks : RenameTo(c, n)
      PROVE  HoldsOnlyLive'
  <2>1. channel' = channel
    BY <1>3 DEF RegistryOnly, RenameTo, chVars
  <2> QED BY <1>1, <1>3, <2>1, OnlyTeardownEnds DEF HoldsOnlyLive, Holds
<1>4. ASSUME NEW c \in Cids, ChannelStep(c)
      PROVE  HoldsOnlyLive'
  <2> SUFFICES ASSUME NEW k \in FoldedNames, NEW d \in Holds(channel'[k]) PROVE Live(d)'
    BY DEF HoldsOnlyLive, Holds
  <2>1. d \in Cids /\ Live(d)
    BY <1>1, <1>4, ChannelStepHolds DEF HoldsOnlyLive
  <2> QED BY <1>4, <2>1, OnlyTeardownEnds
<1>5. ASSUME NEW c \in Cids, TeardownClient(c)
      PROVE  HoldsOnlyLive'
  <2> SUFFICES ASSUME NEW k \in FoldedNames, NEW d \in Holds(channel'[k]) PROVE Live(d)'
    BY DEF HoldsOnlyLive, Holds
  <2>1. DepartFrom(c, channels)
    BY <1>5 DEF TeardownClient, RemoveFromAll
  <2>2. d \in Holds(channel[k])
    BY <2>1, DepartFromHolds
  <2>3. k \in channels
    BY <2>2, NoChannelHoldsNobody DEF ChInv, ChTypeOK
  <2>4. d # c
    BY <2>1, <2>3, DepartFromHolds
  <2>5. d \in Cids /\ Live(d)
    BY <1>1, <2>2 DEF HoldsOnlyLive
  <2> QED BY <1>5, <2>4, <2>5, OnlyTeardownEnds
<1> QED BY <1>2, <1>3, <1>4, <1>5 DEF GovordNext

\* No role, membership or invitation outlives the connection it was given to,
\* and none is given to a connection that has not registered.
THEOREM ChannelsHoldOnlyClients == GovordSpec => []ChannelsHoldClients
<1>1. GovordInit => HoldsOnlyLive
  BY NoChannelHoldsNobody DEF GovordInit, ChInit, HoldsOnlyLive
<1>2. RegInv /\ ChInv /\ HoldsOnlyLive /\ [GovordNext]_govordVars => HoldsOnlyLive'
  BY HoldsOnlyLiveStep
<1>3. ChInv /\ HoldsOnlyLive => ChannelsHoldClients
  BY HoldsOnlyLiveIsEnough DEF ChInv
<1> QED BY <1>1, <1>2, <1>3, GovordRegInv, GovordChInv, PTL DEF GovordSpec

\* Every member is found in the nick table under the nick it shows.
THEOREM EveryMemberIsFound == GovordSpec => []MembersAreFound
<1>1. RegInv /\ ChInv /\ ChannelsHoldClients => MembersAreFound
  <2> SUFFICES ASSUME RegInv, ChInv, ChannelsHoldClients, NEW k \in channels,
                      NEW c \in channel[k].members
               PROVE  client[c].nick # NoNick /\ Found(client[c].nick) = c
    BY DEF MembersAreFound
  <2>1. c \in clients /\ client[c].registered
    BY DEF ChannelsHoldClients, Holds
  <2>2. client[c].nick # NoNick /\ client[c].nick \in Nicks /\ c \in Cids
    BY <2>1, RecordedNick DEF RegInv, RegTypeOK, RegisteredIsSettled
  <2> QED BY <2>1, <2>2 DEF RegInv, NickTableExact, AnswersTo, Found, FoldedNicks
<1> QED BY <1>1, GovordRegInv, GovordChInv, ChannelsHoldOnlyClients, PTL

-----------------------------------------------------------------------------
\* Of the steps that change one table at a time, and of the channel commands,
\* none changes the nick of a client that has one.
LEMMA NicksStay ==
    ASSUME RegTypeOK, NEW c \in Cids, HandshakeAction(c) \/ ChannelStep(c), NEW d \in clients,
           client[d].nick \in Nicks
    PROVE  client'[d].nick = client[d].nick
<1>1. client \in [Cids -> Client] /\ d \in Cids
  BY DEF RegTypeOK
<1>2. \A r \in Client : AfterLine(r).nick = r.nick /\ TryCompleteRegistration(r).nick = r.nick
  BY DEF AfterLine, TryCompleteRegistration, Client
<1>3. CASE d # c
  BY <1>1, <1>3
     DEF HandshakeAction, Accept, OtherLine, Pass, FirstNick, User, CapLs, CapReq, CapEnd,
         CapClear, Mark, Drop, LineLeaves, ChannelStep, JoinChannel, PartChannel, JoinZero,
         KickNick, InviteNick, ChannelMode, ChannelTopic, Speaks
<1>4. CASE d = c
  <2>1. ASSUME NEW r \in Client, r.nick = client[c].nick, LineLeaves(c, r)
        PROVE  client'[c].nick = client[c].nick
    BY <1>1, <1>2, <2>1 DEF LineLeaves
  <2>2. client[c] \in Client
    BY <1>1, <1>4
  <2>3. ~Accept(c) /\ \A n \in Nicks : ~FirstNick(c, n)
    BY <1>4, IdsAssumption DEF Accept, FirstNick
  <2>4. CASE OtherLine(c) \/ ChannelStep(c)
    <3>1. LineLeaves(c, client[c])
      BY <2>4 DEF OtherLine, ChannelStep, JoinChannel, PartChannel, JoinZero, KickNick,
                  InviteNick, ChannelMode, ChannelTopic, Speaks
    <3> QED BY <1>4, <2>1, <2>2, <3>1
  <2>5. CASE \E p \in Passwords \cup {NoPass} : Pass(c, p)
    <3>1. PICK p \in Passwords \cup {NoPass} : Pass(c, p)
      BY <2>5
    <3>2. [client[c] EXCEPT !.pass = p] \in Client /\ [client[c] EXCEPT !.pass = p].nick = client[c].nick
      BY <2>2 DEF Client
    <3> QED BY <1>4, <2>1, <3>1, <3>2 DEF Pass
  <2>6. CASE User(c) \/ CapEnd(c)
    <3> DEFINE u == [client[c] EXCEPT !.user = TRUE]
               e == [client[c] EXCEPT !.capNegotiating = FALSE]
    <3>1. u \in Client /\ u.nick = client[c].nick /\ e \in Client /\ e.nick = client[c].nick
      BY <2>2 DEF Client
    <3>2. \A r \in Client : TryCompleteRegistration(r) \in Client
      BY ZenonT(40) DEF TryCompleteRegistration, Client, CloseState
    <3>3. LineLeaves(c, TryCompleteRegistration(u)) \/ LineLeaves(c, TryCompleteRegistration(e))
      BY <2>6 DEF User, CapEnd
    <3> HIDE DEF u, e
    <3> QED BY <1>2, <1>4, <2>1, <3>1, <3>2, <3>3
  <2>7. CASE (\E is302 \in BOOLEAN : CapLs(c, is302))
             \/ (\E on \in SUBSET Caps : \E off \in SUBSET (Caps \ on) : CapReq(c, on, off))
             \/ CapClear(c)
    <3>1. \E r \in Client : r.nick = client[c].nick /\ LineLeaves(c, r)
      <4>1. CASE \E is302 \in BOOLEAN : CapLs(c, is302)
        <5>1. PICK is302 \in BOOLEAN : CapLs(c, is302)
          BY <4>1
        <5> DEFINE r == [client[c] EXCEPT !.cap302 = @ \/ is302,
                                          !.capNegotiating = @ \/ ~client[c].registered]
        <5>2. r \in Client /\ r.nick = client[c].nick
          BY <2>2, Zenon DEF Client
        <5> QED BY <5>1, <5>2 DEF CapLs
      <4>2. CASE \E on \in SUBSET Caps : \E off \in SUBSET (Caps \ on) : CapReq(c, on, off)
        <5>1. PICK on \in SUBSET Caps, off \in SUBSET Caps : CapReq(c, on, off)
          BY <4>2
        <5> DEFINE r == [client[c] EXCEPT !.enabledCaps = (@ \ off) \cup on,
                                          !.capNegotiating = @ \/ ~client[c].registered]
        <5>2. r \in Client /\ r.nick = client[c].nick
          BY <2>2 DEF Client
        <5> QED BY <5>1, <5>2 DEF CapReq
      <4>3. CASE CapClear(c)
        <5> DEFINE r == [client[c] EXCEPT !.enabledCaps = @ \cap Sticky(client[c])]
        <5>1. r \in Client /\ r.nick = client[c].nick
          BY <2>2 DEF Client
        <5> QED BY <4>3, <5>1 DEF CapClear
      <4> QED BY <2>7, <4>1, <4>2, <4>3
    <3> QED BY <1>4, <2>1, <3>1
  <2>8. CASE Mark(c) \/ Drop(c)
    BY <1>1, <1>4, <2>2, <2>8 DEF Mark, Drop, Client
  <2> QED BY <2>3, <2>4, <2>5, <2>6, <2>7, <2>8 DEF HandshakeAction
<1> QED BY <1>3, <1>4

\* A step that gives up exactly the nick m, and records it.
LEMMA GivingUp ==
    ASSUME WhInv, NEW m \in Nicks, Record(m), NEW k \in FoldedNicks,
           GivenUp(k) = IF Fold[m] = k THEN {m} ELSE {}
    PROVE  IF GivenUp(k) = {} THEN IsPrefixOf(history'[k], history[k])
           ELSE Len(order) < MaxTotal =>
                    history'[k] # <<>> /\ history'[k][1] \in GivenUp(k)
<1> HIDE DEF GivenUp
<1> QED BY RecordForgets DEF KeyFor

\* A nick that is given up, by whatever command or loss, is what WHOWAS lists first
\* (unless the store is full: then the new entry may be the one that goes), and
\* nothing is listed that was not given up (m_nick.cpp:38, Server.cpp:395).
THEOREM EveryNickGivenUpIsRecorded == GovordSpec => GivenUpIsRecorded
<1> DEFINE Recorded(k) ==
        IF GivenUp(k) = {} THEN IsPrefixOf(history'[k], history[k])
        ELSE Len(order) < MaxTotal => history'[k] # <<>> /\ history'[k][1] \in GivenUp(k)
<1>1. ASSUME RegInv, WhInv, GovordNext, NEW k \in FoldedNicks
      PROVE  Recorded(k)
  <2>1. /\ RegTypeOK /\ client \in [Cids -> Client] /\ clients \subseteq Cids
        /\ history[k] \in Seq(Nicks)
    BY <1>1 DEF RegInv, RegTypeOK, WhInv
  <2>2. ASSUME GivenUp(k) = {}, UNCHANGED whVars
        PROVE  Recorded(k)
    <3>1. history'[k] = history[k]
      BY <2>2 DEF whVars
    <3> HIDE DEF GivenUp
    <3> QED BY <2>1, <2>2, <3>1, PrefixOfItself
  <2>3. ASSUME NEW c \in Cids, RegistryOnly(HandshakeAction(c)) \/ ChannelStep(c)
        PROVE  Recorded(k)
    <3>1. UNCHANGED whVars
      BY <2>3 DEF RegistryOnly, ChannelStep, JoinChannel, PartChannel, JoinZero, KickNick,
                  InviteNick, ChannelMode, ChannelTopic, Speaks
    <3>2. HandshakeAction(c) \/ ChannelStep(c)
      BY <2>3 DEF RegistryOnly
    <3>3. GivenUp(k) = {}
      BY <2>1, <3>2, NicksStay DEF GivenUp
    <3> QED BY <2>2, <3>1, <3>3
  <2>4. ASSUME NEW c \in Cids, NEW n \in Nicks, RenameTo(c, n)
        PROVE  Recorded(k)
    <3> DEFINE old == client[c].nick
    <3>1. /\ c \in clients /\ old # NoNick /\ old # n /\ Record(old)
          /\ LineLeaves(c, [client[c] EXCEPT !.nick = n])
      BY <2>4 DEF RenameTo, Rename, RunsLine
    <3>2. old \in Nicks
      BY <2>1, <3>1, RecordedNick
    <3>3. client'[c].nick = n /\ \A d \in Cids \ {c} : client'[d] = client[d]
      BY <2>1, <3>1 DEF LineLeaves, AfterLine, Client
    <3>4. GivenUp(k) = IF Fold[old] = k THEN {old} ELSE {}
      BY <2>1, <3>1, <3>2, <3>3 DEF GivenUp
    <3> HIDE DEF old
    <3> QED BY <1>1, <3>1, <3>2, <3>4, GivingUp
  <2>5. ASSUME NEW c \in Cids, TeardownClient(c)
        PROVE  Recorded(k)
    <3> DEFINE old == client[c].nick
    <3>1. /\ c \in clients /\ client' = [client EXCEPT ![c] = NewClient]
          /\ IF old = NoNick THEN UNCHANGED whVars ELSE Record(old)
      BY <2>5 DEF TeardownClient, Teardown
    <3>2. client'[c].nick = NoNick /\ \A d \in Cids \ {c} : client'[d] = client[d]
      BY <2>1, <3>1 DEF NewClient
    <3>3. CASE old = NoNick
      <4>1. GivenUp(k) = {}
        BY <2>1, <3>2, <3>3, IdsAssumption DEF GivenUp
      <4> QED BY <2>2, <3>1, <3>3, <4>1
    <3>4. CASE old # NoNick
      <4>1. old \in Nicks
        BY <2>1, <3>1, <3>4, RecordedNick
      <4>2. GivenUp(k) = IF Fold[old] = k THEN {old} ELSE {}
        BY <2>1, <3>1, <3>2, <4>1, IdsAssumption DEF GivenUp
      <4> HIDE DEF old
      <4> QED BY <1>1, <3>1, <3>4, <4>1, <4>2, GivingUp
    <3> QED BY <3>3, <3>4
  <2> HIDE DEF Recorded
  <2> QED BY <1>1, <2>3, <2>4, <2>5 DEF GovordNext
<1>2. RegInv /\ WhInv /\ [GovordNext]_govordVars => [\A k \in FoldedNicks : Recorded(k)]_govordVars
  <2> HIDE DEF Recorded
  <2> QED BY <1>1
<1>3. GovordSpec => []WhInv
  BY GovordImplementsWhowas, WhowasCorrect, PTL
<1> QED BY <1>2, <1>3, GovordRegInv, PTL DEF GovordSpec, GivenUpIsRecorded

-----------------------------------------------------------------------------
\* Views only watches: what it adds to Govord are the lines that tell of each step,
\* so that what holds of Govord holds under it too.  The invariant is MissNobody: a
\* member that still hears has every member that still speaks in view, with its role.
\* It is inductive given that members are live and that live clients have different
\* nicks (Served), by which nicks can stand for clients in a view.  One lemma per
\* handler shows that its lines keep it.

\* Every step with the lines it sends is a step of the server, or a query.
LEMMA ViewsPart == [ViewsNext]_viewsVars => [GovordNext]_govordVars
<1> SUFFICES ASSUME [ViewsNext]_viewsVars PROVE [GovordNext]_govordVars
  OBVIOUS
<1>1. CASE UNCHANGED viewsVars
  BY <1>1 DEF viewsVars
<1>2. ASSUME NEW c \in Cids, ViewsStep(c)
      PROVE  [GovordNext]_govordVars
  <2>1. CASE Silent(c)
    BY <2>1 DEF Silent, GovordNext, ChannelStep
  <2>2. CASE \E n \in Nicks : RenameTo(c, n)
    BY <2>2 DEF GovordNext
  <2>3. CASE TeardownClient(c)
    BY <2>3 DEF GovordNext
  <2>4. CASE Quit(c)
    BY <2>4 DEF Quit, GovordNext, HandshakeAction, RegistryOnly
  <2>5. CASE \E name \in ChanNames, key \in ChanKeys \cup {NoChanKey} : JoinChannel(c, name, key)
    BY <2>5 DEF GovordNext, ChannelStep
  <2>6. CASE \E k \in FoldedNames : PartChannel(c, k)
    BY <2>6 DEF GovordNext, ChannelStep
  <2>7. CASE Join0(c)
    BY <2>7 DEF Join0, GovordNext, ChannelStep
  <2>8. CASE \E n \in Nicks, k \in FoldedNames : KickTold(c, n, k)
    BY <2>8 DEF KickTold, GovordNext, ChannelStep
  <2>9. CASE \E k \in FoldedNames : ChannelMode(c, k)
    BY <2>9 DEF GovordNext, ChannelStep
  <2>10. CASE \E k \in FoldedNames : NamesOf(c, k)
    <3>1. Speaks(c) /\ UNCHANGED chVars
      BY <2>10 DEF NamesOf
    <3> QED BY <3>1 DEF Speaks, OtherLine, GovordNext, HandshakeAction, RegistryOnly
  <2> QED BY <1>2, <2>1, <2>2, <2>3, <2>4, <2>5, <2>6, <2>7, <2>8, <2>9, <2>10 DEF ViewsStep
<1> QED BY <1>1, <1>2 DEF ViewsNext

\* The server that tells of its steps behaves as Govord says.
THEOREM ViewsImplementGovord == ViewsSpec => GovordSpec
BY ViewsPart, PTL DEF ViewsSpec, ViewsInit, GovordSpec

-----------------------------------------------------------------------------
ViewRecord == {v \in [here : SUBSET Nicks, ops : SUBSET Nicks] : v.ops \subseteq v.here}

ViewTypes == view \in [Cids -> [FoldedNames -> ViewRecord]]

\* What v shows of c, a member of the channel k, is so.
Shows(v, c, k) ==
    /\ client[c].nick \in v.here
    /\ client[c].nick \in v.ops <=> c \in channel[k].operators

\* ViewsMissNobody, of the channels that do not exist as well.
MissNobody ==
    \A k \in FoldedNames : \A d, c \in channel[k].members :
        Gets(d) /\ RunsLine(c) => Shows(view[d][k], c, k)

\* What Govord contributes, and the views.
ViewsInv == ViewTypes /\ MissNobody

Served == RegInv /\ ChInv /\ HoldsOnlyLive

\* Live clients have nicks, and different ones.
LEMMA NamesDiffer ==
    ASSUME RegInv, NEW c \in Cids, NEW d \in Cids, Live(c), Live(d)
    PROVE  /\ client[c].nick \in Nicks
           /\ client[c].nick = client[d].nick => c = d
<1>1. client[c].nick \in Nicks /\ client[d].nick \in Nicks
  BY RecordedNick DEF RegInv, RegTypeOK, RegisteredIsSettled, Live
<1>2. client[c].nick # NoNick /\ client[d].nick # NoNick
  BY DEF RegInv, RegisteredIsSettled, Live
<1>3. Fold[client[c].nick] \in FoldedNicks
  BY <1>1 DEF FoldedNicks
<1>4. nicks[Fold[client[c].nick]] = c
  BY <1>2, <1>3 DEF RegInv, NickTableExact, AnswersTo, Live
<1>5. client[c].nick = client[d].nick => nicks[Fold[client[c].nick]] = d
  BY <1>2, <1>3 DEF RegInv, NickTableExact, AnswersTo, Live
<1> QED BY <1>1, <1>4, <1>5

\* So the nicks of a set stand for its clients.
LEMMA InNicksOf ==
    ASSUME RegInv, NEW c \in Cids, Live(c), NEW X \in SUBSET Cids, \A d \in X : Live(d)
    PROVE  client[c].nick \in NicksOf(X) <=> c \in X
BY NamesDiffer DEF NicksOf

LEMMA NicksOfAreNicks ==
    ASSUME RegInv, NEW X \in SUBSET Cids, \A d \in X : Live(d)
    PROVE  NicksOf(X) \subseteq Nicks
BY NamesDiffer DEF NicksOf

\* Members are live, and operators are members.
LEMMA MembersAreLive ==
    ASSUME Served, NEW k \in FoldedNames
    PROVE  /\ channel[k].members \in SUBSET Cids
           /\ channel[k].operators \subseteq channel[k].members
           /\ \A c \in channel[k].members : Live(c)
BY EveryChannelOK DEF Served, HoldsOnlyLive, Holds, ChannelOK, Channel, RolesOK

\* What a reader makes of a line is a view again.
LEMMA SawTypes ==
    ASSUME NEW v \in ViewRecord, NEW n \in Nicks, NEW m \in Nicks, NEW plus, NEW minus
    PROVE  /\ SawJoin(v, n) \in ViewRecord
           /\ SawLeave(v, n) \in ViewRecord
           /\ SawRename(v, m, n) \in ViewRecord
           /\ SawMode(v, plus, minus) \in ViewRecord
           /\ SawMode(v, plus, minus).here = v.here
           /\ SawMode(v, plus, minus).ops = ((v.ops \ minus) \cup plus) \cap v.here
<1>1. SawJoin(v, n) \in ViewRecord
  BY DEF SawJoin, ViewRecord
<1>2. SawLeave(v, n) \in ViewRecord
  BY DEF SawLeave, ViewRecord
<1>3. SawRename(v, m, n) \in ViewRecord
  BY DEF SawRename, ViewRecord
<1>4. SawMode(v, plus, minus) \in ViewRecord
  BY DEF SawMode, ViewRecord
<1>5. /\ SawMode(v, plus, minus).here = v.here
      /\ SawMode(v, plus, minus).ops = ((v.ops \ minus) \cup plus) \cap v.here
  BY DEF SawMode, ViewRecord
<1> QED BY <1>1, <1>2, <1>3, <1>4, <1>5

-----------------------------------------------------------------------------
\* No step reopens a client, gives a client its lines back, or changes a nick but
\* by renaming its owner.
Calm(c) == (Gets(c)' => Gets(c)) /\ (RunsLine(c)' => RunsLine(c)) /\ client'[c].nick = client[c].nick

LEMMA LineIsCalm ==
    ASSUME RegInv, NEW c \in Cids, Live(c), RunsLine(c), NEW r \in Client,
           LineLeaves(c, r), r.close = client[c].close
    PROVE  (Gets(c)' => Gets(c)) /\ client'[c].nick = r.nick
<1>1. AfterLine(r).nick = r.nick /\ (AfterLine(r).close = "open" => r.close = "open")
  BY DEF AfterLine, Client
<1>2. client'[c] = AfterLine(r)
  BY DEF LineLeaves, RegInv, RegTypeOK
<1> QED BY <1>1, <1>2 DEF Gets

\* So for everybody but the actor of a step.
LEMMA OthersAreCalm ==
    ASSUME RegInv, NEW e \in Cids, NEW c \in Cids, Live(c), c # e,
           HandshakeAction(e) \/ Speaks(e) \/ (\E n \in Nicks : Rename(e, n)) \/ Teardown(e)
    PROVE  Calm(c)
<1>1. client \in [Cids -> Client] /\ c \in clients
  BY DEF RegInv, RegTypeOK, Live
<1>2. ASSUME NEW r, LineLeaves(e, r) PROVE client'[c] = client[c]
  BY <1>1, <1>2 DEF LineLeaves
<1>3. client'[c] = client[c]
  BY <1>1, <1>2 DEF HandshakeAction, Speaks, Rename, Teardown, Accept, OtherLine, Pass, FirstNick,
     User, CapLs, CapReq, CapEnd, CapClear, Mark, Drop
<1> QED BY <1>1, <1>3 DEF Calm, Gets, RunsLine

\* And for the actor itself, unless it renames itself or goes.
LEMMA ActorIsCalm ==
    ASSUME RegInv, NEW e \in Cids, Live(e), HandshakeAction(e) \/ Speaks(e)
    PROVE  Calm(e)
<1> DEFINE r == client[e]
<1>1. r \in Client /\ r.registered /\ r.nick # NoNick /\ e \in clients
  BY DEF RegInv, RegTypeOK, RegisteredIsSettled, Live
<1>2. ASSUME NEW s \in Client, RunsLine(e), LineLeaves(e, s), s.close = r.close, s.nick = r.nick
      PROVE  Calm(e)
  BY <1>2, LineIsCalm DEF Calm
<1>3. CASE OtherLine(e) \/ Speaks(e)
  BY <1>1, <1>2, <1>3 DEF OtherLine, Speaks
<1>4. ASSUME NEW is302 \in BOOLEAN, CapLs(e, is302)
      PROVE  Calm(e)
  <2> DEFINE s == [r EXCEPT !.cap302 = @ \/ is302, !.capNegotiating = @ \/ ~r.registered]
  <2>1. s \in Client /\ s.close = r.close /\ s.nick = r.nick
    BY <1>1 DEF Client
  <2>2. RunsLine(e) /\ LineLeaves(e, s)
    BY <1>4 DEF CapLs
  <2> HIDE DEF s
  <2> QED BY <1>2, <2>1, <2>2
<1>5. ASSUME NEW on \in SUBSET Caps, NEW off \in SUBSET (Caps \ on), CapReq(e, on, off)
      PROVE  Calm(e)
  <2> DEFINE s == [r EXCEPT !.enabledCaps = (@ \ off) \cup on, !.capNegotiating = @ \/ ~r.registered]
  <2>1. s \in Client /\ s.close = r.close /\ s.nick = r.nick
    BY <1>1 DEF Client
  <2>2. RunsLine(e) /\ LineLeaves(e, s)
    BY <1>5 DEF CapReq
  <2> HIDE DEF s
  <2> QED BY <1>2, <2>1, <2>2
<1>6. CASE CapClear(e)
  <2> DEFINE s == [r EXCEPT !.enabledCaps = @ \cap Sticky(r)]
  <2>1. s \in Client /\ s.close = r.close /\ s.nick = r.nick
    BY <1>1 DEF Client
  <2>2. RunsLine(e) /\ LineLeaves(e, s)
    BY <1>6 DEF CapClear
  <2> HIDE DEF s
  <2> QED BY <1>2, <2>1, <2>2
<1>7. CASE Mark(e) \/ Drop(e)
  <2>1. client \in [Cids -> Client]
    BY DEF RegInv, RegTypeOK
  <2>2. client'[e].nick = r.nick /\ client'[e].close # "open" /\ RunsLine(e)
    BY <1>1, <1>7, <2>1 DEF Mark, Drop, RunsLine, Client
  <2> QED BY <2>2 DEF Calm, Gets
<1> QED BY <1>1, <1>3, <1>4, <1>5, <1>6, <1>7
        DEF HandshakeAction, Accept, Pass, FirstNick, User, CapEnd

LEMMA LinesAreCalm ==
    ASSUME RegInv, NEW e \in Cids, HandshakeAction(e) \/ Speaks(e), NEW c \in Cids, Live(c)
    PROVE  Calm(c)
BY OthersAreCalm, ActorIsCalm

-----------------------------------------------------------------------------
\* c is shown to d as it is after the step.
ShownNext(k, d, c) ==
    /\ client'[c].nick \in view'[d][k].here
    /\ client'[c].nick \in view'[d][k].ops <=> c \in channel'[k].operators

\* What a step has to show for the next state: the members of k after it, of
\* which d still hears and c still speaks.
LEMMA ViewsNextInv ==
    ASSUME ViewTypes',
           \A k \in FoldedNames : \A d, c \in channel'[k].members :
               Gets(d)' /\ RunsLine(c)' => ShownNext(k, d, c)
    PROVE  ViewsInv'
BY DEF ViewsInv, MissNobody, Shows, ShownNext

\* What the views showed of them before.
LEMMA ShownBefore ==
    ASSUME Served, ViewsInv, NEW k \in FoldedNames,
           NEW d \in channel[k].members, NEW c \in channel[k].members,
           Calm(d), Calm(c), Gets(d)', RunsLine(c)'
    PROVE  /\ Shows(view[d][k], c, k)
           /\ client'[c].nick = client[c].nick
           /\ Hears(d, k)
           /\ view[d][k] \in ViewRecord
           /\ d \in Cids /\ c \in Cids
           /\ Live(c) /\ Live(d)
<1>1. d \in Cids /\ c \in Cids /\ Live(c) /\ Live(d)
  BY MembersAreLive
<1>2. Gets(d) /\ RunsLine(c) /\ client'[c].nick = client[c].nick
  BY DEF Calm
<1>3. Shows(view[d][k], c, k)
  BY <1>2 DEF ViewsInv, MissNobody
<1>4. view[d][k] \in ViewRecord
  BY <1>1 DEF ViewsInv, ViewTypes
<1> QED BY <1>1, <1>2, <1>3, <1>4 DEF Hears

SameRoster(k) ==
    /\ channel'[k].members = channel[k].members
    /\ channel'[k].operators = channel[k].operators

\* A step of the handshake, and an INVITE or a TOPIC, are not told.
LEMMA SilentShows ==
    ASSUME Served, ViewsInv, NEW e \in Cids, Silent(e), UNCHANGED view
    PROVE  ViewsInv'
<1>1. HandshakeAction(e) \/ Speaks(e)
  BY DEF Silent, RegistryOnly, InviteNick, ChannelTopic
<1>2. \A k \in FoldedNames : SameRoster(k)
  <2>1. channel \in [FoldedNames -> Channel]
    BY DEF Served, ChInv, ChTypeOK
  <2>2. CASE UNCHANGED channel
    BY <2>2 DEF SameRoster
  <2>3. ASSUME NEW t, NEW j \in FoldedNames, Invite(e, t, j)
        PROVE  \A k \in FoldedNames : SameRoster(k)
    BY <2>1, <2>3 DEF Invite, Channel, SameRoster
  <2>4. ASSUME NEW t, NEW j \in FoldedNames, Topic(e, j, t)
        PROVE  \A k \in FoldedNames : SameRoster(k)
    BY <2>1, <2>4 DEF Topic, Channel, SameRoster
  <2> QED BY <2>2, <2>3, <2>4 DEF Silent, RegistryOnly, InviteNick, ChannelTopic, chVars
<1>3. ASSUME NEW k \in FoldedNames, NEW d \in channel'[k].members, NEW c \in channel'[k].members,
             Gets(d)', RunsLine(c)'
      PROVE  ShownNext(k, d, c)
  <2>1. d \in channel[k].members /\ c \in channel[k].members
    BY <1>2 DEF SameRoster
  <2>2. d \in Cids /\ c \in Cids /\ Live(d) /\ Live(c)
    BY <2>1, MembersAreLive
  <2>3. Calm(d) /\ Calm(c)
    BY <1>1, <2>2, LinesAreCalm DEF Served
  <2> QED BY <1>2, <1>3, <2>1, <2>3, ShownBefore DEF Shows, ShownNext, SameRoster
<1> QED BY <1>3, ViewsNextInv DEF ViewsInv, ViewTypes

\* QUIT: the leaver is out of the views at once, and speaks no more.
LEMMA QuitShows ==
    ASSUME Served, ViewsInv, NEW e \in Cids, Quit(e)
    PROVE  ViewsInv'
<1>1. Drop(e) /\ UNCHANGED channel /\ client[e].registered /\ TellQuit(e)
  BY DEF Quit, RegistryOnly, chVars
<1>2. ~RunsLine(e)' /\ Live(e)
  BY <1>1 DEF Drop, RunsLine, Live, Served, RegInv, RegTypeOK
<1>3. client[e].nick \in Nicks
  BY <1>2, NamesDiffer DEF Served
<1>4. ViewTypes'
  BY <1>1, <1>3, SawTypes DEF TellQuit, ViewsInv, ViewTypes
<1>5. ASSUME NEW k \in FoldedNames, NEW d \in channel'[k].members, NEW c \in channel'[k].members,
             Gets(d)', RunsLine(c)'
      PROVE  ShownNext(k, d, c)
  <2>1. d \in channel[k].members /\ c \in channel[k].members
    BY <1>1
  <2>2. d \in Cids /\ c \in Cids /\ Live(d) /\ Live(c)
    BY <2>1, MembersAreLive
  <2>3. Calm(d) /\ Calm(c)
    BY <1>1, <2>2, LinesAreCalm DEF Served, HandshakeAction
  <2>4. Shows(view[d][k], c, k) /\ client'[c].nick = client[c].nick /\ view[d][k] \in ViewRecord
    BY <1>5, <2>1, <2>3, ShownBefore
  <2>5. client[c].nick # client[e].nick
    BY <1>2, <1>5, <2>2, NamesDiffer DEF Served
  <2>6. \/ view'[d][k] = view[d][k]
        \/ view'[d][k] = SawLeave(view[d][k], client[e].nick)
    BY <1>1, <2>2 DEF TellQuit
  <2> QED BY <1>1, <2>4, <2>5, <2>6 DEF Shows, ShownNext, SawLeave
<1> QED BY <1>4, <1>5, ViewsNextInv

-----------------------------------------------------------------------------
\* A departure leaves the other members in, with their roles.
LEMMA DepartRoles ==
    ASSUME Served, NEW e \in Cids, NEW S \in SUBSET channels, DepartFrom(e, S), NEW k \in FoldedNames
    PROVE  /\ channel'[k].members \subseteq channel[k].members
           /\ channel'[k].operators \subseteq channel'[k].members
           /\ k \in S => e \notin channel'[k].members
           /\ \A c \in channel'[k].members :
                 c # e /\ c \in channel[k].operators => c \in channel'[k].operators
           /\ k \notin S \/ e \notin channel[k].members => channel'[k].operators = channel[k].operators
<1> DEFINE ch == channel[k]
           rest == Without(ch, e)
<1>1. ChannelOK(ch) /\ ChInv
  BY EveryChannelOK DEF Served
<1>2. ch \in Channel /\ ch.operators \subseteq ch.members
  BY <1>1 DEF ChannelOK, RolesOK
<1>3. CASE k \notin S
  <2>1. channel'[k] = ch
    BY <1>3 DEF DepartFrom
  <2> QED BY <1>2, <1>3, <2>1
<1>4. CASE k \in S
  <2>1. channel'[k] = Departed(ch, e) /\ ch.members # {}
    BY <1>1, <1>4 DEF DepartFrom, ChInv, ChannelTablesAgree
  <2>2. /\ ChannelOK(rest)
        /\ rest.members = ch.members \ {e}
        /\ rest.operators = ch.operators \ {e}
    BY <1>1, WithoutOK
  <2>3. CASE rest.members = {}
    <3>1. channel'[k] = NoChannel
      BY <2>1, <2>3 DEF Departed
    <3>2. NoChannel.members = {} /\ NoChannel.operators = {} /\ e \in ch.members
      BY <2>1, <2>2, <2>3 DEF NoChannel
    <3> HIDE DEF ch, rest
    <3> QED BY <1>4, <3>1, <3>2 DEF ch
  <2>4. CASE rest.members # {} /\ e \in ch.members
    <3>1. channel'[k] = SucceedOpIfNeeded(rest)
      BY <2>1, <2>4 DEF Departed
    <3>2. /\ channel'[k].members = rest.members
          /\ rest.operators # {} => channel'[k].operators = rest.operators
          /\ ChannelOK(channel'[k])
      BY <2>2, <3>1, SuccessionOK
    <3>3. channel'[k].operators \subseteq channel'[k].members
      BY <3>2 DEF ChannelOK, RolesOK
    <3> HIDE DEF rest
    <3> QED BY <1>4, <2>2, <2>4, <3>2, <3>3
  <2>5. CASE rest.members # {} /\ e \notin ch.members
    <3>1. channel'[k] = rest
      BY <2>1, <2>5 DEF Departed
    <3> HIDE DEF rest
    <3> QED BY <1>2, <2>2, <2>5, <3>1
  <2> QED BY <2>3, <2>4, <2>5
<1> QED BY <1>3, <1>4

\* What the lines of a departure show of somebody who stays: the MODE names the
\* successor, and nobody else is named.
LEMMA SuccessorShows ==
    ASSUME Served, NEW e \in Cids, NEW S \in SUBSET channels, DepartFrom(e, S), NEW k \in FoldedNames,
           NEW c \in channel'[k].members, c # e, NEW v \in ViewRecord,
           client[c].nick \in v.here,
           client[c].nick \in v.ops <=> c \in channel[k].operators
    PROVE  LET w == SawMode(v, NewOps(k), {}) IN
           /\ client[c].nick \in w.here
           /\ client[c].nick \in w.ops <=> c \in channel'[k].operators
<1> DEFINE new == channel'[k].operators \ channel[k].operators
<1>1. /\ c \in channel[k].members
      /\ channel'[k].operators \subseteq channel[k].members
      /\ c \in channel[k].operators => c \in channel'[k].operators
  BY DepartRoles
<1>2. c \in Cids /\ Live(c) /\ new \in SUBSET Cids /\ \A d \in new : Live(d)
  BY <1>1, MembersAreLive
<1>3. client[c].nick \in NewOps(k) <=> c \in new
  BY <1>2, InNicksOf DEF NewOps, Served
<1>4. SawMode(v, NewOps(k), {}).here = v.here
  BY DEF SawMode, ViewRecord
<1>5. SawMode(v, NewOps(k), {}).ops = (v.ops \cup NewOps(k)) \cap v.here
  BY DEF SawMode, ViewRecord
<1> QED BY <1>1, <1>3, <1>4, <1>5

\* PART, JOIN 0 and KICK.
LEMMA LeaveShows ==
    ASSUME Served, ViewsInv, NEW e \in Cids, Live(e), NEW S \in SUBSET channels,
           DepartFrom(e, S), TellLeave(e, S), NEW a \in Cids, Speaks(a)
    PROVE  ViewsInv'
<1>1. client[e].nick \in Nicks
  BY NamesDiffer DEF Served
<1>2. Blank \in ViewRecord
  BY DEF Blank, ViewRecord
<1>3. \A d \in Cids, k \in FoldedNames :
         LET v == view[d][k] IN
         view'[d][k] = IF k \notin S \/ ~Hears(d, k) THEN v
                       ELSE IF d = e THEN Blank
                       ELSE SawMode(SawLeave(v, client[e].nick), NewOps(k), {})
  BY DEF TellLeave
<1>4. ViewTypes'
  <2>1. ASSUME NEW d \in Cids, NEW k \in FoldedNames
        PROVE  view'[d][k] \in ViewRecord
    <3>1. view[d][k] \in ViewRecord
      BY DEF ViewsInv, ViewTypes
    <3>2. SawLeave(view[d][k], client[e].nick) \in ViewRecord
      BY <3>1, <1>1, SawTypes
    <3>3. SawMode(SawLeave(view[d][k], client[e].nick), NewOps(k), {}) \in ViewRecord
      BY <3>2, <1>1, SawTypes
    <3> QED BY <1>2, <1>3, <3>1, <3>3
  <2>2. view' = [d \in Cids |-> [k \in FoldedNames |-> view'[d][k]]]
    BY DEF TellLeave
  <2> QED BY <2>1, <2>2 DEF ViewTypes
<1>5. ASSUME NEW k \in FoldedNames, NEW d \in channel'[k].members, NEW c \in channel'[k].members,
             Gets(d)', RunsLine(c)'
      PROVE  ShownNext(k, d, c)
  <2>1. /\ d \in channel[k].members /\ c \in channel[k].members
        /\ k \in S => d # e /\ c # e
        /\ k \notin S => channel'[k].operators = channel[k].operators
    BY DepartRoles
  <2>2. d \in Cids /\ c \in Cids /\ Live(d) /\ Live(c)
    BY <2>1, MembersAreLive
  <2>3. Calm(d) /\ Calm(c)
    BY <2>2, LinesAreCalm DEF Served
  <2>4. /\ Shows(view[d][k], c, k) /\ client'[c].nick = client[c].nick
        /\ view[d][k] \in ViewRecord /\ Hears(d, k)
    BY <1>5, <2>1, <2>3, ShownBefore
  <2>5. CASE k \notin S
    BY <1>3, <2>1, <2>2, <2>4, <2>5 DEF Shows, ShownNext
  <2>6. CASE k \in S
    <3> DEFINE v == SawLeave(view[d][k], client[e].nick)
    <3>1. view'[d][k] = SawMode(v, NewOps(k), {})
      BY <1>3, <2>1, <2>2, <2>4, <2>6
    <3>2. client[c].nick # client[e].nick
      BY <2>1, <2>2, <2>6, NamesDiffer DEF Served
    <3>3. /\ client[c].nick \in v.here
          /\ client[c].nick \in v.ops <=> c \in channel[k].operators
      BY <2>4, <3>2 DEF Shows, SawLeave
    <3>4. v \in ViewRecord
      BY <1>1, <2>4, SawTypes
    <3> HIDE DEF v
    <3> QED BY <2>1, <2>4, <2>6, <3>1, <3>3, <3>4, SuccessorShows DEF ShownNext
  <2> QED BY <2>5, <2>6
<1> QED BY <1>4, <1>5, ViewsNextInv

\* JOIN 0 departs from all channels its client is in.
LEMMA PartAllDeparts ==
    ASSUME Served, NEW e \in Cids, JoinZero(e)
    PROVE  Speaks(e) /\ Live(e) /\ joined[e] \in SUBSET channels /\ DepartFrom(e, joined[e])
<1>1. Speaks(e) /\ PartAll(e) /\ Live(e)
  BY DEF JoinZero, Speaks, RunsLine, Live
<1>2. joined[e] = {k \in joined[e] : k \in channels /\ e \in channel[k].members}
  BY DEF Served, ChInv, ChTypeOK, ChannelTablesAgree
<1>3. joined[e] \in SUBSET channels
  BY <1>2
<1> QED BY <1>1, <1>2, <1>3 DEF PartAll

\* A teardown tells of successors only, and leaves its client in no channel.
LEMMA TeardownShows ==
    ASSUME Served, ViewsInv, NEW e \in Cids, TeardownClient(e), TellTeardown(e)
    PROVE  ViewsInv'
<1>1. Teardown(e) /\ DepartFrom(e, channels)
  BY DEF TeardownClient, RemoveFromAll
<1>2. Blank \in ViewRecord
  BY DEF Blank, ViewRecord
<1>3. \A d \in Cids, k \in FoldedNames :
         view'[d][k] = IF d = e THEN Blank
                       ELSE IF e \in channel[k].members /\ Hears(d, k)
                            THEN SawMode(view[d][k], NewOps(k), {})
                       ELSE view[d][k]
  BY DEF TellTeardown
<1>4. ViewTypes'
  <2>1. ASSUME NEW d \in Cids, NEW k \in FoldedNames
        PROVE  view'[d][k] \in ViewRecord
    <3>1. view[d][k] \in ViewRecord
      BY DEF ViewsInv, ViewTypes
    <3>2. SawMode(view[d][k], NewOps(k), {}) \in ViewRecord
      BY <3>1 DEF SawMode, ViewRecord
    <3> QED BY <1>2, <1>3, <3>1, <3>2
  <2>2. view' = [d \in Cids |-> [k \in FoldedNames |-> view'[d][k]]]
    BY DEF TellTeardown
  <2> QED BY <2>1, <2>2 DEF ViewTypes
<1>5. ASSUME NEW k \in FoldedNames, NEW d \in channel'[k].members, NEW c \in channel'[k].members,
             Gets(d)', RunsLine(c)'
      PROVE  ShownNext(k, d, c)
  <2>1. /\ d \in channel[k].members /\ c \in channel[k].members
        /\ e \notin channel[k].members => channel'[k].operators = channel[k].operators
    BY <1>1, DepartRoles
  <2>2. k \in channels
    BY <2>1 DEF Served, ChInv, ChTypeOK, NoChannel
  <2>3. d # e /\ c # e
    BY <1>1, <2>2, DepartRoles
  <2>4. d \in Cids /\ c \in Cids /\ Live(d) /\ Live(c)
    BY <2>1, MembersAreLive
  <2>5. Calm(d) /\ Calm(c)
    BY <1>1, <2>3, <2>4, OthersAreCalm DEF Served
  <2>6. /\ Shows(view[d][k], c, k) /\ client'[c].nick = client[c].nick
        /\ view[d][k] \in ViewRecord /\ Hears(d, k)
    BY <1>5, <2>1, <2>5, ShownBefore
  <2>7. CASE e \in channel[k].members
    <3>1. view'[d][k] = SawMode(view[d][k], NewOps(k), {})
      BY <1>3, <2>3, <2>4, <2>6, <2>7
    <3> QED BY <1>1, <2>3, <2>6, <3>1, SuccessorShows DEF Shows, ShownNext
  <2>8. CASE e \notin channel[k].members
    BY <1>3, <2>1, <2>3, <2>4, <2>6, <2>8 DEF Shows, ShownNext
  <2> QED BY <2>7, <2>8
<1> QED BY <1>4, <1>5, ViewsNextInv

-----------------------------------------------------------------------------
\* The new nick is nobody else's.
LEMMA RenameIsFresh ==
    ASSUME RegInv, NEW e \in Cids, Live(e), NEW n \in Nicks, Rename(e, n),
           NEW c \in Cids, Live(c), c # e
    PROVE  client[c].nick \notin {client[e].nick, n}
<1>1. /\ client[c].nick \in Nicks /\ client[e].nick \in Nicks
      /\ client[c].nick # client[e].nick
  BY NamesDiffer
<1>2. client[c].nick # NoNick /\ client[e].nick # NoNick
  BY DEF RegInv, RegisteredIsSettled, Live
<1>3. nicks[Fold[client[c].nick]] = c /\ nicks[Fold[client[e].nick]] = e
  BY <1>1, <1>2 DEF RegInv, NickTableExact, AnswersTo, Live, FoldedNicks
<1>4. c # NoClient
  BY IdsAssumption
<1>5. Fold[n] = Fold[client[e].nick] \/ nicks[Fold[n]] = NoClient
  BY DEF Rename, NickExists
<1> QED BY <1>1, <1>3, <1>4, <1>5

\* NICK: every view in which the renamed one stood has it under the new nick.
LEMMA RenameShows ==
    ASSUME Served, ViewsInv, NEW e \in Cids, NEW n \in Nicks, RenameTo(e, n), TellRename(e, n)
    PROVE  ViewsInv'
<1> DEFINE old == client[e].nick
           r == [client[e] EXCEPT !.nick = n]
<1>1. Rename(e, n) /\ UNCHANGED <<channels, channel, joined>>
  BY DEF RenameTo, chVars
<1>2. old \in Nicks
  BY <1>1, RecordedNick DEF Rename, RunsLine, Served, RegInv
<1>3. \A d \in Cids, k \in FoldedNames :
         view'[d][k] = IF d \in Neighbours(e) \cup {e} /\ Gets(d) THEN SawRename(view[d][k], old, n)
                       ELSE view[d][k]
  BY DEF TellRename
<1>4. ViewTypes'
  <2>1. ASSUME NEW d \in Cids, NEW k \in FoldedNames
        PROVE  view'[d][k] \in ViewRecord
    <3>1. view[d][k] \in ViewRecord
      BY DEF ViewsInv, ViewTypes
    <3>2. SawRename(view[d][k], old, n) \in ViewRecord
      BY <3>1, <1>2, SawTypes
    <3> QED BY <1>3, <3>1, <3>2
  <2>2. view' = [d \in Cids |-> [k \in FoldedNames |-> view'[d][k]]]
    BY DEF TellRename
  <2> QED BY <2>1, <2>2 DEF ViewTypes
<1>5. ASSUME Live(e)
      PROVE  (Gets(e)' => Gets(e)) /\ RunsLine(e) /\ client'[e].nick = n
  <2>1. client[e] \in Client
    BY DEF Served, RegInv, RegTypeOK
  <2>2. r \in Client /\ r.close = client[e].close /\ r.nick = n
    BY <2>1 DEF Client
  <2>3. RunsLine(e) /\ LineLeaves(e, r)
    BY <1>1 DEF Rename
  <2> HIDE DEF r
  <2> QED BY <1>5, <2>2, <2>3, LineIsCalm DEF Served
<1>6. ASSUME NEW c \in Cids, Live(c), c # e
      PROVE  Calm(c)
  BY <1>1, <1>6, OthersAreCalm DEF Served
<1>7. ASSUME NEW k \in FoldedNames, NEW d \in channel'[k].members, NEW c \in channel'[k].members,
             Gets(d)', RunsLine(c)'
      PROVE  ShownNext(k, d, c)
  <2> DEFINE v == view[d][k]
  <2>1. /\ d \in channel[k].members /\ c \in channel[k].members
        /\ channel'[k].operators = channel[k].operators
    BY <1>1
  <2>2. d \in Cids /\ c \in Cids /\ Live(d) /\ Live(c)
    BY <2>1, MembersAreLive
  <2>3. Gets(d) /\ RunsLine(c)
    BY <1>5, <1>6, <1>7, <2>2 DEF Calm
  <2>4. Shows(v, c, k) /\ v \in ViewRecord
    BY <2>1, <2>2, <2>3 DEF ViewsInv, MissNobody, ViewTypes
  <2>5. CASE c = e
    <3>1. k \in channels
      BY <2>1 DEF Served, ChInv, ChTypeOK, NoChannel
    <3>2. k \in joined[e]
      BY <2>1, <2>5, <3>1 DEF Served, ChInv, ChannelTablesAgree
    <3>3. view'[d][k] = SawRename(v, old, n)
      BY <1>3, <2>1, <2>2, <2>3, <3>2 DEF Neighbours
    <3>4. client'[c].nick = n
      BY <1>5, <2>2, <2>5
    <3> QED BY <2>1, <2>4, <2>5, <3>3, <3>4 DEF Shows, ShownNext, SawRename
  <2>6. CASE c # e
    <3>1. client'[c].nick = client[c].nick
      BY <1>6, <2>2, <2>6 DEF Calm
    <3>2. CASE view'[d][k] = v
      BY <2>1, <2>4, <3>1, <3>2 DEF Shows, ShownNext
    <3>3. CASE view'[d][k] # v
      <4>1. view'[d][k] = SawRename(v, old, n) /\ d \in Neighbours(e) \cup {e}
        BY <1>3, <2>2, <3>3
      <4>2. ASSUME NEW j \in joined[e] PROVE Live(e)
        <5>1. j \in FoldedNames
          BY DEF Served, ChInv, ChTypeOK
        <5>2. e \in channel[j].members
          BY <5>1 DEF Served, ChInv, ChannelTablesAgree
        <5> QED BY <5>1, <5>2, MembersAreLive
      <4>3. Live(e)
        BY <2>2, <4>1, <4>2 DEF Neighbours
      <4>4. client[c].nick \notin {old, n}
        BY <1>1, <2>2, <2>6, <4>3, RenameIsFresh DEF Served
      <4> QED BY <2>1, <2>4, <3>1, <4>1, <4>4 DEF Shows, ShownNext, SawRename
    <3> QED BY <3>2, <3>3
  <2> QED BY <2>5, <2>6
<1> QED BY <1>4, <1>7, ViewsNextInv

-----------------------------------------------------------------------------
\* The list a member is given shows every member as it is.
LEMMA ListShows ==
    ASSUME RegInv, NEW ch, ch.members \in SUBSET Cids, ch.operators \subseteq ch.members,
           \A c \in ch.members : Live(c)
    PROVE  /\ Listed(ch) \in ViewRecord
           /\ \A c \in ch.members :
                 /\ client[c].nick \in Listed(ch).here
                 /\ client[c].nick \in Listed(ch).ops <=> c \in ch.operators
<1>1. /\ NicksOf(ch.members) \subseteq Nicks
      /\ NicksOf(ch.operators) \subseteq NicksOf(ch.members)
  BY NicksOfAreNicks DEF NicksOf
<1>2. Listed(ch).here = NicksOf(ch.members) /\ Listed(ch).ops = NicksOf(ch.operators)
  BY DEF Listed
<1>3. ASSUME NEW c \in ch.members
      PROVE  /\ client[c].nick \in NicksOf(ch.members)
             /\ client[c].nick \in NicksOf(ch.operators) <=> c \in ch.operators
  BY InNicksOf
<1> QED BY <1>1, <1>2, <1>3 DEF Listed, ViewRecord

\* JOIN: the list for the one who joins, and for the members a line about it,
\* which is never an operator unless the channel is new and it alone in there.
LEMMA JoinShows ==
    ASSUME Served, ViewsInv, NEW e \in Cids, NEW name \in ChanNames, NEW key,
           JoinChannel(e, name, key), TellJoin(e, FoldName[name])
    PROVE  ViewsInv'
<1> DEFINE k0      == FoldName[name]
           ch      == GetOrCreate(name)
           created == k0 \notin channels
           next    == Enters(ch, e, created)
<1>1. /\ k0 \in FoldedNames
      /\ Speaks(e) /\ Live(e)
      /\ e \notin ch.members
      /\ channel' = [channel EXCEPT ![k0] = next]
  BY DEF FoldedNames, JoinChannel, Join, Speaks, RunsLine, Live
<1>2. /\ ChannelOK(ch)
      /\ ch.members = channel[k0].members
      /\ ch.operators = channel[k0].operators
      /\ created => ch.members = {}
  <2>1. CASE k0 \in channels
    BY <1>1, <2>1, EveryChannelOK DEF GetOrCreate, Served
  <2>2. CASE k0 \notin channels
    <3>1. channel[k0] = NoChannel
      BY <1>1, <2>2 DEF Served, ChInv, ChTypeOK
    <3> QED BY <2>2, <3>1, NoChannelOK DEF GetOrCreate, NoChannel
  <2> QED BY <2>1, <2>2
<1>3. channel \in [FoldedNames -> Channel]
  BY DEF Served, ChInv, ChTypeOK
<1>4. channel'[k0] = next /\ \A k \in FoldedNames \ {k0} : channel'[k] = channel[k]
  BY <1>1, <1>3
<1>5. /\ next.members = ch.members \cup {e}
      /\ next.operators = IF created THEN ch.operators \cup {e} ELSE ch.operators
      /\ ch.members \in SUBSET Cids /\ ch.operators \subseteq ch.members
  BY <1>2 DEF Enters, ChannelOK, Channel, RolesOK
<1>6. \A c \in next.members : c \in Cids /\ Live(c)
  BY <1>1, <1>2, <1>5, MembersAreLive
<1> HIDE DEF ch, next, created, k0
<1>7. \A d \in Cids, k \in FoldedNames :
         view'[d][k] = IF k # k0 \/ ~Gets(d) THEN view[d][k]
                       ELSE IF d = e THEN Listed(channel'[k])
                       ELSE IF Hears(d, k) THEN SawJoin(view[d][k], client[e].nick)
                       ELSE view[d][k]
  BY DEF TellJoin, k0
<1>8. /\ Listed(next) \in ViewRecord
      /\ \A c \in next.members :
            /\ client[c].nick \in Listed(next).here
            /\ client[c].nick \in Listed(next).ops <=> c \in next.operators
  <2>1. next.members \in SUBSET Cids /\ next.operators \subseteq next.members
    BY <1>1, <1>5
  <2> QED BY <1>6, <2>1, ListShows DEF Served
<1>9. client[e].nick \in Nicks
  BY <1>1, NamesDiffer DEF Served
<1>10. ViewTypes'
  <2>1. ASSUME NEW d \in Cids, NEW k \in FoldedNames
        PROVE  view'[d][k] \in ViewRecord
    <3>1. view[d][k] \in ViewRecord
      BY DEF ViewsInv, ViewTypes
    <3>2. SawJoin(view[d][k], client[e].nick) \in ViewRecord
      BY <1>9, <3>1, SawTypes
    <3> QED BY <1>4, <1>7, <1>8, <3>1, <3>2
  <2>2. view' = [d \in Cids |-> [k \in FoldedNames |-> view'[d][k]]]
    BY DEF TellJoin
  <2> QED BY <2>1, <2>2 DEF ViewTypes
<1>11. \A c \in Cids : Live(c) => Calm(c)
  BY <1>1, LinesAreCalm DEF Served
<1>12. ASSUME NEW k \in FoldedNames, NEW d \in channel'[k].members, NEW c \in channel'[k].members,
              Gets(d)', RunsLine(c)'
       PROVE  ShownNext(k, d, c)
  <2>1. CASE k # k0
    <3>1. channel'[k] = channel[k]
      BY <1>4, <2>1
    <3>2. Calm(d) /\ Calm(c) /\ d \in Cids /\ c \in Cids
      BY <1>11, <3>1, MembersAreLive
    <3>3. Shows(view[d][k], c, k) /\ client'[c].nick = client[c].nick
      BY <1>12, <3>1, <3>2, ShownBefore
    <3> QED BY <1>7, <2>1, <3>1, <3>2, <3>3 DEF Shows, ShownNext
  <2>2. CASE k = k0 /\ d = e
    <3>1. c \in next.members /\ channel'[k] = next
      BY <1>4, <2>2
    <3>2. Gets(d) /\ client'[c].nick = client[c].nick
      BY <1>1, <1>6, <1>11, <1>12, <2>2, <3>1 DEF Calm
    <3>3. view'[d][k] = Listed(next)
      BY <1>1, <1>7, <2>2, <3>1, <3>2
    <3> QED BY <1>8, <3>1, <3>2, <3>3 DEF ShownNext
  <2>3. CASE k = k0 /\ d # e
    <3>1. /\ d \in channel[k].members
          /\ ~created
          /\ channel'[k].operators = channel[k].operators
      BY <1>2, <1>4, <1>5, <2>3
    <3>2. d \in Cids /\ c \in Cids /\ Live(d) /\ Live(c) /\ Calm(d) /\ Calm(c)
      BY <1>4, <1>6, <1>11, <2>3
    <3>3. Gets(d) /\ RunsLine(c) /\ client'[c].nick = client[c].nick
      BY <1>12, <3>2 DEF Calm
    <3>4. view'[d][k] = SawJoin(view[d][k], client[e].nick)
      BY <1>7, <2>3, <3>1, <3>2, <3>3 DEF Hears
    <3>5. CASE c = e
      <4>1. c \notin channel[k].operators
        BY <1>1, <1>2, <1>5, <2>3, <3>5
      <4> QED BY <3>1, <3>3, <3>4, <3>5, <4>1 DEF ShownNext, SawJoin
    <3>6. CASE c # e
      <4>1. c \in channel[k].members
        BY <1>2, <1>4, <1>5, <2>3, <3>6
      <4>2. Shows(view[d][k], c, k)
        BY <1>12, <3>1, <3>2, <4>1, ShownBefore
      <4>3. client[c].nick # client[e].nick
        BY <1>1, <3>2, <3>6, NamesDiffer DEF Served
      <4> QED BY <3>1, <3>3, <3>4, <4>2, <4>3 DEF Shows, ShownNext, SawJoin
    <3> QED BY <3>5, <3>6
  <2> QED BY <2>1, <2>2, <2>3
<1> QED BY <1>10, <1>12, ViewsNextInv

\* MODE: the line names those it made operators and those it unmade.
LEMMA ModeShows ==
    ASSUME Served, ViewsInv, NEW e \in Cids, NEW j \in FoldedNames, ChannelMode(e, j), TellMode(j)
    PROVE  ViewsInv'
<1>1. Speaks(e) /\ j \in channels
  BY DEF ChannelMode, Mode
<1>2. PICK m \in ModeSettings(channel[j]) : channel' = [channel EXCEPT ![j] = SetModes(channel[j], m)]
  BY DEF ChannelMode, Mode
<1>3. /\ channel'[j] = SetModes(channel[j], m)
      /\ \A k \in FoldedNames \ {j} : channel'[k] = channel[k]
  BY <1>2 DEF Served, ChInv, ChTypeOK
<1>4. /\ ChannelOK(channel'[j])
      /\ channel'[j].members = channel[j].members
  BY <1>3, EveryChannelOK, SetModesOK DEF Served
<1>5. channel'[j].operators \subseteq channel[j].members
  BY <1>4 DEF ChannelOK, RolesOK
<1>6. \A d \in Cids, k \in FoldedNames :
         view'[d][k] = IF k = j /\ Hears(d, k) THEN SawMode(view[d][k], NewOps(k), LostOps(k))
                       ELSE view[d][k]
  BY DEF TellMode
<1>7. ViewTypes'
  <2>1. ASSUME NEW d \in Cids, NEW k \in FoldedNames
        PROVE  view'[d][k] \in ViewRecord
    <3>1. view[d][k] \in ViewRecord
      BY DEF ViewsInv, ViewTypes
    <3>2. SawMode(view[d][k], NewOps(k), LostOps(k)) \in ViewRecord
      BY <3>1 DEF SawMode, ViewRecord
    <3> QED BY <1>6, <3>1, <3>2
  <2>2. view' = [d \in Cids |-> [k \in FoldedNames |-> view'[d][k]]]
    BY DEF TellMode
  <2> QED BY <2>1, <2>2 DEF ViewTypes
<1>8. ASSUME NEW k \in FoldedNames, NEW d \in channel'[k].members, NEW c \in channel'[k].members,
             Gets(d)', RunsLine(c)'
      PROVE  ShownNext(k, d, c)
  <2> DEFINE v == view[d][k]
  <2>1. d \in channel[k].members /\ c \in channel[k].members
    BY <1>3, <1>4
  <2>2. d \in Cids /\ c \in Cids /\ Live(d) /\ Live(c)
    BY <2>1, MembersAreLive
  <2>3. Calm(d) /\ Calm(c)
    BY <1>1, <2>2, LinesAreCalm DEF Served
  <2>4. Shows(v, c, k) /\ client'[c].nick = client[c].nick /\ Hears(d, k) /\ v \in ViewRecord
    BY <1>8, <2>1, <2>3, ShownBefore
  <2>5. CASE k # j
    BY <1>3, <1>6, <2>2, <2>4, <2>5 DEF Shows, ShownNext
  <2>6. CASE k = j
    <3> DEFINE made   == channel'[k].operators \ channel[k].operators
               unmade == channel[k].operators \ channel'[k].operators
    <3>1. view'[d][k] = SawMode(v, NewOps(k), LostOps(k))
      BY <1>6, <2>2, <2>4, <2>6
    <3>2. made \in SUBSET Cids /\ unmade \in SUBSET Cids /\ \A b \in made \cup unmade : Live(b)
      BY <1>5, <2>6, MembersAreLive
    <3>3. client[c].nick \in NewOps(k) <=> c \in made
      BY <2>2, <3>2, InNicksOf DEF NewOps, Served
    <3>4. client[c].nick \in LostOps(k) <=> c \in unmade
      BY <2>2, <3>2, InNicksOf DEF LostOps, Served
    <3>5. /\ view'[d][k].here = v.here
          /\ view'[d][k].ops = ((v.ops \ LostOps(k)) \cup NewOps(k)) \cap v.here
      <4> HIDE DEF v
      <4> QED BY <2>4, <3>1 DEF SawMode, ViewRecord
    <3> HIDE DEF v
    <3> QED BY <2>4, <3>3, <3>4, <3>5 DEF Shows, ShownNext
  <2> QED BY <2>5, <2>6
<1> QED BY <1>7, <1>8, ViewsNextInv

\* NAMES: the list again.
LEMMA NamesShow ==
    ASSUME Served, ViewsInv, NEW e \in Cids, NEW j \in FoldedNames, NamesOf(e, j)
    PROVE  ViewsInv'
<1>1. Speaks(e) /\ UNCHANGED channel /\ view' = [view EXCEPT ![e][j] = Listed(channel[j])]
  BY DEF NamesOf, chVars
<1>2. view \in [Cids -> [FoldedNames -> ViewRecord]]
  BY DEF ViewsInv, ViewTypes
<1>3. /\ Listed(channel[j]) \in ViewRecord
      /\ \A c \in channel[j].members :
            /\ client[c].nick \in Listed(channel[j]).here
            /\ client[c].nick \in Listed(channel[j]).ops <=> c \in channel[j].operators
  BY MembersAreLive, ListShows DEF Served
<1>4. ViewTypes'
  BY <1>1, <1>2, <1>3 DEF ViewTypes
<1>5. ASSUME NEW k \in FoldedNames, NEW d \in channel'[k].members, NEW c \in channel'[k].members,
             Gets(d)', RunsLine(c)'
      PROVE  ShownNext(k, d, c)
  <2>1. d \in channel[k].members /\ c \in channel[k].members
    BY <1>1
  <2>2. d \in Cids /\ c \in Cids /\ Calm(d) /\ Calm(c)
    BY <1>1, <2>1, MembersAreLive, LinesAreCalm DEF Served
  <2>3. Shows(view[d][k], c, k) /\ client'[c].nick = client[c].nick
    BY <1>5, <2>1, <2>2, ShownBefore
  <2>4. view'[d][k] = IF d = e /\ k = j THEN Listed(channel[k]) ELSE view[d][k]
    BY <1>1, <1>2, <2>2
  <2> QED BY <1>1, <1>3, <2>1, <2>3, <2>4 DEF Shows, ShownNext
<1> QED BY <1>4, <1>5, ViewsNextInv

-----------------------------------------------------------------------------
\* Every line the server sends of a step keeps the views right about those who
\* can still act.
LEMMA ViewsStepShows ==
    ASSUME Served, ViewsInv, [ViewsNext]_viewsVars
    PROVE  ViewsInv'
<1>1. CASE UNCHANGED viewsVars
  BY <1>1 DEF viewsVars, govordVars, regVars, chVars, ViewsInv, ViewTypes, MissNobody,
              Gets, RunsLine, Shows
<1>2. ASSUME NEW e \in Cids, ViewsStep(e)
      PROVE  ViewsInv'
  <2>1. CASE Silent(e) /\ UNCHANGED view
    BY <2>1, SilentShows
  <2>2. CASE \E n \in Nicks : RenameTo(e, n) /\ TellRename(e, n)
    BY <2>2, RenameShows
  <2>3. CASE TeardownClient(e) /\ TellTeardown(e)
    BY <2>3, TeardownShows
  <2>4. CASE Quit(e)
    BY <2>4, QuitShows
  <2>5. ASSUME NEW name \in ChanNames, NEW key \in ChanKeys \cup {NoChanKey},
               JoinChannel(e, name, key), TellJoin(e, FoldName[name])
        PROVE  ViewsInv'
    BY <2>5, JoinShows
  <2>6. ASSUME NEW S \in SUBSET channels, NEW c \in Cids, Speaks(e), Live(c),
               DepartFrom(c, S), TellLeave(c, S)
        PROVE  ViewsInv'
    BY <2>6, LeaveShows
  <2>7. Speaks(e) => Live(e)
    BY DEF Speaks, RunsLine, Live
  <2>8. CASE \E k \in FoldedNames : PartChannel(e, k) /\ TellLeave(e, {k})
    <3>1. PICK k \in FoldedNames : PartChannel(e, k) /\ TellLeave(e, {k})
      BY <2>8
    <3>2. {k} \in SUBSET channels /\ Speaks(e) /\ DepartFrom(e, {k})
      BY <3>1 DEF PartChannel, Part
    <3> QED BY <2>6, <2>7, <3>1, <3>2
  <2>9. CASE Join0(e)
    BY <2>6, <2>7, <2>9, PartAllDeparts DEF Join0
  <2>10. CASE \E n \in Nicks, k \in FoldedNames : KickTold(e, n, k)
    <3>1. PICK n \in Nicks, k \in FoldedNames : KickTold(e, n, k)
      BY <2>10
    <3>2. /\ {k} \in SUBSET channels /\ Speaks(e)
          /\ Found(n) \in channel[k].members
          /\ DepartFrom(Found(n), {k}) /\ TellLeave(Found(n), {k})
      BY <3>1 DEF KickTold, KickNick, Kick
    <3>3. Found(n) \in Cids /\ Live(Found(n))
      BY <3>1, <3>2, MembersAreLive
    <3> QED BY <2>6, <3>2, <3>3
  <2>11. CASE \E k \in FoldedNames : ChannelMode(e, k) /\ TellMode(k)
    BY <2>11, ModeShows
  <2>12. CASE \E k \in FoldedNames : NamesOf(e, k)
    BY <2>12, NamesShow
  <2> QED BY <1>2, <2>1, <2>2, <2>3, <2>4, <2>5, <2>8, <2>9, <2>10, <2>11, <2>12 DEF ViewsStep
<1> QED BY <1>1, <1>2 DEF ViewsNext

\* What holds of Govord holds under Views.
LEMMA GovordsHold == ViewsSpec => []Served
<1>1. GovordInit => HoldsOnlyLive
  BY NoChannelHoldsNobody DEF GovordInit, ChInit, HoldsOnlyLive
<1>2. RegInv /\ ChInv /\ HoldsOnlyLive /\ [GovordNext]_govordVars => HoldsOnlyLive'
  BY HoldsOnlyLiveStep
<1>3. GovordSpec => []HoldsOnlyLive
  BY <1>1, <1>2, GovordRegInv, GovordChInv, PTL DEF GovordSpec
<1> QED BY <1>3, ViewsImplementGovord, GovordRegInv, GovordChInv, PTL DEF Served

\* What the views show, and that they are views.
LEMMA ViewsInvHolds == ViewsSpec => []ViewsInv
<1>1. ViewsInit => ViewsInv
  <2> SUFFICES ASSUME ViewsInit PROVE ViewsInv
    OBVIOUS
  <2>1. Blank \in ViewRecord
    BY DEF Blank, ViewRecord
  <2>2. \A k \in FoldedNames : channel[k].members = {}
    BY DEF ViewsInit, GovordInit, ChInit, NoChannel
  <2> QED BY <2>1, <2>2 DEF ViewsInit, ViewsInv, ViewTypes, MissNobody
<1>2. Served /\ ViewsInv /\ [ViewsNext]_viewsVars => ViewsInv'
  BY ViewsStepShows
<1> QED BY <1>1, <1>2, GovordsHold, PTL DEF ViewsSpec

\* From the lines it is sent, every member knows every other that can still act,
\* by its present nick and with its role, whatever was told in which order.
THEOREM ViewsAlwaysMissNobody == ViewsSpec => []ViewsMissNobody
<1>1. Served /\ ViewsInv => ViewsMissNobody
  BY DEF Served, ChInv, ChTypeOK, ViewsInv, MissNobody, Shows, ViewsMissNobody
<1> QED BY <1>1, GovordsHold, ViewsInvHolds, PTL

\* Who hears a channel message knows its speaker for a member.
THEOREM SpeakersAreAlwaysSeen == ViewsSpec => []SpeakersAreSeen
<1>1. Served /\ ViewsMissNobody => SpeakersAreSeen
  BY MembersAreLive DEF Served, ChInv, ChTypeOK, ViewsMissNobody, SpeakersAreSeen, Reaches,
     MaySpeak, Hears, Gets, RunsLine
<1> QED BY <1>1, GovordsHold, ViewsAlwaysMissNobody, PTL

\* The types of all tables, and of the views.
THEOREM GovordTypes == ViewsSpec => []GovordTypeOK
<1>1. Served /\ ViewsInv /\ WhTypeOK => GovordTypeOK
  BY DEF Served, RegInv, ChInv, ViewsInv, ViewTypes, ViewRecord, GovordTypeOK
<1> QED BY <1>1, GovordsHold, ViewsInvHolds, GovordImplementsWhowas, ViewsImplementGovord,
          EntriesAreFiled, PTL

-----------------------------------------------------------------------------
\* How a view goes wrong.  Ghosts are counted, which means something only of
\* finite views: they are, since the members of a channel are finitely many.
FiniteViews == \A d \in Cids, k \in FoldedNames : IsFiniteSet(view[d][k].here)

\* A step adds one nick to what a view shows, or replaces it by a list.
SmallStep(d, k) ==
    \/ \E n : view'[d][k].here \subseteq view[d][k].here \cup {n}
    \/ \E X : IsFiniteSet(X) /\ view'[d][k].here \subseteq {client[c].nick : c \in X}

LEMMA SmallStepsStayFinite ==
    ASSUME NEW d, NEW k, IsFiniteSet(view[d][k].here), SmallStep(d, k)
    PROVE  IsFiniteSet(view'[d][k].here)
<1>1. ASSUME NEW n, view'[d][k].here \subseteq view[d][k].here \cup {n}
      PROVE  IsFiniteSet(view'[d][k].here)
  <2>1. IsFiniteSet(view[d][k].here \cup {n})
    BY FS_AddElement
  <2> QED BY <1>1, <2>1, FS_Subset
<1>2. ASSUME NEW X, IsFiniteSet(X), view'[d][k].here \subseteq {client[c].nick : c \in X}
      PROVE  IsFiniteSet(view'[d][k].here)
  <2> DEFINE S == {client[c].nick : c \in X}
             f == [c \in X |-> client[c].nick]
  <2>1. f \in Surjection(X, S)
    BY DEF Surjection
  <2>2. IsFiniteSet(S)
    <3> HIDE DEF f, S
    <3> QED BY <1>2, <2>1, FS_Surjection
  <2> QED BY <1>2, <2>2, FS_Subset
<1> QED BY <1>1, <1>2 DEF SmallStep

LEMMA FiniteViewsStep ==
    ASSUME Served, ViewsInv, LimitsInv, LimitsInv', FiniteViews, [ViewsNext]_viewsVars
    PROVE  FiniteViews'
<1>1. ASSUME NEW d \in Cids, NEW k \in FoldedNames, view'[d][k].here \subseteq view[d][k].here
      PROVE  SmallStep(d, k)
  BY <1>1 DEF SmallStep
<1>2. \A k \in FoldedNames : IsFiniteSet(channel[k].members) /\ IsFiniteSet(channel'[k].members)
  BY DEF LimitsInv, ChannelInLimits, AtMost
<1>3. \A d \in Cids, k \in FoldedNames : view[d][k] \in ViewRecord
  BY DEF ViewsInv, ViewTypes
<1>4. ASSUME NEW e \in Cids, ViewsStep(e), NEW d \in Cids, NEW k \in FoldedNames
      PROVE  SmallStep(d, k)
  <2> DEFINE v == view[d][k]
             w == view'[d][k]
  <2>1. CASE UNCHANGED view
    BY <1>1, <2>1
  <2>2. ASSUME NEW n \in Nicks, TellRename(e, n)
        PROVE  SmallStep(d, k)
    <3>1. w = SawRename(v, client[e].nick, n) \/ w = v
      BY <2>2 DEF TellRename
    <3>2. w.here \subseteq v.here \cup {n}
      BY <3>1 DEF SawRename
    <3> QED BY <3>2 DEF SmallStep
  <2>3. ASSUME NEW S, NEW c \in Cids, TellLeave(c, S)
        PROVE  SmallStep(d, k)
    <3>1. w = v \/ w = Blank \/ w = SawMode(SawLeave(v, client[c].nick), NewOps(k), {})
      BY <2>3 DEF TellLeave
    <3>2. w.here \subseteq v.here
      BY <3>1 DEF Blank, SawMode, SawLeave
    <3> QED BY <1>1, <3>2
  <2>4. CASE TellTeardown(e)
    <3>1. w = v \/ w = Blank \/ w = SawMode(v, NewOps(k), {})
      BY <2>4 DEF TellTeardown
    <3>2. w.here \subseteq v.here
      BY <1>3, <3>1 DEF Blank, SawMode, ViewRecord
    <3> QED BY <1>1, <3>2
  <2>5. CASE TellQuit(e)
    <3>1. w = v \/ w = SawLeave(v, client[e].nick)
      BY <2>5 DEF TellQuit
    <3>2. w.here \subseteq v.here
      BY <3>1 DEF SawLeave
    <3> QED BY <1>1, <3>2
  <2>6. ASSUME NEW j \in FoldedNames, TellMode(j)
        PROVE  SmallStep(d, k)
    <3>1. w = v \/ w = SawMode(v, NewOps(k), LostOps(k))
      BY <2>6 DEF TellMode
    <3>2. w.here \subseteq v.here
      BY <1>3, <3>1 DEF SawMode, ViewRecord
    <3> QED BY <1>1, <3>2
  <2>7. ASSUME NEW j \in FoldedNames, TellJoin(e, j)
        PROVE  SmallStep(d, k)
    <3>1. w = v \/ w = Listed(channel'[k]) \/ w = SawJoin(v, client[e].nick)
      BY <2>7 DEF TellJoin
    <3>2. CASE w = Listed(channel'[k])
      <4>1. w.here = {client[c].nick : c \in channel'[k].members}
        BY <3>2 DEF Listed, NicksOf
      <4> HIDE DEF w
      <4> QED BY <1>2, <4>1 DEF SmallStep, w
    <3>3. CASE w # Listed(channel'[k])
      <4>1. w.here \subseteq v.here \cup {client[e].nick}
        BY <3>1, <3>3 DEF SawJoin
      <4> QED BY <4>1 DEF SmallStep
    <3> QED BY <3>2, <3>3
  <2>8. ASSUME NEW j \in FoldedNames, NamesOf(e, j)
        PROVE  SmallStep(d, k)
    <3>1. w = v \/ w = Listed(channel[j])
      BY <2>8 DEF NamesOf, ViewsInv, ViewTypes
    <3>2. CASE w = Listed(channel[j])
      <4>1. w.here = {client[c].nick : c \in channel[j].members}
        BY <3>2 DEF Listed, NicksOf
      <4> HIDE DEF w
      <4> QED BY <1>2, <4>1 DEF SmallStep, w
    <3>3. CASE w = v
      BY <1>1, <3>3
    <3> QED BY <3>1, <3>2, <3>3
  <2>9. \A j \in FoldedNames, n \in Nicks : KickTold(e, n, j) => Found(n) \in Cids
    BY MembersAreLive DEF KickTold, KickNick, Kick
  <2>10. \A name \in ChanNames : FoldName[name] \in FoldedNames
    BY DEF FoldedNames
  <2> QED BY <1>4, <2>1, <2>2, <2>3, <2>4, <2>5, <2>6, <2>7, <2>8, <2>9, <2>10
          DEF ViewsStep, Quit, Join0, KickTold
<1>5. ASSUME NEW d \in Cids, NEW k \in FoldedNames
      PROVE  SmallStep(d, k)
  BY <1>1, <1>4 DEF ViewsNext, viewsVars
<1> QED BY <1>5, SmallStepsStayFinite DEF FiniteViews

\* A step in which the nicks of the members who stay are the same, those who go
\* are out of the view, and only members are put in, makes no ghost.
LEMMA NoNewGhost ==
    ASSUME NEW d, NEW k,
           \A c \in channel[k].members :
               \/ c \in channel'[k].members /\ client'[c].nick = client[c].nick
               \/ client[c].nick \notin view'[d][k].here,
           \A n \in view'[d][k].here :
               n \in view[d][k].here \/ \E c \in channel'[k].members : n = client'[c].nick
    PROVE  Ghosts(d, k)' \subseteq Ghosts(d, k)
BY DEF Ghosts, NicksOf

\* A member of a channel stays in it when somebody else departs.
LEMMA OthersStay ==
    ASSUME ChInv, NEW e \in Cids, NEW S \in SUBSET channels, DepartFrom(e, S), NEW k \in FoldedNames,
           NEW c \in channel[k].members, k \in S => c # e
    PROVE  c \in channel'[k].members
<1>1. CASE k \notin S
  BY <1>1 DEF DepartFrom
<1>2. CASE k \in S
  <2>1. channel'[k] = Departed(channel[k], e) /\ ChannelOK(channel[k]) /\ channel[k].members # {}
    BY <1>2, EveryChannelOK DEF DepartFrom
  <2> QED BY <1>2, <2>1, DepartedOK
<1> QED BY <1>1, <1>2

\* What GhostsAreLostClients asks of a step, of one view.
NotHaunted(d, k) ==
    \/ Ghosts(d, k)' \subseteq Ghosts(d, k)
    \/ \E old \in Ghosts(d, k) : \E n : Ghosts(d, k)' \subseteq (Ghosts(d, k) \ {old}) \cup {n}
    \/ \E c \in channel[k].members \ clients' : client[c].nick \in view[d][k].here

\* PART, JOIN 0 and KICK: the nick leaves the views with its client.
LEMMA LeaveHauntsNobody ==
    ASSUME Served, ViewsInv, NEW e \in Cids, Live(e), NEW S \in SUBSET channels,
           DepartFrom(e, S), TellLeave(e, S), NEW a \in Cids, Speaks(a),
           NEW d \in Cids, NEW k \in FoldedNames, Hears(d, k), d \in channel'[k].members
    PROVE  NotHaunted(d, k)
<1>1. view'[d][k] = IF k \notin S THEN view[d][k]
                    ELSE IF d = e THEN Blank
                    ELSE SawMode(SawLeave(view[d][k], client[e].nick), NewOps(k), {})
  BY DEF TellLeave
<1>2. k \in S => d # e
  BY DepartRoles
<1>3. ASSUME NEW c \in channel[k].members
      PROVE  client'[c].nick = client[c].nick
  BY MembersAreLive, LinesAreCalm DEF Calm, Served
<1>4. CASE k \notin S
  <2>1. \A c \in channel[k].members : c \in channel'[k].members
    BY <1>4, OthersStay DEF Served
  <2> QED BY <1>1, <1>3, <1>4, <2>1, NoNewGhost DEF NotHaunted
<1>5. CASE k \in S
  <2>1. view'[d][k].here = view[d][k].here \ {client[e].nick}
    BY <1>1, <1>2, <1>5 DEF SawMode, SawLeave
  <2>2. \A c \in channel[k].members : c # e => c \in channel'[k].members
    BY OthersStay DEF Served
  <2> QED BY <1>3, <2>1, <2>2, NoNewGhost DEF NotHaunted
<1> QED BY <1>4, <1>5

\* A teardown takes its client from the channel and not from the views: whoever
\* was shown it is left with a ghost.
LEMMA TeardownHaunts ==
    ASSUME Served, ViewsInv, NEW e \in Cids, TeardownClient(e), TellTeardown(e),
           NEW d \in Cids, NEW k \in FoldedNames, Hears(d, k), d \in clients'
    PROVE  NotHaunted(d, k)
<1>1. Teardown(e) /\ DepartFrom(e, channels) /\ e \notin clients'
  BY DEF TeardownClient, RemoveFromAll, Teardown
<1>2. d # e /\ view[d][k] \in ViewRecord
  BY <1>1 DEF ViewsInv, ViewTypes
<1>3. view'[d][k].here = view[d][k].here
  BY <1>2 DEF TellTeardown, SawMode, ViewRecord
<1>4. CASE e \in channel[k].members /\ client[e].nick \in view[d][k].here
  BY <1>1, <1>4 DEF NotHaunted
<1>5. CASE e \notin channel[k].members \/ client[e].nick \notin view[d][k].here
  <2>1. ASSUME NEW c \in channel[k].members, c # e
        PROVE  c \in channel'[k].members /\ client'[c].nick = client[c].nick
    <3>1. c \in channel'[k].members
      BY <1>1, <2>1, OthersStay DEF Served
    <3>2. Calm(c)
      BY <1>1, <2>1, MembersAreLive, OthersAreCalm DEF Served
    <3> QED BY <3>1, <3>2 DEF Calm
  <2> QED BY <1>3, <1>5, <2>1, NoNewGhost DEF NotHaunted
<1> QED BY <1>4, <1>5

\* JOIN shows a new member, and to the one who joins all that are there.
LEMMA JoinHauntsNobody ==
    ASSUME Served, ViewsInv, NEW e \in Cids, NEW name \in ChanNames, NEW key,
           JoinChannel(e, name, key), TellJoin(e, FoldName[name]),
           NEW d \in Cids, NEW k \in FoldedNames, Hears(d, k)
    PROVE  NotHaunted(d, k)
<1> DEFINE k0 == FoldName[name]
           ch == GetOrCreate(name)
<1>1. /\ k0 \in FoldedNames /\ Speaks(e) /\ e \in Cids /\ Live(e) /\ e \notin ch.members
      /\ channel' = [channel EXCEPT ![k0] = Enters(ch, e, k0 \notin channels)]
  BY DEF FoldedNames, JoinChannel, Join, Speaks, RunsLine, Live
<1>2. ch.members = channel[k0].members
  BY <1>1 DEF GetOrCreate, Served, ChInv, ChTypeOK
<1>3. channel'[k].members = IF k = k0 THEN channel[k].members \cup {e} ELSE channel[k].members
  <2>1. channel \in [FoldedNames -> Channel] /\ ch \in Channel
    BY <1>1, EveryChannelOK, NoChannelOK
       DEF GetOrCreate, Served, ChInv, ChTypeOK, ChannelOK, Channel, NoChannel
  <2>2. Enters(ch, e, k0 \notin channels).members = ch.members \cup {e}
    BY <2>1 DEF Enters, Channel
  <2> HIDE DEF ch, k0
  <2> QED BY <1>1, <1>2, <2>1, <2>2
<1>4. \A c \in channel'[k].members : client'[c].nick = client[c].nick
  <2>1. \A c \in channel'[k].members : c \in Cids /\ Live(c)
    BY <1>1, <1>3, MembersAreLive
  <2> QED BY <1>1, <2>1, LinesAreCalm DEF Calm, Served
<1>5. k = k0 => d # e
  BY <1>1, <1>2 DEF Hears
<1>6. view'[d][k] = IF k # k0 THEN view[d][k] ELSE SawJoin(view[d][k], client[e].nick)
  BY <1>5 DEF TellJoin, Hears
<1>7. \A n \in view'[d][k].here : n \in view[d][k].here \/ (k = k0 /\ n = client[e].nick)
  BY <1>6 DEF SawJoin
<1> QED BY <1>3, <1>4, <1>7, NoNewGhost DEF NotHaunted

\* NICK: who is shown under the old nick is shown under the new one.
LEMMA RenameHauntsNobody ==
    ASSUME Served, ViewsInv, NEW e \in Cids, NEW n \in Nicks, RenameTo(e, n), TellRename(e, n),
           NEW d \in Cids, NEW k \in FoldedNames, Hears(d, k)
    PROVE  NotHaunted(d, k)
<1> DEFINE old == client[e].nick
           v == view[d][k]
           r == [client[e] EXCEPT !.nick = n]
<1>1. Rename(e, n) /\ UNCHANGED <<channels, channel, joined>> /\ old # n
  BY DEF RenameTo, Rename, chVars
<1>2. view'[d][k] = IF d \in Neighbours(e) \cup {e} THEN SawRename(v, old, n) ELSE v
  BY DEF TellRename, Hears
<1>3. \A c \in channel[k].members : c \in Cids /\ Live(c)
  BY MembersAreLive
<1>4. \A c \in channel[k].members : c # e => client'[c].nick = client[c].nick
  BY <1>1, <1>3, OthersAreCalm DEF Calm, Served
<1>5. CASE e \in channel[k].members
  <2>1. k \in channels /\ k \in joined[e]
    BY <1>5 DEF Served, ChInv, ChTypeOK, NoChannel, ChannelTablesAgree
  <2>2. view'[d][k] = SawRename(v, old, n)
    BY <1>2, <2>1 DEF Neighbours, Hears
  <2>3. old \notin view'[d][k].here /\ \A m \in view'[d][k].here : m \in v.here \/ m = n
    BY <1>1, <2>2 DEF SawRename
  <2>4. client'[e].nick = n
    <3>1. client[e] \in Client
      BY DEF Served, RegInv, RegTypeOK
    <3>2. r \in Client /\ r.close = client[e].close /\ r.nick = n
      BY <3>1 DEF Client
    <3>3. RunsLine(e) /\ LineLeaves(e, r)
      BY <1>1 DEF Rename
    <3> HIDE DEF r
    <3> QED BY <1>3, <1>5, <3>2, <3>3, LineIsCalm DEF Served
  <2> HIDE DEF v
  <2> QED BY <1>1, <1>4, <1>5, <2>3, <2>4, NoNewGhost DEF NotHaunted, v
<1>6. CASE e \notin channel[k].members
  <2>1. \A c \in channel[k].members : c \in channel'[k].members /\ client'[c].nick = client[c].nick
    BY <1>1, <1>4, <1>6
  <2>2. CASE view'[d][k].here = v.here
    BY <2>1, <2>2, NoNewGhost DEF NotHaunted
  <2>3. CASE view'[d][k].here # v.here
    <3>1. d \in Neighbours(e) /\ old \in v.here /\ view'[d][k].here = (v.here \ {old}) \cup {n}
      BY <1>2, <1>6, <2>3 DEF SawRename, Hears
    <3>2. PICK j \in joined[e] : d \in channel[j].members
      BY <3>1 DEF Neighbours
    <3>3. j \in FoldedNames /\ e \in channel[j].members
      BY <3>2 DEF Served, ChInv, ChTypeOK, ChannelTablesAgree
    <3>4. Live(e)
      BY <3>3, MembersAreLive
    <3>5. old \notin NicksOf(channel[k].members)
      BY <1>3, <1>6, <3>4, NamesDiffer DEF NicksOf, Served
    <3>6. old \in Ghosts(d, k)
      BY <3>1, <3>5 DEF Ghosts
    <3>7. \A m \in Ghosts(d, k)' : m = n \/ (m \in Ghosts(d, k) /\ m # old)
      BY <2>1, <3>1 DEF Ghosts, NicksOf
    <3> QED BY <3>6, <3>7 DEF NotHaunted
  <2> QED BY <2>2, <2>3
<1> QED BY <1>5, <1>6

\* INVITE, TOPIC, the handshake, QUIT, MODE and NAMES leave the members as they are.
LEMMA StayingHauntsNobody ==
    ASSUME Served, ViewsInv, NEW e \in Cids, HandshakeAction(e) \/ Speaks(e),
           NEW k \in FoldedNames, channel'[k].members = channel[k].members,
           NEW d \in Cids,
           \A n \in view'[d][k].here :
               n \in view[d][k].here \/ n \in {client[c].nick : c \in channel[k].members}
    PROVE  NotHaunted(d, k)
<1>1. \A c \in channel[k].members : client'[c].nick = client[c].nick
  BY MembersAreLive, LinesAreCalm DEF Calm, Served
<1> QED BY <1>1, NoNewGhost DEF NotHaunted

LEMMA SilentHauntsNobody ==
    ASSUME Served, ViewsInv, NEW e \in Cids, Silent(e), UNCHANGED view,
           NEW d \in Cids, NEW k \in FoldedNames
    PROVE  NotHaunted(d, k)
<1>1. HandshakeAction(e) \/ Speaks(e)
  BY DEF Silent, RegistryOnly, InviteNick, ChannelTopic
<1>2. channel'[k].members = channel[k].members
  <2>1. channel \in [FoldedNames -> Channel]
    BY DEF Served, ChInv, ChTypeOK
  <2>2. ASSUME NEW t, NEW j \in FoldedNames, Invite(e, t, j)
        PROVE  channel'[k].members = channel[k].members
    BY <2>1, <2>2 DEF Invite, Channel
  <2>3. ASSUME NEW t, NEW j \in FoldedNames, Topic(e, j, t)
        PROVE  channel'[k].members = channel[k].members
    BY <2>1, <2>3 DEF Topic, Channel
  <2> QED BY <2>2, <2>3 DEF Silent, RegistryOnly, InviteNick, ChannelTopic, chVars
<1> QED BY <1>1, <1>2, StayingHauntsNobody

LEMMA QuitHauntsNobody ==
    ASSUME Served, ViewsInv, NEW e \in Cids, Quit(e), NEW d \in Cids, NEW k \in FoldedNames
    PROVE  NotHaunted(d, k)
<1>1. HandshakeAction(e) /\ UNCHANGED channel /\ TellQuit(e)
  BY DEF Quit, RegistryOnly, HandshakeAction, chVars
<1>2. view'[d][k] = view[d][k] \/ view'[d][k] = SawLeave(view[d][k], client[e].nick)
  BY <1>1 DEF TellQuit
<1>3. view'[d][k].here \subseteq view[d][k].here
  BY <1>2 DEF SawLeave
<1> QED BY <1>1, <1>3, StayingHauntsNobody

LEMMA ModeHauntsNobody ==
    ASSUME Served, ViewsInv, NEW e \in Cids, NEW j \in FoldedNames, ChannelMode(e, j), TellMode(j),
           NEW d \in Cids, NEW k \in FoldedNames
    PROVE  NotHaunted(d, k)
<1>1. Speaks(e)
  BY DEF ChannelMode
<1>2. PICK m \in ModeSettings(channel[j]) : channel' = [channel EXCEPT ![j] = SetModes(channel[j], m)]
  BY DEF ChannelMode, Mode
<1>3. channel'[k].members = channel[k].members
  BY <1>2, EveryChannelOK, SetModesOK DEF Served, ChInv, ChTypeOK
<1>4. view[d][k] \in ViewRecord
  BY DEF ViewsInv, ViewTypes
<1>5. view'[d][k].here = view[d][k].here
  BY <1>4 DEF TellMode, SawMode, ViewRecord
<1> QED BY <1>1, <1>3, <1>5, StayingHauntsNobody

LEMMA NamesHauntNobody ==
    ASSUME Served, ViewsInv, NEW e \in Cids, NEW j \in FoldedNames, NamesOf(e, j),
           NEW d \in Cids, NEW k \in FoldedNames
    PROVE  NotHaunted(d, k)
<1>1. /\ Speaks(e) /\ UNCHANGED channel
      /\ view'[d][k] = IF d = e /\ k = j THEN Listed(channel[k]) ELSE view[d][k]
  BY DEF NamesOf, chVars, ViewsInv, ViewTypes
<1>2. Listed(channel[k]).here = {client[c].nick : c \in channel[k].members}
  BY DEF Listed, NicksOf
<1> QED BY <1>1, <1>2, StayingHauntsNobody

LEMMA HauntingStep ==
    ASSUME Served, ViewsInv, NEW e \in Cids, ViewsStep(e),
           NEW d \in Cids, NEW k \in FoldedNames,
           Hears(d, k), d \in clients', d \in channel'[k].members
    PROVE  NotHaunted(d, k)
<1>1. CASE Silent(e) /\ UNCHANGED view
  BY <1>1, SilentHauntsNobody
<1>2. CASE \E n \in Nicks : RenameTo(e, n) /\ TellRename(e, n)
  BY <1>2, RenameHauntsNobody
<1>3. CASE TeardownClient(e) /\ TellTeardown(e)
  BY <1>3, TeardownHaunts
<1>4. CASE Quit(e)
  BY <1>4, QuitHauntsNobody
<1>5. ASSUME NEW name \in ChanNames, NEW key \in ChanKeys \cup {NoChanKey},
             JoinChannel(e, name, key), TellJoin(e, FoldName[name])
      PROVE  NotHaunted(d, k)
  BY <1>5, JoinHauntsNobody
<1>6. ASSUME NEW S \in SUBSET channels, NEW c \in Cids, Speaks(e), Live(c),
             DepartFrom(c, S), TellLeave(c, S)
      PROVE  NotHaunted(d, k)
  BY <1>6, LeaveHauntsNobody
<1>7. CASE \E j \in FoldedNames : PartChannel(e, j) /\ TellLeave(e, {j})
  <2>1. PICK j \in FoldedNames : PartChannel(e, j) /\ TellLeave(e, {j})
    BY <1>7
  <2>2. {j} \in SUBSET channels /\ Speaks(e) /\ DepartFrom(e, {j}) /\ Live(e)
    BY <2>1 DEF PartChannel, Part, Speaks, RunsLine, Live
  <2> QED BY <1>6, <2>1, <2>2
<1>8. CASE Join0(e)
  BY <1>6, <1>8, PartAllDeparts DEF Join0
<1>9. CASE \E n \in Nicks, j \in FoldedNames : KickTold(e, n, j)
  <2>1. PICK n \in Nicks, j \in FoldedNames : KickTold(e, n, j)
    BY <1>9
  <2>2. /\ {j} \in SUBSET channels /\ Speaks(e)
        /\ Found(n) \in channel[j].members
        /\ DepartFrom(Found(n), {j}) /\ TellLeave(Found(n), {j})
    BY <2>1 DEF KickTold, KickNick, Kick
  <2>3. Found(n) \in Cids /\ Live(Found(n))
    BY <2>1, <2>2, MembersAreLive
  <2> QED BY <1>6, <2>2, <2>3
<1>10. CASE \E j \in FoldedNames : ChannelMode(e, j) /\ TellMode(j)
  BY <1>10, ModeHauntsNobody
<1>11. CASE \E j \in FoldedNames : NamesOf(e, j)
  BY <1>11, NamesHauntNobody
<1> QED BY <1>1, <1>2, <1>3, <1>4, <1>5, <1>7, <1>8, <1>9, <1>10, <1>11 DEF ViewsStep

\* A view that is not haunted by the step has no more ghosts than before.
LEMMA NoMoreGhosts ==
    ASSUME NEW d, NEW k, IsFiniteSet(view[d][k].here), NotHaunted(d, k),
           Cardinality(Ghosts(d, k)') > Cardinality(Ghosts(d, k))
    PROVE  \E c \in channel[k].members \ clients' : client[c].nick \in view[d][k].here
<1> DEFINE G == Ghosts(d, k)
           H == Ghosts(d, k)'
<1>1. IsFiniteSet(G)
  BY FS_Subset DEF Ghosts
<1>2. Cardinality(H) > Cardinality(G)
  OBVIOUS
<1> HIDE DEF G, H
<1>3. Cardinality(G) \in Nat
  BY <1>1, FS_CardinalityType
<1>4. ~(H \subseteq G)
  <2> SUFFICES ASSUME H \subseteq G PROVE FALSE
    OBVIOUS
  <2>1. IsFiniteSet(H) /\ Cardinality(H) <= Cardinality(G)
    BY <1>1, FS_Subset
  <2>2. Cardinality(H) \in Nat
    BY <2>1, FS_CardinalityType
  <2> QED BY <1>2, <1>3, <2>1, <2>2
<1>5. ASSUME NEW old \in G, NEW n, H \subseteq (G \ {old}) \cup {n}
      PROVE  FALSE
  <2> DEFINE R == G \ {old}
  <2>1. IsFiniteSet(R) /\ Cardinality(R) = Cardinality(G) - 1
    BY <1>1, <1>5, FS_RemoveElement
  <2> HIDE DEF R
  <2>2. IsFiniteSet(R \cup {n}) /\ Cardinality(R \cup {n}) <= Cardinality(G)
    <3>1. /\ IsFiniteSet(R \cup {n})
          /\ Cardinality(R \cup {n}) = IF n \in R THEN Cardinality(R) ELSE Cardinality(R) + 1
      BY <2>1, FS_AddElement
    <3>2. Cardinality(R \cup {n}) \in {Cardinality(R), Cardinality(R) + 1}
      BY <3>1
    <3> QED BY <1>3, <2>1, <3>1, <3>2
  <2>3. IsFiniteSet(H) /\ Cardinality(H) <= Cardinality(R \cup {n})
    BY <1>5, <2>2, FS_Subset DEF R
  <2>4. Cardinality(H) \in Nat /\ Cardinality(R \cup {n}) \in Nat
    BY <2>2, <2>3, FS_CardinalityType
  <2> QED BY <1>2, <1>3, <2>2, <2>3, <2>4
<1> QED BY <1>4, <1>5 DEF NotHaunted, G, H

\* A view gets one nick too many in one way only: somebody it shows is torn down
\* without the viewer having been told of a QUIT (Server.cpp:397, m_join.cpp:113).
THEOREM GhostsAreOnlyLostClients == ViewsSpec => GhostsAreLostClients
<1> DEFINE Explained ==
        \A d \in clients \cap clients', k \in channels \cap channels' :
            /\ Hears(d, k) /\ Hears(d, k)'
            /\ Cardinality(Ghosts(d, k)') > Cardinality(Ghosts(d, k))
            => \E c \in channel[k].members \ clients' : client[c].nick \in view[d][k].here
<1>1. ViewsInit => FiniteViews
  <2> SUFFICES ASSUME ViewsInit, NEW d \in Cids, NEW k \in FoldedNames
               PROVE  IsFiniteSet(view[d][k].here)
    BY DEF FiniteViews
  <2>1. view[d][k].here = {}
    BY DEF ViewsInit, Blank
  <2> QED BY <2>1, FS_EmptySet
<1>2. Served /\ ViewsInv /\ LimitsInv /\ LimitsInv' /\ FiniteViews /\ [ViewsNext]_viewsVars
      => FiniteViews'
  BY FiniteViewsStep
<1>3. Served /\ ViewsInv /\ FiniteViews /\ [ViewsNext]_viewsVars => [Explained]_viewsVars
  <2> SUFFICES ASSUME Served, ViewsInv, FiniteViews, ViewsNext,
                      NEW d \in clients \cap clients', NEW k \in channels \cap channels',
                      Hears(d, k), Hears(d, k)',
                      Cardinality(Ghosts(d, k)') > Cardinality(Ghosts(d, k))
               PROVE  \E c \in channel[k].members \ clients' : client[c].nick \in view[d][k].here
    OBVIOUS
  <2>1. d \in Cids /\ k \in FoldedNames
    BY DEF Served, RegInv, RegTypeOK, ChInv, ChTypeOK
  <2>2. d \in channel'[k].members
    BY DEF Hears
  <2>3. NotHaunted(d, k)
    BY <2>1, <2>2, HauntingStep DEF ViewsNext
  <2> QED BY <2>1, <2>3, NoMoreGhosts DEF FiniteViews
<1>4. ViewsSpec => []LimitsInv
  BY ViewsImplementGovord, GovordImplementsChannels, LimitsInvHolds, PTL
<1> QED BY <1>1, <1>2, <1>3, <1>4, GovordsHold, ViewsInvHolds, PTL
       DEF ViewsSpec, GhostsAreLostClients

=============================================================================

------------------------------ MODULE Registry ------------------------------
(***************************************************************************)
(* The connection registry of govord: the clients_ and nicks_ tables of    *)
(* Server, and the registration handshake that CAP, PASS, NICK and USER    *)
(* drive.  One action per command handler, one per way a connection is     *)
(* opened, marked for closing and torn down.                               *)
(*                                                                         *)
(* The server runs one line handler at a time, so each handler is atomic.  *)
(* A line that is refused (a numeric error and nothing else) or that only  *)
(* reads is OtherLine.  A cid is free again once its client is gone: the   *)
(* code counts nextCid_ upwards instead, so the model has the behaviours   *)
(* of the code and those in which a stale reference to a dead cid would    *)
(* reach a new client.                                                     *)
(***************************************************************************)
EXTENDS Ids, Integers, FiniteSets

CONSTANTS
    Passwords,          \* what PASS may supply
    NoPass,             \* the empty Client::suppliedPass
    PasswordRequired,   \* Server::setPassword was called with a password
    Accepted,           \* the passwords that constantTimeEquals accepts
    Caps,               \* SUPPORTED_CAPS
    StickyCaps,         \* those isSticky names under CAP LS 302
    MaxConnections      \* MAX_CONNECTIONS

ASSUME RegistryAssumption ==
    /\ NoPass \notin Passwords
    /\ PasswordRequired \in BOOLEAN
    /\ Accepted \subseteq Passwords
    /\ StickyCaps \subseteq Caps
    /\ MaxConnections \in Nat

VARIABLES
    clients,    \* the cids in Server::clients_
    client,     \* client[c]: the Client of c (NewClient while c is not in clients)
    nicks       \* Server::nicks_, NoClient where a folded nick is absent

regVars == <<clients, client, nicks>>

-----------------------------------------------------------------------------
\* markedForClose, with what it still allows.  "marked": set from outside the
\* client's own line; processBuffer tests the mark only after a line has run,
\* so one more line may run.  "drained": no line of this client runs any more.
CloseState == {"open", "marked", "drained"}

Client ==
    [nick : Nicks \cup {NoNick}, user : BOOLEAN, pass : Passwords \cup {NoPass},
     capNegotiating : BOOLEAN, cap302 : BOOLEAN, enabledCaps : SUBSET Caps,
     registered : BOOLEAN, close : CloseState]

NewClient ==
    [nick |-> NoNick, user |-> FALSE, pass |-> NoPass,
     capNegotiating |-> FALSE, cap302 |-> FALSE, enabledCaps |-> {},
     registered |-> FALSE, close |-> "open"]

RegInit ==
    /\ clients = {}
    /\ client = [c \in Cids |-> NewClient]
    /\ nicks = [k \in FoldedNicks |-> NoClient]

\* c has a complete line and processBuffer hands it to the line handler.
RunsLine(c) == c \in clients /\ client[c].close # "drained"

\* processBuffer after a line: a marked client gets no second one.
AfterLine(r) == IF r.close = "marked" THEN [r EXCEPT !.close = "drained"] ELSE r

\* Whatever the line did to c's own record, followed by processBuffer's test.
LineLeaves(c, r) == client' = [client EXCEPT ![c] = AfterLine(r)]

ReadyToRegister(r) ==
    /\ ~r.registered
    /\ r.nick # NoNick
    /\ r.user
    /\ ~r.capNegotiating

PasswordOK(r) == PasswordRequired => r.pass \in Accepted

\* Mutation: the password is not looked at.
CompleteUnchecked(r) ==
    IF ReadyToRegister(r) THEN [r EXCEPT !.pass = NoPass, !.registered = TRUE] ELSE r

TryCompleteRegistration(r) ==
    IF ~ReadyToRegister(r) THEN r
    ELSE IF PasswordOK(r) THEN [r EXCEPT !.pass = NoPass, !.registered = TRUE]
    ELSE [r EXCEPT !.pass = NoPass, !.close = "drained"]

Sticky(r) == IF r.cap302 THEN StickyCaps ELSE {}

\* Mutation: nicks are compared as spelled.
NickShownExactly(n) == \E c \in clients : client[c].nick = n

NickExists(n) == nicks[Fold[n]] # NoClient

-----------------------------------------------------------------------------
Accept(c) ==
    /\ c \notin clients
    /\ Cardinality(clients) < MaxConnections
    /\ clients' = clients \cup {c}
    /\ client' = [client EXCEPT ![c] = NewClient]
    /\ UNCHANGED nicks

\* A refused or read-only line.
OtherLine(c) ==
    /\ RunsLine(c)
    /\ LineLeaves(c, client[c])
    /\ UNCHANGED <<clients, nicks>>

Pass(c, p) ==
    /\ RunsLine(c)
    /\ ~client[c].registered
    /\ LineLeaves(c, [client[c] EXCEPT !.pass = p])
    /\ UNCHANGED <<clients, nicks>>

FirstNick(c, n) ==
    /\ RunsLine(c)
    /\ client[c].nick = NoNick
    /\ ~NickExists(n)
    /\ nicks' = [nicks EXCEPT ![Fold[n]] = c]
    /\ LineLeaves(c, TryCompleteRegistration([client[c] EXCEPT !.nick = n]))
    /\ UNCHANGED clients

\* Mutation: the new nick is entered before the old one is taken out.
RenameUnregistersLast(c, n) ==
    LET old == client[c].nick IN
    /\ RunsLine(c)
    /\ old \notin {NoNick, n}
    /\ Fold[n] = Fold[old] \/ ~NickExists(n)
    /\ nicks' = [nicks EXCEPT ![Fold[n]] = c, ![Fold[old]] = NoClient]
    /\ LineLeaves(c, [client[c] EXCEPT !.nick = n])
    /\ UNCHANGED clients

Rename(c, n) ==
    LET old == client[c].nick IN
    /\ RunsLine(c)
    /\ old \notin {NoNick, n}
    /\ Fold[n] = Fold[old] \/ ~NickExists(n)
    /\ nicks' = [nicks EXCEPT ![Fold[old]] = NoClient, ![Fold[n]] = c]
    /\ LineLeaves(c, [client[c] EXCEPT !.nick = n])
    /\ UNCHANGED clients

User(c) ==
    /\ RunsLine(c)
    /\ ~client[c].registered
    /\ LineLeaves(c, TryCompleteRegistration([client[c] EXCEPT !.user = TRUE]))
    /\ UNCHANGED <<clients, nicks>>

CapLs(c, is302) ==
    /\ RunsLine(c)
    /\ LineLeaves(c, [client[c] EXCEPT !.cap302 = @ \/ is302,
                                       !.capNegotiating = @ \/ ~client[c].registered])
    /\ UNCHANGED <<clients, nicks>>

\* An acknowledged CAP REQ; on and off are what its last mention of each
\* capability asks for.  A refused one (NAK) is on = off = {}.
CapReq(c, on, off) ==
    /\ RunsLine(c)
    /\ off \cap Sticky(client[c]) = {}
    /\ LineLeaves(c, [client[c] EXCEPT !.enabledCaps = (@ \ off) \cup on,
                                       !.capNegotiating = @ \/ ~client[c].registered])
    /\ UNCHANGED <<clients, nicks>>

\* Mutation: CAP END leaves the registration to a later NICK or USER.
CapEndCompletesNothing(c) ==
    /\ RunsLine(c)
    /\ ~client[c].registered
    /\ LineLeaves(c, [client[c] EXCEPT !.capNegotiating = FALSE])
    /\ UNCHANGED <<clients, nicks>>

CapEnd(c) ==
    /\ RunsLine(c)
    /\ ~client[c].registered
    /\ LineLeaves(c, TryCompleteRegistration([client[c] EXCEPT !.capNegotiating = FALSE]))
    /\ UNCHANGED <<clients, nicks>>

\* Mutation: CAP CLEAR spares nothing.
CapClearAll(c) ==
    /\ RunsLine(c)
    /\ LineLeaves(c, [client[c] EXCEPT !.enabledCaps = {}])
    /\ UNCHANGED <<clients, nicks>>

CapClear(c) ==
    /\ RunsLine(c)
    /\ LineLeaves(c, [client[c] EXCEPT !.enabledCaps = @ \cap Sticky(client[c])])
    /\ UNCHANGED <<clients, nicks>>

-----------------------------------------------------------------------------
\* Mutation: closeClient does not look whether the client is still there.
MarkAnyone(c) ==
    /\ client[c].close = "open"
    /\ client' = [client EXCEPT ![c].close = "marked"]
    /\ UNCHANGED <<clients, nicks>>

\* closeClient outside c's own line: another client's broadcast overflowed
\* c's send buffer, or reapTimeouts gave up on c.
Mark(c) ==
    /\ c \in clients
    /\ client[c].close = "open"
    /\ client' = [client EXCEPT ![c].close = "marked"]
    /\ UNCHANGED <<clients, nicks>>

\* closeClient while c is being serviced: QUIT, a poll error, a TLS failure,
\* a flood, or c's own replies overflowing its send buffer.
Drop(c) ==
    /\ RunsLine(c)
    /\ client' = [client EXCEPT ![c].close = "drained"]
    /\ UNCHANGED <<clients, nicks>>

\* The sweep of Server::run reaches a marked client.
Teardown(c) ==
    LET nick == client[c].nick IN
    /\ c \in clients
    /\ client[c].close # "open"
    /\ nicks' = IF nick = NoNick THEN nicks ELSE [nicks EXCEPT ![Fold[nick]] = NoClient]
    /\ clients' = clients \ {c}
    /\ client' = [client EXCEPT ![c] = NewClient]

RegStep(c) ==
    \/ Accept(c)
    \/ OtherLine(c)
    \/ \E p \in Passwords \cup {NoPass} : Pass(c, p)
    \/ \E n \in Nicks : FirstNick(c, n)
    \/ \E n \in Nicks : Rename(c, n)
    \/ User(c)
    \/ \E is302 \in BOOLEAN : CapLs(c, is302)
    \/ \E on \in SUBSET Caps : \E off \in SUBSET (Caps \ on) : CapReq(c, on, off)
    \/ CapEnd(c)
    \/ CapClear(c)
    \/ Mark(c)
    \/ Drop(c)
    \/ Teardown(c)

RegNext == \E c \in Cids : RegStep(c)

RegSpec == RegInit /\ [][RegNext]_regVars

-----------------------------------------------------------------------------
\* Types, and the record of a cid that is not connected is blank.
RegTypeOK ==
    /\ clients \subseteq Cids
    /\ client \in [Cids -> Client]
    /\ nicks \in [FoldedNicks -> Cids \cup {NoClient}]
    /\ \A c \in Cids \ clients : client[c] = NewClient

\* c answers to the folded nick k.
AnswersTo(c, k) == c \in clients /\ client[c].nick # NoNick /\ Fold[client[c].nick] = k

\* The nick table and the clients agree both ways: registerNick, unregisterNick
\* and the assignments to Client::nick never drift apart (m_nick.cpp:41-43,
\* Server.cpp:398), so a lookup by nick reaches the client that shows it.
NickTableExact ==
    \A k \in FoldedNicks, c \in Cids : nicks[k] = c <=> AnswersTo(c, k)

\* No client that can still send waits for a registration nobody will finish:
\* whichever of NICK, USER and CAP END comes last completes it, and a rename,
\* which does not call tryCompleteRegistration, never was the last one.
RegistrationNeverHangs ==
    \A c \in clients : client[c].close # "drained" => ~ReadyToRegister(client[c])

\* Registration is final: a registered client has a nick and a user, is not
\* held back by a later CAP LS or CAP REQ, and its password has been wiped
\* (Server.cpp:491,494) with no later PASS bringing one back.
RegisteredIsSettled ==
    \A c \in clients : client[c].registered =>
        /\ client[c].nick # NoNick
        /\ client[c].user
        /\ ~client[c].capNegotiating
        /\ client[c].pass = NoPass

\* No order of PASS, NICK, USER and CAP END, and no retry, registers a client
\* whose latest password was not accepted (Server.cpp:487-493).
RegistrationChecksPassword ==
    [][\A c \in Cids :
        ~client[c].registered /\ client'[c].registered => PasswordOK(client[c])]_regVars

\* "caps that, once ack'd, cannot be disabled by the client" (m_cap.cpp:15):
\* while the client stays connected, a sticky capability stays enabled.
StickyCapsStay ==
    [][\A c \in clients \cap clients' :
        client[c].enabledCaps \cap Sticky(client[c]) \subseteq client'[c].enabledCaps]_regVars

\* The owner of a nick as the clients themselves show it, not as nicks has it.
ShownOwner ==
    [k \in FoldedNicks |->
        IF \E c \in Cids : AnswersTo(c, k) THEN CHOOSE c \in Cids : AnswersTo(c, k)
        ELSE NoClient]

Ownership == INSTANCE NickOwnership
    WITH Names <- FoldedNicks, Owners <- Cids, Nobody <- NoClient, owner <- ShownOwner

\* The nicks the clients show behave like an ownership with no table behind
\* it: the handlers, which consult only the table, implement NickOwnership.
NicksAreOwned == Ownership!OwnSpec

=============================================================================

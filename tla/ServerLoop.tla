----------------------------- MODULE ServerLoop -----------------------------
(***************************************************************************)
(* Server::run: one round polls, accepts at most one connection, services  *)
(* the clients poll reported, sweeps the clients marked for closing and,   *)
(* every few seconds, looks for silent ones.  Everything runs in one       *)
(* thread; clients_ is an unordered map, so a pass over it takes any       *)
(* order.                                                                  *)
(*                                                                         *)
(* TLS is OpenSSL, known by what the code asks of it: SSL_accept, SSL_read *)
(* and SSL_write make progress, want the socket readable or writable,      *)
(* report an orderly end, or fail.  SSL_get_error answers from the         *)
(* thread's error queue before it looks at the connection, and the server  *)
(* never empties that queue once it runs; only a handshake step does.      *)
(*                                                                         *)
(* What a line means is Govord's concern.  Here a line is what the loop    *)
(* sees of it: messages for some clients, perhaps a registration, perhaps  *)
(* the end of its own client.  Time is counted in polls' seconds, and the  *)
(* rest of a round takes none.                                             *)
(***************************************************************************)
EXTENDS Integers, FiniteSets

CONSTANTS
    Cids,               \* client ids
    NoClient,           \* no client is being serviced
    MaxSend,            \* MAX_SENDBUFLEN, in messages
    MaxLines,           \* complete lines one doRead may bring (bound)
    PingInterval,       \* PING_INTERVAL_SEC
    PingTimeout,        \* PING_TIMEOUT_SEC
    ConnectTimeout,     \* CONNECT_TIMEOUT_SEC
    ReapEvery,          \* the 5 seconds of Server::run
    Horizon             \* an age beyond every limit, where ages stop counting (bound)

ReapPeriod == ReapEvery + 1

ASSUME LoopAssumption ==
    /\ NoClient \notin Cids
    /\ {MaxSend, MaxLines, PingInterval, PingTimeout, ConnectTimeout, ReapEvery, Horizon}
        \subseteq Nat
    /\ PingInterval <= PingTimeout
    /\ {PingTimeout, ConnectTimeout, ReapEvery} \subseteq 0..Horizon - 1

VARIABLES
    conn,       \* conn[c]: the Client of c, NoConn where c is not in clients_
    stage,      \* where in the round the thread is
    todo,       \* the clients the pass of this stage has not reached
    revents,    \* what poll reported of each client and is not yet served
    cur,        \* the client in the middle of serviceClient, or NoClient
    errors,     \* the thread's OpenSSL error queue is not empty
    sinceReap   \* now - lastReapAt_

loopVars == <<conn, stage, todo, revents, cur, errors, sinceReap>>

-----------------------------------------------------------------------------
Stages == {"poll", "service", "lines", "sweep", "stopped"}

Reasons == {"none", "tls", "ping timeout", "registration timeout", "other"}

\* recvBuf counts the complete lines, sendBuf the messages; connected, active
\* and pinged are the ages of connectedAt, lastActiveAt and pingSentAt; broken
\* records that the connection's own TLS has failed.
Conn ==
    [up : BOOLEAN, handshakeDone : BOOLEAN, registered : BOOLEAN,
     wantRead : BOOLEAN, wantWrite : BOOLEAN, broken : BOOLEAN,
     recvBuf : 0..MaxLines, sendBuf : 0..MaxSend,
     markedForClose : BOOLEAN, closeReason : Reasons, pingPending : BOOLEAN,
     connected : 0..Horizon, active : 0..Horizon, pinged : 0..Horizon]

NoConn ==
    [up |-> FALSE, handshakeDone |-> FALSE, registered |-> FALSE,
     wantRead |-> TRUE, wantWrite |-> FALSE, broken |-> FALSE,
     recvBuf |-> 0, sendBuf |-> 0,
     markedForClose |-> FALSE, closeReason |-> "none", pingPending |-> FALSE,
     connected |-> 0, active |-> 0, pinged |-> 0]

NewConn == [NoConn EXCEPT !.up = TRUE]

Up == {c \in Cids : conn[c].up}

LoopInit ==
    /\ conn = [c \in Cids |-> NoConn]
    /\ stage = "poll"
    /\ todo = {}
    /\ revents = [c \in Cids |-> {}]
    /\ cur = NoClient
    /\ errors = FALSE
    /\ sinceReap = 0

Close(r, why) == [r EXCEPT !.markedForClose = TRUE, !.closeReason = why]

Receive(r) ==
    IF ~r.up \/ r.markedForClose THEN r
    ELSE IF r.sendBuf = MaxSend THEN Close(r, "other")
    ELSE [r EXCEPT !.sendBuf = @ + 1]

SendTo(cs, to) == [c \in Cids |-> IF c \in to THEN Receive(cs[c]) ELSE cs[c]]

WantRead(r) == [r EXCEPT !.wantRead = TRUE, !.wantWrite = FALSE]

WantWrite(r) == [r EXCEPT !.wantRead = FALSE, !.wantWrite = TRUE]

\* The mask poll is given for a client.
Requested(r) ==
    {e \in {"in", "out"} : \/ e = "in" /\ r.wantRead
                           \/ e = "out" /\ (r.wantWrite \/ r.sendBuf > 0)}

Later(age, s) == IF age + s > Horizon THEN Horizon ELSE age + s

Aged(r, s) ==
    IF ~r.up THEN r
    ELSE [r EXCEPT !.connected = Later(@, s), !.active = Later(@, s),
                   !.pinged = IF r.pingPending THEN Later(@, s) ELSE @]

\* SSL_get_error: any entry in the queue makes the answer an error.
Answer(result) == IF errors THEN "failed" ELSE result

\* A failed call may leave entries in the queue.
Queued(result) == IF result = "failed" THEN {errors, TRUE} ELSE {errors}

Noted(r, result) == [r EXCEPT !.broken = @ \/ result = "failed"]

-----------------------------------------------------------------------------
\* poll returns early for an event, otherwise after its second; acceptOne
\* takes one connection at most.
Poll(s, new, ev) ==
    /\ stage = "poll"
    /\ \A c \in Cids : ev[c] \subseteq IF conn[c].up THEN Requested(conn[c]) \cup {"hup"} ELSE {}
    /\ s = 1 \/ new # {} \/ \E c \in Cids : ev[c] # {}
    /\ conn' = [c \in Cids |-> IF c \in new THEN NewConn ELSE Aged(conn[c], s)]
    /\ sinceReap' = Later(sinceReap, s)
    /\ stage' = "service"
    /\ todo' = {c \in Cids : ev[c] # {}}
    /\ revents' = ev
    /\ UNCHANGED <<cur, errors>>

\* serviceClient may turn, or return, to c.
Turn(c) == stage = "service" /\ c \in todo /\ cur \in {NoClient, c}

\* serviceClient has returned from c.
Serviced(c) ==
    /\ todo' = todo \ {c}
    /\ revents' = [revents EXCEPT ![c] = {}]
    /\ cur' = NoClient
    /\ UNCHANGED <<stage, sinceReap>>

HangUp(c) ==
    /\ Turn(c)
    /\ "hup" \in revents[c]
    /\ conn' = [conn EXCEPT ![c] = Close(@, "other")]
    /\ Serviced(c)
    /\ UNCHANGED errors

\* SSL_accept empties the error queue before it does anything.
DoHandshake(c, result) ==
    /\ Turn(c)
    /\ "hup" \notin revents[c]
    /\ ~conn[c].handshakeDone
    /\ conn' = [conn EXCEPT ![c] =
        CASE result = "done"       -> [WantRead(@) EXCEPT !.handshakeDone = TRUE]
          [] result = "want read"  -> WantRead(@)
          [] result = "want write" -> WantWrite(@)
          [] result = "failed"     -> Close(Noted(@, result), "tls")]
    /\ errors' \in IF result = "failed" THEN BOOLEAN ELSE {FALSE}
    /\ Serviced(c)

\* Mutation: hearing from a client does not settle the pending ping.
HeardOnly(r) == [r EXCEPT !.active = 0]

Heard(r) == [r EXCEPT !.active = 0, !.pingPending = FALSE]

\* The reading loop of doRead: got complete lines, data at all, and what the
\* last SSL_read said.  Only the two WANT results reach processBuffer.
DoRead(c, got, data, result) ==
    LET r == Noted(IF data THEN [Heard(conn[c]) EXCEPT !.recvBuf = @ + got] ELSE conn[c],
                   result)
        answer == IF result = "flood" THEN result ELSE Answer(result)
    IN
    /\ Turn(c)
    /\ "hup" \notin revents[c]
    /\ conn[c].handshakeDone
    /\ "in" \in revents[c]
    /\ conn[c].recvBuf + got <= MaxLines
    /\ got > 0 => data
    /\ conn' = [conn EXCEPT ![c] =
        CASE answer = "want read"  -> WantRead(r)
          [] answer = "want write" -> WantWrite(r)
          [] answer = "failed"     -> Close(r, "tls")
          [] OTHER                 -> Close(r, "other")]
    /\ stage' = IF answer \in {"want read", "want write"} THEN "lines" ELSE stage
    /\ errors' \in Queued(result)
    /\ revents' = [revents EXCEPT ![c] = @ \ {"in"}]
    /\ cur' = c
    /\ UNCHANGED <<todo, sinceReap>>

\* Mutations: the mark is never tested; only the first line is handled.
GoesOn(r) == "lines"
StopsAlways(r) == "service"

\* processBuffer tests the mark after each line.
AfterLine(r) == IF r.markedForClose THEN "service" ELSE "lines"

\* processBuffer hands over one line: its handler sends to some clients, may
\* complete the registration and may close its own client.
RunLine(c, to, registers, quits) ==
    LET read == [conn EXCEPT ![c].recvBuf = @ - 1, ![c].registered = @ \/ registers]
        sent == SendTo(read, to)
    IN
    /\ stage = "lines"
    /\ cur = c
    /\ conn[c].recvBuf > 0
    /\ conn' = IF quits THEN [sent EXCEPT ![c] = Close(@, "other")] ELSE sent
    /\ stage' = AfterLine(conn'[c])
    /\ UNCHANGED <<todo, revents, cur, errors, sinceReap>>

\* No complete line is left; what is there may be too long to become one.
LinesEnd(c, tooLong) ==
    /\ stage = "lines"
    /\ cur = c
    /\ conn[c].recvBuf = 0
    /\ conn' = IF tooLong THEN [conn EXCEPT ![c] = Close(@, "other")] ELSE conn
    /\ stage' = "service"
    /\ UNCHANGED <<todo, revents, cur, errors, sinceReap>>

\* doWrite leaves left messages unsent, because of result, or none ("done").
DoWrite(c, left, result) ==
    /\ Turn(c)
    /\ revents[c] = {"out"}
    /\ conn[c].handshakeDone
    /\ ~conn[c].markedForClose
    /\ left <= conn[c].sendBuf
    /\ left = 0 <=> result = "done"
    /\ LET r == Noted([conn[c] EXCEPT !.sendBuf = left], result) IN
        conn' = [conn EXCEPT ![c] =
            CASE result = "done"               -> [r EXCEPT !.wantWrite = FALSE]
              [] Answer(result) = "want read"  -> WantRead(r)
              [] Answer(result) = "want write" -> [r EXCEPT !.wantWrite = TRUE]
              [] OTHER                         -> Close(r, "tls")]
    /\ errors' \in Queued(result)
    /\ Serviced(c)

\* The write is skipped for a client marked by now, or was not asked for.
NoWrite(c) ==
    /\ Turn(c)
    /\ conn[c].handshakeDone
    /\ revents[c] \cap {"in", "hup"} = {}
    /\ conn[c].markedForClose \/ revents[c] = {}
    /\ Serviced(c)
    /\ UNCHANGED <<conn, errors>>

\* Mutation: the sweep waits for a client that still has something to write.
BeginSweepOfFlushed ==
    /\ stage = "service"
    /\ todo = {}
    /\ stage' = "sweep"
    /\ todo' = {c \in Up : ~conn[c].wantWrite}
    /\ UNCHANGED <<conn, revents, cur, errors, sinceReap>>

BeginSweep ==
    /\ stage = "service"
    /\ todo = {}
    /\ stage' = "sweep"
    /\ todo' = Up
    /\ UNCHANGED <<conn, revents, cur, errors, sinceReap>>

\* The pass over clients_ reaches c.  A teardown tells the members of the
\* channels c leaves operatorless who succeeds it, and its last SSL_write and
\* SSL_shutdown may leave errors in the queue.
Sweep(c, to) ==
    /\ stage = "sweep"
    /\ c \in todo
    /\ IF conn[c].markedForClose
       THEN /\ conn' = SendTo([conn EXCEPT ![c] = NoConn], to)
            /\ errors' \in {errors, TRUE}
       ELSE to = {} /\ UNCHANGED <<conn, errors>>
    /\ todo' = todo \ {c}
    /\ UNCHANGED <<stage, revents, cur, sinceReap>>

\* Mutation: it is not noted that a PING was sent.
PingedUnnoted(r) == Receive(r)

Pinged(r) == [Receive(r) EXCEPT !.pingPending = TRUE, !.pinged = 0]

\* Mutation: clients that have not registered are left alone.
ReapedOfRegistered(r) ==
    IF ~r.up \/ r.markedForClose \/ ~r.registered THEN r
    ELSE IF r.pingPending
         THEN IF r.pinged > PingTimeout - PingInterval THEN Close(r, "ping timeout") ELSE r
    ELSE IF r.active > PingInterval THEN Pinged(r) ELSE r

Reaped(r) ==
    IF ~r.up \/ r.markedForClose THEN r
    ELSE IF ~r.registered
         THEN IF r.connected > ConnectTimeout THEN Close(r, "registration timeout") ELSE r
    ELSE IF r.pingPending
         THEN IF r.pinged > PingTimeout - PingInterval THEN Close(r, "ping timeout") ELSE r
    ELSE IF r.active > PingInterval THEN Pinged(r) ELSE r

EndRound ==
    /\ stage = "sweep"
    /\ todo = {}
    /\ IF sinceReap > ReapEvery
       THEN /\ conn' = [c \in Cids |-> Reaped(conn[c])]
            /\ sinceReap' = 0
       ELSE UNCHANGED <<conn, sinceReap>>
    /\ stage' = "poll"
    /\ UNCHANGED <<todo, revents, cur, errors>>

\* A signal, or a failing poll, ends the loop; ~Server closes every connection.
Shutdown ==
    /\ stage = "poll"
    /\ stage' = "stopped"
    /\ conn' = [c \in Cids |-> NoConn]
    /\ UNCHANGED <<todo, revents, cur, errors, sinceReap>>

Stopped == stage = "stopped" /\ UNCHANGED loopVars

-----------------------------------------------------------------------------
Events == [Cids -> SUBSET {"in", "out", "hup"}]

Service(c) ==
    \/ HangUp(c)
    \/ \E result \in {"done", "want read", "want write", "failed"} : DoHandshake(c, result)
    \/ \E got \in 0..MaxLines, data \in BOOLEAN,
          result \in {"want read", "want write", "ended", "failed", "flood"} :
            DoRead(c, got, data, result)
    \/ \E to \in SUBSET Cids, registers, quits \in BOOLEAN : RunLine(c, to, registers, quits)
    \/ \E tooLong \in BOOLEAN : LinesEnd(c, tooLong)
    \/ \E left \in 0..MaxSend, result \in {"done", "want read", "want write", "failed"} :
            DoWrite(c, left, result)
    \/ NoWrite(c)

LoopNext ==
    \/ \E s \in {0, 1}, new \in SUBSET (Cids \ Up), ev \in Events :
            Cardinality(new) <= 1 /\ Poll(s, new, ev)
    \/ \E c \in Cids : Service(c)
    \/ BeginSweep
    \/ \E c \in Cids, to \in SUBSET Cids : Sweep(c, to)
    \/ EndRound
    \/ Shutdown
    \/ Stopped

\* poll has a time limit and nothing else in a round waits, so the thread
\* always goes on.
LoopSpec == LoopInit /\ [][LoopNext]_loopVars /\ WF_loopVars(LoopNext)

-----------------------------------------------------------------------------
\* Types, a blank record for every cid that is not connected, and a cursor
\* only inside serviceClient.
LoopTypeOK ==
    /\ conn \in [Cids -> Conn]
    /\ \A c \in Cids : conn[c].up \/ conn[c] = NoConn
    /\ stage \in Stages
    /\ todo \subseteq Up
    /\ revents \in Events
    /\ cur \in todo \cup {NoClient}
    /\ errors \in BOOLEAN
    /\ sinceReap \in 0..Horizon

\* No line is stranded: once a client has been serviced, what it sent has been
\* handled up to the last complete line, unless the client is being closed.
\* poll cannot see a line that stays in recvBuf (Server.cpp:320-337).
NoLineIsStranded ==
    \A c \in Cids : conn[c].recvBuf > 0 =>
        \/ stage = "lines" /\ cur = c
        \/ conn[c].markedForClose

\* A line of c may still run: c is not being closed, or its mark is younger
\* than its turn.
MayRunLine(c) ==
    /\ conn[c].up
    /\ \/ ~conn[c].markedForClose
       \/ stage = "poll"
       \/ stage \in {"service", "lines"} /\ c \in todo /\ "in" \in revents[c]
       \/ stage = "lines" /\ cur = c
       \/ stage = "sweep" /\ c \notin todo

LineRuns(c) == stage = "lines" /\ cur = c /\ conn'[c].recvBuf < conn[c].recvBuf

\* processBuffer tests the mark only after a line (Server.cpp:334-335), and
\* clients are marked by others' broadcasts, by the sweep and by the reaper:
\* still a client runs at most one line after its mark.
OneLastLine ==
    [][\A c \in Cids :
        /\ LineRuns(c) => MayRunLine(c)
        /\ conn[c].markedForClose /\ conn'[c].up /\ (LineRuns(c) \/ ~MayRunLine(c))
                => conn'[c].markedForClose /\ ~MayRunLine(c)']_loopVars

\* Whoever marks a client, and at whatever point of the round, a sweep gets to it.
MarkedIsGone == \A c \in Cids : conn[c].markedForClose ~> ~conn[c].up

\* "Ping timeout" is never said to a client that was heard from: a late answer
\* read before the reaper looks always saves it (Server.cpp:287-288, 423-426).
PingTimeoutMeansSilence ==
    [][\A c \in Cids :
        conn'[c].closeReason = "ping timeout" /\ ~conn[c].markedForClose
            => conn[c].active > PingTimeout]_loopVars

\* And silence is not tolerated for long, not even that of a connection the
\* server has stopped polling for input (wantRead and wantWrite both false,
\* Server.cpp:293,317): the reaper's own period delays it twice.
SilenceIsBounded ==
    \A c \in Cids : conn[c].registered /\ ~conn[c].markedForClose
        => conn[c].active <= PingTimeout + 2 * ReapPeriod

\* Nor is a client that never registers, in the handshake or after it.
RegistrationIsBounded ==
    \A c \in Cids : conn[c].up /\ ~conn[c].registered /\ ~conn[c].markedForClose
        => conn[c].connected <= ConnectTimeout + ReapPeriod

\* A TLS error closes the connection it happened on: "TLS handshake failed",
\* "read error" and "write error" (Server.cpp:273,295,314) are said of a
\* connection whose TLS failed.
ErrorsAreTheirOwn == \A c \in Cids : conn[c].closeReason = "tls" => conn[c].broken

=============================================================================

------------------------------ MODULE ClientLoop ------------------------------
(***************************************************************************)
(* The main thread of govorirc and its connection: the constructor of      *)
(* Socket, which tries the addresses of the server one after the other,    *)
(* the loop that polls the socket and the keyboard in turn, and what is    *)
(* left to do when it ends.  A line handler, of the server's lines or of   *)
(* the user's, may send, and a send that overflows closes the socket under *)
(* the functions that are using it.                                        *)
(*                                                                         *)
(* Buffers are counted in lines; a close because of a full buffer may come *)
(* at any of them, since lines differ in length.  OpenSSL, poll and the    *)
(* terminal are external: what they may return is a choice.                *)
(***************************************************************************)
EXTENDS Integers

CONSTANTS
    MaxAddrs,       \* addresses the server's name resolves to
    MaxFlights,     \* waits for the network in one TLS handshake, which is finite
    MaxHeld,        \* bound on the lines in recvBuf_
    MaxSending,     \* bound on the lines in sendBuf_
    MaxIncoming     \* bound on the lines in the network

ASSUME ClientLoopAssumption ==
    /\ {MaxAddrs, MaxFlights, MaxIncoming} \subseteq Nat
    /\ {MaxHeld, MaxSending} \subseteq Nat \ {0}

VARIABLES
    at,         \* where the main thread is
    mode,       \* "starting", "running", "ending" the session, or "failed" to connect
    addrs,      \* addresses not tried yet
    flights,    \* waits left in the handshake that is going on
    sk,         \* the Socket
    ready,      \* what the last poll reported
    stop,       \* g_stop
    quit,       \* Ui::stop_
    gone,       \* the other end has closed the connection
    incoming    \* lines in the network

threadVars == <<at, mode, addrs, flights, sk, ready, quit, incoming>>
mainVars == <<threadVars, stop, gone>>

-----------------------------------------------------------------------------
LoopStart ==
    /\ at = "connect"
    /\ mode = "starting"
    /\ addrs = MaxAddrs
    /\ flights = MaxFlights
    /\ sk = [open |-> FALSE, tls |-> FALSE, closed |-> FALSE,
             wantRead |-> TRUE, wantWrite |-> FALSE, sending |-> 0, held |-> 0]
    /\ ready = {}
    /\ stop = FALSE
    /\ quit = FALSE
    /\ gone = FALSE
    /\ incoming = 0

Closed(s) == [s EXCEPT !.closed = TRUE, !.open = FALSE, !.tls = FALSE]

\* What send may make of the socket: one line more, or a close for overflow.
Sent(s) ==
    IF s.closed THEN {s}
    ELSE {Closed(s)} \cup {[s EXCEPT !.sending = n] : n \in {s.sending + 1} \cap 0 .. MaxSending}

Goes(place) == at' = place /\ UNCHANGED <<mode, addrs, flights, ready, quit, incoming>>

-----------------------------------------------------------------------------
\* resolveAndConnect, in which nobody looks at g_stop.

\* No address is left, or the name has none.
NoAddress ==
    /\ at = "connect" /\ addrs = 0
    /\ sk' = [sk EXCEPT !.closed = TRUE]
    /\ mode' = "failed"
    /\ at' = "turn"
    /\ UNCHANGED <<addrs, flights, ready, quit, incoming>>

\* socket, connect and SSL_new succeed, or one of them fails.
TryAddress ==
    /\ at = "connect" /\ addrs > 0
    /\ addrs' = addrs - 1
    /\ \/ UNCHANGED <<at, sk, flights>>
       \/ /\ sk' = [sk EXCEPT !.open = TRUE, !.tls = TRUE]
          /\ flights' = MaxFlights
          /\ at' = "handshake"
    /\ UNCHANGED <<mode, ready, quit, incoming>>

\* The poll of doHandshake reports what it waited for (a signal only repeats it).
HandshakeGoesOn ==
    /\ at = "handshake" /\ flights > 0
    /\ flights' = flights - 1
    /\ UNCHANGED <<at, mode, addrs, sk, ready, quit, incoming>>

\* A TLS error, a poll error or ten seconds without an answer.
HandshakeFails ==
    /\ at = "handshake"
    /\ sk' = [sk EXCEPT !.open = FALSE, !.tls = FALSE]
    /\ Goes("connect")

\* Connected; sendHandshake fills the buffer for the first time.
HandshakeEnds ==
    /\ at = "handshake"
    /\ sk' \in Sent(sk)
    /\ mode' = "running"
    /\ at' = "turn"
    /\ UNCHANGED <<addrs, flights, ready, quit, incoming>>

-----------------------------------------------------------------------------
\* The head of the main loop, or of the one after a failure to connect; at its
\* end a caught signal still says QUIT and polls once more.

\* Mutation: only the user's own /quit ends the loop.
TurnUntilQuit ==
    /\ at = "turn"
    /\ IF mode = "failed" THEN Goes(IF quit THEN "exit" ELSE "keys") /\ UNCHANGED sk
       ELSE IF ~quit /\ ~sk.closed THEN Goes("poll") /\ UNCHANGED sk
       ELSE Goes("exit") /\ sk' = Closed(sk)

Turn ==
    /\ at = "turn"
    /\ \/ /\ mode = "failed"
          /\ Goes(IF stop \/ quit THEN "exit" ELSE "keys")
          /\ UNCHANGED sk
       \/ /\ mode = "running" /\ ~stop /\ ~quit /\ ~sk.closed
          /\ Goes("poll")
          /\ UNCHANGED sk
       \/ /\ mode = "running" /\ stop /\ ~sk.closed
          /\ sk' \in Sent(sk)
          /\ mode' = "ending"
          /\ at' = "poll"
          /\ UNCHANGED <<addrs, flights, ready, quit, incoming>>
       \/ /\ mode = "running" /\ (sk.closed \/ (quit /\ ~stop))
          /\ Goes("exit")
          /\ sk' = Closed(sk)

\* Back from Socket::poll; the last one is followed by the destructor.
Returns(s) ==
    /\ Goes(IF mode = "ending" THEN "exit" ELSE "keys")
    /\ sk' = IF mode = "ending" THEN Closed(s) ELSE s

\* Mutation: either direction is asked for, not both.
AsksForOne(s) == IF s.wantWrite \/ s.sending > 0 THEN {"out"} ELSE IF s.wantRead THEN {"in"} ELSE {}

Requested(s) ==
    (IF s.wantRead THEN {"in"} ELSE {}) \cup (IF s.wantWrite \/ s.sending > 0 THEN {"out"} ELSE {})

\* What poll cannot but report: data, the end of the stream, and a way to write to
\* (or an error from) an end that does not hold anything back any more.
Due == {e \in Requested(sk) : gone \/ (e = "in" /\ incoming > 0)}

\* Nothing within the timeout; an error or a hangup; or what was asked for.  The
\* flag closed_ is looked at before anything else.
Poll ==
    /\ at = "poll"
    /\ \/ (sk.closed \/ Due = {}) /\ Returns(sk)
       \/ ~sk.closed /\ Returns(Closed(sk))
       \/ /\ ~sk.closed
          /\ ready' \in SUBSET Requested(sk) \ {{}}
          /\ Due \subseteq ready'
          /\ at' = IF "in" \in ready' THEN "reading" ELSE "writing"
          /\ UNCHANGED <<mode, addrs, flights, sk, quit, incoming>>

\* An operation on a connection whose other end has closed completes or fails; on
\* any other it may also have to wait, to read or to write.

\* SSL_read: data, which may be more than recvBuf_ takes; nothing more for now;
\* a write to be done first; or an end, which leaves lines unhandled.
ReadData ==
    /\ at = "reading" /\ incoming > 0
    /\ incoming' = incoming - 1
    /\ \/ /\ sk.held < MaxHeld
          /\ sk' = [sk EXCEPT !.held = @ + 1]
          /\ UNCHANGED at
       \/ /\ sk' = Closed(sk)
          /\ at' = IF mode = "ending" THEN "exit" ELSE "keys"
    /\ UNCHANGED <<mode, addrs, flights, ready, quit>>

ReadStops ==
    /\ at = "reading"
    /\ \/ /\ incoming = 0 /\ ~gone
          /\ sk' = [sk EXCEPT !.wantRead = TRUE, !.wantWrite = FALSE]
          /\ Goes("lines")
       \/ /\ ~gone
          /\ sk' = [sk EXCEPT !.wantRead = FALSE, !.wantWrite = TRUE]
          /\ Goes("lines")
       \/ Returns(Closed(sk))

\* Mutation: processBuffer is left without looking at closed_.
LinesGoOn ==
    /\ at = "lines"
    /\ IF sk.held > 0
       THEN sk' \in Sent([sk EXCEPT !.held = @ - 1]) \cup {[sk EXCEPT !.held = @ - 1]} /\ Goes("lines")
       ELSE IF "out" \in ready THEN Goes("writing") /\ UNCHANGED sk
       ELSE Returns(sk)

\* processBuffer, and the test of closed_ behind it in poll.
Lines ==
    /\ at = "lines"
    /\ IF sk.closed THEN Returns(sk)
       ELSE IF sk.held > 0
       THEN /\ sk' \in Sent([sk EXCEPT !.held = @ - 1]) \cup {[sk EXCEPT !.held = @ - 1]}
            /\ Goes("lines")
       ELSE IF "out" \in ready THEN Goes("writing") /\ UNCHANGED sk
       ELSE Returns(sk)

\* onWritable
Write ==
    /\ at = "writing"
    /\ \/ sk.sending = 0 /\ Returns([sk EXCEPT !.wantWrite = FALSE])
       \/ sk.sending > 0 /\ sk' = [sk EXCEPT !.sending = @ - 1] /\ Goes("writing")
       \/ sk.sending > 0 /\ ~gone /\ Returns([sk EXCEPT !.wantRead = TRUE])
       \/ sk.sending > 0 /\ ~gone /\ Returns([sk EXCEPT !.wantWrite = TRUE])
       \/ sk.sending > 0 /\ Returns(Closed(sk))

-----------------------------------------------------------------------------
\* Ui::tick

NoKey == at = "keys" /\ Goes("turn") /\ UNCHANGED sk

\* A line is entered; without a connection it is only said so.
EnterLine ==
    /\ at = "keys" /\ ~sk.closed
    /\ sk' \in Sent(sk)
    /\ Goes("keys")

EnterQuit ==
    /\ at = "keys"
    /\ quit' = TRUE
    /\ at' = "turn"
    /\ UNCHANGED <<mode, addrs, flights, sk, ready, incoming>>

\* The first byte of a multibyte key: the others are read without a timeout.
SequenceBegins == at = "keys" /\ Goes("sequence") /\ UNCHANGED sk
SequenceEnds == at = "sequence" /\ Goes("keys") /\ UNCHANGED sk

-----------------------------------------------------------------------------
\* The world outside.

\* A signal also cuts a poll short (EINTR).
Signal ==
    /\ ~stop
    /\ stop' = TRUE
    /\ IF at = "poll" THEN Returns(sk) ELSE UNCHANGED threadVars
    /\ UNCHANGED gone

PeerSends ==
    /\ mode # "starting" /\ ~gone /\ incoming < MaxIncoming
    /\ incoming' = incoming + 1
    /\ UNCHANGED <<at, mode, addrs, flights, sk, ready, stop, quit, gone>>

PeerCloses ==
    /\ mode # "starting" /\ ~gone
    /\ gone' = TRUE
    /\ UNCHANGED <<threadVars, stop>>

Program ==
    /\ \/ NoAddress \/ TryAddress \/ HandshakeGoesOn \/ HandshakeFails \/ HandshakeEnds
       \/ Turn \/ Poll \/ ReadData \/ ReadStops \/ Lines \/ Write \/ NoKey
    /\ UNCHANGED <<stop, gone>>

Keyboard ==
    /\ EnterLine \/ EnterQuit \/ SequenceBegins \/ SequenceEnds
    /\ UNCHANGED <<stop, gone>>

LoopNext == Program \/ Keyboard \/ Signal \/ PeerSends \/ PeerCloses

\* The thread goes on wherever it does not wait for the user, and a user's keys do
\* not come faster than they are handled for ever.
LoopFairness ==
    /\ WF_mainVars(Program)
    /\ SF_mainVars(NoKey /\ UNCHANGED <<stop, gone>>)

LoopSpec == LoopStart /\ [][LoopNext]_mainVars /\ LoopFairness

-----------------------------------------------------------------------------
\* OpenSSL is given a live connection wherever it is called, although handlers
\* called in between may close it, and no connection tried, closed or left behind
\* stays unreleased (Socket.cpp:114-119,198,280,298-313).
UsedWhileLive ==
    /\ at \in {"handshake", "reading", "writing"} => sk.open /\ sk.tls /\ ~sk.closed
    /\ at \in {"connect", "exit"} \/ sk.closed => ~sk.open /\ ~sk.tls

\* A signal ends the program, wherever it finds it: in the handshake, in a poll, in
\* a handler or after the connection was lost (govorirc.cpp:384,422,427).  Only a
\* multibyte key whose end never comes keeps it (Ui.cpp:287).
StopIsObeyed == []<>(at # "sequence") => (stop ~> at = "exit")

\* Nothing is asked of poll: after an SSL_read that wanted to write, a write with
\* nothing to send forgets what was wanted (Socket.cpp:227,263).
Deaf == ~sk.closed /\ Requested(sk) = {}

\* A connection the other end has closed is closed here, though nobody types,
\* unless the socket has gone deaf.
LostPeerIsNoticed ==
    []<>(at # "sequence") /\ []~Deaf => (gone ~> sk.closed)

=============================================================================

----------------------------- MODULE LoopProofs -----------------------------
(***************************************************************************)
(* Theorems about the server loop, for any number of clients, any buffer   *)
(* sizes and any time limits: no line is stranded, silence and unfinished  *)
(* registrations are bounded, and a ping timeout means silence.            *)
(*                                                                         *)
(* The bounds need to be related to the reaper's own clock.  ClockOK says  *)
(* of one client how old its ages may be, given the time since the reaper  *)
(* last ran; LineOK that lines are left only while they are being handled, *)
(* and then of a client just heard, so that a registration starts with an  *)
(* age of zero.                                                            *)
(***************************************************************************)
EXTENDS ServerLoop, TLAPS

ClockOK(r, since) ==
    /\ r.closeReason # "none" => r.markedForClose
    /\ r.pingPending => r.active = Horizon \/ r.active > r.pinged + PingInterval
    /\ r.up /\ ~r.registered /\ ~r.markedForClose => r.connected <= ConnectTimeout + since
    /\ r.registered /\ ~r.markedForClose =>
          IF r.pingPending
          THEN /\ r.pinged <= (PingTimeout - PingInterval) + since
               /\ r.active <= r.pinged + PingInterval + ReapPeriod
          ELSE r.active <= PingInterval + since

\* busy: the client's lines are being handled.
LineOK(r, busy) ==
    r.recvBuf > 0 => r.markedForClose \/ (busy /\ r.active = 0 /\ ~r.pingPending)

ConnOK(r, busy, since) ==
    /\ r \in Conn
    /\ r.up \/ r = NoConn
    /\ LineOK(r, busy)
    /\ ClockOK(r, since)

Busy(c) == stage = "lines" /\ cur = c

ConnsOK ==
    /\ conn \in [Cids -> Conn]
    /\ \A c \in Cids : ConnOK(conn[c], Busy(c), sinceReap)

StageOK ==
    /\ stage \in Stages
    /\ todo \subseteq Up
    /\ revents \in Events
    /\ cur \in todo \cup {NoClient}
    /\ errors \in BOOLEAN
    /\ sinceReap \in 0..ReapPeriod
    /\ stage \in {"poll", "stopped"} => todo = {}
    /\ stage = "poll" => sinceReap <= ReapEvery
    /\ stage \in {"poll", "sweep"} => cur = NoClient

LoopInv == ConnsOK /\ StageOK

-----------------------------------------------------------------------------
\* q is r after something that leaves its clocks alone.
SameClocks(r, q) ==
    /\ q \in Conn
    /\ <<q.up, q.registered, q.pingPending, q.connected, q.active, q.pinged>> =
       <<r.up, r.registered, r.pingPending, r.connected, r.active, r.pinged>>
    /\ \/ q.markedForClose
       \/ q.markedForClose = r.markedForClose /\ q.closeReason = r.closeReason

\* What leaves the clocks alone keeps the ages within their bounds.
LEMMA SameClocksOK ==
    ASSUME NEW r \in Conn, NEW since, ClockOK(r, since), NEW q, SameClocks(r, q)
    PROVE  ClockOK(q, since)
BY DEF ClockOK, SameClocks

\* Closing, noting a failure and changing the TLS wants leave the clocks alone.
LEMMA CloseFacts ==
    ASSUME NEW r \in Conn, NEW why \in Reasons
    PROVE  /\ SameClocks(r, Close(r, why))
           /\ Close(r, why).markedForClose
           /\ Close(r, why).closeReason = why
           /\ Close(r, why).recvBuf = r.recvBuf
BY DEF Conn, Close, SameClocks

OnlyWants(r, q) ==
    /\ SameClocks(r, q) /\ q.recvBuf = r.recvBuf
    /\ q.markedForClose = r.markedForClose /\ q.closeReason = r.closeReason

LEMMA WantFacts ==
    ASSUME NEW r \in Conn
    PROVE  /\ OnlyWants(r, WantRead(r))
           /\ OnlyWants(r, WantWrite(r))
           /\ OnlyWants(r, [WantRead(r) EXCEPT !.handshakeDone = TRUE])
           /\ OnlyWants(r, [r EXCEPT !.wantWrite = TRUE])
           /\ OnlyWants(r, [r EXCEPT !.wantWrite = FALSE])
<1>1. OnlyWants(r, WantRead(r))
  BY DEF Conn, WantRead, SameClocks, OnlyWants
<1>2. OnlyWants(r, WantWrite(r))
  BY DEF Conn, WantWrite, SameClocks, OnlyWants
<1>3. OnlyWants(r, [WantRead(r) EXCEPT !.handshakeDone = TRUE])
  BY DEF Conn, WantRead, SameClocks, OnlyWants
<1>4. OnlyWants(r, [r EXCEPT !.wantWrite = TRUE])
  BY DEF Conn, SameClocks, OnlyWants
<1>5. OnlyWants(r, [r EXCEPT !.wantWrite = FALSE])
  BY DEF Conn, SameClocks, OnlyWants
<1> QED BY <1>1, <1>2, <1>3, <1>4, <1>5

LEMMA NotedFacts ==
    ASSUME NEW r \in Conn, NEW result
    PROVE  OnlyWants(r, Noted(r, result))
BY DEF Conn, Noted, SameClocks, OnlyWants

\* sendTo leaves the clocks alone and blames nobody but "other" (Server.cpp:339-351).
LEMMA ReceiveFacts ==
    ASSUME NEW r \in Conn
    PROVE  /\ SameClocks(r, Receive(r))
           /\ Receive(r).recvBuf = r.recvBuf
           /\ Receive(r).closeReason \in {r.closeReason, "other"}
           /\ r.markedForClose => Receive(r).markedForClose
           /\ ~r.up => Receive(r) = r
<1>1. CASE ~r.up \/ r.markedForClose
  BY <1>1 DEF Receive, SameClocks
<1>2. CASE r.up /\ ~r.markedForClose /\ r.sendBuf = MaxSend
  <2>1. Receive(r) = Close(r, "other")
    BY <1>2 DEF Receive
  <2> QED BY <1>2, <2>1, CloseFacts DEF Reasons
<1>3. CASE r.up /\ ~r.markedForClose /\ r.sendBuf # MaxSend
  <2>1. Receive(r) = [r EXCEPT !.sendBuf = @ + 1] /\ r.sendBuf + 1 \in 0..MaxSend
    BY <1>3, LoopAssumption DEF Receive, Conn
  <2> QED BY <1>3, <2>1 DEF Conn, SameClocks
<1> QED BY <1>1, <1>2, <1>3

\* So a client that is sent something stays within its bounds.
LEMMA ReceiveOK ==
    ASSUME NEW r, NEW busy, NEW since, ConnOK(r, busy, since)
    PROVE  ConnOK(Receive(r), busy, since)
<1>1. r \in Conn /\ LineOK(r, busy) /\ ClockOK(r, since) /\ (r.up \/ r = NoConn)
  BY DEF ConnOK
<1>2. SameClocks(r, Receive(r)) /\ Receive(r).recvBuf = r.recvBuf
  BY <1>1, ReceiveFacts
<1>3. ClockOK(Receive(r), since)
  BY <1>1, <1>2, SameClocksOK
<1>4. LineOK(Receive(r), busy)
  BY <1>1, <1>2, ReceiveFacts DEF LineOK, SameClocks
<1>5. Receive(r).up \/ Receive(r) = NoConn
  BY <1>1, <1>2, ReceiveFacts DEF SameClocks
<1> QED BY <1>2, <1>3, <1>4, <1>5 DEF ConnOK, SameClocks

\* The limits are numbers, in the order the reaper relies on.
LEMMA Numbers ==
    /\ MaxSend \in Nat /\ MaxLines \in Nat /\ Horizon \in Nat
    /\ PingInterval \in Nat /\ PingTimeout \in Nat /\ ConnectTimeout \in Nat /\ ReapEvery \in Nat
    /\ PingInterval <= PingTimeout /\ PingTimeout < Horizon
    /\ ConnectTimeout < Horizon /\ ReapEvery < Horizon
    /\ ReapPeriod = ReapEvery + 1
<1>1. {PingTimeout, ConnectTimeout, ReapEvery} \subseteq 0..Horizon - 1 /\ Horizon \in Nat
  BY LoopAssumption
<1>2. PingTimeout \in 0..Horizon - 1 /\ ConnectTimeout \in 0..Horizon - 1
      /\ ReapEvery \in 0..Horizon - 1
  BY <1>1
<1> QED BY <1>1, <1>2, LoopAssumption DEF ReapPeriod

\* A client that is not connected, or only just, is within its bounds.
LEMMA NewConnOK ==
    ASSUME NEW busy, NEW since \in Nat
    PROVE  ConnOK(NoConn, busy, since) /\ ConnOK(NewConn, busy, since)
<1>1. NoConn \in Conn /\ NoConn.recvBuf = 0
  BY Numbers DEF NoConn, Conn, Reasons
<1>2. NewConn \in Conn /\ NewConn.up /\ NewConn.recvBuf = 0
  BY <1>1 DEF NewConn, NoConn, Conn
<1>3. ~NoConn.up /\ ~NoConn.registered /\ ~NoConn.pingPending /\ NoConn.closeReason = "none"
  BY DEF NoConn
<1>4. /\ ~NewConn.registered /\ ~NewConn.pingPending /\ NewConn.closeReason = "none"
      /\ NewConn.connected = 0
  BY <1>1 DEF NewConn, NoConn, Conn
<1>5. ClockOK(NoConn, since)
  BY <1>3 DEF ClockOK
<1>6. ClockOK(NewConn, since)
  BY <1>4, Numbers DEF ClockOK
<1> QED BY <1>1, <1>2, <1>5, <1>6 DEF ConnOK, LineOK

-----------------------------------------------------------------------------
\* Time passes for everybody alike, up to the horizon (Server.cpp:151-187).
LEMMA AgedOK ==
    ASSUME NEW r, NEW since \in 0..ReapEvery, NEW s \in {0, 1}, ConnOK(r, FALSE, since)
    PROVE  /\ Later(since, s) \in 0..ReapPeriod
           /\ ConnOK(Aged(r, s), FALSE, Later(since, s))
<1>1. since \in Nat /\ s \in Nat /\ Later(since, s) = since + s /\ since + s \in 0..ReapPeriod
  BY Numbers DEF Later
<1>2. CASE ~r.up
  <2>1. r = NoConn /\ Aged(r, s) = r
    BY <1>2 DEF ConnOK, Aged
  <2>2. Later(since, s) \in Nat
    BY <1>1
  <2>3. ConnOK(NoConn, FALSE, Later(since, s))
    BY <2>2, NewConnOK
  <2> QED BY <1>1, <2>1, <2>3
<1>3. CASE r.up
  <2> DEFINE q == Aged(r, s)
  <2>1. r \in Conn /\ LineOK(r, FALSE) /\ ClockOK(r, since)
    BY DEF ConnOK
  <2>2. \A age \in 0..Horizon :
          /\ Later(age, s) \in 0..Horizon
          /\ Later(age, s) <= age + s
          /\ Later(age, s) = age + s \/ Later(age, s) = Horizon
    BY <1>1, Numbers DEF Later
  <2>3. /\ r.connected \in 0..Horizon /\ r.active \in 0..Horizon /\ r.pinged \in 0..Horizon
        /\ r.pingPending \in BOOLEAN
    BY <2>1 DEF Conn
  <2>4. q = [r EXCEPT !.connected = Later(@, s), !.active = Later(@, s),
                      !.pinged = IF r.pingPending THEN Later(@, s) ELSE @]
    BY <1>3 DEF Aged
  <2>5. /\ q \in Conn
        /\ q.connected = Later(r.connected, s)
        /\ q.active = Later(r.active, s)
        /\ r.pingPending => q.pinged = Later(r.pinged, s)
    BY <2>1, <2>2, <2>3, <2>4, ZenonT(40) DEF Conn
  <2>6. /\ q.up = r.up /\ q.registered = r.registered /\ q.pingPending = r.pingPending
        /\ q.markedForClose = r.markedForClose /\ q.closeReason = r.closeReason
        /\ q.recvBuf = r.recvBuf
    BY <2>1, <2>4 DEF Conn
  <2> HIDE DEF q
  <2>7. q.pingPending => q.active = Horizon \/ q.active > q.pinged + PingInterval
    BY <1>1, <2>1, <2>2, <2>3, <2>5, <2>6, Numbers DEF ClockOK
  <2>8. q.up /\ ~q.registered /\ ~q.markedForClose => q.connected <= ConnectTimeout + (since + s)
    BY <1>1, <2>1, <2>2, <2>3, <2>5, <2>6, Numbers DEF ClockOK
  <2>9. ASSUME q.registered, ~q.markedForClose, q.pingPending
        PROVE  /\ q.pinged <= (PingTimeout - PingInterval) + (since + s)
               /\ q.active <= q.pinged + PingInterval + ReapPeriod
    <3>1. /\ r.pinged <= (PingTimeout - PingInterval) + since
          /\ r.active <= r.pinged + PingInterval + ReapPeriod
      BY <2>1, <2>6, <2>9 DEF ClockOK
    <3>2. q.pinged = Later(r.pinged, s) /\ q.active = Later(r.active, s)
      BY <2>5, <2>6, <2>9
    <3> QED BY <1>1, <2>2, <2>3, <3>1, <3>2, Numbers
  <2>10. q.registered /\ ~q.markedForClose /\ ~q.pingPending => q.active <= PingInterval + (since + s)
    BY <1>1, <2>1, <2>2, <2>3, <2>5, <2>6, Numbers DEF ClockOK
  <2>11. ClockOK(q, since + s)
    BY <2>1, <2>6, <2>7, <2>8, <2>9, <2>10 DEF ClockOK
  <2>12. LineOK(q, FALSE)
    BY <2>1, <2>6 DEF LineOK
  <2> QED BY <1>1, <1>3, <2>5, <2>6, <2>11, <2>12 DEF ConnOK, q
<1> QED BY <1>1, <1>2, <1>3

\* After the reaper nobody's age depends on the time before it, and a ping
\* timeout it declares is a silence (Server.cpp:404-434).
LEMMA ReapedOK ==
    ASSUME NEW r, NEW since \in 0..ReapPeriod, ConnOK(r, FALSE, since)
    PROVE  /\ ConnOK(Reaped(r), FALSE, 0)
           /\ Reaped(r).closeReason = "ping timeout" /\ ~r.markedForClose => r.active > PingTimeout
<1> DEFINE q == Reaped(r)
<1>1. /\ r \in Conn /\ LineOK(r, FALSE) /\ ClockOK(r, since) /\ (r.up \/ r = NoConn)
      /\ r.active \in 0..Horizon /\ r.pinged \in 0..Horizon /\ r.connected \in 0..Horizon
      /\ since \in Nat /\ since <= ReapPeriod
  <2>1. r \in Conn /\ LineOK(r, FALSE) /\ ClockOK(r, since) /\ (r.up \/ r = NoConn)
    BY DEF ConnOK
  <2>2. r.active \in 0..Horizon /\ r.pinged \in 0..Horizon /\ r.connected \in 0..Horizon
    BY <2>1 DEF Conn
  <2>3. since \in Nat /\ since <= ReapPeriod
    BY Numbers
  <2> QED BY <2>1, <2>2, <2>3
<1>2. CASE ~r.up
  <2>1. r = NoConn /\ q = r
    BY <1>1, <1>2 DEF Reaped
  <2>2. ConnOK(NoConn, FALSE, 0) /\ NoConn.closeReason = "none"
    BY NewConnOK DEF NoConn
  <2> HIDE DEF q
  <2> QED BY <2>1, <2>2 DEF q
<1>3. CASE r.up /\ r.markedForClose
  <2>1. q = r
    BY <1>3 DEF Reaped
  <2>2. ClockOK(r, 0)
    BY <1>1, <1>3 DEF ClockOK
  <2> HIDE DEF q
  <2> QED BY <1>1, <1>3, <2>1, <2>2 DEF ConnOK, q
<1>4. ASSUME NEW why \in Reasons, r.up, q = Close(r, why)
      PROVE  ConnOK(q, FALSE, 0) /\ q.closeReason = why
  <2>1. SameClocks(r, q) /\ q.markedForClose /\ q.closeReason = why
    BY <1>1, <1>4, CloseFacts
  <2> HIDE DEF q
  <2>2. ClockOK(q, 0)
    BY <1>1, <2>1 DEF ClockOK, SameClocks
  <2> QED BY <1>4, <2>1, <2>2 DEF ConnOK, LineOK, SameClocks
<1>5. ASSUME r.up, ~r.markedForClose, q = r, ClockOK(r, 0)
      PROVE  ConnOK(q, FALSE, 0) /\ q.closeReason = "none"
  <2> HIDE DEF q
  <2> QED BY <1>1, <1>5 DEF ConnOK, ClockOK
<1>6. CASE r.up /\ ~r.markedForClose /\ ~r.registered
  <2>1. CASE r.connected > ConnectTimeout
    BY <1>4, <1>6, <2>1 DEF Reaped, Reasons
  <2>2. CASE ~(r.connected > ConnectTimeout)
    <3>1. q = r
      BY <1>6, <2>2 DEF Reaped
    <3>2. ClockOK(r, 0)
      BY <1>1, <1>6, <2>2, Numbers DEF ClockOK
    <3> QED BY <1>5, <1>6, <3>1, <3>2
  <2> QED BY <2>1, <2>2
<1>7. CASE r.up /\ ~r.markedForClose /\ r.registered /\ r.pingPending
  <2>1. CASE r.pinged > PingTimeout - PingInterval
    <3>1. q = Close(r, "ping timeout")
      BY <1>7, <2>1 DEF Reaped
    <3>2. r.active > PingTimeout
      BY <1>1, <1>7, <2>1, Numbers DEF ClockOK
    <3> QED BY <1>4, <1>7, <3>1, <3>2 DEF Reasons
  <2>2. CASE ~(r.pinged > PingTimeout - PingInterval)
    <3>1. q = r
      BY <1>7, <2>2 DEF Reaped
    <3>2. ClockOK(r, 0)
      BY <1>1, <1>7, <2>2, Numbers DEF ClockOK
    <3> QED BY <1>5, <1>7, <3>1, <3>2
  <2> QED BY <2>1, <2>2
<1>8. CASE r.up /\ ~r.markedForClose /\ r.registered /\ ~r.pingPending
  <2>1. CASE r.active > PingInterval
    <3> DEFINE p == Receive(r)
    <3>1. /\ SameClocks(r, p) /\ p.recvBuf = r.recvBuf /\ p.closeReason \in {r.closeReason, "other"}
          /\ p \in Conn
      BY <1>1, ReceiveFacts DEF SameClocks
    <3>2. q = [p EXCEPT !.pingPending = TRUE, !.pinged = 0]
      BY <1>8, <2>1 DEF Reaped, Pinged
    <3> HIDE DEF p
    <3>3. 0 \in 0..Horizon
      BY Numbers
    <3>4. /\ q \in Conn /\ q.pingPending /\ q.pinged = 0
          /\ q.up = p.up /\ q.registered = p.registered /\ q.active = p.active
          /\ q.markedForClose = p.markedForClose /\ q.closeReason = p.closeReason
          /\ q.recvBuf = p.recvBuf
      BY <3>1, <3>2, <3>3 DEF Conn
    <3> HIDE DEF q
    <3>5. q.active = r.active /\ q.up /\ q.registered /\ q.recvBuf = r.recvBuf
      BY <1>8, <3>1, <3>4 DEF SameClocks
    <3>6. q.closeReason # "none" => q.markedForClose
      BY <1>1, <3>1, <3>4 DEF SameClocks, ClockOK
    <3>7. r.active <= PingInterval + since
      BY <1>1, <1>8 DEF ClockOK
    <3>8. ClockOK(q, 0)
      BY <1>1, <2>1, <3>4, <3>5, <3>6, <3>7, Numbers DEF ClockOK
    <3>9. LineOK(q, FALSE)
      BY <1>1, <1>8, <3>5 DEF LineOK
    <3>10. q.closeReason # "ping timeout"
      BY <1>1, <1>8, <3>1, <3>4 DEF ClockOK
    <3> QED BY <3>4, <3>5, <3>8, <3>9, <3>10 DEF ConnOK, q
  <2>2. CASE ~(r.active > PingInterval)
    <3>1. q = r
      BY <1>8, <2>2 DEF Reaped
    <3>2. ClockOK(r, 0)
      BY <1>1, <1>8, <2>2, Numbers DEF ClockOK
    <3> QED BY <1>5, <1>8, <3>1, <3>2
  <2> QED BY <2>1, <2>2
<1> QED BY <1>1, <1>2, <1>3, <1>6, <1>7, <1>8 DEF Conn

-----------------------------------------------------------------------------
\* What the invariant says where a step begins.
LEMMA LoopFacts ==
    ASSUME LoopInv
    PROVE  /\ \A c \in Cids : /\ conn[c] \in Conn
                              /\ conn[c].up \/ conn[c] = NoConn
                              /\ LineOK(conn[c], Busy(c))
                              /\ ClockOK(conn[c], sinceReap)
           /\ sinceReap \in Nat /\ sinceReap <= ReapPeriod
           /\ cur \in Cids \cup {NoClient} /\ NoClient \notin Cids
           /\ todo \subseteq Cids
BY Numbers, LoopAssumption DEF LoopInv, ConnsOK, ConnOK, StageOK, Up

\* A step that changes one client, and makes no other's lines its business,
\* keeps all within their bounds.
LEMMA OneConnStep ==
    ASSUME LoopInv, NEW c \in Cids, NEW q, conn' = [conn EXCEPT ![c] = q],
           ConnOK(q, Busy(c)', sinceReap), sinceReap' = sinceReap,
           \A d \in Cids \ {c} : ~Busy(d)
    PROVE  ConnsOK'
<1>1. conn \in [Cids -> Conn] /\ q \in Conn
  BY DEF LoopInv, ConnsOK, ConnOK
<1>2. conn' \in [Cids -> Conn] /\ conn'[c] = q /\ \A d \in Cids \ {c} : conn'[d] = conn[d]
  BY <1>1
<1>3. ASSUME NEW d \in Cids \ {c}
      PROVE  ConnOK(conn'[d], Busy(d)', sinceReap')
  <2>1. ConnOK(conn[d], Busy(d), sinceReap) /\ ~Busy(d)
    BY DEF LoopInv, ConnsOK
  <2>2. ConnOK(conn[d], Busy(d)', sinceReap)
    BY <2>1 DEF ConnOK, LineOK
  <2> QED BY <1>2, <2>2
<1>4. ConnOK(conn'[c], Busy(c)', sinceReap')
  BY <1>2
<1> QED BY <1>2, <1>3, <1>4 DEF ConnsOK

\* A step that leaves the clients alone while nobody's lines are handled.
LEMMA NoConnStep ==
    ASSUME LoopInv, UNCHANGED <<conn, sinceReap>>, \A d \in Cids : Busy(d) => Busy(d)'
    PROVE  ConnsOK'
<1>1. ASSUME NEW d \in Cids
      PROVE  ConnOK(conn[d], Busy(d)', sinceReap)
  <2>1. ConnOK(conn[d], Busy(d), sinceReap)
    BY DEF LoopInv, ConnsOK
  <2> QED BY <2>1 DEF ConnOK, LineOK
<1> QED BY <1>1 DEF LoopInv, ConnsOK

\* In serviceClient a client's record is replaced by one with the same clocks
\* and lines, or marked.
LEMMA ServiceStep ==
    ASSUME LoopInv, NEW c \in Cids, stage = "service", conn[c].up, NEW q, SameClocks(conn[c], q),
           q.recvBuf = conn[c].recvBuf \/ q.markedForClose,
           conn' = [conn EXCEPT ![c] = q], sinceReap' = sinceReap
    PROVE  ConnsOK'
<1>1. conn[c] \in Conn /\ LineOK(conn[c], Busy(c)) /\ ClockOK(conn[c], sinceReap)
  BY LoopFacts
<1>2. \A d \in Cids : ~Busy(d)
  BY DEF Busy
<1>3. ClockOK(q, sinceReap)
  BY <1>1, SameClocksOK
<1>4. LineOK(q, Busy(c)')
  BY <1>1, <1>2 DEF LineOK, SameClocks
<1>5. ConnOK(q, Busy(c)', sinceReap)
  BY <1>3, <1>4 DEF ConnOK, SameClocks
<1> QED BY <1>2, <1>5, OneConnStep

\* The thread's place in the round, after serviceClient has returned.
LEMMA ServicedStage ==
    ASSUME LoopInv, NEW c \in Cids, Turn(c), Serviced(c), errors' \in BOOLEAN,
           NEW q, q.up, conn' = [conn EXCEPT ![c] = q]
    PROVE  StageOK'
<1>1. conn \in [Cids -> Conn] /\ todo \subseteq Up
  BY DEF LoopInv, ConnsOK, StageOK
<1>2. todo' \subseteq Up'
  BY <1>1 DEF Serviced, Up
<1>3. revents' \in Events
  BY DEF LoopInv, StageOK, Events, Serviced
<1> QED BY <1>2, <1>3 DEF LoopInv, StageOK, Serviced, Turn

-----------------------------------------------------------------------------
\* What serviceClient makes of c's record when it neither reads nor runs a line.
Outcome(c, q) ==
    /\ SameClocks(conn[c], q)
    /\ q.recvBuf = conn[c].recvBuf \/ q.markedForClose
    /\ q.closeReason \in {conn[c].closeReason, "tls", "other"}

LEMMA OutcomeOfWants ==
    ASSUME NEW c \in Cids, NEW r, OnlyWants(conn[c], r), r \in Conn
    PROVE  /\ Outcome(c, r)
           /\ \A q : OnlyWants(r, q) => Outcome(c, q)
           /\ \A why \in {"tls", "other"} : Outcome(c, Close(r, why))
<1>1. ASSUME NEW q, OnlyWants(r, q) PROVE Outcome(c, q)
  BY <1>1 DEF OnlyWants, SameClocks, Outcome
<1>2. ASSUME NEW why \in {"tls", "other"} PROVE Outcome(c, Close(r, why))
  <2>1. why \in Reasons
    BY DEF Reasons
  <2> QED BY <2>1, CloseFacts DEF OnlyWants, SameClocks, Outcome
<1> QED BY <1>1, <1>2 DEF OnlyWants, SameClocks, Outcome

\* serviceClient replaces the record of one client that is there.
LEMMA TurnIsUp ==
    ASSUME LoopInv, NEW c \in Cids, Turn(c)
    PROVE  conn[c] \in Conn /\ conn[c].up /\ stage = "service" /\ OnlyWants(conn[c], conn[c])
BY LoopFacts DEF Turn, LoopInv, StageOK, Up, OnlyWants, SameClocks

LEMMA HangUpOutcome ==
    ASSUME LoopInv, NEW c \in Cids, HangUp(c)
    PROVE  Outcome(c, Close(conn[c], "other")) /\ conn' = [conn EXCEPT ![c] = Close(@, "other")]
BY TurnIsUp, OutcomeOfWants DEF HangUp

LEMMA HandshakeOutcome ==
    ASSUME LoopInv, NEW c \in Cids,
           NEW result \in {"done", "want read", "want write", "failed"}, DoHandshake(c, result)
    PROVE  \E q : Outcome(c, q) /\ conn' = [conn EXCEPT ![c] = q]
<1>1. OnlyWants(conn[c], conn[c]) /\ conn[c] \in Conn
  BY TurnIsUp DEF DoHandshake
<1>2. CASE result = "done"
  <2>1. conn' = [conn EXCEPT ![c] = [WantRead(@) EXCEPT !.handshakeDone = TRUE]]
    BY <1>2 DEF DoHandshake
  <2>2. Outcome(c, [WantRead(conn[c]) EXCEPT !.handshakeDone = TRUE])
    BY <1>1, WantFacts, OutcomeOfWants
  <2> QED BY <2>1, <2>2
<1>3. CASE result = "want read"
  <2>1. conn' = [conn EXCEPT ![c] = WantRead(@)]
    BY <1>3 DEF DoHandshake
  <2>2. Outcome(c, WantRead(conn[c]))
    BY <1>1, WantFacts, OutcomeOfWants
  <2> QED BY <2>1, <2>2
<1>4. CASE result = "want write"
  <2>1. conn' = [conn EXCEPT ![c] = WantWrite(@)]
    BY <1>4 DEF DoHandshake
  <2>2. Outcome(c, WantWrite(conn[c]))
    BY <1>1, WantFacts, OutcomeOfWants
  <2> QED BY <2>1, <2>2
<1>5. CASE result = "failed"
  <2>1. conn' = [conn EXCEPT ![c] = Close(Noted(@, result), "tls")]
    BY <1>5 DEF DoHandshake
  <2>2. OnlyWants(conn[c], Noted(conn[c], result)) /\ Noted(conn[c], result) \in Conn
    BY <1>1, NotedFacts DEF OnlyWants, SameClocks
  <2>3. Outcome(c, Close(Noted(conn[c], result), "tls"))
    BY <2>2, OutcomeOfWants
  <2> QED BY <2>1, <2>3
<1> QED BY <1>2, <1>3, <1>4, <1>5

LEMMA WriteOutcome ==
    ASSUME LoopInv, NEW c \in Cids, NEW left \in 0..MaxSend,
           NEW result \in {"done", "want read", "want write", "failed"}, DoWrite(c, left, result)
    PROVE  \E q : Outcome(c, q) /\ conn' = [conn EXCEPT ![c] = q]
<1> DEFINE r == Noted([conn[c] EXCEPT !.sendBuf = left], result)
<1>1. conn[c] \in Conn /\ conn \in [Cids -> Conn]
  BY TurnIsUp DEF DoWrite, LoopInv, ConnsOK
<1>2. [conn[c] EXCEPT !.sendBuf = left] \in Conn
      /\ OnlyWants(conn[c], [conn[c] EXCEPT !.sendBuf = left])
  BY <1>1 DEF Conn, OnlyWants, SameClocks
<1>3. OnlyWants(conn[c], r) /\ r \in Conn
  BY <1>2, NotedFacts, ZenonT(40) DEF OnlyWants, SameClocks
<1>4. conn' = [conn EXCEPT ![c] =
            CASE result = "done"               -> [r EXCEPT !.wantWrite = FALSE]
              [] Answer(result) = "want read"  -> WantRead(r)
              [] Answer(result) = "want write" -> [r EXCEPT !.wantWrite = TRUE]
              [] OTHER                         -> Close(r, "tls")]
  BY DEF DoWrite
<1> HIDE DEF r
<1>5. /\ Outcome(c, [r EXCEPT !.wantWrite = FALSE])
      /\ Outcome(c, WantRead(r))
      /\ Outcome(c, [r EXCEPT !.wantWrite = TRUE])
      /\ Outcome(c, Close(r, "tls"))
  BY <1>3, WantFacts, OutcomeOfWants
<1>6. Answer(result) # "want read" \/ Answer(result) # "want write"
  OBVIOUS
<1>7. result = "done" => Answer(result) \in {"done", "failed"}
  BY DEF Answer
<1> QED BY <1>4, <1>5, <1>6, <1>7

\* Bytes that arrive reset the client's silence and its pending ping.
LEMMA HeardFacts ==
    ASSUME NEW r \in Conn, NEW got \in 0..MaxLines, r.recvBuf + got <= MaxLines,
           NEW since \in Nat, ClockOK(r, since)
    PROVE  LET h == [Heard(r) EXCEPT !.recvBuf = @ + got] IN
           /\ h \in Conn /\ h.active = 0 /\ ~h.pingPending
           /\ <<h.up, h.registered, h.connected, h.closeReason, h.markedForClose>> =
              <<r.up, r.registered, r.connected, r.closeReason, r.markedForClose>>
           /\ ClockOK(h, since)
<1> DEFINE h == [Heard(r) EXCEPT !.recvBuf = @ + got]
<1>1. 0 \in 0..Horizon /\ MaxLines \in Nat /\ r.recvBuf \in 0..MaxLines
  BY Numbers DEF Conn
<1>2. r.recvBuf + got \in 0..MaxLines
  BY <1>1
<1>3. h = [r EXCEPT !.active = 0, !.pingPending = FALSE, !.recvBuf = r.recvBuf + got]
  BY DEF Heard, Conn
<1> HIDE DEF h
<1>4. /\ h \in Conn /\ h.active = 0 /\ ~h.pingPending
      /\ <<h.up, h.registered, h.connected, h.closeReason, h.markedForClose>> =
         <<r.up, r.registered, r.connected, r.closeReason, r.markedForClose>>
  BY <1>1, <1>2, <1>3 DEF Conn
<1>5. ClockOK(h, since)
  BY <1>4, Numbers DEF ClockOK
<1> QED BY <1>4, <1>5 DEF h

\* Reading hears from the client, or leaves its clocks alone, and passes on to
\* the lines only what is unmarked or marked before (Server.cpp:276-299).
LEMMA ReadOutcome ==
    ASSUME LoopInv, NEW c \in Cids, NEW got \in 0..MaxLines, NEW data \in BOOLEAN,
           NEW result \in {"want read", "want write", "ended", "failed", "flood"},
           DoRead(c, got, data, result)
    PROVE  \E q : /\ conn' = [conn EXCEPT ![c] = q]
                  /\ ConnOK(q, Busy(c)', sinceReap)
                  /\ q.up
                  /\ q.closeReason \in {conn[c].closeReason, "tls", "other"}
                  /\ conn[c].markedForClose => q.markedForClose
<1> DEFINE h == [Heard(conn[c]) EXCEPT !.recvBuf = @ + got]
           b == IF data THEN h ELSE conn[c]
           r == Noted(b, result)
           answer == IF result = "flood" THEN result ELSE Answer(result)
<1>1. /\ conn[c] \in Conn /\ conn[c].up /\ stage = "service" /\ ~Busy(c)
      /\ LineOK(conn[c], FALSE) /\ ClockOK(conn[c], sinceReap) /\ sinceReap \in Nat
  <2>1. conn[c] \in Conn /\ conn[c].up /\ stage = "service" /\ ~Busy(c)
    BY TurnIsUp DEF DoRead, Busy
  <2> QED BY <2>1, LoopFacts DEF LineOK
<1>2. conn[c].recvBuf + got <= MaxLines /\ (got > 0 => data)
  BY DEF DoRead
<1>3. /\ h \in Conn /\ h.up /\ h.active = 0 /\ ~h.pingPending
      /\ h.closeReason = conn[c].closeReason /\ h.markedForClose = conn[c].markedForClose
      /\ ClockOK(h, sinceReap)
  BY <1>1, <1>2, HeardFacts
<1> HIDE DEF h
<1>4. /\ b \in Conn /\ b.up /\ ClockOK(b, sinceReap) /\ LineOK(b, TRUE)
      /\ b.closeReason = conn[c].closeReason /\ b.markedForClose = conn[c].markedForClose
  BY <1>1, <1>3 DEF LineOK
<1> HIDE DEF b
<1>5. OnlyWants(b, r) /\ r \in Conn
  BY <1>4, NotedFacts DEF OnlyWants, SameClocks
<1> HIDE DEF r
<1>6. ASSUME NEW q, SameClocks(r, q), q.recvBuf = r.recvBuf \/ q.markedForClose
      PROVE  ConnOK(q, TRUE, sinceReap) /\ q.up /\ (q.markedForClose => ConnOK(q, FALSE, sinceReap))
  <2>1. SameClocks(b, q) /\ (q.recvBuf = b.recvBuf \/ q.markedForClose)
    BY <1>5, <1>6 DEF OnlyWants, SameClocks
  <2>2. ClockOK(q, sinceReap)
    BY <1>4, <2>1, SameClocksOK
  <2> QED BY <1>4, <2>1, <2>2 DEF ConnOK, LineOK, SameClocks
<1>7. conn' = [conn EXCEPT ![c] =
        CASE answer = "want read"  -> WantRead(r)
          [] answer = "want write" -> WantWrite(r)
          [] answer = "failed"     -> Close(r, "tls")
          [] OTHER                 -> Close(r, "other")]
  BY DEF DoRead, r, b, h
<1>8. stage' = (IF answer \in {"want read", "want write"} THEN "lines" ELSE stage) /\ cur' = c
  BY DEF DoRead
<1> HIDE DEF answer
<1>9. CASE answer \in {"want read", "want write"}
  <2> DEFINE q == IF answer = "want read" THEN WantRead(r) ELSE WantWrite(r)
  <2>1. conn' = [conn EXCEPT ![c] = q]
    BY <1>7, <1>9
  <2>2. OnlyWants(r, q)
    BY <1>5, WantFacts
  <2>3. Busy(c)'
    BY <1>8, <1>9 DEF Busy
  <2> HIDE DEF q
  <2>4. ConnOK(q, TRUE, sinceReap) /\ q.up
    BY <1>6, <2>2 DEF OnlyWants
  <2>5. ConnOK(q, Busy(c)', sinceReap)
    BY <2>3, <2>4 DEF ConnOK, LineOK
  <2>6. q.closeReason = conn[c].closeReason /\ q.markedForClose = conn[c].markedForClose
    BY <1>4, <1>5, <2>2 DEF OnlyWants
  <2> QED BY <2>1, <2>4, <2>5, <2>6
<1>10. CASE answer \notin {"want read", "want write"}
  <2> DEFINE why == IF answer = "failed" THEN "tls" ELSE "other"
  <2>1. conn' = [conn EXCEPT ![c] = Close(r, why)]
    BY <1>7, <1>10
  <2>2. why \in {"tls", "other"} /\ why \in Reasons
    BY DEF Reasons
  <2> HIDE DEF why
  <2>3. /\ SameClocks(r, Close(r, why)) /\ Close(r, why).markedForClose
        /\ Close(r, why).closeReason = why
    BY <1>5, <2>2, CloseFacts
  <2>4. ConnOK(Close(r, why), FALSE, sinceReap) /\ Close(r, why).up
    BY <1>6, <2>3
  <2>5. ConnOK(Close(r, why), Busy(c)', sinceReap)
    BY <2>4 DEF ConnOK, LineOK
  <2> QED BY <2>1, <2>2, <2>3, <2>4, <2>5
<1> QED BY <1>9, <1>10

-----------------------------------------------------------------------------
\* A ping timeout declared in this step is a silence.
Silence ==
    \A c \in Cids : conn'[c].closeReason = "ping timeout" /\ ~conn[c].markedForClose
        => conn[c].active > PingTimeout

StepOK == ConnsOK' /\ StageOK' /\ Silence

\* Only the reaper blames a ping timeout on anybody.
LEMMA NoBlame ==
    ASSUME LoopInv,
           \A c \in Cids : conn'[c].closeReason \in {conn[c].closeReason, "none", "tls", "other"}
    PROVE  Silence
<1>1. \A c \in Cids : conn[c].closeReason # "none" => conn[c].markedForClose
  BY LoopFacts DEF ClockOK
<1> QED BY <1>1 DEF Silence

LEMMA HangUpOK ==
    ASSUME LoopInv, NEW c \in Cids, HangUp(c)
    PROVE  StepOK
<1> DEFINE q == Close(conn[c], "other")
<1>1. Outcome(c, q) /\ conn' = [conn EXCEPT ![c] = q]
  BY HangUpOutcome
<1> HIDE DEF q
<1>2. Turn(c) /\ Serviced(c) /\ UNCHANGED errors
  BY DEF HangUp
<1>3. conn[c].up /\ q.up /\ stage = "service" /\ sinceReap' = sinceReap /\ errors' \in BOOLEAN
  BY <1>1, <1>2, TurnIsUp DEF Outcome, SameClocks, Serviced, LoopInv, StageOK
<1>4. ConnsOK'
  BY <1>1, <1>3, ServiceStep DEF Outcome
<1>5. StageOK'
  BY <1>1, <1>2, <1>3, ServicedStage
<1>6. Silence
  BY <1>1, NoBlame DEF Outcome, LoopInv, ConnsOK
<1> QED BY <1>4, <1>5, <1>6 DEF StepOK

LEMMA DoHandshakeOK ==
    ASSUME LoopInv, NEW c \in Cids,
           NEW result \in {"done", "want read", "want write", "failed"}, DoHandshake(c, result)
    PROVE  StepOK
<1>1. PICK q : Outcome(c, q) /\ conn' = [conn EXCEPT ![c] = q]
  BY HandshakeOutcome
<1>2. Turn(c) /\ Serviced(c) /\ errors' \in BOOLEAN
  BY DEF DoHandshake
<1>3. conn[c].up /\ q.up /\ stage = "service" /\ sinceReap' = sinceReap
  BY <1>1, <1>2, TurnIsUp DEF Outcome, SameClocks, Serviced
<1>4. ConnsOK'
  BY <1>1, <1>3, ServiceStep DEF Outcome
<1>5. StageOK'
  BY <1>1, <1>2, <1>3, ServicedStage
<1>6. Silence
  BY <1>1, NoBlame DEF Outcome, LoopInv, ConnsOK
<1> QED BY <1>4, <1>5, <1>6 DEF StepOK

LEMMA DoWriteOK ==
    ASSUME LoopInv, NEW c \in Cids, NEW left \in 0..MaxSend,
           NEW result \in {"done", "want read", "want write", "failed"}, DoWrite(c, left, result)
    PROVE  StepOK
<1>1. PICK q : Outcome(c, q) /\ conn' = [conn EXCEPT ![c] = q]
  BY WriteOutcome
<1>2. Turn(c) /\ Serviced(c) /\ errors' \in BOOLEAN
  BY DEF DoWrite, Queued, LoopInv, StageOK
<1>3. conn[c].up /\ q.up /\ stage = "service" /\ sinceReap' = sinceReap
  BY <1>1, <1>2, TurnIsUp DEF Outcome, SameClocks, Serviced
<1>4. ConnsOK'
  BY <1>1, <1>3, ServiceStep DEF Outcome
<1>5. StageOK'
  BY <1>1, <1>2, <1>3, ServicedStage
<1>6. Silence
  BY <1>1, NoBlame DEF Outcome, LoopInv, ConnsOK
<1> QED BY <1>4, <1>5, <1>6 DEF StepOK

LEMMA DoReadOK ==
    ASSUME LoopInv, NEW c \in Cids, NEW got \in 0..MaxLines, NEW data \in BOOLEAN,
           NEW result \in {"want read", "want write", "ended", "failed", "flood"},
           DoRead(c, got, data, result)
    PROVE  StepOK
<1>1. PICK q : /\ conn' = [conn EXCEPT ![c] = q]
               /\ ConnOK(q, Busy(c)', sinceReap)
               /\ q.up
               /\ q.closeReason \in {conn[c].closeReason, "tls", "other"}
  BY ReadOutcome
<1>2. /\ stage = "service" /\ c \in todo /\ stage' \in {"service", "lines"}
      /\ errors' \in BOOLEAN /\ cur' = c
      /\ revents' = [revents EXCEPT ![c] = @ \ {"in"}]
      /\ todo' = todo /\ sinceReap' = sinceReap
  BY DEF DoRead, Turn, Queued, LoopInv, StageOK
<1>3. conn \in [Cids -> Conn]
  BY DEF LoopInv, ConnsOK
<1>4. ConnsOK'
  <2>1. \A d \in Cids \ {c} : ~Busy(d)
    BY <1>2 DEF Busy
  <2> QED BY <1>1, <1>2, <2>1, OneConnStep
<1>5. StageOK'
  <2>1. revents' \in Events
    BY <1>2 DEF LoopInv, StageOK, Events
  <2>2. todo' \subseteq Up'
    BY <1>1, <1>2, <1>3 DEF LoopInv, StageOK, Up
  <2> QED BY <1>2, <2>1, <2>2 DEF LoopInv, StageOK, Stages
<1>6. Silence
  BY <1>1, <1>3, NoBlame
<1> QED BY <1>4, <1>5, <1>6 DEF StepOK

LEMMA NoWriteOK ==
    ASSUME LoopInv, NEW c \in Cids, NoWrite(c)
    PROVE  StepOK
<1>1. conn' = conn /\ conn' = [conn EXCEPT ![c] = conn[c]] /\ conn[c].up
  BY TurnIsUp DEF NoWrite, LoopInv, ConnsOK
<1>2. Turn(c) /\ Serviced(c) /\ errors' \in BOOLEAN
  BY DEF NoWrite, LoopInv, StageOK
<1>3. sinceReap' = sinceReap /\ \A d \in Cids : ~Busy(d)
  BY <1>2 DEF Turn, Serviced, Busy
<1>4. ConnsOK'
  BY <1>1, <1>3, NoConnStep
<1>5. StageOK'
  BY <1>1, <1>2, ServicedStage
<1>6. Silence
  BY <1>1, NoBlame
<1> QED BY <1>4, <1>5, <1>6 DEF StepOK

LEMMA LinesEndOK ==
    ASSUME LoopInv, NEW c \in Cids, NEW tooLong \in BOOLEAN, LinesEnd(c, tooLong)
    PROVE  StepOK
<1> DEFINE q == IF tooLong THEN Close(conn[c], "other") ELSE conn[c]
<1>1. conn \in [Cids -> Conn] /\ conn' = [conn EXCEPT ![c] = q]
  BY DEF LoopInv, ConnsOK, LinesEnd
<1>2. /\ stage = "lines" /\ cur = c /\ conn[c].recvBuf = 0 /\ stage' = "service"
      /\ todo' = todo /\ revents' = revents /\ cur' = cur /\ errors' = errors
      /\ sinceReap' = sinceReap
  BY DEF LinesEnd
<1>3. conn[c] \in Conn /\ conn[c].up /\ ClockOK(conn[c], sinceReap)
  BY <1>2, LoopFacts, LoopAssumption DEF LoopInv, StageOK, Up
<1>4. SameClocks(conn[c], q) /\ q.recvBuf = 0 /\ q.closeReason \in {conn[c].closeReason, "other"}
  BY <1>2, <1>3, CloseFacts DEF SameClocks, Reasons
<1> HIDE DEF q
<1>5. q \in Conn /\ q.up /\ ClockOK(q, sinceReap)
  BY <1>3, <1>4, SameClocksOK DEF SameClocks
<1>6. ConnOK(q, Busy(c)', sinceReap)
  BY <1>4, <1>5 DEF ConnOK, LineOK
<1>7. ConnsOK'
  <2>1. \A d \in Cids \ {c} : ~Busy(d)
    BY <1>2 DEF Busy
  <2> QED BY <1>1, <1>2, <1>6, <2>1, OneConnStep
<1>8. StageOK'
  <2>1. todo' \subseteq Up'
    BY <1>1, <1>2, <1>5 DEF LoopInv, StageOK, Up
  <2> QED BY <1>2, <2>1 DEF LoopInv, StageOK, Stages
<1>9. Silence
  BY <1>1, <1>4, NoBlame
<1> QED BY <1>7, <1>8, <1>9 DEF StepOK

\* The record with one line less, perhaps registered now: bytes have just
\* arrived from it, so its age starts at zero.
LEMMA LineTaken ==
    ASSUME NEW r \in Conn, NEW since \in Nat, NEW registers \in BOOLEAN, r.recvBuf > 0,
           LineOK(r, TRUE), ClockOK(r, since), r.up \/ r = NoConn
    PROVE  LET b == [r EXCEPT !.recvBuf = @ - 1, !.registered = @ \/ registers] IN
           /\ ConnOK(b, TRUE, since) /\ b.up /\ b.closeReason = r.closeReason
<1> DEFINE b == [r EXCEPT !.recvBuf = @ - 1, !.registered = @ \/ registers]
           g == r.registered \/ registers
<1>1. r.recvBuf \in 0..MaxLines /\ r.registered \in BOOLEAN
  BY DEF Conn
<1>2. r.recvBuf - 1 \in 0..MaxLines
  BY <1>1, Numbers
<1>3. g \in BOOLEAN /\ (~g => ~r.registered)
  BY <1>1
<1>4. b = [r EXCEPT !.recvBuf = r.recvBuf - 1, !.registered = g]
  BY DEF Conn
<1>5. r.up
  BY DEF NoConn
<1> HIDE DEF b, g
<1>6. /\ b \in Conn /\ b.registered = g
      /\ <<b.up, b.pingPending, b.connected, b.active, b.pinged, b.closeReason, b.markedForClose>> =
         <<r.up, r.pingPending, r.connected, r.active, r.pinged, r.closeReason, r.markedForClose>>
  BY <1>2, <1>3, <1>4 DEF Conn
<1>7. r.markedForClose \/ (r.active = 0 /\ ~r.pingPending)
  BY DEF LineOK
<1>8. ClockOK(b, since)
  <2>1. ~b.markedForClose /\ b.registered => ~b.pingPending /\ b.active <= PingInterval + since
    BY <1>6, <1>7, Numbers
  <2>2. b.up /\ ~b.registered /\ ~b.markedForClose => b.connected <= ConnectTimeout + since
    BY <1>3, <1>6 DEF ClockOK
  <2>3. b.pingPending => b.active = Horizon \/ b.active > b.pinged + PingInterval
    BY <1>6 DEF ClockOK
  <2>4. b.closeReason # "none" => b.markedForClose
    BY <1>6 DEF ClockOK
  <2> QED BY <2>1, <2>2, <2>3, <2>4 DEF ClockOK
<1>9. LineOK(b, TRUE)
  BY <1>6, <1>7 DEF LineOK
<1>10. ConnOK(b, TRUE, since) /\ b.up /\ b.closeReason = r.closeReason
  BY <1>5, <1>6, <1>8, <1>9 DEF ConnOK
<1> QED BY <1>10 DEF b

LEMMA RunLineOK ==
    ASSUME LoopInv, NEW c \in Cids, NEW to \in SUBSET Cids, NEW registers \in BOOLEAN,
           NEW quits \in BOOLEAN, RunLine(c, to, registers, quits)
    PROVE  StepOK
<1> DEFINE b == [conn[c] EXCEPT !.recvBuf = @ - 1, !.registered = @ \/ registers]
           m == IF c \in to THEN Receive(b) ELSE b
           q == IF quits THEN Close(m, "other") ELSE m
<1>1. /\ stage = "lines" /\ cur = c /\ conn[c].recvBuf > 0 /\ stage' = AfterLine(conn'[c])
      /\ todo' = todo /\ revents' = revents /\ cur' = cur /\ errors' = errors
      /\ sinceReap' = sinceReap /\ Busy(c)
  BY DEF RunLine, Busy
<1>2. conn \in [Cids -> Conn] /\ sinceReap \in Nat
  BY LoopFacts DEF LoopInv, ConnsOK
<1>3. ConnOK(b, TRUE, sinceReap) /\ b.up /\ b.closeReason = conn[c].closeReason
  <2>1. conn[c] \in Conn /\ LineOK(conn[c], TRUE) /\ ClockOK(conn[c], sinceReap)
        /\ (conn[c].up \/ conn[c] = NoConn)
    BY <1>1, LoopFacts DEF LineOK
  <2> QED BY <1>1, <1>2, <2>1, LineTaken
<1>4. /\ conn' \in [Cids -> {conn'[d] : d \in Cids}]
      /\ conn'[c] = q
      /\ \A d \in Cids \ {c} : conn'[d] = IF d \in to THEN Receive(conn[d]) ELSE conn[d]
  <2> DEFINE read == [conn EXCEPT ![c].recvBuf = @ - 1, ![c].registered = @ \/ registers]
  <2>1. read = [conn EXCEPT ![c] = b]
    BY <1>2 DEF Conn
  <2>2. conn' = IF quits THEN [SendTo(read, to) EXCEPT ![c] = Close(@, "other")] ELSE SendTo(read, to)
    BY DEF RunLine
  <2> HIDE DEF b, read
  <2>3. read[c] = b /\ \A d \in Cids \ {c} : read[d] = conn[d]
    BY <1>2, <2>1
  <2>4. /\ SendTo(read, to)[c] = m
        /\ \A d \in Cids \ {c} : SendTo(read, to)[d] = IF d \in to THEN Receive(conn[d]) ELSE conn[d]
    BY <2>3 DEF SendTo
  <2>5. SendTo(read, to) = [d \in Cids |-> SendTo(read, to)[d]]
    BY DEF SendTo
  <2> QED BY <2>2, <2>4, <2>5
<1> HIDE DEF b
<1>5. ConnOK(m, TRUE, sinceReap) /\ m.up /\ m.closeReason \in {conn[c].closeReason, "other"}
  <2>1. b \in Conn
    BY <1>3 DEF ConnOK
  <2> QED BY <1>3, <2>1, ReceiveOK, ReceiveFacts DEF SameClocks
<1> HIDE DEF m
<1>6. ConnOK(q, TRUE, sinceReap) /\ q.up /\ q.closeReason \in {conn[c].closeReason, "other"}
  <2>1. CASE ~quits
    BY <1>5, <2>1
  <2>2. CASE quits
    <3>1. m \in Conn /\ ClockOK(m, sinceReap)
      BY <1>5 DEF ConnOK
    <3>2. SameClocks(m, q) /\ q.markedForClose /\ q.closeReason = "other"
      BY <2>2, <3>1, CloseFacts DEF Reasons
    <3> HIDE DEF q
    <3>3. ClockOK(q, sinceReap)
      BY <3>1, <3>2, SameClocksOK
    <3> QED BY <1>5, <3>2, <3>3 DEF ConnOK, LineOK, SameClocks
  <2> QED BY <2>1, <2>2
<1> HIDE DEF q
<1>7. stage' \in {"service", "lines"} /\ (q.markedForClose \/ Busy(c)')
  BY <1>1, <1>4 DEF AfterLine, Busy
<1>8. ConnOK(conn'[c], Busy(c)', sinceReap)
  BY <1>4, <1>6, <1>7 DEF ConnOK, LineOK
<1>9. ASSUME NEW d \in Cids \ {c}
      PROVE  /\ ConnOK(conn'[d], Busy(d)', sinceReap)
             /\ conn'[d].up = conn[d].up
             /\ conn'[d].closeReason \in {conn[d].closeReason, "other"}
  <2>1. ConnOK(conn[d], Busy(d), sinceReap) /\ conn[d] \in Conn /\ ~Busy(d) /\ ~Busy(d)'
    BY <1>1 DEF LoopInv, ConnsOK, Busy
  <2>2. ConnOK(conn[d], Busy(d)', sinceReap)
    BY <2>1 DEF ConnOK, LineOK
  <2>3. ConnOK(Receive(conn[d]), Busy(d)', sinceReap)
    BY <2>2, ReceiveOK
  <2>4. Receive(conn[d]).up = conn[d].up
        /\ Receive(conn[d]).closeReason \in {conn[d].closeReason, "other"}
    BY <2>1, ReceiveFacts DEF SameClocks
  <2> QED BY <1>4, <2>2, <2>3, <2>4
<1>10. ConnsOK'
  <2>1. \A d \in Cids : ConnOK(conn'[d], Busy(d)', sinceReap')
    BY <1>1, <1>8, <1>9
  <2>2. \A d \in Cids : conn'[d] \in Conn
    BY <2>1 DEF ConnOK
  <2> QED BY <1>4, <2>1, <2>2 DEF ConnsOK
<1>11. StageOK'
  <2>1. todo' \subseteq Up'
    BY <1>1, <1>4, <1>6, <1>9 DEF LoopInv, StageOK, Up
  <2> QED BY <1>1, <1>7, <2>1 DEF LoopInv, StageOK, Stages
<1>12. Silence
  BY <1>4, <1>6, <1>9, NoBlame
<1> QED BY <1>10, <1>11, <1>12 DEF StepOK

LEMMA BeginSweepOK ==
    ASSUME LoopInv, BeginSweep
    PROVE  StepOK
<1>1. /\ stage = "service" /\ todo = {} /\ stage' = "sweep" /\ todo' = Up
      /\ conn' = conn /\ revents' = revents /\ cur' = cur /\ errors' = errors
      /\ sinceReap' = sinceReap
  BY DEF BeginSweep
<1>2. ConnsOK'
  BY <1>1, NoConnStep DEF Busy
<1>3. StageOK'
  <2>1. cur = NoClient /\ Up' = Up
    BY <1>1 DEF LoopInv, StageOK, Up
  <2> QED BY <1>1, <2>1 DEF LoopInv, StageOK, Stages
<1>4. Silence
  BY <1>1, NoBlame
<1> QED BY <1>2, <1>3, <1>4 DEF StepOK

\* Nobody's lines are handled during the sweep, and only the client torn down
\* goes.
LEMMA SweepOK ==
    ASSUME LoopInv, NEW c \in Cids, NEW to \in SUBSET Cids, Sweep(c, to)
    PROVE  StepOK
<1>1. /\ stage = "sweep" /\ stage' = "sweep" /\ c \in todo /\ todo' = todo \ {c}
      /\ revents' = revents /\ cur' = cur /\ sinceReap' = sinceReap
      /\ errors' \in BOOLEAN
  BY DEF Sweep, LoopInv, StageOK
<1>2. \A d \in Cids : ~Busy(d) /\ ~Busy(d)'
  BY <1>1 DEF Busy
<1>3. conn \in [Cids -> Conn] /\ sinceReap \in Nat
  BY LoopFacts DEF LoopInv, ConnsOK
<1>4. CASE ~conn[c].markedForClose
  <2>1. conn' = conn
    BY <1>4 DEF Sweep
  <2>2. ConnsOK'
    BY <1>1, <1>2, <2>1, NoConnStep
  <2>3. StageOK'
    <3>1. Up' = Up
      BY <2>1 DEF Up
    <3> QED BY <1>1, <3>1 DEF LoopInv, StageOK, Stages
  <2>4. Silence
    BY <2>1, NoBlame
  <2> QED BY <2>2, <2>3, <2>4 DEF StepOK
<1>5. CASE conn[c].markedForClose
  <2> DEFINE gone == [conn EXCEPT ![c] = NoConn]
  <2>1. conn' = [d \in Cids |-> IF d \in to THEN Receive(gone[d]) ELSE gone[d]]
    BY <1>5 DEF Sweep, SendTo
  <2>2. gone[c] = NoConn /\ \A d \in Cids \ {c} : gone[d] = conn[d]
    BY <1>3
  <2> HIDE DEF gone
  <2>3. ASSUME NEW d \in Cids
        PROVE  /\ ConnOK(conn'[d], FALSE, sinceReap)
               /\ d # c => conn'[d].up = conn[d].up
               /\ conn'[d].closeReason \in {conn[d].closeReason, "none", "other"}
    <3>1. /\ ConnOK(gone[d], FALSE, sinceReap)
          /\ d # c => gone[d] = conn[d]
          /\ gone[d].closeReason \in {conn[d].closeReason, "none"}
      <4>1. CASE d = c
        <5>1. ConnOK(NoConn, FALSE, sinceReap)
          BY <1>3, NewConnOK
        <5>2. NoConn.closeReason = "none"
          BY DEF NoConn
        <5> QED BY <2>2, <4>1, <5>1, <5>2
      <4>2. CASE d # c
        <5>1. ConnOK(conn[d], Busy(d), sinceReap) /\ ~Busy(d)
          BY <1>2 DEF LoopInv, ConnsOK
        <5>2. ConnOK(conn[d], FALSE, sinceReap)
          BY <5>1 DEF ConnOK, LineOK
        <5> QED BY <2>2, <4>2, <5>2
      <4> QED BY <4>1, <4>2
    <3>2. gone[d] \in Conn
      BY <3>1 DEF ConnOK
    <3>3. /\ ConnOK(Receive(gone[d]), FALSE, sinceReap)
          /\ Receive(gone[d]).up = gone[d].up
          /\ Receive(gone[d]).closeReason \in {gone[d].closeReason, "other"}
      BY <3>1, <3>2, ReceiveOK, ReceiveFacts DEF SameClocks
    <3> QED BY <2>1, <3>1, <3>3
  <2>4. ConnsOK'
    <3>1. \A d \in Cids : ConnOK(conn'[d], Busy(d)', sinceReap')
      BY <1>1, <2>3 DEF ConnOK, LineOK
    <3>2. \A d \in Cids : conn'[d] \in Conn
      BY <3>1 DEF ConnOK
    <3>3. conn' = [d \in Cids |-> conn'[d]]
      BY <2>1
    <3> QED BY <3>1, <3>2, <3>3 DEF ConnsOK
  <2>5. StageOK'
    <3>1. todo' \subseteq Up'
      BY <1>1, <2>3 DEF LoopInv, StageOK, Up
    <3>2. cur' = NoClient
      BY <1>1 DEF LoopInv, StageOK
    <3> QED BY <1>1, <3>1, <3>2 DEF LoopInv, StageOK, Stages
  <2>6. Silence
    BY <2>3, NoBlame
  <2> QED BY <2>4, <2>5, <2>6 DEF StepOK
<1> QED BY <1>4, <1>5

LEMMA PollOK ==
    ASSUME LoopInv, NEW s \in {0, 1}, NEW new \in SUBSET (Cids \ Up), NEW ev \in Events,
           Poll(s, new, ev)
    PROVE  StepOK
<1>1. /\ stage = "poll" /\ todo = {} /\ cur = NoClient /\ sinceReap \in 0..ReapEvery
      /\ stage' = "service" /\ todo' = {c \in Cids : ev[c] # {}} /\ revents' = ev
      /\ cur' = cur /\ errors' = errors /\ sinceReap' = Later(sinceReap, s)
      /\ conn' = [c \in Cids |-> IF c \in new THEN NewConn ELSE Aged(conn[c], s)]
  BY Numbers DEF Poll, LoopInv, StageOK
<1>2. \A d \in Cids : ~Busy(d) /\ ~Busy(d)'
  BY <1>1 DEF Busy
<1>3. ASSUME NEW c \in Cids
      PROVE  /\ ConnOK(conn'[c], FALSE, sinceReap')
             /\ conn[c].up => conn'[c].up
             /\ conn'[c].closeReason \in {conn[c].closeReason, "none"}
             /\ sinceReap' \in 0..ReapPeriod
  <2>1. ConnOK(conn[c], Busy(c), sinceReap) /\ ~Busy(c)
    BY <1>2 DEF LoopInv, ConnsOK
  <2>2. ConnOK(conn[c], FALSE, sinceReap) /\ conn[c] \in Conn
    BY <2>1 DEF ConnOK, LineOK
  <2>3. Later(sinceReap, s) \in 0..ReapPeriod
        /\ ConnOK(Aged(conn[c], s), FALSE, Later(sinceReap, s))
    BY <1>1, <2>2, AgedOK
  <2>4. sinceReap' \in 0..ReapPeriod /\ sinceReap' \in Nat
    BY <1>1, <2>3
  <2>5. CASE c \in new
    <3>1. conn'[c] = NewConn /\ ~conn[c].up
      BY <1>1, <2>5 DEF Up
    <3>2. ConnOK(NewConn, FALSE, sinceReap')
      BY <2>4, NewConnOK
    <3>3. NewConn.up /\ NewConn.closeReason = "none"
      BY DEF NewConn, NoConn
    <3> QED BY <2>4, <3>1, <3>2, <3>3
  <2>6. CASE c \notin new
    <3>1. conn'[c] = Aged(conn[c], s)
      BY <1>1, <2>6
    <3>2. Aged(conn[c], s).up = conn[c].up
          /\ Aged(conn[c], s).closeReason = conn[c].closeReason
      BY <2>2 DEF Aged, Conn
    <3> QED BY <1>1, <2>3, <2>4, <3>1, <3>2
  <2> QED BY <2>5, <2>6
<1>4. sinceReap' \in 0..ReapPeriod
  BY <1>1, Numbers DEF Later
<1>5. ConnsOK'
  <2>1. \A d \in Cids : ConnOK(conn'[d], Busy(d)', sinceReap')
    BY <1>2, <1>3 DEF ConnOK, LineOK
  <2>2. \A d \in Cids : conn'[d] \in Conn
    BY <2>1 DEF ConnOK
  <2>3. conn' = [d \in Cids |-> conn'[d]]
    BY <1>1
  <2> QED BY <2>1, <2>2, <2>3 DEF ConnsOK
<1>6. StageOK'
  <2>1. \A c \in Cids : ev[c] # {} => conn[c].up
    BY DEF Poll
  <2>2. todo' \subseteq Up'
    BY <1>1, <1>3, <2>1 DEF Up
  <2> QED BY <1>1, <1>4, <2>2 DEF LoopInv, StageOK, Stages
<1>7. Silence
  BY <1>3, NoBlame
<1> QED BY <1>5, <1>6, <1>7 DEF StepOK

LEMMA EndRoundOK ==
    ASSUME LoopInv, EndRound
    PROVE  StepOK
<1>1. /\ stage = "sweep" /\ todo = {} /\ cur = NoClient /\ stage' = "poll"
      /\ todo' = todo /\ revents' = revents /\ cur' = cur /\ errors' = errors
      /\ sinceReap \in 0..ReapPeriod
  BY DEF EndRound, LoopInv, StageOK
<1>2. \A d \in Cids : ~Busy(d) /\ ~Busy(d)'
  BY <1>1 DEF Busy
<1>3. CASE sinceReap > ReapEvery
  <2>1. conn' = [c \in Cids |-> Reaped(conn[c])] /\ sinceReap' = 0
    BY <1>3 DEF EndRound
  <2>2. ASSUME NEW c \in Cids
        PROVE  /\ ConnOK(conn'[c], FALSE, 0)
               /\ conn'[c].closeReason = "ping timeout" /\ ~conn[c].markedForClose
                    => conn[c].active > PingTimeout
    <3>1. ConnOK(conn[c], Busy(c), sinceReap) /\ ~Busy(c)
      BY <1>2 DEF LoopInv, ConnsOK
    <3>2. ConnOK(conn[c], FALSE, sinceReap)
      BY <3>1 DEF ConnOK, LineOK
    <3> QED BY <1>1, <2>1, <3>2, ReapedOK
  <2>3. ConnsOK'
    <3>1. \A d \in Cids : ConnOK(conn'[d], Busy(d)', sinceReap')
      BY <2>1, <2>2 DEF ConnOK, LineOK
    <3>2. \A d \in Cids : conn'[d] \in Conn
      BY <3>1 DEF ConnOK
    <3>3. conn' = [d \in Cids |-> conn'[d]]
      BY <2>1
    <3> QED BY <3>1, <3>2, <3>3 DEF ConnsOK
  <2>4. StageOK'
    BY <1>1, <2>1, Numbers DEF LoopInv, StageOK, Stages
  <2>5. Silence
    BY <2>2 DEF Silence
  <2> QED BY <2>3, <2>4, <2>5 DEF StepOK
<1>4. CASE ~(sinceReap > ReapEvery)
  <2>1. conn' = conn /\ sinceReap' = sinceReap
    BY <1>4 DEF EndRound
  <2>2. ConnsOK'
    BY <1>2, <2>1, NoConnStep
  <2>3. StageOK'
    BY <1>1, <1>4, <2>1, Numbers DEF LoopInv, StageOK, Stages
  <2>4. Silence
    BY <2>1, NoBlame
  <2> QED BY <2>2, <2>3, <2>4 DEF StepOK
<1> QED BY <1>3, <1>4

LEMMA ShutdownOK ==
    ASSUME LoopInv, Shutdown
    PROVE  StepOK
<1>1. /\ stage = "poll" /\ todo = {} /\ cur = NoClient /\ stage' = "stopped"
      /\ conn' = [c \in Cids |-> NoConn]
      /\ todo' = todo /\ revents' = revents /\ cur' = cur /\ errors' = errors
      /\ sinceReap' = sinceReap /\ sinceReap \in Nat
  BY Numbers DEF Shutdown, LoopInv, StageOK
<1>2. ConnsOK'
  <2>1. \A d \in Cids : ConnOK(conn'[d], Busy(d)', sinceReap')
    BY <1>1, NewConnOK
  <2>2. \A d \in Cids : conn'[d] \in Conn
    BY <2>1 DEF ConnOK
  <2> QED BY <1>1, <2>1, <2>2 DEF ConnsOK
<1>3. StageOK'
  BY <1>1 DEF LoopInv, StageOK, Stages
<1>4. Silence
  BY <1>1, NoBlame DEF NoConn
<1> QED BY <1>2, <1>3, <1>4 DEF StepOK

-----------------------------------------------------------------------------
\* Nobody is connected at first.
LEMMA LoopStarts == LoopInit => LoopInv
<1> SUFFICES ASSUME LoopInit
             PROVE  LoopInv
  OBVIOUS
<1>1. ConnsOK
  <2>1. sinceReap \in Nat /\ conn = [c \in Cids |-> NoConn]
    BY DEF LoopInit
  <2>2. \A d \in Cids : ConnOK(conn[d], Busy(d), sinceReap)
    BY <2>1, NewConnOK
  <2>3. \A d \in Cids : conn[d] \in Conn
    BY <2>2 DEF ConnOK
  <2> QED BY <2>1, <2>2, <2>3 DEF ConnsOK
<1>2. StageOK
  <2>1. revents \in Events
    BY DEF LoopInit, Events
  <2>2. sinceReap \in 0..ReapPeriod /\ sinceReap <= ReapEvery
    BY Numbers DEF LoopInit
  <2> QED BY <2>1, <2>2 DEF LoopInit, StageOK, Stages
<1> QED BY <1>1, <1>2 DEF LoopInv

\* What a visit to one client does.
LEMMA ServiceOK ==
    ASSUME LoopInv, NEW c \in Cids, Service(c)
    PROVE  StepOK
<1>1. CASE HangUp(c)
  BY <1>1, HangUpOK
<1>2. CASE \E result \in {"done", "want read", "want write", "failed"} : DoHandshake(c, result)
  BY <1>2, DoHandshakeOK
<1>3. CASE \E got \in 0..MaxLines, data \in BOOLEAN,
              result \in {"want read", "want write", "ended", "failed", "flood"} :
                DoRead(c, got, data, result)
  BY <1>3, DoReadOK
<1>4. CASE \E to \in SUBSET Cids, registers, quits \in BOOLEAN : RunLine(c, to, registers, quits)
  BY <1>4, RunLineOK
<1>5. CASE \E tooLong \in BOOLEAN : LinesEnd(c, tooLong)
  BY <1>5, LinesEndOK
<1>6. CASE \E left \in 0..MaxSend, result \in {"done", "want read", "want write", "failed"} :
                DoWrite(c, left, result)
  BY <1>6, DoWriteOK
<1>7. CASE NoWrite(c)
  BY <1>7, NoWriteOK
<1> QED BY <1>1, <1>2, <1>3, <1>4, <1>5, <1>6, <1>7 DEF Service

\* Every step of the loop keeps the invariant and declares no ping timeout
\* that is not a silence.
LEMMA LoopStep == LoopInv /\ [LoopNext]_loopVars => LoopInv' /\ Silence
<1> SUFFICES ASSUME LoopInv, [LoopNext]_loopVars
             PROVE  StepOK
  BY DEF StepOK, LoopInv
<1>1. CASE \E s \in {0, 1}, new \in SUBSET (Cids \ Up), ev \in Events :
              Cardinality(new) <= 1 /\ Poll(s, new, ev)
  BY <1>1, PollOK
<1>2. CASE \E c \in Cids : Service(c)
  BY <1>2, ServiceOK
<1>3. CASE BeginSweep
  BY <1>3, BeginSweepOK
<1>4. CASE \E c \in Cids, to \in SUBSET Cids : Sweep(c, to)
  BY <1>4, SweepOK
<1>5. CASE EndRound
  BY <1>5, EndRoundOK
<1>6. CASE Shutdown
  BY <1>6, ShutdownOK
<1>7. CASE Stopped \/ UNCHANGED loopVars
  <2>1. UNCHANGED <<conn, stage, todo, revents, cur, errors, sinceReap>>
    BY <1>7 DEF Stopped, loopVars
  <2>2. ConnsOK'
    BY <2>1, NoConnStep DEF Busy
  <2>3. Up' = Up
    BY <2>1 DEF Up
  <2>4. StageOK'
    BY <2>1, <2>3 DEF LoopInv, StageOK
  <2>5. Silence
    BY <2>1, NoBlame
  <2> QED BY <2>2, <2>4, <2>5 DEF StepOK
<1> QED BY <1>1, <1>2, <1>3, <1>4, <1>5, <1>6, <1>7 DEF LoopNext

\* What the invariant says of every state.
LEMMA LoopConsequences ==
    LoopInv => LoopTypeOK /\ NoLineIsStranded /\ SilenceIsBounded /\ RegistrationIsBounded
<1> SUFFICES ASSUME LoopInv
             PROVE  LoopTypeOK /\ NoLineIsStranded /\ SilenceIsBounded /\ RegistrationIsBounded
  OBVIOUS
<1>1. \A c \in Cids : /\ conn[c] \in Conn
                      /\ conn[c].up \/ conn[c] = NoConn
                      /\ LineOK(conn[c], Busy(c))
                      /\ ClockOK(conn[c], sinceReap)
  BY LoopFacts
<1>2. sinceReap \in 0..ReapPeriod /\ sinceReap \in 0..Horizon
  BY Numbers DEF LoopInv, StageOK
<1>3. LoopTypeOK
  BY <1>1, <1>2 DEF LoopInv, ConnsOK, StageOK, LoopTypeOK
<1>4. NoLineIsStranded
  BY <1>1 DEF NoLineIsStranded, LineOK, Busy
<1>5. ASSUME NEW c \in Cids, conn[c].registered, ~conn[c].markedForClose
      PROVE  conn[c].active <= PingTimeout + 2 * ReapPeriod
  <2> DEFINE active == conn[c].active
             pinged == conn[c].pinged
  <2>1. active \in Int /\ pinged \in Int
    BY <1>1 DEF Conn
  <2>2. IF conn[c].pingPending
        THEN /\ pinged <= (PingTimeout - PingInterval) + sinceReap
             /\ active <= pinged + PingInterval + ReapPeriod
        ELSE active <= PingInterval + sinceReap
    BY <1>1, <1>5 DEF ClockOK
  <2> HIDE DEF active, pinged
  <2>3. active <= PingTimeout + 2 * ReapPeriod
    BY <1>2, <2>1, <2>2, Numbers
  <2> QED BY <2>3 DEF active
<1>6. ASSUME NEW c \in Cids, conn[c].up, ~conn[c].registered, ~conn[c].markedForClose
      PROVE  conn[c].connected <= ConnectTimeout + ReapPeriod
  <2> DEFINE connected == conn[c].connected
  <2>1. connected \in Int /\ connected <= ConnectTimeout + sinceReap
    BY <1>1, <1>6 DEF ClockOK, Conn
  <2> HIDE DEF connected
  <2>2. connected <= ConnectTimeout + ReapPeriod
    BY <1>2, <2>1, Numbers
  <2> QED BY <2>2 DEF connected
<1>7. SilenceIsBounded /\ RegistrationIsBounded
  BY <1>5, <1>6 DEF SilenceIsBounded, RegistrationIsBounded
<1> QED BY <1>3, <1>4, <1>7

-----------------------------------------------------------------------------
\* The invariant holds after every step of Server::run, whatever the limits are
\* (Server.cpp:151-211).
THEOREM LoopCorrect == LoopSpec => []LoopInv
BY LoopStarts, LoopStep, PTL DEF LoopSpec

\* Type correctness of the loop: the cursor of a pass is a client still there
\* (Server.cpp:151-211).
THEOREM LoopTypes == LoopSpec => []LoopTypeOK
BY LoopCorrect, LoopConsequences, PTL

\* A complete line is left in recvBuf only while its client is serviced or
\* being closed, for any number of clients and lines (Server.cpp:276-337).
THEOREM LinesAreHandled == LoopSpec => []NoLineIsStranded
BY LoopCorrect, LoopConsequences, PTL

\* A registered client is silent for at most PING_TIMEOUT_SEC and two periods
\* of the reaper, whatever the limits are (Server.cpp:404-434).
THEOREM SilenceEnds == LoopSpec => []SilenceIsBounded
BY LoopCorrect, LoopConsequences, PTL

\* A connection is unregistered for at most CONNECT_TIMEOUT_SEC and one period
\* of the reaper (Server.cpp:404-434).
THEOREM RegistrationEnds == LoopSpec => []RegistrationIsBounded
BY LoopCorrect, LoopConsequences, PTL

\* Only a client not heard from for more than PING_TIMEOUT_SEC is told "Ping
\* timeout" (Server.cpp:287-288, 423-426).
THEOREM PingTimeoutsAreSilences == LoopSpec => PingTimeoutMeansSilence
<1>1. LoopInv /\ [LoopNext]_loopVars => [Silence]_loopVars
  BY LoopStep
<1>2. LoopSpec => [][Silence]_loopVars
  BY <1>1, LoopCorrect, PTL DEF LoopSpec
<1> QED BY <1>2, PTL DEF PingTimeoutMeansSilence, Silence

-----------------------------------------------------------------------------
\* A mark stays until the teardown.
MarksStay == \A c \in Cids : conn[c].markedForClose /\ conn'[c].up => conn'[c].markedForClose

LEMMA MarksStayInService ==
    ASSUME LoopInv, NEW c \in Cids, Service(c)
    PROVE  MarksStay
<1>1. conn \in [Cids -> Conn]
  BY DEF LoopInv, ConnsOK
<1>2. ASSUME NEW q, conn' = [conn EXCEPT ![c] = q], conn[c].markedForClose => q.markedForClose
      PROVE  MarksStay
  BY <1>1, <1>2 DEF MarksStay
<1>3. ASSUME NEW q, conn' = [conn EXCEPT ![c] = q], Outcome(c, q)
      PROVE  MarksStay
  BY <1>2, <1>3 DEF Outcome, SameClocks
<1>4. CASE HangUp(c)
  BY <1>3, <1>4, HangUpOutcome
<1>5. CASE \E result \in {"done", "want read", "want write", "failed"} : DoHandshake(c, result)
  <2>1. PICK q : Outcome(c, q) /\ conn' = [conn EXCEPT ![c] = q]
    BY <1>5, HandshakeOutcome
  <2> QED BY <1>3, <2>1
<1>6. CASE \E got \in 0..MaxLines, data \in BOOLEAN,
              result \in {"want read", "want write", "ended", "failed", "flood"} :
                DoRead(c, got, data, result)
  <2>1. PICK got \in 0..MaxLines, data \in BOOLEAN,
             result \in {"want read", "want write", "ended", "failed", "flood"} :
                DoRead(c, got, data, result)
    BY <1>6
  <2>2. PICK q : /\ conn' = [conn EXCEPT ![c] = q]
                 /\ conn[c].markedForClose => q.markedForClose
    BY <2>1, ReadOutcome
  <2> QED BY <1>2, <2>2
<1>7. ASSUME NEW to \in SUBSET Cids, NEW registers \in BOOLEAN, NEW quits \in BOOLEAN,
             RunLine(c, to, registers, quits)
      PROVE  MarksStay
  <2> DEFINE read == [conn EXCEPT ![c].recvBuf = @ - 1, ![c].registered = @ \/ registers]
             sent == SendTo(read, to)
  <2>1. ASSUME NEW d \in Cids PROVE read[d].markedForClose = conn[d].markedForClose
    BY <1>1 DEF Conn
  <2>2. conn' = IF quits THEN [sent EXCEPT ![c] = Close(@, "other")] ELSE sent
    BY <1>7 DEF RunLine
  <2> HIDE DEF read
  <2>3. ASSUME NEW d \in Cids, conn[d].markedForClose
        PROVE  sent[d] = read[d] /\ read[d].markedForClose
    BY <2>1, <2>3 DEF SendTo, Receive
  <2>4. sent = [d \in Cids |-> sent[d]]
    BY DEF SendTo
  <2> HIDE DEF sent
  <2>5. ASSUME NEW d \in Cids, conn[d].markedForClose
        PROVE  conn'[d].markedForClose
    <3>1. CASE quits /\ d = c
      <4>1. conn'[c] = Close(sent[c], "other") /\ sent[c] = read[c] /\ read[c] = [conn[c] EXCEPT
                !.recvBuf = @ - 1, !.registered = @ \/ registers]
        BY <1>1, <2>2, <2>3, <2>4, <2>5, <3>1 DEF read, Conn
      <4> QED BY <1>1, <3>1, <4>1 DEF Close, Conn
    <3>2. CASE ~(quits /\ d = c)
      BY <2>2, <2>3, <2>4, <2>5, <3>2
    <3> QED BY <3>1, <3>2
  <2> QED BY <2>5 DEF MarksStay
<1>8. CASE \E tooLong \in BOOLEAN : LinesEnd(c, tooLong)
  <2>1. conn[c] \in Conn
    BY <1>1
  <2>2. Close(conn[c], "other").markedForClose
    BY <2>1, CloseFacts DEF Reasons
  <2>3. conn' = conn \/ conn' = [conn EXCEPT ![c] = Close(conn[c], "other")]
    BY <1>8 DEF LinesEnd
  <2> QED BY <1>2, <2>2, <2>3 DEF MarksStay
<1>9. CASE \E left \in 0..MaxSend, result \in {"done", "want read", "want write", "failed"} :
                DoWrite(c, left, result)
  BY <1>3, <1>9, WriteOutcome
<1>10. CASE NoWrite(c)
  BY <1>10 DEF NoWrite, MarksStay
<1> QED BY <1>4, <1>5, <1>6, <1>7, <1>8, <1>9, <1>10 DEF Service

LEMMA MarksStayForever == LoopInv /\ [LoopNext]_loopVars => MarksStay
<1> SUFFICES ASSUME LoopInv, [LoopNext]_loopVars
             PROVE  MarksStay
  OBVIOUS
<1>1. conn \in [Cids -> Conn]
  BY DEF LoopInv, ConnsOK
<1>2. ASSUME NEW s \in {0, 1}, NEW new \in SUBSET (Cids \ Up), NEW ev \in Events,
             Poll(s, new, ev)
      PROVE  MarksStay
  <2>1. \A c \in Cids : Aged(conn[c], s).markedForClose = conn[c].markedForClose
    BY <1>1 DEF Aged, Conn
  <2>2. \A c \in Cids : c \in new => ~conn[c].markedForClose
    BY LoopFacts DEF Up, NoConn
  <2>3. conn' = [c \in Cids |-> IF c \in new THEN NewConn ELSE Aged(conn[c], s)]
    BY <1>2 DEF Poll
  <2> QED BY <2>1, <2>2, <2>3 DEF MarksStay
<1>3. CASE \E c \in Cids : Service(c)
  BY <1>3, MarksStayInService
<1>4. ASSUME NEW c \in Cids, NEW to \in SUBSET Cids, Sweep(c, to)
      PROVE  MarksStay
  <2> DEFINE gone == [conn EXCEPT ![c] = NoConn]
  <2>1. conn' = conn \/ conn' = [d \in Cids |-> IF d \in to THEN Receive(gone[d]) ELSE gone[d]]
    BY <1>4 DEF Sweep, SendTo
  <2>2. ~NoConn.up
    BY DEF NoConn
  <2>3. gone[c] = NoConn /\ \A d \in Cids \ {c} : gone[d] = conn[d]
    BY <1>1
  <2> HIDE DEF gone
  <2>4. ~Receive(gone[c]).up /\ ~gone[c].up
    BY <2>2, <2>3 DEF Receive
  <2>5. \A d \in Cids \ {c} : conn[d].markedForClose => Receive(gone[d]) = conn[d]
    BY <2>3 DEF Receive
  <2> QED BY <2>1, <2>3, <2>4, <2>5 DEF MarksStay
<1>5. CASE EndRound
  <2>1. \A c \in Cids : conn[c].markedForClose => Reaped(conn[c]) = conn[c]
    BY DEF Reaped
  <2>2. conn' = conn \/ conn' = [c \in Cids |-> Reaped(conn[c])]
    BY <1>5 DEF EndRound
  <2> QED BY <2>1, <2>2 DEF MarksStay
<1>6. CASE Shutdown
  BY <1>6 DEF Shutdown, MarksStay, NoConn
<1>7. CASE BeginSweep \/ Stopped \/ UNCHANGED loopVars
  BY <1>7 DEF BeginSweep, Stopped, loopVars, MarksStay
<1> QED BY <1>2, <1>3, <1>4, <1>5, <1>6, <1>7 DEF LoopNext

\* How a visit to c moves the thread: it returns, it reads, or it is among the
\* lines.
Returns(c) == Turn(c) /\ Serviced(c)

Reads(c) ==
    /\ Turn(c)
    /\ "in" \in revents[c]
    /\ stage' \in {"service", "lines"}
    /\ revents' = [revents EXCEPT ![c] = @ \ {"in"}]
    /\ cur' = c
    /\ UNCHANGED todo

Handles(c) ==
    /\ stage = "lines"
    /\ cur = c
    /\ stage' \in {"service", "lines"}
    /\ conn'[c].markedForClose => stage' = "service"
    /\ UNCHANGED <<todo, revents, cur>>

LEMMA ServiceMoves ==
    ASSUME NEW c \in Cids, Service(c)
    PROVE  Returns(c) \/ Reads(c) \/ Handles(c)
<1>1. CASE HangUp(c)
  BY <1>1 DEF HangUp, Returns
<1>2. CASE \E result \in {"done", "want read", "want write", "failed"} : DoHandshake(c, result)
  BY <1>2 DEF DoHandshake, Returns
<1>3. CASE \E got \in 0..MaxLines, data \in BOOLEAN,
              result \in {"want read", "want write", "ended", "failed", "flood"} :
                DoRead(c, got, data, result)
  BY <1>3 DEF DoRead, Reads, Turn
<1>4. CASE \E to \in SUBSET Cids, registers, quits \in BOOLEAN : RunLine(c, to, registers, quits)
  BY <1>4 DEF RunLine, Handles, AfterLine
<1>5. CASE \E tooLong \in BOOLEAN : LinesEnd(c, tooLong)
  BY <1>5 DEF LinesEnd, Handles
<1>6. CASE \E left \in 0..MaxSend, result \in {"done", "want read", "want write", "failed"} :
                DoWrite(c, left, result)
  BY <1>6 DEF DoWrite, Returns
<1>7. CASE NoWrite(c)
  BY <1>7 DEF NoWrite, Returns
<1> QED BY <1>1, <1>2, <1>3, <1>4, <1>5, <1>6, <1>7 DEF Service

\* The lines of a client are run only after its readability was used up.
ReadIsUsed == stage = "lines" => cur \in Cids /\ "in" \notin revents[cur]

LEMMA ReadIsUsedOK == LoopInv /\ ReadIsUsed /\ [LoopNext]_loopVars => ReadIsUsed'
<1> SUFFICES ASSUME LoopInv, ReadIsUsed, [LoopNext]_loopVars
             PROVE  ReadIsUsed'
  OBVIOUS
<1>1. revents \in [Cids -> SUBSET {"in", "out", "hup"}]
  BY DEF LoopInv, StageOK, Events
<1>2. ASSUME NEW c \in Cids, Service(c)
      PROVE  ReadIsUsed'
  <2>1. CASE Returns(c)
    BY <2>1 DEF Returns, Turn, Serviced, ReadIsUsed
  <2>2. CASE Reads(c)
    BY <1>1, <2>2 DEF Reads, ReadIsUsed
  <2>3. CASE Handles(c)
    BY <2>3 DEF Handles, ReadIsUsed
  <2> QED BY <1>2, <2>1, <2>2, <2>3, ServiceMoves
<1>3. CASE Stopped \/ UNCHANGED loopVars
  BY <1>3 DEF Stopped, loopVars, ReadIsUsed
<1>4. CASE stage' # "lines"
  BY <1>4 DEF ReadIsUsed
<1> QED BY <1>2, <1>3, <1>4 DEF LoopNext, Poll, BeginSweep, Sweep, EndRound, Shutdown

\* A marked client that may run no line stays so, and one that runs a line has
\* run its last.
LastLine ==
    \A c \in Cids :
        /\ LineRuns(c) => MayRunLine(c)
        /\ conn[c].markedForClose /\ conn'[c].up /\ (LineRuns(c) \/ ~MayRunLine(c))
                => conn'[c].markedForClose /\ ~MayRunLine(c)'

LEMMA LastLineOK == LoopInv /\ ReadIsUsed /\ [LoopNext]_loopVars => LastLine
<1> SUFFICES ASSUME LoopInv, ReadIsUsed, [LoopNext]_loopVars
             PROVE  LastLine
  OBVIOUS
<1>1. revents \in [Cids -> SUBSET {"in", "out", "hup"}] /\ conn \in [Cids -> Conn]
      /\ cur \in todo \cup {NoClient} /\ NoClient \notin Cids
      /\ \A c \in Cids : c \in todo => conn[c].up
  BY LoopAssumption DEF LoopInv, ConnsOK, StageOK, Events, Up
<1>2. ASSUME NEW c \in Cids, LineRuns(c)
      PROVE  MayRunLine(c)
  BY <1>1, <1>2 DEF LineRuns, MayRunLine
<1>3. ASSUME NEW c \in Cids, conn[c].markedForClose, conn'[c].up, LineRuns(c) \/ ~MayRunLine(c)
      PROVE  conn'[c].markedForClose /\ ~MayRunLine(c)'
  <2>1. conn[c].up /\ conn'[c].markedForClose
    <3>1. MarksStay
      BY MarksStayForever
    <3>2. conn[c].up
      BY <1>3, LoopFacts DEF NoConn
    <3> QED BY <1>3, <3>1, <3>2 DEF MarksStay
  <2>2. ASSUME NEW d \in Cids, Service(d)
        PROVE  ~MayRunLine(c)'
    <3>1. CASE Returns(d)
      BY <1>1, <1>3, <2>1, <3>1 DEF Returns, Turn, Serviced, LineRuns, MayRunLine
    <3>2. CASE Reads(d)
      BY <1>1, <1>3, <2>1, <3>2 DEF Reads, Turn, LineRuns, MayRunLine
    <3>3. CASE Handles(d) /\ d = c
      BY <1>1, <2>1, <3>3 DEF Handles, ReadIsUsed, MayRunLine
    <3>4. CASE Handles(d) /\ d # c
      BY <1>1, <1>3, <2>1, <3>4 DEF Handles, LineRuns, MayRunLine
    <3> QED BY <2>2, <3>1, <3>2, <3>3, <3>4, ServiceMoves
  <2>3. CASE BeginSweep
    BY <2>1, <2>3 DEF BeginSweep, Up, MayRunLine
  <2>4. ASSUME NEW d \in Cids, NEW to \in SUBSET Cids, Sweep(d, to)
        PROVE  ~MayRunLine(c)'
    <3>1. d # c
      <4>1. SUFFICES ASSUME d = c PROVE FALSE
        OBVIOUS
      <4>2. conn'[c] = Receive(NoConn) \/ conn'[c] = NoConn
        BY <1>1, <1>3, <2>4, <4>1 DEF Sweep, SendTo
      <4>3. ~NoConn.up
        BY DEF NoConn
      <4>4. Receive(NoConn) = NoConn
        BY <4>3 DEF Receive
      <4> QED BY <1>3, <4>2, <4>3, <4>4
    <3> QED BY <1>3, <2>1, <2>4, <3>1 DEF Sweep, LineRuns, MayRunLine
  <2>5. CASE Stopped \/ UNCHANGED loopVars
    <3>1. UNCHANGED <<conn, stage, todo, revents, cur>> /\ conn[c].recvBuf \in Int
      BY <1>1, <2>5 DEF Stopped, loopVars, Conn
    <3>2. ~LineRuns(c)
      BY <3>1 DEF LineRuns
    <3> QED BY <1>3, <2>1, <3>1, <3>2 DEF MayRunLine
  <2>6. stage # "poll"
    BY <1>3, <2>1 DEF LineRuns, MayRunLine
  <2>7. ~(stage = "sweep" /\ todo = {})
    BY <1>3, <2>1 DEF LineRuns, MayRunLine
  <2> QED BY <2>1, <2>2, <2>3, <2>4, <2>5, <2>6, <2>7 DEF LoopNext, Poll, EndRound, Shutdown
<1> QED BY <1>2, <1>3 DEF LastLine

\* A client runs at most one line after its mark, whoever set it and however
\* many clients there are (Server.cpp:320-337).
THEOREM LastLinesAreSingle == LoopSpec => OneLastLine
<1>1. LoopInit => ReadIsUsed
  BY DEF LoopInit, ReadIsUsed
<1>2. LoopSpec => []ReadIsUsed
  BY <1>1, LoopCorrect, ReadIsUsedOK, PTL DEF LoopSpec
<1>3. LoopSpec => [][LastLine]_loopVars
  BY <1>2, LoopCorrect, LastLineOK, PTL DEF LoopSpec
<1> QED BY <1>3, PTL DEF OneLastLine, LastLine

=============================================================================

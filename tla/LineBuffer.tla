----------------------------- MODULE LineBuffer -----------------------------
(***************************************************************************)
(* How doRead and processBuffer cut the bytes of one connection into the   *)
(* lines that reach the line handler.  TLS delivers the bytes in pieces of *)
(* any size; recvBuf keeps what is not yet a line.                         *)
(***************************************************************************)
EXTENDS Integers, Sequences, SequencesExt

CONSTANTS
    Bytes,          \* the bytes a peer sends, CR and LF among them
    CR, LF,
    MaxLineLen,     \* MAX_LINE_LEN
    MaxPiece,       \* bytes one SSL_read may return (MAX_RECVBUFLEN)
    MaxBytes        \* bytes a peer sends in all (bound)

ASSUME LineAssumption ==
    /\ {CR, LF} \subseteq Bytes /\ CR # LF
    /\ {MaxLineLen, MaxPiece, MaxBytes} \subseteq Nat

VARIABLES
    received,   \* every byte read so far and appended to recvBuf
    recvBuf,    \* Client::recvBuf
    handled,    \* the lines given to the line handler
    stage       \* "reading": in doRead, "lines": in processBuffer, or "closed"

lineVars == <<received, recvBuf, handled, stage>>

FloodLen == 4 * MaxLineLen

Pieces == BoundedSeq(Bytes, MaxPiece) \ {<<>>}

LineInit == received = <<>> /\ recvBuf = <<>> /\ handled = <<>> /\ stage = "reading"

\* One SSL_read that returns bytes.
ReadPiece(piece) ==
    /\ stage = "reading"
    /\ Len(received) + Len(piece) <= MaxBytes
    /\ IF Len(recvBuf) + Len(piece) > FloodLen
       THEN stage' = "closed" /\ UNCHANGED <<received, recvBuf>>
       ELSE /\ received' = received \o piece
            /\ recvBuf' = recvBuf \o piece
            /\ UNCHANGED stage
    /\ UNCHANGED handled

\* SSL_read has no more for now; any other result closes the connection
\* without looking at recvBuf.
ReadStops(wants) ==
    /\ stage = "reading"
    /\ stage' = IF wants THEN "lines" ELSE "closed"
    /\ UNCHANGED <<received, recvBuf, handled>>

HasLine(buf) == \E i \in 1..Len(buf) : buf[i] = LF

\* Mutation: rfind in place of find.
LastLF(buf) == CHOOSE i \in 1..Len(buf) : buf[i] = LF /\ \A j \in i+1..Len(buf) : buf[j] # LF

FirstLF(buf) == CHOOSE i \in 1..Len(buf) : buf[i] = LF /\ \A j \in 1..i-1 : buf[j] # LF

Trimmed(line) == IF line # <<>> /\ Last(line) = CR THEN Front(line) ELSE line

\* One turn of processBuffer's loop; an empty line reaches nobody.
NextLine(quits) ==
    LET pos == FirstLF(recvBuf)
        line == Trimmed(SubSeq(recvBuf, 1, pos - 1))
    IN
    /\ stage = "lines"
    /\ HasLine(recvBuf)
    /\ recvBuf' = SubSeq(recvBuf, pos + 1, Len(recvBuf))
    /\ IF line = <<>>
       THEN ~quits /\ UNCHANGED <<handled, stage>>
       ELSE /\ handled' = Append(handled, line)
            /\ stage' = IF quits THEN "closed" ELSE stage
    /\ UNCHANGED received

\* Mutation: what is left may be of any length.
NoMoreLinesAtAll ==
    /\ stage = "lines"
    /\ ~HasLine(recvBuf)
    /\ stage' = "reading"
    /\ UNCHANGED <<received, recvBuf, handled>>

NoMoreLines ==
    /\ stage = "lines"
    /\ ~HasLine(recvBuf)
    /\ stage' = IF Len(recvBuf) > MaxLineLen THEN "closed" ELSE "reading"
    /\ UNCHANGED <<received, recvBuf, handled>>

LineNext ==
    \/ \E piece \in Pieces : ReadPiece(piece)
    \/ \E wants \in BOOLEAN : ReadStops(wants)
    \/ \E quits \in BOOLEAN : NextLine(quits)
    \/ NoMoreLines

LineSpec == LineInit /\ [][LineNext]_lineVars

-----------------------------------------------------------------------------
\* Reference: the nonempty lines of a stream, found byte by byte.
WithLine(lines, line) == IF line = <<>> THEN lines ELSE Append(lines, line)

Cut(acc, b) ==
    IF b # LF THEN [acc EXCEPT !.open = Append(@, b)]
    ELSE [lines |-> WithLine(acc.lines, Trimmed(acc.open)), open |-> <<>>]

Nothing == [lines |-> <<>>, open |-> <<>>]

LinesOf(bytes) == FoldLeft(Cut, Nothing, bytes).lines

\* However the bytes were cut into pieces, across reads and inside a CR LF,
\* the handler has seen exactly the lines of what has left recvBuf, in order,
\* and what is still there is the untouched rest of the stream
\* (Server.cpp:320-337).
LinesAreTheStream ==
    /\ IsSuffix(recvBuf, received)
    /\ handled = LinesOf(SubSeq(received, 1, Len(received) - Len(recvBuf)))

\* recvBuf never holds more than the flood limit, and a connection that is
\* read on holds no complete line, which poll would never report, and no more
\* than MAX_LINE_LEN bytes of an unfinished one (Server.cpp:282-285,324-327).
BufferIsBounded ==
    [][/\ Len(recvBuf') <= FloodLen
       /\ stage = "lines" /\ stage' = "reading"
            => Len(recvBuf') <= MaxLineLen /\ ~HasLine(recvBuf')]_lineVars

=============================================================================

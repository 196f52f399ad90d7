------------------------------- MODULE MCClient -------------------------------
(***************************************************************************)
(* govorirc for TLC: in a "session" behaviour one user of it against        *)
(* govord, in a "thread" behaviour its main thread and its connection.      *)
(***************************************************************************)
EXTENDS Session, ClientLoop, TLC

CONSTANTS
    Kinds,      \* the kinds of behaviour this run has
    MaxInbox    \* bound on the lines on their way to the client

VARIABLE kind

allVars == <<sessionVars, mainVars, kind>>

MCFold == [n \in Nicks |-> IF n = "Alice" THEN "alice" ELSE n]
MCFoldName == [n \in ChanNames |-> IF n = "#A" THEN "#a" ELSE n]
MCMatchedBy == [n \in Nicks |-> Masks]

PlainHandshake ==
    \A c \in clients \ {Me} :
        /\ ~client[c].capNegotiating /\ ~client[c].cap302
        /\ ~client[c].registered => ~client[c].user /\ client[c].close = "open"
        /\ client[c].close # "marked"

\* Of a first nick that is taken nothing is claimed: such a client is not followed.
FirstNickWasFree == Len(outbox) < Len(Handshake) - 1 => client[Me].nick # NoNick

FewLines == Len(inbox) <= MaxInbox

\* Nothing depends on the WHOWAS store, on voices as long as there is no +m and no
\* ban, on which nick the target is, and on what a marked client is still allowed.
WhatMatters ==
    <<clients, nicks,
      [c \in Cids |-> [client[c] EXCEPT !.close = IF @ = "open" THEN @ ELSE "drained"]],
      channels, [k \in FoldedNames |-> [channel[k] EXCEPT !.voiced = {}, !.invited = {}, !.joinOrder = <<>>, !.nextJoinSeq = 0]], joined,
      [session EXCEPT !.target = IF @ \in Nicks THEN FirstName ELSE @], outbox, inbox, mainVars, kind>>

ClientInit == SessionInit /\ LoopStart /\ kind \in Kinds

ClientNext ==
    /\ \/ kind = "session" /\ SessionNext /\ UNCHANGED mainVars
       \/ kind = "thread" /\ LoopNext /\ UNCHANGED sessionVars
    /\ UNCHANGED kind

ClientSpec == ClientInit /\ [][ClientNext]_allVars /\ (kind = "thread" => LoopFairness)

===============================================================================

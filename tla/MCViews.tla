------------------------------- MODULE MCViews -------------------------------
\* Views for TLC: nicks that are interchangeable and fold to themselves, and
\* clients that do not negotiate capabilities.
EXTENDS Views, TLC, FiniteSetsExt

CONSTANT MaxUsed

MCFold == [n \in Nicks |-> n]
MCFoldName == [n \in ChanNames |-> n]
MCMatchedBy == [n \in Nicks |-> Masks]

ViewsSymmetry == Permutations(Cids) \cup Permutations(Nicks) \cup Permutations(ChanNames)

\* Who is not registered is in no channel: of the handshake, NICK before USER is
\* enough, and it is not interrupted.
PlainHandshake ==
    \A c \in clients :
        /\ ~client[c].capNegotiating /\ ~client[c].cap302
        /\ ~client[c].registered => ~client[c].user /\ client[c].close = "open"

\* Joins and invitations in all channels together.
FewJoins ==
    LET used(k) == channel[k].nextJoinSeq + Cardinality(channel[k].invited)
    IN  MapThenSumSet(used, FoldedNames) <= MaxUsed

\* Nothing depends on the WHOWAS store, on voices as long as there is no +m and
\* no ban, and on what a client that is sent nothing more has seen.
WhatMatters ==
    <<regVars, channels, [k \in FoldedNames |-> [channel[k] EXCEPT !.voiced = {}]], joined,
      [c \in Cids |-> IF Gets(c) THEN view[c] ELSE <<>>]>>

=============================================================================

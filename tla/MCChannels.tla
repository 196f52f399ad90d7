----------------------------- MODULE MCChannels -----------------------------
\* Channels for TLC: "#a" and "#A" fold together, "#b" does not.
EXTENDS Channels, TLC, FiniteSetsExt

CONSTANT MaxUsed    \* bound on the joins, invitations and bans of all channels together

MCNicks == {"alice", "bob"}
MCFold == [n \in MCNicks |-> n]
MCFoldName == [n \in ChanNames |-> IF n = "#A" THEN "#a" ELSE n]

CidSymmetry == Permutations(Cids)

FewJoins ==
    LET used(k) == channel[k].nextJoinSeq + Cardinality(channel[k].invited)
                   + Cardinality(channel[k].bans)
    IN  MapThenSumSet(used, FoldedNames) <= MaxUsed

=============================================================================

----------------------------- MODULE MCModeLine -----------------------------
\* ModeLine for TLC: two clients, and three parameters, each of which may be taken
\* for the key and completed to a mask.  "alice" is the nick of c1, "1" is a limit,
\* and "alice 1", which only the end of a line can hold, is read back as both.
EXTENDS ModeLine

CONSTANTS c1, c2

MCNicks == {"alice", "bob"}
MCFold == [n \in MCNicks |-> n]
MCFoldName == [n \in ChanNames |-> n]

MCTyped == {"alice", "1", "alice 1"}
MCMasks == {"alice!*@*", "1!*@*", "alice 1!*@*"}
MCArgs == MCTyped \cup MCMasks
MCWords == MCArgs \ {"alice 1", "alice 1!*@*"}

MCHeardAs ==
    [a \in MCArgs |-> CASE a = "alice 1" -> <<"alice", "1">>
                        [] a = "alice 1!*@*" -> <<"alice", "1!*@*">>
                        [] OTHER -> <<a>>]
MCTargetOf == [a \in MCArgs |-> IF a = "alice" THEN c1 ELSE NoClient]
MCNickAs == [c \in {c1} |-> "alice"]
MCLimitOf == [a \in MCArgs |-> IF a = "1" THEN 1 ELSE 0]
MCMaskOf ==
    [a \in MCArgs |-> CASE a = "alice" -> "alice!*@*"
                        [] a = "1" -> "1!*@*"
                        [] a = "alice 1" -> "alice 1!*@*"
                        [] OTHER -> a]
\* No mask is written, or heard, as a key.
MCKeyOf == [a \in MCArgs |-> IF a \in MCTyped THEN a ELSE NoChanKey]

\* A line finds at most one of its key, limit, flag and bans set already.
FewSettings ==
    by = NoClient =>
        \A k \in channels :
            LET ch == channel[k] IN
            Cardinality(ch.flags) + Cardinality(ch.bans) + (IF ch.key = NoChanKey THEN 0 ELSE 1)
                + (IF ch.limit = 0 THEN 0 ELSE 1) <= 1

=============================================================================

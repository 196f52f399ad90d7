----------------------------- MODULE MCRegistry -----------------------------
(***************************************************************************)
(* Connections and nicks for TLC: the handlers of Govord that concern no   *)
(* channel.  "alice" and "Alice" fold together, "bob" does not.  A         *)
(* "handshake" behaviour tries every order of the commands, without        *)
(* telling apart what the WHOWAS store holds; a "whowas" behaviour fills   *)
(* the store, with clients that do not negotiate and know the password.    *)
(***************************************************************************)
EXTENDS Govord, TLC

CONSTANT Kinds  \* the kinds of behaviour this run has

VARIABLE kind

MCNicks == {"alice", "Alice", "bob"}
MCFold == [n \in MCNicks |-> IF n = "Alice" THEN "alice" ELSE n]
MCFoldName == [n \in ChanNames |-> n]
MCMatchedBy == [n \in MCNicks |-> Masks]

CidSymmetry == Permutations(Cids)

NicksInit == GovordInit /\ kind \in Kinds

NicksNext ==
    /\ \E c \in Cids :
          \/ RegistryOnly(HandshakeAction(c))
          \/ \E n \in Nicks : RenameTo(c, n)
          \/ TeardownClient(c)
    /\ UNCHANGED kind

NicksSpec == NicksInit /\ [][NicksNext]_<<govordVars, kind>>

\* PASS comes first, and is the right one.
PlainHandshake ==
    kind = "whowas" =>
        \A c \in clients :
            /\ ~client[c].capNegotiating /\ ~client[c].cap302
            /\ client[c].enabledCaps = {}
            /\ client[c].pass \in Accepted \cup {NoPass}
            /\ client[c].user \/ client[c].nick # NoNick =>
                   client[c].registered \/ client[c].pass \in Accepted

WhatMatters == <<kind, regVars, IF kind = "whowas" THEN whVars ELSE <<>>>>

=============================================================================

-------------------------------- MODULE Ids --------------------------------
(***************************************************************************)
(* The identities every part of govord speaks about: connections (cids),   *)
(* nicknames, and the case folding under which nicknames are compared.     *)
(***************************************************************************)

CONSTANTS
    Cids,       \* connection ids, the keys of Server::clients_
    NoClient,   \* "no such client": the end iterator, or -1
    Nicks,      \* the valid nicknames, as spelled by clients
    NoNick,     \* Client::nick before the first successful NICK
    Fold        \* Utils::ircCaseFold on those spellings

ASSUME IdsAssumption ==
    /\ NoClient \notin Cids
    /\ NoNick \notin Nicks
    /\ DOMAIN Fold = Nicks

\* The keys of the nick table: the folded spellings.
FoldedNicks == {Fold[n] : n \in Nicks}

=============================================================================

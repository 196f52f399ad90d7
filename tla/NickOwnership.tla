--------------------------- MODULE NickOwnership ---------------------------
(***************************************************************************)
(* What a client may rely on about nicknames, with no table and no         *)
(* connection state: a name has at most one owner, an owner has at most    *)
(* one name, and a name changes owner only by being free in between.       *)
(***************************************************************************)

CONSTANTS Names, Owners, Nobody

VARIABLE owner      \* owner[n]: who is known by n

OwnInit == owner = [n \in Names |-> Nobody]

Free(n)     == owner[n] = Nobody
Nameless(o) == \A n \in Names : owner[n] # o

Claim(o, n) ==
    /\ Nameless(o)
    /\ Free(n)
    /\ owner' = [owner EXCEPT ![n] = o]

Move(o, from, to) ==
    /\ owner[from] = o
    /\ Free(to)
    /\ owner' = [owner EXCEPT ![from] = Nobody, ![to] = o]

Release(o, n) ==
    /\ owner[n] = o
    /\ owner' = [owner EXCEPT ![n] = Nobody]

OwnNext ==
    \E o \in Owners, n \in Names :
        \/ Claim(o, n)
        \/ Release(o, n)
        \/ \E to \in Names : Move(o, n, to)

OwnSpec == OwnInit /\ [][OwnNext]_owner

=============================================================================

------------------------------- MODULE Whowas -------------------------------
(***************************************************************************)
(* WhowasStore: the nicknames lately given up, newest first, a bounded     *)
(* number per nickname and in all.  order remembers under which key each   *)
(* record was made; a record dropped by the bound per nickname leaves its  *)
(* order entry behind.                                                     *)
(*                                                                         *)
(* An entry is abstracted to the nick as it was spelled.                   *)
(***************************************************************************)
EXTENDS Ids, Integers, Sequences, FiniteSets

CONSTANTS
    MaxPerNick,     \* MAX_PER_NICK
    MaxTotal        \* MAX_TOTAL

ASSUME WhowasAssumption ==
    /\ MaxPerNick \in Nat \ {0}
    /\ MaxTotal \in Nat \ {0}

VARIABLES
    history,    \* history[k]: the deque of k, newest first; <<>> where the key is absent
    order       \* the keys recorded, newest first

whVars == <<history, order>>

WhInit ==
    /\ history = [k \in FoldedNicks |-> <<>>]
    /\ order = <<>>

-----------------------------------------------------------------------------
\* Mutation: the bound per nickname is not applied.
AllOf(seq, n) == seq

Newest(seq, n) == SubSeq(seq, 1, IF Len(seq) < n THEN Len(seq) ELSE n)

\* Mutation: pop_front in place of pop_back.
DropFirst(seq) == Tail(seq)

DropLast(seq) == SubSeq(seq, 1, Len(seq) - 1)

KeyFor(n) == Fold[n]

\* record(n): one entry in front, then the oldest key of an overlong order
\* loses its last entry, if it still has one.
Record(n) ==
    LET k == KeyFor(n)
        pushed == [history EXCEPT ![k] = Newest(<<n>> \o @, MaxPerNick)]
        keys == <<k>> \o order
        oldest == keys[Len(keys)]
    IN  IF Len(keys) <= MaxTotal
        THEN /\ history' = pushed
             /\ order' = keys
        ELSE /\ history' = [pushed EXCEPT ![oldest] = IF @ = <<>> THEN @ ELSE DropLast(@)]
             /\ order' = DropLast(keys)

WhNext == \E n \in Nicks : Record(n)

WhSpec == WhInit /\ [][WhNext]_whVars

-----------------------------------------------------------------------------
\* Types, and each entry is filed under its own folding.
WhTypeOK ==
    /\ history \in [FoldedNicks -> Seq(Nicks)]
    /\ order \in Seq(FoldedNicks)
    /\ \A k \in FoldedNicks : \A i \in DOMAIN history[k] : Fold[history[k][i]] = k

RecordedAs(k) == {i \in DOMAIN order : order[i] = k}

\* Every entry kept is accounted for in order: what order forgets is evicted,
\* so that the store as a whole stays within MAX_TOTAL although only order is
\* measured (Whowas.cpp:15-23), and each nickname within MAX_PER_NICK.
StoreIsBounded ==
    /\ Len(order) <= MaxTotal
    /\ \A k \in FoldedNicks :
          /\ Len(history[k]) <= MaxPerNick
          /\ Len(history[k]) <= Cardinality(RecordedAs(k))

IsPrefixOf(s, t) == Len(s) <= Len(t) /\ s = SubSeq(t, 1, Len(s))

\* A nickname's entries are forgotten oldest first: after a step they are the
\* newest of what they were, behind one new entry if the nickname was recorded.
ForgetsOldestFirst ==
    [][\A k \in FoldedNicks :
        \/ IsPrefixOf(history'[k], history[k])
        \/ /\ Head(order') = k
           /\ \E n \in Nicks : IsPrefixOf(history'[k], <<n>> \o history[k])]_whVars

=============================================================================

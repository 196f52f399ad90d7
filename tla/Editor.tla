-------------------------------- MODULE Editor --------------------------------
(***************************************************************************)
(* What a user takes an input line for: a row of characters with a cursor  *)
(* between two of them, and the lines entered before.  There are no bytes. *)
(***************************************************************************)
EXTENDS Integers, Sequences

CONSTANT Characters     \* what can be typed

VARIABLES
    text,       \* the characters of the line
    cursor,     \* how many of them are before the cursor
    entered     \* the lines kept of those entered, the oldest first

lineVars == <<text, cursor, entered>>

LineEmpty == text = <<>> /\ cursor = 0 /\ entered = <<>>

Left  == SubSeq(text, 1, cursor)
Right == SubSeq(text, cursor + 1, Len(text))

Insert ==
    /\ \E ch \in Characters : text' = Left \o <<ch>> \o Right
    /\ cursor' = cursor + 1
    /\ UNCHANGED entered

DeleteBefore ==
    /\ cursor > 0
    /\ text' = SubSeq(text, 1, cursor - 1) \o Right
    /\ cursor' = cursor - 1
    /\ UNCHANGED entered

DeleteBehind ==
    /\ Right # <<>>
    /\ text' = Left \o Tail(Right)
    /\ UNCHANGED <<cursor, entered>>

Move ==
    /\ cursor' \in {cursor - 1, cursor + 1, 0, Len(text)} \cap 0 .. Len(text)
    /\ UNCHANGED <<text, entered>>

Recall ==
    /\ text' = <<>> \/ \E i \in DOMAIN entered : text' = entered[i]
    /\ cursor' = Len(text')
    /\ UNCHANGED entered

Enter ==
    /\ text # <<>>
    /\ LET all == Append(entered, text) IN entered' \in {all, Tail(all)}
    /\ text' = <<>>
    /\ cursor' = 0

EditorNext == Insert \/ DeleteBefore \/ DeleteBehind \/ Move \/ Recall \/ Enter

EditorSpec == LineEmpty /\ [][EditorNext]_lineVars

=============================================================================

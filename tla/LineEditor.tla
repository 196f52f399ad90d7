------------------------------ MODULE LineEditor ------------------------------
(***************************************************************************)
(* The input line of govorirc (Ui::handleKey): bytes, with a cursor in     *)
(* bytes, edited by keys that arrive one byte at a time.  The terminal     *)
(* delivers a character as its bytes; once the first byte of several has   *)
(* come, the rest is read at once, and whatever arrives is taken for it.   *)
(*                                                                         *)
(* A byte is abstracted to what utf8CharLen sees of it: "a" stands alone,  *)
(* "x" (0xF8 and above) does so although no character has it, "l2" and     *)
(* "l3" begin a character of two and three bytes, "c" continues one.       *)
(***************************************************************************)
EXTENDS Integers, Sequences, FiniteSetsExt

CONSTANTS
    MaxInput,       \* bound on the bytes of the input line
    MaxHistory      \* lines of history_ that are kept: 200

ASSUME LineEditorAssumption == MaxInput \in Nat /\ MaxHistory \in Nat \ {0}

VARIABLES
    inputBuf, cursorByte, history_, historyIdx,
    seq         \* the bytes of the character being read, <<>> between characters

editVars == <<inputBuf, cursorByte, history_, historyIdx, seq>>

Utf8CharLen(b) == CASE b = "l2" -> 2 [] b = "l3" -> 3 [] OTHER -> 1

EditInit ==
    /\ inputBuf = <<>> /\ cursorByte = 0
    /\ history_ = <<>> /\ historyIdx = 0
    /\ seq = <<>>

-----------------------------------------------------------------------------
\* Mutation: one byte is one character.
ByteBack(buf, pos) == pos - 1

\* Back over the continuation bytes to where the character before pos begins.
StepBack(buf, pos) == Max({0} \cup {i \in 1 .. pos - 1 : buf[i + 1] # "c"})

StepOn(buf, pos) == pos + Utf8CharLen(buf[pos + 1])

\* The bytes behind from, up to to, replaced by new ones.
Splice(buf, from, to, new) == SubSeq(buf, 1, from) \o new \o SubSeq(buf, to + 1, Len(buf))

\* std::string::insert, with the cursor moved behind
InsertBytes(bytes) ==
    /\ Len(inputBuf) + Len(bytes) <= MaxInput
    /\ inputBuf' = Splice(inputBuf, cursorByte, cursorByte, bytes)
    /\ cursorByte' = cursorByte + Len(bytes)

Moves(pos) == cursorByte' = pos /\ UNCHANGED <<inputBuf, history_, historyIdx, seq>>

\* A first byte, of a character of one byte or of more.  A continuation byte
\* out of place is ignored.
KeyByte(b) ==
    /\ seq = <<>>
    /\ b # "c"
    /\ IF Utf8CharLen(b) = 1 THEN InsertBytes(<<b>>) /\ UNCHANGED seq
       ELSE seq' = <<b>> /\ UNCHANGED <<inputBuf, cursorByte>>
    /\ UNCHANGED <<history_, historyIdx>>

\* The blocking wgetch.  KEY_RESIZE, whose low byte is 0x9A, passes for a
\* continuation; any other key ends the character, and both are dropped.
KeyInSequence(b) ==
    /\ seq # <<>>
    /\ IF b \notin {"c", "resize"} THEN seq' = <<>> /\ UNCHANGED <<inputBuf, cursorByte>>
       ELSE IF Len(seq) + 1 < Utf8CharLen(seq[1])
       THEN seq' = Append(seq, "c") /\ UNCHANGED <<inputBuf, cursorByte>>
       ELSE InsertBytes(Append(seq, "c")) /\ seq' = <<>>
    /\ UNCHANGED <<history_, historyIdx>>

KeyBackspace ==
    /\ seq = <<>> /\ cursorByte > 0
    /\ LET back == StepBack(inputBuf, cursorByte) IN
       /\ inputBuf' = Splice(inputBuf, back, cursorByte, <<>>)
       /\ cursorByte' = back
    /\ UNCHANGED <<history_, historyIdx, seq>>

KeyDC ==
    /\ seq = <<>> /\ cursorByte < Len(inputBuf)
    /\ inputBuf' = Splice(inputBuf, cursorByte, StepOn(inputBuf, cursorByte), <<>>)
    /\ UNCHANGED <<cursorByte, history_, historyIdx, seq>>

KeyLeft  == seq = <<>> /\ cursorByte > 0 /\ Moves(StepBack(inputBuf, cursorByte))
KeyRight == seq = <<>> /\ cursorByte < Len(inputBuf) /\ Moves(StepOn(inputBuf, cursorByte))
KeyHome  == seq = <<>> /\ Moves(0)
KeyEnd   == seq = <<>> /\ Moves(Len(inputBuf))

KeyEnter ==
    /\ seq = <<>> /\ inputBuf # <<>>
    /\ history_' = LET all == Append(history_, inputBuf)
                   IN  IF Len(all) > MaxHistory THEN Tail(all) ELSE all
    /\ inputBuf' = <<>> /\ cursorByte' = 0
    /\ historyIdx' = 0
    /\ UNCHANGED seq

\* historyIdx counts from 0, which also stands for "not in the history": behind
\* the oldest line comes the newest again.
KeyUp ==
    /\ seq = <<>> /\ history_ # <<>>
    /\ historyIdx' = (IF historyIdx = 0 THEN Len(history_) ELSE historyIdx) - 1
    /\ inputBuf' = history_[historyIdx' + 1]
    /\ cursorByte' = Len(inputBuf')
    /\ UNCHANGED <<history_, seq>>

\* For the same reason nothing follows the oldest line.
KeyDown ==
    /\ seq = <<>> /\ history_ # <<>> /\ historyIdx # 0
    /\ IF historyIdx + 1 < Len(history_)
       THEN historyIdx' = historyIdx + 1 /\ inputBuf' = history_[historyIdx + 2]
       ELSE historyIdx' = 0 /\ inputBuf' = <<>>
    /\ cursorByte' = Len(inputBuf')
    /\ UNCHANGED <<history_, seq>>

EditNext ==
    \/ \E b \in {"a", "x", "l2", "l3"} : KeyByte(b)
    \/ \E b \in {"a", "l2", "c", "resize"} : KeyInSequence(b)
    \/ KeyBackspace \/ KeyDC
    \/ KeyLeft \/ KeyRight \/ KeyHome \/ KeyEnd
    \/ KeyEnter \/ KeyUp \/ KeyDown

EditSpec == EditInit /\ [][EditNext]_editVars

-----------------------------------------------------------------------------
\* The characters a reader of UTF-8 finds in bytes.
CharsOf(bytes) ==
    LET from[i \in 1 .. Len(bytes) + 3] ==
            IF i > Len(bytes) THEN <<>>
            ELSE LET end == i + Utf8CharLen(bytes[i])
                 IN  <<SubSeq(bytes, i, IF end > Len(bytes) THEN Len(bytes) ELSE end - 1)>> \o from[end]
    IN  from[1]

Whole == INSTANCE Editor WITH
    Characters <- {<<"a">>, <<"x">>, <<"l2", "c">>, <<"l3", "c", "c">>},
    text <- CharsOf(inputBuf),
    cursor <- Len(CharsOf(SubSeq(inputBuf, 1, cursorByte))),
    entered <- [i \in DOMAIN history_ |-> CharsOf(history_[i])]

\* The user edits characters although the code edits bytes: no key, of whatever
\* order of keys and however a multibyte one is interrupted, leaves a piece of a
\* character or a cursor inside one (Ui.cpp:173-210,283-304).
EditsCharacters == Whole!EditorSpec

=============================================================================

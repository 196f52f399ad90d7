SPECIFICATION TextSpec
CONSTANTS
    char = char
    cr = cr
    lf = lf
    Bytes <- MCBytes
    CR = cr
    LF = lf
    MaxLineLen = 1
    MaxPiece = 5
    MaxBytes = 7
    MaxMiddle = 2
    MaxText = 4
    Kinds = {"stream", "glob", "ban", "message", "typed", "editor"}
    MaxLeft = 4
    MaxRight = 4
    MaxInput = 4
    MaxHistory = 3
    MaxKept = 3
CONSTRAINT ShortHistory
CHECK_DEADLOCK FALSE
INVARIANTS
    LinesAreTheStream
    GlobIsRight
    PlainNickBansHold
    MessagesReadBack
    TextArrives
PROPERTIES
    BufferIsBounded
    EditsCharacters

SPECIFICATION TextSpec
CONSTANTS
    char = char
    cr = cr
    lf = lf
    Bytes <- MCBytes
    CR = cr
    LF = lf
    MaxLineLen = 1
    MaxPiece = 5
    MaxBytes = 7
    MaxMiddle = 2
    MaxText = 4
    Kinds = {"ban"}
    MaxLeft = 4
    MaxRight = 4
    MaxInput = 4
    MaxHistory = 3
    MaxKept = 3
CHECK_DEADLOCK FALSE
INVARIANTS
    NickBansHold

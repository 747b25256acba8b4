SPECIFICATION Spec
CONSTANTS
    a = a
    b = b
    NewLine = NewLine
    Readers = {r1, r2}
    Writers = {w1, w2}
    First = w1
    Chars <- Characters
    Chunks <- Strings
    Bodies <- Body
    MaxText = 5
INVARIANTS
    ReadInFull
    WakeupDue
PROPERTIES
    ReadersReturn
CHECK_DEADLOCK FALSE

SPECIFICATION Spec
CONSTANTS
    Handles = {h1, h2, h3}
    First = h1
    Pieces = {p, q}
    MaxPieces = 3
    NoFile = NoFile
INVARIANTS
    FlushedAtTheEnd
CHECK_DEADLOCK FALSE

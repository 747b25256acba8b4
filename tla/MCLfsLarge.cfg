SPECIFICATION Spec
CONSTANTS
    LogStart = 1
    LogEnd = 206
    NoBlock = NoBlock
    Names = {f, g}
    Fds = {1, 2}
    Zero = 0
    DirectBlocks = 152
    PtrsPerBlock = 1
    CellsPerBlock = 1
    MaxCells = 153
    Loads <- RemovingOrFull
    MaxCrashes = 0
INVARIANTS
    SpaceIsReclaimed
    OpenStaysReadable
PROPERTIES
    CallsReturn
CHECK_DEADLOCK FALSE

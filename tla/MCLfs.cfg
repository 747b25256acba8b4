SPECIFICATION CarefulSpec
CONSTANTS
    LogStart = 1
    LogEnd = 25
    NoBlock = NoBlock
    Names = {f}
    Fds = {1}
    Zero = 0
    DirectBlocks = 1
    PtrsPerBlock = 2
    CellsPerBlock = 2
    MaxCells = 4
    Loads <- FillingOrCleaning
    MaxCrashes = 1
INVARIANTS
    ReadsMatchDevice
    SummaryExact
PROPERTIES
    CallsAreAtomic
    CursorsFollowLogWindow
CHECK_DEADLOCK FALSE

SPECIFICATION Spec
CONSTANTS
    LogStart = 1
    LogEnd = 13
    MaxLive = 3
    NoBlock = NoBlock
INVARIANTS
    ReserveKept
    DurableIntact
    CleanerCanMove
    DeviceInOrder

SPECIFICATION Spec
CONSTANTS
    None = None
    MaxHops = 3
    MaxSize = 4
    Trees <- MCTrees
    Rooms = {0, 1, 2, 3, 4, 14}
    Plenty <- MCPlenty
    FileNames = {"a", "b", "d", "k", "e"}
    MarkdownNames = {"a", "k"}
    BlockSize = 2
    Offered <- MCOffered
INVARIANTS
    SuccessMeans
    NamedOnly
PROPERTIES
    RetryHeals
    LooksAgree
CHECK_DEADLOCK FALSE

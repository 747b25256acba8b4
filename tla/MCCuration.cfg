SPECIFICATION Spec
CONSTANTS
    Docs <- MCDocs
    PathArgs <- MCPathArgs
    PathLists <- MCPathLists
    NewNodes <- MCNewNodes
    Depths <- MCDepths
    Contents <- MCContents
    Inputs <- MCInputs
    MaxEdits = 1
    MaxCalls = 2
PROPERTIES
    EditsSplice
    NothingLost
    Undone
    SelectIsMeaning
    SavedIsRead
    
CHECK_DEADLOCK FALSE

SPECIFICATION Spec
CONSTANTS
    None = None
    Keys <- MCKeys
    Pastes <- MCPastes
    Names <- MCNames
    Files <- MCFiles
    Jsons <- MCJsons
    MaxTyped = 4
INVARIANTS
    ReadsBack
    JsonSurvives
PROPERTIES
    UnclosedIsAsked
    EditsAsWritten
CHECK_DEADLOCK FALSE

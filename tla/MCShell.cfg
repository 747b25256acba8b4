SPECIFICATION Spec
CONSTANTS
    None = None
    Scripts <- MCScripts
    Quoted <- MCQuoted
    Refs <- MCRefs
    Names <- MCNames
    Dirs <- MCDirs
    Files <- MCFiles
    Typed <- MCTyped
    Exports <- MCExports
INVARIANTS
    LookupIsLastWrite
    NoReaderWaits
PROPERTIES
    ShellAgrees
CHECK_DEADLOCK FALSE

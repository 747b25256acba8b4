SPECIFICATION Spec
CONSTANTS
    a = a
    b = b
    Names = {a, b}
    UserPaths <- Winding
    Targets <- ToA
    Fds = {1, 2}
    MaxHops = 1
    MaxInodes = 4
    UsesDots = FALSE
    ReplacesLinks = FALSE
INVARIANTS
    InodesFollowNames
PROPERTIES
    NamesAsPromised
CHECK_DEADLOCK FALSE

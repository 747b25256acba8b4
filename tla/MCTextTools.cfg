SPECIFICATION Spec
CONSTANTS
    Worlds <- MCWorlds
    Offered <- MCOffered
    Second <- MCSecond
    Facts <- MCFacts
    Now <- MCNow
PROPERTIES
    NothingLost
    OrderIsOne
    RoundTrips
    MeansWhatItSays
CHECK_DEADLOCK FALSE

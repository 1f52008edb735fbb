CONSTANTS
    k1 = k1
    k2 = k2
    n1 = n1
    n2 = n2
    Keys = {k1, k2}
    NamespaceOf <- TwoNamespaces
    MaxWrites = 3
    MaxBreaks = 2
    MaxNotes = 1
    Hasty = FALSE
SPECIFICATION Spec
INVARIANTS
    TypeOK
    FifoConsistent
    HandlersFollowCache
    SyncedMeansListed
PROPERTIES
    ImplementsCacheFeed
    HandlersInformed

SPECIFICATION Spec
CONSTANTS
    Builds <- AllBuilds
    IDs <- Ids
    BuildID <- IdOf
    Offsets <- OffsetsOf
    Versions = {v1, v2, v3}
    Packages <- TwoBuilds
    Commands <- AllCommands
    Lookups = 5
    NoID = NoID
    None = None
    a1 = a1
    a2 = a2
    s1 = s1
    b1 = b1
    x = x
    v1 = v1
    v2 = v2
    v3 = v3
INVARIANTS IndexedFileRecognised FingerprintIsBest ExactIsExact OfflineAgrees

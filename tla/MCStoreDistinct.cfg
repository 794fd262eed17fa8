SPECIFICATION FairSpec
CONSTANTS
    d1 = d1
    d2 = d2
    i = i
    p1 = p1
    p2 = p2
    v1 = v1
    v2 = v2
    None = None
    Torn = Torn
    Role <- Roles
    Procs = {d1, p2, i}
    Target <- TwoVersions
    Versions = {v1, v2}
    Builds = {"A", "B"}
    Chunks <- Lengths
    WithId = {"A"}
    KeepDeb = {}
    WantDbg = {d1}
    NoVersion = {p2}
    Killable = {d1, p2}
    Blocks = 1
INVARIANTS ManifestTrue DebLeftHasCause
PROPERTIES AllEnd

SPECIFICATION Spec
CONSTANTS
    d1 = d1
    d2 = d2
    i = i
    p1 = p1
    p2 = p2
    v1 = v1
    v2 = v2
    None = None
    Torn = Torn
    Role <- Roles
    Procs = {d1, p1}
    Target <- OneVersion
    Versions = {v1}
    Builds = {"A", "B"}
    Chunks <- Lengths
    WithId = {"A"}
    KeepDeb = {}
    WantDbg = {}
    NoVersion = {p1}
    Killable = {d1, p1}
    Blocks = 2
INVARIANTS LockDiscipline IndexedBeforeManifest SuccessIsComplete
PROPERTIES ImplementsCache LookupsSeeOneIndex PatchUsesOneBuild

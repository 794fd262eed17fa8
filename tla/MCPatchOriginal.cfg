SPECIFICATION Spec
CONSTANTS
    Procs = {p, q}
    Source <- ChalTwice
    OutPaths = {"./chal", "chal_patched"}
    Given <- PGiven
    NoDownload = {p}
    Killable = {p, q}
    Paths = {"chal", "./chal", "chal_patched", "new"}
    FileAt <- Leads
    Length <- Sizes
    Beside <- Libs
    LibcLike = {"libc++.so.1", "libc-2.31.so", "libc.so.6"}
    Identified <- LibsAre
    Versions = {v1, v2}
    Package <- PackageLoaders
    Listings <- LoaderSets
    None = None
    p = p
    q = q
    v1 = v1
    v2 = v2
INVARIANTS OriginalNeverModified

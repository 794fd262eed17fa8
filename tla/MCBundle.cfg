SPECIFICATION Spec
CONSTANTS
    Names <- Sorted
    Links = {"libc.so.6"}
    Manifest = "PROVENANCE.json"
    Builds = {"A", "B"}
    Size <- Blocks
    None = None
    Link = Link
INVARIANTS ManifestCoversBundle RoundTrip ImportIsComplete ImportFailureConfined

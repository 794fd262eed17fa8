SPECIFICATION FairSpec
CONSTANTS
    Builds = {b1, b2, b3}
    Runs = {r1, r2}
    Version <- For231
    Dir <- Where
    HostRoots <- Roots
    NoDocker = {}
    NoPatch = {r2}
    LibDir <- LibOf
    Files = {"libc.so.6"}
    Cap = 1
    Lines = 1
    Orders <- Starts
    DefaultImage = "22.04"
    ImageTable <- Images
    Vulns <- Ids
    Unit = 100
    NaN = NaN
    NoImage = NoImage
    None = None
    Top = 64
    GNU = 7
    Base = 4
    StackChkFail <- Fail
    Builtins <- FourBuiltins
    Priorities = {}
    Customs = {}
    Sessions <- Everything
    NoCommand = NoCommand
    Keep = Keep
    DefaultPriority <- InOrder
    Budget = 16
    PerProbe = 10
    Wide = 16
    b1 = b1
    b2 = b2
    b3 = b3
    r1 = r1
    r2 = r2
INVARIANTS BuildSound LeftRunningHasCause FailureHasCause RegistryOrder DoctorCountsTheLive AnswersExact 
PROPERTY BuildReturns
CHECK_DEADLOCK FALSE

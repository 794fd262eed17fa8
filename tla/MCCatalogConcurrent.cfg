SPECIFICATION Spec
CONSTANTS
    Priorities <- OnePriority
    Customs <- TwinCustoms
    Builtins <- TwoBuiltins
    Files = {libc, dbg}
    Debug <- DebugOf
    Hosted <- Active
    Updaters = {u1, u2}
    Readers = {r}
    Wanted <- WantLibc
    Only <- AnyOne
    Killable = {u1}
    None = None
    Empty = Empty
    Torn = Torn
    u1 = u1
    u2 = u2
    r = r
    libc = libc
    dbg = dbg
INVARIANTS BreakerNeverOpens MergeFaithful UnreadableHasCause

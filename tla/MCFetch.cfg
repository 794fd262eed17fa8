SPECIFICATION FairSpec
CONSTANTS
    Cands = {c1, c2, b}
    BadURL = {b}
    Framed = {c1}
    Fallback = {}
    MaxRetries = 0
    BodySize = 2
    None = None
INVARIANTS TypeOK WinnerKeptAlive ContextsReleased NothingLeftBehind FirstSuccessWins ResultSound FailureIsUnanimous
PROPERTIES CallReturns ImplementsRace

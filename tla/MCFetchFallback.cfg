SPECIFICATION Spec
CONSTANTS
    Cands = {c1, f}
    BadURL = {}
    Framed = {c1, f}
    Fallback = {f}
    MaxRetries = 1
    BodySize = 1
    None = None
PROPERTIES FallbackLast

SPECIFICATION FairSpec
CONSTANTS
    Requests = {r1, r2, r3}
    Credentials = {k1}
    None = None
    NoProvider = NoProvider
INVARIANTS
    InvalidateWorks

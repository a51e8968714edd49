SPECIFICATION Spec
CONSTANTS
    Incidents = {i1, i2}
    Closed = {i2}
    Parts = {"summary", "analyses"}
    Panels = {"decisions", "outcomes"}
    MaxPolls = 2
    MaxRows = 1
    MaxChanges = 1
    MaxPosts = 1
    None = None
    Failed = Failed
    MaxChunks = 2
    Tenants = {t1, t2}
    Providers = {p1}
    NoToken = NoToken
    MaxClicks = 2
INVARIANTS
    ScreenOfSelected
    
    AiLabelled
    EventsInOrder
PROPERTIES
    Converges
    DraftEndsKnown
    AnswersInOrder
    PendingResolves
CHECK_DEADLOCK FALSE

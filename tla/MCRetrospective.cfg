SPECIFICATION Spec
CONSTANTS
    Incidents = {i1}
    Decisions = {d1}
    Actions = {}
    IncidentOf <- MCIncidentOf
    Requests = {r1, r2}
    MaxTime = 2
    MaxReports = 1
    None = None
INVARIANTS
    RetrospectAfterTheEnd
    OutcomeOncePerDecision
    InformedByTheNewest
    ReportExplainsItsStatus
SYMMETRY Interchangeable
CHECK_DEADLOCK FALSE

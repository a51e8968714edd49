SPECIFICATION Spec
CONSTANTS
    Incidents = {i1}
    Decisions = {d1}
    Actions = {}
    IncidentOf <- MCIncidentOf
    Requests = {r1}
    MaxTime = 2
    MaxReports = 1
    None = None
INVARIANTS
    ReportIsSnapshot
CHECK_DEADLOCK FALSE

SPECIFICATION Spec
CONSTANTS
    Users = {u1}
    Tenants = {t1, t2}
    Granted = {"ADMIN"}
    Requests = {r1, r2}
    AccessTTL = 1
    RefreshTTL = 2
    SelectionTTL = 1
    MaxRequest = 1
    MaxTime = 2
    MaxRows = 2
    MaxForks = 1
    NoRole = NoRole
    Rooms = {i1}
    Types = {"SECURITY_BREACH"}
    Severities = {"CRITICAL"}
    EvidenceIds = {e1, e2}
    Categories = {"HUMAN"}
    Providers = {"DATADOG"}
    Conflicts = {0, 1}
    Jobs = {j1, j2}
    Ticks = {30}
    Timeout = 30
    MaxClock = 60
    MaxAnalyses = 1
    Absent = Absent
    Analysts = {a1}
    Entities = {n1}
    Edges = {g1}
    Visits = {v1, v2}
    MaxLog = 4
    Nothing = Nothing
INVARIANTS
    RoleStaleBounded
    RotationConserves
    ScoresStand
    ScenarioWhole
    ScoresMeetContract
    EveryAccessAudited
    AuditExplainsStatus
PROPERTIES
    SettledStaysSettled
    ActsAudited
    KeepsIntelligence
SYMMETRY Ids
CHECK_DEADLOCK FALSE

SPECIFICATION Spec
CONSTANTS
    Incidents = {i1}
    Decisions = {d1, d2}
    Actions = {}
    Users = {owner, u1}
    Owner = owner
    Requests = {r1}
    MaxEvents = 9
    None = None
PROPERTIES
    DecisionIsTerminal
    IncidentIsLinear

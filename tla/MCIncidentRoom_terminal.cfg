SPECIFICATION FairSpec
CONSTANTS
    Incidents = {i1}
    Decisions = {d1}
    Actions = {a1}
    Users = {owner, u1}
    Owner = owner
    Requests = {r1, r2}
    MaxEvents = 5
    None = None
PROPERTIES
    DecisionIsTerminal

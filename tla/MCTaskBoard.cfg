\* Two requests at a time, four in all, and two roadmaps: time for a roadmap to
\* be deleted or completed and asked for again, or for tasks of two companies to
\* be assigned together while they change.
SPECIFICATION Spec
CONSTANTS
    c1 = c1
    c2 = c2
    u1 = u1
    p1 = p1
    Companies = {c1, c2}
    Clients = {u1}
    Admins = {a1}
    MemberOf <- MCMemberOf
    Places = {p1}
    Intakes <- MCIntakes
    Requests = {r1, r2}
    MaxBatches = 2
    MaxCalls = 4
    MaxIds = 2
    None = None
SYMMETRY RequestSymmetry
INVARIANTS
    OneRoadmap
    RoadmapAsAnswered
    AssigneeBelongs
    IntakeIsSaved
PROPERTIES
    TaskKept
\* The calls are bounded.
CHECK_DEADLOCK FALSE

\* Two companies, named together or apart; two users, threads and
\* categories; two requests at a time.
SPECIFICATION SpecBoth
CONSTANTS
    Users = {u1, u2}
    Companies = {c1, c2}
    Services = {"AI_CHATBOT"}
    Threads = {t1, t2}
    Categories = {k1, k2}
    Requests = {r1, r2}
    None = None
SYMMETRY Symmetry
INVARIANTS
    TypesOK
    ServiceIsBacked
    ShownOnce
PROPERTIES
    RequestIsKept

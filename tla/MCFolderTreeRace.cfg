\* Two moveFolder requests in flight.
SPECIFICATION Spec
CONSTANTS
    Folders = {f1, f2, f3}
    None = None
    Requests = {r1, r2}
    Movers = {r1, r2}
INVARIANTS
    Forest

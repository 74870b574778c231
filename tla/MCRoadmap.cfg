\* Every combination of answers, every rest of a month; two meetings in
\* Calendly, rows deleted and made again, two requests at a time.
SPECIFICATION SpecBoth
CONSTANTS
    Duration <- SeedDuration
    Urls = {u1, u2}
    Ids = {i1, i2}
    Dates = {d1, d2}
    Requests = {r1, r2}
    None = None
SYMMETRY Symmetry
INVARIANTS
    TypesOK
    FollowsFlow
    EndsLast
PROPERTIES
    ImplementsCalendar

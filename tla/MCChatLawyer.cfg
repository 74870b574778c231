\* One thread, which two requests fight over; s1 is lawyer and admin, s2 a
\* lawyer who must be ACTIVE to write.
SPECIFICATION LawyerSpec
CONSTANTS
    Threads = {t1}
    Staff = {s1, s2}
    Lawyers = {s1, s2}
    Admins = {s1}
    Requests = {r1, r2}
    None = None
    u1 = u1
    Users = {u1}
    Owner <- OwnerOf
    Default = Default
    Ops = {"stream", "ask", "history", "upload", "admin_history"}
    MaxSent = 2
INVARIANTS
    TypeOK
    NeverAbandoned
    SoleAssignee
    LostOnlyToHandover
PROPERTIES
    ImplementsHandover
    RequestServed

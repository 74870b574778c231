\* Two requests under way: of one user on a thread, or of staff who read its history.
SPECIFICATION PromptSpec
CONSTANTS
    Threads = {t1}
    Staff = {s1, s2}
    Lawyers = {s1, s2}
    Admins = {s1}
    Requests = {r1, r2}
    None = None
    u1 = u1
    Users = {u1}
    Owner <- OwnerOf
    Default = Default
    Ops = {"stream", "ask", "history", "upload", "admin_history"}
    MaxSent = 2
INVARIANTS
    EndingIsLast
    OwnAgent
    BotIsOut
PROPERTIES
    StreamEnds

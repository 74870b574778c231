\* One slot may move folders, the other creates and walks; deletes come from
\* anywhere.  Three folders: every shape of tree on which a walk takes zero,
\* one or two hops, and every cycle a wrong move could close.
SPECIFICATION FairSpec
CONSTANTS
    Folders = {f1, f2, f3}
    None = None
    Requests = {r1, r2}
    Movers = {r1}
INVARIANTS
    Forest
PROPERTIES
    ImplementsHierarchy
    Answered

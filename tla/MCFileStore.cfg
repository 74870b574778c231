\* Two files, whose texts have up to two batches of chunks; no tool writes
\* what another one reads, so one call at a time is all of them.
SPECIFICATION SpecBoth
CONSTANTS
    Files = {f1, f2}
    Names = {n1, n2}
    Folders = {d1, d2}
    Requests = {r1, r2}
    MaxTime = 1
    Calls = {c1}
    MaxChunks = 2
    None = None
SYMMETRY Symmetry
INVARIANTS
    TypesOK
    RowHasObject
    SuccessMeansStored
    ChatFileIsReady
    FoundIfProcessed
    NamedIfKept
\* The uploads and the clock are bounded.
CHECK_DEADLOCK FALSE

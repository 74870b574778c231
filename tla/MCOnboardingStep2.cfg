\* One company and one request at a time: step 3 after step 2.
SPECIFICATION SpecBounded
CONSTANTS
    Users = {u1}
    Companies = {c1}
    Folders = {f1, f2, f3}
    Places = {p1}
    Asks <- AllOrNone
    Requests = {r1}
    None = None
INVARIANTS
    Step2Retrievable

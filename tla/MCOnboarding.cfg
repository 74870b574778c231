\* Two requests at a time on one company, or on two companies of two users;
\* four folder ids let two step 3 race beside the other company, or both
\* companies complete their setups.
SPECIFICATION SpecBounded
CONSTANTS
    Users = {u1, u2}
    Companies = {c1, c2}
    Folders = {f1, f2, f3, f4}
    Places = {p1}
    Asks <- AllOrNone
    Requests = {r1, r2}
    None = None
SYMMETRY Symmetry
INVARIANTS
    SetupInOrder
    LocationsAsAsked
PROPERTIES
    SetupIsFinal

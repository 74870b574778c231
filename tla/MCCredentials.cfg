\* Half-second ticks; an hour becomes two and a day four, so that tokens
\* expire before they cease to count, and sessions end within the run.
SPECIFICATION Spec
CONSTANTS
    Requests = {r1, r2}
    Second = 2
    TokenLife = 2
    Window = 4
    SessionLife = 2
    Limit = 2
    MaxTime = 4
    MaxTokens = 4
    MaxCalls = 4
    None = None
SYMMETRY RequestSymmetry
INVARIANTS
    TypeOK
    SessionsEndWithPassword
    TokensLimited
    TokenUsedOnce
    NotStranded
\* The clock and the calls are bounded.
CHECK_DEADLOCK FALSE

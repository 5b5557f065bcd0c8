SPECIFICATION Spec
CONSTANTS
    a = a
    b = b
    t = t
    r1 = r1
    r2 = r2
    c1 = c1
    c2 = c2
    c3 = c3
    d1 = d1
    Devices = {a, b, t}
    Publishers = {t}
    Requests = {r1, r2}
    From <- Requesters
    To <- Targets
    Legacy = {r2}
    Calls = {c1, c2, c3}
    Of <- Sendings
    Rank <- Ranks
    PerUpload = 1
    Fallbacks = {1, 2}
    PoolSize = 2
    MaxUploads = 2
    MaxClock = 3
    Browsers = {b1, b2}
    NoBrowser = NoBrowser
    Sessions = {s1, s2}
    NoSession = NoSession
    TTL = 2
    LegacyRoute = TRUE
    MaxRegs = 3
    MaxTime = 2
    MaxFaults = 2
    Trusted = {x1, x2}
    Candidates = {d1, d2}
    Flows = {f1}
    Window = 2
    Drift = 1
    SessionTime = 3
    MaxRollbacks = 1
    MaxChanges = 1
INVARIANTS KeysSafe RegistrationSafe CeremonySafe
PROPERTIES ClaimsServed AnswersHold
SYMMETRY Symmetry
CHECK_DEADLOCK FALSE

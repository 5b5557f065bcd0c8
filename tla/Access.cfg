SPECIFICATION RunSpec
CONSTANTS
    Logins = {l1, l2, l3}
    Resets = {r1, r2}
    Rotations = {o1}
    MaxFailed = 2
    LockTime = 1
    ResetTime = 2
    CodeCount = 2
    MaxOps = 2
    l3 = l3
    Sessions = {s1, s2}
    Keys = {y1, y2, y3}
    Calls = {c1, c2}
    MaxKeys = 2
    StepUp = 1
    ChallengeTime = 2
    MaxChallenges = 4
    MaxBatches = 2
    s1 = s1
    s2 = s2
    y3 = y3
    Requests = {q1, q2, q3}
    Of <- RequestsOfOne
    IdleTime = 2
    Absolute = 3
    MaxClock = 4
    q1 = q1
    q2 = q2
    q3 = q3
    Versions = {v1, v2}
    Publishers = {p1, p2}
    Cashiers = {e1, e2}
    Clients = {k1}
    Invitations = {i1}
    MaxTime = 1
    InvitationTTL = 1
    MaxAttempts = 3
    NoOne = NoOne
    v2 = v2
    p2 = p2
INVARIANTS AccessSafe AdminsSafe OnboardingSafe
PROPERTIES AccessStands AdminsInForce
CHECK_DEADLOCK FALSE

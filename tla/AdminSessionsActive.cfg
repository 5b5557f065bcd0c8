SPECIFICATION Spec
CONSTANTS
    s1 = s1
    q1 = q1
    q2 = q2
    Sessions = {s1}
    Requests = {q1, q2}
    Of <- BothOfOne
    Idle = 2
    Absolute = 5
    MaxClock = 4
PROPERTIES ActiveSessionKept
CHECK_DEADLOCK FALSE

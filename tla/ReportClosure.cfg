SPECIFICATION FairSpec
CONSTANTS
    Uploads = {u1}
    Admins = {a1, a2}
    Workers = {w1, w2}
    Purgers = {p1}
    None = None
    Outcomes = {"WARNING", "CASHIER_DELETED"}
    GrantTTL = 1
    LEASE = 2
    INITIAL_RETRY = 1
    MAX_RETRY = 2
    RETRY_DELAY = 1
    MaxTime = 4
    MaxFaults = 2
    MaxAssignments = 1
INVARIANTS EvidenceSafe ClosureSafe
PROPERTIES LeaseRespected HistoryKept ImplementsLifecycle ClosureCompletes ReservationResolved
CHECK_DEADLOCK FALSE

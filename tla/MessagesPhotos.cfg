SPECIFICATION FairSpec
CONSTANTS
    m1 = m1
    m2 = m2
    d1 = d1
    d2 = d2
    None = None
    Ids = {m1}
    Uploads = {u1}
    ClientDevices = {d1}
    CashierDevices = {d2}
    SenderDevice <- OneSender
    Readers = {d2}
    Requested = {"READ"}
    Calls = {c1}
    Purgers = {p1}
    MAX_PENDING = 1
    PageLimit = 1
    GrantTTL = 1
    MessageTTL = 1
    SignedTTL = 2
    RETRY_DELAY = 1
    MaxTime = 2
    MaxSequence = 3
    MaxFaults = 1
INVARIANTS PhotosSafe
PROPERTIES KeptUntilExpiry PurgesEnd
CHECK_DEADLOCK FALSE

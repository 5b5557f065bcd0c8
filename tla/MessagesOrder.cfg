SPECIFICATION Spec
CONSTANTS
    m1 = m1
    m2 = m2
    d1 = d1
    d2 = d2
    None = None
    Ids = {m1, m2}
    Uploads = {}
    ClientDevices = {d1}
    CashierDevices = {d2, d3}
    SenderDevice <- TwoSenders
    Readers = {d2}
    Requested = {"READ"}
    Calls = {c1, c2}
    Purgers = {}
    MAX_PENDING = 1
    PageLimit = 1
    GrantTTL = 1
    MessageTTL = 1
    SignedTTL = 1
    RETRY_DELAY = 1
    MaxTime = 2
    MaxSequence = 4
    MaxFaults = 0
SYMMETRY CallSymmetry
INVARIANTS NoMessageSkipped StoredOnce
PROPERTIES EveryDeviceAddressed
CHECK_DEADLOCK FALSE

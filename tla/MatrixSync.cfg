SPECIFICATION PartsSpec
CONSTANTS
    d1 = d1
    Devices = {d1}
    Txns = {t1, t2}
    Targets <- ToOne
    Subjects = {u1}
    TTL = 2
    MaxWait = 1
    Page = 1
    MaxPending = 2
    IdleSyncs = TRUE
    MaxBatches = 3
    MaxChanges = 1
    MaxTime = 3
    MaxFaults = 1
SYMMETRY TxnSymmetry
INVARIANTS SyncSafe
PROPERTIES EventsKept
CHECK_DEADLOCK FALSE

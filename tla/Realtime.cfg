SPECIFICATION Spec
CONSTANTS
    ana = ana
    beto = beto
    x1 = x1
    y1 = y1
    s1 = s1
    s2 = s2
    s3 = s3
    s4 = s4
    n1 = n1
    n2 = n2
    k1 = k1
    k2 = k2
    k3 = k3
    k4 = k4
    Users = {ana, beto}
    Sessions = {x1, y1}
    Owner <- Owners
    Sockets = {s1, s2, s3, s4}
    Cookie <- Cookies
    Ops <- AllOps
    MaxEnds = 1
    MaxLapses = 1
    Nodes = {n1, n2}
    Requests = {k1, k2, k3, k4}
    NodeOf <- NodesOf
    SocketOf <- SocketsOf
    Local <- LocalPolicy
    Shared <- SharedPolicy
    MaxClock = 3
    MaxFaults = 2
INVARIANTS RealtimeSafe LimitsSafe
PROPERTIES DeliveriesInForce LimitsStand
SYMMETRY Symmetry
CHECK_DEADLOCK FALSE

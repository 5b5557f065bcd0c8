SPECIFICATION Spec
CONSTANTS
    a = a
    t = t
    r1 = r1
    r2 = r2
    c1 = c1
    c2 = c2
    d1 = d1
    t1 = t1
    t2 = t2
    u1 = u1
    b1 = b1
    NoBrowser = NoBrowser
    s1 = s1
    NoSession = NoSession
    ana = ana
    beto = beto
    x1 = x1
    w1 = w1
    v1 = v1
    p1 = p1
    e1 = e1
    i1 = i1
    NoOne = NoOne
    Clients = {k1}
    Cashiers = {g1, g2}
    None = None
PROPERTIES EventsReachDevice  RegistrationFinishes EndedSocketsClose WaitersServed ClientsMoveOn
CHECK_DEADLOCK FALSE

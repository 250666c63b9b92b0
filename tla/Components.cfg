SPECIFICATION ComponentsSpec
CONSTANTS
    e1 = e1
    e2 = e2
    e3 = e3
    gui = gui
    d1 = d1
    k1 = k1
    k2 = k2
    a = a
    b = b
    t1 = t1
    t2 = t2
    p = p
    q = q
    c1 = c1
    c2 = c2
    Event = {e1, e2, e3}
    User = {gui}
    Walker = {d1}
    Modulus = 6
    Key = {k1, k2}
    Name = {a, b}
    MaxNode = 3
    Careful = TRUE
    Sender = {t1, t2}
    Addr = {p, q}
    Reuse = TRUE
    Call_ = {c1, c2}
    SameId = {c1, c2}
    SyncCall = {c2}
    KeyMoved = FALSE
    MaxLife = 2
    Method = {0, 1, 2}
    Offer = {1, 2}
    Length = {0, 1, 2}
    Octet = 4
INVARIANTS
    OneAtATime QueueIsDriven CallOrder
    DispatchIsRight MapsAgree SendsAreTold TunnelIsReal CallsAreAnswered
PROPERTY
    WaitsEnd
CHECK_DEADLOCK FALSE

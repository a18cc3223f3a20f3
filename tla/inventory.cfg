SPECIFICATION SpecMC
CONSTANTS
    Gpu = {g1, g2}
    Lease = {l1, l2}
    Booking = {b1, b2}
    Repair = {m1}
    Duration = {2}
    Shortest = 1
    Last = 2
    Furthest = 6
    Never = Never
    None = None
    e1 = e1
    a1 = a1
    c1 = c1
    Endpoint = {e1, e2}
    Address = {a1, a2}
    Conn = {c1, c2}
    Inventories <- Files
    Holder = {h1}
    Claimant = {k1}
CHECK_DEADLOCK FALSE
INVARIANTS
    ReservationsAreDisjoint
    LeasesKeepClear
    ServersAreKept
PROPERTIES
    WorkersStayReachable

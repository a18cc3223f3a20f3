SPECIFICATION Spec
CONSTANTS
    e1 = e1
    a1 = a1
    c1 = c1
    Endpoint = {e1, e2}
    Address = {a1, a2}
    Conn = {c1, c2}
    Lease = {l1}
    HostClaim = {k1}
    Inventories <- MCBare
    None = None
INVARIANTS
    RestartsSucceed

SPECIFICATION Spec
CONSTANTS
    None = None
    Clients = {"shopper", "proxy"}
    Peers = {"proxy"}
    Forwarded <- MCForwarded
    TrustForwarded = TRUE
    Requests = {r1, r2}
    Buckets = {b1, b2, b3}
    Rate = 2
    Burst = 2
    TTL = 2
    MaxDelay = 1
    MaxTime = 6
INVARIANT TypeOK
INVARIANT RateBound
INVARIANT IdleEvicted
PROPERTY LimiterRefined
SYMMETRY Symmetry

SPECIFICATION Spec
CONSTANTS
    p1 = p1
    p2 = p2
    Proc = {p1, p2}
    k1 = k1
    k2 = k2
    k3 = k3
    k4 = k4
    Key = {k1, k2, k3, k4}
    v1 = v1
    v2 = v2
    Value = {v1}
    None = None
    Buckets = 5
    Locks = 3
    BucketOf <- HashedTo
    Threshold = 2
INVARIANT ResizeCanProceed
CHECK_DEADLOCK FALSE

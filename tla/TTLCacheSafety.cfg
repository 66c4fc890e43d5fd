CONSTANTS
    k1 = k1
    k2 = k2
    k3 = k3
    v1 = v1
    v2 = v2
    Keys <- ThreeKeys
    Values <- TwoValues
    Ttl = 2
    MaxEntries = 2
    Horizon = 5
SYMMETRY CacheSymmetry
SPECIFICATION CacheSpec
INVARIANTS
    CacheTypeOK
    WithinCapacity
    HitIsLatestAndFresh
    NothingLostEarly

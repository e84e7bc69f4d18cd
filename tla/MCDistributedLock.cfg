CONSTANTS
    o1 = o1
    o2 = o2
    o3 = o3
    Owners <- MCOwners
    NoOwner = NoOwner
    TTL = 2
    MaxSkew = 1
    Skew <- MCSkew
    MaxTime = 5
SPECIFICATION FairSpec
INVARIANTS MutualExclusion BoundedOrphan
PROPERTIES OnlyOwnerReleases ImplementsLease TakenOver
CHECK_DEADLOCK FALSE

------------------------- MODULE MCDistributedLock -------------------------
(* Three owners; the third one's clock runs ahead of the others'. *)
EXTENDS DistributedLock

CONSTANTS o1, o2, o3

MCOwners == {o1, o2, o3}

MCSkew == [o \in MCOwners |-> IF o = o3 THEN MaxSkew ELSE 0]
=============================================================================

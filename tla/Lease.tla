------------------------------- MODULE Lease -------------------------------
(***************************************************************************)
(* What a lease on one name promises its users.  There is at most one      *)
(* valid holder, and validity never passes straight from one owner to      *)
(* another: between the two there is a moment when nobody holds the lease. *)
(* How validity ends (a release, the passing of time) is left open.        *)
(***************************************************************************)
CONSTANTS Owners,   \* every identity that may ask for the lease
          NoOwner   \* the value of "nobody"

VARIABLE holder     \* the owner that may rely on being alone, or NoOwner

Init == holder = NoOwner

Acquire(o) == holder = NoOwner /\ holder' = o

Lose == holder # NoOwner /\ holder' = NoOwner

Next == Lose \/ \E o \in Owners : Acquire(o)

Spec == Init /\ [][Next]_holder
=============================================================================

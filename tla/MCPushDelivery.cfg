CONSTANTS
    u1 = u1
    e1 = e1
    e2 = e2
    None = None
    Users <- MCUsers
    Endpoints <- MCEndpoints
    Mortal <- MCMortal
    MaxMatches = 2
    OwnerOf <- MCOwnerOf
    MaxFaults = 1
SPECIFICATION FairSpec
INVARIANTS PushedWasAccepted AcceptedOnce DisabledIsDead
PROPERTIES ImplementsOutbox EventuallyPushed

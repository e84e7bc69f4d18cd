CONSTANTS
    u1 = u1
    e1 = e1
    e2 = e2
    None = None
    Users <- MCUsers
    Endpoints <- MCOneEndpoint
    Mortal <- MCMortal
    MaxMatches = 2
    OwnerOf <- MCOwnerOf
    MaxFaults = 0
SPECIFICATION FairSpec
PROPERTY BaselineOnlyFirst

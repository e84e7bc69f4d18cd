CONSTANTS
    p1 = p1
    p2 = p2
    r1 = r1
    r2 = r2
    None = None
    Processes <- MCProcesses
    Requests <- MCRequests
    Payloads <- MCPayloads
    OldRows <- MCOldRows
    MaxFaults = 1
SPECIFICATION FairSpec
INVARIANTS UpIsReady NoCollision LimitKept
PROPERTIES SettingsKept AllUp

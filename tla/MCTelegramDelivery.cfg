CONSTANTS
    n1 = n1
    r1 = r1
    r2 = r2
    Runs <- MCRuns
    MaxArticles = 3
    Rules <- MCRules
    Steady <- MCSteady
    MaxFaults = 2
SPECIFICATION FairSpec
INVARIANTS NotifiedWasSent OldestFirst ToldOnce
PROPERTIES ImplementsOutbox EventuallyNotified

CONSTANTS
    c1 = c1
    c2 = c2
    a1 = a1
    a2 = a2
    p1 = p1
    p2 = p2
    None = None
    Crawlers <- MCTwoCrawlers
    Boards <- MCBoards
    Articles <- MCOneArticle
    BoardOf <- MCOneBoardOf
    Patterns <- MCPatterns
    Hits <- MCOneHit
    MaxRules = 1
    NewRules <- MCNewRules
    EditedRules <- MCMoves
    MaxFaults = 0
    Overrun = TRUE
SPECIFICATION Spec
SYMMETRY MCSymmetry
INVARIANTS NoMissedMatch SnapshotSeen
PROPERTY ImplementsLedger

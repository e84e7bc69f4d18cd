CONSTANTS
    c1 = c1
    c2 = c2
    a1 = a1
    a2 = a2
    p1 = p1
    p2 = p2
    None = None
    Crawlers <- MCOneCrawler
    Boards <- MCBoards
    Articles <- MCArticles
    BoardOf <- MCBoardOf
    Patterns <- MCPatterns
    Hits <- MCHits
    MaxRules = 2
    NewRules <- MCNewRules
    EditedRules <- MCEditedRules
    MaxFaults = 1
    Overrun = FALSE
SPECIFICATION Spec
INVARIANTS NoMissedMatch MatchesJustified
PROPERTY SuccessIsComplete

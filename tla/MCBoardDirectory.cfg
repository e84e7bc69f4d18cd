CONSTANTS
    t1 = t1
    t2 = t2
    b1 = b1
    b2 = b2
    news = news
    sure = sure
    hot = hot
    cat = cat
    q = q
    None = None
    Threads <- MCThreads
    Delay = 2
    RetryAfter <- MCRetryAfter
    MaxPages = 2
    Articles <- MCArticles
    PageOf <- MCPageOf
    Deletable = {1}
    Boards <- MCBoards
    Categories = {cat}
    Popular = hot
    Labels <- MCLabels
    Verified = sure
    Contents <- MCContents
    Ttl <- MCTtl
    Queries <- MCQueries
    ByName <- MCByName
    ByLabel <- MCByLabel
    Alias <- MCAlias
    Demands <- MCDemands
SPECIFICATION FairSpec
CHECK_DEADLOCK FALSE
INVARIANTS CacheFresh FetchIsSnapshot ShownIsFound
PROPERTIES Spaced ImplementsBoardRead RequestsAnswered

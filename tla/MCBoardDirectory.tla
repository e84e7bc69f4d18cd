-------------------------- MODULE MCBoardDirectory --------------------------
(* Three articles on three pages, the oldest of which may be deleted; one    *)
(* category besides the popular boards, and one query, which is in the name  *)
(* of one board, in the title of both, and an alias of the former.           *)
EXTENDS BoardDirectory

CONSTANTS t1, t2, b1, b2, news, sure, hot, cat, q

MCThreads == {t1, t2}
MCRetryAfter == {3}
MCArticles == 1..3
MCPageOf == <<1, 2, 3>>
MCBoards == {b1, b2}
MCLabels == {news, sure}
Page(boards) == [b \in MCBoards |-> IF b \in boards THEN news ELSE None]
MCContents ==
    [p \in {hot, cat} |-> IF p = hot THEN {Page({b1})} ELSE {Page({}), Page({b2})}]
MCTtl == [p \in {hot, cat} |-> IF p = hot THEN 1 ELSE 2]
MCQueries == {q}
MCByName == {<<q, b2>>}
MCByLabel == {<<q, news>>}
MCAlias == [x \in {q} |-> b2]
MCDemands == {{"crawl"}, {"category", "popular"}, {"category", "search"}}
=============================================================================

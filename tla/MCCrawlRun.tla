----------------------------- MODULE MCCrawlRun -----------------------------
(* Small instances of CrawlRun. *)
EXTENDS CrawlRun, TLC

CONSTANTS c1, c2, a1, a2, p1, p2

MCOneCrawler == {c1}
MCTwoCrawlers == {c1, c2}
MCSymmetry == Permutations(MCTwoCrawlers)

Row(b, p, e) == [board |-> b, pattern |-> p, enabled |-> e]

MCBoards == 1..2
MCPatterns == {p1, p2}

\* Alone: an article on each of two boards, and a pattern for each.  Rules
\* are disabled, and moved to the other board.
MCArticles == {a1, a2}
MCBoardOf == (a1 :> 1) @@ (a2 :> 2)
MCHits == {<<p1, a1>>, <<p2, a2>>}
MCNewRules == {Row(1, p1, TRUE)}
MCEditedRules == {Row(1, p1, FALSE), Row(2, p2, TRUE)}
MCNoEdits == {}

\* Together: one article, and a rule that moves between its board, another
\* board, and a pattern that does not match.
MCOneArticle == {a1}
MCOneBoardOf == a1 :> 1
MCOneHit == {<<p1, a1>>}
MCMoves == {Row(1, p1, TRUE), Row(1, p2, TRUE), Row(2, p1, TRUE)}
=============================================================================

------------------------- MODULE MCTelegramDelivery -------------------------
(* Three articles, a rule that is left alone and one that is not. *)
EXTENDS TelegramDelivery

CONSTANTS n1, r1, r2

MCRuns == {n1}
MCRules == {r1, r2}
MCSteady == {r1}
=============================================================================

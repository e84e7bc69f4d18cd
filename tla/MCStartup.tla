----------------------------- MODULE MCStartup -----------------------------
(* Settings on both sides of the limit; the old row scanned ten pages. *)
EXTENDS Startup

CONSTANTS p1, p2, r1, r2

MCProcesses == {p1, p2}
MCRequests == {r1, r2}
MCPayloads == {[interval |-> 30, pages |-> 1, notify |-> TRUE],
               [interval |-> 300, pages |-> 1, notify |-> TRUE],
               [interval |-> 300, pages |-> 5, notify |-> FALSE]}
MCOldRows == {[interval |-> 0, pages |-> 10, notify |-> TRUE]}
=============================================================================

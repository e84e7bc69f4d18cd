------------------------------- MODULE Ledger -------------------------------
(***************************************************************************)
(* What crawl runs promise about articles and matches, however many run    *)
(* at once, die or fail.  A run reads what the rules ask for once, and     *)
(* from then on processes articles in one step each time: the articles,    *)
(* which nobody has processed, together with exactly those matches the     *)
(* rules it has read ask for, all of rules that still exist.  When it      *)
(* reads, what it processes and where it fails is left open.               *)
(*                                                                         *)
(* Hence an article is processed once, its matches come at that moment or  *)
(* never, and a match goes only with its rule.                             *)
(***************************************************************************)
CONSTANTS Rules,      \* whatever may become a rule, each once
          Articles,
          Processors

VARIABLES
    used,      \* the rules there have been
    exists,    \* the rules there are
    asks,      \* per rule, the articles it asks for
    appeared,  \* the articles that exist
    eligible,  \* per article, the rules that are not too young for it
    view,      \* per processor, the rules as it has read them
    seen,      \* the articles that have been processed
    matches    \* pairs <<rule, article>>

vars == <<used, exists, asks, appeared, eligible, view, seen, matches>>

Nothing == [r \in Rules |-> {}]

Init ==
    /\ used = {}
    /\ exists = {}
    /\ asks = Nothing
    /\ appeared = {}
    /\ eligible = [a \in Articles |-> {}]
    /\ view = [p \in Processors |-> Nothing]
    /\ seen = {}
    /\ matches = {}

Create(r, wanted) ==
    /\ r \notin used
    /\ used' = used \cup {r}
    /\ exists' = exists \cup {r}
    /\ asks' = [asks EXCEPT ![r] = wanted]
    /\ UNCHANGED <<appeared, eligible, view, seen, matches>>

Change(r, wanted) ==
    /\ r \in exists
    /\ asks' = [asks EXCEPT ![r] = wanted]
    /\ UNCHANGED <<used, exists, appeared, eligible, view, seen, matches>>

Remove(r) ==
    /\ exists' = exists \ {r}
    /\ asks' = [asks EXCEPT ![r] = {}]
    /\ matches' = {m \in matches : m[1] # r}
    /\ UNCHANGED <<used, appeared, eligible, view, seen>>

Appear(a, older) ==
    /\ a \notin appeared
    /\ older \subseteq used
    /\ appeared' = appeared \cup {a}
    /\ eligible' = [eligible EXCEPT ![a] = older]
    /\ UNCHANGED <<used, exists, asks, view, seen, matches>>

Read(p) ==
    /\ view' = [view EXCEPT ![p] = asks]
    /\ UNCHANGED <<used, exists, asks, appeared, eligible, seen, matches>>

Forget(p) ==
    /\ view' = [view EXCEPT ![p] = Nothing]
    /\ UNCHANGED <<used, exists, asks, appeared, eligible, seen, matches>>

Found(p, new) ==
    {m \in Rules \X new : m[2] \in view[p][m[1]] /\ m[1] \in eligible[m[2]]}

Process(p, new) ==
    /\ new \subseteq appeared \ seen
    /\ \A m \in Found(p, new) : m[1] \in exists
    /\ seen' = seen \cup new
    /\ matches' = matches \cup Found(p, new)
    /\ UNCHANGED <<used, exists, asks, appeared, eligible, view>>

Next ==
    \/ \E r \in Rules :
          \/ Remove(r)
          \/ \E wanted \in SUBSET Articles : Create(r, wanted) \/ Change(r, wanted)
    \/ \E a \in Articles, older \in SUBSET Rules : Appear(a, older)
    \/ \E p \in Processors :
          \/ Read(p) \/ Forget(p)
          \/ \E new \in SUBSET Articles : Process(p, new)

Spec == Init /\ [][Next]_vars
=============================================================================

----------------------------- MODULE BoardRead -----------------------------
(***************************************************************************)
(* What reading a board promises to whoever asks for it, however many      *)
(* requests it takes: a reader looks at the board once, at some moment     *)
(* during the call, and sees its newest articles, as many as it likes.  It *)
(* answers with what it saw; articles that were deleted since may be left  *)
(* out.  A call may also end with an error, and then tells nothing.        *)
(***************************************************************************)
EXTENDS Integers

CONSTANTS Readers,  \* whoever reads boards
          Articles,
          Rank      \* the newer an article, the higher, or as high

VARIABLES
    posted,   \* articles published so far
    present,  \* those that are on the board
    reading,  \* "idle", "before" or "after" the look, "ok", "error"
    saw,      \* what each reader saw
    answer    \* what it answers

Init ==
    /\ posted = {}
    /\ present = {}
    /\ reading = [r \in Readers |-> "idle"]
    /\ saw = [r \in Readers |-> {}]
    /\ answer = [r \in Readers |-> {}]

Newest(some) ==
    /\ some \subseteq present
    /\ \A a \in some : \A b \in present \ some : Rank[b] < Rank[a]

Begin(r) ==
    /\ reading[r] = "idle"
    /\ reading' = [reading EXCEPT ![r] = "before"]
    /\ UNCHANGED <<posted, present, saw, answer>>

\* A reader that saw enough answers at once.
Look(r) ==
    /\ reading[r] = "before"
    /\ \E some \in SUBSET Articles :
          /\ Newest(some)
          /\ saw' = [saw EXCEPT ![r] = some]
          /\ \/ reading' = [reading EXCEPT ![r] = "after"] /\ UNCHANGED answer
             \/ /\ reading' = [reading EXCEPT ![r] = "ok"]
                /\ answer' = [answer EXCEPT ![r] = some]
    /\ UNCHANGED <<posted, present>>

Answer(r) ==
    /\ reading[r] = "after"
    /\ reading' = [reading EXCEPT ![r] = "ok"]
    /\ \E some \in SUBSET saw[r] :
          /\ saw[r] \cap present \subseteq some
          /\ answer' = [answer EXCEPT ![r] = some]
    /\ UNCHANGED <<posted, present, saw>>

Fail(r) ==
    /\ reading[r] \in {"before", "after"}
    /\ reading' = [reading EXCEPT ![r] = "error"]
    /\ UNCHANGED <<posted, present, saw, answer>>

End(r) ==
    /\ reading[r] \in {"ok", "error"}
    /\ reading' = [reading EXCEPT ![r] = "idle"]
    /\ saw' = [saw EXCEPT ![r] = {}]
    /\ answer' = [answer EXCEPT ![r] = {}]
    /\ UNCHANGED <<posted, present>>

\* The board grows at its newest end, and an article that left does not return.
Appear(a) ==
    /\ a \notin posted
    /\ \A b \in posted : Rank[b] <= Rank[a]
    /\ posted' = posted \cup {a}
    /\ present' = present \cup {a}
    /\ UNCHANGED <<reading, saw, answer>>

Vanish(a) ==
    /\ a \in present
    /\ present' = present \ {a}
    /\ UNCHANGED <<posted, reading, saw, answer>>

Next ==
    \/ \E r \in Readers : Begin(r) \/ Look(r) \/ Answer(r) \/ Fail(r) \/ End(r)
    \/ \E a \in Articles : Appear(a) \/ Vanish(a)

Spec == Init /\ [][Next]_<<posted, present, reading, saw, answer>>
=============================================================================

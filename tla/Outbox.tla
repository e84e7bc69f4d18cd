------------------------------- MODULE Outbox -------------------------------
(***************************************************************************)
(* What both deliveries promise about the rows they deliver.  A sender     *)
(* takes rows that are not settled, may deliver what it has taken, any     *)
(* number of times, and settles of it what has been delivered.  Rows may   *)
(* also be set aside without a delivery, or be deleted.  How a sender      *)
(* chooses, how it sends and how it fails is left open.                    *)
(*                                                                         *)
(* Hence a row is settled only by a sender that took it unsettled, after a *)
(* delivery, or set aside; it stays settled as long as it exists; and what *)
(* was delivered or set aside is never added again.                        *)
(***************************************************************************)
CONSTANTS Items,     \* whatever may become a row
          Senders

VARIABLES
    rows,       \* the rows there are
    underway,   \* per sender, what it has taken and not given up
    delivered,  \* what was delivered at least once
    waived,     \* what was set aside
    settled     \* rows nobody has to deliver any more

vars == <<rows, underway, delivered, waived, settled>>

Init ==
    /\ rows = {}
    /\ underway = [s \in Senders |-> {}]
    /\ delivered = {}
    /\ waived = {}
    /\ settled = {}

Add(new) ==
    /\ new \cap (rows \cup delivered \cup waived) = {}
    /\ \A s \in Senders : new \cap underway[s] = {}
    /\ rows' = rows \cup new
    /\ UNCHANGED <<underway, delivered, waived, settled>>

Take(s, some) ==
    /\ some \subseteq rows \ settled
    /\ underway' = [underway EXCEPT ![s] = @ \cup some]
    /\ UNCHANGED <<rows, delivered, waived, settled>>

GiveUp(s, some) ==
    /\ underway' = [underway EXCEPT ![s] = @ \ some]
    /\ UNCHANGED <<rows, delivered, waived, settled>>

\* Together with a step a sender may lose all it has in hand, and with a
\* delivery the news of it.
KeepOrLose(s) ==
    UNCHANGED underway \/ underway' = [underway EXCEPT ![s] = {}]

Deliver(s, some) ==
    /\ some \subseteq underway[s]
    /\ delivered' = delivered \cup some
    /\ KeepOrLose(s)
    /\ UNCHANGED <<rows, waived, settled>>

Settle(s, some) ==
    /\ some \subseteq underway[s] \cap delivered \cap rows
    /\ settled' = settled \cup some
    /\ KeepOrLose(s)
    /\ UNCHANGED <<rows, delivered, waived>>

Waive(some) ==
    /\ some \subseteq rows \ settled
    /\ waived' = waived \cup some
    /\ settled' = settled \cup some
    /\ UNCHANGED <<rows, underway, delivered>>

Drop(some) ==
    /\ rows' = rows \ some
    /\ settled' = settled \ some
    /\ UNCHANGED <<underway, delivered, waived>>

Next ==
    \/ \E s \in Senders, some \in SUBSET Items :
          Take(s, some) \/ GiveUp(s, some) \/ Deliver(s, some) \/ Settle(s, some)
    \/ \E some \in SUBSET Items : Add(some) \/ Waive(some) \/ Drop(some)

Spec == Init /\ [][Next]_vars
=============================================================================

---------------------------- MODULE PushDelivery ----------------------------
(***************************************************************************)
(* services/web_push.py and api/push.py: Web Push from the subscription of *)
(* a device to the notifications the push service accepts for it.          *)
(*                                                                         *)
(* At its end a crawl run takes the enabled subscriptions, goes from user  *)
(* to user, sends to one device after the other, and commits everything at *)
(* the end: the subscriptions the push service has declared dead, and      *)
(* push_notified_at of the matches of every user for whom it has accepted  *)
(* a notification.  Meanwhile devices are subscribed, tested and removed,  *)
(* and subscriptions die at the push service.                              *)
(*                                                                         *)
(* The server learns no more than that a notification was accepted.  The   *)
(* push service keeps it for at most five minutes (ttl=300); whether the   *)
(* device comes for it in time and displays it changes nothing here.       *)
(*                                                                         *)
(* One run is under way at a time (the crawl lock).  Matches are numbered  *)
(* in the order of their arrival.                                          *)
(***************************************************************************)
EXTENDS Integers

CONSTANTS Users,
          Endpoints,   \* one per push subscription a browser ever makes
          Mortal,      \* those that may die at the push service
          MaxMatches,  \* bound on the matches that arrive
          OwnerOf,     \* [1..MaxMatches -> Users]
          MaxFaults,   \* bound on crashes and failed requests
          None         \* no row, no request

Matches == 1..MaxMatches

ASSUME PushAssumption ==
    /\ Mortal \subseteq Endpoints
    /\ MaxMatches \in Nat
    /\ OwnerOf \in [Matches -> Users]
    /\ MaxFaults \in Nat
    /\ None \notin Users
    /\ None \notin [user : Users, enabled : BOOLEAN]
    /\ None \notin [user : Users, first : BOOLEAN, known : BOOLEAN]

VARIABLES
    arrived,   \* how many matches there are
    pushed,    \* those with a push_notified_at
    muted,     \* users whose rules are disabled
    device,    \* push_subscriptions: the row of each endpoint, or None
    alive,     \* the endpoints the push service still knows
    saving,    \* what the POST for an endpoint has read, or None
    \* the run
    pc,        \* where it is
    targets,   \* the user of each endpoint it found enabled, or None
    visit,     \* the users it has not come to
    batch,     \* the matches it tells the user it is at
    left,      \* that user's endpoints it has not sent to
    success,   \* has one of them taken the notification?
    marks,     \* uncommitted push_notified_at
    touched,   \* subscriptions with uncommitted changes
    dead,      \* those of them it will disable
    gone,      \* rows it has read that were deleted since
    \* history
    accepted,  \* pairs <<match, endpoint>> the push service has accepted
    repeated,  \* one it accepted twice, and no run had lost anything before
    baseline,  \* matches marked by an activation of push
    activated, \* users who have activated push before
    upset,     \* has a run lost what it had not committed?
    faults     \* how many faults have happened

db == <<arrived, pushed, muted, device>>
local == <<targets, visit, batch, left, success, marks, touched, dead, gone>>
history == <<accepted, repeated, baseline, activated, upset>>
vars == <<db, alive, saving, pc, local, history, faults>>

Arrived == 1..arrived

TypeOK ==
    /\ arrived \in 0..MaxMatches
    /\ pushed \subseteq Arrived
    /\ muted \subseteq Users
    /\ device \in [Endpoints -> {None} \cup [user : Users, enabled : BOOLEAN]]
    /\ alive \subseteq Endpoints
    /\ saving \in [Endpoints ->
                     {None} \cup [user : Users, first : BOOLEAN, known : BOOLEAN]]
    /\ pc \in {"idle", "user", "send"}
    /\ targets \in [Endpoints -> {None} \cup Users]
    /\ visit \subseteq Users
    /\ batch \subseteq Arrived
    /\ left \subseteq Endpoints
    /\ success \in BOOLEAN
    /\ marks \subseteq Arrived
    /\ touched \subseteq Endpoints
    /\ dead \subseteq touched
    /\ gone \subseteq Endpoints
    /\ accepted \subseteq Arrived \X Endpoints
    /\ repeated \in BOOLEAN
    /\ baseline \subseteq pushed
    /\ activated \subseteq Users
    /\ upset \in BOOLEAN
    /\ faults \in 0..MaxFaults

Nowhere == [e \in Endpoints |-> None]

Init ==
    /\ arrived = 0
    /\ pushed = {}
    /\ muted = {}
    /\ device = [e \in Endpoints |-> None]
    /\ alive = Endpoints
    /\ saving = [e \in Endpoints |-> None]
    /\ pc = "idle"
    /\ targets = Nowhere
    /\ visit = {}
    /\ batch = {}
    /\ left = {}
    /\ success = FALSE
    /\ marks = {}
    /\ touched = {}
    /\ dead = {}
    /\ gone = {}
    /\ accepted = {}
    /\ repeated = FALSE
    /\ baseline = {}
    /\ activated = {}
    /\ upset = FALSE
    /\ faults = 0

----------------------------------------------------------------------------
(* The run: send_pending *)

EnabledOf(us) ==
    [e \in Endpoints |->
        IF device[e] # None /\ device[e].enabled /\ device[e].user \in us
        THEN device[e].user ELSE None]

\* The enabled subscriptions of all active users, read once; without any the
\* run has nothing to do here.
Begin ==
    /\ pc = "idle"
    /\ EnabledOf(Users) # Nowhere
    /\ targets' = EnabledOf(Users)
    /\ visit' = {u \in Users : \E e \in Endpoints : targets'[e] = u}
    /\ pc' = "user"
    /\ UNCHANGED <<db, alive, saving, batch, left, success, marks, touched, dead,
                   gone, history, faults>>

\* A mutation of Pending: push_notified_at is not looked at.
PendingAll(u) == {m \in Arrived : OwnerOf[m] = u /\ u \notin muted}

\* The matches of enabled rules without a push_notified_at, as they are when
\* the user's turn comes.
Pending(u) == {m \in Arrived \ pushed : OwnerOf[m] = u /\ u \notin muted}

\* Nothing is pending: the user is passed over.
SkipUser(u) ==
    /\ pc = "user"
    /\ u \in visit
    /\ Pending(u) = {}
    /\ visit' = visit \ {u}
    /\ UNCHANGED <<db, alive, saving, pc, targets, batch, left, success, marks,
                   touched, dead, gone, history, faults>>

TakeUser(u) ==
    /\ pc = "user"
    /\ u \in visit
    /\ Pending(u) # {}
    /\ visit' = visit \ {u}
    /\ batch' = Pending(u)
    /\ left' = {e \in Endpoints : targets[e] = u}
    /\ pc' = "send"
    /\ UNCHANGED <<db, alive, saving, targets, success, marks, touched, dead, gone,
                   history, faults>>

\* Every answer changes the subscription: its counters or its enabled column.
Sent(e) ==
    /\ pc = "send"
    /\ e \in left
    /\ left' = left \ {e}
    /\ touched' = touched \cup {e}

\* The push service accepts the notification for one device.
Accept(e) ==
    /\ accepted' = accepted \cup (batch \X {e})
    /\ repeated' = (repeated \/ (~upset' /\ (batch \X {e}) \cap accepted # {}))

SendOk(e) ==
    /\ Sent(e)
    /\ e \in alive
    /\ upset' = upset
    /\ Accept(e)
    /\ success' = TRUE
    /\ UNCHANGED <<db, alive, saving, pc, targets, visit, batch, marks, dead, gone,
                   baseline, activated, faults>>

\* 404 or 410
SendDead(e) ==
    /\ Sent(e)
    /\ e \notin alive
    /\ dead' = dead \cup {e}
    /\ UNCHANGED <<db, alive, saving, pc, targets, visit, batch, success, marks,
                   gone, history, faults>>

\* A mutation of SendFails: any failure disables the subscription.
SendFailsDisables(e) ==
    /\ Sent(e)
    /\ faults < MaxFaults
    /\ faults' = faults + 1
    /\ dead' = dead \cup {e}
    /\ UNCHANGED <<db, alive, saving, pc, targets, visit, batch, success, marks,
                   gone, history>>

\* Any other failure; the notification may have been accepted all the same.
SendFails(e) ==
    /\ Sent(e)
    /\ faults < MaxFaults
    /\ faults' = faults + 1
    /\ \/ UNCHANGED <<accepted, repeated, upset>>
       \/ e \in alive /\ upset' = TRUE /\ Accept(e)
    /\ UNCHANGED <<db, alive, saving, pc, targets, visit, batch, success, marks,
                   dead, gone, baseline, activated>>

\* A mutation of Delivered: the user's matches are marked, not those of the
\* notification.
DeliveredMeanwhile ==
    IF success THEN {m \in Arrived : \E n \in batch : OwnerOf[m] = OwnerOf[n]}
    ELSE {}

\* The matches count as pushed when the push service has accepted them for one
\* device (delivered > 0).
Delivered == IF success THEN batch ELSE {}

EndUser ==
    /\ pc = "send"
    /\ left = {}
    /\ marks' = marks \cup Delivered
    /\ batch' = {}
    /\ success' = FALSE
    /\ pc' = "user"
    /\ UNCHANGED <<db, alive, saving, targets, visit, left, touched, dead, gone,
                   history, faults>>

Forget ==
    /\ pc' = "idle"
    /\ targets' = Nowhere
    /\ visit' = {}
    /\ batch' = {}
    /\ left' = {}
    /\ success' = FALSE
    /\ marks' = {}
    /\ touched' = {}
    /\ dead' = {}
    /\ gone' = {}

\* Switch off the subscriptions in es.
Disable(es) ==
    device' = [e \in Endpoints |->
                 IF e \in es THEN [device[e] EXCEPT !.enabled = FALSE] ELSE device[e]]

\* After the last user.
Commit ==
    /\ pc = "user" /\ visit = {}
    /\ touched \cap gone = {}
    /\ Disable(dead)
    /\ pushed' = pushed \cup marks
    /\ Forget
    /\ UNCHANGED <<arrived, muted, alive, saving, history, faults>>

\* A mutation of CommitRefused: the commit is repeated.
CommitRepeated ==
    /\ pc = "user" /\ visit = {}
    /\ touched \cap gone # {}
    /\ UNCHANGED vars

\* StaleDataError: a subscription to update is no more.  Nothing is kept.
CommitRefused ==
    /\ pc = "user" /\ visit = {}
    /\ touched \cap gone # {}
    /\ upset' = (upset \/ marks # {})
    /\ Forget
    /\ UNCHANGED <<db, alive, saving, accepted, repeated, baseline, activated, faults>>

Crash ==
    /\ pc # "idle"
    /\ faults < MaxFaults
    /\ faults' = faults + 1
    /\ upset' = TRUE
    /\ Forget
    /\ UNCHANGED <<db, alive, saving, accepted, repeated, baseline, activated>>

----------------------------------------------------------------------------
(* api/push.py *)

\* test_push_notification: a message without matches to the devices of one
\* user.  Some of the dead ones are found out.  It may be one step, because
\* an endpoint found dead stays dead until the commit.
TestPush(u) ==
    /\ \E found \in SUBSET {e \in Endpoints \ alive : EnabledOf({u})[e] = u} :
          Disable(found)
    /\ UNCHANGED <<arrived, pushed, muted, alive, saving, pc, local, history, faults>>

\* The reads of save_push_subscription: how many devices are active, and
\* whether the endpoint has a row.  Only a live browser sends its endpoint.
SaveRead(u, e) ==
    /\ e \in alive
    /\ saving[e] = None
    /\ saving' = [saving EXCEPT ![e] =
                    [user  |-> u,
                     first |-> \A f \in Endpoints : EnabledOf({u})[f] = None,
                     known |-> device[e] # None]]
    /\ UNCHANGED <<db, alive, pc, local, history, faults>>

\* Its commit: the row, and with no device active the baseline.
SaveCommit(e) ==
    /\ saving[e] # None
    /\ saving[e].known = (device[e] # None)
    /\ LET u == saving[e].user
           baselined == IF saving[e].first
                        THEN {m \in Arrived \ pushed : OwnerOf[m] = u} ELSE {}
       IN  /\ device' = [device EXCEPT ![e] = [user |-> u, enabled |-> TRUE]]
           /\ pushed' = pushed \cup baselined
           /\ baseline' = baseline \cup baselined
           /\ activated' = activated \cup {u}
    /\ saving' = [saving EXCEPT ![e] = None]
    /\ UNCHANGED <<arrived, muted, alive, pc, local, accepted, repeated, upset,
                   faults>>

\* The row to update was removed in between.
SaveRefused(e) ==
    /\ saving[e] # None
    /\ saving[e].known # (device[e] # None)
    /\ saving' = [saving EXCEPT ![e] = None]
    /\ UNCHANGED <<db, alive, pc, local, history, faults>>

Remove(e) ==
    /\ device[e] # None
    /\ device' = [device EXCEPT ![e] = None]
    /\ gone' = IF targets[e] # None THEN gone \cup {e} ELSE gone
    /\ UNCHANGED <<arrived, pushed, muted, alive, saving, pc, targets, visit, batch,
                   left, success, marks, touched, dead, history, faults>>

----------------------------------------------------------------------------
(* The rest of the world *)

\* A run commits a match.
Arrive ==
    /\ arrived < MaxMatches
    /\ arrived' = arrived + 1
    /\ UNCHANGED <<pushed, muted, device, alive, saving, pc, local, history, faults>>

\* Users disable and enable their rules.
ToggleRules(u) ==
    /\ muted' = IF u \in muted THEN muted \ {u} ELSE muted \cup {u}
    /\ UNCHANGED <<arrived, pushed, device, alive, saving, pc, local, history, faults>>

\* The browser or the push service ends a subscription, for good.
Expire(e) ==
    /\ e \in Mortal
    /\ alive' = alive \ {e}
    /\ UNCHANGED <<db, saving, pc, local, history, faults>>

RunWork ==
    \/ \E u \in Users : SkipUser(u) \/ TakeUser(u)
    \/ \E e \in Endpoints : SendOk(e) \/ SendDead(e)
    \/ EndUser \/ Commit \/ CommitRefused

Next ==
    \/ Begin \/ RunWork \/ Crash
    \/ \E e \in Endpoints :
          \/ SendFails(e) \/ SaveCommit(e) \/ SaveRefused(e) \/ Remove(e) \/ Expire(e)
          \/ \E u \in Users : SaveRead(u, e)
    \/ Arrive
    \/ \E u \in Users : TestPush(u) \/ ToggleRules(u)

Spec == Init /\ [][Next]_vars

\* Runs come again and again and end; nobody else has to do anything.
FairSpec == Spec /\ WF_vars(Begin) /\ WF_vars(RunWork)

----------------------------------------------------------------------------
(* What push promises *)

\* A match is marked as pushed only if the push service has accepted it for a
\* device, or an activation of the user's set it aside: neither a failed run,
\* nor a device that went away, nor a match that arrived while the run was
\* sending is marked in passing (UPDATE article_matches of send_pending).
PushedWasAccepted ==
    \A m \in pushed : m \in baseline \/ \E e \in Endpoints : <<m, e>> \in accepted

\* The push service is given a match for the same device twice only after a run
\* lost what it had not committed, or could not know of an acceptance.
AcceptedOnce == ~repeated

\* Only endpoints the push service has declared dead get disabled (404, 410):
\* no other failure, and no row written between the read and the commit,
\* switches a live device off.
DisabledIsDead ==
    \A e \in Endpoints : device[e] # None /\ ~device[e].enabled => e \notin alive

\* docs/web-push.md:62: activating push for the first time sets the existing
\* matches aside.  So no later activation does (save_push_subscription).
BaselineOnlyFirst ==
    [][\A m \in baseline' \ baseline : OwnerOf[m] \notin activated]_vars

\* A match of a user who keeps a live device and does not disable the rules is
\* accepted by the push service or set aside in the end, even if other devices
\* come and go and make every commit fail.
Ready(u) ==
    /\ u \notin muted
    /\ \E e \in alive : device[e] # None /\ device[e].enabled /\ device[e].user = u

EventuallyPushed ==
    \A u \in Users :
        <>[]Ready(u) =>
            \A m \in Matches :
                m \in Arrived /\ OwnerOf[m] = u
                ~> m \in pushed \/ \E e \in Endpoints : <<m, e>> \in accepted

AbstractOutbox == INSTANCE Outbox WITH
    Items <- Matches, Senders <- {"run"}, rows <- Arrived,
    underway <- [s \in {"run"} |-> batch \cup marks],
    delivered <- {m \in Matches : \E e \in Endpoints : <<m, e>> \in accepted},
    waived <- baseline, settled <- pushed

\* A run delivers the matches as an outbox, whatever subscriptions and
\* activations do meanwhile: it marks only what it took unmarked and what the
\* push service has accepted, and marks are never taken back (send_pending).
ImplementsOutbox == AbstractOutbox!Spec
=============================================================================

-------------------------- MODULE TelegramDelivery --------------------------
(***************************************************************************)
(* services/crawl_service.py and services/notifier.py: the Telegram half   *)
(* of what a run does after its last board.  It loads the matches that     *)
(* have no notified_at, sends the oldest that fit into one message, and    *)
(* marks those.  What it leaves is for later runs.                         *)
(*                                                                         *)
(* Articles are numbered in the order in which they were matched; a match  *)
(* is a pair <<article, rule>>.  Only rules of active administrators are   *)
(* represented: the query selects no others.                               *)
(***************************************************************************)
EXTENDS Integers

CONSTANTS Runs,        \* runs that may be under way at the same time
          MaxArticles, \* bound on the articles that are matched
          Rules,
          Steady,      \* the rules their owners never disable or delete
          MaxFaults    \* bound on crashes and failed requests

ASSUME TelegramAssumption ==
    /\ MaxArticles \in Nat
    /\ Steady \subseteq Rules
    /\ MaxFaults \in Nat

Articles == 1..MaxArticles

VARIABLES
    arrived,   \* how many articles have been matched
    matches,   \* the rows of article_matches
    notified,  \* those with a notified_at
    enabled,   \* the rules that are enabled
    allowed,   \* app_settings.notification_enabled
    pc,        \* where each run is
    permit,    \* what it read from app_settings at its start
    batch,     \* the matches in its message
    told,      \* history: matches Telegram has delivered
    twice,     \* history: matches it has delivered more than once
    faults     \* how many faults have happened

rows == <<arrived, matches, notified>>
vars == <<rows, enabled, allowed, pc, permit, batch, told, twice, faults>>

TypeOK ==
    /\ arrived \in 0..MaxArticles
    /\ matches \subseteq Articles \X Rules
    /\ notified \subseteq matches
    /\ enabled \subseteq Rules
    /\ allowed \in BOOLEAN
    /\ pc \in [Runs -> {"idle", "load", "send", "mark"}]
    /\ permit \in [Runs -> BOOLEAN]
    /\ batch \in [Runs -> SUBSET (Articles \X Rules)]
    /\ told \subseteq Articles \X Rules
    /\ twice \subseteq told
    /\ faults \in 0..MaxFaults

Init ==
    /\ arrived = 0
    /\ matches = {}
    /\ notified = {}
    /\ enabled = Rules
    /\ allowed = TRUE
    /\ pc = [n \in Runs |-> "idle"]
    /\ permit = [n \in Runs |-> FALSE]
    /\ batch = [n \in Runs |-> {}]
    /\ told = {}
    /\ twice = {}
    /\ faults = 0

----------------------------------------------------------------------------
(* One run *)

\* The setting is read before the boards are crawled.
RunStart(n) ==
    /\ pc[n] = "idle"
    /\ permit' = [permit EXCEPT ![n] = allowed]
    /\ pc' = [pc EXCEPT ![n] = "load"]
    /\ UNCHANGED <<rows, enabled, allowed, batch, told, twice, faults>>

\* Mutations: also what is marked already; only what has just been matched.
PendingAll == {m \in matches : m[2] \in enabled}
PendingLatest ==
    {m \in matches \ notified : m[2] \in enabled /\ m[1] = arrived}
Pending == {m \in matches \ notified : m[2] \in enabled}

Return(n) ==
    /\ pc' = [pc EXCEPT ![n] = "idle"]
    /\ permit' = [permit EXCEPT ![n] = FALSE]
    /\ batch' = [batch EXCEPT ![n] = {}]

NothingToSend(n) ==
    /\ pc[n] = "load"
    /\ Pending = {} \/ ~permit[n]
    /\ Return(n)
    /\ UNCHANGED <<rows, enabled, allowed, told, twice, faults>>

FromNewest(last) == {m \in Pending : m[1] >= last}  \* a mutation: newest first
UpTo(last) == {m \in Pending : m[1] <= last}

\* As many articles as fit, oldest first, but at least one; how many fit
\* depends on their titles.  An article goes with all its pending matches.
LoadPending(n) ==
    /\ pc[n] = "load"
    /\ permit[n]
    /\ \E last \in {m[1] : m \in Pending} :
          batch' = [batch EXCEPT ![n] = UpTo(last)]
    /\ pc' = [pc EXCEPT ![n] = "send"]
    /\ UNCHANGED <<rows, enabled, allowed, permit, told, twice, faults>>

Deliver(ms) ==
    /\ told' = told \cup ms
    /\ twice' = twice \cup (ms \cap told)

SendOk(n) ==
    /\ pc[n] = "send"
    /\ Deliver(batch[n])
    /\ pc' = [pc EXCEPT ![n] = "mark"]
    /\ UNCHANGED <<rows, enabled, allowed, permit, batch, faults>>

\* NotificationError.  After a timeout the message may have been delivered.
SendFails(n) ==
    /\ pc[n] = "send"
    /\ faults < MaxFaults
    /\ faults' = faults + 1
    /\ UNCHANGED <<told, twice>> \/ Deliver(batch[n])
    /\ Return(n)
    /\ UNCHANGED <<rows, enabled, allowed>>

\* UPDATE ... WHERE id IN batch: rows deleted meanwhile are not there.
\* Mutations: everything pending; the last article of the message.
MarkedPending(n) == Pending \cup (batch[n] \cap matches)
MarkedLast(n) == {m \in batch[n] \cap matches : \A k \in batch[n] : k[1] <= m[1]}
Marked(n) == batch[n] \cap matches

MarkNotified(n) ==
    /\ pc[n] = "mark"
    /\ notified' = notified \cup Marked(n)
    /\ Return(n)
    /\ UNCHANGED <<arrived, matches, enabled, allowed, told, twice, faults>>

\* The process dies, or the database refuses.
Crash(n) ==
    /\ pc[n] # "idle"
    /\ faults < MaxFaults
    /\ faults' = faults + 1
    /\ Return(n)
    /\ UNCHANGED <<rows, enabled, allowed, told, twice>>

----------------------------------------------------------------------------
(* Everybody else *)

\* A run commits a board: a new article with a match for each rule it meets,
\* some of which may have been disabled since the run read them.
Arrive(rs) ==
    /\ arrived < MaxArticles
    /\ arrived' = arrived + 1
    /\ matches' = matches \cup ({arrived'} \X rs)
    /\ UNCHANGED <<notified, enabled, allowed, pc, permit, batch, told, twice, faults>>

ToggleRule(r) ==
    /\ enabled' = IF r \in enabled THEN enabled \ {r} ELSE enabled \cup {r}
    /\ UNCHANGED <<rows, allowed, pc, permit, batch, told, twice, faults>>

\* The matches go with the rule.  Its place may be taken by a new rule, of
\* which there are no matches yet.
DeleteRule(r) ==
    /\ enabled' = enabled \ {r}
    /\ matches' = {m \in matches : m[2] # r}
    /\ notified' = {m \in notified : m[2] # r}
    /\ UNCHANGED <<arrived, allowed, pc, permit, batch, told, twice, faults>>

ToggleSetting ==
    /\ allowed' = ~allowed
    /\ UNCHANGED <<rows, enabled, pc, permit, batch, told, twice, faults>>

Work(n) ==
    NothingToSend(n) \/ LoadPending(n) \/ SendOk(n) \/ MarkNotified(n)

Next ==
    \/ \E n \in Runs : RunStart(n) \/ Work(n) \/ SendFails(n) \/ Crash(n)
    \/ \E rs \in (SUBSET Rules) \ {{}} : Arrive(rs)
    \/ \E r \in Rules \ Steady : ToggleRule(r) \/ DeleteRule(r)
    \/ ToggleSetting

Spec == Init /\ [][Next]_vars

\* Runs are started again and again and end; Telegram answers in the end.
FairSpec == Spec /\ \A n \in Runs : WF_vars(RunStart(n)) /\ WF_vars(Work(n))

----------------------------------------------------------------------------
(* What the notification promises *)

\* A match is marked only after Telegram accepted a message with it, even
\* when more matches arrive, or rules change, between the load and the mark.
NotifiedWasSent == notified \subseteq told

\* Nothing overtakes: once a match was told, so were all matches of earlier
\* articles whose rules stayed enabled, whatever message failed in between.
OldestFirst ==
    \A m \in told : \A older \in matches :
        older[1] < m[1] /\ older[2] \in Steady => older \in told

\* Only a crash or a failed request makes Telegram tell something twice.
ToldOnce == faults = 0 => twice = {}

\* A match of a rule that stays enabled is told in the end, if notifications
\* end up being allowed: what was held back or failed is not forgotten.
EventuallyNotified ==
    <>[]allowed =>
        \A a \in Articles, r \in Steady :
            <<a, r>> \in matches ~> <<a, r>> \in notified

AbstractOutbox == INSTANCE Outbox WITH
    Items <- Articles \X Rules, Senders <- Runs, rows <- matches,
    underway <- batch, delivered <- told, waived <- {}, settled <- notified

\* Any number of runs at once deliver the matches as an outbox: each marks
\* only what it took unmarked and what was told, marks are never taken back,
\* and no match that was told comes again (_send_pending_notification).
ImplementsOutbox == AbstractOutbox!Spec
=============================================================================

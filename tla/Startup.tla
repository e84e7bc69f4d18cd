------------------------------ MODULE Startup ------------------------------
(***************************************************************************)
(* What every API process and worker does before it serves: migrate the    *)
(* database (database.py), make sure that there is an administrator who    *)
(* owns what belongs to nobody (account_service.py) and that there is a    *)
(* row of settings (app_settings.py); and what happens to these rows while *)
(* others start or once somebody serves: people register (api/auth.py) and *)
(* administrators save settings (api/settings.py).                         *)
(*                                                                         *)
(* The database is PostgreSQL, READ COMMITTED, with DDL in transactions.   *)
(* It may be new, of an older version, or up to date; in the last case the *)
(* previous deployment may still serve, with another ADMIN_EMAIL.          *)
(***************************************************************************)
EXTENDS Integers

CONSTANTS Processes,   \* the API processes and workers that start
          Requests,    \* the requests in which administrators save settings
          Payloads,    \* the settings they send
          OldRows,     \* rows of settings of an older version
          MaxFaults,   \* bound on failures and deaths of processes
          None         \* no row, no process, no request

Tables == {"users", "rules", "app_settings"}

\* The row of app_settings; an older version knows no interval (0).
Setting == [interval : Nat, pages : Nat, notify : BOOLEAN]

\* validate_high_frequency_settings
Legal(s) == s.interval <= 60 => s.pages <= 2

Default == [interval |-> 30, pages |-> 2, notify |-> TRUE]

ASSUME StartupAssumption ==
    /\ Payloads \subseteq {s \in Setting : Legal(s)}
    /\ OldRows \subseteq {s \in Setting : s.interval = 0}
    /\ MaxFaults \in Nat
    /\ None \notin Processes \cup Requests \cup Setting

VARIABLES
    \* the database
    schema,    \* each table: absent, old or current
    admin,     \* the account with the administrator's address
    ownerless, \* the tables with rows that have no user_id
    setting,   \* the row of app_settings
    advisory,  \* the process that holds the advisory lock
    \* processes
    pc,        \* where each process is
    saw,       \* the schema it has inspected
    before,    \* does the previous deployment still serve?
    draft,     \* the settings a request has read and those it will store
    \* bookkeeping
    faults,
    raced,     \* processes between whose look and insert the address was registered
    overlap    \* the last save did not find what it had read

tables == <<schema, admin, ownerless, setting>>
history == <<faults, raced, overlap>>
vars == <<tables, advisory, pc, saw, before, draft, history>>

Steps == {"down", "lock", "inspect", "migrate", "unlock", "admin", "insert",
          "promote", "claim", "settings", "create", "up"}
Schema == [Tables -> {"absent", "old", "current"}]

TypeOK ==
    /\ schema \in Schema
    /\ admin \in {"none", "member", "admin"}
    /\ ownerless \subseteq {"rules", "matches"}
    /\ setting \in Setting \cup {None}
    /\ advisory \in Processes \cup {None}
    /\ pc \in [Processes -> Steps]
    /\ saw \in [Processes -> Schema]
    /\ before \in BOOLEAN
    /\ draft \in [Requests -> [read : Setting, new : Payloads] \cup {None}]
    /\ faults \in 0..MaxFaults
    /\ raced \subseteq Processes
    /\ overlap \in BOOLEAN

Empty == [t \in Tables |-> "absent"]
Current == [t \in Tables |-> "current"]

NewDatabase ==
    /\ schema = Empty
    /\ admin = "none"
    /\ ownerless = {}
    /\ setting = None
    /\ before = FALSE

\* An older version, with or without accounts: tables that exist lack columns,
\* and rules of a time without accounts belong to nobody.
OldDatabase ==
    /\ schema \in {s \in Schema : /\ s["users"] \in {"absent", "current"}
                                  /\ s["rules"] \in {"old", s["users"]}
                                  /\ s["app_settings"] \in {"old", "current"}}
    /\ schema \notin {Empty, Current}
    /\ schema["rules"] # "absent"
    /\ admin \in IF schema["users"] = "absent" THEN {"none"}
                 ELSE {"none", "member", "admin"}
    /\ ownerless = IF schema["users"] = "absent" THEN {"rules", "matches"} ELSE {}
    /\ setting \in {None} \cup IF schema["app_settings"] = "old" THEN OldRows
                               ELSE Payloads
    /\ before = FALSE

\* A restart, possibly with a new ADMIN_EMAIL somebody may have registered.
CurrentDatabase ==
    /\ schema = Current
    /\ admin \in {"none", "member", "admin"}
    /\ ownerless = {}
    /\ setting \in Payloads
    /\ before \in BOOLEAN

Init ==
    /\ NewDatabase \/ OldDatabase \/ CurrentDatabase
    /\ advisory = None
    /\ pc = [p \in Processes |-> "down"]
    /\ saw = [p \in Processes |-> Empty]
    /\ draft = [r \in Requests |-> None]
    /\ faults = 0
    /\ raced = {}
    /\ overlap = FALSE

Goto(p, from, to) == pc[p] = from /\ pc' = [pc EXCEPT ![p] = to]

----------------------------------------------------------------------------
(* initialize_database *)

\* A container starts, or is restarted.
Start(p) ==
    /\ Goto(p, "down", "lock")
    /\ UNCHANGED <<tables, advisory, saw, before, draft, history>>

LockShared(p) ==  \* a mutation: nobody waits for pg_advisory_lock
    /\ Goto(p, "lock", "inspect")
    /\ advisory' = p
    /\ UNCHANGED <<tables, saw, before, draft, history>>

\* pg_advisory_lock waits for the session that has it.
Lock(p) ==
    /\ Goto(p, "lock", "inspect")
    /\ advisory = None
    /\ advisory' = p
    /\ UNCHANGED <<tables, saw, before, draft, history>>

\* Which tables and columns are there?
Inspect(p) ==
    /\ Goto(p, "inspect", "migrate")
    /\ saw' = [saw EXCEPT ![p] = schema]
    /\ UNCHANGED <<tables, advisory, before, draft, history>>

MigratedRowKeepingPages ==  \* a mutation: the pages are not reset
    IF setting = None THEN None ELSE [setting EXCEPT !.interval = 30]
MigratedRow ==
    IF setting = None THEN None ELSE [setting EXCEPT !.interval = 30, !.pages = 1]

\* create_all, _ensure_account_columns and _ensure_scheduler_columns in one
\* transaction: what was missing when it looked is created or altered, and
\* only an altered app_settings has its row reset.
Migrate(p) ==
    /\ Goto(p, "migrate", "unlock")
    /\ schema' = Current
    /\ setting' = IF saw[p]["app_settings"] = "old" THEN MigratedRow ELSE setting
    /\ saw' = [saw EXCEPT ![p] = Empty]
    /\ UNCHANGED <<admin, ownerless, advisory, before, draft, history>>

Unlock(p) ==
    /\ Goto(p, "unlock", "admin")
    /\ advisory' = IF advisory = p THEN None ELSE advisory
    /\ UNCHANGED <<tables, saw, before, draft, history>>

----------------------------------------------------------------------------
(* ensure_bootstrap_admin *)

FindAdmin(p) ==
    /\ Goto(p, "admin", CASE admin = "none" -> "insert"
                          [] admin = "member" -> "promote"
                          [] admin = "admin" -> "claim")
    /\ UNCHANGED <<tables, advisory, saw, before, draft, history>>

InsertAdminAgain(p) ==  \* a mutation: after an IntegrityError it tries again
    /\ Goto(p, "insert", IF admin = "none" THEN "claim" ELSE "insert")
    /\ admin' = IF admin = "none" THEN "admin" ELSE admin
    /\ UNCHANGED <<schema, ownerless, setting, advisory, saw, before, draft, history>>

\* An IntegrityError means that the account is there: it is taken as it is.
InsertAdmin(p) ==
    /\ Goto(p, "insert", "claim")
    /\ admin' = IF admin = "none" THEN "admin" ELSE admin
    /\ UNCHANGED <<schema, ownerless, setting, advisory, saw, before, draft, history>>

Promote(p) ==
    /\ Goto(p, "promote", "claim")
    /\ admin' = "admin"
    /\ UNCHANGED <<schema, ownerless, setting, advisory, saw, before, draft, history>>

ClaimMatchesFirst(p) ==  \* a mutation: matches ask rules that have no owner yet
    /\ Goto(p, "claim", "settings")
    /\ ownerless' = IF "rules" \in ownerless THEN ownerless \ {"rules"} ELSE {}
    /\ UNCHANGED <<schema, admin, setting, advisory, saw, before, draft, history>>

\* In one transaction the rules become the administrator's, then each match
\* its rule's owner's.
Claim(p) ==
    /\ Goto(p, "claim", "settings")
    /\ ownerless' = {}
    /\ UNCHANGED <<schema, admin, setting, advisory, saw, before, draft, history>>

----------------------------------------------------------------------------
(* get_or_create_app_settings *)

FindSetting(p) ==
    /\ Goto(p, "settings", IF setting = None THEN "create" ELSE "up")
    /\ UNCHANGED <<tables, advisory, saw, before, draft, history>>

CreateOverwriting(p) ==  \* a mutation: the row is merged, not added
    /\ Goto(p, "create", "up")
    /\ setting' = Default
    /\ UNCHANGED <<schema, admin, ownerless, advisory, saw, before, draft, history>>

\* An IntegrityError means that another process was faster.
CreateSetting(p) ==
    /\ Goto(p, "create", "up")
    /\ setting' = IF setting = None THEN Default ELSE setting
    /\ UNCHANGED <<schema, admin, ownerless, advisory, saw, before, draft, history>>

\* A process dies, or a statement raises and ends it: its transaction is
\* rolled back, and the advisory lock goes with its session.
Fail(p) ==
    /\ pc[p] # "down"
    /\ faults < MaxFaults
    /\ faults' = faults + 1
    /\ pc' = [pc EXCEPT ![p] = "down"]
    /\ advisory' = IF advisory = p THEN None ELSE advisory
    /\ saw' = [saw EXCEPT ![p] = Empty]
    /\ raced' = raced \ {p}
    /\ UNCHANGED <<tables, before, draft, overlap>>

----------------------------------------------------------------------------
(* What those do who are served *)

Serving == before \/ \E p \in Processes : pc[p] = "up"

\* The previous deployment is taken down.
Retire ==
    /\ before
    /\ before' = FALSE
    /\ UNCHANGED <<tables, advisory, pc, saw, draft, history>>

\* create_user: somebody registers the address of the administrator.  Where it
\* exists the request is refused.
Register ==
    /\ Serving
    /\ admin = "none"
    /\ admin' = "member"
    /\ raced' = raced \cup {p \in Processes : pc[p] = "insert"}
    /\ UNCHANGED <<schema, ownerless, setting, advisory, pc, saw, before, draft,
                   faults, overlap>>

\* update_app_settings reads the row ...
ReadSetting(r, s) ==
    /\ Serving
    /\ draft[r] = None
    /\ setting # None
    /\ draft' = [draft EXCEPT ![r] = [read |-> setting, new |-> s]]
    /\ UNCHANGED <<tables, advisory, pc, saw, before, history>>

\* The row after an UPDATE of the columns that differ from what was read.
Merge(row, read, new) ==
    [interval |-> IF new.interval # read.interval THEN new.interval ELSE row.interval,
     pages |-> IF new.pages # read.pages THEN new.pages ELSE row.pages,
     notify |-> IF new.notify # read.notify THEN new.notify ELSE row.notify]

\* ... and commits what it changes.
SaveSetting(r) ==
    /\ Serving
    /\ draft[r] # None
    /\ setting' = Merge(setting, draft[r].read, draft[r].new)
    /\ overlap' = (setting # draft[r].read)
    /\ draft' = [draft EXCEPT ![r] = None]
    /\ UNCHANGED <<schema, admin, ownerless, advisory, pc, saw, before, faults, raced>>

\* The process that served the request is gone.
DropRequest(r) ==
    /\ draft[r] # None
    /\ draft' = [draft EXCEPT ![r] = None]
    /\ UNCHANGED <<tables, advisory, pc, saw, before, history>>

----------------------------------------------------------------------------
Work(p) ==
    \/ Start(p) \/ Lock(p) \/ Inspect(p) \/ Migrate(p) \/ Unlock(p)
    \/ FindAdmin(p) \/ InsertAdmin(p) \/ Promote(p) \/ Claim(p)
    \/ FindSetting(p) \/ CreateSetting(p)

Next ==
    \/ \E p \in Processes : Work(p) \/ Fail(p)
    \/ Retire \/ Register
    \/ \E r \in Requests :
          \/ \E s \in Payloads : ReadSetting(r, s)
          \/ SaveSetting(r) \/ DropRequest(r)

Spec == Init /\ [][Next]_vars

\* Containers are restarted (restart: unless-stopped) and go on; PostgreSQL
\* serves those who wait for the advisory lock in turn.
FairSpec == Spec /\ \A p \in Processes : SF_vars(Work(p))

----------------------------------------------------------------------------
(* What start-up promises *)

\* The steps of a process that has left initialize_database.
Initialized(p) == pc[p] \notin {"down", "lock", "inspect", "migrate"}

\* Whoever works with the tables finds all columns, and whoever serves finds
\* an administrator, no row without owner, and settings - whatever state the
\* database was in, whoever starts at the same time, wherever starts were cut
\* off.  The one exception is a process that was about to add the account when
\* somebody, served by others, registered the administrator's address; once it
\* has started again, the exception is over.
UpIsReady ==
    \A p \in Processes :
        /\ Initialized(p) => schema = Current
        /\ pc[p] = "up" => /\ ownerless = {}
                           /\ setting # None
                           /\ admin = "admin" \/ p \in raced

\* README: the advisory lock keeps processes from changing the structure at
\* the same time.  What a process found when it looked is what it alters: no
\* column is added twice.
NoCollision == \A p \in Processes : pc[p] = "migrate" => saw[p] = schema

\* Starting a process never takes back what administrators have set: the row
\* of a migrated database changes only when a request commits.
SettingsKept ==
    [][schema["app_settings"] = "current" /\ setting # None /\ setting' # setting
       => \E r \in Requests : draft[r] # None /\ draft'[r] = None]_vars

\* The limit of pages for frequent runs, which is checked per request, holds
\* for the stored row as well, also for one that comes from an older version.
\* Only two requests at once can get around it, and the next undisturbed one
\* restores it.
LimitKept ==
    setting # None /\ schema["app_settings"] = "current" => Legal(setting) \/ overlap

\* Every process comes up, and stays up when failures end.
AllUp == \A p \in Processes : <>[](pc[p] = "up")
=============================================================================

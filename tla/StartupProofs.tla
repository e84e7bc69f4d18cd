--------------------------- MODULE StartupProofs ---------------------------
(***************************************************************************)
(* Proofs about Startup for any number of processes and requests, any      *)
(* settings within the limit and any number of faults.                     *)
(*                                                                         *)
(* What a process may rely on grows with its place in the start-up         *)
(* (Progress); that it is allowed to alter what it has inspected comes     *)
(* from the advisory lock (Locked).                                        *)
(***************************************************************************)
EXTENDS Startup, TLAPS

\* An UPDATE leaves a row of settings.
LEMMA MergeIsSetting ==
    ASSUME NEW row \in Setting, NEW read \in Setting, NEW new \in Setting
    PROVE  Merge(row, read, new) \in Setting
BY DEF Merge, Setting

\* Every step keeps the type of every variable, given that the row a request
\* has read is never deleted.
RowStays == \A r \in Requests : draft[r] # None => setting # None

\* Types are kept, and rows that were read stay.
THEOREM TypeCorrect == Spec => [](TypeOK /\ RowStays)
<1> USE StartupAssumption
<1>1. Init => TypeOK /\ RowStays
  <2> SUFFICES ASSUME Init PROVE TypeOK /\ RowStays
    OBVIOUS
  <2>1. Empty \in Schema /\ Current \in Schema
    BY DEF Empty, Current, Schema
  <2>2. /\ schema \in Schema
        /\ admin \in {"none", "member", "admin"}
        /\ ownerless \subseteq {"rules", "matches"}
        /\ setting \in Setting \cup {None}
        /\ before \in BOOLEAN
    <3>1. CASE NewDatabase
      BY <2>1, <3>1 DEF NewDatabase
    <3>2. CASE OldDatabase
      BY <3>2 DEF OldDatabase
    <3>3. CASE CurrentDatabase
      BY <2>1, <3>3 DEF CurrentDatabase
    <3> QED BY <3>1, <3>2, <3>3 DEF Init
  <2>3. /\ advisory = None
        /\ pc = [p \in Processes |-> "down"]
        /\ saw = [p \in Processes |-> Empty]
        /\ draft = [r \in Requests |-> None]
        /\ faults = 0 /\ raced = {} /\ overlap = FALSE
    BY DEF Init
  <2>4. faults \in 0..MaxFaults
    BY <2>3
  <2> QED BY <2>1, <2>2, <2>3, <2>4 DEF TypeOK, RowStays, Steps
<1>2. TypeOK /\ RowStays /\ [Next]_vars => TypeOK' /\ RowStays'
  <2> SUFFICES ASSUME TypeOK, RowStays, [Next]_vars PROVE TypeOK' /\ RowStays'
    OBVIOUS
  <2> USE DEF TypeOK, RowStays, tables, history, Goto, Steps
  <2>0. Empty \in Schema /\ Current \in Schema
    BY DEF Empty, Current, Schema
  <2>1. ASSUME NEW p \in Processes, Work(p) PROVE TypeOK' /\ RowStays'
    <3>1. CASE Start(p) \/ Lock(p) \/ Unlock(p)
      <4>1. UNCHANGED <<schema, admin, ownerless, setting, saw, before, draft,
                        faults, raced, overlap>>
        BY <3>1 DEF Start, Lock, Unlock
      <4>2. advisory' \in Processes \cup {None}
        BY <3>1 DEF Start, Lock, Unlock
      <4>3. pc' \in [Processes -> Steps]
        BY <3>1 DEF Start, Lock, Unlock
      <4> QED BY <4>1, <4>2, <4>3
    <3>2. CASE Inspect(p)
      BY <3>2 DEF Inspect
    <3>3. CASE Migrate(p)
      <4>1. MigratedRow \in Setting \cup {None} /\ (setting # None => MigratedRow # None)
        <5>1. CASE setting = None
          BY <5>1 DEF MigratedRow
        <5>2. CASE setting # None
          <6>1. setting \in Setting
            BY <5>2
          <6>2. [setting EXCEPT !.interval = 30, !.pages = 1] \in Setting
            BY <6>1 DEF Setting
          <6> QED BY <5>2, <6>2 DEF MigratedRow
        <5> QED BY <5>1, <5>2
      <4>2. /\ setting' \in Setting \cup {None}
            /\ setting # None => setting' # None
        BY <3>3, <4>1 DEF Migrate
      <4>3. saw' \in [Processes -> Schema]
        BY <3>3, <2>0 DEF Migrate
      <4> QED BY <3>3, <4>2, <4>3, <2>0 DEF Migrate
    <3>4. CASE FindAdmin(p)
      BY <3>4 DEF FindAdmin
    <3>5. CASE InsertAdmin(p) \/ Promote(p) \/ Claim(p)
      <4>1. UNCHANGED <<schema, setting, advisory, saw, before, draft, faults, raced,
                        overlap>>
        BY <3>5 DEF InsertAdmin, Promote, Claim
      <4>2. admin' \in {"none", "member", "admin"} /\ ownerless' \subseteq {"rules", "matches"}
        BY <3>5 DEF InsertAdmin, Promote, Claim
      <4>3. pc' \in [Processes -> Steps]
        BY <3>5 DEF InsertAdmin, Promote, Claim
      <4> QED BY <4>1, <4>2, <4>3
    <3>6. CASE FindSetting(p)
      BY <3>6 DEF FindSetting
    <3>7. CASE CreateSetting(p)
      BY <3>7 DEF CreateSetting, Default, Setting
    <3> QED BY <2>1, <3>1, <3>2, <3>3, <3>4, <3>5, <3>6, <3>7 DEF Work
  <2>2. ASSUME NEW p \in Processes, Fail(p) PROVE TypeOK' /\ RowStays'
    BY <2>2, <2>0 DEF Fail
  <2>3. CASE Retire
    BY <2>3 DEF Retire
  <2>4. CASE Register
    <3>1. raced' \subseteq Processes
      BY <2>4 DEF Register
    <3> QED BY <2>4, <3>1 DEF Register
  <2>5. ASSUME NEW r \in Requests, NEW s \in Payloads, ReadSetting(r, s) PROVE TypeOK' /\ RowStays'
    BY <2>5 DEF ReadSetting
  <2>6. ASSUME NEW r \in Requests, SaveSetting(r) PROVE TypeOK' /\ RowStays'
    <3>1. draft[r].read \in Setting /\ draft[r].new \in Setting /\ setting \in Setting
      BY <2>6 DEF SaveSetting
    <3>3. setting' \in Setting
      BY <2>6, <3>1, MergeIsSetting DEF SaveSetting
    <3> QED BY <2>6, <3>3 DEF SaveSetting
  <2>7. ASSUME NEW r \in Requests, DropRequest(r) PROVE TypeOK' /\ RowStays'
    BY <2>7 DEF DropRequest
  <2>8. CASE UNCHANGED vars
    BY <2>8 DEF vars
  <2> QED
    BY <2>1, <2>2, <2>3, <2>4, <2>5, <2>6, <2>7, <2>8 DEF Next
<1> QED BY <1>1, <1>2, PTL DEF Spec

----------------------------------------------------------------------------
\* The advisory lock protects what a process has inspected until it commits.
Locked ==
    \A p \in Processes :
        /\ pc[p] \in {"inspect", "migrate", "unlock"} => advisory = p
        /\ pc[p] = "migrate" => saw[p] = schema

\* What is settled once a process has come to a step.
Progress ==
    /\ before => schema = Current /\ setting # None
    /\ schema["app_settings"] = "absent" => setting = None
    /\ \A p \in Processes :
        /\ Initialized(p) => schema = Current
        /\ pc[p] = "insert" => admin \in {"none", "admin"} \/ p \in raced
        /\ pc[p] \in {"claim", "settings", "create", "up"} => admin = "admin" \/ p \in raced
        /\ pc[p] \in {"settings", "create", "up"} => ownerless = {}
        /\ pc[p] = "up" => setting # None

\* The lock excludes, and nothing changes under the one that has it.
THEOREM LockCorrect == Spec => []Locked
<1> USE StartupAssumption
<1>1. Init => Locked
  BY DEF Init, Locked
<1>2. TypeOK /\ Locked /\ [Next]_vars => Locked'
  <2> SUFFICES ASSUME TypeOK, Locked, [Next]_vars PROVE Locked'
    OBVIOUS
  <2> USE DEF TypeOK, Locked, tables, history, Goto, Steps
  <2>1. ASSUME NEW p \in Processes, Work(p) PROVE Locked'
    <3>1. CASE Start(p) \/ Lock(p) \/ Inspect(p) \/ Migrate(p) \/ Unlock(p)
      <4>1. CASE Start(p)
        BY <4>1 DEF Start
      <4>2. CASE Lock(p)
        BY <4>2 DEF Lock
      <4>3. CASE Inspect(p)
        BY <4>3 DEF Inspect
      <4>4. CASE Migrate(p)
        BY <4>4 DEF Migrate
      <4>5. CASE Unlock(p)
        BY <4>5 DEF Unlock
      <4> QED BY <3>1, <4>1, <4>2, <4>3, <4>4, <4>5
    <3>2. CASE FindAdmin(p)
      BY <3>2 DEF FindAdmin
    <3>3. CASE InsertAdmin(p) \/ Promote(p) \/ Claim(p)
      BY <3>3 DEF InsertAdmin, Promote, Claim
    <3>4. CASE FindSetting(p) \/ CreateSetting(p)
      BY <3>4 DEF FindSetting, CreateSetting
    <3> QED BY <2>1, <3>1, <3>2, <3>3, <3>4 DEF Work
  <2>2. ASSUME NEW p \in Processes, Fail(p) PROVE Locked'
    BY <2>2 DEF Fail
  <2>3. CASE Retire \/ Register
    BY <2>3 DEF Retire, Register
  <2>4. ASSUME NEW r \in Requests, NEW s \in Payloads,
               ReadSetting(r, s) \/ SaveSetting(r) \/ DropRequest(r)
        PROVE  Locked'
    BY <2>4 DEF ReadSetting, SaveSetting, DropRequest
  <2>5. ASSUME NEW r \in Requests, SaveSetting(r) \/ DropRequest(r) PROVE Locked'
    BY <2>5 DEF SaveSetting, DropRequest
  <2>6. CASE UNCHANGED vars
    BY <2>6 DEF vars
  <2> QED BY <2>1, <2>2, <2>3, <2>4, <2>5, <2>6 DEF Next
<1> QED BY <1>1, <1>2, TypeCorrect, PTL DEF Spec

\* README, on the advisory lock: what a process alters is what it has found.
THEOREM NoneCollides == Spec => []NoCollision
<1>1. Locked => NoCollision
  BY DEF Locked, NoCollision
<1> QED BY <1>1, LockCorrect, PTL

\* Whoever works with the tables finds them whole, and whoever serves finds
\* an administrator, owners and settings, however starts and failures of the
\* others come in between.
THEOREM StartsAreComplete == Spec => []Progress
<1> USE StartupAssumption
<1>1. Init => Progress
  <2> SUFFICES ASSUME Init PROVE Progress
    OBVIOUS
  <2>1. \A p \in Processes : pc[p] = "down"
    BY DEF Init
  <2>2. /\ before => schema = Current /\ setting # None
        /\ schema["app_settings"] = "absent" => setting = None
    <3>1. CASE NewDatabase
      BY <3>1 DEF NewDatabase
    <3>2. CASE OldDatabase
      BY <3>2 DEF OldDatabase, Schema, Tables
    <3>3. CASE CurrentDatabase
      BY <3>3 DEF CurrentDatabase, Current, Tables
    <3> QED BY <3>1, <3>2, <3>3 DEF Init
  <2> QED BY <2>1, <2>2 DEF Progress, Initialized
<1>2. TypeOK /\ RowStays /\ Locked /\ Progress /\ [Next]_vars => Progress'
  <2> SUFFICES ASSUME TypeOK, RowStays, Locked, Progress, [Next]_vars PROVE Progress'
    OBVIOUS
  <2> USE DEF TypeOK, Progress, Initialized, tables, history, Goto, Steps
  <2>0. Current["app_settings"] = "current"
    BY DEF Current, Tables
  <2>1. ASSUME NEW p \in Processes, Work(p) PROVE Progress'
    <3>1. CASE Start(p)
      BY <3>1 DEF Start
    <3>2. CASE Lock(p)
      BY <3>2 DEF Lock
    <3>3. CASE Inspect(p)
      BY <3>3 DEF Inspect
    <3>4. CASE Migrate(p)
      <4>1. setting # None => setting' # None
        <5>1. setting # None => [setting EXCEPT !.interval = 30, !.pages = 1] \in Setting
          BY DEF Setting
        <5> QED BY <3>4, <5>1 DEF Migrate, MigratedRow
      <4>2. /\ pc[p] = "migrate" /\ pc' = [pc EXCEPT ![p] = "unlock"]
            /\ schema' = Current
            /\ UNCHANGED <<admin, ownerless, before, raced>>
        BY <3>4 DEF Migrate
      <4> QED BY <4>1, <4>2, <2>0
    <3>5. CASE Unlock(p)
      BY <3>5 DEF Unlock
    <3>6. CASE FindAdmin(p)
      BY <3>6 DEF FindAdmin
    <3>7. CASE InsertAdmin(p)
      BY <3>7 DEF InsertAdmin
    <3>8. CASE Promote(p)
      BY <3>8 DEF Promote
    <3>9. CASE Claim(p)
      BY <3>9 DEF Claim
    <3>10. CASE FindSetting(p)
      BY <3>10 DEF FindSetting
    <3>11. CASE CreateSetting(p)
      <4>1. setting' # None
        <5>1. Default \in Setting
          BY DEF Default, Setting
        <5> QED BY <3>11, <5>1 DEF CreateSetting
      <4>2. /\ schema = Current
            /\ pc[p] = "create" /\ pc' = [pc EXCEPT ![p] = "up"]
            /\ UNCHANGED <<schema, admin, ownerless, before, raced>>
        BY <3>11 DEF CreateSetting
      <4> QED BY <4>1, <4>2, <2>0
    <3> QED BY <2>1, <3>1, <3>2, <3>3, <3>4, <3>5, <3>6, <3>7, <3>8, <3>9,
               <3>10, <3>11 DEF Work
  <2>2. ASSUME NEW p \in Processes, Fail(p) PROVE Progress'
    BY <2>2 DEF Fail
  <2>3. CASE Retire
    BY <2>3 DEF Retire
  <2>4. CASE Register
    <3>1. raced \subseteq raced'
      BY <2>4 DEF Register
    <3>2. \A p \in Processes : pc[p] = "insert" => p \in raced'
      BY <2>4 DEF Register
    <3>3. /\ admin = "none"
          /\ UNCHANGED <<schema, ownerless, setting, pc, before>>
      BY <2>4 DEF Register
    <3> QED BY <3>1, <3>2, <3>3
  <2>5. ASSUME NEW r \in Requests, NEW s \in Payloads, ReadSetting(r, s) PROVE Progress'
    BY <2>5 DEF ReadSetting
  <2>6. ASSUME NEW r \in Requests, SaveSetting(r) PROVE Progress'
    <3>1. schema = Current /\ UNCHANGED <<schema, admin, ownerless, pc, before, raced>>
      BY <2>6 DEF SaveSetting, Serving
    <3>2. draft[r].read \in Setting /\ draft[r].new \in Setting /\ setting \in Setting
      BY <2>6 DEF SaveSetting, RowStays
    <3>3. setting' # None
      BY <2>6, <3>2, MergeIsSetting DEF SaveSetting
    <3> QED BY <3>1, <3>3, <2>0
  <2>7. ASSUME NEW r \in Requests, DropRequest(r) PROVE Progress'
    BY <2>7 DEF DropRequest
  <2>8. CASE UNCHANGED vars
    BY <2>8 DEF vars
  <2> QED BY <2>1, <2>2, <2>3, <2>4, <2>5, <2>6, <2>7, <2>8 DEF Next
<1> QED BY <1>1, <1>2, TypeCorrect, LockCorrect, PTL DEF Spec

\* The promise itself.
THEOREM ReadyWhenUp == Spec => []UpIsReady
<1>1. Progress => UpIsReady
  BY DEF Progress, UpIsReady
<1> QED BY <1>1, StartsAreComplete, PTL

----------------------------------------------------------------------------
\* A save that finds what it has read stores exactly what was sent.
LEMMA UndisturbedSave ==
    ASSUME NEW row \in Setting, NEW new \in Setting
    PROVE  Merge(row, row, new) = new
BY DEF Merge, Setting

\* The stored settings exceed the limit of pages only after two saves at once.
THEOREM LimitIsKept == Spec => []LimitKept
<1> USE StartupAssumption
<1>1. Init => LimitKept
  <2> SUFFICES ASSUME Init, setting # None, schema["app_settings"] = "current"
               PROVE  Legal(setting)
    BY DEF LimitKept
  <2>1. ~NewDatabase
    BY DEF NewDatabase
  <2>2. CASE OldDatabase
    BY <2>2 DEF OldDatabase
  <2>3. CASE CurrentDatabase
    BY <2>3 DEF CurrentDatabase
  <2> QED BY <2>1, <2>2, <2>3 DEF Init
<1>2. TypeOK /\ RowStays /\ Locked /\ Progress /\ LimitKept /\ [Next]_vars => LimitKept'
  <2> SUFFICES ASSUME TypeOK, RowStays, Locked, Progress, LimitKept, [Next]_vars,
                      setting' # None, schema'["app_settings"] = "current"
               PROVE  Legal(setting') \/ overlap'
    BY DEF LimitKept
  <2>0. ASSUME UNCHANGED <<schema, setting, overlap>> PROVE Legal(setting') \/ overlap'
    BY <2>0 DEF LimitKept
  <2>1. ASSUME NEW p \in Processes, Work(p) PROVE Legal(setting') \/ overlap'
    <3>1. CASE Migrate(p)
      <4>1. CASE schema["app_settings"] = "old"
        <5>1. pc[p] = "migrate" /\ setting' = MigratedRow
          BY <3>1, <4>1 DEF Migrate, Goto, Locked
        <5>2. setting # None /\ setting \in Setting
          BY <5>1 DEF MigratedRow, TypeOK
        <5>3. setting' = [setting EXCEPT !.interval = 30, !.pages = 1]
          BY <5>1, <5>2 DEF MigratedRow
        <5>4. setting'.pages = 1
          BY <5>2, <5>3 DEF Setting
        <5> QED BY <5>4 DEF Legal
      <4>2. CASE schema["app_settings"] # "old"
        <5>1. setting' = setting /\ overlap' = overlap
          BY <3>1, <4>2 DEF Migrate, Goto, Locked, history
        <5>2. schema["app_settings"] = "current"
          BY <4>2, <5>1 DEF TypeOK, Schema, Tables, Progress
        <5> QED BY <5>1, <5>2 DEF LimitKept
      <4> QED BY <4>1, <4>2
    <3>2. CASE CreateSetting(p)
      <4>1. CASE setting = None
        BY <3>2, <4>1 DEF CreateSetting, Default, Legal
      <4>2. CASE setting # None
        BY <2>0, <3>2, <4>2 DEF CreateSetting, history
      <4> QED BY <4>1, <4>2
    <3>3. CASE Start(p) \/ Lock(p) \/ Inspect(p) \/ Unlock(p) \/ FindAdmin(p)
      BY <2>0, <3>3 DEF Start, Lock, Inspect, Unlock, FindAdmin, tables, history
    <3>4. CASE InsertAdmin(p) \/ Promote(p) \/ Claim(p) \/ FindSetting(p)
      BY <2>0, <3>4 DEF InsertAdmin, Promote, Claim, FindSetting, tables, history
    <3> QED BY <2>1, <3>1, <3>2, <3>3, <3>4 DEF Work
  <2>2. ASSUME NEW p \in Processes, Fail(p) PROVE Legal(setting') \/ overlap'
    BY <2>0, <2>2 DEF Fail, tables
  <2>3. CASE Retire \/ Register
    BY <2>0, <2>3 DEF Retire, Register, tables, history
  <2>4. ASSUME NEW r \in Requests, NEW s \in Payloads, ReadSetting(r, s)
        PROVE  Legal(setting') \/ overlap'
    BY <2>0, <2>4 DEF ReadSetting, tables, history
  <2>5. ASSUME NEW r \in Requests, SaveSetting(r) PROVE Legal(setting') \/ overlap'
    <3>1. draft[r].new \in Payloads /\ draft[r].new \in Setting /\ setting \in Setting
      BY <2>5 DEF SaveSetting, RowStays, TypeOK
    <3>2. CASE setting = draft[r].read
      <4>1. setting' = draft[r].new
        BY <2>5, <3>1, <3>2, UndisturbedSave DEF SaveSetting
      <4> QED BY <3>1, <4>1
    <3>3. CASE setting # draft[r].read
      BY <2>5, <3>3, Zenon DEF SaveSetting
    <3> QED BY <3>2, <3>3
  <2>6. ASSUME NEW r \in Requests, DropRequest(r) PROVE Legal(setting') \/ overlap'
    BY <2>0, <2>6 DEF DropRequest, tables, history
  <2>7. CASE UNCHANGED vars
    BY <2>0, <2>7 DEF vars, tables, history
  <2> QED BY <2>1, <2>2, <2>3, <2>4, <2>5, <2>6, <2>7 DEF Next
<1> QED BY <1>1, <1>2, TypeCorrect, LockCorrect, StartsAreComplete, PTL DEF Spec

\* No start takes back what administrators have set.
THEOREM StartsKeepSettings == Spec => SettingsKept
<1> USE StartupAssumption
<1>1. TypeOK /\ Locked /\ [Next]_vars
      => [schema["app_settings"] = "current" /\ setting # None /\ setting' # setting
          => \E r \in Requests : draft[r] # None /\ draft'[r] = None]_vars
  <2> SUFFICES ASSUME TypeOK, Locked, Next, setting' # setting,
                      schema["app_settings"] = "current", setting # None
               PROVE  \E r \in Requests : draft[r] # None /\ draft'[r] = None
    OBVIOUS
  <2> USE DEF tables, history
  <2>1. ASSUME NEW p \in Processes, Work(p) PROVE FALSE
    <3>1. CASE Migrate(p)
      BY <3>1 DEF Migrate, Goto, Locked
    <3>2. CASE CreateSetting(p)
      BY <3>2 DEF CreateSetting
    <3>3. CASE Start(p) \/ Lock(p) \/ Inspect(p) \/ Unlock(p) \/ FindAdmin(p)
      BY <3>3 DEF Start, Lock, Inspect, Unlock, FindAdmin
    <3>4. CASE InsertAdmin(p) \/ Promote(p) \/ Claim(p) \/ FindSetting(p)
      BY <3>4 DEF InsertAdmin, Promote, Claim, FindSetting
    <3> QED BY <2>1, <3>1, <3>2, <3>3, <3>4 DEF Work
  <2>2. ASSUME NEW p \in Processes, Fail(p) PROVE FALSE
    BY <2>2 DEF Fail
  <2>3. ~Retire /\ ~Register
    BY DEF Retire, Register
  <2>4. ASSUME NEW r \in Requests, NEW s \in Payloads, ReadSetting(r, s) PROVE FALSE
    BY <2>4 DEF ReadSetting
  <2>5. ASSUME NEW r \in Requests, SaveSetting(r)
        PROVE  draft[r] # None /\ draft'[r] = None
    BY <2>5 DEF SaveSetting, TypeOK
  <2>6. ASSUME NEW r \in Requests, DropRequest(r) PROVE FALSE
    BY <2>6 DEF DropRequest
  <2> QED BY <2>1, <2>2, <2>3, <2>4, <2>5, <2>6 DEF Next
<1> QED BY <1>1, TypeCorrect, LockCorrect, PTL DEF Spec, SettingsKept
=============================================================================

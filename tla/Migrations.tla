----------------------------- MODULE Migrations -----------------------------
(***************************************************************************)
(* The database at boot: create_app (app/__init__.py) creates what tables  *)
(* are missing, run_migrations (app/services/migrations.py) brings older   *)
(* ones up to date, one transaction a version. Every gunicorn worker does  *)
(* both; one that fails to boot halts the container, which is restarted.   *)
(***************************************************************************)
EXTENDS Integers, Tables

CONSTANTS
    Workers,            \* gunicorn workers
    Supported,          \* CURRENT_SCHEMA_VERSION
    BaseTables,         \* the tables of release 0.9.1
    Home,               \* version -> the table that has its columns, or that it adds
    Promotion,          \* the version that makes every user an administrator
    Users,
    MaxHalts, MaxEdits

Versions == 1 .. Supported
TablesOf(v) == {Home[k] : k \in 1 .. v}
AllTables == BaseTables \cup TablesOf(Supported)
Free == "free"

ASSUME SchemaAssumption ==
    /\ Supported \in Nat \ {0} /\ Promotion \in Versions
    /\ Home \in [Versions -> AllTables]
    /\ Home[Promotion] \in BaseTables
    /\ Free \notin Workers
ASSUME BoundsAssumption == MaxHalts \in Nat /\ MaxEdits \in Nat

VARIABLES
    tables,             \* tables that exist
    columns,            \* versions whose tables or columns exist
    recorded,           \* rows of schema_migrations
    users, admins,      \* users; those with is_admin
    lock,               \* the worker in a transaction
    pc, current,        \* each worker's step and the version it believes in
    halts, edits        \* bounds

schema == <<tables, columns>>
accounts == <<users, admins>>
workers == <<pc, current>>
vars == <<schema, recorded, accounts, lock, workers, halts, edits>>

-----------------------------------------------------------------------------
\* SELECT MAX(version)
Version == IF recorded = {} THEN 0 ELSE Largest(recorded)

Goto(w, step) == pc' = [pc EXCEPT ![w] = step]

\* create_all makes the missing tables one by one, with all their columns of
\* today, and alters none.
CreateTable(w) ==
    /\ pc[w] = "create" /\ lock = Free
    /\ \E t \in AllTables \ tables :
        /\ tables' = tables \cup {t}
        /\ columns' = columns \cup {v \in Versions : Home[v] = t}
    /\ UNCHANGED <<recorded, accounts, lock, workers, halts, edits>>

\* A check that refuses the supported version too.
ReadVersionBelow(w) ==
    /\ pc[w] = "create" /\ AllTables \subseteq tables
    /\ Version < Supported
    /\ current' = [current EXCEPT ![w] = Version]
    /\ Goto(w, "migrate")
    /\ UNCHANGED <<schema, recorded, accounts, lock, halts, edits>>

\* _ensure_migration_table and the version that counts from here on. A newer
\* database is refused.
ReadVersion(w) ==
    /\ pc[w] = "create" /\ AllTables \subseteq tables
    /\ Version <= Supported
    /\ current' = [current EXCEPT ![w] = Version]
    /\ Goto(w, "migrate")
    /\ UNCHANGED <<schema, recorded, accounts, lock, halts, edits>>

\* A list of migrations that starts one too late.
PendingLater(w) == {v \in Versions : v > current[w] + 1}

Pending(w) == {v \in Versions : v > current[w]}

\* BEGIN IMMEDIATE
Begin(w) ==
    /\ pc[w] = "migrate" /\ Pending(w) # {} /\ lock = Free
    /\ lock' = w
    /\ Goto(w, "apply")
    /\ UNCHANGED <<schema, recorded, accounts, current, halts, edits>>

\* A migration that leaves the users as they are.
PromoteNobody(v) == UNCHANGED admins

\* Before the version every account was an administrator.
Promote(v) ==
    admins' = IF v = Promotion /\ v \notin columns THEN users ELSE admins

\* One transaction for all pending versions.
ApplyAll(w) ==
    /\ pc[w] = "apply"
    /\ tables' = AllTables /\ columns' = columns \cup Pending(w)
    /\ Promote(Promotion)
    /\ recorded' = recorded \cup Pending(w)
    /\ current' = [current EXCEPT ![w] = Supported]
    /\ lock' = Free
    /\ Goto(w, "migrate")
    /\ UNCHANGED <<users, halts, edits>>

\* The migration, its row and the commit. The primary key refuses a version
\* that another worker has recorded since.
Apply(w) ==
    /\ pc[w] = "apply"
    /\ LET v == Least(Pending(w)) IN
        /\ v \notin recorded
        /\ tables' = tables \cup {Home[v]} /\ columns' = columns \cup {v}
        /\ Promote(v)
        /\ recorded' = recorded \cup {v}
        /\ current' = [current EXCEPT ![w] = v]
    /\ lock' = Free
    /\ Goto(w, "migrate")
    /\ UNCHANGED <<users, halts, edits>>

Serve(w) ==
    /\ pc[w] = "migrate" /\ Pending(w) = {}
    /\ Goto(w, "serving")
    /\ UNCHANGED <<schema, recorded, accounts, lock, current, halts, edits>>

Boot(w) == CreateTable(w) \/ ReadVersion(w) \/ Begin(w) \/ Apply(w) \/ Serve(w)

-----------------------------------------------------------------------------
\* Workers that end without the rollback of their transaction.
HaltedOpen ==
    /\ pc' = [w \in Workers |-> "create"] /\ current' = [w \in Workers |-> 0]
    /\ UNCHANGED <<schema, recorded, accounts, lock, edits>>

\* All workers end; what was not committed is undone.
Halted ==
    /\ lock' = Free
    /\ pc' = [w \in Workers |-> "create"] /\ current' = [w \in Workers |-> 0]
    /\ UNCHANGED <<schema, recorded, accounts, edits>>

\* A newer database; a table or a version that another worker has made in the
\* meantime.
Refused(w) ==
    \/ pc[w] = "create" /\ Version > Supported
    \/ pc[w] = "create" /\ \E k \in Workers \ {w} : pc[k] \in {"create", "migrate"}
    \/ pc[w] = "apply" /\ Least(Pending(w)) \in recorded

WorkerFails(w) ==
    /\ Refused(w)
    /\ pc[w] = "create" => halts < MaxHalts
    /\ halts' = IF pc[w] = "create" THEN halts + 1 ELSE halts
    /\ Halted

\* A stop of the container, a full disk, a lock not granted in time.
Halt ==
    /\ halts < MaxHalts /\ halts' = halts + 1
    /\ Halted

\* An administrator takes a role away, or adds a user.
EditUsers ==
    /\ \E w \in Workers : pc[w] = "serving"
    /\ edits < MaxEdits /\ edits' = edits + 1
    /\ \/ admins' \in {admins \ {u} : u \in users} /\ UNCHANGED users
       \/ \E u \in Users \ users :
            users' = users \cup {u} /\ admins' \in {admins, admins \cup {u}}
    /\ UNCHANGED <<schema, recorded, lock, workers, halts>>

-----------------------------------------------------------------------------
\* Nothing, tables left by a create_all that was stopped, the schema of a
\* release before versions, of any later one, or of one newer than this.
Init ==
    /\ \/ /\ tables \in SUBSET AllTables /\ columns = {v \in Versions : Home[v] \in tables}
          /\ recorded = {} /\ users = {} /\ admins = {}
       \/ \E n \in 0 .. Supported + 1, some \in SUBSET Users :
            /\ tables = BaseTables \cup TablesOf(IF n > Supported THEN Supported ELSE n)
            /\ columns = {v \in Versions : v <= n}
            /\ recorded = 1 .. n
            /\ users = some /\ admins = IF n >= Promotion THEN some ELSE {}
    /\ lock = Free
    /\ pc = [w \in Workers |-> "create"] /\ current = [w \in Workers |-> 0]
    /\ halts = 0 /\ edits = 0

Next ==
    \/ \E w \in Workers : Boot(w) \/ WorkerFails(w)
    \/ Halt
    \/ EditUsers

Spec == Init /\ [][Next]_vars

\* Workers go on booting; what a restart waits for has been done by another.
Fairness ==
    \A w \in Workers :
        WF_vars(Boot(w)) /\ WF_vars(pc[w] = "apply" /\ WorkerFails(w))

FairSpec == Spec /\ Fairness

-----------------------------------------------------------------------------
(* Properties.                                                             *)

\* Workers are at a step of create_app, one of them in the transaction.
TypeOK ==
    /\ tables \subseteq AllTables /\ columns \subseteq Versions
    /\ recorded \subseteq 1 .. Supported + 1
    /\ users \subseteq Users /\ admins \subseteq users
    /\ lock \in Workers \cup {Free}
    /\ pc \in [Workers -> {"create", "migrate", "apply", "serving"}]
    /\ current \in [Workers -> 0 .. Supported]
    /\ \A w \in Workers : pc[w] = "apply" <=> lock = w
    /\ halts \in 0 .. MaxHalts /\ edits \in 0 .. MaxEdits

\* The recorded versions are an unbroken series, each with its tables and
\* columns in place, and a worker that serves requests has all of them,
\* whatever database it found, wherever earlier boots were stopped and
\* whichever worker applied which version.
SchemaComplete ==
    /\ recorded = 1 .. Version
    /\ \A v \in recorded \cap Versions : v \in columns /\ Home[v] \in tables
    /\ \A w \in Workers : pc[w] = "serving" => Version = Supported

\* Every account of a release without roles comes out of the upgrade as an
\* administrator, wherever it was interrupted, until somebody edits the users.
RolesUpgraded == Promotion \in recorded /\ edits = 0 => admins = users

\* The schema follows SchemaVersion: one version at a time, never back.
Abstract == INSTANCE SchemaVersion WITH version <- Version
Refines == Abstract!Spec

\* Every worker ends up serving a database that is not newer, although each
\* failure of one halts them all.
Boots == <>[](Version <= Supported => \A w \in Workers : pc[w] = "serving")
=============================================================================

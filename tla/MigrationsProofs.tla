--------------------------- MODULE MigrationsProofs ---------------------------
(***************************************************************************)
(* Proofs about Migrations, for any number of versions, tables, users and  *)
(* workers: types, the completeness of the recorded schema, the roles of   *)
(* upgraded accounts, and that it implements SchemaVersion.                *)
(*                                                                         *)
(* The inductive invariant says what a worker's own view of the version,   *)
(* read once and never again, is worth: it is never ahead of the recorded  *)
(* one, and the database it works on is never newer than the release. So   *)
(* the version that a worker applies, one after its own view, is either    *)
(* recorded already, which the primary key refuses, or the very next one.  *)
(***************************************************************************)
EXTENDS Migrations, TLAPS

\* A worker believes in no later version than the recorded one, works only on
\* a database it can read, and opens a transaction only for a pending version.
Views ==
    /\ Version \in 0 .. Supported + 1
    /\ \A w \in Workers :
        /\ current[w] <= Version
        /\ pc[w] # "create" => Version <= Supported
        /\ pc[w] = "apply" => current[w] < Supported

\* Until somebody edits the users, a database with accounts has the tables of
\* the first release, so that create_all adds no column to them, and accounts
\* that have the column of roles are administrators.
Roles ==
    edits = 0 /\ users # {} =>
        /\ BaseTables \subseteq tables
        /\ Promotion \in columns \cup recorded => admins = users

Inv == TypeOK /\ SchemaComplete /\ Views /\ Roles

-----------------------------------------------------------------------------
(* Arithmetic of versions.                                                 *)

\* A series of versions from 1 on ends with its largest.
LEMMA LargestOfSeries ==
    ASSUME NEW n \in Nat, n # 0
    PROVE  Largest(1 .. n) = n
<1>1. n \in 1 .. n /\ \A k \in 1 .. n : k <= n
  OBVIOUS
<1>2. ASSUME NEW m \in 1 .. n, \A k \in 1 .. n : k <= m PROVE m = n
  BY <1>1, <1>2
<1> QED
  BY <1>1, <1>2 DEF Largest

\* The version of a database that has recorded 1 .. n is n.
LEMMA VersionOfSeries ==
    ASSUME NEW n \in Nat, recorded = 1 .. n
    PROVE  Version = n
<1>1. CASE n = 0
  <2>1. recorded = {}
    BY <1>1
  <2> QED
    BY <2>1, <1>1 DEF Version
<1>2. CASE n # 0
  <2>1. recorded # {}
    <3>1. 1 \in 1 .. n
      BY <1>2
    <3> QED
      BY <3>1
  <2> QED
    BY <2>1, <1>2, LargestOfSeries DEF Version
<1> QED
  BY <1>1, <1>2

\* The same of the state after a step.
LEMMA VersionOfSeriesPrime ==
    ASSUME NEW n \in Nat, recorded' = 1 .. n
    PROVE  Version' = n
<1>1. CASE n = 0
  <2>1. recorded' = {}
    BY <1>1
  <2> QED
    BY <2>1, <1>1 DEF Version
<1>2. CASE n # 0
  <2>1. recorded' # {}
    <3>1. 1 \in 1 .. n
      BY <1>2
    <3> QED
      BY <3>1
  <2> QED
    BY <2>1, <1>2, LargestOfSeries DEF Version
<1> QED
  BY <1>1, <1>2

\* A worker's first pending version is the one after its view.
LEMMA FirstPending ==
    ASSUME NEW w \in Workers, current[w] \in 0 .. Supported - 1
    PROVE  Pending(w) # {} /\ Least(Pending(w)) = current[w] + 1
<1> USE SchemaAssumption
<1> DEFINE v == current[w] + 1
<1>1. v \in Pending(w)
  BY DEF Pending, Versions
<1>2. \A k \in Pending(w) : k \in Int /\ v <= k
  BY DEF Pending, Versions
<1>3. ASSUME NEW m \in Pending(w), \A k \in Pending(w) : m <= k PROVE m = v
  BY <1>1, <1>2, <1>3
<1> QED
  BY <1>1, <1>2, <1>3 DEF Least

-----------------------------------------------------------------------------
(* The initial states.                                                     *)

LEMMA InitInv == Init => Inv
<1> USE SchemaAssumption, BoundsAssumption
<1> SUFFICES ASSUME Init PROVE Inv
  OBVIOUS
<1>1. CASE recorded = {} /\ users = {} /\ admins = {} /\ tables \in SUBSET AllTables
           /\ columns = {v \in Versions : Home[v] \in tables}
  <2>1. Version = 0
    BY <1>1 DEF Version
  <2>2. recorded = 1 .. Version
    BY <1>1, <2>1
  <2>3. TypeOK
    BY <1>1 DEF TypeOK, Init
  <2>4. SchemaComplete
    BY <1>1, <2>2 DEF SchemaComplete, Init
  <2>5. Views
    BY <2>1 DEF Views, Init
  <2>6. Roles
    BY <1>1 DEF Roles
  <2> QED
    BY <2>3, <2>4, <2>5, <2>6 DEF Inv
<1>2. ASSUME NEW n \in 0 .. Supported + 1, NEW some \in SUBSET Users,
             tables = BaseTables \cup TablesOf(IF n > Supported THEN Supported ELSE n),
             columns = {v \in Versions : v <= n},
             recorded = 1 .. n,
             users = some, admins = IF n >= Promotion THEN some ELSE {}
      PROVE  Inv
  <2>1. Version = n
    BY <1>2, VersionOfSeries
  <2>2. \A v \in Versions : v <= n => Home[v] \in tables
    <3> SUFFICES ASSUME NEW v \in Versions, v <= n PROVE Home[v] \in tables
      OBVIOUS
    <3>1. v \in 1 .. (IF n > Supported THEN Supported ELSE n)
      BY DEF Versions
    <3> QED
      BY <3>1, <1>2 DEF TablesOf
  <2>3. tables \subseteq AllTables
    BY <1>2 DEF TablesOf, AllTables, Versions
  <2>4. TypeOK
    BY <1>2, <2>3 DEF TypeOK, Init
  <2>5. SchemaComplete
    <3>1. \A v \in recorded \cap Versions : v \in columns /\ Home[v] \in tables
      BY <1>2, <2>2 DEF Versions
    <3> QED
      BY <3>1, <1>2, <2>1 DEF SchemaComplete, Init
  <2>6. Views
    BY <2>1 DEF Views, Init
  <2>7. Roles
    <3>1. BaseTables \subseteq tables
      BY <1>2
    <3>2. Promotion \in columns \cup recorded => admins = users
      BY <1>2 DEF Versions
    <3> QED
      BY <3>1, <3>2 DEF Roles
  <2> QED
    BY <2>4, <2>5, <2>6, <2>7 DEF Inv
<1> QED
  BY <1>1, <1>2 DEF Init

-----------------------------------------------------------------------------
(* The steps.                                                              *)

\* Steps that record no version keep the version, whatever workers do.
LEMMA VersionKept == recorded' = recorded => Version' = Version
BY DEF Version

\* Steps that leave the schema, the users and the edits as they are have to
\* keep only the types and the views of the workers.
LEMMA WorkerStepInv ==
    ASSUME Inv, UNCHANGED <<schema, recorded, accounts, edits>>, TypeOK',
           \A w \in Workers :
               /\ current'[w] <= Version
               /\ pc'[w] # "create" => Version <= Supported
               /\ pc'[w] = "apply" => current'[w] < Supported
               /\ pc'[w] = "serving" => Version = Supported
    PROVE  Inv'
<1>1. Version' = Version
  BY VersionKept
<1>2. SchemaComplete'
  BY <1>1 DEF Inv, SchemaComplete, schema
<1>3. Views'
  BY <1>1 DEF Inv, Views
<1>4. Roles'
  BY DEF Inv, Roles, schema, accounts
<1> QED
  BY <1>2, <1>3, <1>4 DEF Inv

LEMMA ReadVersionInv == ASSUME Inv, NEW w \in Workers, ReadVersion(w) PROVE Inv'
<1>1. TypeOK'
  BY DEF Inv, TypeOK, Views, ReadVersion, Goto, schema, accounts
<1>2. ASSUME NEW k \in Workers
      PROVE  /\ current'[k] <= Version
             /\ pc'[k] # "create" => Version <= Supported
             /\ pc'[k] = "apply" => current'[k] < Supported
             /\ pc'[k] = "serving" => Version = Supported
  BY DEF Inv, TypeOK, Views, SchemaComplete, ReadVersion, Goto
<1> QED
  BY <1>1, <1>2, WorkerStepInv DEF ReadVersion, schema, accounts

LEMMA BeginInv == ASSUME Inv, NEW w \in Workers, Begin(w) PROVE Inv'
<1> USE SchemaAssumption
<1>1. TypeOK'
  BY DEF Inv, TypeOK, Begin, Goto, schema, accounts
<1>2. current[w] < Supported
  BY DEF Inv, TypeOK, Begin, Pending, Versions
<1>3. ASSUME NEW k \in Workers
      PROVE  /\ current'[k] <= Version
             /\ pc'[k] # "create" => Version <= Supported
             /\ pc'[k] = "apply" => current'[k] < Supported
             /\ pc'[k] = "serving" => Version = Supported
  BY <1>2 DEF Inv, TypeOK, Views, SchemaComplete, Begin, Goto
<1> QED
  BY <1>1, <1>3, WorkerStepInv DEF Begin, schema, accounts

LEMMA ServeInv == ASSUME Inv, NEW w \in Workers, Serve(w) PROVE Inv'
<1> USE SchemaAssumption
<1>1. TypeOK'
  BY DEF Inv, TypeOK, Serve, Goto, schema, accounts
<1>2. Version = Supported
  <2>1. current[w] >= Supported
    <3>1. Supported \in Versions /\ current[w] \in 0 .. Supported
      BY DEF Inv, TypeOK, Versions
    <3>2. ~(Supported > current[w])
      BY <3>1 DEF Serve, Pending
    <3> QED
      BY <3>1, <3>2
  <2>2. current[w] <= Version /\ Version <= Supported /\ Version \in Int /\ current[w] \in Int
    BY DEF Inv, TypeOK, Views, Serve
  <2> QED
    BY <2>1, <2>2
<1>3. ASSUME NEW k \in Workers
      PROVE  /\ current'[k] <= Version
             /\ pc'[k] # "create" => Version <= Supported
             /\ pc'[k] = "apply" => current'[k] < Supported
             /\ pc'[k] = "serving" => Version = Supported
  BY <1>2 DEF Inv, TypeOK, Views, SchemaComplete, Serve, Goto
<1> QED
  BY <1>1, <1>3, WorkerStepInv DEF Serve, schema, accounts

\* The stop of all workers, for whatever reason.
LEMMA HaltedInv == ASSUME Inv, Halted, halts' \in 0 .. MaxHalts PROVE Inv'
<1>1. TypeOK'
  BY SchemaAssumption DEF Inv, TypeOK, Halted, schema, accounts
<1>2. ASSUME NEW k \in Workers
      PROVE  /\ current'[k] <= Version
             /\ pc'[k] # "create" => Version <= Supported
             /\ pc'[k] = "apply" => current'[k] < Supported
             /\ pc'[k] = "serving" => Version = Supported
  BY DEF Inv, Views, Halted
<1> QED
  BY <1>1, <1>2, WorkerStepInv DEF Halted, schema, accounts

LEMMA CreateTableInv == ASSUME Inv, NEW w \in Workers, CreateTable(w) PROVE Inv'
<1> USE SchemaAssumption
<1>1. PICK t \in AllTables \ tables :
        tables' = tables \cup {t} /\ columns' = columns \cup {v \in Versions : Home[v] = t}
  BY DEF CreateTable
<1>2. TypeOK'
  BY <1>1 DEF Inv, TypeOK, CreateTable, workers, accounts
<1>3. Version' = Version /\ recorded' = recorded
  BY VersionKept DEF CreateTable
<1>4. SchemaComplete'
  BY <1>1, <1>3 DEF Inv, SchemaComplete, CreateTable, workers
<1>5. Views'
  BY <1>3 DEF Inv, Views, CreateTable, workers
<1>6. Roles'
  <2> SUFFICES ASSUME edits = 0, users # {}
               PROVE  /\ BaseTables \subseteq tables'
                      /\ Promotion \in columns' \cup recorded => admins = users
    BY <1>3 DEF Roles, CreateTable, accounts
  <2>1. BaseTables \subseteq tables /\ (Promotion \in columns \cup recorded => admins = users)
    BY DEF Inv, Roles
  <2>2. Home[Promotion] # t
    BY <1>1, <2>1
  <2> QED
    BY <1>1, <2>1, <2>2
<1> QED
  BY <1>2, <1>4, <1>5, <1>6 DEF Inv

\* The version applied is the next one, and it was not there.
LEMMA ApplyNext ==
    ASSUME Inv, NEW w \in Workers, Apply(w)
    PROVE  /\ Version < Supported
           /\ Least(Pending(w)) = Version + 1
           /\ recorded' = 1 .. Version + 1
           /\ Version' = Version + 1
<1> USE SchemaAssumption
<1> DEFINE v == Least(Pending(w))
<1>1. current[w] \in 0 .. Supported - 1
  BY DEF Inv, TypeOK, Views, Apply
<1>2. v = current[w] + 1
  BY <1>1, FirstPending
<1>3. v \notin recorded /\ recorded' = recorded \cup {v}
  BY DEF Apply
<1>4. Version \in Nat /\ recorded = 1 .. Version /\ current[w] <= Version
  BY DEF Inv, Views, SchemaComplete
<1>5. v = Version + 1
  BY <1>1, <1>2, <1>3, <1>4
<1>6. recorded' = 1 .. Version + 1
  <2>1. (1 .. Version) \cup {Version + 1} = 1 .. Version + 1
    BY <1>4
  <2> QED
    BY <2>1, <1>3, <1>4, <1>5
<1>7. Version' = Version + 1
  BY <1>4, <1>6, VersionOfSeriesPrime
<1>8. Version < Supported
  BY <1>1, <1>2, <1>4, <1>5
<1> QED
  BY <1>5, <1>6, <1>7, <1>8

LEMMA ApplyInv == ASSUME Inv, NEW w \in Workers, Apply(w) PROVE Inv'
<1> USE SchemaAssumption
<1> DEFINE v == Least(Pending(w))
<1>1. Version < Supported /\ v = Version + 1 /\ recorded' = 1 .. v /\ Version' = v
  BY ApplyNext
<1>2. Version \in Nat /\ v \in Versions
  BY <1>1 DEF Inv, Views, Versions
<1>3. /\ tables' = tables \cup {Home[v]} /\ columns' = columns \cup {v}
      /\ recorded' = recorded \cup {v} /\ v \notin recorded
      /\ current' = [current EXCEPT ![w] = v] /\ pc' = [pc EXCEPT ![w] = "migrate"]
      /\ lock' = Free
      /\ admins' = IF v = Promotion /\ v \notin columns THEN users ELSE admins
      /\ UNCHANGED <<users, halts, edits>> /\ pc[w] = "apply"
  BY DEF Apply, Promote, Goto
<1>4. TypeOK'
  <2>1. tables' \subseteq AllTables /\ columns' \subseteq Versions
    BY <1>2, <1>3 DEF Inv, TypeOK
  <2>2. recorded' \subseteq 1 .. Supported + 1 /\ current' \in [Workers -> 0 .. Supported]
    BY <1>1, <1>2, <1>3 DEF Inv, TypeOK, Versions
  <2>3. users' \subseteq Users /\ admins' \subseteq users'
    BY <1>3 DEF Inv, TypeOK
  <2>4. /\ lock' \in Workers \cup {Free}
        /\ pc' \in [Workers -> {"create", "migrate", "apply", "serving"}]
        /\ \A k \in Workers : pc'[k] = "apply" <=> lock' = k
    BY <1>3 DEF Inv, TypeOK
  <2>5. halts' \in 0 .. MaxHalts /\ edits' \in 0 .. MaxEdits
    BY <1>3 DEF Inv, TypeOK
  <2> QED
    BY <2>1, <2>2, <2>3, <2>4, <2>5 DEF TypeOK
<1>5. SchemaComplete'
  <2>1. \A k \in recorded' \cap Versions : k \in columns' /\ Home[k] \in tables'
    BY <1>3 DEF Inv, SchemaComplete
  <2>2. \A k \in Workers : pc'[k] # "serving"
    BY <1>1, <1>2, <1>3 DEF Inv, TypeOK, SchemaComplete
  <2> QED
    BY <1>1, <2>1, <2>2 DEF SchemaComplete
<1>6. Views'
  <2>1. ASSUME NEW k \in Workers
        PROVE  /\ current'[k] <= v
               /\ pc'[k] # "create" => v <= Supported
               /\ pc'[k] = "apply" => current'[k] < Supported
    BY <1>1, <1>2, <1>3 DEF Inv, TypeOK, Views, Versions
  <2> QED
    BY <1>1, <1>2, <2>1 DEF Views, Versions
<1>7. Roles'
  BY <1>3 DEF Inv, Roles
<1> QED
  BY <1>4, <1>5, <1>6, <1>7 DEF Inv

LEMMA EditUsersInv == ASSUME Inv, EditUsers PROVE Inv'
<1> USE BoundsAssumption
<1>1. edits' \in 1 .. MaxEdits
  BY DEF EditUsers, Inv, TypeOK
<1>2. users' \subseteq Users /\ admins' \subseteq users'
  BY DEF EditUsers, Inv, TypeOK
<1>3. TypeOK'
  BY <1>1, <1>2 DEF EditUsers, Inv, TypeOK, schema, workers
<1>4. Version' = Version
  BY VersionKept DEF EditUsers
<1>5. SchemaComplete'
  BY <1>4 DEF Inv, SchemaComplete, EditUsers, schema, workers
<1>6. Views'
  BY <1>4 DEF Inv, Views, EditUsers, workers
<1>7. Roles'
  BY <1>1 DEF Roles
<1> QED
  BY <1>3, <1>5, <1>6, <1>7 DEF Inv

LEMMA StepInv == Inv /\ [Next]_vars => Inv'
<1> SUFFICES ASSUME Inv, [Next]_vars PROVE Inv'
  OBVIOUS
<1>1. ASSUME NEW w \in Workers, Boot(w) PROVE Inv'
  BY <1>1, CreateTableInv, ReadVersionInv, BeginInv, ApplyInv, ServeInv DEF Boot
<1>2. ASSUME NEW w \in Workers, WorkerFails(w) PROVE Inv'
  <2>1. halts' \in 0 .. MaxHalts
    BY <1>2, BoundsAssumption DEF WorkerFails, Inv, TypeOK
  <2> QED
    BY <1>2, <2>1, HaltedInv DEF WorkerFails
<1>3. CASE Halt
  <2>1. halts' \in 0 .. MaxHalts
    BY <1>3, BoundsAssumption DEF Halt, Inv, TypeOK
  <2> QED
    BY <1>3, <2>1, HaltedInv DEF Halt
<1>4. CASE EditUsers
  BY <1>4, EditUsersInv
<1>5. CASE UNCHANGED vars
  <2>1. Version' = Version
    BY <1>5, VersionKept DEF vars
  <2>2. TypeOK' /\ SchemaComplete' /\ Views' /\ Roles'
    BY <1>5, <2>1 DEF Inv, TypeOK, SchemaComplete, Views, Roles, vars, schema, accounts, workers
  <2> QED
    BY <2>2 DEF Inv
<1> QED
  BY <1>1, <1>2, <1>3, <1>4, <1>5 DEF Next

LEMMA Invariant == Spec => []Inv
BY InitInv, StepInv, PTL DEF Spec

-----------------------------------------------------------------------------
(* The theorems.                                                           *)

\* Workers are at a step of create_app, at most one of them in a transaction.
THEOREM TypeCorrect == Spec => []TypeOK
<1>1. Inv => TypeOK
  BY DEF Inv
<1> QED
  BY <1>1, Invariant, PTL

\* run_migrations: the recorded versions are an unbroken series that is in
\* place, and only a complete schema is served, for any number of versions,
\* workers and stops.
THEOREM SchemaIsComplete == Spec => []SchemaComplete
<1>1. Inv => SchemaComplete
  BY DEF Inv
<1> QED
  BY <1>1, Invariant, PTL

\* The promotion of version 9 makes every account an administrator, however
\* often it was interrupted and whichever worker completed it.
THEOREM RolesAreUpgraded == Spec => []RolesUpgraded
<1>1. Inv => RolesUpgraded
  BY DEF Inv, Roles, TypeOK, RolesUpgraded
<1> QED
  BY <1>1, Invariant, PTL

\* Every step of the boot is a migration of SchemaVersion by one version, or
\* leaves the version alone.
LEMMA StepRefines ==
    ASSUME Inv, Next
    PROVE  (Version < Supported /\ Version' = Version + 1) \/ Version' = Version
<1>1. ASSUME NEW w \in Workers, Boot(w)
      PROVE  (Version < Supported /\ Version' = Version + 1) \/ Version' = Version
  <2>1. CASE Apply(w)
    BY <2>1, ApplyNext
  <2>2. CASE ~Apply(w)
    BY <2>2, <1>1, VersionKept DEF Boot, CreateTable, ReadVersion, Begin, Serve
  <2> QED
    BY <2>1, <2>2
<1>2. ASSUME NEW w \in Workers, WorkerFails(w) PROVE Version' = Version
  BY <1>2, VersionKept DEF WorkerFails, Halted
<1>3. CASE Halt
  BY <1>3, VersionKept DEF Halt, Halted
<1>4. CASE EditUsers
  BY <1>4, VersionKept DEF EditUsers
<1> QED
  BY <1>1, <1>2, <1>3, <1>4 DEF Next

\* The boots of all workers implement SchemaVersion: the schema moves up one
\* version at a time and never back.
THEOREM MigrationsRefine == Spec => Refines
<1>1. Inv => Version \in 0 .. Supported + 1
  BY DEF Inv, Views
<1>2. Init => Abstract!Init
  BY <1>1, InitInv DEF Abstract!Init
<1>3. Inv /\ [Next]_vars => [Abstract!Migrate]_Version
  <2> SUFFICES ASSUME Inv, [Next]_vars PROVE Abstract!Migrate \/ Version' = Version
    OBVIOUS
  <2>1. CASE Next
    BY <2>1, StepRefines DEF Abstract!Migrate
  <2>2. CASE UNCHANGED vars
    BY <2>2, VersionKept DEF vars
  <2> QED
    BY <2>1, <2>2
<1> QED
  BY <1>2, <1>3, Invariant, PTL DEF Spec, Refines, Abstract!Spec
=============================================================================

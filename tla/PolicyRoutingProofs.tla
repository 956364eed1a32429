------------------------ MODULE PolicyRoutingProofs ------------------------
(* Theorems about PolicyRouting for any numbers of groups, clients, profiles *)
(* and concurrent callers, and any bounds on the environment.                *)
EXTENDS PolicyRouting, FiniteSetTheorems, TLAPS

-----------------------------------------------------------------------------
(* Type correctness.                                                         *)

\* The default route a rebuild computes is a route.
LEMMA RouteForType ==
    ASSUME NEW p \in Profiles \cup {NoProfile}, NEW f \in FallbackModes,
           NEW up \in SUBSET Profiles
    PROVE  RouteFor(p, f, up) \in Routes
BY DEF RouteFor, Routes

\* The effective assignments name groups or nothing.
LEMMA EffectiveType == TypeOK => Effective \in [Clients -> Groups \cup {NoGroup}]
BY DEF TypeOK, Effective

LEMMA EmptySnapType == EmptySnap \in SnapType
BY DEF EmptySnap, SnapType, FallbackModes

\* Writing one field of an actor's snapshot keeps its type.
LEMMA SnapGroupsType ==
    ASSUME NEW s \in SnapType, NEW G \in SUBSET Groups
    PROVE  [s EXCEPT !.groups = G] \in SnapType
BY DEF SnapType

LEMMA SnapAssignedType ==
    ASSUME NEW s \in SnapType, NEW A \in [Clients -> Groups \cup {NoGroup}]
    PROVE  [s EXCEPT !.assigned = A] \in SnapType
BY DEF SnapType

LEMMA SnapConfigType ==
    ASSUME NEW s \in SnapType, NEW G \in SUBSET Groups,
           NEW P \in [Groups -> Profiles \cup {NoProfile}], NEW F \in [Groups -> FallbackModes]
    PROVE  [s EXCEPT !.groups = G, !.vpn = P, !.fb = F] \in SnapType
BY DEF SnapType

\* The initial states are well typed.
LEMMA TypeInit == Init => TypeOK
<1> SUFFICES ASSUME Init PROVE TypeOK
    OBVIOUS
<1>1. assigned \in [Clients -> Groups \cup {NoGroup}]
    BY DEF Init
<1>2. snap \in [Actors -> SnapType]
    BY EmptySnapType DEF Init
<1>3. /\ pc \in [Actors -> OutsideSteps \cup EngineSteps]
      /\ cause \in [Actors -> Causes \cup {"none"}]
    BY DEF Init, OutsideSteps
<1>4. todo \in [Actors -> SUBSET Groups] /\ route \in [Actors -> Routes]
    BY DEF Init, Routes
<1>5. /\ rules \in [Groups -> Nat] /\ marks \in [Groups -> Nat] /\ loads \in Nat
      /\ sets \in [Groups -> SUBSET Clients]
      /\ table \in [Groups -> {"none", "blackhole", "wan"} \cup dev]
    BY DEF Init
<1>6. /\ groups \subseteq Groups /\ conn \subseteq dev /\ dev \subseteq Profiles
      /\ vpnProfile \in [Groups -> Profiles \cup {NoProfile}]
      /\ fallback \in [Groups -> FallbackModes]
      /\ override \in [Clients -> Groups \cup {NoGroup}]
    BY DEF Init
<1>7. /\ booted \in BOOLEAN /\ missed \in BOOLEAN
      /\ edits \in Nat /\ tunnelEvents \in Nat /\ faults \in Nat /\ restarts \in Nat
      /\ pure \in Actors \cup {NoActor} /\ settled \in {"no", "routes", "all"}
    BY DEF Init
<1> QED
    BY <1>1, <1>2, <1>3, <1>4, <1>5, <1>6, <1>7 DEF TypeOK

\* The ways an engine call ends keep the types.
LEMMA TypeRelease ==
    ASSUME TypeOK, NEW a \in Actors, Release(a)
    PROVE  /\ snap' \in [Actors -> SnapType] /\ todo' \in [Actors -> SUBSET Groups]
           /\ route' \in [Actors -> Routes] /\ cause' \in [Actors -> Causes \cup {"none"}]
BY EmptySnapType DEF TypeOK, Release, Routes

CallType ==
    /\ pc \in [Actors -> OutsideSteps \cup EngineSteps]
    /\ cause \in [Actors -> Causes \cup {"none"}]
    /\ snap \in [Actors -> SnapType]
    /\ todo \in [Actors -> SUBSET Groups]
    /\ route \in [Actors -> Routes]
    /\ pure \in Actors \cup {NoActor} /\ settled \in {"no", "routes", "all"}

LEMMA TypeComplete ==
    ASSUME TypeOK, NEW a \in Actors, Complete(a)
    PROVE  CallType'
<1>1. /\ pc' \in [Actors -> OutsideSteps \cup EngineSteps]
      /\ pure' \in Actors \cup {NoActor} /\ settled' \in {"no", "routes", "all"}
    BY DEF TypeOK, Complete, Goto, OutsideSteps, history
<1> QED
    BY <1>1, TypeRelease DEF Complete, CallType

LEMMA TypeAbort ==
    ASSUME TypeOK, NEW a \in Actors, Abort(a)
    PROVE  CallType'
<1>1. /\ pc' \in [Actors -> OutsideSteps \cup EngineSteps]
      /\ pure' \in Actors \cup {NoActor} /\ settled' \in {"no", "routes", "all"}
    BY DEF TypeOK, Abort, Goto, Disturb, OutsideSteps
<1> QED
    BY <1>1, TypeRelease DEF Abort, CallType

\* Every step inside an engine call keeps the types.
LEMMA TypeEngine ==
    ASSUME TypeOK, NEW a \in Actors, EngineStep(a)
    PROVE  TypeOK'
<1> USE DEF TypeOK, Goto, Disturb, db, tunnels, policy, filter, poll, bounds, history
<1>1. CASE ReadGroups(a)
    <2>1. snap' \in [Actors -> SnapType]
        BY <1>1, SnapConfigType DEF ReadGroups
    <2> QED
        BY <1>1, <2>1 DEF ReadGroups, BeginRebuild, EngineSteps, RebuildSteps
<1>2. CASE ReadAssignments(a)
    <2>1. snap' \in [Actors -> SnapType]
        BY <1>2, EffectiveType, SnapAssignedType DEF ReadAssignments
    <2> QED
        BY <1>2, <2>1 DEF ReadAssignments, EngineSteps, RebuildSteps
<1>3. CASE CleanupStale(a)
    <2>1. snap[a].groups \in SUBSET Groups
        BY DEF SnapType
    <2> QED
        BY <1>3, <2>1 DEF CleanupStale, EngineSteps, RebuildSteps
<1>4. CASE CleanupUnreadable(a)
    <2>1. snap[a].groups \in SUBSET Groups
        BY DEF SnapType
    <2> QED
        BY <1>4, <2>1 DEF CleanupUnreadable, EngineSteps, RebuildSteps
<1>5. CASE FlushNext(a)
    BY <1>5 DEF FlushNext, FlushGroupRule, FlushTries
<1>6. CASE FlushDone(a)
    <2>1. snap[a].groups \in SUBSET Groups
        BY DEF SnapType
    <2> QED
        BY <1>6, <2>1 DEF FlushDone, EngineSteps, RebuildSteps
<1>7. CASE ReadStatus(a)
    <2>1. PICK g \in todo[a] :
              route' = [route EXCEPT ![a] = RouteFor(snap[a].vpn[g], snap[a].fb[g], conn)]
        BY <1>7 DEF ReadStatus
    <2>2. snap[a].vpn[g] \in Profiles \cup {NoProfile} /\ snap[a].fb[g] \in FallbackModes
        BY DEF SnapType
    <2>3. route' \in [Actors -> Routes]
        BY <2>1, <2>2, RouteForType
    <2> QED
        BY <1>7, <2>3 DEF ReadStatus, EngineSteps, RebuildSteps
<1>8. CASE ReplaceRoute(a)
    BY <1>8 DEF ReplaceRoute, EngineSteps, RebuildSteps
<1>9. CASE RouteRefused(a)
    BY <1>9, TypeAbort DEF RouteRefused, CallType
<1>10. CASE AddRule(a)
    BY <1>10 DEF AddRule, EngineSteps, RebuildSteps, Routes
<1>11. CASE RuleRefused(a)
    BY <1>11, TypeAbort DEF RuleRefused, CallType
<1>12. CASE DeleteNftTable(a)
    BY <1>12 DEF DeleteNftTable, EngineSteps, RebuildSteps
<1>13. CASE LoadNftTable(a)
    <2>1. sets' \in [Groups -> SUBSET Clients]
        BY <1>13 DEF LoadNftTable, Members
    <2>2. marks' \in [Groups -> Nat] /\ loads' \in Nat
        BY <1>13 DEF LoadNftTable
    <2> QED
        BY <1>13, <2>1, <2>2, TypeComplete DEF LoadNftTable, CallType
<1>14. CASE ApplyReadGroups(a)
    <2>1. snap' \in [Actors -> SnapType]
        BY <1>14, SnapGroupsType DEF ApplyReadGroups
    <2> QED
        BY <1>14, <2>1 DEF ApplyReadGroups, BeginApply, EngineSteps, ApplySteps
<1>15. CASE ApplyReadAssignments(a)
    <2>1. snap' \in [Actors -> SnapType]
        BY <1>15, EffectiveType, SnapAssignedType DEF ApplyReadAssignments
    <2>2. snap[a].groups \in SUBSET Groups
        BY DEF SnapType
    <2> QED
        BY <1>15, <2>1, <2>2 DEF ApplyReadAssignments, EngineSteps, ApplySteps
<1>16. CASE FlushSet(a)
    <2>1. PICK g \in todo[a] :
              /\ sets' = [sets EXCEPT ![g] = {}]
              /\ IF Members(a, g) = {}
                 THEN todo' = [todo EXCEPT ![a] = @ \ {g}] /\ UNCHANGED pc
                 ELSE Goto(a, "ap_add") /\ UNCHANGED todo
        BY <1>16 DEF FlushSet
    <2> QED
        BY <1>16, <2>1 DEF FlushSet, EngineSteps, ApplySteps
<1>17. CASE SetMissing(a)
    <2>1. snap' \in [Actors -> SnapType]
        BY <1>17, EmptySnapType DEF SetMissing
    <2> QED
        BY <1>17, <2>1 DEF SetMissing, OutsideSteps
<1>18. CASE AddElements(a)
    <2>1. sets' \in [Groups -> SUBSET Clients]
        BY <1>18 DEF AddElements, Members
    <2> QED
        BY <1>18, <2>1 DEF AddElements, EngineSteps, ApplySteps
<1>19. CASE ElementsRefused(a)
    BY <1>19, TypeAbort DEF ElementsRefused, CallType
<1>20. CASE ApplyDone(a)
    BY <1>20, TypeComplete DEF ApplyDone, CallType
<1>21. CASE CommandFails(a)
    BY <1>21, TypeAbort DEF CommandFails, CallType
<1> QED
    BY <1>1, <1>2, <1>3, <1>4, <1>5, <1>6, <1>7, <1>8, <1>9, <1>10, <1>11, <1>12, <1>13,
       <1>14, <1>15, <1>16, <1>17, <1>18, <1>19, <1>20, <1>21 DEF EngineStep

LEMMA TypeReconciler ==
    ASSUME TypeOK, ReconcilerStep
    PROVE  TypeOK'
<1> USE DEF TypeOK, Goto, db, tunnels, policy, filter, poll, bounds, history, Actors
<1>1. CASE BootRebuild
    BY <1>1 DEF BootRebuild, OutsideSteps, Causes
<1>2. CASE StartReconciler
    BY <1>2 DEF StartReconciler, OutsideSteps
<1>3. CASE ReconcilerTick
    BY <1>3 DEF ReconcilerTick, OutsideSteps, Causes
<1>4. CASE CommitSignature
    BY <1>4 DEF CommitSignature, OutsideSteps
<1>5. CASE HealthFails
    BY <1>5 DEF HealthFails, OutsideSteps
<1> QED
    BY <1>1, <1>2, <1>3, <1>4, <1>5 DEF ReconcilerStep

LEMMA TypeHandler ==
    ASSUME TypeOK, NEW h \in Handlers, HandlerStep(h)
    PROVE  TypeOK'
<1> USE DEF TypeOK, Goto, Disturb, db, tunnels, policy, filter, poll, bounds, history, Actors
<1>1. CASE EditGroup(h)
    BY <1>1 DEF EditGroup, Edit, Then, OutsideSteps, Causes
<1>2. CASE CreateGroup(h)
    BY <1>2 DEF CreateGroup, Edit, Then, OutsideSteps, Causes
<1>3. CASE DeleteGroup(h)
    <2>1. PICK g \in groups : FlushGroupRule(g) /\ todo' = [todo EXCEPT ![h] = {g}]
        BY <1>3 DEF DeleteGroup
    <2>2. rules' \in [Groups -> Nat] /\ table' \in [Groups -> {"none", "blackhole", "wan"} \cup dev]
        BY <2>1 DEF FlushGroupRule, FlushTries
    <2>3. /\ pc' \in [Actors -> OutsideSteps \cup EngineSteps]
          /\ cause' \in [Actors -> Causes \cup {"none"}]
        BY <1>3 DEF DeleteGroup, Then, OutsideSteps, Causes
    <2>4. todo' \in [Actors -> SUBSET Groups]
        BY <2>1
    <2> QED
        BY <1>3, <2>1, <2>2, <2>3, <2>4 DEF DeleteGroup, Edit
<1>4. CASE DeleteCommit(h)
    <2>1. fallback' \in [Groups -> FallbackModes]
        BY <1>4 DEF DeleteCommit, FallbackModes
    <2>2. vpnProfile' \in [Groups -> Profiles \cup {NoProfile}]
        BY <1>4 DEF DeleteCommit
    <2>3. pc' \in [Actors -> OutsideSteps \cup EngineSteps]
        BY <1>4 DEF DeleteCommit, OutsideSteps
    <2>4. todo' \in [Actors -> SUBSET Groups] /\ groups' \subseteq Groups
        BY <1>4 DEF DeleteCommit
    <2> QED
        BY <1>4, <2>1, <2>2, <2>3, <2>4 DEF DeleteCommit
<1>5. CASE ChooseGroup(h)
    BY <1>5 DEF ChooseGroup, Edit, OutsideSteps
<1>6. CASE AssignClient(h)
    BY <1>6 DEF AssignClient, Commit, Then, Reassigned, OutsideSteps, Causes
<1>7. CASE OverrideClient(h)
    BY <1>7 DEF OverrideClient, Commit, Then, Reassigned, OutsideSteps, Causes
<1>8. CASE NotReady(h)
    BY <1>8 DEF NotReady, Commit, OutsideSteps
<1>9. CASE OverrideExpires(h)
    BY <1>9 DEF OverrideExpires, Edit, Reassigned, OutsideSteps
<1>10. CASE ExpireOnce(h)
    BY <1>10 DEF ExpireOnce, Then, OutsideSteps, Causes
<1>11. CASE RebuildNow(h)
    BY <1>11 DEF RebuildNow, Edit, Then, OutsideSteps, Causes
<1> QED
    BY <1>1, <1>2, <1>3, <1>4, <1>5, <1>6, <1>7, <1>8, <1>9, <1>10, <1>11 DEF HandlerStep

LEMMA TypeEnvironment ==
    ASSUME TypeOK, Environment
    PROVE  TypeOK'
<1> USE DEF TypeOK, Disturb, db, policy, filter, call, poll, bounds, history
<1>1. CASE Restart
    <2>1. snap' \in [Actors -> SnapType]
        BY <1>1, EmptySnapType DEF Restart
    <2>2. table' \in [Groups -> {"none", "blackhole", "wan"} \cup dev']
        BY <1>1 DEF Restart, WithoutRoutesVia
    <2>3. conn' \subseteq dev' /\ dev' \subseteq Profiles
        BY <1>1 DEF Restart
    <2>4. /\ pc' \in [Actors -> OutsideSteps \cup EngineSteps]
          /\ cause' \in [Actors -> Causes \cup {"none"}]
          /\ todo' \in [Actors -> SUBSET Groups]
          /\ route' \in [Actors -> Routes]
        BY <1>1 DEF Restart, OutsideSteps, Routes
    <2>5. restarts' = restarts + 1 /\ booted' = FALSE /\ pure' = NoActor /\ settled' = "no"
        BY <1>1 DEF Restart
    <2>6. booted' \in BOOLEAN /\ missed' \in BOOLEAN
        BY <1>1, <2>5 DEF Restart
    <2>7. UNCHANGED <<db, rules, filter, edits, tunnelEvents, faults>>
        BY <1>1 DEF Restart
    <2> QED
        BY <2>1, <2>2, <2>3, <2>4, <2>5, <2>6, <2>7
<1>2. ASSUME NEW p \in Profiles, TunnelUp(p) PROVE TypeOK'
    BY <1>2 DEF TunnelUp, TunnelEvent
<1>3. ASSUME NEW p \in Profiles, TunnelStall(p) PROVE TypeOK'
    BY <1>3 DEF TunnelStall, TunnelEvent
<1>4. ASSUME NEW p \in Profiles, DeviceGone(p) PROVE TypeOK'
    <2>1. table' \in [Groups -> {"none", "blackhole", "wan"} \cup dev']
        BY <1>4 DEF DeviceGone, WithoutRoutesVia
    <2>2. conn' \subseteq dev' /\ dev' \subseteq Profiles
        BY <1>4 DEF DeviceGone
    <2>3. tunnelEvents' \in Nat /\ pure' = NoActor /\ settled' = "no"
        BY <1>4 DEF DeviceGone, TunnelEvent
    <2>4. UNCHANGED <<db, rules, filter, call, booted, edits, faults, restarts>>
        BY <1>4 DEF DeviceGone, TunnelEvent
    <2>5. missed' \in BOOLEAN
        BY <1>4 DEF DeviceGone, TunnelEvent
    <2> QED
        BY <2>1, <2>2, <2>3, <2>4, <2>5
<1> QED
    BY <1>1, <1>2, <1>3, <1>4 DEF Environment

LEMMA TypeStutter == TypeOK /\ UNCHANGED vars => TypeOK'
BY DEF TypeOK, vars, db, tunnels, policy, filter, call, poll, bounds, history

LEMMA TypeNext == TypeOK /\ [Next]_vars => TypeOK'
BY TypeEngine, TypeReconciler, TypeHandler, TypeEnvironment, TypeStutter DEF Next

\* In every reachable state, for any number of callers inside the engine, the
\* configuration, the calls and the kernel state keep their types; a table
\* never routes through an interface that does not exist.
THEOREM TypeCorrect == Spec => []TypeOK
<1>1. TypeOK /\ [Next]_vars => TypeOK'
    BY TypeNext
<1> QED
    BY TypeInit, <1>1, PTL DEF Spec

-----------------------------------------------------------------------------
(* The inductive invariant behind SettledMeansDesired: what an undisturbed   *)
(* call has already put right at each of its steps.                          *)

RouteOf(g) == RouteFor(vpnProfile[g], fallback[g], conn)
Done(g) == rules[g] > 0 /\ table[g] = RouteOf(g)
AssignedTo(g) == {c \in Clients : Effective[c] = g}

\* Rules, tables and mark rules are those of the configuration.
RoutesApplied ==
    /\ \A g \in groups : Done(g) /\ marks[g] = 1
    /\ \A g \in Groups \ groups : rules[g] = 0 /\ marks[g] = 0 /\ sets[g] = {}

TodoSteps == {"rb_flush", "rb_build", "rb_route", "rb_rule", "ap_flush", "ap_add"}
BuildSteps == {"rb_build", "rb_route", "rb_rule", "rb_nft_load"}

\* A call works through groups it has read.
CallOK == \A a \in Actors : pc[a] \in TodoSteps => todo[a] \subseteq snap[a].groups

\* An undisturbed rebuild has read the present configuration, cleaned up what
\* is stale, and built every group it is done with.
RebuildOK(a) ==
    pc[a] \in RebuildSteps =>
        /\ snap[a].groups = groups /\ snap[a].vpn = vpnProfile /\ snap[a].fb = fallback
        /\ pc[a] # "rb_assignments" => snap[a].assigned = Effective
        /\ pc[a] \in BuildSteps \cup {"rb_flush"} => \A g \in Groups \ groups : rules[g] = 0
        /\ pc[a] \in BuildSteps => \A g \in groups \ todo[a] : Done(g)
        /\ pc[a] = "rb_route" => \A g \in todo[a] : IsNext(a, g) => route[a] = RouteOf(g)
        /\ pc[a] = "rb_rule" => \A g \in todo[a] : IsNext(a, g) => table[g] = RouteOf(g)
        /\ pc[a] = "rb_nft_load" =>
            todo[a] = {} /\ loads = 0 /\ \A g \in Groups : marks[g] = 0 /\ sets[g] = {}

\* An undisturbed refresh of the sets starts from applied routes and has
\* refilled every set it is done with.
ApplyOK(a) ==
    pc[a] \in ApplySteps =>
        /\ settled = "routes" /\ snap[a].groups = groups
        /\ pc[a] # "ap_assignments" =>
            /\ snap[a].assigned = Effective
            /\ \A g \in groups \ todo[a] : sets[g] = AssignedTo(g)
        /\ pc[a] = "ap_add" => \A g \in todo[a] : IsNext(a, g) => sets[g] = {}

PureOK ==
    \A a \in Actors : pure = a =>
        pc[a] \in EngineSteps /\ Alone(a) /\ RebuildOK(a) /\ ApplyOK(a)

SettledOK ==
    /\ settled # "no" =>
        /\ RoutesApplied
        /\ \A a \in Actors :
            /\ pc[a] \notin RebuildSteps
            /\ pc[a] \in ApplySteps => snap[a].groups = groups
    /\ settled = "all" =>
        /\ \A a \in Actors : pc[a] \notin EngineSteps
        /\ \A g \in groups : sets[g] = AssignedTo(g)

IInv == TypeOK /\ CallOK /\ PureOK /\ SettledOK

\* At most one group is next.
LEMMA NextUnique ==
    ASSUME TypeOK, NEW a \in Actors, NEW g, NEW h, IsNext(a, g), IsNext(a, h)
    PROVE  g = h
BY GroupsAssumption DEF TypeOK, IsNext

LEMMA InvInit == Init => IInv
<1> SUFFICES ASSUME Init PROVE IInv
    OBVIOUS
<1>1. CallOK
    BY DEF Init, CallOK, TodoSteps
<1>2. PureOK
    BY ActorsAssumption DEF Init, PureOK
<1>3. SettledOK
    BY DEF Init, SettledOK
<1> QED
    BY <1>1, <1>2, <1>3, TypeInit DEF IInv

\* A step that disturbs leaves nothing to be kept.
LEMMA DisturbKeeps ==
    ASSUME Disturb
    PROVE  PureOK' /\ SettledOK'
BY ActorsAssumption DEF Disturb, PureOK, SettledOK

\* Only the undisturbed actor has a claim to keep: a step of an actor inside
\* the engine, which leaves the history alone, concerns no other's.
LEMMA PureIsMe ==
    ASSUME IInv, NEW a \in Actors, pc[a] \in EngineSteps, NEW b \in Actors, pure = b
    PROVE  b = a
BY DEF IInv, PureOK, Alone

\* A rebuild step keeps the invariant if it keeps its own claim.
LEMMA RebuildKeeps ==
    ASSUME IInv, NEW a \in Actors, pc[a] \in RebuildSteps,
           NEW step \in RebuildSteps, pc' = [pc EXCEPT ![a] = step], UNCHANGED history,
           pure = a => RebuildOK(a)'
    PROVE  PureOK' /\ SettledOK'
<1>1. pc[a] \in EngineSteps /\ pc'[a] = step /\ step \in EngineSteps /\ step \notin ApplySteps
    BY DEF IInv, TypeOK, EngineSteps, RebuildSteps, ApplySteps
<1>2. settled' = "no"
    BY DEF IInv, SettledOK, history
<1>3. SettledOK'
    BY <1>2 DEF SettledOK
<1>4. ASSUME NEW b \in Actors, pure' = b
      PROVE  (pc[b] \in EngineSteps /\ Alone(b) /\ RebuildOK(b) /\ ApplyOK(b))'
    <2>1. b = a
        BY <1>1, <1>4, PureIsMe DEF history
    <2>2. Alone(a)'
        <3>1. Alone(a)
            BY <1>4, <2>1 DEF IInv, PureOK, history
        <3> QED
            BY <3>1 DEF Alone, IInv, TypeOK
    <2>3. ApplyOK(a)'
        BY <1>1 DEF ApplyOK
    <2>4. RebuildOK(a)'
        BY <1>4, <2>1 DEF history
    <2> QED
        BY <1>1, <2>1, <2>2, <2>3, <2>4
<1> QED
    BY <1>3, <1>4 DEF PureOK

\* A refresh step keeps the invariant if it keeps its own claim and touches
\* only sets of groups it has read.
LEMMA ApplyKeeps ==
    ASSUME IInv, NEW a \in Actors, pc[a] \in ApplySteps,
           NEW step \in ApplySteps, pc' = [pc EXCEPT ![a] = step], UNCHANGED history,
           UNCHANGED <<db, tunnels, policy, loads, marks>>,
           \A b \in Actors : snap'[b].groups = snap[b].groups,
           \A g \in Groups \ snap[a].groups : sets'[g] = sets[g],
           pure = a => ApplyOK(a)'
    PROVE  PureOK' /\ SettledOK'
<1>1. /\ pc[a] \in EngineSteps /\ pc'[a] = step
      /\ step \in EngineSteps /\ step \notin RebuildSteps
    BY DEF IInv, TypeOK, EngineSteps, RebuildSteps, ApplySteps
<1>2. SettledOK'
    <2>1. settled # "all"
        BY <1>1 DEF IInv, SettledOK
    <2>2. ASSUME settled # "no"
          PROVE  RoutesApplied'
        <3>1. RoutesApplied /\ snap[a].groups = groups
            BY <2>2 DEF IInv, SettledOK
        <3>2. UNCHANGED <<groups, vpnProfile, fallback, conn, rules, table, marks>>
            BY DEF db, tunnels, policy
        <3>3. \A g \in Groups : Done(g)' = Done(g)
            BY <3>2 DEF Done, RouteOf
        <3>4. \A g \in groups : g \in Groups
            BY DEF IInv, TypeOK
        <3> QED
            BY <3>1, <3>2, <3>3, <3>4 DEF RoutesApplied
    <2>3. ASSUME settled # "no", NEW b \in Actors
          PROVE  /\ pc'[b] \notin RebuildSteps
                 /\ pc'[b] \in ApplySteps => snap'[b].groups = groups'
        <3>1. /\ pc[b] \notin RebuildSteps
              /\ pc[b] \in ApplySteps => snap[b].groups = groups
            BY <2>3 DEF IInv, SettledOK
        <3>2. pc'[b] = IF b = a THEN step ELSE pc[b]
            BY DEF IInv, TypeOK
        <3>3. groups' = groups /\ snap'[b].groups = snap[b].groups
            BY DEF db
        <3> QED
            BY <1>1, <3>1, <3>2, <3>3
    <2> QED
        BY <2>1, <2>2, <2>3 DEF SettledOK, history
<1>3. ASSUME NEW b \in Actors, pure' = b
      PROVE  (pc[b] \in EngineSteps /\ Alone(b) /\ RebuildOK(b) /\ ApplyOK(b))'
    <2>1. b = a
        BY <1>1, <1>3, PureIsMe DEF history
    <2>2. Alone(a)'
        <3>1. Alone(a)
            BY <1>3, <2>1 DEF IInv, PureOK, history
        <3> QED
            BY <3>1 DEF Alone, IInv, TypeOK
    <2>3. RebuildOK(a)'
        BY <1>1 DEF RebuildOK
    <2>4. ApplyOK(a)'
        BY <1>3, <2>1 DEF history
    <2> QED
        BY <1>1, <2>1, <2>2, <2>3, <2>4
<1> QED
    BY <1>2, <1>3 DEF PureOK

\* CallOK is kept by a step of actor a that keeps a's own part of it.
LEMMA CallKeeps ==
    ASSUME IInv, NEW a \in Actors,
           \A b \in Actors \ {a} : /\ pc'[b] = pc[b] /\ todo'[b] = todo[b]
                                   /\ snap'[b].groups = snap[b].groups,
           pc'[a] \in TodoSteps => todo'[a] \subseteq snap'[a].groups
    PROVE  CallOK'
BY DEF IInv, CallOK

\* What an actor's fields become under the updates the steps use.
LEMMA CallFields ==
    ASSUME TypeOK, NEW a \in Actors, NEW b \in Actors
    PROVE  /\ \A v : [pc EXCEPT ![a] = v][b] = IF b = a THEN v ELSE pc[b]
           /\ \A v : [todo EXCEPT ![a] = v][b] = IF b = a THEN v ELSE todo[b]
           /\ \A v : [route EXCEPT ![a] = v][b] = IF b = a THEN v ELSE route[b]
           /\ \A v : [snap EXCEPT ![a] = v][b] = IF b = a THEN v ELSE snap[b]
BY DEF TypeOK

LEMMA InvReadGroups ==
    ASSUME IInv, NEW a \in Actors, ReadGroups(a)
    PROVE  CallOK' /\ PureOK' /\ SettledOK'
<1>1. TypeOK
    BY DEF IInv
<1>2. /\ pc' = [pc EXCEPT ![a] = "rb_assignments"] /\ UNCHANGED todo
      /\ snap' = [snap EXCEPT ![a] =
                     [snap[a] EXCEPT !.groups = groups, !.vpn = vpnProfile, !.fb = fallback]]
    BY DEF ReadGroups, Goto
<1>3. /\ pc'[a] = "rb_assignments"
      /\ snap'[a].groups = groups /\ snap'[a].vpn = vpnProfile /\ snap'[a].fb = fallback
    <2>1. snap[a] \in SnapType
        BY <1>1 DEF TypeOK
    <2> QED
        BY <1>1, <1>2, <2>1 DEF TypeOK, SnapType
<1>4. \A b \in Actors \ {a} : pc'[b] = pc[b] /\ todo'[b] = todo[b] /\ snap'[b] = snap[b]
    BY <1>1, <1>2 DEF TypeOK
<1>5. CallOK'
    BY <1>3, <1>4, CallKeeps DEF TodoSteps
<1>6. SettledOK'
    BY DEF ReadGroups, BeginRebuild, SettledOK
<1>7. ASSUME NEW b \in Actors, pure' = b
      PROVE  (pc[b] \in EngineSteps /\ Alone(b) /\ RebuildOK(b) /\ ApplyOK(b))'
    <2>1. b = a /\ Alone(a)
        BY <1>7, ActorsAssumption DEF ReadGroups, BeginRebuild
    <2>2. Alone(a)'
        BY <1>4, <2>1 DEF Alone
    <2>3. UNCHANGED <<groups, vpnProfile, fallback>>
        BY DEF ReadGroups, db
    <2>4. RebuildOK(a)'
        BY <1>3, <2>3 DEF RebuildOK, BuildSteps
    <2>5. pc'[a] \in EngineSteps /\ ApplyOK(a)'
        BY <1>3 DEF ApplyOK, EngineSteps, RebuildSteps, ApplySteps
    <2> QED
        BY <2>1, <2>2, <2>4, <2>5
<1> QED
    BY <1>5, <1>6, <1>7 DEF PureOK

LEMMA InvReadAssignments ==
    ASSUME IInv, NEW a \in Actors, ReadAssignments(a)
    PROVE  CallOK' /\ PureOK' /\ SettledOK'
<1>1. TypeOK /\ snap[a] \in SnapType
    BY DEF IInv, TypeOK
<1>2. /\ pc[a] = "rb_assignments" /\ pc' = [pc EXCEPT ![a] = "rb_stale"] /\ UNCHANGED todo
      /\ snap' = [snap EXCEPT ![a] = [snap[a] EXCEPT !.assigned = Effective]]
      /\ UNCHANGED <<db, history>>
    BY DEF ReadAssignments, Goto
<1>3. /\ pc'[a] = "rb_stale"
      /\ snap'[a].groups = snap[a].groups /\ snap'[a].vpn = snap[a].vpn
      /\ snap'[a].fb = snap[a].fb /\ snap'[a].assigned = Effective
    BY <1>1, <1>2 DEF TypeOK, SnapType
<1>4. \A b \in Actors \ {a} : pc'[b] = pc[b] /\ todo'[b] = todo[b] /\ snap'[b] = snap[b]
    BY <1>1, <1>2 DEF TypeOK
<1>5. CallOK'
    BY <1>3, <1>4, CallKeeps DEF TodoSteps
<1>6. ASSUME pure = a
      PROVE  RebuildOK(a)'
    <2>1. RebuildOK(a)
        BY <1>6 DEF IInv, PureOK
    <2>2. UNCHANGED <<groups, vpnProfile, fallback>> /\ Effective' = Effective
        BY <1>2 DEF db, Effective
    <2> QED
        BY <1>2, <1>3, <2>1, <2>2 DEF RebuildOK, BuildSteps, RebuildSteps
<1>7. pc[a] \in RebuildSteps /\ "rb_stale" \in RebuildSteps
    BY <1>2 DEF RebuildSteps
<1> QED
    BY <1>2, <1>5, <1>6, <1>7, RebuildKeeps

\* The configuration, the calls' inputs and the derived routes are unchanged
\* by a step that changes neither the database nor the tunnels.
LEMMA SameInputs ==
    ASSUME UNCHANGED <<db, tunnels>>
    PROVE  /\ UNCHANGED <<groups, vpnProfile, fallback, conn>> /\ Effective' = Effective
           /\ \A g : RouteOf(g)' = RouteOf(g) /\ AssignedTo(g)' = AssignedTo(g)
BY DEF db, tunnels, Effective, RouteOf, AssignedTo

LEMMA InvCleanupStale ==
    ASSUME IInv, NEW a \in Actors, CleanupStale(a)
    PROVE  CallOK' /\ PureOK' /\ SettledOK'
<1>1. TypeOK
    BY DEF IInv
<1>2. /\ pc[a] = "rb_stale" /\ pc' = [pc EXCEPT ![a] = "rb_flush"]
      /\ todo' = [todo EXCEPT ![a] = snap[a].groups]
      /\ UNCHANGED <<db, tunnels, snap, history>>
      /\ \A g \in Groups \ snap[a].groups : rules'[g] = 0
    <2>1. rules' = [g \in Groups |-> IF g \in Groups \ snap[a].groups /\ rules[g] > 0
                                     THEN 0 ELSE rules[g]]
        BY DEF CleanupStale
    <2>2. \A g \in Groups : rules[g] \in Nat
        BY <1>1 DEF TypeOK
    <2> QED
        BY <2>1, <2>2 DEF CleanupStale, Goto
<1>3. pc'[a] = "rb_flush" /\ todo'[a] = snap[a].groups /\ snap'[a] = snap[a]
    BY <1>1, <1>2 DEF TypeOK
<1>4. \A b \in Actors \ {a} : pc'[b] = pc[b] /\ todo'[b] = todo[b] /\ snap'[b] = snap[b]
    BY <1>1, <1>2 DEF TypeOK
<1>5. CallOK'
    BY <1>3, <1>4, CallKeeps
<1>6. ASSUME pure = a
      PROVE  RebuildOK(a)'
    <2>1. RebuildOK(a)
        BY <1>6 DEF IInv, PureOK
    <2> QED
        BY <1>2, <1>3, <2>1, SameInputs DEF RebuildOK, BuildSteps, RebuildSteps
<1>7. pc[a] \in RebuildSteps /\ "rb_flush" \in RebuildSteps
    BY <1>2 DEF RebuildSteps
<1> QED
    BY <1>2, <1>5, <1>6, <1>7, RebuildKeeps

LEMMA InvFlushNext ==
    ASSUME IInv, NEW a \in Actors, FlushNext(a)
    PROVE  CallOK' /\ PureOK' /\ SettledOK'
<1>1. TypeOK
    BY DEF IInv
<1>2. PICK g \in todo[a] : FlushGroupRule(g) /\ todo' = [todo EXCEPT ![a] = @ \ {g}]
    BY DEF FlushNext
<1>3. /\ pc[a] = "rb_flush" /\ UNCHANGED <<db, tunnels, pc, snap, history>>
      /\ pc = [pc EXCEPT ![a] = "rb_flush"]
    BY <1>1 DEF FlushNext, TypeOK
<1>4. todo'[a] = todo[a] \ {g} /\ \A b \in Actors \ {a} : todo'[b] = todo[b]
    BY <1>1, <1>2 DEF TypeOK
<1>5. CallOK'
    BY <1>3, <1>4, CallKeeps DEF IInv, CallOK
<1>6. ASSUME pure = a
      PROVE  RebuildOK(a)'
    <2>1. RebuildOK(a)
        BY <1>6 DEF IInv, PureOK
    <2>2. \A h \in Groups : rules[h] = 0 => rules'[h] = 0
        BY <1>1, <1>2 DEF TypeOK, FlushGroupRule, FlushTries
    <2> QED
        BY <1>3, <2>1, <2>2, SameInputs DEF RebuildOK, BuildSteps, RebuildSteps
<1>7. pc[a] \in RebuildSteps /\ "rb_flush" \in RebuildSteps
    BY <1>3 DEF RebuildSteps
<1> QED
    BY <1>3, <1>5, <1>6, <1>7, RebuildKeeps

LEMMA InvFlushDone ==
    ASSUME IInv, NEW a \in Actors, FlushDone(a)
    PROVE  CallOK' /\ PureOK' /\ SettledOK'
<1>1. TypeOK
    BY DEF IInv
<1>2. /\ pc[a] = "rb_flush" /\ pc' = [pc EXCEPT ![a] = "rb_build"]
      /\ todo' = [todo EXCEPT ![a] = snap[a].groups]
      /\ UNCHANGED <<db, tunnels, rules, table, snap, history>>
    BY DEF FlushDone, Goto, policy
<1>3. pc'[a] = "rb_build" /\ todo'[a] = snap[a].groups
    BY <1>1, <1>2 DEF TypeOK
<1>4. \A b \in Actors \ {a} : pc'[b] = pc[b] /\ todo'[b] = todo[b]
    BY <1>1, <1>2 DEF TypeOK
<1>5. CallOK'
    BY <1>2, <1>3, <1>4, CallKeeps
<1>6. ASSUME pure = a
      PROVE  RebuildOK(a)'
    <2>1. RebuildOK(a)
        BY <1>6 DEF IInv, PureOK
    <2> QED
        BY <1>2, <1>3, <2>1, SameInputs DEF RebuildOK, BuildSteps, RebuildSteps
<1>7. pc[a] \in RebuildSteps /\ "rb_build" \in RebuildSteps
    BY <1>2 DEF RebuildSteps
<1> QED
    BY <1>2, <1>5, <1>6, <1>7, RebuildKeeps

LEMMA InvReadStatus ==
    ASSUME IInv, NEW a \in Actors, ReadStatus(a)
    PROVE  CallOK' /\ PureOK' /\ SettledOK'
<1>1. TypeOK
    BY DEF IInv
<1>2. PICK g \in todo[a] :
          /\ IsNext(a, g)
          /\ route' = [route EXCEPT ![a] = RouteFor(snap[a].vpn[g], snap[a].fb[g], conn)]
    BY DEF ReadStatus
<1>3. /\ pc[a] = "rb_build" /\ pc' = [pc EXCEPT ![a] = "rb_route"]
      /\ UNCHANGED <<db, tunnels, rules, table, snap, todo, history>>
    BY DEF ReadStatus, Goto, policy
<1>4. pc'[a] = "rb_route" /\ \A b \in Actors \ {a} : pc'[b] = pc[b]
    BY <1>1, <1>3 DEF TypeOK
<1>5. CallOK'
    BY <1>3, <1>4, CallKeeps DEF IInv, CallOK, TodoSteps
<1>6. ASSUME pure = a
      PROVE  RebuildOK(a)'
    <2>1. RebuildOK(a)
        BY <1>6 DEF IInv, PureOK
    <2>2. snap[a].vpn = vpnProfile /\ snap[a].fb = fallback
        BY <1>3, <2>1 DEF RebuildOK, RebuildSteps
    <2>3. route'[a] = RouteOf(g)
        BY <1>1, <1>2, <2>2 DEF TypeOK, RouteOf
    <2>4. \A h \in todo[a] : IsNext(a, h)' => h = g
        BY <1>1, <1>2, <1>3, NextUnique DEF IsNext
    <2>5. \A h \in Groups : Done(h)' = Done(h)
        BY <1>3, SameInputs DEF Done
    <2>6. groups \subseteq Groups
        BY <1>1 DEF TypeOK
    <2> QED
        BY <1>3, <1>4, <2>1, <2>3, <2>4, <2>5, <2>6, SameInputs
        DEF RebuildOK, BuildSteps, RebuildSteps
<1>7. pc[a] \in RebuildSteps /\ "rb_route" \in RebuildSteps
    BY <1>3 DEF RebuildSteps
<1> QED
    BY <1>3, <1>5, <1>6, <1>7, RebuildKeeps

LEMMA InvReplaceRoute ==
    ASSUME IInv, NEW a \in Actors, ReplaceRoute(a)
    PROVE  CallOK' /\ PureOK' /\ SettledOK'
<1>1. TypeOK
    BY DEF IInv
<1>2. PICK g \in todo[a] : IsNext(a, g) /\ table' = [table EXCEPT ![g] = route[a]]
    BY DEF ReplaceRoute
<1>3. /\ pc[a] = "rb_route" /\ pc' = [pc EXCEPT ![a] = "rb_rule"]
      /\ UNCHANGED <<db, tunnels, rules, snap, todo, history>>
    BY DEF ReplaceRoute, Goto
<1>4. pc'[a] = "rb_rule" /\ \A b \in Actors \ {a} : pc'[b] = pc[b]
    BY <1>1, <1>3 DEF TypeOK
<1>5. CallOK'
    BY <1>3, <1>4, CallKeeps DEF IInv, CallOK, TodoSteps
<1>6. ASSUME pure = a
      PROVE  RebuildOK(a)'
    <2>1. RebuildOK(a)
        BY <1>6 DEF IInv, PureOK
    <2>2. g \in Groups /\ groups \subseteq Groups
        BY <1>1 DEF TypeOK
    <2>3. table'[g] = RouteOf(g)
        BY <1>1, <1>2, <1>3, <2>1, <2>2 DEF TypeOK, RebuildOK, RebuildSteps
    <2>4. \A h \in todo[a] : IsNext(a, h)' => h = g
        BY <1>1, <1>2, <1>3, NextUnique DEF IsNext
    <2>5. \A h \in groups \ todo[a] : Done(h)' = Done(h)
        <3>1. \A h \in groups \ todo[a] : table'[h] = table[h]
            BY <1>1, <1>2, <2>2 DEF TypeOK
        <3> QED
            BY <1>3, <3>1, SameInputs DEF Done
    <2> QED
        BY <1>3, <1>4, <2>1, <2>3, <2>4, <2>5, SameInputs
        DEF RebuildOK, BuildSteps, RebuildSteps
<1>7. pc[a] \in RebuildSteps /\ "rb_rule" \in RebuildSteps
    BY <1>3 DEF RebuildSteps
<1> QED
    BY <1>3, <1>5, <1>6, <1>7, RebuildKeeps

LEMMA InvAddRule ==
    ASSUME IInv, NEW a \in Actors, AddRule(a)
    PROVE  CallOK' /\ PureOK' /\ SettledOK'
<1>1. TypeOK
    BY DEF IInv
<1>2. PICK g \in todo[a] :
          /\ IsNext(a, g)
          /\ rules' = [rules EXCEPT ![g] = @ + 1]
          /\ todo' = [todo EXCEPT ![a] = @ \ {g}]
    BY DEF AddRule
<1>3. /\ pc[a] = "rb_rule" /\ pc' = [pc EXCEPT ![a] = "rb_build"]
      /\ UNCHANGED <<db, tunnels, table, snap, history>>
    BY DEF AddRule, Goto
<1>4. /\ pc'[a] = "rb_build" /\ todo'[a] = todo[a] \ {g}
      /\ \A b \in Actors \ {a} : pc'[b] = pc[b] /\ todo'[b] = todo[b]
    BY <1>1, <1>2, <1>3 DEF TypeOK
<1>5. CallOK'
    BY <1>3, <1>4, CallKeeps DEF IInv, CallOK, TodoSteps
<1>6. ASSUME pure = a
      PROVE  RebuildOK(a)'
    <2>1. RebuildOK(a)
        BY <1>6 DEF IInv, PureOK
    <2>2. g \in groups /\ g \in Groups /\ groups \subseteq Groups
        <3>1. todo[a] \subseteq snap[a].groups
            BY <1>3 DEF IInv, CallOK, TodoSteps
        <3> QED
            BY <1>1, <1>3, <2>1, <3>1 DEF TypeOK, RebuildOK, RebuildSteps
    <2>3. rules'[g] > 0 /\ \A h \in Groups \ {g} : rules'[h] = rules[h]
        BY <1>1, <1>2, <2>2 DEF TypeOK
    <2>4. Done(g)'
        BY <1>2, <1>3, <2>1, <2>3, SameInputs DEF RebuildOK, RebuildSteps, Done
    <2>5. \A h \in groups \ {g} : Done(h)' = Done(h)
        BY <1>3, <2>2, <2>3, SameInputs DEF Done
    <2> QED
        BY <1>3, <1>4, <2>1, <2>2, <2>3, <2>4, <2>5, SameInputs
        DEF RebuildOK, BuildSteps, RebuildSteps
<1>7. pc[a] \in RebuildSteps /\ "rb_build" \in RebuildSteps
    BY <1>3 DEF RebuildSteps
<1> QED
    BY <1>3, <1>5, <1>6, <1>7, RebuildKeeps

LEMMA InvDeleteNftTable ==
    ASSUME IInv, NEW a \in Actors, DeleteNftTable(a)
    PROVE  CallOK' /\ PureOK' /\ SettledOK'
<1>1. TypeOK
    BY DEF IInv
<1>2. /\ pc[a] = "rb_build" /\ todo[a] = {} /\ pc' = [pc EXCEPT ![a] = "rb_nft_load"]
      /\ UNCHANGED <<db, tunnels, rules, table, snap, todo, history>>
      /\ loads' = 0 /\ \A g \in Groups : marks'[g] = 0 /\ sets'[g] = {}
    BY DEF DeleteNftTable, Goto, policy
<1>3. pc'[a] = "rb_nft_load" /\ \A b \in Actors \ {a} : pc'[b] = pc[b]
    BY <1>1, <1>2 DEF TypeOK
<1>4. CallOK'
    BY <1>2, <1>3, CallKeeps DEF TodoSteps
<1>5. ASSUME pure = a
      PROVE  RebuildOK(a)'
    <2>1. RebuildOK(a)
        BY <1>5 DEF IInv, PureOK
    <2>2. \A h : Done(h)' = Done(h)
        BY <1>2, SameInputs DEF Done
    <2> QED
        BY <1>2, <1>3, <2>1, <2>2, SameInputs DEF RebuildOK, BuildSteps, RebuildSteps
<1>6. pc[a] \in RebuildSteps /\ "rb_nft_load" \in RebuildSteps
    BY <1>2 DEF RebuildSteps
<1> QED
    BY <1>2, <1>4, <1>5, <1>6, RebuildKeeps

\* When an actor leaves the engine the others' calls are untouched.
LEMMA CompleteFields ==
    ASSUME TypeOK, NEW a \in Actors, Complete(a)
    PROVE  /\ pc'[a] \in {"booted", "reconciled", "idle"}
           /\ \A b \in Actors \ {a} : /\ pc'[b] = pc[b] /\ todo'[b] = todo[b]
                                      /\ snap'[b] = snap[b]
BY DEF TypeOK, Complete, Release, Goto

LEMMA AbortFields ==
    ASSUME TypeOK, NEW a \in Actors, Abort(a)
    PROVE  /\ pc'[a] \in {"booted", "idle"}
           /\ \A b \in Actors \ {a} : /\ pc'[b] = pc[b] /\ todo'[b] = todo[b]
                                      /\ snap'[b] = snap[b]
BY DEF TypeOK, Abort, Release, Goto

LEMMA InvAbort ==
    ASSUME IInv, NEW a \in Actors, Abort(a)
    PROVE  CallOK' /\ PureOK' /\ SettledOK'
<1>1. TypeOK /\ Disturb
    BY DEF IInv, Abort
<1>2. CallOK'
    BY <1>1, AbortFields, CallKeeps DEF TodoSteps
<1> QED
    BY <1>1, <1>2, DisturbKeeps

\* The end of an undisturbed call settles the kernel state.
LEMMA InvLoadNftTable ==
    ASSUME IInv, NEW a \in Actors, LoadNftTable(a)
    PROVE  CallOK' /\ PureOK' /\ SettledOK'
<1>1. TypeOK
    BY DEF IInv
<1>2. /\ pc[a] = "rb_nft_load" /\ Complete(a) /\ UNCHANGED <<db, tunnels, rules, table>>
      /\ pc[a] \in RebuildSteps /\ pc[a] \in EngineSteps
    BY DEF LoadNftTable, policy, RebuildSteps, EngineSteps
<1>3. CallOK'
    BY <1>1, <1>2, CompleteFields, CallKeeps DEF TodoSteps
<1>4. CASE pure = a
    <2>1. RebuildOK(a) /\ Alone(a)
        BY <1>4 DEF IInv, PureOK
    <2>2. pure' = NoActor /\ settled' = "all"
        BY <1>2, <1>4 DEF Complete
    <2>3. \A b \in Actors : pc'[b] \notin EngineSteps
        BY <1>1, <1>2, <2>1, CompleteFields
        DEF Alone, EngineSteps, RebuildSteps, ApplySteps
    <2>4. \A b \in Actors : pc'[b] \notin RebuildSteps /\ pc'[b] \notin ApplySteps
        BY <2>3 DEF EngineSteps
    <2>5. /\ snap[a].groups = groups /\ snap[a].assigned = Effective
          /\ \A g \in Groups \ groups : rules[g] = 0
          /\ \A g \in groups : Done(g)
          /\ loads = 0 /\ \A g \in Groups : marks[g] = 0 /\ sets[g] = {}
        BY <1>2, <2>1 DEF RebuildOK, BuildSteps
    <2>6. \A g \in Groups : marks'[g] = IF g \in groups THEN 1 ELSE 0
        BY <2>5 DEF LoadNftTable
    <2>7. \A g \in Groups : sets'[g] = IF g \in groups THEN AssignedTo(g) ELSE {}
        BY <2>5 DEF LoadNftTable, Members, AssignedTo
    <2>8. groups \subseteq Groups /\ \A g : Done(g)' = Done(g)
        BY <1>1, <1>2, SameInputs DEF Done, TypeOK
    <2>9. RoutesApplied'
        BY <1>2, <2>5, <2>6, <2>7, <2>8, SameInputs DEF RoutesApplied
    <2>10. \A g \in groups' : sets'[g] = AssignedTo(g)'
        BY <1>2, <2>7, <2>8, SameInputs
    <2>11. SettledOK'
        BY <2>3, <2>4, <2>9, <2>10 DEF SettledOK
    <2>12. PureOK'
        BY <2>2, ActorsAssumption DEF PureOK
    <2> QED
        BY <1>3, <2>11, <2>12
<1>5. CASE pure # a
    <2>1. UNCHANGED history
        BY <1>2, <1>5 DEF Complete
    <2>2. settled' = "no"
        BY <1>2, <2>1 DEF IInv, SettledOK, history
    <2>3. PureOK'
        BY <1>2, <1>5, <2>1, PureIsMe DEF PureOK, history
    <2> QED
        BY <1>3, <2>2, <2>3 DEF SettledOK
<1> QED
    BY <1>4, <1>5

LEMMA InvCleanupUnreadable ==
    ASSUME IInv, NEW a \in Actors, CleanupUnreadable(a)
    PROVE  CallOK' /\ PureOK' /\ SettledOK'
<1>1. TypeOK
    BY DEF IInv
<1>2. /\ pc' = [pc EXCEPT ![a] = "rb_flush"] /\ todo' = [todo EXCEPT ![a] = snap[a].groups]
      /\ UNCHANGED snap /\ Disturb
    BY DEF CleanupUnreadable, Goto
<1>3. todo'[a] = snap[a].groups /\ \A b \in Actors \ {a} : pc'[b] = pc[b] /\ todo'[b] = todo[b]
    BY <1>1, <1>2 DEF TypeOK
<1>4. CallOK'
    BY <1>2, <1>3, CallKeeps
<1> QED
    BY <1>2, <1>4, DisturbKeeps

LEMMA InvSetMissing ==
    ASSUME IInv, NEW a \in Actors, SetMissing(a)
    PROVE  CallOK' /\ PureOK' /\ SettledOK'
<1>1. TypeOK
    BY DEF IInv
<1>2. /\ pc' = [pc EXCEPT ![a] = "rb_groups"] /\ todo' = [todo EXCEPT ![a] = {}]
      /\ snap' = [snap EXCEPT ![a] = EmptySnap] /\ Disturb
    BY DEF SetMissing, Goto
<1>3. /\ pc'[a] = "rb_groups"
      /\ \A b \in Actors \ {a} : pc'[b] = pc[b] /\ todo'[b] = todo[b] /\ snap'[b] = snap[b]
    BY <1>1, <1>2 DEF TypeOK
<1>4. CallOK'
    BY <1>3, CallKeeps DEF TodoSteps
<1> QED
    BY <1>2, <1>4, DisturbKeeps

\* A refresh that begins alone on applied routes becomes the undisturbed call.
LEMMA InvApplyReadGroups ==
    ASSUME IInv, NEW a \in Actors, ApplyReadGroups(a)
    PROVE  CallOK' /\ PureOK' /\ SettledOK'
<1>1. TypeOK /\ snap[a] \in SnapType
    BY DEF IInv, TypeOK
<1>2. /\ pc[a] = "ap_groups" /\ pc' = [pc EXCEPT ![a] = "ap_assignments"] /\ UNCHANGED todo
      /\ snap' = [snap EXCEPT ![a] = [snap[a] EXCEPT !.groups = groups]]
      /\ UNCHANGED <<db, tunnels, rules, table, marks, sets>> /\ BeginApply(a)
    BY DEF ApplyReadGroups, Goto, policy, filter
<1>3. pc'[a] = "ap_assignments" /\ snap'[a].groups = groups
    BY <1>1, <1>2 DEF TypeOK, SnapType
<1>4. \A b \in Actors \ {a} : pc'[b] = pc[b] /\ todo'[b] = todo[b] /\ snap'[b] = snap[b]
    BY <1>1, <1>2 DEF TypeOK
<1>5. CallOK'
    BY <1>3, <1>4, CallKeeps DEF TodoSteps
<1>6. CASE Alone(a) /\ settled # "no"
    <2>1. pure' = a /\ settled' = "routes"
        BY <1>2, <1>6 DEF BeginApply
    <2>2. /\ RoutesApplied
          /\ \A b \in Actors : pc[b] \notin RebuildSteps
          /\ \A b \in Actors : pc[b] \in ApplySteps => snap[b].groups = groups
        BY <1>6 DEF IInv, SettledOK
    <2>3. RoutesApplied'
        <3>1. groups \subseteq Groups /\ \A g : Done(g)' = Done(g)
            BY <1>1, <1>2, SameInputs DEF Done, TypeOK
        <3> QED
            BY <1>2, <2>2, <3>1, SameInputs DEF RoutesApplied
    <2>4. ASSUME NEW b \in Actors
          PROVE  /\ pc'[b] \notin RebuildSteps
                 /\ pc'[b] \in ApplySteps => snap'[b].groups = groups'
        <3>1. "ap_assignments" \notin RebuildSteps
            BY DEF RebuildSteps
        <3> QED
            BY <1>2, <1>3, <1>4, <2>2, <3>1, SameInputs
    <2>5. SettledOK'
        BY <2>1, <2>3, <2>4 DEF SettledOK
    <2>6. (pc[a] \in EngineSteps /\ Alone(a) /\ RebuildOK(a) /\ ApplyOK(a))'
        <3>1. pc'[a] \in EngineSteps /\ Alone(a)'
            BY <1>3, <1>4, <1>6 DEF Alone, EngineSteps, ApplySteps
        <3>2. RebuildOK(a)'
            BY <1>3 DEF RebuildOK, RebuildSteps
        <3>3. ApplyOK(a)'
            BY <1>2, <1>3, <2>1, SameInputs DEF ApplyOK
        <3> QED
            BY <3>1, <3>2, <3>3
    <2> QED
        BY <1>5, <2>1, <2>5, <2>6 DEF PureOK
<1>7. CASE ~(Alone(a) /\ settled # "no")
    BY <1>2, <1>5, <1>7, DisturbKeeps DEF BeginApply
<1> QED
    BY <1>6, <1>7

LEMMA InvApplyReadAssignments ==
    ASSUME IInv, NEW a \in Actors, ApplyReadAssignments(a)
    PROVE  CallOK' /\ PureOK' /\ SettledOK'
<1>1. TypeOK /\ snap[a] \in SnapType
    BY DEF IInv, TypeOK
<1>2. /\ pc[a] = "ap_assignments" /\ pc' = [pc EXCEPT ![a] = "ap_flush"]
      /\ snap' = [snap EXCEPT ![a] = [snap[a] EXCEPT !.assigned = Effective]]
      /\ todo' = [todo EXCEPT ![a] = snap[a].groups]
      /\ UNCHANGED <<db, tunnels, policy, loads, marks, sets, history>>
    BY DEF ApplyReadAssignments, Goto, filter
<1>3. /\ pc'[a] = "ap_flush" /\ todo'[a] = snap[a].groups
      /\ snap'[a].groups = snap[a].groups /\ snap'[a].assigned = Effective
    BY <1>1, <1>2 DEF TypeOK, SnapType
<1>4. \A b \in Actors \ {a} : pc'[b] = pc[b] /\ todo'[b] = todo[b] /\ snap'[b] = snap[b]
    BY <1>1, <1>2 DEF TypeOK
<1>5. CallOK'
    BY <1>3, <1>4, CallKeeps
<1>6. ASSUME pure = a
      PROVE  ApplyOK(a)'
    <2>1. ApplyOK(a)
        BY <1>6 DEF IInv, PureOK
    <2> QED
        BY <1>2, <1>3, <2>1, SameInputs DEF ApplyOK, ApplySteps, history
<1>7. pc[a] \in ApplySteps /\ "ap_flush" \in ApplySteps
    BY <1>2 DEF ApplySteps
<1>8. \A b \in Actors : snap'[b].groups = snap[b].groups
    BY <1>3, <1>4
<1> QED
    BY <1>2, <1>5, <1>6, <1>7, <1>8, ApplyKeeps

LEMMA InvFlushSet ==
    ASSUME IInv, NEW a \in Actors, FlushSet(a)
    PROVE  CallOK' /\ PureOK' /\ SettledOK'
<1>1. TypeOK
    BY DEF IInv
<1>2. PICK g \in todo[a] :
          /\ IsNext(a, g) /\ sets' = [sets EXCEPT ![g] = {}]
          /\ IF Members(a, g) = {}
             THEN todo' = [todo EXCEPT ![a] = @ \ {g}] /\ UNCHANGED pc
             ELSE Goto(a, "ap_add") /\ UNCHANGED todo
    BY DEF FlushSet
<1>3. /\ pc[a] = "ap_flush" /\ UNCHANGED <<db, tunnels, policy, loads, marks, snap, history>>
    BY DEF FlushSet
<1>4. todo[a] \subseteq snap[a].groups /\ g \in Groups
    BY <1>1, <1>3 DEF IInv, CallOK, TodoSteps, TypeOK
<1>5. sets'[g] = {} /\ \A h \in Groups \ {g} : sets'[h] = sets[h]
    BY <1>1, <1>2, <1>4 DEF TypeOK
<1>6. \A h \in Groups \ snap[a].groups : sets'[h] = sets[h]
    BY <1>4, <1>5
<1>7. pc[a] \in ApplySteps /\ "ap_flush" \in ApplySteps /\ "ap_add" \in ApplySteps
    BY <1>3 DEF ApplySteps
<1>8. ASSUME pure = a
      PROVE  /\ settled = "routes" /\ snap[a].groups = groups /\ snap[a].assigned = Effective
             /\ \A h \in groups \ todo[a] : sets'[h] = AssignedTo(h)
    <2>1. ApplyOK(a)
        BY <1>8 DEF IInv, PureOK
    <2>2. \A h \in groups \ todo[a] : h \in Groups \ {g}
        BY <1>1, <1>2 DEF TypeOK
    <2> QED
        BY <1>3, <1>5, <1>7, <2>1, <2>2 DEF ApplyOK
<1>9. CASE Members(a, g) = {}
    <2>1. /\ todo'[a] = todo[a] \ {g} /\ \A b \in Actors \ {a} : todo'[b] = todo[b]
          /\ UNCHANGED pc /\ pc = [pc EXCEPT ![a] = "ap_flush"]
        BY <1>1, <1>2, <1>3, <1>9 DEF TypeOK
    <2>2. CallOK'
        BY <1>3, <1>4, <2>1, CallKeeps
    <2>3. ASSUME pure = a
          PROVE  ApplyOK(a)'
        <3>1. AssignedTo(g) = {}
            BY <1>8, <1>9, <2>3 DEF Members, AssignedTo
        <3>2. \A h \in groups \ todo'[a] : sets'[h] = AssignedTo(h)
            BY <1>5, <1>8, <2>1, <2>3, <3>1
        <3> QED
            BY <1>3, <1>8, <2>1, <2>3, <3>2, SameInputs DEF ApplyOK, history
    <2> QED
        BY <1>3, <1>6, <1>7, <2>1, <2>2, <2>3, ApplyKeeps
<1>10. CASE Members(a, g) # {}
    <2>1. /\ pc' = [pc EXCEPT ![a] = "ap_add"] /\ UNCHANGED todo
          /\ pc'[a] = "ap_add" /\ \A b \in Actors \ {a} : pc'[b] = pc[b]
        BY <1>1, <1>2, <1>10 DEF TypeOK, Goto
    <2>2. CallOK'
        BY <1>3, <1>4, <2>1, CallKeeps
    <2>3. ASSUME pure = a
          PROVE  ApplyOK(a)'
        <3>1. \A h \in todo[a] : IsNext(a, h)' => h = g
            BY <1>1, <1>2, <2>1, NextUnique DEF IsNext
        <3> QED
            BY <1>3, <1>5, <1>8, <2>1, <2>3, <3>1, SameInputs DEF ApplyOK, history
    <2> QED
        BY <1>3, <1>6, <1>7, <2>1, <2>2, <2>3, ApplyKeeps
<1> QED
    BY <1>9, <1>10

LEMMA InvAddElements ==
    ASSUME IInv, NEW a \in Actors, AddElements(a)
    PROVE  CallOK' /\ PureOK' /\ SettledOK'
<1>1. TypeOK
    BY DEF IInv
<1>2. PICK g \in todo[a] :
          /\ IsNext(a, g) /\ sets' = [sets EXCEPT ![g] = @ \cup Members(a, g)]
          /\ todo' = [todo EXCEPT ![a] = @ \ {g}]
    BY DEF AddElements
<1>3. /\ pc[a] = "ap_add" /\ pc' = [pc EXCEPT ![a] = "ap_flush"]
      /\ UNCHANGED <<db, tunnels, policy, loads, marks, snap, history>>
    BY DEF AddElements, Goto
<1>4. todo[a] \subseteq snap[a].groups /\ g \in Groups
    BY <1>1, <1>3 DEF IInv, CallOK, TodoSteps, TypeOK
<1>5. sets'[g] = sets[g] \cup Members(a, g) /\ \A h \in Groups \ {g} : sets'[h] = sets[h]
    BY <1>1, <1>2, <1>4 DEF TypeOK
<1>6. \A h \in Groups \ snap[a].groups : sets'[h] = sets[h]
    BY <1>4, <1>5
<1>7. pc[a] \in ApplySteps /\ "ap_flush" \in ApplySteps
    BY <1>3 DEF ApplySteps
<1>8. /\ pc'[a] = "ap_flush" /\ todo'[a] = todo[a] \ {g}
      /\ \A b \in Actors \ {a} : pc'[b] = pc[b] /\ todo'[b] = todo[b]
    BY <1>1, <1>2, <1>3 DEF TypeOK
<1>9. CallOK'
    BY <1>3, <1>4, <1>8, CallKeeps
<1>10. ASSUME pure = a
       PROVE  ApplyOK(a)'
    <2>1. ApplyOK(a)
        BY <1>10 DEF IInv, PureOK
    <2>2. /\ settled = "routes" /\ snap[a].groups = groups /\ snap[a].assigned = Effective
          /\ \A h \in groups \ todo[a] : sets[h] = AssignedTo(h)
          /\ sets[g] = {}
        BY <1>2, <1>3, <1>7, <2>1 DEF ApplyOK
    <2>3. sets'[g] = AssignedTo(g)
        BY <1>5, <2>2 DEF Members, AssignedTo
    <2>4. \A h \in groups \ todo'[a] : sets'[h] = AssignedTo(h)
        BY <1>1, <1>5, <1>8, <2>2, <2>3 DEF TypeOK
    <2> QED
        BY <1>3, <1>8, <2>2, <2>4, SameInputs DEF ApplyOK, history
<1> QED
    BY <1>3, <1>6, <1>7, <1>9, <1>10, ApplyKeeps

LEMMA InvApplyDone ==
    ASSUME IInv, NEW a \in Actors, ApplyDone(a)
    PROVE  CallOK' /\ PureOK' /\ SettledOK'
<1>1. TypeOK /\ groups \subseteq Groups
    BY DEF IInv, TypeOK
<1>2. /\ pc[a] = "ap_flush" /\ todo[a] = {} /\ Complete(a)
      /\ UNCHANGED <<db, tunnels, rules, table, marks, sets>>
      /\ pc[a] \in ApplySteps /\ pc[a] \in EngineSteps
    BY DEF ApplyDone, policy, filter, ApplySteps, EngineSteps
<1>3. CallOK'
    BY <1>1, <1>2, CompleteFields, CallKeeps DEF TodoSteps
<1>4. RoutesApplied => RoutesApplied'
    <2>1. \A g : Done(g)' = Done(g)
        BY <1>2, SameInputs DEF Done
    <2> QED
        BY <1>1, <1>2, <2>1, SameInputs DEF RoutesApplied
<1>5. CASE pure = a
    <2>1. ApplyOK(a) /\ Alone(a)
        BY <1>5 DEF IInv, PureOK
    <2>2. pure' = NoActor /\ settled' = "all"
        BY <1>2, <1>5 DEF Complete
    <2>3. \A b \in Actors : pc'[b] \notin EngineSteps
        BY <1>1, <1>2, <2>1, CompleteFields
        DEF Alone, EngineSteps, RebuildSteps, ApplySteps
    <2>4. \A b \in Actors : pc'[b] \notin RebuildSteps /\ pc'[b] \notin ApplySteps
        BY <2>3 DEF EngineSteps
    <2>5. settled = "routes" /\ \A g \in groups : sets[g] = AssignedTo(g)
        BY <1>2, <2>1 DEF ApplyOK
    <2>6. RoutesApplied'
        BY <1>4, <2>5 DEF IInv, SettledOK
    <2>7. \A g \in groups' : sets'[g] = AssignedTo(g)'
        BY <1>2, <2>5, SameInputs
    <2>8. SettledOK'
        BY <2>3, <2>4, <2>6, <2>7 DEF SettledOK
    <2>9. PureOK'
        BY <2>2, ActorsAssumption DEF PureOK
    <2> QED
        BY <1>3, <2>8, <2>9
<1>6. CASE pure # a
    <2>1. UNCHANGED history
        BY <1>2, <1>6 DEF Complete
    <2>2. PureOK'
        BY <1>2, <1>6, <2>1, PureIsMe DEF PureOK, history
    <2>3. settled # "all"
        BY <1>2 DEF IInv, SettledOK
    <2>4. ASSUME settled # "no", NEW b \in Actors
          PROVE  /\ pc'[b] \notin RebuildSteps
                 /\ pc'[b] \in ApplySteps => snap'[b].groups = groups'
        <3>1. /\ pc[b] \notin RebuildSteps
              /\ pc[b] \in ApplySteps => snap[b].groups = groups
            BY <2>4 DEF IInv, SettledOK
        <3> QED
            BY <1>1, <1>2, <3>1, SameInputs, CompleteFields DEF RebuildSteps, ApplySteps
    <2>5. settled # "no" => RoutesApplied'
        BY <1>4 DEF IInv, SettledOK
    <2>6. SettledOK'
        BY <2>1, <2>3, <2>4, <2>5 DEF SettledOK, history
    <2> QED
        BY <1>3, <2>2, <2>6
<1> QED
    BY <1>5, <1>6

\* Every step inside an engine call keeps the invariant.
LEMMA InvEngine ==
    ASSUME IInv, NEW a \in Actors, EngineStep(a)
    PROVE  CallOK' /\ PureOK' /\ SettledOK'
<1>1. CASE RouteRefused(a) \/ RuleRefused(a) \/ ElementsRefused(a) \/ CommandFails(a)
    BY <1>1, InvAbort DEF RouteRefused, RuleRefused, ElementsRefused, CommandFails
<1> QED
    BY <1>1, InvReadGroups, InvReadAssignments, InvCleanupStale, InvCleanupUnreadable,
       InvFlushNext, InvFlushDone, InvReadStatus, InvReplaceRoute, InvAddRule,
       InvDeleteNftTable, InvLoadNftTable, InvApplyReadGroups, InvApplyReadAssignments,
       InvFlushSet, InvSetMissing, InvAddElements, InvApplyDone
    DEF EngineStep

\* A step of an actor outside the engine that stays outside, and changes no
\* input of a call and no kernel state, keeps the invariant.
LEMMA OutsideKeeps ==
    ASSUME IInv, NEW a \in Actors, pc[a] \notin EngineSteps, pc'[a] \notin EngineSteps,
           \A b \in Actors \ {a} : pc'[b] = pc[b] /\ todo'[b] = todo[b],
           UNCHANGED <<db, tunnels, policy, filter, snap, route, history>>
    PROVE  CallOK' /\ PureOK' /\ SettledOK'
<1>1. TypeOK /\ groups \subseteq Groups
    BY DEF IInv, TypeOK
<1>2. \A b \in Actors : pc[b] \in EngineSteps => b # a
    OBVIOUS
<1>3. pc'[a] \notin TodoSteps /\ pc'[a] \notin RebuildSteps /\ pc'[a] \notin ApplySteps
    BY DEF EngineSteps, RebuildSteps, ApplySteps, TodoSteps
<1>4. CallOK'
    BY <1>3, CallKeeps
<1>5. UNCHANGED <<rules, table, loads, marks, sets, pure, settled>>
    BY DEF policy, filter, history
<1>6. \A g : Done(g)' = Done(g)
    BY <1>5, SameInputs DEF Done
<1>7. ASSUME NEW b \in Actors, pure' = b
      PROVE  (pc[b] \in EngineSteps /\ Alone(b) /\ RebuildOK(b) /\ ApplyOK(b))'
    <2>1. pc[b] \in EngineSteps /\ Alone(b) /\ RebuildOK(b) /\ ApplyOK(b)
        BY <1>5, <1>7 DEF IInv, PureOK
    <2>2. b # a /\ pc'[b] = pc[b] /\ todo'[b] = todo[b]
        BY <2>1
    <2>3. Alone(b)'
        BY <2>1 DEF Alone
    <2>4. \A g : IsNext(b, g)' = IsNext(b, g)
        BY <2>2 DEF IsNext
    <2>5. RebuildOK(b)'
        BY <1>5, <1>6, <2>1, <2>2, <2>4, SameInputs DEF RebuildOK
    <2>6. ApplyOK(b)'
        BY <1>5, <2>1, <2>2, <2>4, SameInputs DEF ApplyOK
    <2> QED
        BY <2>1, <2>2, <2>3, <2>5, <2>6
<1>8. RoutesApplied => RoutesApplied'
    BY <1>1, <1>5, <1>6, SameInputs DEF RoutesApplied
<1>9. SettledOK'
    <2>1. ASSUME NEW b \in Actors, settled # "no"
          PROVE  /\ pc'[b] \notin RebuildSteps
                 /\ pc'[b] \in ApplySteps => snap'[b].groups = groups'
        BY <1>3, <2>1, SameInputs DEF IInv, SettledOK
    <2>2. ASSUME settled = "all"
          PROVE  (\A g \in groups : sets[g] = AssignedTo(g))'
        BY <1>5, <2>2, SameInputs DEF IInv, SettledOK
    <2>3. ASSUME NEW b \in Actors, settled = "all"
          PROVE  pc'[b] \notin EngineSteps
        BY <2>3 DEF IInv, SettledOK
    <2>4. settled # "no" => RoutesApplied'
        BY <1>8 DEF IInv, SettledOK
    <2> QED
        BY <1>5, <2>1, <2>2, <2>3, <2>4 DEF SettledOK
<1> QED
    BY <1>4, <1>7, <1>9 DEF PureOK

LEMMA InvReconciler ==
    ASSUME IInv, ReconcilerStep
    PROVE  CallOK' /\ PureOK' /\ SettledOK'
<1> DEFINE a == Reconciler
<1>1. TypeOK /\ a \in Actors
    BY DEF IInv, Actors
<1>2. \E step \in {"rb_groups", "idle"} : pc' = [pc EXCEPT ![a] = step]
    BY DEF ReconcilerStep, BootRebuild, StartReconciler, ReconcilerTick, CommitSignature,
           HealthFails, Goto
<1>3. /\ pc[a] \in {"boot", "booted", "idle", "reconciled"}
      /\ UNCHANGED <<db, tunnels, policy, filter, snap, todo, route, history>>
    BY DEF ReconcilerStep, BootRebuild, StartReconciler, ReconcilerTick, CommitSignature,
           HealthFails
<1>4. pc[a] \notin EngineSteps /\ pc'[a] \notin EngineSteps
    BY <1>1, <1>2, <1>3 DEF TypeOK, EngineSteps, RebuildSteps, ApplySteps
<1>5. \A b \in Actors \ {a} : pc'[b] = pc[b] /\ todo'[b] = todo[b]
    BY <1>1, <1>2, <1>3 DEF TypeOK
<1> QED
    BY <1>1, <1>3, <1>4, <1>5, OutsideKeeps

\* New assignments take the members of the sets from a settled state, no more.
LEMMA ReassignKeeps ==
    ASSUME IInv, NEW h \in Actors, pc[h] \notin EngineSteps, pc'[h] \notin EngineSteps,
           \A b \in Actors \ {h} : pc'[b] = pc[b] /\ todo'[b] = todo[b],
           UNCHANGED <<groups, vpnProfile, fallback, tunnels, policy, filter, snap>>,
           Reassigned
    PROVE  CallOK' /\ PureOK' /\ SettledOK'
<1>1. groups \subseteq Groups
    BY DEF IInv, TypeOK
<1>2. pc'[h] \notin TodoSteps /\ pc'[h] \notin RebuildSteps /\ pc'[h] \notin ApplySteps
    BY DEF EngineSteps, RebuildSteps, ApplySteps, TodoSteps
<1>3. CallOK'
    BY <1>2, CallKeeps
<1>4. PureOK'
    BY ActorsAssumption DEF Reassigned, PureOK
<1>5. RoutesApplied => RoutesApplied'
    <2>1. UNCHANGED <<rules, table, marks, sets, conn>>
        BY DEF policy, filter, tunnels
    <2>2. \A g : Done(g)' = Done(g)
        BY <2>1 DEF Done, RouteOf
    <2> QED
        BY <1>1, <2>1, <2>2 DEF RoutesApplied
<1>6. settled' # "all" /\ (settled' # "no" => settled # "no")
    BY DEF Reassigned
<1>7. ASSUME NEW b \in Actors, settled' # "no"
      PROVE  /\ pc'[b] \notin RebuildSteps
             /\ pc'[b] \in ApplySteps => snap'[b].groups = groups'
    BY <1>2, <1>6, <1>7 DEF IInv, SettledOK
<1>8. settled' # "no" => RoutesApplied'
    BY <1>5, <1>6 DEF IInv, SettledOK
<1> QED
    BY <1>3, <1>4, <1>6, <1>7, <1>8 DEF SettledOK

LEMMA InvHandler ==
    ASSUME IInv, NEW h \in Handlers, HandlerStep(h)
    PROVE  CallOK' /\ PureOK' /\ SettledOK'
<1>1. TypeOK /\ h \in Actors
    BY DEF IInv, Actors
<1>2. \E step \in OutsideSteps : pc' = [pc EXCEPT ![h] = step]
    BY DEF HandlerStep, EditGroup, CreateGroup, DeleteGroup, DeleteCommit, ChooseGroup,
           AssignClient, OverrideClient, NotReady, OverrideExpires, ExpireOnce, RebuildNow,
           Then, Goto, OutsideSteps
<1>3. pc'[h] \notin EngineSteps /\ pc'[h] \notin TodoSteps
      /\ \A b \in Actors \ {h} : pc'[b] = pc[b]
    BY <1>1, <1>2
    DEF TypeOK, OutsideSteps, EngineSteps, RebuildSteps, ApplySteps, TodoSteps
<1>4. pc[h] \in {"idle", "delete_commit", "chosen", "expired"} /\ UNCHANGED snap
    BY DEF HandlerStep, EditGroup, CreateGroup, DeleteGroup, DeleteCommit, ChooseGroup,
           AssignClient, OverrideClient, NotReady, OverrideExpires, ExpireOnce, RebuildNow,
           Edit, Commit
<1>5. pc[h] \notin EngineSteps
    BY <1>4 DEF EngineSteps, RebuildSteps, ApplySteps
<1>6. \E t : todo' = [todo EXCEPT ![h] = t]
    <2>1. todo = [todo EXCEPT ![h] = todo[h]]
        BY <1>1 DEF TypeOK
    <2>2. CASE UNCHANGED todo
        BY <2>1, <2>2
    <2>3. CASE DeleteGroup(h) \/ DeleteCommit(h) \/ ChooseGroup(h) \/ AssignClient(h)
                 \/ OverrideClient(h) \/ NotReady(h)
        BY <2>3 DEF DeleteGroup, DeleteCommit, ChooseGroup, AssignClient, OverrideClient,
                    NotReady, Commit
    <2> QED
        BY <2>2, <2>3 DEF HandlerStep, EditGroup, CreateGroup, OverrideExpires, ExpireOnce,
                          RebuildNow
<1>7. \A b \in Actors \ {h} : pc'[b] = pc[b] /\ todo'[b] = todo[b]
    BY <1>1, <1>3, <1>6 DEF TypeOK
<1>8. CallOK'
    BY <1>1, <1>3, <1>4, <1>7, CallKeeps
<1>9. CASE EditGroup(h) \/ CreateGroup(h) \/ DeleteGroup(h) \/ DeleteCommit(h)
    <2>1. Disturb
        BY <1>9 DEF EditGroup, CreateGroup, DeleteGroup, DeleteCommit
    <2> QED
        BY <1>8, <2>1, DisturbKeeps
<1>10. CASE ChooseGroup(h) \/ NotReady(h) \/ ExpireOnce(h) \/ RebuildNow(h)
    <2>1. UNCHANGED <<db, tunnels, policy, filter, snap, route, history>>
        BY <1>10 DEF ChooseGroup, NotReady, ExpireOnce, RebuildNow, Edit, Commit, db
    <2> QED
        BY <1>1, <1>3, <1>5, <1>7, <2>1, OutsideKeeps
<1>11. CASE AssignClient(h) \/ OverrideClient(h) \/ OverrideExpires(h)
    <2>1. /\ Reassigned
          /\ UNCHANGED <<groups, vpnProfile, fallback, tunnels, policy, filter, snap>>
        BY <1>11 DEF AssignClient, OverrideClient, OverrideExpires, Edit, Commit
    <2> QED
        BY <1>1, <1>3, <1>5, <1>7, <2>1, ReassignKeeps
<1> QED
    BY <1>9, <1>10, <1>11 DEF HandlerStep

LEMMA InvEnvironment ==
    ASSUME IInv, Environment
    PROVE  CallOK' /\ PureOK' /\ SettledOK'
<1>1. Disturb
    BY DEF Environment, Restart, TunnelUp, TunnelStall, DeviceGone, TunnelEvent
<1>2. CASE Restart
    <2>1. \A b \in Actors : pc'[b] \in {"boot", "idle"}
        BY <1>2 DEF Restart
    <2>2. CallOK'
        BY <2>1 DEF CallOK, TodoSteps
    <2> QED
        BY <1>1, <2>2, DisturbKeeps
<1>3. ASSUME NEW p \in Profiles, TunnelUp(p) \/ TunnelStall(p) \/ DeviceGone(p)
      PROVE  CallOK'
    <2>1. UNCHANGED call
        BY <1>3 DEF TunnelUp, TunnelStall, DeviceGone, TunnelEvent
    <2> QED
        BY <2>1 DEF call, IInv, CallOK
<1> QED
    BY <1>1, <1>2, <1>3, DisturbKeeps DEF Environment

LEMMA InvStutter ==
    ASSUME IInv, UNCHANGED vars
    PROVE  CallOK' /\ PureOK' /\ SettledOK'
<1>1. /\ UNCHANGED <<db, tunnels, rules, table, loads, marks, sets>>
      /\ UNCHANGED <<pc, snap, todo, route, pure, settled>>
    BY DEF vars, policy, filter, call, history
<1>2. CallOK'
    BY <1>1 DEF IInv, CallOK
<1>3. \A g : Done(g)' = Done(g)
    BY <1>1, SameInputs DEF Done
<1>4. PureOK'
    <2>1. ASSUME NEW b \in Actors
          PROVE  /\ RebuildOK(b) => RebuildOK(b)'
                 /\ ApplyOK(b) => ApplyOK(b)'
                 /\ Alone(b) => Alone(b)'
        <3>1. \A g : IsNext(b, g)' = IsNext(b, g)
            BY <1>1 DEF IsNext
        <3>2. RebuildOK(b) => RebuildOK(b)'
            BY <1>1, <1>3, <3>1, SameInputs DEF RebuildOK
        <3>3. ApplyOK(b) => ApplyOK(b)'
            BY <1>1, <3>1, SameInputs DEF ApplyOK
        <3> QED
            BY <1>1, <3>2, <3>3 DEF Alone
    <2> QED
        BY <1>1, <2>1 DEF IInv, PureOK
<1>5. SettledOK'
    <2>1. RoutesApplied => RoutesApplied'
        BY <1>1, <1>3, SameInputs DEF RoutesApplied, IInv, TypeOK
    <2> QED
        BY <1>1, <2>1, SameInputs DEF IInv, SettledOK
<1> QED
    BY <1>2, <1>4, <1>5

LEMMA InvNext == IInv /\ [Next]_vars => IInv'
<1> SUFFICES ASSUME IInv, [Next]_vars PROVE IInv'
    OBVIOUS
<1>1. TypeOK'
    BY TypeNext DEF IInv
<1>2. CallOK' /\ PureOK' /\ SettledOK'
    BY InvEngine, InvReconciler, InvHandler, InvEnvironment, InvStutter DEF Next
<1> QED
    BY <1>1, <1>2 DEF IInv

\* What the invariant says of a settled state: the only mark rule that matches
\* a client is its group's, and that group's table holds the desired route.
LEMMA InvSettled == IInv => SettledMeansDesired
<1> SUFFICES ASSUME IInv, settled = "all", NEW c \in Clients
             PROVE  Path(c) = Desired(c)
    BY DEF SettledMeansDesired
<1>1. /\ RoutesApplied /\ \A g \in groups : sets[g] = AssignedTo(g)
      /\ groups \subseteq Groups
    BY DEF IInv, SettledOK, TypeOK
<1>2. \A g \in Groups : (marks[g] > 0 /\ c \in sets[g]) <=> (g \in groups /\ Effective[c] = g)
    BY <1>1 DEF RoutesApplied, AssignedTo
<1>3. CASE Effective[c] \in groups
    <2> DEFINE g == Effective[c]
    <2>1. Matching(c) = {g}
        BY <1>1, <1>2, <1>3 DEF Matching
    <2>2. g \in Groups /\ g \in Nat
        BY <1>1, <1>3, GroupsAssumption
    <2>3. \A h \in Groups : Wins(c, h) <=> h = g
        BY <2>1, <2>2 DEF Wins
    <2>4. (CHOOSE h \in Groups : Wins(c, h)) = g
        BY <2>2, <2>3
    <2>5. rules[g] # 0 /\ table[g] = RouteOf(g)
        <3>1. Done(g)
            BY <1>1, <1>3 DEF RoutesApplied
        <3> QED
            BY <2>2, <3>1 DEF Done, IInv, TypeOK
    <2>6. Path(c) = Exit(RouteOf(g))
        BY <2>1, <2>4, <2>5 DEF Path
    <2> QED
        BY <1>3, <2>6 DEF Desired, RouteOf
<1>4. CASE Effective[c] \notin groups
    <2>1. Matching(c) = {}
        BY <1>2, <1>4 DEF Matching
    <2> QED
        BY <1>4, <2>1 DEF Path, Desired
<1> QED
    BY <1>3, <1>4

LEMMA InvClean == IInv => SettledMeansClean
BY DEF IInv, SettledOK, SettledMeansClean, RoutesApplied

\* For any number of concurrent callers, groups and clients, and after any
\* failures and restarts: a rebuild, or a refresh of the sets on applied
\* routes, that runs to its end undisturbed leaves every client on the path the
\* configuration and the tunnels ask for, until one of these changes.
THEOREM SettledIsDesired == Spec => []SettledMeansDesired
<1>1. IInv /\ [Next]_vars => IInv'
    BY InvNext
<1> QED
    BY InvInit, <1>1, InvSettled, PTL DEF Spec

\* And it leaves no rule, mark rule or set member of a deleted group behind.
THEOREM SettledIsClean == Spec => []SettledMeansClean
<1>1. IInv /\ [Next]_vars => IInv'
    BY InvNext
<1> QED
    BY InvInit, <1>1, InvClean, PTL DEF Spec

-----------------------------------------------------------------------------
(* DuplicatesRemoved. The engine deletes a group's rule at most FlushTries   *)
(* times, so the property needs a bound on how many rebuilds overlap.        *)

Rebuilding == {a \in Actors : pc[a] \in RebuildSteps}

\* No more rebuilds are under way at once than _flush_group_rule has tries.
FewRebuilds == IsFiniteSet(Rebuilding) /\ Cardinality(Rebuilding) <= FlushTries

OwingSteps == {"rb_flush", "rb_build", "rb_route", "rb_rule"}

\* The rebuild of actor a has flushed the rules of group g and has its own
\* still to add.
Owes(a, g) ==
    \/ pc[a] = "rb_flush" /\ g \in snap[a].groups \ todo[a]
    \/ pc[a] \in {"rb_build", "rb_route", "rb_rule"} /\ g \in todo[a]

Owing(g) == {a \in Actors : Owes(a, g)}

\* A group's rules and those still to be added are no more than a flush deletes.
FewRulesOf(g) == rules[g] + Cardinality(Owing(g)) <= FlushTries
FewRules == \A g \in Groups : FewRulesOf(g)

\* An undisturbed rebuild leaves no rule where it has flushed, and one where it
\* has built.
PureOnce(a) ==
    /\ pc[a] = "rb_flush" => \A g \in groups \ todo[a] : rules[g] = 0
    /\ pc[a] \in BuildSteps =>
        \A g \in groups : rules[g] = IF g \in todo[a] THEN 0 ELSE 1

OneRule == (\A a \in Actors : pure = a => PureOnce(a)) /\ DuplicatesRemoved

\* A set within a small set is small.
LEMMA SmallSubset ==
    ASSUME NEW R, IsFiniteSet(R), Cardinality(R) <= FlushTries, NEW O \in SUBSET R
    PROVE  IsFiniteSet(O) /\ Cardinality(O) \in Nat /\ Cardinality(O) <= FlushTries
<1>1. IsFiniteSet(O) /\ Cardinality(O) <= Cardinality(R)
    BY FS_Subset
<1>2. Cardinality(O) \in Nat /\ Cardinality(R) \in Nat
    BY <1>1, FS_CardinalityType
<1> QED
    BY <1>1, <1>2 DEF FlushTries

\* Only a rebuild owes rules.
LEMMA OwingSmall ==
    ASSUME FewRebuilds, NEW g
    PROVE  IsFiniteSet(Owing(g)) /\ Cardinality(Owing(g)) \in Nat
           /\ Cardinality(Owing(g)) <= FlushTries
<1>1. Owing(g) \in SUBSET Rebuilding
    BY DEF Owing, Rebuilding, Owes, RebuildSteps
<1> QED
    BY <1>1, SmallSubset DEF FewRebuilds

\* A flush leaves at most the rules that are owed, its own among them.
LEMMA FewAfterFlush ==
    ASSUME FewRebuilds', NEW g, rules'[g] = 0
    PROVE  FewRulesOf(g)'
<1>1. Owing(g)' \in SUBSET Rebuilding'
    BY DEF Owing, Rebuilding, Owes, RebuildSteps
<1>2. Cardinality(Owing(g)') \in Nat /\ Cardinality(Owing(g)') <= FlushTries
    BY <1>1, SmallSubset DEF FewRebuilds
<1> QED
    BY <1>2 DEF FewRulesOf

\* A step that adds no rule and owes no new one keeps the bound.
LEMMA FewKept ==
    ASSUME TypeOK, FewRebuilds, NEW g \in Groups, FewRulesOf(g),
           rules'[g] \in Nat, rules'[g] <= rules[g],
           \A b \in Actors : Owes(b, g)' => Owes(b, g)
    PROVE  FewRulesOf(g)'
<1>1. IsFiniteSet(Owing(g)) /\ Cardinality(Owing(g)) \in Nat
    BY OwingSmall
<1>2. Owing(g)' \in SUBSET Owing(g)
    BY DEF Owing
<1>3. IsFiniteSet(Owing(g)') /\ Cardinality(Owing(g)') <= Cardinality(Owing(g))
    BY <1>1, <1>2, FS_Subset
<1>4. Cardinality(Owing(g)') \in Nat
    BY <1>3, FS_CardinalityType
<1>5. rules[g] \in Nat
    BY DEF TypeOK
<1> QED
    BY <1>1, <1>3, <1>4, <1>5 DEF FewRulesOf, FlushTries

\* A rule that is added is owed no longer.
LEMMA FewAfterAdd ==
    ASSUME TypeOK, FewRebuilds, NEW g \in Groups, FewRulesOf(g),
           NEW a \in Actors, Owes(a, g), ~Owes(a, g)', rules'[g] = rules[g] + 1,
           \A b \in Actors \ {a} : Owes(b, g)' <=> Owes(b, g)
    PROVE  FewRulesOf(g)'
<1>1. IsFiniteSet(Owing(g)) /\ Cardinality(Owing(g)) \in Nat
    BY OwingSmall
<1>2. Owing(g)' = Owing(g) \ {a} /\ a \in Owing(g)
    BY DEF Owing
<1>3. Cardinality(Owing(g)') = Cardinality(Owing(g)) - 1
    BY <1>1, <1>2, FS_RemoveElement
<1>4. rules[g] \in Nat
    BY DEF TypeOK
<1> QED
    BY <1>1, <1>3, <1>4 DEF FewRulesOf, FlushTries

\* What an actor owes depends on its own call alone.
LEMMA OwesSame ==
    ASSUME NEW b, NEW g, pc'[b] = pc[b], todo'[b] = todo[b],
           snap'[b].groups = snap[b].groups
    PROVE  Owes(b, g)' <=> Owes(b, g)
BY DEF Owes

\* The step of one actor, seen from the others.
OthersRest(a) ==
    \A b \in Actors \ {a} :
        pc'[b] = pc[b] /\ todo'[b] = todo[b] /\ snap'[b].groups = snap[b].groups

LEMMA FewKeptBy ==
    ASSUME TypeOK, FewRebuilds, FewRules, NEW a \in Actors, OthersRest(a), TypeOK',
           \A g \in Groups : rules'[g] <= rules[g],
           \A g \in Groups : Owes(a, g)' => Owes(a, g)
    PROVE  FewRules'
<1> SUFFICES ASSUME NEW g \in Groups PROVE FewRulesOf(g)'
    BY DEF FewRules
<1>1. ASSUME NEW b \in Actors PROVE Owes(b, g)' => Owes(b, g)
    <2>1. CASE b = a
        BY <2>1
    <2>2. CASE b # a
        BY <2>2, OwesSame DEF OthersRest
    <2> QED
        BY <2>1, <2>2
<1>2. rules'[g] \in Nat
    BY DEF TypeOK
<1>3. FewRulesOf(g)
    BY DEF FewRules
<1> QED
    BY <1>1, <1>2, <1>3, FewKept

\* Every step but a flush and an addition leaves the bound alone.
LEMMA FewEngine ==
    ASSUME TypeOK, TypeOK', FewRules, FewRebuilds, FewRebuilds',
           NEW a \in Actors, EngineStep(a)
    PROVE  FewRules'
<1> USE DEF Goto
<1>1. /\ \A b \in Actors : \A v : [pc EXCEPT ![a] = v][b] = IF b = a THEN v ELSE pc[b]
      /\ \A b \in Actors : \A v : [todo EXCEPT ![a] = v][b] = IF b = a THEN v ELSE todo[b]
      /\ \A b \in Actors : \A v : [snap EXCEPT ![a] = v][b] = IF b = a THEN v ELSE snap[b]
    BY CallFields
<1>2. \A g \in Groups : rules[g] \in Nat
    BY DEF TypeOK
<1>3. ASSUME UNCHANGED rules, OthersRest(a), pc'[a] \notin OwingSteps
      PROVE  FewRules'
    <2>1. \A g \in Groups : rules'[g] <= rules[g] /\ ~Owes(a, g)'
        BY <1>2, <1>3 DEF Owes, OwingSteps
    <2> QED
        BY <1>3, <2>1, FewKeptBy
<1>4. ASSUME UNCHANGED rules, OthersRest(a), \A g \in Groups : Owes(a, g)' => Owes(a, g)
      PROVE  FewRules'
    <2>1. \A g \in Groups : rules'[g] <= rules[g]
        BY <1>2, <1>4
    <2> QED
        BY <1>4, <2>1, FewKeptBy
<1>5. ASSUME Abort(a), UNCHANGED rules
      PROVE  FewRules'
    <2>1. OthersRest(a) /\ pc'[a] \notin OwingSteps
        BY <1>5, AbortFields DEF OthersRest, OwingSteps
    <2> QED
        BY <1>3, <1>5, <2>1
<1>6. ASSUME Complete(a), UNCHANGED rules
      PROVE  FewRules'
    <2>1. OthersRest(a) /\ pc'[a] \notin OwingSteps
        BY <1>6, CompleteFields DEF OthersRest, OwingSteps
    <2> QED
        BY <1>3, <1>6, <2>1
<1>7. CASE ReadGroups(a)
    BY <1>1, <1>3, <1>7 DEF ReadGroups, OthersRest, OwingSteps, policy
<1>8. CASE ReadAssignments(a)
    BY <1>1, <1>3, <1>8 DEF ReadAssignments, OthersRest, OwingSteps, policy
<1>9. CASE CleanupStale(a)
    <2>1. \A g \in Groups : rules'[g] <= rules[g]
        BY <1>2, <1>9 DEF CleanupStale
    <2>2. OthersRest(a)
        BY <1>1, <1>9 DEF CleanupStale, OthersRest
    <2>3. pc'[a] = "rb_flush" /\ todo'[a] = snap[a].groups /\ snap' = snap
        BY <1>1, <1>9 DEF CleanupStale
    <2>4. \A g \in Groups : ~Owes(a, g)'
        BY <2>3 DEF Owes
    <2> QED
        BY <2>1, <2>2, <2>4, FewKeptBy
<1>10. CASE CleanupUnreadable(a)
    <2>1. OthersRest(a) /\ UNCHANGED rules
        BY <1>1, <1>10 DEF CleanupUnreadable, OthersRest, policy
    <2>2. pc'[a] = "rb_flush" /\ todo'[a] = snap[a].groups /\ snap' = snap
        BY <1>1, <1>10 DEF CleanupUnreadable
    <2>3. \A g \in Groups : ~Owes(a, g)'
        BY <2>2 DEF Owes
    <2> QED
        BY <1>4, <2>1, <2>3
<1>11. CASE FlushNext(a)
    <2>1. PICK g \in todo[a] : FlushGroupRule(g) /\ todo' = [todo EXCEPT ![a] = @ \ {g}]
        BY <1>11 DEF FlushNext
    <2>2. g \in Groups /\ FewRulesOf(g)
        BY <2>1 DEF TypeOK, FewRules
    <2>3. rules[g] <= FlushTries
        BY <1>2, <2>2, OwingSmall DEF FewRulesOf, FlushTries
    <2>4. \A h \in Groups : rules'[h] = IF h = g THEN 0 ELSE rules[h]
        BY <2>1, <2>2, <2>3 DEF FlushGroupRule, FlushTries, TypeOK
    <2>5. UNCHANGED pc /\ snap' = snap
        BY <1>11 DEF FlushNext
    <2> SUFFICES ASSUME NEW h \in Groups PROVE FewRulesOf(h)'
        BY DEF FewRules
    <2>6. CASE h = g
        BY <2>4, <2>6, FewAfterFlush
    <2>7. CASE h # g
        <3>1. \A b \in Actors : Owes(b, h)' => Owes(b, h)
            BY <1>1, <2>1, <2>5, <2>7 DEF Owes
        <3>2. rules'[h] = rules[h] /\ rules[h] \in Nat /\ FewRulesOf(h)
            BY <1>2, <2>4, <2>7 DEF FewRules
        <3> QED
            BY <3>1, <3>2, FewKept
    <2> QED
        BY <2>6, <2>7
<1>12. CASE FlushDone(a)
    <2>1. \A g \in Groups : Owes(a, g)' => Owes(a, g)
        BY <1>1, <1>12 DEF FlushDone, Owes
    <2> QED
        BY <1>1, <1>4, <1>12, <2>1 DEF FlushDone, OthersRest, policy
<1>13. CASE ReadStatus(a)
    <2>1. \A g \in Groups : Owes(a, g)' => Owes(a, g)
        BY <1>1, <1>13 DEF ReadStatus, Owes
    <2> QED
        BY <1>1, <1>4, <1>13, <2>1 DEF ReadStatus, OthersRest, policy
<1>14. CASE ReplaceRoute(a)
    <2>1. \A g \in Groups : Owes(a, g)' => Owes(a, g)
        BY <1>1, <1>14 DEF ReplaceRoute, Owes
    <2> QED
        BY <1>1, <1>4, <1>14, <2>1 DEF ReplaceRoute, OthersRest
<1>15. CASE AddRule(a)
    <2>1. PICK g \in todo[a] : /\ rules' = [rules EXCEPT ![g] = @ + 1]
                               /\ todo' = [todo EXCEPT ![a] = @ \ {g}]
        BY <1>15 DEF AddRule
    <2>2. g \in Groups /\ FewRulesOf(g)
        BY <2>1 DEF TypeOK, FewRules
    <2>3. pc[a] = "rb_rule" /\ pc' = [pc EXCEPT ![a] = "rb_build"] /\ snap' = snap
        BY <1>15 DEF AddRule
    <2>4. \A b \in Actors \ {a} : \A h \in Groups : Owes(b, h)' <=> Owes(b, h)
        BY <1>1, <2>1, <2>3 DEF Owes
    <2>5. \A h \in Groups : rules'[h] = IF h = g THEN rules[h] + 1 ELSE rules[h]
        BY <2>1, <2>2 DEF TypeOK
    <2> SUFFICES ASSUME NEW h \in Groups PROVE FewRulesOf(h)'
        BY DEF FewRules
    <2>6. CASE h = g
        <3>1. Owes(a, g) /\ ~Owes(a, g)'
            BY <1>1, <2>1, <2>3 DEF Owes
        <3>2. rules'[g] = rules[g] + 1
            BY <2>2, <2>5
        <3>3. \A b \in Actors \ {a} : Owes(b, g)' <=> Owes(b, g)
            BY <2>2, <2>4
        <3> QED
            BY <2>2, <2>6, <3>1, <3>2, <3>3, FewAfterAdd
    <2>7. CASE h # g
        <3>1. Owes(a, h)' => Owes(a, h)
            BY <1>1, <2>1, <2>3 DEF Owes
        <3>2. rules'[h] = rules[h] /\ rules[h] \in Nat /\ FewRulesOf(h)
            BY <1>2, <2>5, <2>7 DEF FewRules
        <3>3. \A b \in Actors : Owes(b, h)' => Owes(b, h)
            BY <2>4, <3>1
        <3> QED
            BY <3>2, <3>3, FewKept
    <2> QED
        BY <2>6, <2>7
<1>16. CASE DeleteNftTable(a)
    BY <1>1, <1>3, <1>16 DEF DeleteNftTable, OthersRest, OwingSteps, policy
<1>17. CASE LoadNftTable(a)
    BY <1>6, <1>17 DEF LoadNftTable, policy
<1>18. CASE ApplyReadGroups(a)
    BY <1>1, <1>3, <1>18 DEF ApplyReadGroups, OthersRest, OwingSteps, policy
<1>19. CASE ApplyReadAssignments(a)
    BY <1>1, <1>3, <1>19 DEF ApplyReadAssignments, OthersRest, OwingSteps, policy
<1>20. CASE FlushSet(a)
    <2>1. PICK g \in todo[a] :
              IF Members(a, g) = {}
              THEN todo' = [todo EXCEPT ![a] = @ \ {g}] /\ UNCHANGED pc
              ELSE pc' = [pc EXCEPT ![a] = "ap_add"] /\ UNCHANGED todo
        BY <1>20 DEF FlushSet
    <2>2. pc[a] = "ap_flush" /\ UNCHANGED <<rules, snap>>
        BY <1>20 DEF FlushSet, policy
    <2>3. OthersRest(a)
        BY <2>1, <2>2 DEF OthersRest, TypeOK
    <2>4. pc'[a] \notin OwingSteps
        BY <2>1, <2>2 DEF OwingSteps, TypeOK
    <2> QED
        BY <1>3, <2>2, <2>3, <2>4
<1>21. CASE SetMissing(a)
    BY <1>1, <1>3, <1>21 DEF SetMissing, OthersRest, OwingSteps, policy
<1>22. CASE AddElements(a)
    <2>1. OthersRest(a)
        BY <1>1, <1>22 DEF AddElements, OthersRest
    <2>2. pc'[a] \notin OwingSteps /\ UNCHANGED rules
        BY <1>1, <1>22 DEF AddElements, OwingSteps, policy
    <2> QED
        BY <1>3, <2>1, <2>2
<1>23. CASE ApplyDone(a)
    BY <1>6, <1>23 DEF ApplyDone, policy
<1>24. CASE RouteRefused(a) \/ RuleRefused(a) \/ ElementsRefused(a) \/ CommandFails(a)
    BY <1>5, <1>24 DEF RouteRefused, RuleRefused, ElementsRefused, CommandFails, policy
<1> QED
    BY <1>7, <1>8, <1>9, <1>10, <1>11, <1>12, <1>13, <1>14, <1>15, <1>16, <1>17, <1>18,
       <1>19, <1>20, <1>21, <1>22, <1>23, <1>24 DEF EngineStep

\* A handler writes its own group choice, or none.
LEMMA HandlerTodo ==
    ASSUME TypeOK, NEW h \in Handlers, HandlerStep(h)
    PROVE  todo' = todo \/ \E T \in SUBSET Groups : todo' = [todo EXCEPT ![h] = T]
<1>1. CASE DeleteGroup(h)
    <2>1. PICK g \in groups : todo' = [todo EXCEPT ![h] = {g}]
        BY <1>1 DEF DeleteGroup
    <2>2. {g} \in SUBSET Groups
        BY DEF TypeOK
    <2> QED
        BY <2>1, <2>2
<1>2. CASE ChooseGroup(h)
    <2>1. PICK g \in groups \cup {NoGroup} : todo' = [todo EXCEPT ![h] = {g} \ {NoGroup}]
        BY <1>2 DEF ChooseGroup
    <2>2. {g} \ {NoGroup} \in SUBSET Groups
        BY DEF TypeOK
    <2> QED
        BY <2>1, <2>2
<1>3. CASE DeleteCommit(h)
    <2>1. todo' = [todo EXCEPT ![h] = {}]
        BY <1>3 DEF DeleteCommit
    <2> QED
        BY <2>1
<1>4. CASE AssignClient(h) \/ OverrideClient(h) \/ NotReady(h)
    <2>1. todo' = [todo EXCEPT ![h] = {}]
        BY <1>4 DEF AssignClient, OverrideClient, NotReady, Commit
    <2> QED
        BY <2>1
<1>5. CASE \/ EditGroup(h) \/ CreateGroup(h) \/ OverrideExpires(h) \/ ExpireOnce(h)
           \/ RebuildNow(h)
    BY <1>5 DEF EditGroup, CreateGroup, OverrideExpires, ExpireOnce, RebuildNow
<1> QED
    BY <1>1, <1>2, <1>3, <1>4, <1>5 DEF HandlerStep

\* Outside the engine nothing adds rules, and no call is entered half-way.
LEMMA FewOutside ==
    ASSUME TypeOK, TypeOK', FewRules, FewRebuilds, FewRebuilds',
           ReconcilerStep \/ (\E h \in Handlers : HandlerStep(h)) \/ Environment \/ UNCHANGED vars
    PROVE  FewRules'
<1> USE DEF Goto
<1>0. \A g \in Groups : rules[g] \in Nat
    BY DEF TypeOK
<1>1. ASSUME NEW a \in Actors, OthersRest(a), pc'[a] \notin OwingSteps,
             \A g \in Groups : rules'[g] <= rules[g]
      PROVE  FewRules'
    <2>1. \A g \in Groups : ~Owes(a, g)'
        BY <1>1 DEF Owes, OwingSteps
    <2> QED
        BY <1>1, <2>1, FewKeptBy
<1>2. ASSUME UNCHANGED <<rules, pc, todo, snap>>
      PROVE  FewRules'
    BY <1>2, OwesSame DEF FewRules, FewRulesOf, Owing
<1>3. CASE ReconcilerStep
    <2>1. Reconciler \in Actors
        BY DEF Actors
    <2>2. /\ UNCHANGED <<rules, todo, snap>>
          /\ \E s \in {"rb_groups", "idle"} : pc' = [pc EXCEPT ![Reconciler] = s]
        BY <1>3 DEF ReconcilerStep, BootRebuild, StartReconciler, ReconcilerTick,
                    CommitSignature, HealthFails, policy
    <2>3. OthersRest(Reconciler) /\ pc'[Reconciler] \notin OwingSteps
        BY <2>1, <2>2 DEF OthersRest, OwingSteps, TypeOK
    <2> QED
        BY <1>0, <1>1, <2>1, <2>2, <2>3
<1>4. ASSUME NEW h \in Handlers, HandlerStep(h)
      PROVE  FewRules'
    <2>1. h \in Actors
        BY DEF Actors
    <2>2. /\ \E s \in {"rb_groups", "ap_groups", "idle", "chosen", "expired", "delete_commit"} :
                 pc' = [pc EXCEPT ![h] = s]
          /\ UNCHANGED snap
        BY <1>4 DEF HandlerStep, EditGroup, CreateGroup, DeleteGroup, DeleteCommit, ChooseGroup,
                    AssignClient, OverrideClient, NotReady, OverrideExpires, ExpireOnce,
                    RebuildNow, Edit, Commit, Then
    <2>3. todo' = todo \/ \E T \in SUBSET Groups : todo' = [todo EXCEPT ![h] = T]
        BY <1>4, HandlerTodo
    <2>4. OthersRest(h) /\ pc'[h] \notin OwingSteps
        BY <2>1, <2>2, <2>3 DEF OthersRest, OwingSteps, TypeOK
    <2>5. \A g \in Groups : rules'[g] <= rules[g]
        <3>1. CASE DeleteGroup(h)
            BY <1>0, <3>1 DEF DeleteGroup, FlushGroupRule, FlushTries, TypeOK
        <3>2. CASE ~DeleteGroup(h)
            <4>1. UNCHANGED rules
                BY <1>4, <3>2
                   DEF HandlerStep, EditGroup, CreateGroup, DeleteCommit, ChooseGroup,
                       AssignClient, OverrideClient, NotReady, OverrideExpires, ExpireOnce,
                       RebuildNow, Edit, Commit, policy
            <4> QED
                BY <1>0, <4>1
        <3> QED
            BY <3>1, <3>2
    <2> QED
        BY <1>1, <2>1, <2>4, <2>5
<1>5. CASE Restart
    <2>1. \A b \in Actors : pc'[b] \notin OwingSteps
        BY <1>5 DEF Restart, OwingSteps
    <2>2. UNCHANGED rules
        BY <1>5 DEF Restart
    <2> SUFFICES ASSUME NEW g \in Groups PROVE FewRulesOf(g)'
        BY DEF FewRules
    <2>3. \A b \in Actors : Owes(b, g)' => Owes(b, g)
        BY <2>1 DEF Owes, OwingSteps
    <2>4. rules'[g] <= rules[g] /\ rules'[g] \in Nat /\ FewRulesOf(g)
        BY <1>0, <2>2 DEF FewRules
    <2> QED
        BY <2>3, <2>4, FewKept
<1>6. CASE \E p \in Profiles : TunnelUp(p) \/ TunnelStall(p) \/ DeviceGone(p)
    BY <1>2, <1>6 DEF TunnelUp, TunnelStall, DeviceGone, TunnelEvent, call
<1>7. CASE UNCHANGED vars
    BY <1>2, <1>7 DEF vars, call, policy
<1> QED
    BY <1>3, <1>4, <1>5, <1>6, <1>7 DEF Environment

\* A step that disturbs leaves nothing to be kept.
LEMMA OneDisturb == ASSUME Disturb PROVE OneRule'
BY ActorsAssumption DEF Disturb, OneRule, DuplicatesRemoved

\* A step of a rebuild keeps the counts if it keeps those of its own call.
LEMMA OneRebuild ==
    ASSUME IInv, NEW a \in Actors, pc[a] \in RebuildSteps, UNCHANGED history,
           pure = a => PureOnce(a)'
    PROVE  OneRule'
<1>1. pc[a] \in EngineSteps
    BY DEF EngineSteps
<1>2. settled' = "no"
    BY DEF IInv, SettledOK, history
<1>3. \A b \in Actors : pure' = b => b = a
    BY <1>1, PureIsMe DEF history
<1> QED
    BY <1>2, <1>3 DEF OneRule, DuplicatesRemoved, history

\* Outside the rebuilds of the engine rules stay as they are.
LEMMA OneKept ==
    ASSUME OneRule, UNCHANGED <<rules, groups>>, settled' # "no" => settled # "no",
           \A b \in Actors : pure' = b /\ pc'[b] \in RebuildSteps =>
               \/ pc'[b] = "rb_assignments"
               \/ pure = b /\ pc'[b] = pc[b] /\ todo'[b] = todo[b]
    PROVE  OneRule'
<1>1. DuplicatesRemoved'
    BY DEF OneRule, DuplicatesRemoved
<1>2. ASSUME NEW b \in Actors, pure' = b PROVE PureOnce(b)'
    <2>1. CASE pc'[b] \notin RebuildSteps \/ pc'[b] = "rb_assignments"
        BY <2>1 DEF PureOnce, RebuildSteps, BuildSteps
    <2>2. CASE pure = b /\ pc'[b] = pc[b] /\ todo'[b] = todo[b]
        <3>1. PureOnce(b)
            BY <2>2 DEF OneRule
        <3> QED
            BY <2>2, <3>1 DEF PureOnce
    <2> QED
        BY <1>2, <2>1, <2>2
<1> QED
    BY <1>1, <1>2 DEF OneRule

\* A step inside a refresh of the sets keeps the counts.
LEMMA OneApply ==
    ASSUME IInv, OneRule, NEW a \in Actors, pc[a] \in ApplySteps, UNCHANGED <<rules, groups>>,
           UNCHANGED history, pc'[a] \notin RebuildSteps
    PROVE  OneRule'
<1>1. pc[a] \in EngineSteps
    BY DEF EngineSteps
<1>2. \A b \in Actors : pure' = b => b = a
    BY <1>1, PureIsMe DEF history
<1> QED
    BY <1>2, OneKept DEF history

\* A step outside the engine: an undisturbed call is another actor's.
LEMMA OneOutside ==
    ASSUME IInv, OneRule, NEW a \in Actors, pc[a] \notin EngineSteps, OthersRest(a),
           UNCHANGED <<rules, groups>>, pure' \in {pure, NoActor},
           settled' # "no" => settled # "no"
    PROVE  OneRule'
<1>1. ASSUME NEW b \in Actors, pure' = b
      PROVE  pure = b /\ pc'[b] = pc[b] /\ todo'[b] = todo[b]
    <2>1. pure = b
        BY <1>1, ActorsAssumption
    <2>2. b # a
        BY <2>1 DEF IInv, PureOK
    <2> QED
        BY <2>1, <2>2 DEF OthersRest
<1> QED
    BY <1>1, OneKept

LEMMA OneEngine ==
    ASSUME IInv, OneRule, FewRules, FewRebuilds, NEW a \in Actors, EngineStep(a)
    PROVE  OneRule'
<1> USE DEF Goto
<1>0. TypeOK /\ groups \subseteq Groups /\ \A g \in Groups : rules[g] \in Nat
    BY DEF IInv, TypeOK
<1>1. /\ \A v : [pc EXCEPT ![a] = v][a] = v
      /\ \A v : [todo EXCEPT ![a] = v][a] = v
    BY <1>0 DEF TypeOK
<1>2. ASSUME pure = a, pc[a] \in RebuildSteps
      PROVE  snap[a].groups = groups /\ PureOnce(a)
    BY <1>2 DEF IInv, PureOK, RebuildOK, OneRule
<1>3. CASE ReadGroups(a)
    <2>1. UNCHANGED <<rules, groups>> /\ settled' = "no" /\ pure' \in {a, NoActor}
        BY <1>3 DEF ReadGroups, BeginRebuild, policy, db
    <2>2. pc'[a] = "rb_assignments"
        BY <1>1, <1>3 DEF ReadGroups
    <2> QED
        BY <2>1, <2>2, OneKept, ActorsAssumption
<1>4. CASE ReadAssignments(a)
    <2>1. pc'[a] = "rb_stale" /\ pc[a] \in RebuildSteps /\ UNCHANGED history
        BY <1>1, <1>4 DEF ReadAssignments, RebuildSteps
    <2> QED
        BY <2>1, OneRebuild DEF PureOnce, BuildSteps
<1>5. CASE CleanupStale(a)
    <2>1. /\ pc[a] \in RebuildSteps /\ UNCHANGED history
          /\ pc'[a] = "rb_flush" /\ todo'[a] = snap[a].groups /\ groups' = groups
        BY <1>1, <1>5 DEF CleanupStale, RebuildSteps, db
    <2>2. pure = a => PureOnce(a)'
        BY <1>2, <2>1 DEF PureOnce, BuildSteps
    <2> QED
        BY <2>1, <2>2, OneRebuild
<1>6. CASE FlushNext(a)
    <2>1. PICK g \in todo[a] : FlushGroupRule(g) /\ todo' = [todo EXCEPT ![a] = @ \ {g}]
        BY <1>6 DEF FlushNext
    <2>2. /\ pc[a] = "rb_flush" /\ pc[a] \in RebuildSteps /\ UNCHANGED history
          /\ pc' = pc /\ groups' = groups
        BY <1>6 DEF FlushNext, RebuildSteps, db
    <2>3. g \in Groups /\ rules[g] <= FlushTries
        <3>1. g \in Groups
            BY <1>0, <2>1 DEF TypeOK
        <3>2. rules[g] + Cardinality(Owing(g)) <= FlushTries
            BY <3>1 DEF FewRules, FewRulesOf
        <3> QED
            BY <1>0, <3>1, <3>2, OwingSmall DEF FlushTries
    <2>4. rules'[g] = 0 /\ \A h \in Groups \ {g} : rules'[h] = rules[h]
        BY <1>0, <2>1, <2>3 DEF FlushGroupRule, FlushTries, TypeOK
    <2>5. todo'[a] = todo[a] \ {g}
        BY <1>1, <2>1
    <2>6. pure = a => PureOnce(a)'
        BY <1>0, <1>2, <2>2, <2>4, <2>5 DEF PureOnce, BuildSteps
    <2> QED
        BY <2>2, <2>6, OneRebuild
<1>7. CASE FlushDone(a)
    <2>1. /\ pc[a] = "rb_flush" /\ pc[a] \in RebuildSteps /\ UNCHANGED history
          /\ UNCHANGED <<rules, groups>>
          /\ todo[a] = {} /\ pc'[a] = "rb_build" /\ todo'[a] = snap[a].groups
        BY <1>1, <1>7 DEF FlushDone, RebuildSteps, db, policy
    <2>2. pure = a => PureOnce(a)'
        BY <1>2, <2>1 DEF PureOnce, BuildSteps
    <2> QED
        BY <2>1, <2>2, OneRebuild
<1>8. CASE ReadStatus(a) \/ ReplaceRoute(a)
    <2>1. /\ pc[a] \in BuildSteps /\ pc[a] \in RebuildSteps /\ pc'[a] \in BuildSteps
          /\ UNCHANGED <<rules, groups, todo>> /\ UNCHANGED history
        BY <1>1, <1>8 DEF ReadStatus, ReplaceRoute, RebuildSteps, BuildSteps, db, policy
    <2>2. pure = a => PureOnce(a)'
        BY <1>2, <2>1 DEF PureOnce, BuildSteps
    <2> QED
        BY <2>1, <2>2, OneRebuild
<1>9. CASE AddRule(a)
    <2>1. PICK g \in todo[a] : /\ rules' = [rules EXCEPT ![g] = @ + 1]
                               /\ todo' = [todo EXCEPT ![a] = @ \ {g}]
        BY <1>9 DEF AddRule
    <2>2. /\ pc[a] \in BuildSteps /\ pc[a] \in RebuildSteps /\ pc'[a] = "rb_build"
          /\ groups' = groups /\ UNCHANGED history
        BY <1>1, <1>9 DEF AddRule, RebuildSteps, BuildSteps, db
    <2>3. g \in Groups /\ todo'[a] = todo[a] \ {g}
        BY <1>0, <1>1, <2>1 DEF TypeOK
    <2>4. \A h \in Groups : rules'[h] = IF h = g THEN rules[h] + 1 ELSE rules[h]
        BY <1>0, <2>1, <2>3 DEF TypeOK
    <2>5. pure = a => PureOnce(a)'
        BY <1>0, <1>2, <2>1, <2>2, <2>3, <2>4 DEF PureOnce, BuildSteps
    <2> QED
        BY <2>2, <2>5, OneRebuild
<1>10. CASE DeleteNftTable(a)
    <2>1. /\ pc[a] \in BuildSteps /\ pc[a] \in RebuildSteps /\ pc'[a] \in BuildSteps
          /\ UNCHANGED <<rules, groups, todo>> /\ UNCHANGED history /\ pc'[a] = "rb_nft_load"
        BY <1>1, <1>10 DEF DeleteNftTable, RebuildSteps, BuildSteps, db, policy
    <2>2. pure = a => PureOnce(a)'
        BY <1>2, <2>1 DEF PureOnce, BuildSteps
    <2> QED
        BY <2>1, <2>2, OneRebuild
<1>11. CASE LoadNftTable(a)
    <2>1. /\ pc[a] = "rb_nft_load" /\ pc[a] \in RebuildSteps /\ UNCHANGED <<rules, groups>>
          /\ Complete(a)
        BY <1>11 DEF LoadNftTable, RebuildSteps, db, policy
    <2>2. CASE pure = a
        <3>1. todo[a] = {}
            BY <2>1, <2>2 DEF IInv, PureOK, RebuildOK
        <3>2. \A g \in groups : rules[g] = 1
            BY <1>2, <2>1, <2>2, <3>1 DEF PureOnce, BuildSteps
        <3>3. pure' = NoActor
            BY <2>1, <2>2 DEF Complete
        <3> QED
            BY <2>1, <3>2, <3>3, ActorsAssumption DEF OneRule, DuplicatesRemoved
    <2>3. CASE pure # a
        BY <2>1, <2>3, OneRebuild DEF Complete
    <2> QED
        BY <2>2, <2>3
<1>12. CASE ApplyReadGroups(a)
    <2>1. UNCHANGED <<rules, groups>> /\ pc'[a] = "ap_assignments"
        BY <1>1, <1>12 DEF ApplyReadGroups, db, policy
    <2>2. pure' \in {a, NoActor} /\ (settled' # "no" => settled # "no")
        BY <1>12 DEF ApplyReadGroups, BeginApply, Disturb
    <2> QED
        BY <2>1, <2>2, OneKept, ActorsAssumption DEF RebuildSteps
<1>13. CASE ApplyReadAssignments(a)
    <2>1. /\ pc[a] \in ApplySteps /\ pc'[a] \notin RebuildSteps
          /\ UNCHANGED <<rules, groups>> /\ UNCHANGED history
        BY <1>1, <1>13 DEF ApplyReadAssignments, ApplySteps, RebuildSteps, db, policy
    <2> QED
        BY <2>1, OneApply
<1>14. CASE FlushSet(a)
    <2>1. PICK g \in todo[a] : pc' = pc \/ pc' = [pc EXCEPT ![a] = "ap_add"]
        BY <1>14 DEF FlushSet
    <2>2. pc[a] = "ap_flush" /\ UNCHANGED <<rules, groups>> /\ UNCHANGED history
        BY <1>14 DEF FlushSet, db, policy
    <2>3. pc[a] \in ApplySteps /\ pc'[a] \notin RebuildSteps
        BY <1>1, <2>1, <2>2 DEF ApplySteps, RebuildSteps
    <2> QED
        BY <2>2, <2>3, OneApply
<1>15. CASE AddElements(a)
    <2>1. /\ pc[a] \in ApplySteps /\ pc'[a] \notin RebuildSteps
          /\ UNCHANGED <<rules, groups>> /\ UNCHANGED history
        BY <1>1, <1>15 DEF AddElements, ApplySteps, RebuildSteps, db, policy
    <2> QED
        BY <2>1, OneApply
<1>16. CASE ApplyDone(a)
    <2>1. pc[a] \in ApplySteps /\ UNCHANGED <<rules, groups>> /\ Complete(a)
        BY <1>16 DEF ApplyDone, ApplySteps, db, policy
    <2>2. pc'[a] \notin RebuildSteps
        BY <1>0, <2>1, CompleteFields DEF RebuildSteps
    <2>3. CASE pure = a
        <3>1. settled # "no"
            BY <2>1, <2>3 DEF IInv, PureOK, ApplyOK
        <3>2. pure' = NoActor
            BY <2>1, <2>3 DEF Complete
        <3> QED
            BY <2>1, <3>1, <3>2, OneKept, ActorsAssumption
    <2>4. CASE pure # a
        BY <2>1, <2>2, <2>4, OneApply DEF Complete
    <2> QED
        BY <2>3, <2>4
<1>17. CASE \/ CleanupUnreadable(a) \/ SetMissing(a) \/ RouteRefused(a) \/ RuleRefused(a)
            \/ ElementsRefused(a) \/ CommandFails(a)
    <2>1. Disturb
        BY <1>17 DEF CleanupUnreadable, SetMissing, RouteRefused, RuleRefused, ElementsRefused,
                     CommandFails, Abort
    <2> QED
        BY <2>1, OneDisturb
<1> QED
    BY <1>3, <1>4, <1>5, <1>6, <1>7, <1>8, <1>9, <1>10, <1>11, <1>12, <1>13, <1>14, <1>15,
       <1>16, <1>17 DEF EngineStep

LEMMA OneOthers ==
    ASSUME IInv, OneRule,
           ReconcilerStep \/ (\E h \in Handlers : HandlerStep(h)) \/ Environment \/ UNCHANGED vars
    PROVE  OneRule'
<1> USE DEF Goto
<1>0. TypeOK
    BY DEF IInv
<1>1. CASE ReconcilerStep
    <2>1. Reconciler \in Actors
        BY DEF Actors
    <2>2. /\ UNCHANGED <<rules, groups, todo, snap>> /\ UNCHANGED history
          /\ pc[Reconciler] \in {"boot", "booted", "idle", "reconciled"}
          /\ \E s \in {"rb_groups", "idle"} : pc' = [pc EXCEPT ![Reconciler] = s]
        BY <1>1 DEF ReconcilerStep, BootRebuild, StartReconciler, ReconcilerTick,
                    CommitSignature, HealthFails, db, policy
    <2>3. pc[Reconciler] \notin EngineSteps
        BY <2>2 DEF EngineSteps, RebuildSteps, ApplySteps
    <2>4. OthersRest(Reconciler)
        BY <1>0, <2>1, <2>2 DEF OthersRest, TypeOK
    <2> QED
        BY <2>1, <2>2, <2>3, <2>4, OneOutside DEF history
<1>2. ASSUME NEW h \in Handlers, HandlerStep(h)
      PROVE  OneRule'
    <2>1. h \in Actors
        BY DEF Actors
    <2>2. CASE EditGroup(h) \/ CreateGroup(h) \/ DeleteGroup(h) \/ DeleteCommit(h)
        <3>1. Disturb
            BY <2>2 DEF EditGroup, CreateGroup, DeleteGroup, DeleteCommit
        <3> QED
            BY <3>1, OneDisturb
    <2>3. CASE ChooseGroup(h) \/ AssignClient(h) \/ OverrideClient(h) \/ NotReady(h)
               \/ OverrideExpires(h) \/ ExpireOnce(h) \/ RebuildNow(h)
        <3>1. /\ pc[h] \in {"idle", "chosen", "expired"} /\ UNCHANGED <<rules, groups, snap>>
              /\ \E s \in {"rb_groups", "ap_groups", "idle", "chosen", "expired"} :
                     pc' = [pc EXCEPT ![h] = s]
            BY <2>3 DEF ChooseGroup, AssignClient, OverrideClient, NotReady, OverrideExpires,
                        ExpireOnce, RebuildNow, Edit, Commit, Then, db, policy
        <3>2. todo' = todo \/ \E T \in SUBSET Groups : todo' = [todo EXCEPT ![h] = T]
            BY <1>0, <1>2, HandlerTodo
        <3>3. pure' \in {pure, NoActor} /\ (settled' # "no" => settled # "no")
            BY <2>3 DEF ChooseGroup, AssignClient, OverrideClient, NotReady, OverrideExpires,
                        ExpireOnce, RebuildNow, Reassigned, history
        <3>4. OthersRest(h)
            BY <1>0, <2>1, <3>1, <3>2 DEF OthersRest, TypeOK
        <3>5. pc[h] \notin EngineSteps
            BY <3>1 DEF EngineSteps, RebuildSteps, ApplySteps
        <3> QED
            BY <2>1, <3>1, <3>3, <3>4, <3>5, OneOutside
    <2> QED
        BY <1>2, <2>2, <2>3 DEF HandlerStep
<1>3. CASE Environment
    <2>1. Disturb
        BY <1>3 DEF Environment, Restart, TunnelUp, TunnelStall, DeviceGone, TunnelEvent
    <2> QED
        BY <2>1, OneDisturb
<1>4. CASE UNCHANGED vars
    <2>1. UNCHANGED <<rules, groups, pc, todo, pure, settled>>
        BY <1>4 DEF vars, db, policy, call, history
    <2> QED
        BY <2>1, OneKept
<1> QED
    BY <1>1, <1>2, <1>3, <1>4

\* The bound and the counts, on top of the invariant of settled states.
OnceInv == IInv /\ FewRules /\ OneRule

LEMMA OnceInit == Init /\ FewRebuilds => OnceInv
<1> SUFFICES ASSUME Init, FewRebuilds PROVE OnceInv
    OBVIOUS
<1>1. IInv
    BY InvInit
<1>2. OneRule
    BY ActorsAssumption DEF Init, OneRule, DuplicatesRemoved
<1>3. ASSUME NEW g \in Groups PROVE FewRulesOf(g)
    <2>1. rules[g] = 0
        BY DEF Init
    <2> QED
        BY <2>1, OwingSmall DEF FewRulesOf, FlushTries
<1> QED
    BY <1>1, <1>2, <1>3 DEF OnceInv, FewRules

LEMMA OnceNext == OnceInv /\ FewRebuilds /\ FewRebuilds' /\ [Next]_vars => OnceInv'
<1> SUFFICES ASSUME OnceInv, FewRebuilds, FewRebuilds', [Next]_vars PROVE OnceInv'
    OBVIOUS
<1>1. IInv' /\ TypeOK /\ TypeOK'
    BY InvNext DEF OnceInv, IInv
<1>2. CASE \E a \in Actors : EngineStep(a)
    BY <1>1, <1>2, FewEngine, OneEngine DEF OnceInv
<1>3. CASE ReconcilerStep \/ (\E h \in Handlers : HandlerStep(h)) \/ Environment \/ UNCHANGED vars
    BY <1>1, <1>3, FewOutside, OneOthers DEF OnceInv
<1> QED
    BY <1>2, <1>3 DEF Next

\* While no more rebuilds overlap than _flush_group_rule has tries, the next
\* undisturbed rebuild leaves one rule per group, however many its predecessors
\* have added and whichever of them failed or were cut short by a restart.
THEOREM DuplicatesGo == Spec /\ []FewRebuilds => []DuplicatesRemoved
<1>1. OnceInv => DuplicatesRemoved
    BY DEF OnceInv, OneRule
<1> QED
    BY OnceInit, OnceNext, <1>1, PTL DEF Spec
=============================================================================
